------------------------------ MODULE TunnelCodec ------------------------------
(***************************************************************************)
(* The three message classes of lib/aws-iot-tunnel/protobuf-messages.js.   *)
(*                                                                         *)
(* A message is a function from the names of its own properties to their   *)
(* values; what is not an own property has the value of the prototype.     *)
(* An encoded message is a function from field numbers to the values that  *)
(* have the number, in the order of the bytes: what decode makes of a      *)
(* field does not depend on fields of other numbers.  How a value is laid  *)
(* out in bytes is protobufjs's business.  The code has one copy of each   *)
(* function per version, with the fields spelled out; here each copy is    *)
(* the table of what it spells out, and one operator says what a copy does *)
(* with it.                                                                *)
(***************************************************************************)
EXTENDS Naturals, SequencesExt

Versions == {"V1", "V2", "V3"}

(* The names of encode's writes, in order; position i is written with id i. *)
V1Written == <<"type", "streamId", "ignorable", "payload">>
V2Written == <<"type", "streamId", "ignorable", "payload", "serviceId",
               "availableServiceIds">>
V3Written == <<"type", "streamId", "ignorable", "payload", "serviceId",
               "availableServiceIds", "connectionId">>
Written(v) == CASE v = "V1" -> V1Written [] v = "V2" -> V2Written [] v = "V3" -> V3Written

(* mutant: V3's decode has no case for the field it adds to V2.            *)
V3ReadForgotten == <<"type", "streamId", "ignorable", "payload", "serviceId",
                     "availableServiceIds">>

(* The cases of decode: the property that field i is stored in.            *)
V1Read == <<"type", "streamId", "ignorable", "payload">>
V2Read == <<"type", "streamId", "ignorable", "payload", "serviceId",
            "availableServiceIds">>
V3Read == <<"type", "streamId", "ignorable", "payload", "serviceId",
            "availableServiceIds", "connectionId">>
Read(v) == CASE v = "V1" -> V1Read [] v = "V2" -> V2Read [] v = "V3" -> V3Read

(* The names of the values of Type, from 0 on.                             *)
V1Type == <<"UNKNOWN", "DATA", "STREAM_START", "STREAM_END">>
V2Type == <<"UNKNOWN", "DATA", "STREAM_START", "STREAM_RESET", "SESSION_RESET",
            "SERVICE_IDS">>
V3Type == <<"UNKNOWN", "DATA", "STREAM_START", "STREAM_RESET", "SESSION_RESET",
            "SERVICE_IDS", "CONNECTION_START", "CONNECTION_RESET">>
TypeNames(v) == CASE v = "V1" -> V1Type [] v = "V2" -> V2Type [] v = "V3" -> V3Type

(* The values of type that verify lets pass.                               *)
V1Verified == 0 .. 3
V2Verified == 0 .. 5
V3Verified == 0 .. 7
Verified(v) == CASE v = "V1" -> V1Verified [] v = "V2" -> V2Verified
                 [] v = "V3" -> V3Verified

(* The cases of fromObject: the value each name of a type stands for.      *)
V1Named == [UNKNOWN |-> 0, DATA |-> 1, STREAM_START |-> 2, STREAM_END |-> 3]
V2Named == [UNKNOWN |-> 0, DATA |-> 1, STREAM_START |-> 2, STREAM_RESET |-> 3,
            SESSION_RESET |-> 4, SERVICE_IDS |-> 5]
V3Named == [UNKNOWN |-> 0, DATA |-> 1, STREAM_START |-> 2, STREAM_RESET |-> 3,
            SESSION_RESET |-> 4, SERVICE_IDS |-> 5, CONNECTION_START |-> 6,
            CONNECTION_RESET |-> 7]
Named(v) == CASE v = "V1" -> V1Named [] v = "V2" -> V2Named [] v = "V3" -> V3Named

(* The properties that toObject copies.                                    *)
V1Copied == {"type", "streamId", "ignorable", "payload"}
V2Copied == V1Copied \cup {"serviceId", "availableServiceIds"}
V3Copied == V2Copied \cup {"connectionId"}
Copied(v) == CASE v = "V1" -> V1Copied [] v = "V2" -> V2Copied [] v = "V3" -> V3Copied

(* The prototypes.  Payloads are numbered, 0 is the empty buffer.          *)
Empty == 0
Default == [type |-> 0, streamId |-> 0, ignorable |-> FALSE, payload |-> Empty,
            serviceId |-> "", availableServiceIds |-> <<>>, connectionId |-> 0]

Get(m, f) == IF f \in DOMAIN m THEN m[f] ELSE Default[f]

-----------------------------------------------------------------------------
Repeated == "availableServiceIds"

(* The constructor, which create calls: it copies whatever it is given, of *)
(* this version or not; from V2 on the repeated field is always there.     *)
Create(v, properties) ==
    IF v = "V1" \/ Repeated \in DOMAIN properties THEN properties
    ELSE [f \in DOMAIN properties \cup {Repeated} |->
             IF f \in DOMAIN properties THEN properties[f] ELSE <<>>]

(* encode: the own properties that the version knows.  An empty repeated   *)
(* field writes nothing.                                                   *)
Field(m, f) == IF f = Repeated THEN m[f] ELSE <<m[f]>>

Encode(v, m) ==
    [i \in {i \in DOMAIN Written(v) : Written(v)[i] \in DOMAIN m} |-> Field(m, Written(v)[i])]

(* decode: a field that occurs again replaces the one before, except for   *)
(* the repeated one; fields the version does not know are skipped.         *)
Decode(v, wire) ==
    LET read == Read(v)
        Number(f) == CHOOSE i \in DOMAIN read : read[i] = f
        seen == {read[i] : i \in {i \in DOMAIN read \cap DOMAIN wire : wire[i] # <<>>}}
        Value(f) == IF f = Repeated THEN wire[Number(f)] ELSE Last(wire[Number(f)])
    IN  Create(v, [f \in seen |-> Value(f)])

(* verify, on a message whose properties have the types that decode gives. *)
Verify(v, m) == "type" \in DOMAIN m => m.type \in Verified(v)

(* toObject with the options of toJSON: a type by its name, if it has one, *)
(* and payloads in base64.  It leaves out an empty repeated field.         *)
ToJSON(v, m) ==
    LET own == {f \in DOMAIN m \cap Copied(v) : f = Repeated => m[f] # <<>>} IN
    [f \in own |->
        CASE f = "type" /\ m.type < Len(TypeNames(v))  -> <<"name", TypeNames(v)[m.type + 1]>>
          [] f = "type" /\ m.type >= Len(TypeNames(v)) -> <<"number", m.type>>
          [] f = "payload" -> <<"base64", m.payload>>
          [] OTHER -> m[f]]

(* fromObject of such an object: a name it has no case for leaves the type *)
(* unset.  The coercions of the other properties (`| 0', `>>> 0', String,  *)
(* Boolean) leave what decode produced as it is.                           *)
FromObject(v, o) ==
    LET Known(f) == f = "type" /\ o.type[1] = "name" => o.type[2] \in DOMAIN Named(v) IN
    Create(v, [f \in {f \in DOMAIN o : Known(f)} |->
        CASE f = "type" -> IF o.type[1] = "name" THEN Named(v)[o.type[2]] ELSE o.type[2]
          [] f = "payload" -> o.payload[2]
          [] OTHER -> o[f]])
=============================================================================
