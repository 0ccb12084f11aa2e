---------------------------- MODULE TunnelPeersProofs ----------------------------
(***************************************************************************)
(* Theorems about TunnelCodec and TunnelPeers: messages of any content and *)
(* any number, between ends of any two versions.  The codec first: the     *)
(* tables of a version are beginnings of those of V3, so that what decode  *)
(* finds is what encode wrote, as far as both tables go (Decoded).  Then   *)
(* what one end was given to send, as it moves from the queue to the       *)
(* channel and on to the other client (Flow...): sending, arriving and     *)
(* getting lost each keep the order and the sum.                           *)
(***************************************************************************)
EXTENDS TunnelPeers, TLAPS

(* The codec.                                                               *)

\* The fields of a version are the first ones of V3, in encode and in decode.
LEMMA Tables ==
  ASSUME NEW v \in Versions
  PROVE  \E n \in 1 .. 7 :
           /\ n > 3 /\ (n < 6 <=> v = "V1")
           /\ DOMAIN Written(v) = 1 .. n /\ DOMAIN Read(v) = 1 .. n
           /\ \A i \in 1 .. n : Written(v)[i] = V3Written[i] /\ Read(v)[i] = V3Written[i]
<1>1. CASE v = "V1"
  <2>1. Written(v) = V1Written /\ Read(v) = V1Read
    BY <1>1 DEF Written, Read
  <2> QED
    BY <1>1, <2>1 DEF V1Written, V1Read, V3Written
<1>2. CASE v = "V2"
  <2>1. Written(v) = V2Written /\ Read(v) = V2Read
    BY <1>2 DEF Written, Read
  <2> QED
    BY <1>2, <2>1 DEF V2Written, V2Read, V3Written
<1>3. CASE v = "V3"
  <2>1. Written(v) = V3Written /\ Read(v) = V3Read
    BY <1>3 DEF Written, Read
  <2> QED
    BY <1>3, <2>1 DEF V3Read, V3Written
<1> QED
  BY <1>1, <1>2, <1>3 DEF Versions

LEMMA Names ==
  /\ \A i, j \in 1 .. 7 : V3Written[i] = V3Written[j] => i = j
  /\ \A i \in 1 .. 7 : V3Written[i] = Repeated <=> i = 6
  /\ DOMAIN Default = {V3Written[i] : i \in 1 .. 7}
  /\ V3Written[1] = "type" /\ V3Written[2] = "streamId" /\ V3Written[4] = "payload"
BY DEF V3Written, Repeated, Default

\* The constructor adds the repeated field, empty.
LEMMA Created ==
  ASSUME NEW v, NEW m
  PROVE  /\ DOMAIN m \subseteq DOMAIN Create(v, m)
         /\ DOMAIN Create(v, m) \subseteq DOMAIN m \cup {Repeated}
         /\ v # "V1" => Repeated \in DOMAIN Create(v, m)
         /\ v = "V1" => Create(v, m) = m
         /\ \A f \in DOMAIN m : Create(v, m)[f] = m[f]
         /\ Repeated \in DOMAIN Create(v, m) \ DOMAIN m => Create(v, m)[Repeated] = <<>>
<1>1. CASE v = "V1" \/ Repeated \in DOMAIN m
  <2>1. Create(v, m) = m
    BY <1>1 DEF Create
  <2> QED
    BY <1>1, <2>1
<1>2. CASE ~(v = "V1" \/ Repeated \in DOMAIN m)
  <2>1. Create(v, m) = [f \in DOMAIN m \cup {Repeated} |-> IF f \in DOMAIN m THEN m[f] ELSE <<>>]
    BY <1>2 DEF Create
  <2> HIDE DEF Create
  <2> QED
    BY <1>2, <2>1
<1> QED
  BY <1>1, <1>2

\* What a message is that decode can be given, and what it is made of: its
\* properties are those of the newest version, and it has a type.
IsMeaning(m) ==
    /\ m = [f \in DOMAIN m |-> m[f]]
    /\ DOMAIN m \subseteq DOMAIN Default
    /\ "type" \in DOMAIN m
    /\ m.type \in Nat

\* The properties that get from an encoder of version b to a decoder of version v.
Common(b, v, m) ==
    {f \in DOMAIN m : /\ f \in ToSet(Written(b)) \cap ToSet(Read(v))
                      /\ f = Repeated => m[f] # <<>>}

LEMMA Decoded ==
  ASSUME NEW b \in Versions, NEW v \in Versions, NEW m, IsMeaning(m)
  PROVE  Decode(v, Encode(b, Create(b, m))) = Create(v, [f \in Common(b, v, m) |-> m[f]])
<1> DEFINE c == Create(b, m)
           wire == Encode(b, c)
<1>1. PICK nb \in 1 .. 7 :
        /\ DOMAIN Written(b) = 1 .. nb
        /\ \A i \in 1 .. nb : Written(b)[i] = V3Written[i]
  BY Tables
<1>2. PICK nv \in 1 .. 7 :
        /\ DOMAIN Read(v) = 1 .. nv
        /\ \A i \in 1 .. nv : Read(v)[i] = V3Written[i]
  BY Tables
<1>3. /\ DOMAIN m \subseteq DOMAIN c /\ DOMAIN c \subseteq DOMAIN m \cup {Repeated}
      /\ \A f \in DOMAIN m : c[f] = m[f]
      /\ Repeated \in DOMAIN c \ DOMAIN m => c[Repeated] = <<>>
  BY Created
<1> HIDE DEF c
<1>4. wire = [i \in {i \in 1 .. nb : V3Written[i] \in DOMAIN c} |-> Field(c, V3Written[i])]
  BY <1>1 DEF Encode
<1> HIDE DEF wire
<1> DEFINE read == Read(v)
           Number(f) == CHOOSE i \in DOMAIN read : read[i] = f
           seen == {read[i] : i \in {i \in DOMAIN read \cap DOMAIN wire : wire[i] # <<>>}}
           Value(f) == IF f = Repeated THEN wire[Number(f)] ELSE Last(wire[Number(f)])
<1>5. Decode(v, wire) = Create(v, [f \in seen |-> Value(f)])
  BY DEF Decode
<1>6. \A i \in 1 .. nv : Number(V3Written[i]) = i
  BY <1>2, Names
<1>7. ASSUME NEW i \in 1 .. 7, i <= nb, i <= nv, V3Written[i] \in DOMAIN c
      PROVE  /\ wire[i] # <<>> <=> (i = 6 => c[V3Written[i]] # <<>>)
             /\ wire[i] # <<>> => Value(V3Written[i]) = c[V3Written[i]]
  <2>1. wire[i] = Field(c, V3Written[i])
    BY <1>4, <1>7
  <2>2. Number(V3Written[i]) = i
    BY <1>6, <1>7
  <2>3. V3Written[i] = Repeated <=> i = 6
    BY Names
  <2> HIDE DEF Number
  <2>4. CASE i = 6
    BY <2>1, <2>2, <2>3, <2>4 DEF Field
  <2>5. CASE i # 6
    <3>1. wire[i] = <<c[V3Written[i]]>>
      BY <2>1, <2>3, <2>5 DEF Field
    <3>2. Last(wire[i]) = c[V3Written[i]] /\ wire[i] # <<>>
      BY <3>1 DEF Last
    <3> QED
      BY <2>2, <2>3, <2>5, <3>2
  <2> QED
    BY <2>4, <2>5
<1>8. seen = Common(b, v, m)
  <2>1. seen = {V3Written[i] : i \in {i \in 1 .. 7 : /\ i <= nb /\ i <= nv
                                                     /\ V3Written[i] \in DOMAIN c
                                                     /\ i = 6 => c[V3Written[i]] # <<>>}}
    <3> DEFINE J == {i \in 1 .. 7 : /\ i <= nb /\ i <= nv /\ V3Written[i] \in DOMAIN c
                                    /\ i = 6 => c[V3Written[i]] # <<>>}
    <3>1. DOMAIN read = 1 .. nv /\ DOMAIN wire = {i \in 1 .. nb : V3Written[i] \in DOMAIN c}
      BY <1>2, <1>4
    <3>2. {i \in DOMAIN read \cap DOMAIN wire : wire[i] # <<>>} = J
      <4> HIDE DEF read, Value, Number, seen
      <4>1. \A i \in 1 .. 7 : i <= nb /\ i <= nv /\ V3Written[i] \in DOMAIN c
                => (wire[i] # <<>> <=> (i = 6 => c[V3Written[i]] # <<>>))
        BY <1>7
      <4>2. ASSUME NEW i \in DOMAIN read \cap DOMAIN wire, wire[i] # <<>>
            PROVE  i \in J
        <5>1. i \in 1 .. 7 /\ i <= nb /\ i <= nv /\ V3Written[i] \in DOMAIN c
          BY <3>1
        <5> QED
          BY <4>1, <4>2, <5>1
      <4>3. ASSUME NEW i \in J
            PROVE  i \in DOMAIN read \cap DOMAIN wire /\ wire[i] # <<>>
        <5>1. i \in 1 .. nb /\ i \in 1 .. nv
          OBVIOUS
        <5>2. i \in DOMAIN read \cap DOMAIN wire
          BY <3>1, <5>1
        <5> QED
          BY <4>1, <5>2
      <4> HIDE DEF J
      <4> QED
        BY <4>2, <4>3
    <3>3. \A i \in J : read[i] = V3Written[i]
      BY <1>2
    <3>4. seen = {read[i] : i \in J}
      BY <3>2
    <3> HIDE DEF J, read, seen
    <3>5. seen = {V3Written[i] : i \in J}
      BY <3>3, <3>4
    <3> QED
      BY <3>5 DEF J
  <2>2. ToSet(Written(b)) = {V3Written[i] : i \in 1 .. nb}
    BY <1>1 DEF ToSet
  <2>3. ToSet(Read(v)) = {V3Written[i] : i \in 1 .. nv}
    BY <1>2 DEF ToSet
  <2> HIDE DEF seen
  <2>4. ASSUME NEW f \in seen
        PROVE  f \in Common(b, v, m)
    <3>1. PICK i \in 1 .. 7 : /\ f = V3Written[i] /\ i <= nb /\ i <= nv /\ f \in DOMAIN c
                              /\ i = 6 => c[f] # <<>>
      BY <2>1, <2>4
    <3>2. f = Repeated <=> i = 6
      BY <3>1, Names
    <3>3. f \in DOMAIN m
      BY <1>3, <3>1, <3>2
    <3> QED
      BY <1>3, <2>2, <2>3, <3>1, <3>2, <3>3 DEF Common
  <2>5. ASSUME NEW f \in Common(b, v, m)
        PROVE  f \in seen
    <3>1. /\ f \in DOMAIN m /\ f \in DOMAIN c /\ c[f] = m[f]
          /\ f = Repeated => m[f] # <<>>
      BY <1>3, <2>5 DEF Common
    <3>2. PICK i \in 1 .. nb : f = V3Written[i]
      BY <2>2, <2>5 DEF Common
    <3>3. PICK j \in 1 .. nv : f = V3Written[j]
      BY <2>3, <2>5 DEF Common
    <3>4. i \in 1 .. 7 /\ j \in 1 .. 7 /\ i <= nb /\ j <= nv
      OBVIOUS
    <3>5. i = j /\ (i = 6 => f = Repeated)
      BY <3>2, <3>3, <3>4, Names
    <3>6. i = 6 => c[f] # <<>>
      BY <3>1, <3>5
    <3> QED
      BY <2>1, <3>1, <3>2, <3>4, <3>5, <3>6
  <2> QED
    BY <2>4, <2>5
<1>9. ASSUME NEW f \in seen
      PROVE  Value(f) = m[f]
  <2>1. PICK i \in DOMAIN read \cap DOMAIN wire : f = read[i] /\ wire[i] # <<>>
    BY <1>9
  <2>2. i \in 1 .. 7 /\ i <= nb /\ i <= nv /\ f = V3Written[i] /\ f \in DOMAIN c
    BY <1>2, <1>4, <2>1
  <2>3. Value(f) = c[f]
    BY <1>7, <2>1, <2>2
  <2>4. f \in DOMAIN m
    BY <1>8 DEF Common
  <2> QED
    BY <1>3, <2>3, <2>4
<1>10. [f \in seen |-> Value(f)] = [f \in Common(b, v, m) |-> m[f]]
  <2> HIDE DEF seen, Value
  <2> QED
    BY <1>8, <1>9
<1> QED
  <2> HIDE DEF seen, Value, Number
  <2>1. wire = Encode(b, Create(b, m))
    BY DEF wire, c
  <2> QED
    BY <1>5, <1>10, <2>1

\* The tables that verify, toObject and fromObject spell out go together.
LEMMA TypeTables ==
  ASSUME NEW v \in Versions
  PROVE  /\ Len(TypeNames(v)) \in Nat \ {0}
         /\ Verified(v) = 0 .. Len(TypeNames(v)) - 1
         /\ \A t \in Nat : t < Len(TypeNames(v)) =>
              /\ TypeNames(v)[t + 1] \in DOMAIN Named(v)
              /\ Named(v)[TypeNames(v)[t + 1]] = t
<1>1. CASE v = "V1"
  <2>1. TypeNames(v) = V1Type /\ Verified(v) = V1Verified /\ Named(v) = V1Named
    BY <1>1 DEF TypeNames, Verified, Named
  <2>2. Len(V1Type) = 4
    BY DEF V1Type
  <2>3. \A t \in Nat : t < 4 => V1Type[t + 1] \in DOMAIN V1Named /\ V1Named[V1Type[t + 1]] = t
    BY DEF V1Type, V1Named
  <2> QED
    BY <2>1, <2>2, <2>3 DEF V1Verified
<1>2. CASE v = "V2"
  <2>1. TypeNames(v) = V2Type /\ Verified(v) = V2Verified /\ Named(v) = V2Named
    BY <1>2 DEF TypeNames, Verified, Named
  <2>2. Len(V2Type) = 6
    BY DEF V2Type
  <2>3. \A t \in Nat : t < 6 => V2Type[t + 1] \in DOMAIN V2Named /\ V2Named[V2Type[t + 1]] = t
    BY DEF V2Type, V2Named
  <2> QED
    BY <2>1, <2>2, <2>3 DEF V2Verified
<1>3. CASE v = "V3"
  <2>1. TypeNames(v) = V3Type /\ Verified(v) = V3Verified /\ Named(v) = V3Named
    BY <1>3 DEF TypeNames, Verified, Named
  <2>2. Len(V3Type) = 8
    BY DEF V3Type
  <2>3. \A t \in Nat : t < 8 => V3Type[t + 1] \in DOMAIN V3Named /\ V3Named[V3Type[t + 1]] = t
    BY DEF V3Type, V3Named
  <2> QED
    BY <2>1, <2>2, <2>3 DEF V3Verified
<1> QED
  BY <1>1, <1>2, <1>3 DEF Versions

LEMMA FieldTables ==
  ASSUME NEW v \in Versions
  PROVE  /\ ToSet(Written(v)) = ToSet(Read(v))
         /\ ToSet(Read(v)) \subseteq Copied(v)
         /\ {"type", "streamId", "payload"} \subseteq ToSet(Read(v))
         /\ Repeated \in ToSet(Read(v)) <=> v # "V1"
<1>1. PICK n \in 1 .. 7 :
        /\ n > 3 /\ (n < 6 <=> v = "V1")
        /\ DOMAIN Written(v) = 1 .. n /\ DOMAIN Read(v) = 1 .. n
        /\ \A i \in 1 .. n : Written(v)[i] = V3Written[i] /\ Read(v)[i] = V3Written[i]
  BY Tables
<1>2. ToSet(Written(v)) = ToSet(Read(v))
  BY <1>1 DEF ToSet
<1>3. {"type", "streamId", "payload"} \subseteq ToSet(Read(v))
  <2>1. "type" = Read(v)[1] /\ "streamId" = Read(v)[2] /\ "payload" = Read(v)[4]
    BY <1>1, Names
  <2>2. 1 \in DOMAIN Read(v) /\ 2 \in DOMAIN Read(v) /\ 4 \in DOMAIN Read(v)
    BY <1>1
  <2> QED
    BY <2>1, <2>2 DEF ToSet
<1>4. Repeated \in ToSet(Read(v)) <=> v # "V1"
  <2>1. CASE v = "V1"
    <3>1. ~\E i \in 1 .. n : V3Written[i] = Repeated
      BY <1>1, <2>1, Names
    <3> QED
      BY <1>1, <2>1, <3>1 DEF ToSet
  <2>2. CASE v # "V1"
    <3>1. 6 \in 1 .. n /\ V3Written[6] = Repeated
      BY <1>1, <2>2, Names
    <3> QED
      BY <1>1, <2>2, <3>1 DEF ToSet
  <2> QED
    BY <2>1, <2>2
<1>5. ToSet(Read(v)) \subseteq Copied(v)
  <2>1. CASE v = "V1"
    BY <2>1 DEF Read, V1Read, Copied, V1Copied, ToSet
  <2>2. CASE v = "V2"
    BY <2>2 DEF Read, V2Read, Copied, V1Copied, V2Copied, ToSet
  <2>3. CASE v = "V3"
    BY <2>3 DEF Read, V3Read, Copied, V1Copied, V2Copied, V3Copied, ToSet
  <2> QED
    BY <2>1, <2>2, <2>3 DEF Versions
<1> QED
  BY <1>2, <1>3, <1>4, <1>5

\* What decode makes of a message has the values it was given, for the
\* properties that both versions know.
LEMMA GetDecoded ==
  ASSUME NEW b \in Versions, NEW v \in Versions, NEW m, IsMeaning(m), NEW f \in DOMAIN Default
  PROVE  Get(Decode(v, Encode(b, Create(b, m))), f) =
           IF f \in ToSet(Written(b)) \cap ToSet(Written(v)) THEN Get(m, f) ELSE Default[f]
<1> DEFINE g == [h \in Common(b, v, m) |-> m[h]]
           d == Create(v, g)
<1>1. Decode(v, Encode(b, Create(b, m))) = d
  BY Decoded
<1>2. /\ DOMAIN g = Common(b, v, m)
      /\ \A h \in Common(b, v, m) : g[h] = m[h]
  OBVIOUS
<1> HIDE DEF g
<1>3. /\ DOMAIN g \subseteq DOMAIN d /\ DOMAIN d \subseteq DOMAIN g \cup {Repeated}
      /\ \A h \in DOMAIN g : d[h] = g[h]
      /\ Repeated \in DOMAIN d \ DOMAIN g => d[Repeated] = <<>>
  BY Created
<1> HIDE DEF d
<1>4. Default[Repeated] = <<>>
  BY DEF Default, Repeated
<1>5. ToSet(Written(v)) = ToSet(Read(v))
  BY FieldTables
<1>6. CASE f \in Common(b, v, m)
  <2>1. f \in DOMAIN m /\ f \in ToSet(Written(b)) \cap ToSet(Written(v))
    BY <1>5, <1>6 DEF Common
  <2>2. Get(d, f) = m[f]
    BY <1>2, <1>3, <1>6 DEF Get
  <2> QED
    BY <1>1, <2>1, <2>2 DEF Get
<1>7. CASE f \notin Common(b, v, m)
  <2>1. Get(d, f) = Default[f]
    BY <1>2, <1>3, <1>4, <1>7 DEF Get
  <2>2. f \in ToSet(Written(b)) \cap ToSet(Written(v)) => Get(m, f) = Default[f]
    BY <1>4, <1>5, <1>7 DEF Get, Common
  <2> QED
    BY <1>1, <2>1, <2>2
<1> QED
  BY <1>6, <1>7

LEMMA JSONRoundTrip ==
  ASSUME NEW b \in Versions, NEW v \in Versions, NEW m, IsMeaning(m)
  PROVE  LET d == Create(v, [f \in Common(b, v, m) |-> m[f]]) IN FromObject(v, ToJSON(v, d)) = d
<1> DEFINE C == Common(b, v, m)
           g == [f \in C |-> m[f]]
           d == Create(v, g)
           o == ToJSON(v, d)
           own == {f \in DOMAIN d \cap Copied(v) : f = Repeated => d[f] # <<>>}
<1>1. /\ DOMAIN g = C
      /\ \A f \in C : g[f] = m[f]
  OBVIOUS
<1> HIDE DEF g
<1>2. /\ DOMAIN g \subseteq DOMAIN d /\ DOMAIN d \subseteq DOMAIN g \cup {Repeated}
      /\ \A f \in DOMAIN g : d[f] = g[f]
      /\ Repeated \in DOMAIN d \ DOMAIN g => d[Repeated] = <<>>
  BY Created
<1> HIDE DEF d
<1>3. own = C
  <2>1. C \subseteq Copied(v)
    BY FieldTables DEF Common
  <2>2. \A f \in C : f = Repeated => m[f] # <<>>
    BY DEF Common
  <2> HIDE DEF C
  <2> QED
    BY <1>1, <1>2, <2>1, <2>2
<1>4. "type" \in C /\ d["type"] = m["type"] /\ m["type"] \in Nat
  <2>1. "type" # Repeated
    BY DEF Repeated
  <2>2. "type" \in ToSet(Written(b)) \cap ToSet(Read(v))
    BY FieldTables
  <2>3. "type" \in C
    BY <2>1, <2>2 DEF Common, IsMeaning
  <2> QED
    BY <1>1, <1>2, <2>3 DEF IsMeaning
<1> DEFINE t == m["type"]
           N == Len(TypeNames(v))
           J(f) == CASE f = "type" /\ t < N  -> <<"name", TypeNames(v)[t + 1]>>
                     [] f = "type" /\ t >= N -> <<"number", t>>
                     [] f = "payload" -> <<"base64", d["payload"]>>
                     [] OTHER -> d[f]
<1>5. o = [f \in C |-> J(f)]
  <2>1. o = [f \in own |-> J(f)]
    BY <1>3, <1>4 DEF ToJSON
  <2> QED
    BY <1>3, <2>1
<1>6. /\ DOMAIN o = C
      /\ t < N => o["type"] = <<"name", TypeNames(v)[t + 1]>>
      /\ t >= N => o["type"] = <<"number", t>>
      /\ "payload" \in C => o["payload"] = <<"base64", d["payload"]>>
      /\ \A f \in C : f \notin {"type", "payload"} => o[f] = d[f]
  <2> HIDE DEF o, C
  <2>1. DOMAIN o = C /\ \A f \in C : o[f] = J(f)
    BY <1>5
  <2>2. o["type"] = J("type")
    BY <1>4, <2>1
  <2>3. N \in Nat /\ t \in Nat
    BY <1>4, TypeTables
  <2>4. /\ t < N => J("type") = <<"name", TypeNames(v)[t + 1]>>
        /\ t >= N => J("type") = <<"number", t>>
    BY <2>3
  <2>5. \A f \in C : f \notin {"type", "payload"} => J(f) = d[f]
    OBVIOUS
  <2>6. J("payload") = <<"base64", d["payload"]>>
    OBVIOUS
  <2> HIDE DEF J
  <2> QED
    BY <2>1, <2>2, <2>4, <2>5, <2>6
<1> HIDE DEF o, C, J, own
<1>7. N \in Nat /\ t \in Nat
  BY <1>4, TypeTables
<1> DEFINE Known(f) == f = "type" /\ o.type[1] = "name" => o.type[2] \in DOMAIN Named(v)
           B(f) == CASE f = "type" -> IF o.type[1] = "name" THEN Named(v)[o.type[2]] ELSE o.type[2]
                     [] f = "payload" -> o.payload[2]
                     [] OTHER -> o[f]
<1>8. FromObject(v, o) = Create(v, [f \in {f \in DOMAIN o : Known(f)} |-> B(f)])
  BY DEF FromObject
<1>9. /\ o["type"][1] = "name" => o["type"][2] \in DOMAIN Named(v) /\ Named(v)[o["type"][2]] = t
      /\ o["type"][1] # "name" => o["type"][2] = t
  <2>1. CASE t < N
    <3>1. o["type"][1] = "name" /\ o["type"][2] = TypeNames(v)[t + 1]
      BY <1>6, <2>1
    <3> HIDE DEF N, t
    <3>2. TypeNames(v)[t + 1] \in DOMAIN Named(v) /\ Named(v)[TypeNames(v)[t + 1]] = t
      BY <1>7, <2>1, TypeTables DEF N
    <3> QED
      BY <3>1, <3>2
  <2>2. CASE ~(t < N)
    <3>1. o["type"] = <<"number", t>>
      BY <1>6, <1>7, <2>2
    <3> QED
      BY <3>1
  <2> QED
    BY <2>1, <2>2
<1>10. {f \in DOMAIN o : Known(f)} = C
  BY <1>6, <1>9
<1>11. \A f \in C : B(f) = g[f]
  <2>1. B("type") = g["type"]
    BY <1>1, <1>4, <1>9
  <2>2. "payload" \in C => B("payload") = g["payload"]
    BY <1>1, <1>2, <1>6
  <2>3. ASSUME NEW f \in C, f \notin {"type", "payload"}
        PROVE  B(f) = g[f]
    BY <1>1, <1>2, <1>6, <2>3
  <2> HIDE DEF B
  <2> QED
    BY <2>1, <2>2, <2>3
<1>12. [f \in {f \in DOMAIN o : Known(f)} |-> B(f)] = g
  <2>1. [f \in {f \in DOMAIN o : Known(f)} |-> B(f)] = [f \in C |-> B(f)]
    BY <1>10
  <2>2. [f \in C |-> B(f)] = [f \in C |-> g[f]]
    <3> HIDE DEF B
    <3> QED
      BY <1>11
  <2>3. [f \in C |-> g[f]] = g
    BY <1>1 DEF g
  <2> QED
    BY <2>1, <2>2, <2>3
<1> QED
  BY <1>8, <1>12 DEF o, d, g, C

(* Any message: whatever its content and whichever versions encode and      *)
(* decode it, the properties that both know arrive with their values and    *)
(* the others have their defaults; the decoded message comes back from      *)
(* toJSON and fromObject as it was, and verify passes its type just when    *)
(* its version has a name for it (protobuf-messages.js).                    *)
THEOREM CodecAgrees ==
  ASSUME NEW b \in Versions, NEW v \in Versions, NEW m, IsMeaning(m)
  PROVE  Agree(Message(b, m), v)
<1> DEFINE wire == Encode(b, Create(b, m))
           d == Decode(v, wire)
<1>1. Message(b, m).wire = wire /\ Message(b, m).by = b /\ Message(b, m).meant = m
  BY DEF Message
<1>2. \A f \in DOMAIN Default :
        Get(d, f) = IF f \in ToSet(Written(b)) \cap ToSet(Written(v)) THEN Get(m, f) ELSE Default[f]
  BY GetDecoded
<1>3. FromObject(v, ToJSON(v, d)) = d
  <2> DEFINE e == Create(v, [f \in Common(b, v, m) |-> m[f]])
  <2>1. d = e
    BY Decoded
  <2>2. FromObject(v, ToJSON(v, e)) = e
    BY JSONRoundTrip
  <2> HIDE DEF d, e
  <2> QED
    BY <2>1, <2>2
<1>4. Verify(v, d) <=> Get(d, "type") < Len(TypeNames(v))
  <2>1. "type" \in DOMAIN Default /\ Default["type"] = 0
    BY DEF Default
  <2>2. "type" \in ToSet(Written(b)) \cap ToSet(Written(v))
    BY FieldTables
  <2>3. Get(d, "type") = m.type /\ m.type \in Nat
    BY <1>2, <2>1, <2>2 DEF Get, IsMeaning
  <2> HIDE DEF d
  <2>4. CASE "type" \in DOMAIN d
    BY <2>3, <2>4, TypeTables DEF Verify, Get
  <2>5. CASE "type" \notin DOMAIN d
    BY <2>1, <2>3, <2>5, TypeTables DEF Verify, Get
  <2> QED
    BY <2>4, <2>5
<1> HIDE DEF d, wire
<1> QED
  BY <1>1, <1>2, <1>3, <1>4 DEF Agree, d

-------------------------------------------------------------------------------
(* Messages and their types.                                                *)

\* What the two ends send each other.
Sent ==
    {DataMessage(v, n, id) : v \in Versions, n \in Nat, id \in Nat}
    \cup [type : {STREAM_RESET}, streamId : Nat]
    \cup [type : {STREAM_START}, streamId : Nat, serviceId : {"ssh"}]

Messages == {Message(v, m) : v \in Versions, m \in Sent}

LEMMA DataMessageFields ==
  ASSUME NEW v \in Versions, NEW n \in Nat, NEW id \in Nat
  PROVE  /\ DataMessage(v, n, id).type = DATA
         /\ DataMessage(v, n, id).streamId = id
         /\ DataMessage(v, n, id).payload = n
         /\ "payload" \in DOMAIN DataMessage(v, n, id)
         /\ "streamId" \in DOMAIN DataMessage(v, n, id)
         /\ IsMeaning(DataMessage(v, n, id))
         /\ DataMessage(v, n, id) \in Sent
<1>1. DataMessage(v, n, id) \in Sent
  BY DEF Sent
<1>2. CASE v = "V1"
  <2>1. DataMessage(v, n, id) = [type |-> DATA, streamId |-> id, payload |-> n]
    BY <1>2 DEF DataMessage
  <2> QED
    BY <1>1, <2>1 DEF IsMeaning, Default, DATA
<1>3. CASE v = "V2"
  <2>1. DataMessage(v, n, id) = [type |-> DATA, streamId |-> id, payload |-> n, serviceId |-> "ssh"]
    BY <1>3 DEF DataMessage
  <2> QED
    BY <1>1, <2>1 DEF IsMeaning, Default, DATA
<1>4. CASE v = "V3"
  <2>1. DataMessage(v, n, id) = [type |-> DATA, streamId |-> id, payload |-> n,
                                 serviceId |-> "ssh", connectionId |-> 1]
    BY <1>4 DEF DataMessage
  <2> QED
    BY <1>1, <2>1 DEF IsMeaning, Default, DATA
<1> QED
  BY <1>2, <1>3, <1>4 DEF Versions

LEMMA SentFields ==
  ASSUME NEW m \in Sent
  PROVE  /\ IsMeaning(m)
         /\ Get(m, "type") = m.type /\ Get(m, "streamId") \in Nat /\ Get(m, "payload") \in Nat
         /\ m.type = DATA => m.payload \in Nat /\ Get(m, "payload") = m.payload
<1>1. CASE m \in {DataMessage(v, n, id) : v \in Versions, n \in Nat, id \in Nat}
  <2>1. PICK v \in Versions, n \in Nat, id \in Nat : m = DataMessage(v, n, id)
    BY <1>1
  <2> QED
    BY <2>1, DataMessageFields DEF Get, IsMeaning
<1>2. CASE m \in [type : {STREAM_RESET}, streamId : Nat]
  <2>1. PICK id \in Nat : m = [type |-> STREAM_RESET, streamId |-> id]
    BY <1>2
  <2> QED
    BY <2>1 DEF IsMeaning, Default, Get, STREAM_RESET, DATA, Empty
<1>3. CASE m \in [type : {STREAM_START}, streamId : Nat, serviceId : {"ssh"}]
  <2>1. PICK id \in Nat : m = [type |-> STREAM_START, streamId |-> id, serviceId |-> "ssh"]
    BY <1>3
  <2> QED
    BY <2>1 DEF IsMeaning, Default, Get, STREAM_START, DATA, Empty
<1> QED
  BY <1>1, <1>2, <1>3 DEF Sent

\* The service's own messages have neither a stream nor a payload.
LEMMA ServiceFields ==
  ASSUME NEW m \in MadeUp \cup {Announcing}
  PROVE  /\ IsMeaning(m) /\ Get(m, "type") = m.type /\ m.type # DATA
         /\ Get(m, "streamId") \in Nat /\ Get(m, "payload") \in Nat
<1>1. CASE m = Announcing
  BY <1>1 DEF Announcing, IsMeaning, Default, Get, SERVICE_IDS, DATA, Empty
<1>2. CASE m \in MadeUp
  <2>1. PICK t \in {0, SESSION_RESET, 6, 7, 8} :
          m = [type |-> t, connectionId |-> 2, ignorable |-> TRUE]
    BY <1>2 DEF MadeUp
  <2>2. t \in Nat /\ t # 1
    BY DEF SESSION_RESET
  <2> QED
    BY <2>1, <2>2 DEF IsMeaning, Default, Get, DATA, Empty
<1> QED
  BY <1>1, <1>2

LEMMA MessageFields ==
  ASSUME NEW x \in Messages
  PROVE  /\ \E v \in Versions : x = Message(v, x.meant)
         /\ x.meant \in Sent
         /\ IsData(x) => x.meant.payload \in Nat
<1>1. PICK v \in Versions, m \in Sent : x = Message(v, m)
  BY DEF Messages
<1>2. x.meant = m
  BY <1>1 DEF Message
<1> QED
  BY <1>1, <1>2, SentFields DEF IsData

\* Every version knows the type, the stream and the payload of every other.
LEMMA Told ==
  ASSUME NEW b \in Versions, NEW v \in Versions, NEW m, IsMeaning(m),
         NEW f \in {"type", "streamId", "payload"}
  PROVE  Get(Decode(v, Message(b, m).wire), f) = Get(m, f)
<1>1. f \in DOMAIN Default
  BY DEF Default
<1>2. f \in ToSet(Written(b)) \cap ToSet(Written(v))
  BY FieldTables
<1> QED
  BY <1>1, <1>2, GetDecoded DEF Message

-------------------------------------------------------------------------------
(* What a channel carries.                                                  *)

LEMMA ChannelElement ==
  ASSUME NEW s \in Seq(Messages), NEW i \in OnTheWay(s)
  PROVE  i \in 1 .. Len(s) /\ s[i] \in Messages /\ s[i].meant.payload \in Nat
<1>1. i \in 1 .. Len(s) /\ s[i] \in Messages /\ IsData(s[i])
  BY DEF OnTheWay
<1> QED
  BY <1>1, MessageFields

LEMMA Joined ==
  ASSUME NEW s \in Seq(Messages), NEW t \in Seq(Messages)
  PROVE  /\ s \o t \in Seq(Messages)
         /\ OnTheWay(s \o t) = OnTheWay(s) \cup {Len(s) + i : i \in OnTheWay(t)}
         /\ \A i \in OnTheWay(s) : (s \o t)[i] = s[i]
         /\ \A i \in OnTheWay(t) : (s \o t)[Len(s) + i] = t[i]
         /\ Carried(s \o t) = Carried(s) \cup Carried(t)
<1> DEFINE u == s \o t
<1>1. /\ u \in Seq(Messages) /\ DOMAIN s = 1 .. Len(s) /\ DOMAIN t = 1 .. Len(t)
      /\ DOMAIN u = 1 .. Len(s) + Len(t) /\ Len(s) \in Nat /\ Len(t) \in Nat
      /\ \A i \in 1 .. Len(s) : u[i] = s[i]
      /\ \A i \in 1 .. Len(t) : u[Len(s) + i] = t[i]
  OBVIOUS
<1> HIDE DEF u
<1>2. OnTheWay(u) = OnTheWay(s) \cup {Len(s) + i : i \in OnTheWay(t)}
  <2>1. ASSUME NEW i \in OnTheWay(u)
        PROVE  i \in OnTheWay(s) \cup {Len(s) + j : j \in OnTheWay(t)}
    <3>1. i \in 1 .. Len(s) + Len(t) /\ IsData(u[i])
      BY <1>1 DEF OnTheWay
    <3>2. CASE i <= Len(s)
      BY <1>1, <3>1, <3>2 DEF OnTheWay
    <3>3. CASE i > Len(s)
      <4>1. i - Len(s) \in 1 .. Len(t) /\ i = Len(s) + (i - Len(s))
        BY <1>1, <3>1, <3>3
      <4>2. IsData(t[i - Len(s)])
        BY <1>1, <3>1, <4>1
      <4>3. i - Len(s) \in OnTheWay(t)
        BY <1>1, <4>1, <4>2 DEF OnTheWay
      <4> QED
        BY <4>1, <4>3
    <3> QED
      BY <1>1, <3>1, <3>2, <3>3
  <2>2. OnTheWay(s) \subseteq OnTheWay(u)
    BY <1>1 DEF OnTheWay
  <2>3. ASSUME NEW j \in OnTheWay(t)
        PROVE  Len(s) + j \in OnTheWay(u)
    BY <1>1 DEF OnTheWay
  <2> QED
    BY <2>1, <2>2, <2>3
<1>3. /\ \A i \in OnTheWay(s) : u[i] = s[i]
      /\ \A i \in OnTheWay(t) : u[Len(s) + i] = t[i]
  BY <1>1 DEF OnTheWay
<1>4. Carried(u) = Carried(s) \cup Carried(t)
  <2>1. ASSUME NEW i \in OnTheWay(u)
        PROVE  u[i].meant.payload \in Carried(s) \cup Carried(t)
    BY <1>2, <1>3 DEF Carried
  <2>2. ASSUME NEW i \in OnTheWay(s)
        PROVE  s[i].meant.payload \in Carried(u)
    BY <1>2, <1>3 DEF Carried
  <2>3. ASSUME NEW i \in OnTheWay(t)
        PROVE  t[i].meant.payload \in Carried(u)
    BY <1>2, <1>3 DEF Carried
  <2> QED
    BY <2>1, <2>2, <2>3 DEF Carried
<1> QED
  BY <1>1, <1>2, <1>3, <1>4 DEF u

LEMMA Shortened ==
  ASSUME NEW s \in Seq(Messages), s # <<>>
  PROVE  /\ Head(s) \in Messages /\ Tail(s) \in Seq(Messages)
         /\ \A i \in OnTheWay(Tail(s)) : i + 1 \in OnTheWay(s) /\ Tail(s)[i] = s[i + 1]
         /\ IsData(Head(s)) => 1 \in OnTheWay(s) /\ Head(s) = s[1]
         /\ Carried(s) = Carried(Tail(s))
              \cup (IF IsData(Head(s)) THEN {Head(s).meant.payload} ELSE {})
<1> DEFINE t == Tail(s)
           h == Head(s)
<1>1. /\ DOMAIN s = 1 .. Len(s) /\ Len(s) \in Nat /\ Len(s) > 0 /\ DOMAIN t = 1 .. Len(s) - 1
      /\ h = s[1] /\ t \in Seq(Messages) /\ h \in Messages
      /\ \A i \in 1 .. Len(s) - 1 : t[i] = s[i + 1]
  OBVIOUS
<1> HIDE DEF t, h
<1>2. \A i \in OnTheWay(t) : i + 1 \in OnTheWay(s) /\ t[i] = s[i + 1]
  BY <1>1 DEF OnTheWay
<1>3. IsData(h) => 1 \in OnTheWay(s)
  BY <1>1 DEF OnTheWay
<1>4. ASSUME NEW i \in OnTheWay(s), i # 1
      PROVE  i - 1 \in OnTheWay(t) /\ t[i - 1] = s[i]
  <2>1. i \in 1 .. Len(s) /\ IsData(s[i])
    BY <1>1 DEF OnTheWay
  <2>2. i - 1 \in 1 .. Len(s) - 1 /\ (i - 1) + 1 = i
    BY <1>1, <1>4, <2>1
  <2>3. t[i - 1] = s[i]
    BY <1>1, <2>2
  <2> QED
    BY <1>1, <2>1, <2>2, <2>3 DEF OnTheWay
<1>5. 1 \in OnTheWay(s) => IsData(h)
  BY <1>1 DEF OnTheWay
<1>6. Carried(s) = Carried(t) \cup (IF IsData(h) THEN {h.meant.payload} ELSE {})
  <2>1. ASSUME NEW i \in OnTheWay(s)
        PROVE  s[i].meant.payload \in Carried(t) \cup (IF IsData(h) THEN {h.meant.payload} ELSE {})
    <3>1. CASE i = 1
      BY <1>1, <1>5, <3>1
    <3>2. CASE i # 1
      BY <1>4, <3>2 DEF Carried
    <3> QED
      BY <3>1, <3>2
  <2>2. ASSUME NEW i \in OnTheWay(t)
        PROVE  t[i].meant.payload \in Carried(s)
    BY <1>2 DEF Carried
  <2>3. IsData(h) => h.meant.payload \in Carried(s)
    BY <1>1, <1>3 DEF Carried
  <2> QED
    BY <2>1, <2>2, <2>3 DEF Carried
<1> QED
  BY <1>1, <1>2, <1>3, <1>6 DEF t, h

-------------------------------------------------------------------------------
(* What an end was given moves from its queue to the channel and from there *)
(* to the other end.                                                        *)

LEMMA FlowParts ==
  ASSUME NEW there \in Seq(Nat), NEW ms \in Seq(Messages), NEW q \in Seq(Nat), NEW n \in Nat,
         NEW mi, Flow(there, ms, q, n, mi)
  PROVE  /\ ToSet(there) \subseteq 1 .. n /\ Carried(ms) \subseteq 1 .. n /\ ToSet(q) \subseteq 1 .. n
         /\ ToSet(there) \cap Dropped(mi) = {} /\ Carried(ms) \cap Dropped(mi) = {}
         /\ ToSet(q) \cap Dropped(mi) = {}
BY DEF Flow

LEMMA Appended ==
  ASSUME NEW s \in Seq(Nat), NEW x \in Nat
  PROVE  /\ ToSet(Append(s, x)) = ToSet(s) \cup {x}
         /\ Ascending(s) /\ (\A a \in ToSet(s) : a < x) => Ascending(Append(s, x))
<1> DEFINE u == Append(s, x)
<1>1. /\ DOMAIN s = 1 .. Len(s) /\ DOMAIN u = 1 .. Len(s) + 1 /\ Len(s) \in Nat
      /\ \A i \in 1 .. Len(s) : u[i] = s[i] /\ s[i] \in Nat
      /\ u[Len(s) + 1] = x
  OBVIOUS
<1> HIDE DEF u
<1>2. ToSet(u) = ToSet(s) \cup {x}
  <2>1. ASSUME NEW i \in DOMAIN u
        PROVE  u[i] \in ToSet(s) \cup {x}
    BY <1>1 DEF ToSet
  <2>2. ASSUME NEW i \in DOMAIN s
        PROVE  s[i] \in ToSet(u)
    BY <1>1 DEF ToSet
  <2>3. x \in ToSet(u)
    BY <1>1 DEF ToSet
  <2> QED
    BY <2>1, <2>2, <2>3 DEF ToSet
<1>3. ASSUME Ascending(s), \A a \in ToSet(s) : a < x
      PROVE  Ascending(u)
  <2> SUFFICES ASSUME NEW i \in DOMAIN u, NEW j \in DOMAIN u, i < j PROVE u[i] < u[j]
    BY DEF Ascending
  <2>1. i \in DOMAIN s /\ s[i] \in ToSet(s)
    BY <1>1 DEF ToSet
  <2>2. CASE j \in DOMAIN s
    BY <1>1, <1>3, <2>1, <2>2 DEF Ascending
  <2>3. CASE j \notin DOMAIN s
    <3>1. u[j] = x /\ u[i] = s[i]
      BY <1>1, <2>1, <2>3
    <3> QED
      BY <1>3, <2>1, <3>1
  <2> QED
    BY <2>2, <2>3
<1> QED
  BY <1>2, <1>3 DEF u

LEMMA FlowGiven ==
  ASSUME NEW there \in Seq(Nat), NEW ms \in Seq(Messages), NEW q \in Seq(Nat), NEW n \in Nat,
         NEW mi, Flow(there, ms, q, n, mi), Dropped(mi) \subseteq 1 .. n
  PROVE  Flow(there, ms, Append(q, n + 1), n + 1, mi)
<1>1. /\ ToSet(there) \subseteq 1 .. n /\ Carried(ms) \subseteq 1 .. n /\ ToSet(q) \subseteq 1 .. n
  BY FlowParts
<1>2. ToSet(Append(q, n + 1)) = ToSet(q) \cup {n + 1}
  BY Appended
<1>3. Ascending(Append(q, n + 1))
  BY <1>1, Appended DEF Flow
<1>4. ToSet(there) \cup Carried(ms) \cup (ToSet(q) \cup {n + 1}) = (1 .. (n + 1)) \ Dropped(mi)
  <2>1. 1 .. (n + 1) = (1 .. n) \cup {n + 1} /\ n + 1 \notin Dropped(mi)
    OBVIOUS
  <2>2. ToSet(there) \cup Carried(ms) \cup ToSet(q) = (1 .. n) \ Dropped(mi)
    BY DEF Flow
  <2> QED
    BY <2>1, <2>2
<1>5. /\ Ascending(there) /\ InTurn(ms)
      /\ \A a \in ToSet(there), b \in Carried(ms) \cup ToSet(q) : a < b
      /\ \A a \in Carried(ms), b \in ToSet(q) : a < b
  BY DEF Flow
<1>6. \A a \in ToSet(there) \cup Carried(ms) : a < n + 1
  BY <1>1
<1> QED
  BY <1>2, <1>3, <1>4, <1>5, <1>6 DEF Flow

\* A part of the queue, which may be none of it, is sent.
LEMMA FlowJoined ==
  ASSUME NEW there \in Seq(Nat), NEW ms \in Seq(Messages), NEW q \in Seq(Nat), NEW n \in Nat,
         NEW mi, Flow(there, ms, q, n, mi),
         NEW more \in Seq(Messages), NEW rest \in Seq(Nat), InTurn(more), Ascending(rest),
         Carried(more) \cup ToSet(rest) = ToSet(q),
         \A a \in Carried(more), b \in ToSet(rest) : a < b
  PROVE  Flow(there, ms \o more, rest, n, mi)
<1>1. /\ OnTheWay(ms \o more) = OnTheWay(ms) \cup {Len(ms) + i : i \in OnTheWay(more)}
      /\ \A i \in OnTheWay(ms) : (ms \o more)[i] = ms[i]
      /\ \A i \in OnTheWay(more) : (ms \o more)[Len(ms) + i] = more[i]
      /\ Carried(ms \o more) = Carried(ms) \cup Carried(more)
  BY Joined
<1>2. /\ \A i \in OnTheWay(ms) : i \in 1 .. Len(ms) /\ ms[i].meant.payload \in Carried(ms)
      /\ \A i \in OnTheWay(more) : i \in 1 .. Len(more) /\ more[i].meant.payload \in Carried(more)
      /\ Len(ms) \in Nat /\ Len(more) \in Nat
  BY ChannelElement DEF Carried
<1>3. /\ ToSet(there) \cup Carried(ms) \cup ToSet(q) = (1 .. n) \ Dropped(mi)
      /\ Ascending(there) /\ InTurn(ms)
      /\ \A a \in ToSet(there), b \in Carried(ms) \cup ToSet(q) : a < b
      /\ \A a \in Carried(ms), b \in ToSet(q) : a < b
  BY DEF Flow
<1>4. InTurn(ms \o more)
  <2> DEFINE u == ms \o more
  <2> SUFFICES ASSUME NEW i \in OnTheWay(u), NEW j \in OnTheWay(u), i < j
               PROVE  u[i].meant.payload < u[j].meant.payload
    BY DEF InTurn
  <2>1. CASE i \in OnTheWay(ms) /\ j \in OnTheWay(ms)
    <3>1. ms[i].meant.payload < ms[j].meant.payload
      BY <1>3, <2>1 DEF InTurn
    <3> QED
      BY <1>1, <2>1, <3>1
  <2>2. CASE i \in OnTheWay(ms) /\ j \notin OnTheWay(ms)
    <3>1. PICK k \in OnTheWay(more) : j = Len(ms) + k
      BY <1>1, <2>2
    <3>2. ms[i].meant.payload < more[k].meant.payload
      BY <1>2, <1>3, <2>2
    <3> QED
      BY <1>1, <2>2, <3>1, <3>2
  <2>3. CASE i \notin OnTheWay(ms)
    <3>1. PICK k \in OnTheWay(more) : i = Len(ms) + k
      BY <1>1, <2>3
    <3>2. j \notin OnTheWay(ms)
      BY <1>2, <3>1
    <3>3. PICK l \in OnTheWay(more) : j = Len(ms) + l
      BY <1>1, <3>2
    <3>4. k \in Nat /\ l \in Nat
      BY <1>2
    <3>5. k < l
      BY <1>2, <3>1, <3>3, <3>4
    <3>6. more[k].meant.payload < more[l].meant.payload
      BY <3>5 DEF InTurn
    <3> QED
      BY <1>1, <3>1, <3>3, <3>6
  <2> QED
    BY <2>1, <2>2, <2>3
<1>5. ToSet(there) \cup Carried(ms \o more) \cup ToSet(rest) = (1 .. n) \ Dropped(mi)
  BY <1>1, <1>3
<1>6. /\ \A a \in ToSet(there), b \in Carried(ms \o more) \cup ToSet(rest) : a < b
      /\ \A a \in Carried(ms \o more), b \in ToSet(rest) : a < b
  BY <1>1, <1>3
<1> QED
  BY <1>3, <1>4, <1>5, <1>6 DEF Flow

LEMMA TailInTurn ==
  ASSUME NEW ms \in Seq(Messages), ms # <<>>, InTurn(ms)
  PROVE  /\ InTurn(Tail(ms))
         /\ IsData(Head(ms)) => \A b \in Carried(Tail(ms)) : Head(ms).meant.payload < b
<1> DEFINE t == Tail(ms)
           h == Head(ms)
<1>1. /\ \A i \in OnTheWay(t) : i + 1 \in OnTheWay(ms) /\ t[i] = ms[i + 1]
      /\ IsData(h) => 1 \in OnTheWay(ms) /\ h = ms[1]
      /\ t \in Seq(Messages)
  BY Shortened
<1> HIDE DEF t, h
<1>2. \A i \in OnTheWay(t) : i \in Nat /\ i > 0
  <2>1. \A i \in OnTheWay(t) : i \in 1 .. Len(t)
    BY <1>1, ChannelElement
  <2> QED
    BY <1>1, <2>1
<1>3. InTurn(t)
  <2> SUFFICES ASSUME NEW i \in OnTheWay(t), NEW j \in OnTheWay(t), i < j
               PROVE  t[i].meant.payload < t[j].meant.payload
    BY DEF InTurn
  <2>1. i + 1 < j + 1
    BY <1>2
  <2>2. ms[i + 1].meant.payload < ms[j + 1].meant.payload
    BY <1>1, <2>1 DEF InTurn
  <2> QED
    BY <1>1, <2>2
<1>4. ASSUME IsData(h), NEW i \in OnTheWay(t)
      PROVE  h.meant.payload < t[i].meant.payload
  <2>1. 1 < i + 1
    BY <1>2
  <2>2. ms[1].meant.payload < ms[i + 1].meant.payload
    BY <1>1, <1>4, <2>1 DEF InTurn
  <2> QED
    BY <1>1, <1>4, <2>2
<1>5. IsData(h) => \A b \in Carried(t) : h.meant.payload < b
  BY <1>4 DEF Carried
<1> QED
  BY <1>3, <1>5 DEF t, h

\* The next payload arrives.
LEMMA FlowArrives ==
  ASSUME NEW there \in Seq(Nat), NEW ms \in Seq(Messages), NEW q \in Seq(Nat), NEW n \in Nat,
         NEW mi, Flow(there, ms, q, n, mi), ms # <<>>, IsData(Head(ms))
  PROVE  Flow(Append(there, Head(ms).meant.payload), Tail(ms), q, n, mi)
<1> DEFINE x == Head(ms).meant.payload
<1>1. Carried(ms) = Carried(Tail(ms)) \cup {x} /\ x \in Nat
  BY Shortened, MessageFields
<1>2. InTurn(Tail(ms)) /\ \A b \in Carried(Tail(ms)) : x < b
  BY TailInTurn DEF Flow
<1> HIDE DEF x
<1>3. /\ ToSet(there) \cup Carried(ms) \cup ToSet(q) = (1 .. n) \ Dropped(mi)
      /\ Ascending(there) /\ Ascending(q)
      /\ \A a \in ToSet(there), b \in Carried(ms) \cup ToSet(q) : a < b
      /\ \A a \in Carried(ms), b \in ToSet(q) : a < b
  BY DEF Flow
<1>4. \A a \in ToSet(there) : a < x
  BY <1>1, <1>3
<1>5. ToSet(Append(there, x)) = ToSet(there) \cup {x} /\ Ascending(Append(there, x))
  BY <1>1, <1>3, <1>4, Appended
<1>6. ToSet(Append(there, x)) \cup Carried(Tail(ms)) \cup ToSet(q) = (1 .. n) \ Dropped(mi)
  BY <1>1, <1>3, <1>5
<1>7. /\ \A a \in ToSet(Append(there, x)), b \in Carried(Tail(ms)) \cup ToSet(q) : a < b
      /\ \A a \in Carried(Tail(ms)), b \in ToSet(q) : a < b
  BY <1>1, <1>2, <1>3, <1>5
<1> QED
  BY <1>2, <1>3, <1>5, <1>6, <1>7 DEF Flow, x

\* The next message is one without a payload.
LEMMA FlowPasses ==
  ASSUME NEW there \in Seq(Nat), NEW ms \in Seq(Messages), NEW q \in Seq(Nat), NEW n \in Nat,
         NEW mi, Flow(there, ms, q, n, mi), ms # <<>>, ~IsData(Head(ms))
  PROVE  Flow(there, Tail(ms), q, n, mi)
<1>1. Carried(ms) = Carried(Tail(ms))
  BY Shortened
<1>2. InTurn(Tail(ms))
  BY TailInTurn DEF Flow
<1> QED
  BY <1>1, <1>2 DEF Flow

\* The next message is lost.
LEMMA FlowLoses ==
  ASSUME NEW there \in Seq(Nat), NEW ms \in Seq(Messages), NEW q \in Seq(Nat), NEW n \in Nat,
         NEW mi, Flow(there, ms, q, n, mi), ms # <<>>, Dropped(mi) \subseteq 1 .. n
  PROVE  /\ Flow(there, Tail(ms), q, n, mi \cup {Head(ms).meant})
         /\ Dropped(mi \cup {Head(ms).meant}) \subseteq 1 .. n
<1> DEFINE x == Head(ms).meant.payload
           more == mi \cup {Head(ms).meant}
<1>1. CASE ~IsData(Head(ms))
  <2>1. Dropped(more) = Dropped(mi)
    BY <1>1 DEF Dropped, IsData
  <2>2. Flow(there, Tail(ms), q, n, mi)
    BY <1>1, FlowPasses
  <2> HIDE DEF more
  <2>3. Flow(there, Tail(ms), q, n, more)
    BY <2>1, <2>2 DEF Flow
  <2> QED
    BY <2>1, <2>3 DEF more
<1>2. CASE IsData(Head(ms))
  <2>1. Dropped(more) = Dropped(mi) \cup {x}
    BY <1>2 DEF Dropped, IsData
  <2>2. Carried(ms) = Carried(Tail(ms)) \cup {x} /\ x \in Nat
    BY <1>2, Shortened, MessageFields
  <2>3. InTurn(Tail(ms)) /\ \A b \in Carried(Tail(ms)) : x < b
    BY <1>2, TailInTurn DEF Flow
  <2>4. Tail(ms) \in Seq(Messages)
    BY Shortened
  <2>5. Carried(ms) \subseteq 1 .. n
    BY FlowParts
  <2> HIDE DEF x, more
  <2>6. /\ ToSet(there) \cup Carried(ms) \cup ToSet(q) = (1 .. n) \ Dropped(mi)
        /\ Ascending(there) /\ Ascending(q)
        /\ \A a \in ToSet(there), b \in Carried(ms) \cup ToSet(q) : a < b
        /\ \A a \in Carried(ms), b \in ToSet(q) : a < b
    BY DEF Flow
  <2>7. x \notin ToSet(there) /\ x \notin Carried(Tail(ms)) /\ x \notin ToSet(q)
    <3>1. x \in Carried(ms) /\ ~(x < x)
      BY <2>2
    <3> QED
      BY <2>3, <2>6, <3>1
  <2>8. ToSet(there) \cup Carried(Tail(ms)) \cup ToSet(q) = (1 .. n) \ Dropped(more)
    BY <2>1, <2>2, <2>6, <2>7
  <2>9. /\ \A a \in ToSet(there), b \in Carried(Tail(ms)) \cup ToSet(q) : a < b
        /\ \A a \in Carried(Tail(ms)), b \in ToSet(q) : a < b
    BY <2>2, <2>6
  <2>10. Flow(there, Tail(ms), q, n, more)
    BY <2>3, <2>6, <2>8, <2>9 DEF Flow
  <2>11. Dropped(more) \subseteq 1 .. n
    BY <2>1, <2>2, <2>5
  <2> QED
    BY <2>10, <2>11 DEF more
<1> QED
  BY <1>1, <1>2

-------------------------------------------------------------------------------
(* The inductive invariant.                                                 *)

PeersTypeOK ==
    /\ protocol \in [Roles -> Versions]
    /\ socket \in [Roles -> {"none", "open", "closed"}]
    /\ streamId \in [Roles -> Nat]
    /\ tunnelReady \in [Roles -> BOOLEAN]
    /\ messageQueue \in [Roles -> Seq(Nat)]
    /\ given \in [Roles -> 0 .. MaxSends]
    /\ received \in [Roles -> Seq(Nat)]
    /\ channel \in [Roles -> Seq(Messages)]
    /\ lost \in [Roles -> SUBSET Sent]
    /\ announced \subseteq Roles
    /\ controls \in 0 .. MaxControls

FlowOf(r) == Flow(received[Peer[r]], channel[r], messageQueue[r], given[r], lost[r])

EndInv(r) ==
    /\ FlowOf(r)
    /\ tunnelReady[r] => messageQueue[r] = <<>>
    /\ Dropped(lost[r]) \subseteq 1 .. given[r]

IInv == PeersTypeOK /\ \A r \in Roles : EndInv(r)

LEMMA PeerOf ==
  ASSUME NEW r \in Roles
  PROVE  Peer[r] \in Roles \ {r} /\ Peer[Peer[r]] = r /\ Roles = {r, Peer[r]}
BY DEF Roles, Peer

LEMMA InitPeers == Init => IInv
<1> SUFFICES ASSUME Init PROVE IInv
  OBVIOUS
<1>1. /\ protocol \in [Roles -> Versions]
      /\ socket \in [Roles -> {"none", "open", "closed"}]
      /\ streamId \in [Roles -> Nat]
      /\ tunnelReady \in [Roles -> BOOLEAN]
      /\ given \in [Roles -> 0 .. MaxSends]
      /\ lost \in [Roles -> SUBSET Sent]
      /\ announced \subseteq Roles
      /\ controls \in 0 .. MaxControls
  BY PeersAssumption DEF Init
<1>2. /\ messageQueue \in [Roles -> Seq(Nat)]
      /\ received \in [Roles -> Seq(Nat)]
      /\ channel \in [Roles -> Seq(Messages)]
  BY DEF Init
<1>3. ASSUME NEW r \in Roles
      PROVE  EndInv(r)
  <2>1. /\ received[Peer[r]] = <<>> /\ channel[r] = <<>> /\ messageQueue[r] = <<>>
        /\ given[r] = 0 /\ lost[r] = {} /\ ~tunnelReady[r]
    BY PeerOf DEF Init
  <2>2. OnTheWay(<<>>) = {} /\ ToSet(<<>>) = {}
    BY DEF OnTheWay, ToSet
  <2>3. Carried(<<>>) = {} /\ InTurn(<<>>) /\ Ascending(<<>>) /\ Dropped({}) = {}
    BY <2>2 DEF Carried, InTurn, Ascending, Dropped
  <2>4. Flow(<<>>, <<>>, <<>>, 0, {})
    BY <2>2, <2>3 DEF Flow
  <2> QED
    BY <2>1, <2>3, <2>4 DEF EndInv, FlowOf
<1> QED
  BY <1>1, <1>2, <1>3 DEF IInv, PeersTypeOK

\* What an end sends.
LEMMA MessageSent ==
  ASSUME NEW v \in Versions, NEW m \in Sent
  PROVE  Message(v, m) \in Messages /\ Message(v, m).meant = m
BY DEF Messages, Message

LEMMA NoneSent ==
  /\ <<>> \in Seq(Messages) /\ InTurn(<<>>) /\ Carried(<<>>) = {}
<1>1. OnTheWay(<<>>) = {}
  BY DEF OnTheWay
<1> QED
  BY <1>1 DEF InTurn, Carried

LEMMA ControlSent ==
  ASSUME NEW v \in Versions, NEW m \in Sent, m.type # DATA
  PROVE  /\ <<Message(v, m)>> \in Seq(Messages)
         /\ InTurn(<<Message(v, m)>>) /\ Carried(<<Message(v, m)>>) = {}
<1> DEFINE x == Message(v, m)
<1>1. x \in Messages /\ x.meant = m
  BY MessageSent
<1> HIDE DEF x
<1>2. <<x>> \in Seq(Messages) /\ DOMAIN <<x>> = {1} /\ <<x>>[1] = x
  BY <1>1
<1>3. OnTheWay(<<x>>) = {}
  BY <1>1, <1>2 DEF OnTheWay, IsData
<1> QED
  BY <1>2, <1>3 DEF InTurn, Carried, x

LEMMA DataSent ==
  ASSUME PeersTypeOK, NEW r \in Roles, NEW q \in Seq(Nat), NEW id \in Nat
  PROVE  /\ Data(r, q, id) \in Seq(Messages)
         /\ Carried(Data(r, q, id)) = ToSet(q)
         /\ Ascending(q) => InTurn(Data(r, q, id))
<1> DEFINE v == protocol[r]
           s == Data(r, q, id)
<1>1. v \in Versions
  BY DEF PeersTypeOK
<1>2. DOMAIN q = 1 .. Len(q) /\ Len(q) \in Nat /\ \A i \in 1 .. Len(q) : q[i] \in Nat
  OBVIOUS
<1>3. s = [i \in 1 .. Len(q) |-> Message(v, DataMessage(v, q[i], id))]
  BY <1>2 DEF Data
<1> HIDE DEF s, v
<1>4. ASSUME NEW i \in 1 .. Len(q)
      PROVE  s[i] \in Messages /\ IsData(s[i]) /\ s[i].meant.payload = q[i]
  <2>1. DataMessage(v, q[i], id) \in Sent /\ DataMessage(v, q[i], id).type = DATA
        /\ DataMessage(v, q[i], id).payload = q[i]
    BY <1>1, <1>2, DataMessageFields
  <2>2. s[i] = Message(v, DataMessage(v, q[i], id))
    BY <1>3
  <2> QED
    BY <1>1, <2>1, <2>2, MessageSent DEF IsData
<1>5. s \in Seq(Messages) /\ DOMAIN s = 1 .. Len(q)
  <2>1. s \in [1 .. Len(q) -> Messages]
    BY <1>3, <1>4
  <2> QED
    BY <1>2, <2>1
<1>6. OnTheWay(s) = DOMAIN q
  BY <1>2, <1>4, <1>5 DEF OnTheWay
<1>7. Carried(s) = ToSet(q)
  BY <1>2, <1>4, <1>6 DEF Carried, ToSet
<1>8. Ascending(q) => InTurn(s)
  BY <1>2, <1>4, <1>6 DEF Ascending, InTurn
<1> QED
  BY <1>5, <1>7, <1>8 DEF s

LEMMA ResetSent ==
  ASSUME PeersTypeOK, NEW r \in Roles
  PROVE  Reset(r) \in Seq(Messages) /\ InTurn(Reset(r)) /\ Carried(Reset(r)) = {}
<1>1. [type |-> STREAM_RESET, streamId |-> streamId[r]] \in Sent
  BY DEF Sent, PeersTypeOK
<1>2. [type |-> STREAM_RESET, streamId |-> streamId[r]].type # DATA
  BY DEF STREAM_RESET, DATA
<1> QED
  BY <1>1, <1>2, ControlSent DEF Reset, PeersTypeOK

LEMMA GreetingSent ==
  ASSUME PeersTypeOK, NEW r \in Roles
  PROVE  Greeting(r) \in Seq(Messages) /\ InTurn(Greeting(r)) /\ Carried(Greeting(r)) = {}
<1>1. [type |-> STREAM_START, streamId |-> streamId[r], serviceId |-> "ssh"] \in Sent
  BY DEF Sent, PeersTypeOK
<1>2. [type |-> STREAM_START, streamId |-> streamId[r], serviceId |-> "ssh"].type # DATA
  BY DEF STREAM_START, DATA
<1> QED
  BY <1>1, <1>2, ControlSent, NoneSent DEF Greeting, PeersTypeOK

\* Handling a message: the queue of the end goes out, or stays; only a payload
\* is passed to the client; nothing of the other end changes.
LEMMA Handled ==
  ASSUME PeersTypeOK, NEW r \in Roles, NEW m, Handle(r, m),
         Get(m, "streamId") \in Nat, Get(m, "payload") \in Nat
  PROVE  /\ socket' \in [Roles -> {"none", "open", "closed"}]
         /\ streamId' \in [Roles -> Nat]
         /\ tunnelReady' \in [Roles -> BOOLEAN]
         /\ messageQueue' \in [Roles -> Seq(Nat)]
         /\ received' \in [Roles -> Seq(Nat)]
         /\ Reply(r, m) \in Seq(Messages)
         /\ \/ Carried(Reply(r, m)) = {} /\ messageQueue'[r] = messageQueue[r]
            \/ Carried(Reply(r, m)) = ToSet(messageQueue[r]) /\ messageQueue'[r] = <<>>
         /\ Ascending(messageQueue[r]) => InTurn(Reply(r, m))
         /\ received' = [received EXCEPT ![r] = IF Get(m, "type") = DATA
                                                THEN Append(@, Get(m, "payload")) ELSE @]
         /\ \A p \in Roles \ {r} : /\ tunnelReady'[p] = tunnelReady[p]
                                   /\ messageQueue'[p] = messageQueue[p]
         /\ tunnelReady'[r] => \/ tunnelReady[r] /\ messageQueue'[r] = messageQueue[r]
                               \/ messageQueue'[r] = <<>>
<1>1. /\ socket \in [Roles -> {"none", "open", "closed"}]
      /\ streamId \in [Roles -> Nat]
      /\ tunnelReady \in [Roles -> BOOLEAN]
      /\ messageQueue \in [Roles -> Seq(Nat)]
      /\ received \in [Roles -> Seq(Nat)]
  BY DEF PeersTypeOK
<1>2. Completes(r, m) => Get(m, "type") \notin {DATA, SESSION_RESET}
  BY DEF Completes, SERVICE_IDS, STREAM_START, DATA, SESSION_RESET
<1>3. Stream(r, m) \in Nat
  BY <1>1 DEF Stream
<1>4. DATA # SESSION_RESET
  BY DEF DATA, SESSION_RESET
<1>5. CASE /\ Get(m, "type") = DATA
           /\ received' = [received EXCEPT ![r] = Append(@, Get(m, "payload"))]
           /\ UNCHANGED <<socket, streamId, tunnelReady, messageQueue>>
  <2>1. Reply(r, m) = <<>>
    BY <1>2, <1>4, <1>5 DEF Reply
  <2>2. received' \in [Roles -> Seq(Nat)]
    BY <1>1, <1>5
  <2>3. UNCHANGED <<socket, streamId, tunnelReady, messageQueue>>
    BY <1>5
  <2>4. received' = [received EXCEPT ![r] = IF Get(m, "type") = DATA
                                            THEN Append(@, Get(m, "payload")) ELSE @]
    BY <1>5
  <2>5. Reply(r, m) \in Seq(Messages) /\ InTurn(Reply(r, m)) /\ Carried(Reply(r, m)) = {}
    BY <2>1, NoneSent
  <2> QED
    BY <1>1, <2>2, <2>3, <2>4, <2>5
<1>6. CASE /\ Completes(r, m)
           /\ BecomeReady(r, m)
           /\ UNCHANGED <<socket, received>>
  <2>1. Reply(r, m) = Data(r, messageQueue[r], Stream(r, m))
    BY <1>6 DEF Reply
  <2>2. messageQueue[r] \in Seq(Nat)
    BY <1>1
  <2>3. /\ Reply(r, m) \in Seq(Messages) /\ Carried(Reply(r, m)) = ToSet(messageQueue[r])
        /\ Ascending(messageQueue[r]) => InTurn(Reply(r, m))
    BY <1>3, <2>1, <2>2, DataSent
  <2>4. /\ streamId' = [streamId EXCEPT ![r] = Stream(r, m)]
        /\ tunnelReady' = [tunnelReady EXCEPT ![r] = TRUE]
        /\ messageQueue' = [messageQueue EXCEPT ![r] = <<>>]
        /\ received' = received /\ socket' = socket /\ Get(m, "type") # DATA
    BY <1>2, <1>6 DEF BecomeReady
  <2>5. messageQueue' \in [Roles -> Seq(Nat)] /\ messageQueue'[r] = <<>>
    BY <1>1, <2>4
  <2>6. received' = [received EXCEPT ![r] = received[r]]
    BY <1>1, <2>4
  <2> QED
    BY <1>1, <1>3, <2>3, <2>4, <2>5, <2>6
<1>7. CASE /\ Get(m, "type") = SESSION_RESET
           /\ Hangup(r)
           /\ UNCHANGED <<streamId, messageQueue, received>>
  <2>1. Reply(r, m) = Reset(r)
    BY <1>2, <1>7 DEF Reply
  <2>2. /\ Reply(r, m) \in Seq(Messages) /\ Carried(Reply(r, m)) = {} /\ InTurn(Reply(r, m))
    BY <2>1, ResetSent
  <2>3. /\ socket' = [socket EXCEPT ![r] = "closed"]
        /\ tunnelReady' = [tunnelReady EXCEPT ![r] = FALSE]
        /\ UNCHANGED <<streamId, messageQueue, received>>
    BY <1>7 DEF Hangup
  <2>4. received' = [received EXCEPT ![r] = IF Get(m, "type") = DATA
                                            THEN Append(@, Get(m, "payload")) ELSE @]
    BY <1>1, <1>4, <1>7
  <2>5. /\ socket' \in [Roles -> {"none", "open", "closed"}]
        /\ tunnelReady' \in [Roles -> BOOLEAN] /\ ~tunnelReady'[r]
        /\ \A p \in Roles \ {r} : tunnelReady'[p] = tunnelReady[p]
    BY <1>1, <2>3
  <2> QED
    BY <1>1, <2>2, <2>3, <2>4, <2>5
<1>8. CASE /\ Get(m, "type") \notin {DATA, SESSION_RESET}
           /\ ~Completes(r, m)
           /\ UNCHANGED endVars
  <2>1. Reply(r, m) = <<>>
    BY <1>8 DEF Reply
  <2>2. UNCHANGED <<socket, streamId, tunnelReady, messageQueue, received>>
    BY <1>8 DEF endVars
  <2>3. received' = [received EXCEPT ![r] = IF Get(m, "type") = DATA
                                            THEN Append(@, Get(m, "payload")) ELSE @]
    BY <1>1, <1>8, <2>2
  <2>4. Reply(r, m) \in Seq(Messages) /\ InTurn(Reply(r, m)) /\ Carried(Reply(r, m)) = {}
    BY <2>1, NoneSent
  <2> QED
    BY <1>1, <2>2, <2>3, <2>4
<1> QED
  BY <1>5, <1>6, <1>7, <1>8 DEF Handle

\* The flow of the end that handles a message and replies.
LEMMA Answered ==
  ASSUME IInv, NEW r \in Roles, NEW m, Handle(r, m),
         Get(m, "streamId") \in Nat, Get(m, "payload") \in Nat,
         channel'[r] = channel[r] \o Reply(r, m), given'[r] = given[r], lost'[r] = lost[r]
  PROVE  EndInv(r)'
<1>1. /\ received[Peer[r]] \in Seq(Nat) /\ channel[r] \in Seq(Messages)
      /\ messageQueue[r] \in Seq(Nat) /\ given[r] \in Nat
      /\ received \in [Roles -> Seq(Nat)] /\ messageQueue \in [Roles -> Seq(Nat)]
  BY PeerOf DEF IInv, PeersTypeOK
<1>2. EndInv(r) /\ FlowOf(r) /\ PeersTypeOK
  BY DEF IInv, EndInv
<1>3. Ascending(messageQueue[r])
  BY <1>2 DEF FlowOf, Flow
<1>4. /\ messageQueue' \in [Roles -> Seq(Nat)]
      /\ Reply(r, m) \in Seq(Messages) /\ InTurn(Reply(r, m))
      /\ \/ Carried(Reply(r, m)) = {} /\ messageQueue'[r] = messageQueue[r]
         \/ Carried(Reply(r, m)) = ToSet(messageQueue[r]) /\ messageQueue'[r] = <<>>
      /\ received' = [received EXCEPT ![r] = IF Get(m, "type") = DATA
                                             THEN Append(@, Get(m, "payload")) ELSE @]
      /\ tunnelReady'[r] => \/ tunnelReady[r] /\ messageQueue'[r] = messageQueue[r]
                            \/ messageQueue'[r] = <<>>
  BY <1>2, <1>3, Handled
<1>5. received'[Peer[r]] = received[Peer[r]]
  BY <1>1, <1>4, PeerOf
<1>6. ToSet(<<>>) = {} /\ Ascending(<<>>)
  BY DEF ToSet, Ascending
<1>7. /\ Carried(Reply(r, m)) \cup ToSet(messageQueue'[r]) = ToSet(messageQueue[r])
      /\ Ascending(messageQueue'[r]) /\ messageQueue'[r] \in Seq(Nat)
      /\ \A a \in Carried(Reply(r, m)), b \in ToSet(messageQueue'[r]) : a < b
  BY <1>3, <1>4, <1>6
<1>8. Flow(received[Peer[r]], channel[r] \o Reply(r, m), messageQueue'[r], given[r], lost[r])
  BY <1>1, <1>2, <1>4, <1>7, FlowJoined DEF FlowOf
<1> QED
  BY <1>2, <1>4, <1>5, <1>8 DEF EndInv, FlowOf

\* An end that nothing happens to.
LEMMA Untouched ==
  ASSUME IInv, NEW r \in Roles, received'[Peer[r]] = received[Peer[r]],
         channel'[r] = channel[r], messageQueue'[r] = messageQueue[r], given'[r] = given[r],
         lost'[r] = lost[r], tunnelReady'[r] => tunnelReady[r]
  PROVE  EndInv(r)'
BY DEF IInv, EndInv, FlowOf

\* An end that sends something without a payload.
LEMMA Controlled ==
  ASSUME IInv, NEW r \in Roles, NEW more \in Seq(Messages), InTurn(more), Carried(more) = {},
         received'[Peer[r]] = received[Peer[r]], channel'[r] = channel[r] \o more,
         messageQueue'[r] = messageQueue[r], given'[r] = given[r],
         lost'[r] = lost[r], tunnelReady'[r] => tunnelReady[r]
  PROVE  EndInv(r)'
<1>1. /\ received[Peer[r]] \in Seq(Nat) /\ channel[r] \in Seq(Messages)
      /\ messageQueue[r] \in Seq(Nat) /\ given[r] \in Nat
  BY PeerOf DEF IInv, PeersTypeOK
<1>2. FlowOf(r) /\ EndInv(r)
  BY DEF IInv, EndInv
<1>3. Ascending(messageQueue[r])
  BY <1>2 DEF FlowOf, Flow
<1>4. Flow(received[Peer[r]], channel[r] \o more, messageQueue[r], given[r], lost[r])
  <2>1. /\ Carried(more) \cup ToSet(messageQueue[r]) = ToSet(messageQueue[r])
        /\ \A a \in Carried(more), b \in ToSet(messageQueue[r]) : a < b
    OBVIOUS
  <2>2. Flow(received[Peer[r]], channel[r], messageQueue[r], given[r], lost[r])
    BY <1>2 DEF FlowOf
  <2> QED
    BY <1>1, <1>3, <2>1, <2>2, FlowJoined
<1> QED
  BY <1>2, <1>4 DEF EndInv, FlowOf

LEMMA OpenStep ==
  ASSUME IInv, NEW r \in Roles, Open(r)
  PROVE  IInv'
<1>1. PeersTypeOK
  BY DEF IInv
<1>2. Greeting(r) \in Seq(Messages) /\ InTurn(Greeting(r)) /\ Carried(Greeting(r)) = {}
  BY <1>1, GreetingSent
<1>3. /\ channel \in [Roles -> Seq(Messages)]
      /\ channel' = [channel EXCEPT ![r] = channel[r] \o Greeting(r)]
      /\ UNCHANGED <<protocol, streamId, tunnelReady, messageQueue, given, received, serviceVars>>
  BY <1>1 DEF Open, PeersTypeOK
<1>4. channel' \in [Roles -> Seq(Messages)]
  BY <1>2, <1>3
<1>5. PeersTypeOK'
  BY <1>1, <1>4 DEF Open, PeersTypeOK, serviceVars
<1>6. EndInv(r)'
  BY <1>2, <1>3, Controlled DEF serviceVars
<1>7. EndInv(Peer[r])'
  BY <1>3, PeerOf, Untouched DEF serviceVars
<1> QED
  BY <1>5, <1>6, <1>7, PeerOf DEF IInv

LEMMA DisconnectStep ==
  ASSUME IInv, NEW r \in Roles, Disconnect(r)
  PROVE  IInv'
<1>1. PeersTypeOK
  BY DEF IInv
<1>2. Reset(r) \in Seq(Messages) /\ InTurn(Reset(r)) /\ Carried(Reset(r)) = {}
  BY <1>1, ResetSent
<1>3. /\ channel \in [Roles -> Seq(Messages)] /\ tunnelReady \in [Roles -> BOOLEAN]
      /\ channel' = [channel EXCEPT ![r] = channel[r] \o Reset(r)]
      /\ tunnelReady' = [tunnelReady EXCEPT ![r] = FALSE]
      /\ UNCHANGED <<protocol, streamId, messageQueue, given, received, serviceVars>>
  BY <1>1 DEF Disconnect, Hangup, PeersTypeOK
<1>4. channel' \in [Roles -> Seq(Messages)]
  BY <1>2, <1>3
<1>5. PeersTypeOK'
  BY <1>1, <1>4 DEF Disconnect, Hangup, PeersTypeOK, serviceVars
<1>6. EndInv(r)'
  BY <1>2, <1>3, Controlled DEF serviceVars
<1>7. EndInv(Peer[r])'
  BY <1>3, PeerOf, Untouched DEF serviceVars
<1> QED
  BY <1>5, <1>6, <1>7, PeerOf DEF IInv

LEMMA SendStep ==
  ASSUME IInv, NEW r \in Roles, Send(r)
  PROVE  IInv'
<1> DEFINE n == given[r] + 1
           there == received[Peer[r]]
<1>1. PeersTypeOK /\ EndInv(r) /\ FlowOf(r)
  BY DEF IInv, EndInv
<1>2. /\ there \in Seq(Nat) /\ channel[r] \in Seq(Messages) /\ messageQueue[r] \in Seq(Nat)
      /\ given[r] \in Nat /\ n \in Nat /\ streamId[r] \in Nat
      /\ channel \in [Roles -> Seq(Messages)] /\ messageQueue \in [Roles -> Seq(Nat)]
      /\ given \in [Roles -> 0 .. MaxSends] /\ n \in 0 .. MaxSends
  BY <1>1, PeerOf, PeersAssumption DEF PeersTypeOK, Send
<1>3. /\ given' = [given EXCEPT ![r] = n]
      /\ UNCHANGED <<protocol, socket, streamId, tunnelReady, received, serviceVars>>
  BY DEF Send
<1>4. Flow(there, channel[r], Append(messageQueue[r], n), n, lost[r])
  BY <1>1, <1>2, FlowGiven DEF EndInv, FlowOf
<1>5. Dropped(lost[r]) \subseteq 1 .. n
  BY <1>1, <1>2 DEF EndInv
<1>6. CASE tunnelReady[r]
  <2>1. messageQueue[r] = <<>>
    BY <1>1, <1>6 DEF EndInv
  <2>2. Append(messageQueue[r], n) = <<n>> /\ <<n>> \in Seq(Nat)
    BY <1>2, <2>1
  <2> DEFINE more == Data(r, <<n>>, streamId[r])
  <2>3. ToSet(<<n>>) = {n} /\ Ascending(<<n>>) /\ ToSet(<<>>) = {} /\ Ascending(<<>>)
    BY DEF ToSet, Ascending
  <2>4. more \in Seq(Messages) /\ Carried(more) = ToSet(<<n>>) /\ InTurn(more)
    BY <1>1, <1>2, <2>2, <2>3, DataSent
  <2>5. channel' = [channel EXCEPT ![r] = channel[r] \o more] /\ messageQueue' = messageQueue
    BY <1>6 DEF Send
  <2> HIDE DEF more, n, there
  <2>6. Flow(there, channel[r] \o more, <<>>, n, lost[r])
    <3>1. /\ Carried(more) \cup ToSet(<<>>) = ToSet(<<n>>)
          /\ \A a \in Carried(more), b \in ToSet(<<>>) : a < b
          /\ <<>> \in Seq(Nat)
      BY <2>3, <2>4
    <3>2. Flow(there, channel[r], <<n>>, n, lost[r])
      BY <1>4, <2>2
    <3> QED
      BY <1>2, <2>2, <2>3, <2>4, <3>1, <3>2, FlowJoined
  <2>7. channel' \in [Roles -> Seq(Messages)]
    BY <1>2, <2>4, <2>5
  <2>8. PeersTypeOK'
    BY <1>1, <1>2, <1>3, <2>5, <2>7 DEF PeersTypeOK, serviceVars
  <2>9. EndInv(r)'
    <3>1. /\ channel'[r] = channel[r] \o more /\ messageQueue'[r] = <<>> /\ given'[r] = n
          /\ received'[Peer[r]] = there /\ lost'[r] = lost[r]
      BY <1>2, <1>3, <2>1, <2>5 DEF serviceVars, there
    <3> QED
      BY <1>5, <2>6, <3>1 DEF EndInv, FlowOf
  <2>10. EndInv(Peer[r])'
    BY <1>2, <1>3, <2>5, PeerOf, Untouched DEF serviceVars
  <2> QED
    BY <2>8, <2>9, <2>10, PeerOf DEF IInv
<1>7. CASE ~tunnelReady[r]
  <2>1. messageQueue' = [messageQueue EXCEPT ![r] = Append(messageQueue[r], n)] /\ channel' = channel
    BY <1>7 DEF Send
  <2>2. Append(messageQueue[r], n) \in Seq(Nat)
    BY <1>2
  <2> HIDE DEF n, there
  <2>3. messageQueue' \in [Roles -> Seq(Nat)]
    BY <1>2, <2>1, <2>2
  <2>4. PeersTypeOK'
    BY <1>1, <1>2, <1>3, <2>1, <2>3 DEF PeersTypeOK, serviceVars
  <2>5. EndInv(r)'
    <3>1. /\ channel'[r] = channel[r] /\ messageQueue'[r] = Append(messageQueue[r], n)
          /\ given'[r] = n /\ received'[Peer[r]] = there /\ lost'[r] = lost[r] /\ ~tunnelReady'[r]
      BY <1>2, <1>3, <1>7, <2>1 DEF serviceVars, there
    <3> QED
      BY <1>4, <1>5, <3>1 DEF EndInv, FlowOf
  <2>6. EndInv(Peer[r])'
    BY <1>2, <1>3, <2>1, PeerOf, Untouched DEF serviceVars
  <2> QED
    BY <2>4, <2>5, <2>6, PeerOf DEF IInv
<1> QED
  BY <1>6, <1>7

LEMMA DropStep ==
  ASSUME IInv, NEW r \in Roles, Drop(r)
  PROVE  IInv'
<1>1. PeersTypeOK /\ EndInv(r) /\ FlowOf(r)
  BY DEF IInv, EndInv
<1>2. /\ received[Peer[r]] \in Seq(Nat) /\ channel[r] \in Seq(Messages)
      /\ messageQueue[r] \in Seq(Nat) /\ given[r] \in Nat
      /\ channel \in [Roles -> Seq(Messages)] /\ lost \in [Roles -> SUBSET Sent]
  BY <1>1, PeerOf DEF PeersTypeOK
<1>3. /\ channel[r] # <<>>
      /\ channel' = [channel EXCEPT ![r] = Tail(channel[r])]
      /\ lost' = [lost EXCEPT ![r] = lost[r] \cup {Head(channel[r]).meant}]
      /\ UNCHANGED <<protocol, endVars, given, announced, controls>>
  BY DEF Drop
<1>4. Head(channel[r]) \in Messages /\ Tail(channel[r]) \in Seq(Messages)
  BY <1>2, <1>3, Shortened
<1>5. Head(channel[r]).meant \in Sent
  BY <1>4, MessageFields
<1>6. channel' \in [Roles -> Seq(Messages)] /\ lost' \in [Roles -> SUBSET Sent]
  BY <1>2, <1>3, <1>4, <1>5
<1>7. PeersTypeOK'
  BY <1>1, <1>3, <1>6 DEF PeersTypeOK, endVars
<1>8. /\ Flow(received[Peer[r]], Tail(channel[r]), messageQueue[r], given[r],
              lost[r] \cup {Head(channel[r]).meant})
      /\ Dropped(lost[r] \cup {Head(channel[r]).meant}) \subseteq 1 .. given[r]
  BY <1>1, <1>2, <1>3, FlowLoses DEF EndInv, FlowOf
<1>9. EndInv(r)'
  <2>1. /\ channel'[r] = Tail(channel[r]) /\ lost'[r] = lost[r] \cup {Head(channel[r]).meant}
        /\ UNCHANGED <<received, messageQueue, given, tunnelReady>>
    BY <1>2, <1>3 DEF endVars
  <2> QED
    BY <1>1, <1>8, <2>1 DEF EndInv, FlowOf
<1>10. EndInv(Peer[r])'
  BY <1>2, <1>3, PeerOf, Untouched DEF endVars
<1> QED
  BY <1>7, <1>9, <1>10, PeerOf DEF IInv

LEMMA DeliverStep ==
  ASSUME IInv, NEW r \in Roles, Deliver(r)
  PROVE  IInv'
<1> DEFINE p == Peer[r]
           x == Head(channel[p])
           m == Decode(protocol[r], x.wire)
<1>1. PeersTypeOK /\ EndInv(p) /\ FlowOf(p) /\ p \in Roles /\ p # r /\ Peer[p] = r
  BY PeerOf DEF IInv, EndInv
<1>2. /\ received \in [Roles -> Seq(Nat)] /\ channel \in [Roles -> Seq(Messages)]
      /\ protocol[r] \in Versions /\ channel[p] \in Seq(Messages) /\ channel[r] \in Seq(Messages)
      /\ received[r] \in Seq(Nat) /\ messageQueue[p] \in Seq(Nat) /\ given[p] \in Nat
  BY <1>1 DEF PeersTypeOK
<1>3. /\ channel[p] # <<>> /\ Handle(r, m)
      /\ channel' = [channel EXCEPT ![p] = Tail(@), ![r] = @ \o Reply(r, m)]
      /\ UNCHANGED <<protocol, given, serviceVars>>
  BY DEF Deliver
<1>4. x \in Messages /\ Tail(channel[p]) \in Seq(Messages)
  BY <1>2, <1>3, Shortened
<1>5. /\ \E v \in Versions : x = Message(v, x.meant)
      /\ x.meant \in Sent
  BY <1>4, MessageFields
<1>6. /\ IsMeaning(x.meant) /\ Get(x.meant, "type") = x.meant.type
      /\ Get(x.meant, "streamId") \in Nat /\ Get(x.meant, "payload") \in Nat
      /\ x.meant.type = DATA => Get(x.meant, "payload") = x.meant.payload
  BY <1>5, SentFields
<1>7. /\ Get(m, "type") = x.meant.type
      /\ Get(m, "streamId") \in Nat /\ Get(m, "payload") \in Nat
      /\ x.meant.type = DATA => Get(m, "payload") = x.meant.payload
  <2>1. PICK v \in Versions : x = Message(v, x.meant)
    BY <1>5
  <2>2. \A f \in {"type", "streamId", "payload"} : Get(m, f) = Get(x.meant, f)
    BY <1>2, <1>6, <2>1, Told
  <2> HIDE DEF m, x
  <2> QED
    BY <1>6, <2>2
<1> HIDE DEF m, x, p
<1>8. /\ socket' \in [Roles -> {"none", "open", "closed"}]
      /\ streamId' \in [Roles -> Nat]
      /\ tunnelReady' \in [Roles -> BOOLEAN]
      /\ messageQueue' \in [Roles -> Seq(Nat)]
      /\ received' \in [Roles -> Seq(Nat)]
      /\ Reply(r, m) \in Seq(Messages)
      /\ received' = [received EXCEPT ![r] = IF Get(m, "type") = DATA
                                             THEN Append(@, Get(m, "payload")) ELSE @]
      /\ tunnelReady'[p] = tunnelReady[p] /\ messageQueue'[p] = messageQueue[p]
  BY <1>1, <1>3, <1>7, Handled
<1>9. /\ channel'[r] = channel[r] \o Reply(r, m) /\ channel'[p] = Tail(channel[p])
      /\ channel' \in [Roles -> Seq(Messages)]
  <2>1. channel[r] \o Reply(r, m) \in Seq(Messages)
    BY <1>2, <1>8
  <2> QED
    BY <1>1, <1>2, <1>3, <1>4, <2>1
<1>10. PeersTypeOK'
  BY <1>1, <1>3, <1>8, <1>9 DEF PeersTypeOK, serviceVars
<1>11. EndInv(r)'
  BY <1>3, <1>7, <1>9, Answered DEF serviceVars
<1>12. EndInv(p)'
  <2>1. Flow(received[r], channel[p], messageQueue[p], given[p], lost[p])
    BY <1>1 DEF FlowOf
  <2>2. Flow(received'[r], Tail(channel[p]), messageQueue[p], given[p], lost[p])
    <3>1. CASE x.meant.type = DATA
      <4>1. received'[r] = Append(received[r], x.meant.payload)
        BY <1>2, <1>7, <1>8, <3>1
      <4>2. IsData(x)
        BY <3>1 DEF IsData
      <4> QED
        BY <1>2, <1>3, <2>1, <4>1, <4>2, FlowArrives DEF x
    <3>2. CASE x.meant.type # DATA
      <4>1. received'[r] = received[r]
        BY <1>2, <1>7, <1>8, <3>2
      <4>2. ~IsData(x)
        BY <3>2 DEF IsData
      <4> QED
        BY <1>2, <1>3, <2>1, <4>1, <4>2, FlowPasses DEF x
    <3> QED
      BY <3>1, <3>2
  <2>3. /\ channel'[p] = Tail(channel[p]) /\ messageQueue'[p] = messageQueue[p]
        /\ given'[p] = given[p] /\ lost'[p] = lost[p] /\ tunnelReady'[p] = tunnelReady[p]
    BY <1>3, <1>8, <1>9 DEF serviceVars
  <2> QED
    BY <1>1, <2>2, <2>3 DEF EndInv, FlowOf
<1> QED
  BY <1>10, <1>11, <1>12, PeerOf DEF IInv, p

\* A message of the service's own, before what it counts.
LEMMA ServiceStep ==
  ASSUME IInv, NEW r \in Roles, NEW meant \in MadeUp \cup {Announcing}, FromService(r, meant),
         announced' \subseteq Roles, controls' \in 0 .. MaxControls
  PROVE  IInv'
<1> DEFINE m == Decode(protocol[r], Message("V3", meant).wire)
<1>1. PeersTypeOK /\ "V3" \in Versions
  BY DEF IInv, Versions
<1>2. /\ Handle(r, m)
      /\ channel' = [channel EXCEPT ![r] = @ \o Reply(r, m)]
      /\ UNCHANGED <<protocol, given, lost>>
  BY DEF FromService
<1>3. /\ IsMeaning(meant) /\ Get(meant, "type") = meant.type /\ meant.type # DATA
      /\ Get(meant, "streamId") \in Nat /\ Get(meant, "payload") \in Nat
  BY ServiceFields
<1>4. protocol[r] \in Versions /\ received \in [Roles -> Seq(Nat)]
      /\ channel \in [Roles -> Seq(Messages)] /\ channel[r] \in Seq(Messages)
  BY <1>1 DEF PeersTypeOK
<1>5. \A f \in {"type", "streamId", "payload"} : Get(m, f) = Get(meant, f)
  BY <1>1, <1>3, <1>4, Told
<1> HIDE DEF m
<1>6. Get(m, "type") # DATA /\ Get(m, "streamId") \in Nat /\ Get(m, "payload") \in Nat
  BY <1>3, <1>5
<1>7. /\ socket' \in [Roles -> {"none", "open", "closed"}]
      /\ streamId' \in [Roles -> Nat]
      /\ tunnelReady' \in [Roles -> BOOLEAN]
      /\ messageQueue' \in [Roles -> Seq(Nat)]
      /\ received' \in [Roles -> Seq(Nat)]
      /\ Reply(r, m) \in Seq(Messages)
      /\ received' = [received EXCEPT ![r] = IF Get(m, "type") = DATA
                                             THEN Append(@, Get(m, "payload")) ELSE @]
      /\ \A p \in Roles \ {r} : /\ tunnelReady'[p] = tunnelReady[p]
                                /\ messageQueue'[p] = messageQueue[p]
  BY <1>1, <1>2, <1>6, Handled
<1>8. channel'[r] = channel[r] \o Reply(r, m) /\ channel' \in [Roles -> Seq(Messages)]
      /\ channel'[Peer[r]] = channel[Peer[r]] /\ received' = received
  <2>1. channel[r] \o Reply(r, m) \in Seq(Messages)
    BY <1>4, <1>7
  <2>2. received' = [received EXCEPT ![r] = received[r]]
    BY <1>6, <1>7
  <2> QED
    BY <1>2, <1>4, <2>1, <2>2, PeerOf
<1>9. PeersTypeOK'
  BY <1>1, <1>2, <1>7, <1>8 DEF PeersTypeOK
<1>10. EndInv(r)'
  BY <1>2, <1>6, <1>8, Answered
<1>11. EndInv(Peer[r])'
  BY <1>2, <1>7, <1>8, PeerOf, Untouched
<1> QED
  BY <1>9, <1>10, <1>11, PeerOf DEF IInv

LEMMA Inductive == IInv /\ [Next]_vars => IInv'
<1> SUFFICES ASSUME IInv, [Next]_vars PROVE IInv'
  OBVIOUS
<1>1. ASSUME NEW r \in Roles, Announce(r)
      PROVE  IInv'
  <2>1. announced' \subseteq Roles /\ controls' \in 0 .. MaxControls /\ FromService(r, Announcing)
    BY <1>1 DEF Announce, IInv, PeersTypeOK
  <2> QED
    BY <2>1, ServiceStep
<1>2. ASSUME NEW r \in Roles, Control(r)
      PROVE  IInv'
  <2>1. announced' \subseteq Roles /\ controls' \in 0 .. MaxControls
    BY <1>2, PeersAssumption DEF Control, IInv, PeersTypeOK
  <2>2. \E m \in MadeUp : FromService(r, m)
    BY <1>2 DEF Control
  <2> QED
    BY <2>1, <2>2, ServiceStep
<1>3. CASE UNCHANGED vars
  BY <1>3 DEF IInv, PeersTypeOK, EndInv, FlowOf, vars, endVars, serviceVars
<1> QED
  BY <1>1, <1>2, <1>3, OpenStep, SendStep, DisconnectStep, DeliverStep, DropStep DEF Next

LEMMA Invariance == Spec => []IInv
BY InitPeers, Inductive, PTL DEF Spec

-------------------------------------------------------------------------------
(* The theorems.                                                            *)

(* However much the two clients send, whichever versions the ends speak and *)
(* wherever the handshake completes, a message is at the peer's client, on  *)
(* its way or in the queue, once and in order; an end that is ready has     *)
(* nothing queued (aws-iot-tunnel.ts:196-223, :397-467).                    *)
THEOREM NothingForgotten == Spec => []Conserved
<1>1. IInv => Conserved
  BY DEF IInv, EndInv, FlowOf, Conserved
<1> QED
  BY <1>1, Invariance, PTL

(* Every message that either end or the service sends means the same to a   *)
(* decoder of any version, as far as both know its fields, and survives     *)
(* toJSON, fromObject and verify (protobuf-messages.js).                    *)
THEOREM VersionsAgree == Spec => []Understood
<1>1. ServiceAgrees
  BY CodecAgrees, ServiceFields DEF ServiceAgrees, Versions
<1>2. ASSUME IInv, NEW r \in Roles, NEW v \in Versions, channel[r] # <<>>
      PROVE  Agree(Last(channel[r]), v)
  <2>1. channel[r] \in Seq(Messages)
    BY <1>2 DEF IInv, PeersTypeOK
  <2>2. Last(channel[r]) \in Messages
    BY <1>2, <2>1 DEF Last
  <2>3. PICK b \in Versions, m \in Sent : Last(channel[r]) = Message(b, m)
    BY <2>2 DEF Messages
  <2> QED
    BY <2>3, CodecAgrees, SentFields
<1>3. IInv => Understood
  BY <1>1, <1>2 DEF Understood
<1> QED
  BY <1>3, Invariance, PTL
===============================================================================
