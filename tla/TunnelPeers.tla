------------------------------ MODULE TunnelPeers ------------------------------
(***************************************************************************)
(* Two SecureTunnelTransports, one in source and one in destination mode,  *)
(* and the tunneling service between them.  SecureTunnel models one of     *)
(* them in detail, with frames, chunks and callbacks; here a message fits  *)
(* a frame and a handler is one step, and the subject is what the two ends *)
(* make of each other's messages when they speak different versions of the *)
(* protocol (TunnelCodec).                                                 *)
(*                                                                         *)
(* The service is external: it forwards what belongs to the stream, in     *)
(* order, drops it when the other end is not there, announces the service  *)
(* ids to clients whose version has such a message, and may send control   *)
(* messages of its own, in the newest version.                             *)
(***************************************************************************)
EXTENDS TunnelCodec

CONSTANTS
    MaxSends,       \* how often the client of each end calls send() at most
    MaxControls     \* how many control messages the service makes up at most

ASSUME PeersAssumption == MaxSends \in Nat /\ MaxControls \in Nat

Roles == {"source", "destination"}
Peer == [source |-> "destination", destination |-> "source"]

DATA == 1
STREAM_START == 2
STREAM_RESET == 3
SESSION_RESET == 4
SERVICE_IDS == 5

VARIABLES
    protocol,   \* config.protocol of each end
    socket,     \* its WebSocket: "none", "open" or "closed"
    streamId, tunnelReady, messageQueue,    \* its fields
    given,      \* history: how many messages its client gave to send()
    received,   \* the payloads it has passed to onData
    channel,    \* messages of the stream on their way from it to its peer
    lost,       \* history: those that the service dropped
    announced,  \* the ends that the service has sent SERVICE_IDS to
    controls    \* how many messages the service made up

endVars == <<socket, streamId, tunnelReady, messageQueue, received>>
serviceVars == <<lost, announced, controls>>
vars == <<protocol, endVars, given, channel, serviceVars>>

Init ==
    /\ protocol \in [Roles -> Versions]
    /\ socket = [r \in Roles |-> "none"]
    /\ streamId = [r \in Roles |-> 1]
    /\ tunnelReady = [r \in Roles |-> FALSE]
    /\ messageQueue = [r \in Roles |-> <<>>]
    /\ given = [r \in Roles |-> 0]
    /\ received = [r \in Roles |-> <<>>]
    /\ channel = [r \in Roles |-> <<>>]
    /\ lost = [r \in Roles |-> {}]
    /\ announced = {}
    /\ controls = 0

-----------------------------------------------------------------------------
(* A message on its way: what the sender encoded and, for the properties,  *)
(* the version it has and what it meant.                                   *)
Message(v, meant) == [by |-> v, meant |-> meant, wire |-> Encode(v, Create(v, meant))]

(* sendDataFrame: the service id from V2 on, the connection id in V3.      *)
DataMessage(v, n, id) ==
    CASE v = "V1" -> [type |-> DATA, streamId |-> id, payload |-> n]
      [] v = "V2" -> [type |-> DATA, streamId |-> id, payload |-> n, serviceId |-> "ssh"]
      [] v = "V3" -> [type |-> DATA, streamId |-> id, payload |-> n, serviceId |-> "ssh",
                      connectionId |-> 1]

Data(r, payloads, id) ==
    [i \in DOMAIN payloads |-> Message(protocol[r], DataMessage(protocol[r], payloads[i], id))]

Reset(r) == <<Message(protocol[r], [type |-> STREAM_RESET, streamId |-> streamId[r]])>>

(* onopen: a source starts the stream; what a destination sends is for the *)
(* service and goes no further.                                            *)
Greeting(r) ==
    IF r = "source"
    THEN <<Message(protocol[r],
               [type |-> STREAM_START, streamId |-> streamId[r], serviceId |-> "ssh"])>>
    ELSE <<>>

Open(r) ==
    /\ socket[r] = "none"
    /\ socket' = [socket EXCEPT ![r] = "open"]
    /\ channel' = [channel EXCEPT ![r] = @ \o Greeting(r)]
    /\ UNCHANGED <<protocol, streamId, tunnelReady, messageQueue, given, received, serviceVars>>

(* send().                                                                 *)
Send(r) ==
    LET n == given[r] + 1 IN
    /\ n <= MaxSends
    /\ given' = [given EXCEPT ![r] = n]
    /\ IF tunnelReady[r]
       THEN /\ channel' = [channel EXCEPT ![r] = @ \o Data(r, <<n>>, streamId[r])]
            /\ UNCHANGED messageQueue
       ELSE /\ messageQueue' = [messageQueue EXCEPT ![r] = Append(@, n)]
            /\ UNCHANGED channel
    /\ UNCHANGED <<protocol, socket, streamId, tunnelReady, received, serviceVars>>

(* disconnect(): a last STREAM_RESET, and the socket is closed.            *)
Hangup(r) ==
    /\ socket' = [socket EXCEPT ![r] = "closed"]
    /\ tunnelReady' = [tunnelReady EXCEPT ![r] = FALSE]

Disconnect(r) ==
    /\ socket[r] = "open"
    /\ Hangup(r)
    /\ channel' = [channel EXCEPT ![r] = @ \o Reset(r)]
    /\ UNCHANGED <<protocol, streamId, messageQueue, given, received, serviceVars>>

-----------------------------------------------------------------------------
(* handleMessage.                                                          *)

(* mutant: every end waits for the announcement.                           *)
Announcement(r, m) == Get(m, "type") = SERVICE_IDS

(* What completes the handshake of an end.                                 *)
Completes(r, m) == Get(m, "type") = IF r = "source" THEN SERVICE_IDS ELSE STREAM_START

(* The stream that an end is ready for then: a destination takes over that *)
(* of the source.                                                          *)
Stream(r, m) == IF r = "source" THEN streamId[r] ELSE Get(m, "streamId")

(* mutant: the queue is sent and stays where it is.                        *)
ReadyOnly(r, m) ==
    /\ streamId' = [streamId EXCEPT ![r] = Stream(r, m)]
    /\ tunnelReady' = [tunnelReady EXCEPT ![r] = TRUE]
    /\ UNCHANGED messageQueue

(* The handshake is complete.  What processQueuedMessages sends is Reply.  *)
BecomeReady(r, m) ==
    /\ streamId' = [streamId EXCEPT ![r] = Stream(r, m)]
    /\ tunnelReady' = [tunnelReady EXCEPT ![r] = TRUE]
    /\ messageQueue' = [messageQueue EXCEPT ![r] = <<>>]

(* What handling the message sends.                                        *)
Reply(r, m) ==
    IF Completes(r, m) THEN Data(r, messageQueue[r], Stream(r, m))
    ELSE IF Get(m, "type") = SESSION_RESET THEN Reset(r)
    ELSE <<>>

(* What it changes.  A payload that is not there is the empty buffer of    *)
(* the prototype, and passed on like any other.  STREAM_RESET calls        *)
(* onClose, which nobody has set; other types are only logged.             *)
Handle(r, m) ==
    \/ /\ Get(m, "type") = DATA
       /\ received' = [received EXCEPT ![r] = Append(@, Get(m, "payload"))]
       /\ UNCHANGED <<socket, streamId, tunnelReady, messageQueue>>
    \/ /\ Completes(r, m)
       /\ BecomeReady(r, m)
       /\ UNCHANGED <<socket, received>>
    \/ /\ Get(m, "type") = SESSION_RESET
       /\ Hangup(r)
       /\ UNCHANGED <<streamId, messageQueue, received>>
    \/ /\ Get(m, "type") \notin {DATA, SESSION_RESET}
       /\ ~Completes(r, m)
       /\ UNCHANGED endVars

(* The next message of the stream arrives.                                 *)
Deliver(r) ==
    LET p == Peer[r] IN
    /\ socket[r] = "open"
    /\ channel[p] # <<>>
    /\ \E m \in {Decode(protocol[r], Head(channel[p]).wire)} :
         /\ Handle(r, m)
         /\ channel' = [channel EXCEPT ![p] = Tail(@), ![r] = @ \o Reply(r, m)]
    /\ UNCHANGED <<protocol, given, serviceVars>>

-----------------------------------------------------------------------------
(* The service.                                                            *)

(* Nobody is there for the next message of the stream.                     *)
Drop(r) ==
    /\ socket[Peer[r]] # "open"
    /\ channel[r] # <<>>
    /\ channel' = [channel EXCEPT ![r] = Tail(@)]
    /\ lost' = [lost EXCEPT ![r] = @ \cup {Head(channel[r]).meant}]
    /\ UNCHANGED <<protocol, endVars, given, announced, controls>>

(* A message of the service's own, which comes anywhere between those of   *)
(* the stream.                                                             *)
FromService(r, meant) ==
    /\ socket[r] = "open"
    /\ \E m \in {Decode(protocol[r], Message("V3", meant).wire)} :
         /\ Handle(r, m)
         /\ channel' = [channel EXCEPT ![r] = @ \o Reply(r, m)]
    /\ UNCHANGED <<protocol, given, lost>>

Announcing == [type |-> SERVICE_IDS, availableServiceIds |-> <<"ssh", "vnc">>]

(* V1 has no SERVICE_IDS.                                                  *)
Announce(r) ==
    /\ protocol[r] # "V1"
    /\ r \notin announced
    /\ announced' = announced \cup {r}
    /\ FromService(r, Announcing)
    /\ UNCHANGED controls

(* Types that no end sends, one of them of a version to come.              *)
MadeUp == [type : {0, SESSION_RESET, 6, 7, 8}, connectionId : {2}, ignorable : {TRUE}]

Control(r) ==
    /\ controls < MaxControls
    /\ controls' = controls + 1
    /\ \E m \in MadeUp : FromService(r, m)
    /\ UNCHANGED announced

Next == \E r \in Roles :
    \/ Open(r) \/ Send(r) \/ Disconnect(r) \/ Deliver(r)
    \/ Drop(r) \/ Announce(r) \/ Control(r)

(* The network and the service do their part.                              *)
Fairness == \A r \in Roles : WF_vars(Deliver(r)) /\ WF_vars(Announce(r))

Spec == Init /\ [][Next]_vars /\ Fairness

-----------------------------------------------------------------------------
(* Whatever two versions an encoder and a decoder are of, a message means  *)
(* the same at both ends as far as both know its fields; the rest has its  *)
(* default.  Decoded messages survive toJSON and fromObject, and verify    *)
(* passes just the types that its version has a name for                   *)
(* (protobuf-messages.js).                                                 *)
Agree(message, v) ==
    LET m == Decode(v, message.wire) IN
    /\ \A f \in DOMAIN Default :
         Get(m, f) = IF f \in ToSet(Written(message.by)) \cap ToSet(Written(v))
                     THEN Get(message.meant, f) ELSE Default[f]
    /\ FromObject(v, ToJSON(v, m)) = m
    /\ Verify(v, m) <=> Get(m, "type") < Len(TypeNames(v))

ServiceAgrees ==
    \A v \in Versions, meant \in MadeUp \cup {Announcing} : Agree(Message("V3", meant), v)

Understood ==
    /\ ServiceAgrees
    /\ \A r \in Roles, v \in Versions :
         channel[r] # <<>> => Agree(Last(channel[r]), v)

(* What an end was given is at its peer's client, on its way there or in   *)
(* messageQueue, where none of it is left once the end is ready, in the    *)
(* order it was given: nothing is forgotten, doubled or overtaken when the *)
(* handshake completes in the middle of it (processQueuedMessages).  Only  *)
(* what came to the service while the peer was not there is missing.       *)
Ascending(s) == \A i, j \in DOMAIN s : i < j => s[i] < s[j]

IsData(message) == message.meant.type = DATA
OnTheWay(messages) == {i \in DOMAIN messages : IsData(messages[i])}
Carried(messages) == {messages[i].meant.payload : i \in OnTheWay(messages)}
Dropped(meanings) == {m.payload : m \in {m \in meanings : m.type = DATA}}

InTurn(messages) ==
    \A i, j \in OnTheWay(messages) :
        i < j => messages[i].meant.payload < messages[j].meant.payload

Flow(there, messages, queue, n, missing) ==
    /\ ToSet(there) \cup Carried(messages) \cup ToSet(queue) = (1 .. n) \ Dropped(missing)
    /\ Ascending(there)
    /\ Ascending(queue)
    /\ InTurn(messages)
    /\ \A a \in ToSet(there), b \in Carried(messages) \cup ToSet(queue) : a < b
    /\ \A a \in Carried(messages), b \in ToSet(queue) : a < b

Conserved ==
    \A r \in Roles :
        /\ Flow(received[Peer[r]], channel[r], messageQueue[r], given[r], lost[r])
        /\ tunnelReady[r] => messageQueue[r] = <<>>

(* An end whose socket stays open gets ready to send, whatever versions    *)
(* the two ends speak: a source unless its version has no SERVICE_IDS, a   *)
(* destination once the source has connected, unless it came too late for  *)
(* the STREAM_START, which is sent only once.                              *)
Missed == \E m \in lost["source"] : m.type = STREAM_START

BothReady ==
    /\ (protocol["source"] # "V1" /\ socket["source"] = "open")
          ~> (tunnelReady["source"] \/ socket["source"] = "closed")
    /\ (socket["destination"] = "open" /\ socket["source"] # "none")
          ~> (tunnelReady["destination"] \/ socket["destination"] = "closed" \/ Missed)
=============================================================================
