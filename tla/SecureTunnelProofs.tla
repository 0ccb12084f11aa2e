-------------------------- MODULE SecureTunnelProofs --------------------------
(***************************************************************************)
(* Theorems about SecureTunnel, for any serviceId of at most 900 bytes and *)
(* messages of any size.  Every action leaves the wire alone or appends    *)
(* one frame to it: the lemmas about a payload (DataFrame) and a control   *)
(* frame (ControlFrame) carry InOrder over the step.                       *)
(***************************************************************************)
EXTENDS SecureTunnel, TLAPS

LEMMA InitIInv == Init => IInv
<1> SUFFICES ASSUME Init PROVE IInv
  OBVIOUS
<1>1. TypeOK
  <2>1. Nothing \in Message
    BY DEF Nothing, Message
  <2>2. messageQueue \in Seq(Message) /\ wire \in Seq(Frame) /\ inbox \in Seq(Types)
    BY DEF Init
  <2> QED
    BY <2>1, <2>2 DEF Init, TypeOK
<1>2. Fresh /\ Usable /\ Whole /\ Queued
  BY DEF Init, Fresh, Usable, Queued, Whole, Quiet, Idle, Nothing, Writable, Ready, FrameBytes
<1>3. InOrder /\ ResetLast
  BY DEF Init, InOrder, ResetLast, DataAt
<1>4. NothingLost
  BY DEF Init, NothingLost, Idle, Nothing, QueueFrom, AtEnd, IsEnd, Ends, DataAt
<1> QED
  BY <1>1, <1>2, <1>3, <1>4 DEF IInv

-------------------------------------------------------------------------------
(* Types.                                                                  *)

LEMMA ControlType ==
  ASSUME NEW t \in Types
  PROVE  Control(t) \in Frame
BY DEF Control, Frame

LEMMA SendFrameType ==
  ASSUME TypeOK, NEW f \in Frame, SendFrame(f)
  PROVE  wire' \in Seq(Frame)
BY DEF TypeOK, SendFrame

LEMMA QueueType ==
  ASSUME TypeOK, messageQueue # <<>>
  PROVE  /\ Len(messageQueue) \in Nat /\ Len(messageQueue) > 0
         /\ Head(messageQueue) \in Message /\ Head(messageQueue) = messageQueue[1]
         /\ Tail(messageQueue) \in Seq(Message)
         /\ Len(Tail(messageQueue)) = Len(messageQueue) - 1
         /\ \A i \in 1 .. Len(messageQueue) - 1 : Tail(messageQueue)[i] = messageQueue[i + 1]
<1>1. messageQueue \in Seq(Message)
  BY DEF TypeOK
<1> QED
  BY <1>1

LEMMA HangupType ==
  ASSUME TypeOK, Hangup
  PROVE  /\ socket' \in {"none", "connecting", "open", "closing", "closed"}
         /\ attached' \in BOOLEAN /\ isConnected' \in BOOLEAN /\ tunnelReady' \in BOOLEAN
         /\ wire' \in Seq(Frame)
<1>1. Control("STREAM_RESET") \in Frame
  BY ControlType DEF Types
<1>2. wire' \in Seq(Frame)
  BY <1>1, SendFrameType DEF TypeOK, Hangup
<1> QED
  BY <1>2 DEF TypeOK, Hangup

LEMMA TypeStep ==
  ASSUME IInv, Next
  PROVE  TypeOK'
<1> USE DEF IInv, TypeOK, linkVars, sendVars, recvVars, serviceVars
<1>1. CASE SendChunk
  <2> DEFINE end == IF sending.to - sending.from > MaxPayload
                    THEN sending.from + MaxPayload ELSE sending.to
  <2>1. end \in Nat /\ end <= sending.to
    BY DEF Message, MaxPayload
  <2>2. sending' \in Message
    BY <1>1, <2>1 DEF SendChunk, Message
  <2>3. [type |-> "DATA", from |-> sending.from, to |-> end] \in Frame
    BY <2>1 DEF Frame, Types, Message
  <2>4. wire' \in Seq(Frame)
    BY <1>1, <2>3, SendFrameType DEF SendChunk
  <2> QED
    BY <1>1, <2>2, <2>4 DEF SendChunk
<1>2. CASE Flush
  <2>1. sending' \in Message /\ messageQueue' \in Seq(Message)
    BY <1>2, QueueType DEF Flush
  <2> QED
    BY <1>2, <2>1 DEF Flush
<1>3. CASE NextFrame
  <2>1. Len(inbox) > 0 /\ buffered' \in Nat
    BY <1>3 DEF NextFrame, HasFrame, Whole, FrameBytes
  <2>2. Head(inbox) \in Types /\ inbox' \in Seq(Types)
    BY <1>3, <2>1 DEF NextFrame
  <2>3. /\ socket' \in {"none", "connecting", "open", "closing", "closed"}
        /\ attached' \in BOOLEAN /\ isConnected' \in BOOLEAN /\ tunnelReady' \in BOOLEAN
        /\ wire' \in Seq(Frame) /\ flushing' \in BOOLEAN
    BY <1>3, HangupType DEF NextFrame, Handle, BecomeReady
  <2> QED
    BY <1>3, <2>1, <2>2, <2>3 DEF NextFrame, Handle
<1>4. CASE Incomplete
  BY <1>4 DEF Incomplete
<1>5. ASSUME NEW n \in Sizes, Send(n) PROVE TypeOK'
  <2>1. n \in Nat /\ sent' \in Nat
    BY <1>5, TunnelAssumption DEF Send
  <2>2. [from |-> sent, to |-> sent + n] \in Message
    BY <2>1 DEF Message
  <2>3. sending' \in Message /\ messageQueue' \in Seq(Message)
    BY <1>5, <2>2 DEF Send
  <2> QED
    BY <1>5, <2>1, <2>3 DEF Send
<1>6. CASE Connect
  BY <1>6 DEF Connect
<1>7. CASE Open
  <2>1. Control("STREAM_START") \in Frame /\ Control("SERVICE_IDS") \in Frame
    BY ControlType DEF Types
  <2>2. wire' \in Seq(Frame)
    BY <1>7, <2>1 DEF Open
  <2> QED
    BY <1>7, <2>2 DEF Open
<1>8. CASE Lose
  BY <1>8 DEF Lose
<1>9. CASE OnClose
  BY <1>9 DEF OnClose
<1>10. CASE Disconnect
  BY <1>10, HangupType DEF Disconnect
<1>11. CASE ServiceGreets
  BY <1>11 DEF ServiceGreets, Greeting, Types
<1>12. ASSUME NEW t \in Types, Serve(t) PROVE TypeOK'
  BY <1>12 DEF Serve
<1>13. CASE OnMessage
  BY <1>13 DEF OnMessage, FrameBytes
<1> QED
  BY <1>1, <1>2, <1>3, <1>4, <1>5, <1>6, <1>7, <1>8, <1>9, <1>10, <1>11, <1>12, <1>13
     DEF Next, Loops

-------------------------------------------------------------------------------
(* The wire.                                                               *)

\* A frame appended to the wire adds its end to those of the later frames.
LEMMA AppendEnds ==
  ASSUME TypeOK, NEW f \in Frame, wire' = Append(wire, f), NEW n \in Nat, n = Len(wire)
  PROVE  /\ wire'[n + 1] = f /\ Len(wire') = n + 1
         /\ \A i \in 1 .. n : wire'[i] = wire[i] /\ (DataAt(i)' <=> DataAt(i))
         /\ \A m \in 1 .. n + 1 : \A e : IsEnd(m, e)' <=> IsEnd(m, e)
         /\ f.type # "DATA" => \A e : IsEnd(n + 2, e)' <=> IsEnd(n + 1, e)
         /\ (f.type = "DATA" /\ f.from <= f.to /\ IsEnd(n + 1, f.from)) => IsEnd(n + 2, f.to)'
<1>1. /\ Len(wire') = n + 1
      /\ wire'[n + 1] = f
      /\ \A i \in 1 .. n : wire'[i] = wire[i]
  <2>1. wire \in Seq(Frame)
    BY DEF TypeOK
  <2> QED
    BY <2>1
<1>2. \A i \in 1 .. n : DataAt(i)' <=> DataAt(i)
  BY <1>1 DEF DataAt
<1>3. DataAt(n + 1)' <=> f.type = "DATA"
  BY <1>1 DEF DataAt
<1>4. ASSUME NEW m \in 1 .. n + 1
      PROVE  Ends(m)' = Ends(m)
  <2>1. \A i \in 1 .. m - 1 : (DataAt(i)' <=> DataAt(i)) /\ wire'[i] = wire[i]
    BY <1>1, <1>2
  <2> QED
    BY <2>1 DEF Ends
<1>5. ASSUME NEW e
      PROVE  e \in Ends(n + 2)' <=> (e \in Ends(n + 1) \/ (f.type = "DATA" /\ e = f.to))
  <2>1. e \in Ends(n + 2)' <=> (e = 0 \/ \E i \in 1 .. n + 1 : DataAt(i)' /\ e = wire'[i].to)
    <3>1. (n + 2) - 1 = n + 1
      OBVIOUS
    <3> QED
      BY <3>1 DEF Ends
  <2>2. e \in Ends(n + 1) <=> (e = 0 \/ \E i \in 1 .. n : DataAt(i) /\ e = wire[i].to)
    <3>1. (n + 1) - 1 = n
      OBVIOUS
    <3> QED
      BY <3>1 DEF Ends
  <2> QED
    BY <1>1, <1>2, <1>3, <2>1, <2>2
<1>6. \A d \in Ends(n + 1) : d \in Nat
  <2>1. \A i \in 1 .. n : wire[i] \in Frame
    BY DEF TypeOK
  <2>2. \A i \in 1 .. n : wire[i].to \in Nat
    BY <2>1 DEF Frame
  <2> QED
    BY <2>2 DEF Ends
<1>7. f.from \in Nat /\ f.to \in Nat
  BY DEF Frame
<1>8. \A m \in 1 .. n + 1 : \A e : IsEnd(m, e)' <=> IsEnd(m, e)
  BY <1>4 DEF IsEnd
<1>9. f.type # "DATA" => \A e : IsEnd(n + 2, e)' <=> IsEnd(n + 1, e)
  BY <1>5 DEF IsEnd
<1>10. (f.type = "DATA" /\ f.from <= f.to /\ IsEnd(n + 1, f.from)) => IsEnd(n + 2, f.to)'
  BY <1>5, <1>6, <1>7 DEF IsEnd
<1> QED
  BY <1>1, <1>2, <1>8, <1>9, <1>10

LEMMA SameWire ==
  ASSUME IInv, UNCHANGED wire, sent' \in Nat, sent <= sent'
  PROVE  InOrder' /\ \A e : AtEnd(e) => AtEnd(e)'
<1>1. \A i \in 1 .. Len(wire) : wire[i] \in Frame
  BY DEF IInv, TypeOK
<1>2. \A i \in 1 .. Len(wire) : wire[i].to \in Nat
  BY <1>1 DEF Frame
<1>3. \A i : DataAt(i)' <=> DataAt(i)
  BY DEF DataAt
<1>4. \A n, e : IsEnd(n, e)' <=> IsEnd(n, e)
  BY <1>3 DEF IsEnd, Ends
<1>5. sent \in Nat
  BY DEF IInv, TypeOK
<1>6. InOrder'
  BY <1>2, <1>3, <1>4, <1>5 DEF IInv, InOrder, DataAt
<1> QED
  BY <1>4, <1>6 DEF AtEnd

LEMMA ControlFrame ==
  ASSUME IInv, NEW t \in Types \ {"DATA"}, wire' = Append(wire, Control(t)), sent' = sent
  PROVE  InOrder' /\ \A e : AtEnd(e) => AtEnd(e)'
<1>1. Control(t) \in Frame /\ Control(t).type # "DATA"
  BY ControlType DEF Control
<1>2. PICK n \in Nat : n = Len(wire)
  BY DEF IInv, TypeOK
<1>3. /\ wire'[n + 1] = Control(t) /\ Len(wire') = n + 1
      /\ \A i \in 1 .. n : wire'[i] = wire[i] /\ (DataAt(i)' <=> DataAt(i))
      /\ \A m \in 1 .. n + 1 : \A e : IsEnd(m, e)' <=> IsEnd(m, e)
      /\ \A e : IsEnd(n + 2, e)' <=> IsEnd(n + 1, e)
  BY <1>1, <1>2, AppendEnds DEF IInv
<1>4. ~DataAt(n + 1)'
  BY <1>1, <1>3 DEF DataAt
<1>5. InOrder'
  <2> SUFFICES ASSUME NEW i \in 1 .. n + 1, DataAt(i)'
               PROVE  /\ wire'[i].from < wire'[i].to /\ wire'[i].to <= wire'[i].from + 63 * 1024
                      /\ wire'[i].to <= sent'
                      /\ IsEnd(i, wire[i].from)'
    BY <1>3 DEF InOrder
  <2>1. i \in 1 .. n
    BY <1>4
  <2> QED
    BY <2>1, <1>2, <1>3 DEF IInv, InOrder
<1>6. \A e : AtEnd(e) => AtEnd(e)'
  <2>1. (n + 1) + 1 = n + 2
    OBVIOUS
  <2> QED
    BY <1>2, <1>3, <2>1 DEF AtEnd
<1> QED
  BY <1>5, <1>6

LEMMA DataFrame ==
  ASSUME IInv, NEW f \in Frame, wire' = Append(wire, f), sent' = sent, f.type = "DATA",
         f.from < f.to, f.to <= f.from + 63 * 1024, f.to <= sent, AtEnd(f.from)
  PROVE  InOrder' /\ \A e : e = f.to => AtEnd(e)'
<1>1. PICK n \in Nat : n = Len(wire)
  BY DEF IInv, TypeOK
<1>2. f.from <= f.to /\ IsEnd(n + 1, f.from)
  BY <1>1 DEF AtEnd, Frame
<1>3. /\ wire'[n + 1] = f /\ Len(wire') = n + 1
      /\ \A i \in 1 .. n : wire'[i] = wire[i] /\ (DataAt(i)' <=> DataAt(i))
      /\ \A m \in 1 .. n + 1 : \A e : IsEnd(m, e)' <=> IsEnd(m, e)
      /\ IsEnd(n + 2, f.to)'
  BY <1>1, <1>2, AppendEnds DEF IInv
<1>4. InOrder'
  <2> SUFFICES ASSUME NEW i \in 1 .. n + 1, DataAt(i)'
               PROVE  /\ wire'[i].from < wire'[i].to /\ wire'[i].to <= wire'[i].from + 63 * 1024
                      /\ wire'[i].to <= sent'
                      /\ IsEnd(i, wire[i].from)'
    BY <1>3 DEF InOrder
  <2>1. CASE i \in 1 .. n
    BY <2>1, <1>1, <1>3 DEF IInv, InOrder
  <2>2. CASE i = n + 1
    BY <2>2, <1>2, <1>3
  <2>3. i \in 1 .. n \/ i = n + 1
    OBVIOUS
  <2> QED
    BY <2>1, <2>2, <2>3
<1>5. \A e : e = f.to => AtEnd(e)'
  <2>1. (n + 1) + 1 = n + 2
    OBVIOUS
  <2> QED
    BY <1>3, <2>1 DEF AtEnd
<1> QED
  BY <1>4, <1>5

-------------------------------------------------------------------------------
(* The steps.                                                              *)

\* What a chunk of sendDataFrame is.
LEMMA Chunk ==
  ASSUME IInv, ~Idle
  PROVE  LET end == IF sending.to - sending.from > MaxPayload
                    THEN sending.from + MaxPayload ELSE sending.to
             f == [type |-> "DATA", from |-> sending.from, to |-> end]
         IN  /\ f \in Frame /\ f.from < f.to /\ f.to <= f.from + 63 * 1024 /\ f.to <= sent
             /\ f.to <= sending.to
<1>1. /\ sending.from \in Nat /\ sending.to \in Nat /\ sent \in Nat
      /\ sending.from < sending.to /\ sending.to <= sent
  BY DEF IInv, TypeOK, Queued, Message, Idle
<1> QED
  BY <1>1 DEF MaxPayload, Frame, Types

\* Every step leaves the wire alone or appends a frame to it.
LEMMA WireStep ==
  ASSUME IInv, Next
  PROVE  \/ UNCHANGED wire /\ sent <= sent'
         \/ /\ \E t \in Types \ {"DATA"} : wire' = Append(wire, Control(t))
            /\ sent' = sent
         \/ SendChunk /\ Writable
<1> USE DEF linkVars, sendVars, recvVars, serviceVars
<1>0. sent \in Nat
  BY DEF IInv, TypeOK
<1>1. CASE SendChunk
  BY <1>0, <1>1 DEF SendChunk, SendFrame
<1>2. CASE Flush
  BY <1>0, <1>2 DEF Flush
<1>3. ASSUME Hangup
      PROVE  UNCHANGED wire \/ wire' = Append(wire, Control("STREAM_RESET"))
  BY <1>3 DEF Hangup, SendFrame
<1>4. CASE NextFrame
  <2>1. UNCHANGED wire \/ Hangup
    BY <1>4 DEF NextFrame, Handle, BecomeReady
  <2>2. sent' = sent
    BY <1>4 DEF NextFrame
  <2> QED
    BY <1>0, <1>3, <2>1, <2>2 DEF Types
<1>5. CASE Incomplete
  BY <1>0, <1>5 DEF Incomplete
<1>6. ASSUME NEW n \in Sizes, Send(n) PROVE UNCHANGED wire /\ sent <= sent'
  BY <1>0, <1>6, TunnelAssumption DEF Send
<1>7. CASE Connect \/ Lose \/ OnClose
  BY <1>0, <1>7 DEF Connect, Lose, OnClose
<1>8. CASE Open
  BY <1>0, <1>8 DEF Open, Types
<1>9. CASE Disconnect
  BY <1>0, <1>3, <1>9 DEF Disconnect, Types
<1>10. CASE ServiceGreets \/ OnMessage
  BY <1>0, <1>10 DEF ServiceGreets, OnMessage
<1>11. ASSUME NEW t \in Types, Serve(t) PROVE UNCHANGED wire /\ sent <= sent'
  BY <1>0, <1>11 DEF Serve
<1> QED
  BY <1>1, <1>2, <1>4, <1>5, <1>6, <1>7, <1>8, <1>9, <1>10, <1>11 DEF Next, Loops

LEMMA InOrderStep ==
  ASSUME IInv, Next
  PROVE  InOrder' /\ (~SendChunk => \A e : AtEnd(e) => AtEnd(e)')
<1>1. TypeOK'
  BY TypeStep
<1>2. CASE UNCHANGED wire /\ sent <= sent'
  BY <1>1, <1>2, SameWire DEF TypeOK
<1>3. CASE (\E t \in Types \ {"DATA"} : wire' = Append(wire, Control(t))) /\ sent' = sent
  BY <1>3, ControlFrame
<1>4. CASE SendChunk /\ Writable
  <2> DEFINE end == IF sending.to - sending.from > MaxPayload
                    THEN sending.from + MaxPayload ELSE sending.to
             f == [type |-> "DATA", from |-> sending.from, to |-> end]
  <2>1. wire' = Append(wire, f) /\ sent' = sent /\ ~Idle
    BY <1>4 DEF SendChunk, SendFrame
  <2>2. f \in Frame /\ f.from < f.to /\ f.to <= f.from + 63 * 1024 /\ f.to <= sent
    BY <2>1, Chunk
  <2>3. AtEnd(f.from)
    BY <1>4, <2>1 DEF IInv, NothingLost, Intact, Writable
  <2>4. f.type = "DATA"
    OBVIOUS
  <2> HIDE DEF f
  <2> QED
    BY <1>4, <2>1, <2>2, <2>3, <2>4, DataFrame
<1> QED
  BY <1>2, <1>3, <1>4, WireStep

\* A step that leaves what waits alone keeps NothingLost.
LEMMA NothingWaits ==
  ASSUME NothingLost, UNCHANGED <<messageQueue, sent, sending>>, Intact' => Intact,
         \A e : AtEnd(e) => AtEnd(e)'
  PROVE  NothingLost'
<1>1. \A i : QueueFrom(i)' = QueueFrom(i)
  BY DEF QueueFrom
<1>2. Idle' <=> Idle
  BY DEF Idle
<1>3. PICK e : e = IF Idle THEN QueueFrom(1) ELSE sending.from
  OBVIOUS
<1>4. Intact' => AtEnd(e)'
  BY <1>3 DEF NothingLost
<1>5. Intact' => AtEnd(IF Idle THEN QueueFrom(1) ELSE sending.from)'
  BY <1>1, <1>2, <1>3, <1>4
<1> QED
  BY <1>1, <1>2, <1>5 DEF NothingLost

LEMMA NothingLostStep ==
  ASSUME IInv, Next
  PROVE  NothingLost'
<1> USE DEF linkVars, sendVars, recvVars, serviceVars
<1>0. /\ NothingLost /\ TypeOK /\ TypeOK'
      /\ sent \in Nat /\ Len(messageQueue) \in Nat /\ messageQueue \in Seq(Message)
  BY TypeStep DEF IInv, TypeOK
<1>1. ~SendChunk => \A e : AtEnd(e) => AtEnd(e)'
  BY InOrderStep
<1>2. CASE SendChunk
  <2> DEFINE end == IF sending.to - sending.from > MaxPayload
                    THEN sending.from + MaxPayload ELSE sending.to
             f == [type |-> "DATA", from |-> sending.from, to |-> end]
  <2>1. /\ ~Idle /\ UNCHANGED <<messageQueue, sent, socket, attached>>
        /\ sending' = [sending EXCEPT !.from = end]
        /\ Writable => wire' = Append(wire, f)
        /\ ~Writable => UNCHANGED wire
    BY <1>2 DEF SendChunk, SendFrame
  <2>2. f \in Frame /\ f.from < f.to /\ f.to <= f.from + 63 * 1024 /\ f.to <= sent
    BY <2>1, Chunk
  <2>3. sending'.from = end /\ sending'.to = sending.to
    BY <1>0, <2>1 DEF TypeOK, Message
  <2>4. \A i : QueueFrom(i)' = QueueFrom(i)
    BY <2>1 DEF QueueFrom
  <2>5. sending'.to = QueueFrom(1)'
    BY <1>0, <2>1, <2>3, <2>4 DEF NothingLost
  <2>6. ASSUME Intact'
        PROVE  \A e : e = end => AtEnd(e)'
    <3>1. Writable
      BY <2>1, <2>6 DEF Intact, Writable, IInv, Fresh, Quiet
    <3>2. AtEnd(f.from)
      BY <2>1, <3>1, <1>0 DEF NothingLost, Intact, Writable
    <3>3. f.type = "DATA" /\ f.to = end
      OBVIOUS
    <3> HIDE DEF f
    <3> QED
      BY <2>1, <2>2, <3>1, <3>2, <3>3, DataFrame
  <2>7. PICK e : e = end
    OBVIOUS
  <2>8. e = IF Idle' THEN QueueFrom(1)' ELSE sending'.from
    BY <2>3, <2>5, <2>7 DEF Idle
  <2>9. Intact' => AtEnd(e)'
    BY <2>6, <2>7
  <2>10. Intact' => AtEnd(IF Idle THEN QueueFrom(1) ELSE sending.from)'
    BY <2>8, <2>9
  <2> QED
    BY <1>0, <2>1, <2>4, <2>5, <2>10 DEF NothingLost
<1>3. CASE Flush
  <2>1. ~SendChunk /\ Idle /\ UNCHANGED <<sent, socket, attached>>
    BY <1>3 DEF Flush, SendChunk
  <2>2. CASE messageQueue # <<>>
    <3>1. /\ sending' = messageQueue[1] /\ messageQueue' = Tail(messageQueue)
          /\ Len(messageQueue') = Len(messageQueue) - 1 /\ Len(messageQueue) > 0
          /\ \A i \in 1 .. Len(messageQueue) - 1 : messageQueue'[i] = messageQueue[i + 1]
      BY <1>0, <1>3, <2>2, QueueType DEF Flush
    <3>2. \A i \in 1 .. Len(messageQueue) : QueueFrom(i)' = QueueFrom(i + 1)
      BY <1>0, <2>1, <3>1 DEF QueueFrom
    <3>3. \A i \in 1 .. Len(messageQueue) : messageQueue[i].to = QueueFrom(i + 1)
      BY <1>0 DEF NothingLost
    <3>4. \A i \in 1 .. Len(messageQueue') : messageQueue'[i].to = QueueFrom(i + 1)'
      <4> SUFFICES ASSUME NEW i \in 1 .. Len(messageQueue) - 1
                   PROVE  messageQueue'[i].to = QueueFrom(i + 1)'
        BY <3>1
      <4>1. i + 1 \in 1 .. Len(messageQueue)
        BY <1>0
      <4> QED
        BY <3>1, <3>2, <3>3, <4>1
    <3>5. sending'.to = QueueFrom(1)'
      BY <1>0, <3>1, <3>2, <3>3
    <3>6. QueueFrom(1) = sending'.from
      BY <1>0, <3>1 DEF QueueFrom
    <3>7. PICK e : e = QueueFrom(1)
      OBVIOUS
    <3>8. Intact' => AtEnd(e)'
      BY <1>0, <1>1, <2>1, <3>7 DEF NothingLost, Intact
    <3>9. e = IF Idle' THEN QueueFrom(1)' ELSE sending'.from
      BY <3>5, <3>6, <3>7 DEF Idle
    <3>10. Intact' => AtEnd(IF Idle THEN QueueFrom(1) ELSE sending.from)'
      BY <3>8, <3>9
    <3> QED
      BY <3>4, <3>5, <3>10 DEF NothingLost
  <2>3. CASE messageQueue = <<>>
    <3>1. UNCHANGED <<messageQueue, sent, sending>> /\ (Intact' => Intact)
      BY <1>3, <2>1, <2>3 DEF Flush, Intact
    <3> QED
      BY <1>0, <1>1, <2>1, <3>1, NothingWaits
  <2> QED
    BY <2>2, <2>3
<1>4. ASSUME NEW n \in Sizes, Send(n) PROVE NothingLost'
  <2>1. n \in Nat /\ n > 0
    BY TunnelAssumption
  <2>2. /\ Idle /\ UNCHANGED <<socket, attached>> /\ sent' = sent + n
        /\ ~flushing
    BY <1>4 DEF Send, Callable
  <2>3. ~SendChunk
    BY <2>2 DEF SendChunk
  <2> DEFINE m == [from |-> sent, to |-> sent + n]
  <2>4. CASE Ready
    <3>1. sending' = m /\ messageQueue' = messageQueue /\ messageQueue = <<>>
      BY <1>4, <2>2, <2>4 DEF Send, IInv, Queued
    <3>2. QueueFrom(1) = sent /\ QueueFrom(1)' = sent + n
      BY <2>2, <3>1 DEF QueueFrom
    <3>3. ~Idle' /\ sending'.from = sent /\ sending'.to = sent + n
      BY <1>0, <2>1, <3>1 DEF Idle
    <3>4. PICK e : e = sent
      OBVIOUS
    <3>5. Intact' => AtEnd(e)'
      BY <1>0, <1>1, <2>2, <2>3, <3>2, <3>4 DEF NothingLost, Intact
    <3>6. Intact' => AtEnd(IF Idle THEN QueueFrom(1) ELSE sending.from)'
      BY <3>3, <3>4, <3>5
    <3> QED
      BY <3>1, <3>2, <3>3, <3>6 DEF NothingLost
  <2>5. CASE ~Ready
    <3>1. sending' = sending /\ messageQueue' = Append(messageQueue, m)
      BY <1>4, <2>5 DEF Send
    <3>2. m \in Message
      BY <1>0, <2>1 DEF Message
    <3>3. /\ Len(messageQueue') = Len(messageQueue) + 1
          /\ messageQueue'[Len(messageQueue) + 1] = m
          /\ \A i \in 1 .. Len(messageQueue) : messageQueue'[i] = messageQueue[i]
      BY <1>0, <3>1, <3>2
    <3>4. \A i \in 1 .. Len(messageQueue) + 1 : QueueFrom(i)' = QueueFrom(i)
      BY <1>0, <3>3 DEF QueueFrom
    <3>5. ASSUME NEW k, k = Len(messageQueue) + 2
          PROVE  QueueFrom(k)' = sent + n
      BY <1>0, <2>2, <3>3, <3>5 DEF QueueFrom
    <3>6. \A i \in 1 .. Len(messageQueue') : messageQueue'[i].to = QueueFrom(i + 1)'
      <4> SUFFICES ASSUME NEW i \in 1 .. Len(messageQueue) + 1
                   PROVE  messageQueue'[i].to = QueueFrom(i + 1)'
        BY <3>3
      <4>1. CASE i \in 1 .. Len(messageQueue)
        <5>1. i + 1 \in 1 .. Len(messageQueue) + 1
          BY <1>0, <4>1
        <5>2. messageQueue[i].to = QueueFrom(i + 1)
          BY <1>0, <4>1 DEF NothingLost
        <5> QED
          BY <3>3, <3>4, <4>1, <5>1, <5>2
      <4>2. CASE i = Len(messageQueue) + 1
        <5>1. i + 1 = Len(messageQueue) + 2
          BY <1>0, <4>2
        <5>2. QueueFrom(i + 1)' = sent + n
          BY <5>1, <3>5
        <5>3. messageQueue'[i].to = sent + n
          BY <3>3, <4>2
        <5> QED
          BY <5>2, <5>3
      <4> QED
        BY <1>0, <4>1, <4>2
    <3>7. QueueFrom(1)' = QueueFrom(1) /\ (Idle' <=> Idle)
      BY <1>0, <3>1, <3>4 DEF Idle
    <3>8. PICK e : e = QueueFrom(1)
      OBVIOUS
    <3>9. Intact' => AtEnd(e)'
      BY <1>0, <1>1, <2>2, <2>3, <3>8 DEF NothingLost, Intact
    <3>10. Intact' => AtEnd(IF Idle THEN QueueFrom(1) ELSE sending.from)'
      BY <2>2, <3>7, <3>8, <3>9
    <3> QED
      BY <2>2, <3>6, <3>7, <3>10 DEF NothingLost
  <2> QED
    BY <2>4, <2>5
<1>5. CASE NextFrame
  <2>1. ~SendChunk /\ UNCHANGED <<messageQueue, sent, sending>>
    BY <1>5 DEF NextFrame, SendChunk
  <2>2. Intact' => Intact
    BY <1>5 DEF NextFrame, Handle, BecomeReady, Hangup, Intact
  <2> QED
    BY <1>0, <1>1, <2>1, <2>2, NothingWaits
<1>6. CASE Incomplete \/ Connect \/ Open \/ Lose \/ OnClose \/ Disconnect
           \/ ServiceGreets \/ OnMessage \/ \E t \in Types : Serve(t)
  <2>1. UNCHANGED <<messageQueue, sent, sending>>
    BY <1>6 DEF Incomplete, Connect, Open, Lose, OnClose, Disconnect, ServiceGreets, OnMessage, Serve
  <2>2. Intact' => Intact
    BY <1>6 DEF Incomplete, Connect, Open, Lose, OnClose, Disconnect, ServiceGreets, OnMessage, Serve,
                Hangup, Intact
  <2>3. CASE ~SendChunk
    BY <1>0, <1>1, <2>1, <2>2, <2>3, NothingWaits
  <2> QED
    BY <1>2, <2>3
<1> QED
  BY <1>2, <1>3, <1>4, <1>5, <1>6 DEF Next, Loops

LEMMA FreshStep ==
  ASSUME IInv, Next
  PROVE  Fresh'
<1> USE DEF IInv, Fresh, Quiet, Idle, linkVars, sendVars, recvVars, serviceVars
<1>1. CASE Loops
  BY <1>1 DEF Loops, SendChunk, Flush, NextFrame, Incomplete, Handle, BecomeReady, Hangup
<1>2. ASSUME NEW n \in Sizes, Send(n) PROVE Fresh'
  BY <1>2 DEF Send, Ready
<1>3. CASE Connect \/ Open \/ Lose \/ OnClose
  BY <1>3 DEF Connect, Open, Lose, OnClose
<1>4. CASE Disconnect
  BY <1>4 DEF Disconnect, Hangup, SendFrame, Writable, TypeOK
<1>5. CASE ServiceGreets \/ OnMessage \/ \E t \in Types : Serve(t)
  BY <1>5 DEF ServiceGreets, OnMessage, Serve
<1> QED
  BY <1>1, <1>2, <1>3, <1>4, <1>5 DEF Next

LEMMA WholeStep ==
  ASSUME IInv, Next
  PROVE  Whole'
<1> USE DEF IInv, Whole, FrameBytes, linkVars, sendVars, recvVars, serviceVars
<1>0. buffered \in Nat /\ inbox \in Seq(Types) /\ Len(inbox) \in Nat
  BY DEF TypeOK
<1>1. CASE NextFrame
  <2>1. Len(inbox) > 0
    BY <1>0, <1>1 DEF NextFrame, HasFrame
  <2>2. Len(Tail(inbox)) = Len(inbox) - 1
    BY <1>0, <2>1
  <2> QED
    BY <1>0, <1>1, <2>2 DEF NextFrame
<1>2. CASE OnMessage
  BY <1>0, <1>2 DEF OnMessage
<1>3. ASSUME NEW t \in Types, inbox' = Append(inbox, t), buffered' = buffered
      PROVE  Whole'
  BY <1>0, <1>3
<1>4. CASE ServiceGreets
  <2>1. Greeting \in Types
    BY DEF Greeting, Types
  <2> QED
    BY <1>3, <1>4, <2>1 DEF ServiceGreets
<1>5. ASSUME NEW t \in Types, Serve(t) PROVE Whole'
  BY <1>3, <1>5 DEF Serve
<1>6. CASE SendChunk \/ Flush \/ Incomplete \/ (\E n \in Sizes : Send(n))
           \/ Connect \/ Open \/ Lose \/ OnClose \/ Disconnect
  BY <1>6 DEF SendChunk, Flush, Incomplete, Send, Connect, Open, Lose, OnClose, Disconnect
<1> QED
  BY <1>1, <1>2, <1>4, <1>5, <1>6 DEF Next, Loops

LEMMA QueuedStep ==
  ASSUME IInv, Next
  PROVE  Queued'
<1> USE DEF linkVars, sendVars, recvVars, serviceVars
<1>0. /\ Queued /\ TypeOK /\ Fresh /\ sent \in Nat /\ sending \in Message
      /\ messageQueue \in Seq(Message) /\ Len(messageQueue) \in Nat
  BY DEF IInv, TypeOK
<1>1. CASE SendChunk
  <2>1. sending'.to = sending.to
    BY <1>0, <1>1 DEF SendChunk, Message
  <2> QED
    BY <1>0, <1>1, <2>1 DEF SendChunk, Queued, Ready
<1>2. CASE Flush
  <2>1. CASE messageQueue # <<>>
    <3>1. /\ sending' = messageQueue[1] /\ Len(messageQueue) > 0
          /\ Len(messageQueue') = Len(messageQueue) - 1
          /\ \A i \in 1 .. Len(messageQueue) - 1 : messageQueue'[i] = messageQueue[i + 1]
      BY <1>0, <1>2, <2>1, QueueType DEF Flush
    <3>2. sending'.to <= sent
      BY <1>0, <3>1 DEF Queued
    <3>3. \A i \in 1 .. Len(messageQueue') : messageQueue'[i].to <= sent
      BY <1>0, <3>1 DEF Queued
    <3> QED
      BY <1>0, <1>2, <2>1, <3>2, <3>3 DEF Flush, Queued
  <2>2. CASE messageQueue = <<>>
    BY <1>0, <1>2, <2>2 DEF Flush, Queued, Idle
  <2> QED
    BY <2>1, <2>2
<1>3. ASSUME NEW n \in Sizes, Send(n) PROVE Queued'
  <2>1. n \in Nat /\ sent' = sent + n /\ ~flushing
    BY <1>3, TunnelAssumption DEF Send, Callable
  <2> DEFINE m == [from |-> sent, to |-> sent + n]
  <2>2. CASE Ready
    BY <1>0, <1>3, <2>1, <2>2 DEF Send, Queued, Ready
  <2>3. CASE ~Ready
    <3>1. m \in Message
      BY <1>0, <2>1 DEF Message
    <3>2. messageQueue' = Append(messageQueue, m) /\ sending' = sending
      BY <1>3, <2>3 DEF Send
    <3>3. /\ Len(messageQueue') = Len(messageQueue) + 1
          /\ messageQueue'[Len(messageQueue) + 1] = m
          /\ \A i \in 1 .. Len(messageQueue) : messageQueue'[i] = messageQueue[i]
      BY <1>0, <3>1, <3>2
    <3>4. \A i \in 1 .. Len(messageQueue) : messageQueue[i].to \in Nat /\ messageQueue[i].to <= sent'
      <4>1. \A i \in 1 .. Len(messageQueue) : messageQueue[i] \in Message
        BY <1>0
      <4>2. \A i \in 1 .. Len(messageQueue) : messageQueue[i].to \in Nat
        BY <4>1 DEF Message
      <4> QED
        BY <1>0, <2>1, <4>2 DEF Queued
    <3>5. \A i \in 1 .. Len(messageQueue') : messageQueue'[i].to <= sent'
      <4> SUFFICES ASSUME NEW i \in 1 .. Len(messageQueue) + 1
                   PROVE  messageQueue'[i].to <= sent'
        BY <3>3
      <4>1. CASE i \in 1 .. Len(messageQueue)
        BY <3>3, <3>4, <4>1
      <4>2. CASE i = Len(messageQueue) + 1
        BY <1>0, <2>1, <3>3, <4>2
      <4> QED
        BY <1>0, <4>1, <4>2
    <3>6. sending'.to <= sent'
      BY <1>0, <2>1, <3>2 DEF Queued, Message
    <3>7. ~Ready' /\ (Idle' <=> Idle) /\ UNCHANGED <<tunnelReady, flushing>>
      BY <1>3, <2>3, <3>2 DEF Send, Ready, Idle
    <3> QED
      BY <1>0, <3>5, <3>6, <3>7 DEF Queued
  <2> QED
    BY <2>2, <2>3
<1>4. CASE NextFrame
  <2>1. UNCHANGED <<messageQueue, sent, sending>> /\ Idle /\ ~flushing
    BY <1>4 DEF NextFrame
  <2>2. (flushing' => tunnelReady') /\ ((Ready' /\ ~flushing') => Ready)
    BY <1>4, <2>1 DEF NextFrame, Handle, BecomeReady, Hangup, Ready
  <2> QED
    BY <1>0, <2>1, <2>2 DEF Queued, Idle
<1>5. CASE Connect \/ Open \/ OnClose \/ Disconnect
  <2>1. UNCHANGED <<messageQueue, sent, sending, flushing>> /\ Idle /\ ~flushing
    BY <1>0, <1>5 DEF Connect, Open, OnClose, Disconnect, Quiet, Callable
  <2>2. ~Ready'
    BY <1>0, <1>5 DEF Connect, Open, OnClose, Disconnect, Hangup, Ready, Fresh
  <2> QED
    BY <1>0, <2>1, <2>2 DEF Queued, Idle
<1>6. CASE Incomplete \/ Lose \/ ServiceGreets \/ OnMessage \/ \E t \in Types : Serve(t)
  BY <1>0, <1>6 DEF Incomplete, Lose, ServiceGreets, OnMessage, Serve, Queued, Ready, Idle
<1> QED
  BY <1>1, <1>2, <1>3, <1>4, <1>5, <1>6 DEF Next, Loops

\* Usable survives a frame that is not the STREAM_RESET.
LEMMA UsableAppend ==
  ASSUME IInv, Writable, NEW f \in Frame, wire' = Append(wire, f), f.type # "STREAM_RESET",
         UNCHANGED <<isConnected, mode>>
  PROVE  Usable'
<1>1. wire \in Seq(Frame) /\ Len(wire) \in Nat
  BY DEF IInv, TypeOK
<1>2. /\ Len(wire') = Len(wire) + 1 /\ wire'[Len(wire) + 1] = f
      /\ \A i \in 1 .. Len(wire) : wire'[i] = wire[i]
  BY <1>1
<1>3. \A i \in 1 .. Len(wire') : wire'[i].type # "STREAM_RESET"
  BY <1>1, <1>2 DEF IInv, Usable
<1>4. mode = "source" => wire' # <<>> /\ wire'[1].type = "STREAM_START"
  <2>1. mode = "source" => Len(wire) > 0
    BY <1>1 DEF IInv, Usable
  <2>2. wire' # <<>>
    BY <1>1, <1>2
  <2> QED
    BY <1>1, <1>2, <2>1, <2>2 DEF IInv, Usable
<1> QED
  BY <1>3, <1>4 DEF IInv, Usable

LEMMA UsableStep ==
  ASSUME IInv, Next
  PROVE  Usable'
<1> USE DEF linkVars, sendVars, recvVars, serviceVars
<1>0. Usable /\ TypeOK /\ Fresh
  BY DEF IInv
<1>1. CASE SendChunk
  <2>1. CASE Writable
    <3> DEFINE end == IF sending.to - sending.from > MaxPayload
                      THEN sending.from + MaxPayload ELSE sending.to
               f == [type |-> "DATA", from |-> sending.from, to |-> end]
    <3>1. wire' = Append(wire, f) /\ UNCHANGED <<isConnected, mode>> /\ ~Idle
      BY <1>1, <2>1 DEF SendChunk, SendFrame
    <3>2. f \in Frame
      BY <3>1, Chunk
    <3>3. f.type # "STREAM_RESET"
      OBVIOUS
    <3> HIDE DEF f
    <3> QED
      BY <2>1, <3>1, <3>2, <3>3, UsableAppend
  <2>2. CASE ~Writable
    BY <1>1, <2>2 DEF SendChunk, Usable, Writable
  <2> QED
    BY <2>1, <2>2
<1>2. CASE Open
  <2>1. isConnected' /\ wire = <<>> /\ mode' = mode
    BY <1>0, <1>2 DEF Open, Fresh
  <2>2. CASE wire' = wire
    BY <1>0, <1>2, <2>1, <2>2 DEF Open, Usable, TypeOK
  <2>3. CASE wire' # wire
    <3>1. PICK t \in {"STREAM_START", "SERVICE_IDS"} :
            wire' = <<Control(t)>> /\ (mode = "source" => t = "STREAM_START")
      BY <1>0, <1>2, <2>1, <2>3 DEF Open, TypeOK
    <3>2. Control(t).type = t
      BY DEF Control
    <3> QED
      BY <2>1, <3>1, <3>2 DEF Usable
  <2> QED
    BY <2>2, <2>3
<1>3. CASE NextFrame \/ Disconnect
  <2>1. CASE Hangup
    BY <2>1 DEF Hangup, Usable, Writable
  <2>2. CASE ~Hangup
    BY <1>0, <1>3, <2>2 DEF NextFrame, Disconnect, Handle, BecomeReady, Usable, Writable
  <2> QED
    BY <2>1, <2>2
<1>4. CASE Flush \/ Incomplete \/ (\E n \in Sizes : Send(n)) \/ Connect \/ Lose \/ OnClose
           \/ ServiceGreets \/ OnMessage \/ \E t \in Types : Serve(t)
  BY <1>0, <1>4 DEF Flush, Incomplete, Send, Connect, Lose, OnClose, ServiceGreets, OnMessage, Serve,
                    Usable, Writable
<1> QED
  BY <1>1, <1>2, <1>3, <1>4 DEF Next, Loops

LEMMA ResetLastStep ==
  ASSUME IInv, Next
  PROVE  ResetLast'
<1>0. /\ wire \in Seq(Frame) /\ Len(wire) \in Nat /\ ResetLast /\ Usable /\ Fresh
  BY DEF IInv, TypeOK
<1>1. CASE UNCHANGED wire
  BY <1>0, <1>1 DEF ResetLast
<1>2. ASSUME NEW f \in Frame, wire' = Append(wire, f), Writable \/ wire = <<>>
      PROVE  ResetLast'
  <2>1. \A i \in 1 .. Len(wire) : wire[i].type # "STREAM_RESET"
    BY <1>0, <1>2 DEF Usable
  <2>2. /\ Len(wire') = Len(wire) + 1
        /\ \A i \in 1 .. Len(wire) : wire'[i] = wire[i]
    BY <1>0, <1>2
  <2> QED
    BY <1>0, <2>1, <2>2 DEF ResetLast
<1>3. CASE \E t \in Types \ {"DATA"} : wire' = Append(wire, Control(t))
  <2>1. PICK t \in Types : wire' = Append(wire, Control(t))
    BY <1>3
  <2>2. Control(t) \in Frame
    BY ControlType
  <2>3. wire' # wire
    BY <1>0, <2>1, <2>2
  <2>4. Writable \/ wire = <<>>
    BY <1>0, <2>3 DEF Next, Loops, SendChunk, Flush, NextFrame, Incomplete, Handle, BecomeReady, Hangup,
       SendFrame, Send, Connect, Open, Lose, OnClose, Disconnect, ServiceGreets, Serve, OnMessage, Fresh,
       linkVars, sendVars, recvVars, serviceVars
  <2> QED
    BY <1>2, <2>1, <2>2, <2>4
<1>4. CASE SendChunk /\ Writable
  <2> DEFINE end == IF sending.to - sending.from > MaxPayload
                    THEN sending.from + MaxPayload ELSE sending.to
             f == [type |-> "DATA", from |-> sending.from, to |-> end]
  <2>1. wire' = Append(wire, f) /\ ~Idle
    BY <1>4 DEF SendChunk, SendFrame
  <2>2. f \in Frame
    BY <2>1, Chunk
  <2> HIDE DEF f
  <2> QED
    BY <1>2, <1>4, <2>1, <2>2
<1> QED
  BY <1>1, <1>3, <1>4, WireStep

-------------------------------------------------------------------------------
(* Theorems.                                                               *)

LEMMA NextIInv == IInv /\ [Next]_vars => IInv'
<1> SUFFICES ASSUME IInv, [Next]_vars PROVE IInv'
  OBVIOUS
<1>1. CASE Next
  BY <1>1, TypeStep, FreshStep, UsableStep, QueuedStep, WholeStep, InOrderStep, NothingLostStep,
     ResetLastStep DEF IInv
<1>2. CASE UNCHANGED vars
  <2> USE <1>2 DEF vars, linkVars, sendVars, recvVars, serviceVars, IInv
  <2>1. TypeOK' /\ Fresh' /\ Queued' /\ Whole' /\ Usable' /\ ResetLast'
    BY DEF TypeOK, Fresh, Quiet, Idle, Queued, Ready, Whole, Usable, Writable, ResetLast
  <2>2. InOrder' /\ \A e : AtEnd(e) => AtEnd(e)'
    BY SameWire DEF TypeOK
  <2>3. NothingLost'
    BY <2>2, NothingWaits DEF Intact
  <2> QED
    BY <2>1, <2>2, <2>3
<1> QED
  BY <1>1, <1>2

\* The inductive invariant holds in every reachable state.
THEOREM Invariant == Spec => []IInv
BY InitIInv, NextIInv, PTL DEF Spec

\* Every variable keeps its type; no frame is taken out of receiveBuffer that is
\* not whole.
THEOREM TypeCorrect == Spec => []TypeOK
<1>1. IInv => TypeOK
  BY DEF IInv
<1> QED
  BY <1>1, Invariant, PTL

\* Messages of any size, sent before, during and after the handshake: the
\* payloads on the wire are the bytes given to send(), in order and in chunks of
\* at most 63 KB.
THEOREM SentInOrder == Spec => []InOrder
<1>1. IInv => InOrder
  BY DEF IInv
<1> QED
  BY <1>1, Invariant, PTL

\* What is not on the wire waits in order, unless the tunnel is gone.
THEOREM QueueKeepsAll == Spec => []NothingLost
<1>1. IInv => NothingLost
  BY DEF IInv
<1> QED
  BY <1>1, Invariant, PTL

\* No chunk of 63 KB is too long for the two bytes of length, whatever the
\* serviceId (of at most 900 bytes): sendFrame's setUint16 does not wrap.
THEOREM NoLengthWraps == Spec => []LengthsFit
<1>1. ASSUME NEW n \in Nat, n <= 63 * 1024
      PROVE  EncodedLength(n) \in Nat /\ EncodedLength(n) < 65536
  <2>1. VarintLen(n) \in 1 .. 3 /\ VarintLen(ServiceIdLen) \in 1 .. 3
    BY DEF VarintLen
  <2>2. ServiceIdLen \in Nat /\ ServiceIdLen <= 900
    BY TunnelAssumption
  <2>3. n <= 64512
    BY <1>1
  <2> QED
    BY <2>1, <2>2, <2>3 DEF EncodedLength
<1>2. ASSUME TypeOK, InOrder, NEW i \in 1 .. Len(wire), DataAt(i)
      PROVE  LengthPrefix(wire[i]) = EncodedLength(wire[i].to - wire[i].from)
  <2>1. wire[i] \in Frame
    BY <1>2 DEF TypeOK
  <2>2. wire[i].from \in Nat /\ wire[i].to \in Nat
    BY <2>1 DEF Frame
  <2>3. wire[i].from < wire[i].to /\ wire[i].to <= wire[i].from + 63 * 1024
    BY <1>2 DEF InOrder
  <2>4. PICK n : n = wire[i].to - wire[i].from
    OBVIOUS
  <2>5. n \in Nat /\ n <= 63 * 1024
    BY <2>2, <2>3, <2>4
  <2>6. EncodedLength(n) \in Nat /\ EncodedLength(n) < 65536
    BY <1>1, <2>5
  <2>7. EncodedLength(n) % 65536 = EncodedLength(n)
    BY <2>6
  <2> QED
    BY <2>4, <2>7 DEF LengthPrefix
<1>3. IInv => LengthsFit
  BY <1>2 DEF IInv, LengthsFit
<1> QED
  BY <1>3, Invariant, PTL

\* Nothing follows the STREAM_RESET of disconnect().
THEOREM ResetIsLast == Spec => []ResetLast
<1>1. IInv => ResetLast
  BY DEF IInv
<1> QED
  BY <1>1, Invariant, PTL

\* No payload is sent outside of a stream whose handshake is complete.
THEOREM ShakesHandsFirst == Spec => HandshakeFirst
<1>1. ASSUME IInv, [Next]_vars, NEW i \in 1 .. Len(wire'), i > Len(wire), wire'[i].type = "DATA"
      PROVE  tunnelReady /\ isConnected /\ (mode = "source" => wire'[1].type = "STREAM_START")
  <2>1. wire \in Seq(Frame) /\ Len(wire) \in Nat /\ wire' # wire
    BY <1>1 DEF IInv, TypeOK
  <2>2. Next
    BY <1>1, <2>1 DEF vars
  <2>3. ASSUME NEW t \in Types \ {"DATA"}, wire' = Append(wire, Control(t))
        PROVE  FALSE
    <3>1. Control(t) \in Frame /\ Control(t).type # "DATA"
      BY ControlType DEF Control
    <3>2. i = Len(wire) + 1 /\ wire'[i] = Control(t)
      BY <1>1, <2>1, <2>3, <3>1
    <3> QED
      BY <1>1, <3>1, <3>2
  <2>4. SendChunk /\ Writable
    BY <1>1, <2>1, <2>2, <2>3, WireStep
  <2>5. ~Idle /\ mode' = mode
    BY <2>4 DEF SendChunk
  <2>6. tunnelReady /\ isConnected
    BY <1>1, <2>4, <2>5 DEF IInv, Queued, Usable
  <2>7. mode = "source" => wire # <<>> /\ wire[1].type = "STREAM_START"
    BY <1>1, <2>4 DEF IInv, Usable
  <2>8. PICK f \in Frame : wire' = Append(wire, f)
    BY <1>1, <2>4, <2>5, Chunk DEF SendChunk, SendFrame
  <2>9. wire # <<>> => wire'[1] = wire[1]
    BY <2>1, <2>8
  <2> QED
    BY <2>6, <2>7, <2>9
<1>2. IInv /\ [Next]_vars =>
        [\A i \in 1 .. Len(wire') : (i > Len(wire) /\ wire'[i].type = "DATA") =>
           /\ tunnelReady /\ isConnected
           /\ mode = "source" => wire'[1].type = "STREAM_START"]_vars
  BY <1>1
<1> QED
  BY <1>2, Invariant, PTL DEF Spec, HandshakeFirst

===============================================================================
