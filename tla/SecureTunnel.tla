----------------------------- MODULE SecureTunnel ------------------------------
(***************************************************************************)
(* One SecureTunnelTransport (lib/aws-iot-tunnel.ts) over one WebSocket to *)
(* the AWS IoT secure tunneling service.  JavaScript runs one handler at a *)
(* time: the loops of sendDataFrame, processQueuedMessages and             *)
(* handleIncomingData are cut into their rounds, and no other handler runs *)
(* before they are through (Quiet); only a callback into the SSH client    *)
(* can call send() or disconnect() from inside of handleIncomingData.      *)
(*                                                                         *)
(* What send() is given is a stream of bytes, a message an interval        *)
(* [from, to) of it.  What the service sends is a sequence of frames of    *)
(* FrameBytes bytes, which the socket hands over in pieces of any length.  *)
(***************************************************************************)
EXTENDS Integers, Sequences

CONSTANTS
  ServiceIdLen,  \* length of config.serviceId, 0 without one
  Sizes,         \* sizes of the messages given to send()
  MaxSent,       \* bound of the model: bytes given to send()
  MaxServed      \* bound of the model: frames from the service but the greeting

ASSUME TunnelAssumption ==
  /\ ServiceIdLen \in 0 .. 900   \* sendDataFrame leaves 1024 bytes for all but the payload
  /\ Sizes \subseteq Nat \ {0}
  /\ MaxSent \in Nat
  /\ MaxServed \in Nat

VARIABLES
  mode,          \* config.clientMode
  socket,        \* the WebSocket; "closing" until its close event ran
  attached,      \* this.ws # null
  isConnected,
  tunnelReady,
  messageQueue,
  sent,          \* history: bytes given to send()
  sending,       \* the message sendDataFrame is cutting into chunks
  flushing,      \* inside of processQueuedMessages
  parsing,       \* handleIncomingData: "no", in its "loop", or in a "callback" of it
  wire,          \* frames put on the socket
  inbox,         \* types of the frames the service sent that were not handled
  buffered,      \* how many of their bytes are in receiveBuffer
  greeted,       \* the service has done its part of the handshake
  served,        \* history: other frames it sent
  offered,       \* history: DATA frames it sent
  delivered      \* history: DATA frames given to onData

linkVars == <<socket, attached, isConnected>>
sendVars == <<messageQueue, sent, sending, flushing>>
recvVars == <<parsing, inbox, buffered, delivered>>
serviceVars == <<greeted, served, offered>>
vars == <<mode, tunnelReady, linkVars, sendVars, wire, recvVars, serviceVars>>

\* GARBLED cannot be decoded.
Types == {"DATA", "STREAM_START", "STREAM_RESET", "SESSION_RESET", "SERVICE_IDS", "GARBLED"}
Message == {m \in [from : Nat, to : Nat] : m.from <= m.to}
Nothing == [from |-> 0, to |-> 0]
Frame == [type : Types, from : Nat, to : Nat]

TypeOK ==
  /\ mode \in {"source", "destination"}
  /\ socket \in {"none", "connecting", "open", "closing", "closed"}
  /\ attached \in BOOLEAN /\ isConnected \in BOOLEAN /\ tunnelReady \in BOOLEAN
  /\ messageQueue \in Seq(Message)
  /\ sent \in Nat
  /\ sending \in Message
  /\ flushing \in BOOLEAN
  /\ parsing \in {"no", "loop", "callback"}
  /\ wire \in Seq(Frame)
  /\ inbox \in Seq(Types)
  /\ buffered \in Nat
  /\ greeted \in BOOLEAN
  /\ served \in Nat /\ offered \in Nat /\ delivered \in Nat

Init ==
  /\ mode \in {"source", "destination"}
  /\ socket = "none"
  /\ attached = FALSE /\ isConnected = FALSE /\ tunnelReady = FALSE
  /\ messageQueue = <<>> /\ sent = 0 /\ sending = Nothing
  /\ flushing = FALSE /\ parsing = "no"
  /\ wire = <<>>
  /\ inbox = <<>> /\ buffered = 0
  /\ greeted = FALSE /\ served = 0 /\ offered = 0 /\ delivered = 0

Idle == sending.from = sending.to
Quiet == Idle /\ ~flushing /\ parsing = "no"
Callable == Idle /\ ~flushing /\ parsing # "loop"

-------------------------------------------------------------------------------
(* Frames that are sent.                                                   *)

\* sendFrame: without an open socket the frame is dropped with a warning.
Writable == attached /\ socket = "open"
SendFrame(f) == wire' = IF Writable THEN Append(wire, f) ELSE wire

Control(t) == [type |-> t, from |-> 0, to |-> 0]

KiB64 == 64 * 1024              \* mutant: the header is forgotten
MaxPayload == 63 * 1024

VarintLen(n) == IF n < 128 THEN 1 ELSE IF n < 16384 THEN 2 ELSE 3

\* The longest encoding of a DATA message with n bytes of payload: type,
\* streamId, payload, serviceId, connectionId.
EncodedLength(n) ==
  2 + 11 + (1 + VarintLen(n) + n) + (1 + VarintLen(ServiceIdLen) + ServiceIdLen) + 6

\* view.setUint16
LengthPrefix(f) == EncodedLength(f.to - f.from) % 65536

FirstChunkOnly ==   \* mutant: there is no loop
  /\ ~Idle
  /\ SendFrame([type |-> "DATA", from |-> sending.from,
                to |-> IF sending.to - sending.from > MaxPayload
                       THEN sending.from + MaxPayload ELSE sending.to])
  /\ sending' = [sending EXCEPT !.from = sending.to]
  /\ UNCHANGED <<mode, tunnelReady, linkVars, messageQueue, sent, flushing, recvVars, serviceVars>>

\* One round of the loop of sendDataFrame
SendChunk ==
  /\ ~Idle
  /\ LET end == IF sending.to - sending.from > MaxPayload
                THEN sending.from + MaxPayload ELSE sending.to
     IN  /\ SendFrame([type |-> "DATA", from |-> sending.from, to |-> end])
         /\ sending' = [sending EXCEPT !.from = end]
  /\ UNCHANGED <<mode, tunnelReady, linkVars, messageQueue, sent, flushing, recvVars, serviceVars>>

ReadyIgnored == isConnected /\ attached      \* mutant: tunnelReady is not tested
Ready == isConnected /\ attached /\ tunnelReady

Send(n) ==
  /\ Callable
  /\ sent + n <= MaxSent
  /\ LET m == [from |-> sent, to |-> sent + n]
     IN  IF Ready
         THEN sending' = m /\ UNCHANGED messageQueue
         ELSE messageQueue' = Append(messageQueue, m) /\ UNCHANGED sending
  /\ sent' = sent + n
  /\ UNCHANGED <<mode, tunnelReady, linkVars, flushing, wire, recvVars, serviceVars>>

\* One round of processQueuedMessages
Flush ==
  /\ flushing /\ Idle
  /\ IF messageQueue # <<>>
     THEN /\ sending' = Head(messageQueue)
          /\ messageQueue' = Tail(messageQueue)
          /\ UNCHANGED flushing
     ELSE flushing' = FALSE /\ UNCHANGED <<sending, messageQueue>>
  /\ UNCHANGED <<mode, tunnelReady, linkVars, sent, wire, recvVars, serviceVars>>

-------------------------------------------------------------------------------
(* The WebSocket.                                                          *)

Connect ==
  /\ Quiet /\ socket = "none"
  /\ socket' = "connecting" /\ attached' = TRUE
  /\ UNCHANGED <<mode, tunnelReady, isConnected, sendVars, wire, recvVars, serviceVars>>

\* onopen: STREAM_START in source mode; SERVICE_IDS in destination mode, if
\* there is a serviceId.
Open ==
  /\ Quiet /\ socket = "connecting" /\ attached
  /\ socket' = "open" /\ isConnected' = TRUE
  /\ wire' = CASE mode = "source" -> Append(wire, Control("STREAM_START"))
               [] mode = "destination" /\ ServiceIdLen > 0 -> Append(wire, Control("SERVICE_IDS"))
               [] OTHER -> wire
  /\ UNCHANGED <<mode, tunnelReady, attached, sendVars, recvVars, serviceVars>>

\* The socket does not open, or is lost.
Lose ==
  /\ Quiet /\ socket \in {"connecting", "open"}
  /\ socket' = "closing"
  /\ UNCHANGED <<mode, tunnelReady, attached, isConnected, sendVars, wire, recvVars, serviceVars>>

OnClose ==
  /\ Quiet /\ socket = "closing"
  /\ socket' = "closed"
  /\ isConnected' = FALSE /\ tunnelReady' = FALSE
  /\ UNCHANGED <<mode, attached, sendVars, wire, recvVars, serviceVars>>

HangupHalf ==   \* mutant: the socket is not closed, and this.ws keeps it
  /\ IF attached THEN SendFrame(Control("STREAM_RESET")) ELSE UNCHANGED wire
  /\ isConnected' = FALSE /\ tunnelReady' = FALSE
  /\ UNCHANGED <<socket, attached>>

\* disconnect(): STREAM_RESET, then close().
Hangup ==
  /\ IF attached
     THEN /\ SendFrame(Control("STREAM_RESET"))
          /\ socket' = IF socket \in {"connecting", "open"} THEN "closing" ELSE socket
     ELSE UNCHANGED <<wire, socket>>
  /\ attached' = FALSE /\ isConnected' = FALSE /\ tunnelReady' = FALSE

Disconnect ==
  /\ Callable /\ socket # "none"
  /\ Hangup
  /\ UNCHANGED <<mode, sendVars, recvVars, serviceVars>>

-------------------------------------------------------------------------------
(* Frames that are received.                                               *)

\* The message that completes the handshake.
Greeting == IF mode = "source" THEN "SERVICE_IDS" ELSE "STREAM_START"

ServiceGreets ==
  /\ socket = "open" /\ ~greeted
  /\ inbox' = Append(inbox, Greeting)
  /\ greeted' = TRUE
  /\ UNCHANGED <<mode, tunnelReady, linkVars, sendVars, wire, parsing, buffered, delivered, served, offered>>

Serve(t) ==
  /\ socket = "open" /\ served < MaxServed
  /\ inbox' = Append(inbox, t)
  /\ served' = served + 1
  /\ offered' = IF t = "DATA" THEN offered + 1 ELSE offered
  /\ UNCHANGED <<mode, tunnelReady, linkVars, sendVars, wire, parsing, buffered, delivered, greeted>>

\* Two bytes of length and one of message: what the parser tells apart is how
\* many whole frames it has, and whether there is a part of one.
FrameBytes == 2 + 1

\* onmessage appends to receiveBuffer.
OnMessage ==
  /\ Quiet /\ socket = "open"
  /\ \E total \in buffered + 1 .. FrameBytes * Len(inbox) : buffered' = total
  /\ parsing' = "loop"
  /\ UNCHANGED <<mode, tunnelReady, linkVars, sendVars, wire, inbox, delivered, serviceVars>>

WithoutPrefix == buffered >= FrameBytes - 2   \* mutant: forgets the two bytes of length
LongerOnly == buffered > FrameBytes           \* mutant: off by one
HasFrame == buffered >= FrameBytes

ReadyOnly ==   \* mutant: the queue is not processed
  /\ tunnelReady' = TRUE
  /\ UNCHANGED <<linkVars, wire, flushing>>

\* tunnelReady = true; processQueuedMessages()
BecomeReady ==
  /\ tunnelReady' = TRUE /\ flushing' = TRUE
  /\ UNCHANGED <<linkVars, wire>>

\* The frames that end in onData, onClose or onError
CallsBack == {"DATA", "STREAM_RESET", "GARBLED"}

\* handleMessage
Handle(t) ==
  /\ delivered' = IF t = "DATA" THEN delivered + 1 ELSE delivered
  /\ CASE t = Greeting -> BecomeReady
       [] t = "SESSION_RESET" -> Hangup /\ UNCHANGED flushing
       [] OTHER -> UNCHANGED <<tunnelReady, linkVars, wire, flushing>>

\* One round of the loop of handleIncomingData
NextFrame ==
  /\ parsing # "no" /\ ~flushing /\ Idle
  /\ HasFrame
  /\ buffered' = buffered - FrameBytes
  /\ inbox' = Tail(inbox)
  /\ Handle(Head(inbox))
  /\ parsing' = IF Head(inbox) \in CallsBack THEN "callback" ELSE "loop"
  /\ UNCHANGED <<mode, messageQueue, sent, sending, serviceVars>>

Incomplete ==
  /\ parsing # "no" /\ ~flushing /\ Idle
  /\ ~HasFrame
  /\ parsing' = "no"
  /\ UNCHANGED <<mode, tunnelReady, linkVars, sendVars, wire, inbox, buffered, delivered, serviceVars>>

-------------------------------------------------------------------------------
Loops == SendChunk \/ Flush \/ NextFrame \/ Incomplete

Next ==
  \/ Loops
  \/ \E n \in Sizes : Send(n)
  \/ Connect \/ Open \/ Lose \/ OnClose \/ Disconnect
  \/ ServiceGreets \/ \E t \in Types : Serve(t)
  \/ OnMessage

Spec == Init /\ [][Next]_vars

\* Handlers run to their end, what the service sent arrives, and the service
\* does its part of the handshake.
FairSpec == Spec /\ WF_vars(Loops) /\ WF_vars(OnMessage) /\ WF_vars(ServiceGreets)

-------------------------------------------------------------------------------
(* Properties.                                                             *)

DataAt(i) == i \in 1 .. Len(wire) /\ wire[i].type = "DATA"

\* Where the payload on the wire before frame n ends.
Ends(n) == {0} \cup {wire[i].to : i \in {j \in 1 .. n - 1 : DataAt(j)}}
IsEnd(n, e) == e \in Ends(n) /\ \A d \in Ends(n) : d <= e
AtEnd(e) == IsEnd(Len(wire) + 1, e)

\* The payloads on the wire are nonempty pieces of what send() was given, at
\* most 63 KB each, from its first byte on, none missing, repeated or out of
\* order.
InOrder ==
  \A i \in 1 .. Len(wire) : DataAt(i) =>
    /\ wire[i].from < wire[i].to /\ wire[i].to <= wire[i].from + 63 * 1024
    /\ wire[i].to <= sent
    /\ IsEnd(i, wire[i].from)

\* Until disconnect() or the loss of the socket, what is not on the wire waits,
\* in order: first the message being cut, then messageQueue.
Intact == socket = "none" \/ (attached /\ socket \in {"connecting", "open"})
QueueFrom(i) == IF i <= Len(messageQueue) THEN messageQueue[i].from ELSE sent
NothingLost ==
  /\ \A i \in 1 .. Len(messageQueue) : messageQueue[i].to = QueueFrom(i + 1)
  /\ ~Idle => sending.to = QueueFrom(1)
  /\ Intact => AtEnd(IF Idle THEN QueueFrom(1) ELSE sending.from)

\* The two bytes of length in front of a frame hold its length (sendFrame's
\* setUint16 would wrap).
LengthsFit ==
  \A i \in 1 .. Len(wire) : DataAt(i) =>
    LengthPrefix(wire[i]) = EncodedLength(wire[i].to - wire[i].from)

\* A payload goes on the wire only in a stream whose handshake is complete: the
\* peer's message was handled, and a source has put its own in front.
HandshakeFirst ==
  [][\A i \in 1 .. Len(wire') : (i > Len(wire) /\ wire'[i].type = "DATA") =>
       /\ tunnelReady /\ isConnected
       /\ mode = "source" => wire'[1].type = "STREAM_START"]_vars

\* disconnect()'s STREAM_RESET is the last frame on the socket.
ResetLast ==
  \A i \in 1 .. Len(wire) : wire[i].type = "STREAM_RESET" => i = Len(wire)

\* While the socket is open, all that send() was given gets onto it, whatever
\* was queued before the handshake completed.
Flushed ==
  (socket = "open") ~> (socket # "open" \/ AtEnd(sent))

\* Every DATA frame of the service reaches onData, however the socket cuts it.
Parsed ==
  (socket = "open") ~> (socket # "open" \/ delivered = offered)

-------------------------------------------------------------------------------
(* The inductive invariant behind the theorems of SecureTunnelProofs.      *)

\* Before the socket is open nothing has happened on it.
Fresh ==
  socket \in {"none", "connecting"} =>
    /\ ~isConnected /\ ~tunnelReady
    /\ Quiet
    /\ wire = <<>> /\ inbox = <<>>

\* What holds of a socket that a frame can be put on.
Usable ==
  Writable =>
    /\ isConnected
    /\ mode = "source" => wire # <<>> /\ wire[1].type = "STREAM_START"
    /\ \A i \in 1 .. Len(wire) : wire[i].type # "STREAM_RESET"

\* A message is sent directly only when none is queued before it.
Queued ==
  /\ (~Idle \/ flushing) => tunnelReady
  /\ (Ready /\ ~flushing) => messageQueue = <<>>
  /\ \A i \in 1 .. Len(messageQueue) : messageQueue[i].to <= sent
  /\ sending.to <= sent

Whole == buffered <= FrameBytes * Len(inbox)

IInv == TypeOK /\ Fresh /\ Usable /\ Queued /\ Whole /\ InOrder /\ NothingLost /\ ResetLast

===============================================================================
