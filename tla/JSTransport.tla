----------------------------- MODULE JSTransport ------------------------------
(***************************************************************************)
(* One JSTransport (pkg/sshclient/transport.go): the pipe between the      *)
(* JavaScript callbacks and the Go SSH client.  Goroutines at work on it:  *)
(*   - the handler of injectTransportData, one at a time, which puts what  *)
(*     the browser received into readChan;                                 *)
(*   - the read loop of the SSH connection, which calls Read in a loop     *)
(*     until it is told EOF;                                               *)
(*   - the writer of the SSH connection (it serialises its packets);       *)
(*   - the Closers: Client.Disconnect, closeTransport, a failed handshake. *)
(* A method body is cut at its mu.Unlock: the test of `closed' and what    *)
(* follows it are different steps, between which other goroutines run.     *)
(*                                                                         *)
(* A byte is its position in the stream JavaScript handed over, a chunk    *)
(* the interval of positions [from, to).                                   *)
(***************************************************************************)
EXTENDS Integers, Sequences

CONSTANTS
  Closers,    \* goroutines that may call Close
  ChanCap,    \* capacity of readChan (100 in the code)
  MaxChunk,   \* largest chunk JavaScript injects
  MaxRead,    \* largest buffer Read is called with
  MaxBytes    \* bound of the model: bytes injected in total

ASSUME SizesAssumption ==
  /\ ChanCap \in Nat
  /\ MaxChunk \in Nat
  /\ MaxRead \in Nat \ {0}
  /\ MaxBytes \in Nat

VARIABLES
  closed,        \* t.closed
  closings,      \* how often close(t.closeChan) ran; a second one panics
  onCloseCalls,  \* how often the onClose callback was called
  closer,        \* where each closer is in Close
  readChan,      \* t.readChan
  readBuffer,    \* t.readBuffer, the rest of a chunk that was too long
  reader,        \* where the read loop is
  readFrom,      \* history: position of the first byte the last Read returned
  readPos,       \* history: position after the last byte it returned
  injector,      \* where the inject handler is
  inflight,      \* the chunk it is injecting
  arrived,       \* history: bytes accepted past the test of `closed'
  refused,       \* history: some chunk met "read buffer full"
  writer,        \* where the writer is in Write
  late           \* history: onWrite calls made after the onClose call

closeVars == <<closed, closings, onCloseCalls, closer>>
readVars == <<readChan, readBuffer, reader, readFrom, readPos>>
injectVars == <<injector, inflight, arrived, refused>>
writeVars == <<writer, late>>
vars == <<closeVars, readVars, injectVars, writeVars>>

Chunk == {c \in [from : Nat, to : Nat] : c.from <= c.to}

TypeOK ==
  /\ closed \in BOOLEAN
  /\ closings \in 0 .. 1
  /\ onCloseCalls \in 0 .. 1
  /\ closer \in [Closers -> {"idle", "signal", "callback"}]
  /\ readChan \in Seq(Chunk)
  /\ Len(readChan) <= ChanCap
  /\ readBuffer \in Chunk
  /\ reader \in {"idle", "reading", "eof"}
  /\ readFrom \in Nat
  /\ readPos \in Nat
  /\ injector \in {"idle", "sending"}
  /\ inflight \in Chunk
  /\ arrived \in Nat
  /\ refused \in BOOLEAN
  /\ writer \in {"idle", "calling"}
  /\ late \in 0 .. 1

Init ==
  /\ closed = FALSE
  /\ closings = 0
  /\ onCloseCalls = 0
  /\ closer = [c \in Closers |-> "idle"]
  /\ readChan = <<>>
  /\ readBuffer = [from |-> 0, to |-> 0]
  /\ reader = "idle"
  /\ readFrom = 0
  /\ readPos = 0
  /\ injector = "idle"
  /\ inflight = [from |-> 0, to |-> 0]
  /\ arrived = 0
  /\ refused = FALSE
  /\ writer = "idle"
  /\ late = 0

-------------------------------------------------------------------------------
(* Close.  Finding the transport closed already changes nothing.           *)

CloseAdmittedTwice == TRUE      \* mutant: no test of `closed'
CloseAdmitted == ~closed

CloseCheck(c) ==
  /\ closer[c] = "idle"
  /\ CloseAdmitted
  /\ closed' = TRUE
  /\ closer' = [closer EXCEPT ![c] = "signal"]
  /\ UNCHANGED <<closings, onCloseCalls, readVars, injectVars, writeVars>>

NoSignal == UNCHANGED closings  \* mutant: closeChan is never closed
Signal == closings' = closings + 1

CloseSignal(c) ==
  /\ closer[c] = "signal"
  /\ Signal
  /\ closer' = [closer EXCEPT ![c] = "callback"]
  /\ UNCHANGED <<closed, onCloseCalls, readVars, injectVars, writeVars>>

CloseCallback(c) ==
  /\ closer[c] = "callback"
  /\ onCloseCalls' = onCloseCalls + 1
  /\ closer' = [closer EXCEPT ![c] = "idle"]
  /\ UNCHANGED <<closed, closings, readVars, injectVars, writeVars>>

-------------------------------------------------------------------------------
(* InjectData.  On a closed transport it returns an error and changes      *)
(* nothing; the chunk is refused when the channel is full.                 *)

InjectCheck ==
  /\ injector = "idle"
  /\ ~closed
  /\ \E n \in 0 .. MaxChunk :
       /\ arrived + n <= MaxBytes
       /\ arrived' = arrived + n
       /\ inflight' = [from |-> arrived, to |-> arrived + n]
  /\ injector' = "sending"
  /\ UNCHANGED <<refused, closeVars, readVars, writeVars>>

RoomForOneMore == Len(readChan) <= ChanCap   \* mutant: off by one
HasRoom == Len(readChan) < ChanCap

InjectSend ==
  /\ injector = "sending"
  /\ \/ /\ HasRoom
        /\ readChan' = Append(readChan, inflight)
        /\ UNCHANGED refused
     \/ /\ ~HasRoom
        /\ refused' = TRUE
        /\ UNCHANGED readChan
  /\ injector' = "idle"
  /\ UNCHANGED <<inflight, arrived, readBuffer, reader, readFrom, readPos, closeVars, writeVars>>

-------------------------------------------------------------------------------
(* Read.  Returning n bytes of a chunk leaves its rest in readBuffer.      *)

RestForgotten(c, n) == [from |-> c.to, to |-> c.to]   \* mutant: drops the rest
Rest(c, n) == [from |-> c.from + n, to |-> c.to]

Buffered == readBuffer.from < readBuffer.to

\* copy(p, c) with len(p) between 1 and MaxRead
ReturnPrefix(c) ==
  /\ readFrom' = c.from
  /\ \E n \in 0 .. MaxRead :
       /\ n <= c.to - c.from
       /\ n > 0 \/ c.to = c.from
       /\ readPos' = c.from + n
       /\ readBuffer' = Rest(c, n)
  /\ reader' = "idle"

ReadCheck ==
  /\ reader = "idle"
  /\ reader' = IF closed THEN "eof" ELSE "reading"
  /\ UNCHANGED <<readChan, readBuffer, readFrom, readPos, closeVars, injectVars, writeVars>>

ReadBuffered ==
  /\ reader = "reading"
  /\ Buffered
  /\ ReturnPrefix(readBuffer)
  /\ UNCHANGED <<readChan, closeVars, injectVars, writeVars>>

\* select: with both cases ready Go picks either
ReadChunk ==
  /\ reader = "reading"
  /\ ~Buffered
  /\ readChan # <<>>
  /\ ReturnPrefix(Head(readChan))
  /\ readChan' = Tail(readChan)
  /\ UNCHANGED <<closeVars, injectVars, writeVars>>

ReadClosed ==
  /\ reader = "reading"
  /\ ~Buffered
  /\ closings > 0
  /\ reader' = "eof"
  /\ UNCHANGED <<readChan, readBuffer, readFrom, readPos, closeVars, injectVars, writeVars>>

-------------------------------------------------------------------------------
(* Write.  On a closed transport it returns an error.                      *)

WriteUnchecked == TRUE          \* mutant: no test of `closed'
WriteAdmitted == ~closed

WriteCheck ==
  /\ writer = "idle"
  /\ WriteAdmitted
  /\ writer' = "calling"
  /\ UNCHANGED <<late, closeVars, readVars, injectVars>>

WriteCall ==
  /\ writer = "calling"
  /\ late' = IF onCloseCalls > 0 THEN late + 1 ELSE late
  /\ writer' = "idle"
  /\ UNCHANGED <<closeVars, readVars, injectVars>>

-------------------------------------------------------------------------------
CloseStep(c) == CloseCheck(c) \/ CloseSignal(c) \/ CloseCallback(c)
ReadStep == ReadCheck \/ ReadBuffered \/ ReadChunk \/ ReadClosed

Next ==
  \/ \E c \in Closers : CloseStep(c)
  \/ InjectCheck \/ InjectSend
  \/ ReadStep
  \/ WriteCheck \/ WriteCall

\* A goroutine that is inside a method gets to run, and the SSH connection
\* always reads on.  Nobody is obliged to inject, to write or to close.
Fairness ==
  /\ \A c \in Closers : WF_vars(CloseSignal(c)) /\ WF_vars(CloseCallback(c))
  /\ WF_vars(InjectSend)
  /\ WF_vars(ReadStep)
  /\ WF_vars(WriteCall)

Spec == Init /\ [][Next]_vars

FairSpec == Spec /\ Fairness

-------------------------------------------------------------------------------
(* Close, called by several goroutines at any moment, closes closeChan at  *)
(* most once (close of a closed channel panics) and tells JavaScript at    *)
(* most once; after it told JavaScript, at most the one write that had     *)
(* passed its test of `closed' before still reaches the browser.           *)
CloseOnce == closings <= 1 /\ onCloseCalls <= 1 /\ late <= 1

(* Why CloseOnce holds: the closer that set `closed' is the only one past  *)
(* the test, and both counters say how far it got.                         *)
OneCloser ==
  /\ ~closed => closings = 0 /\ onCloseCalls = 0 /\ late = 0
  /\ \A c \in Closers :
       /\ closer[c] # "idle" => closed /\ onCloseCalls = 0 /\ late = 0
       /\ closer[c] = "signal" => closings = 0
       /\ closer[c] = "callback" => closings = 1
  /\ \A c, d \in Closers : closer[c] # "idle" /\ closer[d] # "idle" => c = d
  /\ late = 1 => writer = "idle"
  /\ onCloseCalls = 0 => late = 0

Follows(a, b) == a <= b /\ (refused \/ a = b)

\* Where the chunk comes from that is going to be queued next.
Tip == IF injector = "sending" THEN inflight.from ELSE arrived

(* The bytes between readPos and arrived are all held, in order and once:  *)
(* the rest of a chunk in readBuffer, then the chunks of readChan, then    *)
(* the chunk being injected, each beginning where the one before it ends   *)
(* unless a chunk was refused in between.                                  *)
Chained ==
  /\ readBuffer.from = readPos
  /\ injector = "sending" => inflight.to = arrived
  /\ readBuffer.to <= Tip
  /\ \A i \in 1 .. Len(readChan) : readChan[i].to <= Tip
  /\ readChan = <<>> => Follows(readBuffer.to, Tip)
  /\ readChan # <<>> => /\ Follows(readBuffer.to, readChan[1].from)
                        /\ Follows(readChan[Len(readChan)].to, Tip)
  /\ \A i \in 1 .. Len(readChan) - 1 : Follows(readChan[i].to, readChan[i + 1].from)

IInv == TypeOK /\ OneCloser /\ Chained

(* The reader sees the byte stream of ByteStream: in order, no byte twice, *)
(* none skipped unless an injection was refused, EOF only after Close and  *)
(* nothing after EOF.                                                      *)
Stream == INSTANCE ByteStream WITH
  lossy <- refused, shut <- closed, ended <- reader = "eof"
IsByteStream == Stream!Spec

(* A Close always gets through: the reader, blocked or not, is told EOF    *)
(* and the JavaScript side is told that the transport is closed.           *)
CloseCompletes == closed ~> (reader = "eof" /\ onCloseCalls = 1)

(* What was injected is read, unless a chunk was refused or the transport  *)
(* is closed; a long chunk is not forgotten after its first part.          *)
Delivered ==
  \A p \in 1 .. MaxBytes : (arrived >= p) ~> (readPos >= p \/ refused \/ closed)
===============================================================================
