-------------------------- MODULE JSTransportProofs ---------------------------
(***************************************************************************)
(* Theorems about JSTransport, for any set of closers, any channel         *)
(* capacity, any chunk and read sizes.  The invariant IInv is TypeOK       *)
(* together with OneCloser (who is past the test of `closed') and Chained  *)
(* (where the bytes between readPos and arrived are).                      *)
(***************************************************************************)
EXTENDS JSTransport, SequenceTheorems, TLAPS

\* The interval a Read leaves behind is a chunk that begins where it ended.
LEMMA PrefixReturned ==
  ASSUME NEW c \in Chunk, ReturnPrefix(c)
  PROVE  /\ readFrom' = c.from
         /\ readPos' \in c.from .. c.to
         /\ readBuffer' \in Chunk
         /\ readBuffer'.from = readPos'
         /\ readBuffer'.to = c.to
         /\ reader' = "idle"
<1>1. PICK n \in 0 .. MaxRead : /\ n <= c.to - c.from
                                /\ readPos' = c.from + n
                                /\ readBuffer' = Rest(c, n)
  BY DEF ReturnPrefix
<1>2. c.from \in Nat /\ c.to \in Nat /\ MaxRead \in Nat
  BY SizesAssumption DEF Chunk
<1>3. c.from + n \in c.from .. c.to
  BY <1>1, <1>2
<1>4. Rest(c, n) \in Chunk /\ Rest(c, n).from = c.from + n /\ Rest(c, n).to = c.to
  BY <1>2, <1>3 DEF Rest, Chunk
<1> QED
  BY <1>1, <1>3, <1>4 DEF ReturnPrefix

\* What TypeOK says of the chunks in readChan and of the other two.
LEMMA ChunkTypes ==
  ASSUME TypeOK
  PROVE  /\ Len(readChan) \in Nat
         /\ \A i \in 1 .. Len(readChan) : /\ readChan[i] \in Chunk
                                         /\ readChan[i].from \in Nat
                                         /\ readChan[i].to \in Nat
                                         /\ readChan[i].from <= readChan[i].to
         /\ readBuffer.from \in Nat
         /\ readBuffer.to \in Nat
         /\ readBuffer.from <= readBuffer.to
         /\ inflight.from \in Nat
         /\ inflight.to \in Nat
         /\ inflight.from <= inflight.to
         /\ Tip \in Nat
<1>1. \A c \in Chunk : c.from \in Nat /\ c.to \in Nat /\ c.from <= c.to
  BY DEF Chunk
<1>2. Len(readChan) \in Nat /\ \A i \in 1 .. Len(readChan) : readChan[i] \in Chunk
  BY LenProperties, ElementOfSeq DEF TypeOK
<1>3. Tip \in Nat
  BY <1>1 DEF TypeOK, Tip
<1> QED
  BY <1>1, <1>2, <1>3 DEF TypeOK

LEMMA InitIInv == Init => IInv
<1> SUFFICES ASSUME Init PROVE IInv
  OBVIOUS
<1>1. [from |-> 0, to |-> 0] \in Chunk
  BY DEF Chunk
<1>2. readChan \in Seq(Chunk) /\ Len(readChan) = 0
  BY EmptySeq DEF Init
<1>3. TypeOK
  <2>1. closer \in [Closers -> {"idle", "signal", "callback"}]
    BY DEF Init
  <2>2. readChan \in Seq(Chunk) /\ Len(readChan) <= ChanCap
    BY <1>2, SizesAssumption
  <2>3. readBuffer \in Chunk /\ inflight \in Chunk
    BY <1>1 DEF Init
  <2>4. /\ closings = 0 /\ onCloseCalls = 0 /\ late = 0
        /\ readFrom = 0 /\ readPos = 0 /\ arrived = 0
        /\ reader = "idle" /\ injector = "idle" /\ writer = "idle"
    BY DEF Init
  <2>5. closed \in BOOLEAN /\ refused \in BOOLEAN
    BY DEF Init
  <2> QED
    BY <2>1, <2>2, <2>3, <2>4, <2>5 DEF TypeOK
<1>4. OneCloser
  BY DEF Init, OneCloser
<1>5. Chained
  BY <1>2 DEF Init, Chained, Follows, Tip
<1> QED
  BY <1>3, <1>4, <1>5 DEF IInv

-------------------------------------------------------------------------------
(* Close: only its own variables change.                                   *)

LEMMA CloseStepIInv ==
  ASSUME IInv, NEW c \in Closers, CloseStep(c)
  PROVE  IInv'
<1> USE DEF IInv
<1>1. UNCHANGED <<readVars, injectVars, writeVars>>
  BY DEF CloseStep, CloseCheck, CloseSignal, CloseCallback
<1>2. Chained'
  BY <1>1 DEF Chained, Follows, Tip, readVars, injectVars
<1>3. CASE CloseCheck(c)
  <2>1. TypeOK'
    BY <1>1, <1>3 DEF CloseCheck, TypeOK, readVars, injectVars, writeVars
  <2>2. OneCloser'
    BY <1>1, <1>3 DEF CloseCheck, CloseAdmitted, OneCloser, TypeOK, writeVars
  <2> QED
    BY <1>2, <2>1, <2>2
<1>4. CASE CloseSignal(c)
  <2>1. closings = 0 /\ closings' = 1
    BY <1>4 DEF CloseSignal, Signal, OneCloser
  <2>2. TypeOK'
    BY <1>1, <1>4, <2>1 DEF CloseSignal, TypeOK, readVars, injectVars, writeVars
  <2>3. OneCloser'
    BY <1>1, <1>4, <2>1 DEF CloseSignal, OneCloser, TypeOK, writeVars
  <2> QED
    BY <1>2, <2>2, <2>3
<1>5. CASE CloseCallback(c)
  <2>1. onCloseCalls = 0 /\ onCloseCalls' = 1
    BY <1>5 DEF CloseCallback, OneCloser
  <2>2. TypeOK'
    BY <1>1, <1>5, <2>1 DEF CloseCallback, TypeOK, readVars, injectVars, writeVars
  <2>3. OneCloser'
    BY <1>1, <1>5, <2>1 DEF CloseCallback, OneCloser, TypeOK, writeVars
  <2> QED
    BY <1>2, <2>2, <2>3
<1> QED
  BY <1>3, <1>4, <1>5 DEF CloseStep

-------------------------------------------------------------------------------
(* InjectData: the chunk being injected ends at arrived, and becomes the   *)
(* last of readChan or opens a gap.                                        *)

LEMMA InjectCheckIInv ==
  ASSUME IInv, InjectCheck
  PROVE  IInv'
<1> USE DEF IInv
<1>1. PICK n \in 0 .. MaxChunk : /\ arrived' = arrived + n
                                 /\ inflight' = [from |-> arrived, to |-> arrived + n]
  BY DEF InjectCheck
<1>2. arrived \in Nat /\ arrived + n \in Nat /\ arrived <= arrived + n
  BY SizesAssumption DEF TypeOK
<1>3. inflight' \in Chunk /\ inflight'.from = arrived /\ inflight'.to = arrived'
  BY <1>1, <1>2 DEF Chunk
<1>4. UNCHANGED <<closeVars, readVars, writeVars, refused>>
  BY DEF InjectCheck
<1>5. TypeOK'
  BY <1>1, <1>2, <1>3, <1>4 DEF InjectCheck, TypeOK, closeVars, readVars, writeVars
<1>6. OneCloser'
  BY <1>4 DEF OneCloser, closeVars, writeVars
<1>7. Tip' = Tip
  BY <1>3 DEF Tip, InjectCheck
<1>8. Chained'
  <2>1. UNCHANGED <<readChan, readBuffer, readPos, refused>>
    BY <1>4 DEF readVars
  <2>2. inflight'.to = arrived'
    BY <1>3
  <2> QED
    BY <1>7, <2>1, <2>2 DEF Chained, Follows
<1> QED
  BY <1>5, <1>6, <1>8

LEMMA InjectSendIInv ==
  ASSUME IInv, InjectSend
  PROVE  IInv'
<1> USE DEF IInv
<1>1. UNCHANGED <<closeVars, writeVars, inflight, arrived, readBuffer, reader, readFrom, readPos>>
  BY DEF InjectSend
<1>2. OneCloser'
  BY <1>1 DEF OneCloser, closeVars, writeVars
<1>3. /\ Tip = inflight.from
      /\ Tip' = arrived
      /\ inflight.to = arrived
      /\ inflight.from \in Nat /\ arrived \in Nat /\ inflight.from <= arrived
  BY <1>1 DEF InjectSend, Tip, Chained, TypeOK, Chunk
<1>4. CASE HasRoom /\ readChan' = Append(readChan, inflight) /\ refused' = refused
  <2>1. readChan \in Seq(Chunk) /\ inflight \in Chunk
    BY DEF TypeOK
  <2>2. /\ Append(readChan, inflight) \in Seq(Chunk)
        /\ Append(readChan, inflight) # <<>>
        /\ Len(Append(readChan, inflight)) = Len(readChan) + 1
        /\ \A i \in 1 .. Len(readChan) : Append(readChan, inflight)[i] = readChan[i]
        /\ Append(readChan, inflight)[Len(readChan) + 1] = inflight
    BY <2>1, AppendProperties
  <2> DEFINE q == readChan'
  <2>3. /\ q \in Seq(Chunk)
        /\ q # <<>>
        /\ Len(q) = Len(readChan) + 1
        /\ \A i \in 1 .. Len(readChan) : q[i] = readChan[i]
        /\ q[Len(readChan) + 1] = inflight
    BY <1>4, <2>2
  <2>4. Len(q) <= ChanCap
    BY <1>4, <2>3, ChunkTypes, SizesAssumption DEF HasRoom
  <2>5. TypeOK'
    BY <1>1, <2>3, <2>4, <1>4 DEF InjectSend, TypeOK, closeVars, writeVars
  <2>6. \A i \in 1 .. Len(q) : q[i].to <= Tip'
    BY <1>3, <2>3, ChunkTypes DEF Chained
  <2>7. Follows(readBuffer.to, q[1].from)
    <3>1. CASE readChan = <<>>
      BY <1>3, <2>3, <3>1, EmptySeq DEF Chained
    <3>2. CASE readChan # <<>>
      <4>1. 1 \in 1 .. Len(readChan)
        BY <2>1, <3>2, ChunkTypes, EmptySeq
      <4> QED
        BY <2>3, <3>2, <4>1 DEF Chained
    <3> QED
      BY <3>1, <3>2
  <2>8. Follows(q[Len(q)].to, Tip')
    BY <1>3, <2>3 DEF Follows
  <2>9. ASSUME NEW i \in 1 .. Len(q) - 1
        PROVE  Follows(q[i].to, q[i + 1].from)
    <3>1. i \in 1 .. Len(readChan) /\ q[i] = readChan[i]
      BY <2>3, ChunkTypes
    <3>2. CASE i = Len(readChan)
      BY <1>3, <2>3, <3>1, <3>2, EmptySeq DEF Chained
    <3>3. CASE i # Len(readChan)
      <4>1. i \in 1 .. Len(readChan) - 1 /\ i + 1 \in 1 .. Len(readChan)
        BY <3>1, <3>3, ChunkTypes
      <4> QED
        BY <2>3, <3>1, <4>1 DEF Chained
    <3> QED
      BY <3>2, <3>3
  <2>10. readBuffer.to <= Tip'
    BY <1>3, ChunkTypes DEF Chained
  <2>11. Chained'
    BY <1>1, <1>4, <2>3, <2>6, <2>7, <2>8, <2>9, <2>10 DEF Chained, InjectSend, Follows
  <2> QED
    BY <1>2, <2>5, <2>11
<1>5. CASE ~HasRoom /\ refused' = TRUE /\ readChan' = readChan
  <2>1. TypeOK'
    BY <1>1, <1>5 DEF InjectSend, TypeOK, closeVars, writeVars
  <2>2. Chained'
    BY <1>1, <1>3, <1>5, ChunkTypes DEF Chained, InjectSend, Follows
  <2> QED
    BY <1>2, <2>1, <2>2
<1> QED
  BY <1>4, <1>5 DEF InjectSend

-------------------------------------------------------------------------------
(* Read.                                                                   *)

LEMMA ReadStepIInv ==
  ASSUME IInv, ReadStep
  PROVE  IInv'
<1> USE DEF IInv
<1>1. UNCHANGED <<closeVars, injectVars, writeVars>>
  BY DEF ReadStep, ReadCheck, ReadBuffered, ReadChunk, ReadClosed
<1>2. OneCloser'
  BY <1>1 DEF OneCloser, closeVars, writeVars
<1>3. Tip' = Tip /\ refused' = refused /\ (injector' = injector) /\ inflight' = inflight
      /\ arrived' = arrived
  BY <1>1 DEF Tip, injectVars
<1>4. CASE ReadCheck \/ ReadClosed
  <2>1. UNCHANGED <<readChan, readBuffer, readFrom, readPos>> /\ reader' \in {"idle", "reading", "eof"}
    BY <1>4 DEF ReadCheck, ReadClosed
  <2>2. TypeOK'
    BY <1>1, <2>1 DEF TypeOK, closeVars, injectVars, writeVars
  <2>3. Chained'
    BY <1>3, <2>1 DEF Chained, Follows
  <2> QED
    BY <1>2, <2>2, <2>3
<1>5. CASE ReadBuffered
  <2>1. readBuffer \in Chunk /\ ReturnPrefix(readBuffer) /\ readChan' = readChan
    BY <1>5 DEF ReadBuffered, TypeOK
  <2>2. /\ readFrom' \in Nat /\ readPos' \in Nat
        /\ readBuffer' \in Chunk
        /\ readBuffer'.from = readPos'
        /\ readBuffer'.to = readBuffer.to
        /\ reader' = "idle"
    BY <2>1, PrefixReturned, ChunkTypes
  <2>3. TypeOK'
    BY <1>1, <2>1, <2>2 DEF TypeOK, closeVars, injectVars, writeVars
  <2>4. Chained'
    BY <1>3, <2>1, <2>2 DEF Chained, Follows
  <2> QED
    BY <1>2, <2>3, <2>4
<1>6. CASE ReadChunk
  <2> DEFINE c == readChan[1]
             q == readChan'
  <2>1. readChan \in Seq(Chunk) /\ readChan # <<>> /\ q = Tail(readChan)
    BY <1>6 DEF ReadChunk, TypeOK
  <2>2. 1 \in 1 .. Len(readChan) /\ c \in Chunk /\ Head(readChan) = c
    BY <2>1, ChunkTypes, EmptySeq, HeadTailProperties
  <2>3. /\ readFrom' \in Nat /\ readPos' \in Nat
        /\ readBuffer' \in Chunk
        /\ readBuffer'.from = readPos'
        /\ readBuffer'.to = c.to
        /\ reader' = "idle"
    <3>1. ReturnPrefix(c)
      BY <1>6, <2>2 DEF ReadChunk
    <3>2. c.from \in Nat /\ c.to \in Nat
      BY <2>2, ChunkTypes
    <3> HIDE DEF c
    <3> QED
      BY <2>2, <3>1, <3>2, PrefixReturned
  <2>4. /\ q \in Seq(Chunk)
        /\ Len(q) = Len(readChan) - 1
        /\ \A i \in 1 .. Len(q) : i + 1 \in 1 .. Len(readChan) /\ q[i] = readChan[i + 1]
        /\ q = <<>> <=> Len(q) = 0
    <3>1. q \in Seq(Chunk) /\ Len(q) = Len(readChan) - 1
      BY <2>1, HeadTailProperties
    <3>2. \A i \in 1 .. Len(q) : q[i] = readChan[i + 1]
      BY <2>1, <3>1, HeadTailProperties
    <3>3. Len(readChan) \in Nat /\ Len(q) \in Nat
      BY <3>1, ChunkTypes, LenProperties
    <3> HIDE DEF q
    <3> QED
      BY <3>1, <3>2, <3>3, EmptySeq
  <2>5. Len(q) <= ChanCap
    BY <2>4, ChunkTypes, SizesAssumption DEF TypeOK
  <2>6. TypeOK'
    BY <1>1, <2>3, <2>4, <2>5 DEF TypeOK, closeVars, injectVars, writeVars
  <2>7. \A i \in 1 .. Len(q) : q[i].to <= Tip
    BY <2>4 DEF Chained
  <2>8. c.to <= Tip
    BY <2>2 DEF Chained
  <2>9. q = <<>> => Follows(c.to, Tip)
    BY <2>1, <2>2, <2>4, ChunkTypes DEF Chained
  <2>10. q # <<>> => Follows(c.to, q[1].from) /\ Follows(q[Len(q)].to, Tip)
    <3> SUFFICES ASSUME q # <<>>
                 PROVE  Follows(c.to, q[1].from) /\ Follows(q[Len(q)].to, Tip)
      OBVIOUS
    <3>1. 1 \in 1 .. Len(readChan) - 1 /\ Len(q) \in 1 .. Len(q) /\ 1 \in 1 .. Len(q)
      BY <2>4, ChunkTypes
    <3>2. q[1] = readChan[2] /\ q[Len(q)] = readChan[Len(readChan)]
      BY <2>4, <3>1, ChunkTypes
    <3> QED
      BY <2>1, <3>1, <3>2 DEF Chained
  <2>11. \A i \in 1 .. Len(q) - 1 : Follows(q[i].to, q[i + 1].from)
    <3> SUFFICES ASSUME NEW i \in 1 .. Len(q) - 1
                 PROVE  Follows(q[i].to, q[i + 1].from)
      OBVIOUS
    <3>1. i \in 1 .. Len(q) /\ i + 1 \in 1 .. Len(q) /\ i + 1 \in 1 .. Len(readChan) - 1
      BY <2>4, ChunkTypes
    <3>2. q[i] = readChan[i + 1] /\ q[i + 1] = readChan[(i + 1) + 1]
      BY <2>4, <3>1
    <3> QED
      BY <3>1, <3>2 DEF Chained
  <2>12. Chained'
    BY <1>3, <2>3, <2>7, <2>8, <2>9, <2>10, <2>11 DEF Chained, Follows
  <2> QED
    BY <1>2, <2>6, <2>12
<1> QED
  BY <1>4, <1>5, <1>6 DEF ReadStep

-------------------------------------------------------------------------------
(* Write: the one write past its test of `closed' may come after onClose.  *)

LEMMA WriteStepIInv ==
  ASSUME IInv, WriteCheck \/ WriteCall
  PROVE  IInv'
<1> USE DEF IInv
<1>1. UNCHANGED <<closeVars, readVars, injectVars>>
  BY DEF WriteCheck, WriteCall
<1>2. Chained'
  BY <1>1 DEF Chained, Follows, Tip, readVars, injectVars
<1>3. CASE WriteCheck
  <2>1. TypeOK'
    BY <1>1, <1>3 DEF WriteCheck, TypeOK, closeVars, readVars, injectVars
  <2>2. OneCloser'
    BY <1>1, <1>3 DEF WriteCheck, WriteAdmitted, OneCloser, closeVars
  <2> QED
    BY <1>2, <2>1, <2>2
<1>4. CASE WriteCall
  <2>1. late = 0 /\ late' \in 0 .. 1 /\ (onCloseCalls = 0 => late' = 0)
    BY <1>4 DEF WriteCall, OneCloser, TypeOK
  <2>2. TypeOK'
    BY <1>1, <1>4, <2>1 DEF WriteCall, TypeOK, closeVars, readVars, injectVars
  <2>3. OneCloser'
    BY <1>1, <1>4, <2>1 DEF WriteCall, OneCloser, closeVars
  <2> QED
    BY <1>2, <2>2, <2>3
<1> QED
  BY <1>3, <1>4

-------------------------------------------------------------------------------
LEMMA NextIInv == IInv /\ [Next]_vars => IInv'
<1> SUFFICES ASSUME IInv, [Next]_vars PROVE IInv'
  OBVIOUS
<1>1. CASE UNCHANGED vars
  BY <1>1 DEF vars, closeVars, readVars, injectVars, writeVars,
              IInv, TypeOK, OneCloser, Chained, Follows, Tip
<1>2. CASE Next
  BY <1>2, CloseStepIInv, InjectCheckIInv, InjectSendIInv, ReadStepIInv, WriteStepIInv
  DEF Next
<1> QED
  BY <1>1, <1>2

\* The inductive invariant holds in every reachable state.
THEOREM Invariant == Spec => []IInv
BY InitIInv, NextIInv, PTL DEF Spec

\* Every variable keeps its type, readChan its capacity, the counters of
\* Close and of late writes their bound.
THEOREM TypeCorrect == Spec => []TypeOK
<1>1. IInv => TypeOK
  BY DEF IInv
<1> QED
  BY <1>1, Invariant, PTL

\* However many goroutines call Close, in any interleaving, closeChan is
\* closed at most once and onClose is called at most once, with at most one
\* write behind it.
THEOREM ClosedOnce == Spec => []CloseOnce
<1>1. IInv => CloseOnce
  BY DEF IInv, TypeOK, CloseOnce
<1> QED
  BY <1>1, Invariant, PTL

\* The bytes that were injected and not yet read are all held, in order.
THEOREM HeldInOrder == Spec => []Chained
<1>1. IInv => Chained
  BY DEF IInv
<1> QED
  BY <1>1, Invariant, PTL

-------------------------------------------------------------------------------
(* JSTransport implements ByteStream.  readPos and arrived bound what a    *)
(* Read returns, because every chunk ends at or before Tip.                *)

LEMMA TakesInOrder ==
  ASSUME IInv, NEW c \in Chunk, ReturnPrefix(c), reader = "reading",
         UNCHANGED <<closeVars, injectVars>>,
         c.to <= Tip, readPos <= c.from, refused \/ readPos = c.from
  PROVE  Stream!Take
<1>1. c.from \in Nat /\ c.to \in Nat
  BY DEF Chunk
<1>2. readFrom' = c.from /\ readPos' \in c.from .. c.to /\ reader' = "idle"
  BY <1>1, PrefixReturned
<1>3. Tip <= arrived /\ Tip \in Nat /\ arrived \in Nat /\ readPos \in Nat
  BY ChunkTypes DEF IInv, Chained, Tip, TypeOK
<1>4. c.from \in readPos .. arrived /\ readPos' \in readPos .. arrived
  BY <1>1, <1>2, <1>3
<1>5. UNCHANGED <<arrived, refused, closed>>
  BY DEF closeVars, injectVars
<1> QED
  BY <1>1, <1>2, <1>4, <1>5 DEF Stream!Take

LEMMA StepIsByteStream == IInv /\ [Next]_vars => [Stream!Next]_(Stream!vars)
<1> SUFFICES ASSUME IInv, [Next]_vars PROVE [Stream!Next]_(Stream!vars)
  OBVIOUS
<1> USE DEF Stream!vars
<1>1. ASSUME NEW c \in Closers, CloseStep(c) PROVE [Stream!Next]_(Stream!vars)
  BY <1>1 DEF CloseStep, CloseCheck, CloseSignal, CloseCallback, readVars, injectVars,
              Stream!Next, Stream!Shut
<1>2. CASE InjectCheck
  <2>1. arrived \in Nat /\ arrived' \in Nat /\ arrived' >= arrived
    BY <1>2, SizesAssumption DEF InjectCheck, IInv, TypeOK
  <2> QED
    BY <1>2, <2>1 DEF InjectCheck, readVars, closeVars, Stream!Next, Stream!Arrive
<1>3. CASE InjectSend
  BY <1>3 DEF InjectSend, closeVars, Stream!Next, Stream!Lose
<1>4. CASE ReadCheck
  BY <1>4 DEF ReadCheck, closeVars, injectVars, Stream!Next, Stream!End
<1>5. CASE ReadClosed
  <2>1. closed
    BY <1>5 DEF ReadClosed, IInv, OneCloser
  <2> QED
    BY <1>5, <2>1 DEF ReadClosed, closeVars, injectVars, Stream!Next, Stream!End
<1>6. CASE ReadBuffered
  <2>1. /\ readBuffer \in Chunk
        /\ readBuffer.to <= Tip
        /\ readPos = readBuffer.from
        /\ readPos <= readBuffer.from
    BY ChunkTypes DEF IInv, TypeOK, Chained
  <2>2. Stream!Take
    BY <1>6, <2>1, TakesInOrder DEF ReadBuffered
  <2> QED
    BY <2>2 DEF Stream!Next
<1>7. CASE ReadChunk
  <2>1. readChan # <<>> /\ readChan \in Seq(Chunk) /\ ~Buffered
    BY <1>7 DEF ReadChunk, IInv, TypeOK
  <2>2. 1 \in 1 .. Len(readChan) /\ readChan[1] \in Chunk /\ Head(readChan) = readChan[1]
    BY <2>1, ChunkTypes, EmptySeq, HeadTailProperties DEF IInv
  <2>3. readBuffer.to = readPos
    BY <2>1, ChunkTypes DEF IInv, Chained, Buffered
  <2>4. /\ readChan[1].to <= Tip
        /\ readPos <= readChan[1].from
        /\ refused \/ readPos = readChan[1].from
    BY <2>1, <2>2, <2>3 DEF IInv, Chained, Follows
  <2>5. Stream!Take
    BY <1>7, <2>2, <2>4, TakesInOrder DEF ReadChunk
  <2> QED
    BY <2>5 DEF Stream!Next
<1>8. CASE WriteCheck \/ WriteCall
  BY <1>8 DEF WriteCheck, WriteCall, closeVars, readVars, injectVars
<1>9. CASE UNCHANGED vars
  BY <1>9 DEF vars, closeVars, readVars, injectVars
<1> QED
  BY <1>1, <1>2, <1>3, <1>4, <1>5, <1>6, <1>7, <1>8, <1>9 DEF Next, ReadStep

\* A JSTransport is a byte stream: what Read returns is what JavaScript
\* injected, in order, each byte once, without a gap while no chunk was
\* refused, and EOF comes only after Close and is final.
THEOREM ImplementsByteStream == Spec => IsByteStream
<1>1. Init => Stream!Init
  BY DEF Init, Stream!Init
<1> QED
  BY <1>1, Invariant, StepIsByteStream, PTL DEF Spec, IsByteStream, Stream!Spec
===============================================================================
