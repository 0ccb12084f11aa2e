----------------------------- MODULE RuntimeProofs -----------------------------
(***************************************************************************)
(* Theorems about Runtime, for any set of calls: what the Go program can   *)
(* die of.  The inductive invariant IInv adds to the types who holds c.mu  *)
(* (LockInv) and what the stack says of the calls on it (StackInv): a      *)
(* handler whose work is frozen in a callback is never on top.             *)
(***************************************************************************)
EXTENDS Runtime, SequenceTheorems, TLAPS

\* The steps at which a call is the writer of c.mu, waiting for the readers
\* before it or alone, and those at which it is a reader.
Writing == {"start", "asking", "answered", "refused", "tear down", "down"}
Reading == {"enqueue", "sent"}

LockInv ==
    \A k \in Calls : /\ lock = k <=> pc[k] \in Writing
                     /\ k \in readers <=> pc[k] \in Reading

Called == \A k \in Calls : kind[k] = "none" <=> pc[k] = "idle"

StackInv ==
    /\ \A i \in 1 .. Len(stack) : stack[i].call # Nobody => pc[stack[i].call] # "idle"
    /\ \A i, j \in 1 .. Len(stack) :
         /\ stack[i].type = "event" /\ stack[j].type = "callback"
         /\ stack[i].call = stack[j].call
         => i < j

\* The program has not died of a callback that was not to throw, nor of a
\* handler that is nobody's call.
DeathInv ==
    /\ threw => Throwing
    /\ exited /\ ~threw => Last(stack).call \in Calls

IInv == TypeOK /\ LockInv /\ Called /\ StackInv /\ DeathInv /\ DeathCauses

-----------------------------------------------------------------------------
(* The stack as a sequence of frames.                                       *)

LEMMA FrameFacts ==
  ASSUME NEW k \in Calls \cup {Nobody}
  PROVE  /\ Event(k) \in Frames /\ Event(k).type = "event" /\ Event(k).call = k
         /\ Callback(k) \in Frames /\ Callback(k).type = "callback" /\ Callback(k).call = k
BY DEF Event, Callback, Frames

LEMMA Push ==
  ASSUME NEW s \in Seq(Frames), NEW f \in Frames
  PROVE  /\ Append(s, f) \in Seq(Frames)
         /\ Len(Append(s, f)) = Len(s) + 1
         /\ \A i \in 1 .. Len(s) : Append(s, f)[i] = s[i]
         /\ Append(s, f)[Len(s) + 1] = f
OBVIOUS

LEMMA Single ==
  ASSUME NEW f \in Frames
  PROVE  <<f>> \in Seq(Frames)
OBVIOUS

LEMMA Pop ==
  ASSUME NEW s \in Seq(Frames), s # <<>>
  PROVE  /\ Front(s) \in Seq(Frames)
         /\ Len(Front(s)) = Len(s) - 1
         /\ \A i \in 1 .. Len(s) - 1 : Front(s)[i] = s[i]
         /\ Last(s) = s[Len(s)] /\ Last(s) \in Frames
<1> DEFINE n == Len(s) - 1
<1>1. Len(s) = n + 1 /\ n \in Nat
  OBVIOUS
<1>2. Front(s) = SubSeq(s, 1, n)
  BY DEF Front
<1>3. \A i \in 1 .. n : s[i] \in Frames
  BY <1>1
<1>4. Last(s) = s[Len(s)] /\ Last(s) \in Frames
  BY <1>1 DEF Last
<1> HIDE DEF n
<1>5. /\ SubSeq(s, 1, n) \in Seq(Frames)
      /\ Len(SubSeq(s, 1, n)) = n
      /\ \A i \in 1 .. n : SubSeq(s, 1, n)[i] = s[i]
  BY <1>1, <1>3
<1>6. Front(s) \in Seq(Frames) /\ Len(Front(s)) = n /\ \A i \in 1 .. n : Front(s)[i] = s[i]
  BY <1>2, <1>5, Zenon
<1> QED
  BY <1>4, <1>6 DEF n

\* A step that makes calls, and puts at most one frame on the stack.
LEMMA StackPushed ==
  ASSUME TypeOK, StackInv, NEW f \in Frames, stack' = Append(stack, f),
         \A k \in Calls : pc[k] # "idle" => pc'[k] # "idle",
         f.call # Nobody => pc'[f.call] # "idle",
         f.type = "event" =>
           \A i \in 1 .. Len(stack) : stack[i].type = "callback" => stack[i].call # f.call
  PROVE  StackInv'
<1> USE DEF StackInv
<1>1. stack \in Seq(Frames)
  BY DEF TypeOK
<1>2. /\ Len(stack') = Len(stack) + 1 /\ Len(stack) \in Nat
      /\ \A i \in 1 .. Len(stack) : stack'[i] = stack[i]
      /\ stack'[Len(stack) + 1] = f
  BY <1>1, Push
<1>3. ASSUME NEW i \in 1 .. Len(stack'), stack'[i].call # Nobody
      PROVE  pc'[stack'[i].call] # "idle"
  <2>1. CASE i = Len(stack) + 1
    BY <1>2, <1>3, <2>1
  <2>2. CASE i \in 1 .. Len(stack)
    <3>1. stack[i] \in Frames /\ stack'[i] = stack[i]
      BY <1>1, <1>2, <2>2
    <3> QED
      BY <1>3, <2>2, <3>1 DEF Frames
  <2> QED
    BY <1>2, <2>1, <2>2
<1>4. ASSUME NEW i \in 1 .. Len(stack'), NEW j \in 1 .. Len(stack'),
             stack'[i].type = "event", stack'[j].type = "callback",
             stack'[i].call = stack'[j].call
      PROVE  i < j
  <2>1. CASE i \in 1 .. Len(stack) /\ j \in 1 .. Len(stack)
    BY <1>2, <1>4, <2>1
  <2>2. CASE i = Len(stack) + 1
    <3>1. f.type = "event"
      BY <1>2, <1>4, <2>2
    <3>2. j # Len(stack) + 1
      BY <1>2, <1>4, <3>1
    <3> QED
      BY <1>2, <1>4, <2>2, <3>1, <3>2
  <2>3. CASE i \in 1 .. Len(stack) /\ j = Len(stack) + 1
    BY <1>2, <2>3
  <2> QED
    BY <1>2, <2>1, <2>2, <2>3
<1> QED
  BY <1>3, <1>4

\* One that takes a frame off, or leaves the stack alone.
LEMMA StackPopped ==
  ASSUME TypeOK, StackInv,
         stack' = stack \/ (stack # <<>> /\ stack' = Front(stack)),
         \A k \in Calls : pc[k] # "idle" => pc'[k] # "idle"
  PROVE  StackInv'
<1>1. stack \in Seq(Frames)
  BY DEF TypeOK
<1>2. /\ Len(stack') <= Len(stack) /\ Len(stack) \in Nat /\ Len(stack') \in Nat
      /\ \A i \in 1 .. Len(stack') : stack'[i] = stack[i] /\ stack[i] \in Frames
  <2>1. CASE stack' = stack
    BY <1>1, <2>1
  <2>2. CASE stack # <<>> /\ stack' = Front(stack)
    <3>1. /\ Len(stack') = Len(stack) - 1 /\ Len(stack) \in Nat /\ Len(stack) # 0
          /\ \A i \in 1 .. Len(stack) - 1 : stack'[i] = stack[i]
      BY <1>1, <2>2, Pop
    <3>2. \A i \in 1 .. Len(stack) : stack[i] \in Frames
      BY <1>1
    <3> QED
      BY <3>1, <3>2
  <2> QED
    BY <2>1, <2>2
<1> QED
  BY <1>2 DEF StackInv, Frames

-----------------------------------------------------------------------------
(* The initial state: connect() has resolved, and nothing is called.        *)

LEMMA InitIInv == Init => IInv
<1> SUFFICES ASSUME Init PROVE IInv
  OBVIOUS
<1>1. TypeOK
  <2>1. stack \in Seq(Frames)
    BY DEF Init
  <2>2. /\ kind \in [Calls -> Kinds \cup {"none"}]
        /\ settled \subseteq Calls /\ readers \subseteq Calls
        /\ lock \in Calls \cup {Nobody}
        /\ connected \in BOOLEAN /\ shell \in BOOLEAN
        /\ exited \in BOOLEAN /\ threw \in BOOLEAN
        /\ \A k \in Calls : pc[k] = "idle"
    BY DEF Init
  <2> QED
    BY <2>1, <2>2 DEF Init, TypeOK
<1>2. LockInv /\ Called /\ DeathInv /\ DeathCauses
  BY RuntimeAssumption DEF Init, LockInv, Called, DeathInv, DeathCauses, Writing, Reading
<1>3. StackInv
  BY DEF Init, StackInv
<1> QED
  BY <1>1, <1>2, <1>3 DEF IInv

-----------------------------------------------------------------------------
(* Types.                                                                   *)

LEMMA TypeStep ==
  ASSUME IInv, [Next]_vars
  PROVE  TypeOK'
<1> USE RuntimeAssumption DEF IInv, TypeOK, LockInv, Writing, Reading
<1>1. CASE UNCHANGED vars
  BY <1>1 DEF vars, clientVars
<1>2. CASE Return
  <2>1. stack' \in Seq(Frames)
    BY <1>2, Pop DEF Return, InEvent
  <2> QED
    BY <1>2, <2>1 DEF Return, InEvent, clientVars
<1>3. CASE Deadlock
  BY <1>3 DEF Deadlock, InEvent, clientVars
<1>4. CASE CallbackReturns
  <2>1. stack' \in Seq(Frames)
    BY <1>4, Pop DEF CallbackReturns, InCallback
  <2> QED
    BY <1>4, <2>1 DEF CallbackReturns, InCallback, clientVars
<1>5. CASE CallbackThrows
  BY <1>5 DEF CallbackThrows, InCallback, clientVars
<1>6. ASSUME NEW k \in Calls, NEW what \in Kinds, Call(k, what)
      PROVE  TypeOK'
  <2>1. stack' \in Seq(Frames)
    BY <1>6, FrameFacts, Push DEF Call
  <2> QED
    BY <1>6, <2>1 DEF Call, FirstStep, clientVars
<1>7. ASSUME NEW k \in Calls, ServerAnswers(k)
      PROVE  TypeOK'
  <2>1. stack' \in Seq(Frames)
    <3>1. Event(Nobody) \in Frames
      BY FrameFacts
    <3> QED
      <4>1. stack' = <<Event(Nobody)>>
        BY <1>7 DEF ServerAnswers
      <4>2. <<Event(Nobody)>> \in Seq(Frames)
        BY <3>1, Single
      <4> QED
        BY <4>1, <4>2
  <2>2. \A j \in Calls : pc[j] = "asking" => lock = j /\ readers = {}
    OBVIOUS
  <2> QED
    BY <1>7, <2>1, <2>2 DEF ServerAnswers, clientVars
<1>8. ASSUME NEW k \in Calls, GoStep(k)
      PROVE  TypeOK'
  <2>1. CASE SendBegin(k)
    BY <2>1 DEF SendBegin, Goto, Runs, InEvent, Runnable, Unlocked, clientVars
  <2>2. CASE ShellLocks(k)
    BY <2>2 DEF ShellLocks, Goto, Runs, InEvent, Runnable, Unlocked, clientVars
  <2>3. CASE StartShell(k)
    BY <2>3 DEF StartShell, Goto, Runs, InEvent, Runnable, Unlocked, clientVars
  <2>4. CASE ShellStarted(k)
    BY <2>4 DEF ShellStarted, Goto, Runs, InEvent, Runnable, Unlocked, clientVars
  <2>5. CASE Relock(k)
    BY <2>5 DEF Relock, Goto, Runs, InEvent, Runnable, Unlocked, clientVars
  <2>6. CASE GiveUp(k)
    BY <2>6 DEF GiveUp, Settle, Goto, Runs, InEvent, Runnable, Unlocked, clientVars
  <2>7. CASE Enqueue(k)
    <3>1. stack' \in Seq(Frames)
      <4>1. Append(stack, Callback(k)) \in Seq(Frames)
        BY FrameFacts, Push
      <4> QED
        BY <2>7, <4>1 DEF Enqueue
    <3> QED
      BY <2>7, <3>1 DEF Enqueue, Settle, Goto, Runs, InEvent, Runnable, Unlocked, clientVars
  <2>8. CASE Sent(k)
    BY <2>8 DEF Sent, Settle, Goto, Runs, InEvent, Runnable, Unlocked, clientVars
  <2>9. CASE Announce(k)
    <3>1. stack' \in Seq(Frames)
      BY <2>9, FrameFacts, Push DEF Announce
    <3> QED
      BY <2>9, <3>1 DEF Announce, Goto, Runs, InEvent, Runnable, Unlocked, clientVars
  <2>10. CASE DisconnectLocks(k)
    BY <2>10 DEF DisconnectLocks, Goto, Runs, InEvent, Runnable, Unlocked, clientVars
  <2>11. CASE TearDown(k)
    <3>1. stack' \in Seq(Frames)
      BY <2>11, FrameFacts, Push DEF TearDown
    <3> QED
      BY <2>11, <3>1 DEF TearDown, Goto, Runs, InEvent, Runnable, Unlocked, clientVars
  <2>12. CASE Down(k)
    BY <2>12 DEF Down, Settle, Goto, Runs, InEvent, Runnable, Unlocked, clientVars
  <2> QED
    BY <1>8, <2>1, <2>2, <2>3, <2>4, <2>5, <2>6, <2>7, <2>8, <2>9, <2>10, <2>11, <2>12 DEF GoStep
<1> QED
  BY <1>1, <1>2, <1>3, <1>4, <1>5, <1>6, <1>7, <1>8 DEF Next

-----------------------------------------------------------------------------
(* The lock: at most one writer, and no reader once it has the lock.        *)

LEMMA LockStep ==
  ASSUME IInv, [Next]_vars
  PROVE  LockInv'
<1> USE RuntimeAssumption DEF IInv, TypeOK, LockInv, Writing, Reading
<1>1. CASE UNCHANGED vars
  BY <1>1 DEF vars, clientVars
<1>2. CASE Return
  BY <1>2 DEF Return, InEvent, clientVars
<1>3. CASE Deadlock
  BY <1>3 DEF Deadlock, InEvent, clientVars
<1>4. CASE CallbackReturns
  BY <1>4 DEF CallbackReturns, InCallback, clientVars
<1>5. CASE CallbackThrows
  BY <1>5 DEF CallbackThrows, InCallback, clientVars
<1>6. ASSUME NEW k \in Calls, NEW what \in Kinds, Call(k, what)
      PROVE  LockInv'
  BY <1>6 DEF Call, FirstStep, Event, Called, Methods, Statics, clientVars
<1>7. ASSUME NEW k \in Calls, ServerAnswers(k)
      PROVE  LockInv'
  BY <1>7 DEF ServerAnswers, Event, clientVars
<1>8. ASSUME NEW k \in Calls, GoStep(k)
      PROVE  LockInv'
  <2>1. CASE SendBegin(k)
    BY <2>1 DEF SendBegin, Goto, Runs, InEvent, Runnable, Unlocked, clientVars
  <2>2. CASE ShellLocks(k)
    BY <2>2 DEF ShellLocks, Goto, Runs, InEvent, Runnable, Unlocked, clientVars
  <2>3. CASE StartShell(k)
    <3>1. lock = k /\ pc[k] = "start" /\ readers = {} /\ readers' = readers
      BY <2>3 DEF StartShell, Runs, Runnable
    <3>2. CASE ~shell /\ connected
      BY <2>3, <3>1, <3>2 DEF StartShell, Goto
    <3>3. CASE ~(~shell /\ connected)
      <4>1. /\ lock' = Nobody
            /\ pc' = [pc EXCEPT ![k] = "relock"] \/ pc' = [pc EXCEPT ![k] = "give up"]
        BY <2>3, <3>3 DEF StartShell, Goto
      <4> QED
        BY <3>1, <4>1
    <3> QED
      BY <3>2, <3>3
  <2>4. CASE ShellStarted(k)
    BY <2>4 DEF ShellStarted, Goto, Runs, InEvent, Runnable, Unlocked, clientVars
  <2>5. CASE Relock(k)
    BY <2>5 DEF Relock, Goto, Runs, InEvent, Runnable, Unlocked, clientVars
  <2>6. CASE GiveUp(k)
    BY <2>6 DEF GiveUp, Settle, Goto, Runs, InEvent, Runnable, Unlocked, clientVars
  <2>7. CASE Enqueue(k)
    BY <2>7 DEF Enqueue, Settle, Goto, Callback, Runs, InEvent, Runnable, Unlocked, clientVars
  <2>8. CASE Sent(k)
    BY <2>8 DEF Sent, Settle, Goto, Runs, InEvent, Runnable, Unlocked, clientVars
  <2>9. CASE Announce(k)
    BY <2>9 DEF Announce, Goto, Callback, Runs, InEvent, Runnable, Unlocked, clientVars
  <2>10. CASE DisconnectLocks(k)
    BY <2>10 DEF DisconnectLocks, Goto, Runs, InEvent, Runnable, Unlocked, clientVars
  <2>11. CASE TearDown(k)
    BY <2>11 DEF TearDown, Goto, Callback, Runs, InEvent, Runnable, Unlocked, clientVars
  <2>12. CASE Down(k)
    BY <2>12 DEF Down, Settle, Goto, Runs, InEvent, Runnable, Unlocked, clientVars
  <2> QED
    BY <1>8, <2>1, <2>2, <2>3, <2>4, <2>5, <2>6, <2>7, <2>8, <2>9, <2>10, <2>11, <2>12 DEF GoStep
<1> QED
  BY <1>1, <1>2, <1>3, <1>4, <1>5, <1>6, <1>7, <1>8 DEF Next

-----------------------------------------------------------------------------
(* A call is at its first step when it is made.                             *)

LEMMA CalledStep ==
  ASSUME IInv, [Next]_vars
  PROVE  Called'
<1> USE RuntimeAssumption DEF IInv, TypeOK, Called, Methods, Statics
<1>1. CASE UNCHANGED vars
  BY <1>1 DEF vars, clientVars
<1>2. CASE Return
  BY <1>2 DEF Return, InEvent, clientVars
<1>3. CASE Deadlock
  BY <1>3 DEF Deadlock, InEvent, clientVars
<1>4. CASE CallbackReturns
  BY <1>4 DEF CallbackReturns, InCallback, clientVars
<1>5. CASE CallbackThrows
  BY <1>5 DEF CallbackThrows, InCallback, clientVars
<1>6. ASSUME NEW k \in Calls, NEW what \in Kinds, Call(k, what)
      PROVE  Called'
  BY <1>6 DEF Call, FirstStep, Event, clientVars
<1>7. ASSUME NEW k \in Calls, ServerAnswers(k)
      PROVE  Called'
  BY <1>7 DEF ServerAnswers, Event, clientVars
<1>8. ASSUME NEW k \in Calls, GoStep(k)
      PROVE  Called'
  <2>1. CASE SendBegin(k)
    BY <2>1 DEF SendBegin, Goto, Runs, InEvent, Runnable, Unlocked, clientVars
  <2>2. CASE ShellLocks(k)
    BY <2>2 DEF ShellLocks, Goto, Runs, InEvent, Runnable, Unlocked, clientVars
  <2>3. CASE StartShell(k)
    BY <2>3 DEF StartShell, Goto, Runs, InEvent, Runnable, Unlocked, clientVars
  <2>4. CASE ShellStarted(k)
    BY <2>4 DEF ShellStarted, Goto, Runs, InEvent, Runnable, Unlocked, clientVars
  <2>5. CASE Relock(k)
    BY <2>5 DEF Relock, Goto, Runs, InEvent, Runnable, Unlocked, clientVars
  <2>6. CASE GiveUp(k)
    BY <2>6 DEF GiveUp, Settle, Goto, Runs, InEvent, Runnable, Unlocked, clientVars
  <2>7. CASE Enqueue(k)
    BY <2>7 DEF Enqueue, Settle, Goto, Callback, Runs, InEvent, Runnable, Unlocked, clientVars
  <2>8. CASE Sent(k)
    BY <2>8 DEF Sent, Settle, Goto, Runs, InEvent, Runnable, Unlocked, clientVars
  <2>9. CASE Announce(k)
    BY <2>9 DEF Announce, Goto, Callback, Runs, InEvent, Runnable, Unlocked, clientVars
  <2>10. CASE DisconnectLocks(k)
    BY <2>10 DEF DisconnectLocks, Goto, Runs, InEvent, Runnable, Unlocked, clientVars
  <2>11. CASE TearDown(k)
    BY <2>11 DEF TearDown, Goto, Callback, Runs, InEvent, Runnable, Unlocked, clientVars
  <2>12. CASE Down(k)
    BY <2>12 DEF Down, Settle, Goto, Runs, InEvent, Runnable, Unlocked, clientVars
  <2> QED
    BY <1>8, <2>1, <2>2, <2>3, <2>4, <2>5, <2>6, <2>7, <2>8, <2>9, <2>10, <2>11, <2>12 DEF GoStep
<1> QED
  BY <1>1, <1>2, <1>3, <1>4, <1>5, <1>6, <1>7, <1>8 DEF Next

-----------------------------------------------------------------------------
(* The stack.                                                               *)

LEMMA StackStep ==
  ASSUME IInv, [Next]_vars
  PROVE  StackInv'
<1>0. TypeOK /\ Called /\ StackInv /\ DOMAIN pc = Calls
  <2>1. TypeOK /\ Called /\ StackInv
    BY DEF IInv
  <2> QED
    BY <2>1 DEF TypeOK
<1>1. CASE UNCHANGED vars
  BY <1>0, <1>1, StackPopped DEF vars, clientVars
<1>2. CASE Return
  BY <1>2, <1>0, StackPopped DEF Return, InEvent, clientVars
<1>3. CASE Deadlock
  BY <1>3, <1>0, StackPopped DEF Deadlock, InEvent, clientVars
<1>4. CASE CallbackReturns
  BY <1>4, <1>0, StackPopped DEF CallbackReturns, InCallback, clientVars
<1>5. CASE CallbackThrows
  BY <1>5, <1>0, StackPopped DEF CallbackThrows, InCallback, clientVars
<1>6. ASSUME NEW k \in Calls, NEW what \in Kinds, Call(k, what)
      PROVE  StackInv'
  <2>1. \A i \in 1 .. Len(stack) : stack[i].call # k
    BY <1>0, <1>6, RuntimeAssumption DEF Call, Called, StackInv
  <2>2. /\ pc'[k] # "idle"
        /\ \A j \in Calls : pc[j] # "idle" => pc'[j] # "idle"
    BY <1>0, <1>6 DEF Call, FirstStep
  <2>3. /\ Event(k) \in Frames /\ Event(k).call = k
        /\ stack' = Append(stack, Event(k))
    BY <1>6, FrameFacts DEF Call
  <2> QED
    BY <1>0, <2>1, <2>2, <2>3, StackPushed
<1>7. ASSUME NEW k \in Calls, ServerAnswers(k)
      PROVE  StackInv'
  <2>1. \A j \in Calls : pc[j] # "idle" => pc'[j] # "idle"
    BY <1>7 DEF ServerAnswers
  <2>2. /\ Event(Nobody) \in Frames /\ Event(Nobody).call = Nobody
        /\ stack' = Append(stack, Event(Nobody))
    BY <1>7, FrameFacts DEF ServerAnswers
  <2>3. Len(stack) = 0
    BY <1>7 DEF ServerAnswers
  <2> QED
    BY <1>0, <2>1, <2>2, <2>3, StackPushed
<1>8. ASSUME NEW k \in Calls, GoStep(k)
      PROVE  StackInv'
  <2>1. CASE SendBegin(k)
    BY <2>1, <1>0, StackPopped DEF SendBegin, Goto, Runs
  <2>2. CASE ShellLocks(k)
    BY <2>2, <1>0, StackPopped DEF ShellLocks, Goto, Runs
  <2>3. CASE StartShell(k)
    BY <2>3, <1>0, StackPopped DEF StartShell, Goto, Runs
  <2>4. CASE ShellStarted(k)
    BY <2>4, <1>0, StackPopped DEF ShellStarted, Goto, Runs
  <2>5. CASE Relock(k)
    BY <2>5, <1>0, StackPopped DEF Relock, Goto, Runs
  <2>6. CASE GiveUp(k)
    BY <2>6, <1>0, StackPopped DEF GiveUp, Settle, Goto, Runs
  <2>7. CASE Enqueue(k)
    <3>1. pc'[k] # "idle" /\ \A j \in Calls : pc[j] # "idle" => pc'[j] # "idle"
      BY <1>0, <2>7 DEF Enqueue, Settle, Goto
    <3>2. /\ Callback(k) \in Frames /\ Callback(k).type = "callback" /\ Callback(k).call = k
      BY FrameFacts
    <3>3. stack' = Append(stack, Callback(k)) \/ stack' = stack
      BY <1>0, <2>7 DEF Enqueue
    <3> QED
      BY <1>0, <3>1, <3>2, <3>3, StackPushed, StackPopped
  <2>8. CASE Sent(k)
    BY <2>8, <1>0, StackPopped DEF Sent, Settle, Goto, Runs
  <2>9. CASE Announce(k)
    <3>1. pc'[k] # "idle" /\ \A j \in Calls : pc[j] # "idle" => pc'[j] # "idle"
      BY <1>0, <2>9 DEF Announce, Goto
    <3>2. /\ Callback(k) \in Frames /\ Callback(k).type = "callback" /\ Callback(k).call = k
      BY FrameFacts
    <3>3. stack' = Append(stack, Callback(k))
      BY <1>0, <2>9 DEF Announce
    <3> QED
      BY <1>0, <3>1, <3>2, <3>3, StackPushed
  <2>10. CASE DisconnectLocks(k)
    BY <2>10, <1>0, StackPopped DEF DisconnectLocks, Goto, Runs
  <2>11. CASE TearDown(k)
    <3>1. pc'[k] # "idle" /\ \A j \in Calls : pc[j] # "idle" => pc'[j] # "idle"
      BY <1>0, <2>11 DEF TearDown, Goto
    <3>2. /\ Callback(k) \in Frames /\ Callback(k).type = "callback" /\ Callback(k).call = k
      BY FrameFacts
    <3>3. stack' = Append(stack, Callback(k))
      BY <1>0, <2>11 DEF TearDown
    <3> QED
      BY <1>0, <3>1, <3>2, <3>3, StackPushed
  <2>12. CASE Down(k)
    BY <2>12, <1>0, StackPopped DEF Down, Settle, Goto, Runs
  <2> QED
    BY <1>8, <2>1, <2>2, <2>3, <2>4, <2>5, <2>6, <2>7, <2>8, <2>9, <2>10, <2>11, <2>12 DEF GoStep
<1> QED
  BY <1>1, <1>2, <1>3, <1>4, <1>5, <1>6, <1>7, <1>8 DEF Next

-----------------------------------------------------------------------------
(* What the program dies of.                                                *)

\* The call that has the lock or is announced as its writer, and cannot run,
\* waits for the server, or for a callback: its own, or that of a reader.
LEMMA WhoBlocks ==
  ASSUME IInv, AllAsleep, NEW w \in Calls, pc[w] \in Writing
  PROVE  \/ pc[w] = "asking"
         \/ \E k \in Calls : Frozen(k) /\ (lock = k \/ k \in readers)
<1> USE DEF IInv, TypeOK, LockInv, Writing
<1>1. lock = w /\ ~Runnable(w)
  BY DEF AllAsleep
<1>2. CASE Frozen(w)
  BY <1>1, <1>2
<1>3. CASE ~Frozen(w) /\ pc[w] # "asking"
  <2>1. readers # {} /\ readers \subseteq Calls
    BY <1>1, <1>3 DEF Runnable
  <2>2. PICK r \in Calls : r \in readers
    BY <2>1
  <2>3. pc[r] \in Reading /\ ~Runnable(r)
    BY <2>2 DEF AllAsleep
  <2>4. Frozen(r)
    BY <2>3 DEF Runnable, Reading
  <2> QED
    BY <2>2, <2>4
<1> QED
  BY <1>2, <1>3

\* A handler on top of the stack is not itself in a callback.
LEMMA TopNotFrozen ==
  ASSUME TypeOK, StackInv, InEvent, Last(stack).call \in Calls
  PROVE  ~Frozen(Last(stack).call)
<1> DEFINE n == Len(stack)
           k == Last(stack).call
<1>1. /\ n \in Nat /\ n # 0
      /\ stack[n] = Last(stack) /\ stack[n].type = "event"
  <2>1. stack \in Seq(Frames) /\ stack # <<>> /\ Last(stack).type = "event"
    BY DEF InEvent, TypeOK
  <2> QED
    BY <2>1, Pop
<1>2. SUFFICES ASSUME Frozen(k) PROVE FALSE
  OBVIOUS
<1>3. PICK j \in 1 .. n : stack[j] = Callback(k)
  <2>1. stack \in Seq(Frames)
    BY DEF TypeOK
  <2>2. DOMAIN stack = 1 .. n
    BY <2>1
  <2> QED
    BY <1>2, <2>2 DEF Frozen, ToSet
<1>4. stack[j].type = "callback" /\ stack[j].call = stack[n].call
  BY <1>1, <1>3, FrameFacts
<1>5. n < j
  BY <1>1, <1>3, <1>4 DEF StackInv
<1> QED
  BY <1>1, <1>3, <1>5

LEMMA DeadlockCause ==
  ASSUME IInv, Deadlock
  PROVE  /\ Last(stack).call \in Calls
         /\ kind[Last(stack).call] \in Statics
         /\ \/ \E k \in Calls : pc[k] = "asking"
            \/ \E k \in Calls : Frozen(k) /\ (lock = k \/ k \in readers)
<1> DEFINE h == Last(stack).call
<1>1. InEvent /\ AllAsleep /\ h # Nobody /\ kind[h] \notin Methods /\ pc[h] # "done"
  BY DEF Deadlock, Returned
<1>2. /\ stack \in Seq(Frames) /\ stack # <<>>
      /\ Last(stack) \in Frames /\ stack[Len(stack)] = Last(stack)
  BY <1>1, Pop DEF IInv, TypeOK, InEvent
<1>3. h \in Calls
  BY <1>1, <1>2 DEF Frames
<1>4. pc[h] # "idle"
  <2>1. Len(stack) \in 1 .. Len(stack)
    BY <1>2
  <2> QED
    BY <1>1, <1>2, <2>1 DEF IInv, StackInv
<1>5. kind[h] \in Statics
  BY <1>1, <1>3, <1>4, RuntimeAssumption DEF IInv, TypeOK, Called
<1>6. ~Frozen(h)
  BY <1>1, <1>3, TopNotFrozen DEF IInv
<1>7. ~Runnable(h)
  BY <1>1, <1>3 DEF AllAsleep
<1>8. CASE pc[h] \in Writing
  BY <1>1, <1>3, <1>5, <1>8, WhoBlocks
<1>9. CASE pc[h] \notin Writing
  <2>1. lock # Nobody /\ lock \in Calls
    <3>1. ~Unlocked
      BY <1>3, <1>4, <1>1, <1>6, <1>7, <1>9 DEF Runnable, Writing
    <3> QED
      BY <3>1 DEF Unlocked, IInv, TypeOK
  <2>2. pc[lock] \in Writing
    BY <2>1 DEF IInv, LockInv
  <2> QED
    BY <1>1, <1>3, <1>5, <2>1, <2>2, WhoBlocks
<1> QED
  BY <1>8, <1>9

LEMMA DeathStep ==
  ASSUME IInv, [Next]_vars
  PROVE  DeathCauses' /\ DeathInv'
<1>1. CASE UNCHANGED vars
  BY <1>1 DEF vars, clientVars, IInv, DeathCauses, DeathInv, Frozen
<1>2. CASE Deadlock
  <2>1. UNCHANGED <<stack, kind, pc, lock, readers, threw>>
    BY <1>2 DEF Deadlock, clientVars
  <2> QED
    BY <1>2, <2>1, DeadlockCause DEF IInv, DeathCauses, DeathInv, Frozen
<1>3. CASE CallbackThrows
  BY <1>3 DEF CallbackThrows, IInv, DeathCauses, DeathInv
<1>4. CASE ~exited' /\ threw' = threw
  BY <1>4 DEF IInv, DeathCauses, DeathInv
<1>5. Return \/ CallbackReturns => ~exited' /\ threw' = threw
  BY DEF Return, CallbackReturns
<1>6. ASSUME NEW k \in Calls, (\E what \in Kinds : Call(k, what)) \/ ServerAnswers(k)
      PROVE  ~exited' /\ threw' = threw
  BY <1>6 DEF Call, JSRuns, ServerAnswers
<1>7. ASSUME NEW k \in Calls, GoStep(k)
      PROVE  ~exited' /\ threw' = threw
  <2>1. CASE SendBegin(k)
    BY <2>1 DEF SendBegin, Runs
  <2>2. CASE ShellLocks(k)
    BY <2>2 DEF ShellLocks, Runs
  <2>3. CASE StartShell(k)
    BY <2>3 DEF StartShell, Runs
  <2>4. CASE ShellStarted(k)
    BY <2>4 DEF ShellStarted, Runs
  <2>5. CASE Relock(k)
    BY <2>5 DEF Relock, Runs
  <2>6. CASE GiveUp(k)
    BY <2>6 DEF GiveUp, Runs
  <2>7. CASE Enqueue(k)
    BY <2>7 DEF Enqueue, Runs
  <2>8. CASE Sent(k)
    BY <2>8 DEF Sent, Runs
  <2>9. CASE Announce(k)
    BY <2>9 DEF Announce, Runs
  <2>10. CASE DisconnectLocks(k)
    BY <2>10 DEF DisconnectLocks, Runs
  <2>11. CASE TearDown(k)
    BY <2>11 DEF TearDown, Runs
  <2>12. CASE Down(k)
    BY <2>12 DEF Down, Runs
  <2> QED
    BY <1>7, <2>1, <2>2, <2>3, <2>4, <2>5, <2>6, <2>7, <2>8, <2>9, <2>10, <2>11, <2>12 DEF GoStep
<1> QED
  BY <1>1, <1>2, <1>3, <1>4, <1>5, <1>6, <1>7 DEF Next

LEMMA NextIInv ==
  ASSUME IInv, [Next]_vars
  PROVE  IInv'
BY TypeStep, LockStep, CalledStep, StackStep, DeathStep DEF IInv

LEMMA Inductive == Spec => []IInv
BY InitIInv, NextIInv, PTL DEF Spec

-----------------------------------------------------------------------------
(* The theorems.                                                            *)

(* Types, and that the server is asked for a shell, and the connection torn *)
(* down, by one call alone under the lock.                                  *)
THEOREM TypeCorrect == Spec => []TypeOK
BY Inductive, PTL DEF IInv

(* Whatever is called, and from whichever callback of whichever call: the   *)
(* program dies of a callback that throws, or of a static function that     *)
(* waits for the server or for the lock of a caller below it.               *)
THEOREM DiesOf == Spec => []DeathCauses
BY Inductive, PTL DEF IInv

(* An application that keeps to the methods of a session and whose          *)
(* callbacks do not throw never loses the Go program, although callbacks    *)
(* run with the lock held and may call any method (main.go:118, :151).      *)
THEOREM MethodsAreSafe ==
  ASSUME Kinds \subseteq Methods, Throwing = FALSE
  PROVE  Spec => []StaysAlive
<1>1. IInv => StaysAlive
  <2> SUFFICES ASSUME IInv, exited PROVE FALSE
    BY DEF StaysAlive
  <2> DEFINE h == Last(stack).call
  <2>1. kind[h] \in Statics
    BY DEF IInv, DeathCauses, DeathInv
  <2>2. kind[h] \in Methods \cup {"none"}
    BY DEF IInv, TypeOK, DeathInv
  <2> QED
    BY <2>1, <2>2 DEF Methods, Statics
<1> QED
  BY <1>1, Inductive, PTL

(* c.mu is held for writing by the call that is between Lock and Unlock,    *)
(* or waits for it with new readers kept out, and for reading by exactly    *)
(* those between RLock and RUnlock: no path through StartShell, Send and    *)
(* Disconnect leaves it locked or unlocks it twice (client.go:293-472).     *)
THEOREM LockIsHeld == Spec => []LockInv
BY Inductive, PTL DEF IInv
================================================================================
