---------------------------- MODULE SSHClientProofs ----------------------------
(***************************************************************************)
(* Theorems about SSHClient, for any set of callers and any capacity of    *)
(* c.stdin.  The inductive invariant IInv says who holds c.mu (LockInv),   *)
(* what holds inside its critical sections (ShellInv, StdinInv), what the  *)
(* notified state implies (StateInv) and where the accepted chunks are     *)
(* (Accounted).  Each part has its own lemma, with one step per action.    *)
(***************************************************************************)
EXTENDS SSHClient, TLAPS

LEMMA InitIInv == Init => IInv
<1> SUFFICES ASSUME Init PROVE IInv
  OBVIOUS
<1>1. TypeOK
  <2>1. pc \in [Callers -> WaitPcs \cup ReaderPcs \cup WriterPcs]
    BY DEF Init, WaitPcs
  <2>2. /\ conn \in BOOLEAN /\ alive \in BOOLEAN /\ session \in BOOLEAN
        /\ shellStarted \in BOOLEAN /\ shellUp \in BOOLEAN
        /\ stdin \in BOOLEAN /\ registered \in BOOLEAN
    BY DEF Init
  <2>3. /\ shells = 0 /\ stdinCloses = 0 /\ queued = 0 /\ accepted = 0 /\ written = 0
        /\ writer = None /\ readers = {} /\ pump = "none" /\ state = "connecting"
    BY DEF Init
  <2> QED
    BY <2>1, <2>2, <2>3, ClientAssumption DEF TypeOK
<1>2. LockInv
  BY ClientAssumption DEF Init, LockInv, ReaderPcs, WriterPcs, LockedPcs
<1>3. ShellInv
  BY DEF Init, ShellInv
<1>4. StdinInv
  BY DEF Init, StdinInv
<1>5. StateInv
  BY DEF Init, StateInv, Published
<1>6. Accounted
  BY DEF Init, Accounted, Held
<1> QED
  BY <1>1, <1>2, <1>3, <1>4, <1>5, <1>6 DEF IInv

-------------------------------------------------------------------------------
(* Types.                                                                   *)

LEMMA TypeStep ==
  ASSUME IInv, Next
  PROVE  TypeOK'
<1> USE DEF IInv, TypeOK, LockedPcs, WaitPcs, ReaderPcs, WriterPcs
<1>1. CASE ConnectDone
  BY <1>1 DEF ConnectDone, mutex, link, shell, pipe
<1>2. CASE LoseConnection
  BY <1>2 DEF LoseConnection, mutex, link, shell, pipe
<1>3. CASE ShellExits
  BY <1>3 DEF ShellExits, mutex, link, shell, pipe
<1>4. CASE PumpStart
  BY <1>4 DEF PumpStart, mutex, link, shell, pipe
<1>5. CASE PumpTake
  BY <1>5, ClientAssumption DEF PumpTake, mutex, link, shell, pipe
<1>6. CASE PumpWrite
  BY <1>6 DEF PumpWrite, mutex, link, shell, pipe
<1>7. CASE PumpExit
  BY <1>7 DEF PumpExit, Drained, mutex, link, shell, pipe
<1>8. ASSUME NEW c \in Callers, Calling(c) \/ Running(c) \/ Waiting(c)
      PROVE  TypeOK'
  <2>1. CASE SendBegin(c)
    BY <2>1 DEF SendBegin, Called, Goto, Announce, RLock, RUnlock, Unlock, mutex, link, shell, pipe
  <2>2. CASE ResizeBegin(c)
    BY <2>2 DEF ResizeBegin, Called, Goto, Announce, RLock, RUnlock, Unlock, mutex, link, shell, pipe
  <2>3. CASE DisconnectBegin(c)
    BY <2>3 DEF DisconnectBegin, Called, Goto, Announce, RLock, RUnlock, Unlock, mutex, link, shell, pipe
  <2>4. CASE ShellAnnounce(c)
    BY <2>4 DEF ShellAnnounce, Goto, Announce, RLock, RUnlock, Unlock, mutex, link, shell, pipe
  <2>5. CASE ShellLock(c)
    BY <2>5 DEF ShellLock, AlreadyStarted, Goto, Announce, RLock, RUnlock, Unlock, mutex, link, shell, pipe
  <2>6. CASE SessionAnswer(c)
    <3>1. session' \in BOOLEAN /\ writer' \in Callers \cup {None} /\ readers' = readers
      BY <2>6 DEF SessionAnswer, Unlock, mutex
    <3>2. pc' \in [Callers -> WaitPcs \cup ReaderPcs \cup WriterPcs]
      BY <2>6 DEF SessionAnswer, Goto
    <3> QED
      BY <2>6, <3>1, <3>2 DEF SessionAnswer, link, pipe
  <2>7. CASE ShellAnswer(c)
    <3>1. shellStarted' \in BOOLEAN /\ shellUp' \in BOOLEAN /\ shells' \in Nat
      <4>1. CASE shellStarted' = TRUE /\ shells' = shells + 1 /\ shellUp' = TRUE
        BY <4>1
      <4>2. CASE UNCHANGED <<shellStarted, shells, shellUp>>
        BY <4>2
      <4> QED
        BY <2>7, <4>1, <4>2 DEF ShellAnswer
    <3>2. pc' \in [Callers -> WaitPcs \cup ReaderPcs \cup WriterPcs]
      BY <2>7 DEF ShellAnswer, Goto
    <3>3. /\ writer' \in Callers \cup {None} /\ readers' = readers
          /\ pump' \in {"none", "spawned", "ranging", "writing", "blocked", "exited"}
      BY <2>7 DEF ShellAnswer, Unlock
    <3> QED
      BY <2>7, <3>1, <3>2, <3>3 DEF ShellAnswer, link
  <2>8. CASE Relock(c)
    BY <2>8 DEF Relock, Goto, Announce, RLock, RUnlock, Unlock, mutex, link, shell, pipe
  <2>9. CASE Enqueue(c)
    BY <2>9, ClientAssumption DEF Enqueue, Room, Rejected, Goto, Announce, RLock, RUnlock, Unlock, mutex, link, shell, pipe
  <2>10. CASE WindowChange(c)
    BY <2>10 DEF WindowChange, Goto, Announce, RLock, RUnlock, Unlock, mutex, link, shell, pipe
  <2>11. CASE DisconnectAnnounce(c)
    BY <2>11 DEF DisconnectAnnounce, Goto, Announce, RLock, RUnlock, Unlock, mutex, link, shell, pipe
  <2>12. CASE CloseStdin(c)
    BY <2>12 DEF CloseStdin, DisconnectLocked, Goto, Announce, RLock, RUnlock, Unlock, mutex, link, shell, pipe
  <2>13. CASE CloseConnection(c)
    BY <2>13 DEF CloseConnection, Goto, Announce, RLock, RUnlock, Unlock, mutex, link, shell, pipe
  <2>14. CASE Report(c)
    BY <2>14 DEF Report, DisconnectUnlocks, Goto, Announce, RLock, RUnlock, Unlock, mutex, link, shell, pipe
  <2>15. CASE SendFails(c)
    BY <2>15 DEF SendFails, Goto, mutex, link, shell, pipe
  <2> QED
    BY <1>8, <2>1, <2>2, <2>3, <2>4, <2>5, <2>6, <2>7, <2>8, <2>9, <2>10, <2>11, <2>12, <2>13, <2>14, <2>15 DEF Calling, Running, Waiting
<1> QED
  BY <1>1, <1>2, <1>3, <1>4, <1>5, <1>6, <1>7, <1>8 DEF Next, Pumping

-------------------------------------------------------------------------------
(* The mutex: who holds it, in which mode.                                  *)

LEMMA LockStep ==
  ASSUME IInv, Next
  PROVE  LockInv'
<1> USE DEF IInv, TypeOK, LockInv, LockedPcs, WaitPcs, ReaderPcs, WriterPcs
<1>1. CASE ConnectDone
  BY <1>1 DEF ConnectDone, mutex
<1>2. CASE LoseConnection
  BY <1>2 DEF LoseConnection, mutex
<1>3. CASE ShellExits
  BY <1>3 DEF ShellExits, mutex
<1>4. CASE PumpStart
  BY <1>4 DEF PumpStart, mutex
<1>5. CASE PumpTake
  BY <1>5 DEF PumpTake, mutex
<1>6. CASE PumpWrite
  BY <1>6 DEF PumpWrite, mutex
<1>7. CASE PumpExit
  BY <1>7 DEF PumpExit, Drained, mutex
<1>8. ASSUME NEW c \in Callers, Calling(c) \/ Running(c) \/ Waiting(c)
      PROVE  LockInv'
  <2>1. CASE SendBegin(c)
    BY <2>1, ClientAssumption DEF SendBegin, Called, Goto, Announce, NoReaders, RLock, RUnlock, Unlock, mutex
  <2>2. CASE ResizeBegin(c)
    BY <2>2, ClientAssumption DEF ResizeBegin, Called, Goto, Announce, NoReaders, RLock, RUnlock, Unlock, mutex
  <2>3. CASE DisconnectBegin(c)
    BY <2>3, ClientAssumption DEF DisconnectBegin, Called, Goto, Announce, NoReaders, RLock, RUnlock, Unlock, mutex
  <2>4. CASE ShellAnnounce(c)
    BY <2>4, ClientAssumption DEF ShellAnnounce, Goto, Announce, NoReaders, RLock, RUnlock, Unlock, mutex
  <2>5. CASE ShellLock(c)
    BY <2>5, ClientAssumption DEF ShellLock, AlreadyStarted, Goto, Announce, NoReaders, RLock, RUnlock, Unlock, mutex
  <2>6. CASE SessionAnswer(c)
    BY <2>6, ClientAssumption DEF SessionAnswer, Goto, Announce, NoReaders, RLock, RUnlock, Unlock, mutex
  <2>7. CASE ShellAnswer(c)
    BY <2>7, ClientAssumption DEF ShellAnswer, Goto, Announce, NoReaders, RLock, RUnlock, Unlock, mutex
  <2>8. CASE Relock(c)
    BY <2>8, ClientAssumption DEF Relock, Goto, Announce, NoReaders, RLock, RUnlock, Unlock, mutex
  <2>9. CASE Enqueue(c)
    BY <2>9, ClientAssumption DEF Enqueue, Room, Rejected, Goto, Announce, NoReaders, RLock, RUnlock, Unlock, mutex
  <2>10. CASE WindowChange(c)
    BY <2>10, ClientAssumption DEF WindowChange, Goto, Announce, NoReaders, RLock, RUnlock, Unlock, mutex
  <2>11. CASE DisconnectAnnounce(c)
    BY <2>11, ClientAssumption DEF DisconnectAnnounce, Goto, Announce, NoReaders, RLock, RUnlock, Unlock, mutex
  <2>12. CASE CloseStdin(c)
    BY <2>12, ClientAssumption DEF CloseStdin, DisconnectLocked, Goto, Announce, NoReaders, RLock, RUnlock, Unlock, mutex
  <2>13. CASE CloseConnection(c)
    BY <2>13, ClientAssumption DEF CloseConnection, Goto, Announce, NoReaders, RLock, RUnlock, Unlock, mutex
  <2>14. CASE Report(c)
    BY <2>14, ClientAssumption DEF Report, DisconnectUnlocks, Goto, Announce, NoReaders, RLock, RUnlock, Unlock, mutex
  <2>15. CASE SendFails(c)
    BY <2>15 DEF SendFails, Goto, mutex
  <2> QED
    BY <1>8, <2>1, <2>2, <2>3, <2>4, <2>5, <2>6, <2>7, <2>8, <2>9, <2>10, <2>11, <2>12, <2>13, <2>14, <2>15 DEF Calling, Running, Waiting
<1> QED
  BY <1>1, <1>2, <1>3, <1>4, <1>5, <1>6, <1>7, <1>8 DEF Next, Pumping

-------------------------------------------------------------------------------
(* c.session, c.shellStarted and the pump under the mutex.                  *)

LEMMA ShellStep ==
  ASSUME IInv, Next
  PROVE  ShellInv'
<1> USE DEF IInv, TypeOK, LockInv, ShellInv, StdinInv, StateInv, Published,
           LockedPcs, WriterPcs, ReaderPcs
<1>1. CASE ConnectDone
  BY <1>1 DEF ConnectDone, link, shell, pipe
<1>2. CASE LoseConnection
  BY <1>2 DEF LoseConnection, link, shell, pipe
<1>3. CASE ShellExits
  BY <1>3 DEF ShellExits, link, shell, pipe
<1>4. CASE PumpStart
  BY <1>4 DEF PumpStart, link, shell, pipe
<1>5. CASE PumpTake
  BY <1>5 DEF PumpTake, link, shell, pipe
<1>6. CASE PumpWrite
  BY <1>6 DEF PumpWrite, link, shell, pipe
<1>7. CASE PumpExit
  BY <1>7 DEF PumpExit, Drained, link, shell, pipe
<1>8. ASSUME NEW c \in Callers, Calling(c) \/ Running(c) \/ Waiting(c)
      PROVE  ShellInv'
  <2>1. CASE SendBegin(c)
    BY <2>1 DEF SendBegin, Called, Goto, link, shell, pipe
  <2>2. CASE ResizeBegin(c)
    BY <2>2 DEF ResizeBegin, Called, Goto, link, shell, pipe
  <2>3. CASE DisconnectBegin(c)
    BY <2>3 DEF DisconnectBegin, Called, Goto, link, shell, pipe
  <2>4. CASE ShellAnnounce(c)
    BY <2>4 DEF ShellAnnounce, Goto, link, shell, pipe
  <2>5. CASE ShellLock(c)
    BY <2>5 DEF ShellLock, AlreadyStarted, Goto, link, shell, pipe
  <2>6. CASE SessionAnswer(c)
    BY <2>6 DEF SessionAnswer, Goto, link, shell, pipe
  <2>7. CASE ShellAnswer(c)
    BY <2>7 DEF ShellAnswer, Goto, link, shell, pipe
  <2>8. CASE Relock(c)
    BY <2>8 DEF Relock, Goto, link, shell, pipe
  <2>9. CASE Enqueue(c)
    BY <2>9 DEF Enqueue, Room, Rejected, Goto, link, shell, pipe
  <2>10. CASE WindowChange(c)
    BY <2>10 DEF WindowChange, Goto, link, shell, pipe
  <2>11. CASE DisconnectAnnounce(c)
    BY <2>11 DEF DisconnectAnnounce, Goto, link, shell, pipe
  <2>12. CASE CloseStdin(c)
    BY <2>12 DEF CloseStdin, DisconnectLocked, Goto, link, shell, pipe
  <2>13. CASE CloseConnection(c)
    BY <2>13 DEF CloseConnection, Goto, link, shell, pipe
  <2>14. CASE Report(c)
    BY <2>14 DEF Report, DisconnectUnlocks, Goto, link, shell, pipe
  <2>15. CASE SendFails(c)
    BY <2>15 DEF SendFails, Goto, link, shell, pipe
  <2> QED
    BY <1>8, <2>1, <2>2, <2>3, <2>4, <2>5, <2>6, <2>7, <2>8, <2>9, <2>10, <2>11, <2>12, <2>13, <2>14, <2>15 DEF Calling, Running, Waiting
<1> QED
  BY <1>1, <1>2, <1>3, <1>4, <1>5, <1>6, <1>7, <1>8 DEF Next, Pumping

-------------------------------------------------------------------------------
(* c.stdin is closed once, and cleared before the mutex is released.        *)

LEMMA StdinStep ==
  ASSUME IInv, Next
  PROVE  StdinInv'
<1> USE DEF IInv, TypeOK, LockInv, ShellInv, StdinInv, StateInv, LockedPcs, WriterPcs, ReaderPcs
<1>1. CASE ConnectDone
  BY <1>1 DEF ConnectDone, link, shell, pipe
<1>2. CASE LoseConnection
  BY <1>2 DEF LoseConnection, link, shell, pipe
<1>3. CASE ShellExits
  BY <1>3 DEF ShellExits, link, shell, pipe
<1>4. CASE PumpStart
  BY <1>4 DEF PumpStart, link, shell, pipe
<1>5. CASE PumpTake
  BY <1>5 DEF PumpTake, link, shell, pipe
<1>6. CASE PumpWrite
  BY <1>6 DEF PumpWrite, link, shell, pipe
<1>7. CASE PumpExit
  BY <1>7 DEF PumpExit, Drained, link, shell, pipe
<1>8. ASSUME NEW c \in Callers, Calling(c) \/ Running(c) \/ Waiting(c)
      PROVE  StdinInv'
  <2>1. CASE SendBegin(c)
    BY <2>1 DEF SendBegin, Called, Goto, link, shell, pipe
  <2>2. CASE ResizeBegin(c)
    BY <2>2 DEF ResizeBegin, Called, Goto, link, shell, pipe
  <2>3. CASE DisconnectBegin(c)
    BY <2>3 DEF DisconnectBegin, Called, Goto, link, shell, pipe
  <2>4. CASE ShellAnnounce(c)
    BY <2>4 DEF ShellAnnounce, Goto, link, shell, pipe
  <2>5. CASE ShellLock(c)
    BY <2>5 DEF ShellLock, AlreadyStarted, Goto, link, shell, pipe
  <2>6. CASE SessionAnswer(c)
    BY <2>6 DEF SessionAnswer, Goto, link, shell, pipe
  <2>7. CASE ShellAnswer(c)
    BY <2>7 DEF ShellAnswer, Goto, link, shell, pipe
  <2>8. CASE Relock(c)
    BY <2>8 DEF Relock, Goto, link, shell, pipe
  <2>9. CASE Enqueue(c)
    BY <2>9 DEF Enqueue, Room, Rejected, Goto, link, shell, pipe
  <2>10. CASE WindowChange(c)
    BY <2>10 DEF WindowChange, Goto, link, shell, pipe
  <2>11. CASE DisconnectAnnounce(c)
    BY <2>11 DEF DisconnectAnnounce, Goto, link, shell, pipe
  <2>12. CASE CloseStdin(c)
    BY <2>12 DEF CloseStdin, DisconnectLocked, Goto, link, shell, pipe
  <2>13. CASE CloseConnection(c)
    BY <2>13 DEF CloseConnection, Goto, link, shell, pipe
  <2>14. CASE Report(c)
    BY <2>14 DEF Report, DisconnectUnlocks, Goto, link, shell, pipe
  <2>15. CASE SendFails(c)
    BY <2>15 DEF SendFails, Goto, link, shell, pipe
  <2> QED
    BY <1>8, <2>1, <2>2, <2>3, <2>4, <2>5, <2>6, <2>7, <2>8, <2>9, <2>10, <2>11, <2>12, <2>13, <2>14, <2>15 DEF Calling, Running, Waiting
<1> QED
  BY <1>1, <1>2, <1>3, <1>4, <1>5, <1>6, <1>7, <1>8 DEF Next, Pumping

-------------------------------------------------------------------------------
(* What the last notified state implies.                                    *)

LEMMA StateStep ==
  ASSUME IInv, Next
  PROVE  StateInv'
<1> USE DEF IInv, TypeOK, LockInv, StdinInv, StateInv, Published
<1>1. CASE ConnectDone
  BY <1>1 DEF ConnectDone, link, shell, pipe
<1>2. CASE LoseConnection
  BY <1>2 DEF LoseConnection, link, shell, pipe
<1>3. CASE ShellExits
  BY <1>3 DEF ShellExits, link, shell, pipe
<1>4. CASE PumpStart
  BY <1>4 DEF PumpStart, link, shell, pipe
<1>5. CASE PumpTake
  BY <1>5 DEF PumpTake, link, shell, pipe
<1>6. CASE PumpWrite
  BY <1>6 DEF PumpWrite, link, shell, pipe
<1>7. CASE PumpExit
  BY <1>7 DEF PumpExit, Drained, link, shell, pipe
<1>8. ASSUME NEW c \in Callers, Calling(c) \/ Running(c) \/ Waiting(c)
      PROVE  StateInv'
  <2>1. CASE SendBegin(c)
    BY <2>1 DEF SendBegin, Called, Goto, link, shell, pipe
  <2>2. CASE ResizeBegin(c)
    BY <2>2 DEF ResizeBegin, Called, Goto, link, shell, pipe
  <2>3. CASE DisconnectBegin(c)
    BY <2>3 DEF DisconnectBegin, Called, Goto, link, shell, pipe
  <2>4. CASE ShellAnnounce(c)
    BY <2>4 DEF ShellAnnounce, Goto, link, shell, pipe
  <2>5. CASE ShellLock(c)
    BY <2>5 DEF ShellLock, AlreadyStarted, Goto, link, shell, pipe
  <2>6. CASE SessionAnswer(c)
    BY <2>6 DEF SessionAnswer, Goto, link, shell, pipe
  <2>7. CASE ShellAnswer(c)
    BY <2>7 DEF ShellAnswer, Goto, link, shell, pipe
  <2>8. CASE Relock(c)
    BY <2>8 DEF Relock, Goto, link, shell, pipe
  <2>9. CASE Enqueue(c)
    BY <2>9 DEF Enqueue, Room, Rejected, Goto, link, shell, pipe
  <2>10. CASE WindowChange(c)
    BY <2>10 DEF WindowChange, Goto, link, shell, pipe
  <2>11. CASE DisconnectAnnounce(c)
    BY <2>11 DEF DisconnectAnnounce, Goto, link, shell, pipe
  <2>12. CASE CloseStdin(c)
    BY <2>12 DEF CloseStdin, DisconnectLocked, Goto, link, shell, pipe
  <2>13. CASE CloseConnection(c)
    BY <2>13 DEF CloseConnection, Goto, link, shell, pipe
  <2>14. CASE Report(c)
    BY <2>14 DEF Report, DisconnectUnlocks, Goto, link, shell, pipe
  <2>15. CASE SendFails(c)
    BY <2>15 DEF SendFails, Goto, link, shell, pipe
  <2> QED
    BY <1>8, <2>1, <2>2, <2>3, <2>4, <2>5, <2>6, <2>7, <2>8, <2>9, <2>10, <2>11, <2>12, <2>13, <2>14, <2>15 DEF Calling, Running, Waiting
<1> QED
  BY <1>1, <1>2, <1>3, <1>4, <1>5, <1>6, <1>7, <1>8 DEF Next, Pumping

-------------------------------------------------------------------------------
(* Every accepted chunk is in one place.                                    *)

LEMMA AccountStep ==
  ASSUME IInv, Next
  PROVE  Accounted'
<1> USE DEF IInv, TypeOK, ShellInv, StdinInv, Accounted, Held
<1>1. CASE ConnectDone
  BY <1>1 DEF ConnectDone, link, shell, pipe
<1>2. CASE LoseConnection
  BY <1>2 DEF LoseConnection, link, shell, pipe
<1>3. CASE ShellExits
  BY <1>3 DEF ShellExits, link, shell, pipe
<1>4. CASE PumpStart
  BY <1>4 DEF PumpStart, link, shell, pipe
<1>5. CASE PumpTake
  BY <1>5 DEF PumpTake, link, shell, pipe
<1>6. CASE PumpWrite
  BY <1>6 DEF PumpWrite, link, shell, pipe
<1>7. CASE PumpExit
  BY <1>7 DEF PumpExit, Drained, link, shell, pipe
<1>8. ASSUME NEW c \in Callers, Calling(c) \/ Running(c) \/ Waiting(c)
      PROVE  Accounted'
  <2>1. CASE SendBegin(c)
    BY <2>1 DEF SendBegin, Called, link, shell, pipe
  <2>2. CASE ResizeBegin(c)
    BY <2>2 DEF ResizeBegin, Called, link, shell, pipe
  <2>3. CASE DisconnectBegin(c)
    BY <2>3 DEF DisconnectBegin, Called, link, shell, pipe
  <2>4. CASE ShellAnnounce(c)
    BY <2>4 DEF ShellAnnounce, link, shell, pipe
  <2>5. CASE ShellLock(c)
    BY <2>5 DEF ShellLock, AlreadyStarted, link, shell, pipe
  <2>6. CASE SessionAnswer(c)
    BY <2>6 DEF SessionAnswer, link, shell, pipe
  <2>7. CASE ShellAnswer(c)
    BY <2>7 DEF ShellAnswer, link, shell, pipe
  <2>8. CASE Relock(c)
    BY <2>8 DEF Relock, link, shell, pipe
  <2>9. CASE Enqueue(c)
    BY <2>9 DEF Enqueue, Room, Rejected, link, shell, pipe
  <2>10. CASE WindowChange(c)
    BY <2>10 DEF WindowChange, link, shell, pipe
  <2>11. CASE DisconnectAnnounce(c)
    BY <2>11 DEF DisconnectAnnounce, link, shell, pipe
  <2>12. CASE CloseStdin(c)
    BY <2>12 DEF CloseStdin, DisconnectLocked, link, shell, pipe
  <2>13. CASE CloseConnection(c)
    BY <2>13 DEF CloseConnection, link, shell, pipe
  <2>14. CASE Report(c)
    BY <2>14 DEF Report, DisconnectUnlocks, link, shell, pipe
  <2>15. CASE SendFails(c)
    BY <2>15 DEF SendFails, link, shell, pipe
  <2> QED
    BY <1>8, <2>1, <2>2, <2>3, <2>4, <2>5, <2>6, <2>7, <2>8, <2>9, <2>10, <2>11, <2>12, <2>13, <2>14, <2>15 DEF Calling, Running, Waiting
<1> QED
  BY <1>1, <1>2, <1>3, <1>4, <1>5, <1>6, <1>7, <1>8 DEF Next, Pumping

-------------------------------------------------------------------------------
LEMMA NextIInv == IInv /\ [Next]_vars => IInv'
<1> SUFFICES ASSUME IInv, [Next]_vars PROVE IInv'
  OBVIOUS
<1>1. CASE Next
  BY <1>1, TypeStep, LockStep, ShellStep, StdinStep, StateStep, AccountStep DEF IInv
<1>2. CASE UNCHANGED vars
  BY <1>2 DEF vars, mutex, link, shell, pipe, IInv, TypeOK, LockInv, ShellInv, StdinInv,
              StateInv, Accounted, Held, Published
<1> QED
  BY <1>1, <1>2

\* The inductive invariant holds in every reachable state.
THEOREM Invariant == Spec => []IInv
BY InitIInv, NextIInv, PTL DEF Spec

\* Every variable keeps its type, the channel its capacity.
THEOREM TypeCorrect == Spec => []TypeOK
<1>1. IInv => TypeOK
  BY DEF IInv
<1> QED
  BY <1>1, Invariant, PTL

\* Any number of goroutines calling Send, ResizeTerminal and Disconnect in any
\* interleaving: no send on a closed channel, no use of a nil session, c.stdin
\* closed at most once, the shell started at most once.
THEOREM NeverPanics == Spec => []NoPanic
<1>1. IInv => NoPanic
  BY DEF IInv, TypeOK, LockInv, ShellInv, StdinInv, NoPanic, ReaderPcs, WriterPcs, LockedPcs
<1> QED
  BY <1>1, Invariant, PTL

\* "disconnected" is the truth: nothing of the connection is left behind, and
\* no call that was under way brings it back.
THEOREM DisconnectedIsTornDown == Spec => []TornDown
<1>1. IInv => TornDown
  BY DEF IInv, ShellInv, StdinInv, StateInv, TornDown
<1> QED
  BY <1>1, Invariant, PTL

\* A chunk that Send accepted is in the channel, being written or written as
\* long as the shell is up.
THEOREM NothingInvented == Spec => []Accounted
<1>1. IInv => Accounted
  BY DEF IInv
<1> QED
  BY <1>1, Invariant, PTL
===============================================================================
