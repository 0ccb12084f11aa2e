----------------------------- MODULE SessionProofs -----------------------------
(***************************************************************************)
(* Theorems about Session, for any set of calls and ids, however the calls *)
(* share ids: the transport of each call is closed when the call is over,  *)
(* and no client is left over a transport that is out of reach.  IInv says *)
(* that the two registries agree and file every transport under its own id *)
(* (Filed), and that a transport which is not closed is found under its id *)
(* unless the id was taken from it (Kept), on which the clean-up of every  *)
(* call rests (Progress).                                                  *)
(***************************************************************************)
EXTENDS Session, TLAPS

Live == {"opening", "handshake", "established"}

\* Both registries hold the same transport under an id, and it has that id.
Filed ==
  /\ jsTransports = goTransports
  /\ \A i \in Ids : goTransports[i] # None => IdOf[goTransports[i]] = i

\* A transport has its socket from the beginning and nobody finds it earlier, a
\* closed one has a closed socket, and an open one is found by its id.
KeptOf(c) ==
  /\ (pipe[c] = "none") <=> (socket[c] = "none")
  /\ pipe[c] = "closed" => socket[c] = "closed"
  /\ pipe[c] = "open" => goTransports[IdOf[c]] = c \/ c \in replaced
  /\ pipe[c] = "none" => goTransports[IdOf[c]] # c /\ \A d \in Calls : uses[d] # c

Kept == \A c \in Calls : KeptOf(c)

\* The socket was never opened, is closed, or is out of the call's reach.
Gone(c) == socket[c] \in {"none", "closed"} \/ c \in replaced

\* How far each call is with its transport.
ProgressOf(c) ==
  /\ pc[c] = "new" => pipe[c] = "none"
  /\ pc[c] \in Live => pipe[c] # "none"
  /\ pc[c] \in {"handshake", "established"} =>
       IdOf[uses[c]] = IdOf[c] /\ (uses[c] = c \/ c \in replaced)
  /\ pc[c] \in Over \cup {"awaiting"} => Gone(c)
  /\ pc[c] = "ended" => goTransports[IdOf[c]] # c

Progress == \A c \in Calls : ProgressOf(c)

IInv == TypeOK /\ Filed /\ Kept /\ Progress

\* What one call does; Next is a step of some call.
CallStep(c) ==
  \/ RejectWithoutPin(c) \/ Begin(c)
  \/ Opening(c) \/ Handshake(c) \/ Closing(c) \/ ClosingAgain(c)
  \/ SocketDrops(c)
  \/ Disconnect(c) \/ DisconnectById(c) \/ DisconnectAgain(c)

LEMMA InitIInv == Init => IInv
BY CallsAssumption
DEF Init, IInv, TypeOK, Filed, Kept, KeptOf, Progress, ProgressOf, Gone, Live, Over

-------------------------------------------------------------------------------
(* Types.                                                                   *)

LEMMA TypeStep ==
  ASSUME IInv, NEW c \in Calls, CallStep(c)
  PROVE  TypeOK'
<1> USE CallsAssumption DEF IInv, TypeOK, Progress, ProgressOf, Live, Over
<1>1. CASE RejectWithoutPin(c)
  BY <1>1 DEF RejectWithoutPin, Settle, Goto, registries
<1>2. CASE Begin(c)
  BY <1>2 DEF Begin, GoCreate, Goto, Overwritten
<1>3. CASE SocketOpens(c)
  BY <1>3 DEF SocketOpens, LookUp, GiveUp, Settle, Goto, registries
<1>4. CASE SocketFails(c)
  BY <1>4 DEF SocketFails, Closed, Settle, Goto, registries
<1>5. CASE SocketDrops(c)
  BY <1>5 DEF SocketDrops, Closed, registries
<1>6. CASE KeyRejected(c)
  BY <1>6 DEF KeyRejected, GiveUp, Settle, Goto, registries
<1>7. CASE HandshakeSucceeds(c)
  BY <1>7 DEF HandshakeSucceeds, Answered, Settle, Goto, registries
<1>8. CASE FingerprintCaptured(c)
  BY <1>8 DEF FingerprintCaptured, Answered, Aborted, ClosePipe, Closed, Settle, Goto, registries
<1>9. CASE HandshakeFails(c)
  BY <1>9 DEF HandshakeFails, Aborted, ClosePipe, Closed, GiveUp, Settle, Goto, registries
<1>10. CASE Disconnect(c)
  BY <1>10 DEF Disconnect, ClosePipe, Closed, Goto, registries
<1>11. CASE DisconnectById(c)
  BY <1>11 DEF DisconnectById, ClosePipe, Closed, Goto, registries
<1>12. CASE DisconnectAgain(c)
  BY <1>12 DEF DisconnectAgain, registries
<1>13. CASE CloseBegin(c)
  BY <1>13 DEF CloseBegin, StartClose, Closed, Goto, registries
<1>14. CASE CloseEnd(c)
  BY <1>14 DEF CloseEnd, Disconnected, FinishClose, GoClose, WithoutGo, ClosePipe, Closed, Goto
<1>15. CASE AgainBegin(c)
  BY <1>15 DEF AgainBegin, StartClose, Closed, registries
<1>16. CASE AgainEnd(c)
  BY <1>16 DEF AgainEnd, FinishClose, GoClose, WithoutGo, ClosePipe, Closed
<1> QED
  BY <1>1, <1>2, <1>3, <1>4, <1>5, <1>6, <1>7, <1>8, <1>9, <1>10, <1>11, <1>12, <1>13, <1>14, <1>15, <1>16
  DEF CallStep, Opening, Handshake, Closing, ClosingAgain

-------------------------------------------------------------------------------
(* The registries.                                                          *)

LEMMA FiledStep ==
  ASSUME IInv, NEW c \in Calls, CallStep(c)
  PROVE  Filed'
<1> USE CallsAssumption DEF IInv, TypeOK, Filed
<1>1. CASE RejectWithoutPin(c)
  BY <1>1 DEF RejectWithoutPin, Settle, Goto, registries
<1>2. CASE Begin(c)
  BY <1>2 DEF Begin, GoCreate, Goto, Overwritten
<1>3. CASE SocketOpens(c)
  BY <1>3 DEF SocketOpens, LookUp, GiveUp, Settle, Goto, registries
<1>4. CASE SocketFails(c)
  BY <1>4 DEF SocketFails, Closed, Settle, Goto, registries
<1>5. CASE SocketDrops(c)
  BY <1>5 DEF SocketDrops, Closed, registries
<1>6. CASE KeyRejected(c)
  BY <1>6 DEF KeyRejected, GiveUp, Settle, Goto, registries
<1>7. CASE HandshakeSucceeds(c)
  BY <1>7 DEF HandshakeSucceeds, Answered, Settle, Goto, registries
<1>8. CASE FingerprintCaptured(c)
  BY <1>8 DEF FingerprintCaptured, Answered, Aborted, ClosePipe, Closed, Settle, Goto, registries
<1>9. CASE HandshakeFails(c)
  BY <1>9 DEF HandshakeFails, Aborted, ClosePipe, Closed, GiveUp, Settle, Goto, registries
<1>10. CASE Disconnect(c)
  BY <1>10 DEF Disconnect, ClosePipe, Closed, Goto, registries
<1>11. CASE DisconnectById(c)
  BY <1>11 DEF DisconnectById, ClosePipe, Closed, Goto, registries
<1>12. CASE DisconnectAgain(c)
  BY <1>12 DEF DisconnectAgain, registries
<1>13. CASE CloseBegin(c)
  BY <1>13 DEF CloseBegin, StartClose, Closed, Goto, registries
<1>14. CASE CloseEnd(c)
  BY <1>14 DEF CloseEnd, Disconnected, FinishClose, GoClose, WithoutGo, ClosePipe, Closed, Goto
<1>15. CASE AgainBegin(c)
  BY <1>15 DEF AgainBegin, StartClose, Closed, registries
<1>16. CASE AgainEnd(c)
  BY <1>16 DEF AgainEnd, FinishClose, GoClose, WithoutGo, ClosePipe, Closed
<1> QED
  BY <1>1, <1>2, <1>3, <1>4, <1>5, <1>6, <1>7, <1>8, <1>9, <1>10, <1>11, <1>12, <1>13, <1>14, <1>15, <1>16
  DEF CallStep, Opening, Handshake, Closing, ClosingAgain

-------------------------------------------------------------------------------
(* The transports.                                                          *)

LEMMA KeptStep ==
  ASSUME IInv, NEW c \in Calls, CallStep(c)
  PROVE  Kept'
<1> USE CallsAssumption DEF IInv, TypeOK, Filed, Kept, KeptOf, Progress, ProgressOf
<1>1. CASE RejectWithoutPin(c)
  BY <1>1 DEF RejectWithoutPin, Settle, Goto, registries
<1>2. CASE Begin(c)
  BY <1>2 DEF Begin, GoCreate, Goto, Overwritten
<1>3. CASE SocketOpens(c)
  BY <1>3 DEF SocketOpens, LookUp, GiveUp, Settle, Goto, registries
<1>4. CASE SocketFails(c)
  BY <1>4 DEF SocketFails, Closed, Settle, Goto, registries
<1>5. CASE SocketDrops(c)
  BY <1>5 DEF SocketDrops, Closed, registries
<1>6. CASE KeyRejected(c)
  BY <1>6 DEF KeyRejected, GiveUp, Settle, Goto, registries
<1>7. CASE HandshakeSucceeds(c)
  BY <1>7 DEF HandshakeSucceeds, Answered, Settle, Goto, registries
<1>8. CASE FingerprintCaptured(c)
  BY <1>8 DEF FingerprintCaptured, Answered, Aborted, ClosePipe, Closed, Settle, Goto, registries
<1>9. CASE HandshakeFails(c)
  BY <1>9 DEF HandshakeFails, Aborted, ClosePipe, Closed, GiveUp, Settle, Goto, registries
<1>10. CASE Disconnect(c)
  BY <1>10 DEF Disconnect, ClosePipe, Closed, Goto, registries
<1>11. CASE DisconnectById(c)
  BY <1>11 DEF DisconnectById, ClosePipe, Closed, Goto, registries
<1>12. CASE DisconnectAgain(c)
  BY <1>12 DEF DisconnectAgain, registries
<1>13. CASE CloseBegin(c)
  BY <1>13 DEF CloseBegin, StartClose, Closed, Goto, registries
<1>14. CASE CloseEnd(c)
  BY <1>14 DEF CloseEnd, Disconnected, FinishClose, GoClose, WithoutGo, ClosePipe, Closed, Goto
<1>15. CASE AgainBegin(c)
  BY <1>15 DEF AgainBegin, StartClose, Closed, registries
<1>16. CASE AgainEnd(c)
  BY <1>16 DEF AgainEnd, FinishClose, GoClose, WithoutGo, ClosePipe, Closed
<1> QED
  BY <1>1, <1>2, <1>3, <1>4, <1>5, <1>6, <1>7, <1>8, <1>9, <1>10, <1>11, <1>12, <1>13, <1>14, <1>15, <1>16
  DEF CallStep, Opening, Handshake, Closing, ClosingAgain

-------------------------------------------------------------------------------
(* The calls.                                                               *)

LEMMA ProgressStep ==
  ASSUME IInv, NEW c \in Calls, CallStep(c)
  PROVE  Progress'
<1> USE CallsAssumption DEF IInv, TypeOK, Filed, Kept, KeptOf, Progress, ProgressOf, Gone, Live, Over
<1>1. CASE RejectWithoutPin(c)
  BY <1>1 DEF RejectWithoutPin, Settle, Goto, registries
<1>2. CASE Begin(c)
  BY <1>2 DEF Begin, GoCreate, Goto, Overwritten
<1>3. CASE SocketOpens(c)
  BY <1>3 DEF SocketOpens, LookUp, GiveUp, Settle, Goto, registries
<1>4. CASE SocketFails(c)
  BY <1>4 DEF SocketFails, Closed, Settle, Goto, registries
<1>5. CASE SocketDrops(c)
  BY <1>5 DEF SocketDrops, Closed, registries
<1>6. CASE KeyRejected(c)
  BY <1>6 DEF KeyRejected, GiveUp, Settle, Goto, registries
<1>7. CASE HandshakeSucceeds(c)
  BY <1>7 DEF HandshakeSucceeds, Answered, Settle, Goto, registries
<1>8. CASE FingerprintCaptured(c)
  BY <1>8 DEF FingerprintCaptured, Answered, Aborted, ClosePipe, Closed, Settle, Goto, registries
<1>9. CASE HandshakeFails(c)
  BY <1>9 DEF HandshakeFails, Aborted, ClosePipe, Closed, GiveUp, Settle, Goto, registries
<1>10. CASE Disconnect(c)
  BY <1>10 DEF Disconnect, ClosePipe, Closed, Goto, registries
<1>11. CASE DisconnectById(c)
  BY <1>11 DEF DisconnectById, ClosePipe, Closed, Goto, registries
<1>12. CASE DisconnectAgain(c)
  BY <1>12 DEF DisconnectAgain, registries
<1>13. CASE CloseBegin(c)
  BY <1>13 DEF CloseBegin, StartClose, Closed, Goto, registries
<1>14. CASE CloseEnd(c)
  BY <1>14 DEF CloseEnd, Disconnected, FinishClose, GoClose, WithoutGo, ClosePipe, Closed, Goto
<1>15. CASE AgainBegin(c)
  BY <1>15 DEF AgainBegin, StartClose, Closed, registries
<1>16. CASE AgainEnd(c)
  BY <1>16 DEF AgainEnd, FinishClose, GoClose, WithoutGo, ClosePipe, Closed
<1> QED
  BY <1>1, <1>2, <1>3, <1>4, <1>5, <1>6, <1>7, <1>8, <1>9, <1>10, <1>11, <1>12, <1>13, <1>14, <1>15, <1>16
  DEF CallStep, Opening, Handshake, Closing, ClosingAgain

LEMMA NextIInv ==
  ASSUME IInv, [Next]_vars
  PROVE  IInv'
<1>1. CASE UNCHANGED vars
  BY <1>1 DEF vars, registries, IInv, TypeOK, Filed, Kept, KeptOf, Progress, ProgressOf, Gone
<1>2. ASSUME NEW c \in Calls, CallStep(c)
      PROVE  IInv'
  BY <1>2, TypeStep, FiledStep, KeptStep, ProgressStep DEF IInv
<1> QED
  BY <1>1, <1>2 DEF Next, CallStep

LEMMA Inductive == Spec => []IInv
BY InitIInv, NextIInv, PTL DEF Spec

-------------------------------------------------------------------------------
(* The theorems.                                                            *)

(* Types; a call that runs over a transport has found one, and a caller has *)
(* its answer just when its call is past the handshake.                     *)
THEOREM TypeCorrect == Spec => []TypeOK
BY Inductive, PTL DEF IInv

(* However many calls there are, in which order they run, repeat their      *)
(* disconnect() or fail, and whichever of them share an id, the socket of a *)
(* call that is over is closed, unless its id was taken (index.ts:349).     *)
THEOREM SocketsClosed == Spec => []NoSocketLeak
<1>1. IInv => NoSocketLeak
  BY DEF IInv, Progress, ProgressOf, Gone, NoSocketLeak
<1> QED
  BY <1>1, Inductive, PTL

(* A client runs over a transport of its id, and over the one its caller    *)
(* passed unless the id was taken from it; a call that closed its transport *)
(* is registered nowhere (transport.ts:222-231).                            *)
THEOREM CallsIsolated == Spec => []Isolated
<1>1. IInv => Isolated
  BY DEF IInv, Filed, Progress, ProgressOf, Isolated
<1> QED
  BY <1>1, Inductive, PTL

(* A client whose transport is no longer registered, because another call   *)
(* or a repeated disconnect() closed it by its id, has had its pipe and its *)
(* socket closed, so its Read ends; only a transport whose id was taken     *)
(* stays open unregistered (transport.ts:222-231, transport.go:198-214).    *)
THEOREM NobodyLeftDeaf == Spec => []NeverDeaf
<1>1. IInv => NeverDeaf
  <2>1. ASSUME IInv, NEW c \in Calls, pc[c] \in {"handshake", "established"}, c \notin replaced
        PROVE  \/ jsTransports[IdOf[c]] = c /\ goTransports[IdOf[c]] = c
               \/ pipe[c] = "closed" /\ socket[c] = "closed"
    <3>1. pipe[c] \in {"open", "closed"}
      BY <2>1 DEF IInv, TypeOK, Progress, ProgressOf, Live
    <3>2. CASE pipe[c] = "open"
      BY <2>1, <3>2 DEF IInv, Filed, Kept, KeptOf
    <3>3. CASE pipe[c] = "closed"
      BY <2>1, <3>3 DEF IInv, Kept, KeptOf
    <3> QED
      BY <3>1, <3>2, <3>3
  <2> QED
    BY <2>1 DEF NeverDeaf
<1> QED
  BY <1>1, Inductive, PTL

(* The Map in TypeScript and the map in Go never differ between two steps,  *)
(* although each is written by code of its own, and file a transport under  *)
(* its id (transport.ts:219-231, transport.go:195-214).                     *)
THEOREM RegistriesAgree == Spec => []Filed
BY Inductive, PTL DEF IInv
================================================================================
