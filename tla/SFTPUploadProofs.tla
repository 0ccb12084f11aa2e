--------------------------- MODULE SFTPUploadProofs ---------------------------
(***************************************************************************)
(* SFTPUpload implements AtomicFile, for any set of uploads.  The          *)
(* inductive invariant speaks of one upload at a time (UploadInv); Frame   *)
(* says that a step of one upload leaves those of the others alone.        *)
(***************************************************************************)
EXTENDS SFTPUpload, TLAPS

\* What one upload does not see of a step of another one.
LEMMA Frame ==
  ASSUME NEW q, UploadInv(q),
         pc'[q] = pc[q], writeOk'[q] = writeOk[q], answer'[q] = answer[q], tmp'[q] = tmp[q],
         q \in installed' <=> q \in installed,
         q \in keepsTmp' <=> q \in keepsTmp,
         \A op \in Ops : <<q, op>> \in requests' <=> <<q, op>> \in requests,
         link' => link
  PROVE  UploadInv(q)'
BY DEF UploadInv, Ops, Renames

LEMMA InitIInv == Init => IInv
<1> SUFFICES ASSUME Init PROVE IInv
  OBVIOUS
<1>1. TypeOK
  <2>1. /\ pc \in [Puts -> {"new", "lookup"} \cup Ops \cup Ends]
        /\ writeOk \in [Puts -> BOOLEAN]
        /\ answer \in [Puts -> {"none", "ok", "error"}]
        /\ tmp \in [Puts -> {"absent", "partial", "whole"}]
    BY DEF Init
  <2>2. target \in [of : Puts \cup {Before}, whole : BOOLEAN]
    BY DEF Init
  <2>3. registered \in BOOLEAN /\ handleClosed \in BOOLEAN /\ link \in BOOLEAN
    BY DEF Init
  <2>4. requests = {} /\ installed = {} /\ keepsTmp = {} /\ closing = "no"
    BY DEF Init
  <2> QED
    BY <2>1, <2>2, <2>3, <2>4 DEF TypeOK
<1>2. target.whole
  BY DEF Init
<1>3. \A p \in Puts : UploadInv(p)
  BY DEF Init, UploadInv, Ops, Renames
<1> QED
  BY <1>1, <1>2, <1>3 DEF IInv

-------------------------------------------------------------------------------
(* The server: only the tmp, target and history of the upload it serves.   *)

LEMMA ServeIInv ==
  ASSUME IInv, NEW p \in Puts, NEW op \in Ops, Serve(p, op)
  PROVE  IInv'
<1> USE DEF IInv
<1>1. /\ <<p, op>> \in requests
      /\ requests' = requests \ {<<p, op>>}
      /\ UNCHANGED <<pc, writeOk, session>>
  BY DEF Serve
<1>2. \A o \in Ops : <<p, o>> \in requests => o = op
  BY <1>1 DEF TypeOK
<1>3. \A o \in Ops : <<p, o>> \notin requests'
  BY <1>1, <1>2
<1>4. \A q \in Puts \ {p}, o \in Ops : <<q, o>> \in requests' <=> <<q, o>> \in requests
  BY <1>1
<1>5. requests' \subseteq (Puts \X Ops) /\ \A r, s \in requests' : r[1] = s[1] => r = s
  BY <1>1 DEF TypeOK
<1>6. UNCHANGED <<registered, handleClosed, closing, link>>
  BY <1>1 DEF session
<1>7. CASE /\ Executes(p, op)
           /\ answer' = IF pc[p] = op THEN [answer EXCEPT ![p] = "ok"] ELSE answer
  <2>1. op # "create" => tmp[p] # "absent"
    BY <1>7 DEF Executes
  <2>2. /\ tmp' \in [Puts -> {"absent", "partial", "whole"}]
        /\ \A q \in Puts \ {p} : tmp'[q] = tmp[q]
        /\ op = "create" => tmp'[p] = "partial"
        /\ op = "write" => tmp'[p] = "whole"
        /\ op \in Renames \cup {"remove"} => tmp'[p] = "absent"
        /\ op = "close" => tmp'[p] = tmp[p]
    BY <1>7 DEF Executes, Effect, TypeOK, Renames, Ops
  <2>3. answer' \in [Puts -> {"none", "ok", "error"}] /\ \A q \in Puts \ {p} : answer'[q] = answer[q]
    BY <1>7 DEF TypeOK
  <2>4. pc[p] = op => answer'[p] = "ok"
    BY <1>7 DEF TypeOK
  <2>5. pc[p] # op => answer'[p] = answer[p] /\ ~link
    BY <1>1, <1>7 DEF UploadInv
  <2>6. CASE op \in Renames
    <3>1. tmp[p] = "whole" /\ p \notin installed
      BY <1>1, <2>6 DEF UploadInv
    <3>2. target' = [of |-> p, whole |-> TRUE] /\ installed' = installed \cup {p} /\ keepsTmp' = keepsTmp
      BY <1>7, <2>6, <3>1 DEF Executes, Effect
    <3>3. target' \in [of : Puts \cup {Before}, whole : BOOLEAN]
      BY <3>2
    <3>4. TypeOK'
      BY <1>1, <1>5, <1>6, <2>2, <2>3, <3>2, <3>3 DEF TypeOK
    <3>5. ASSUME NEW q \in Puts, q # p PROVE UploadInv(q)'
      BY <1>1, <1>4, <1>6, <2>2, <2>3, <3>2, <3>5, Frame
    <3>6. UploadInv(p)'
      <4>1. pc[p] \notin {"new", "lookup", "create", "write", "close", "untyped"}
        BY <1>1, <2>6 DEF UploadInv
      <4>2. p \in installed' /\ pc' = pc /\ link' = link
        BY <1>1, <1>6, <3>2
      <4>3. link => pc[p] = op
        BY <2>5
      <4> QED
        BY <1>3, <2>4, <2>6, <4>1, <4>2, <4>3 DEF UploadInv, Renames, Ops
    <3> QED
      BY <3>2, <3>4, <3>5, <3>6
  <2>7. CASE op \notin Renames
    <3>1. UNCHANGED <<target, installed, keepsTmp>>
      BY <1>7, <2>7 DEF Executes, Effect
    <3>2. TypeOK'
      BY <1>1, <1>5, <1>6, <2>2, <2>3, <3>1 DEF TypeOK
    <3>3. ASSUME NEW q \in Puts, q # p PROVE UploadInv(q)'
      BY <1>1, <1>4, <1>6, <2>2, <2>3, <3>1, <3>3, Frame
    <3>4. UploadInv(p)'
      <4>1. pc[p] \notin {"new", "lookup"}
        BY <1>1 DEF UploadInv
      <4>2. pc' = pc /\ link' = link /\ writeOk' = writeOk
        BY <1>1, <1>6
      <4>3. CASE pc[p] = op
        BY <1>3, <2>2, <2>4, <2>7, <3>1, <4>1, <4>2, <4>3 DEF UploadInv, Renames, Ops, TypeOK
      <4>4. CASE pc[p] # op
        BY <1>3, <2>5, <3>1, <4>1, <4>2, <4>4 DEF UploadInv, Renames, Ops
      <4> QED
        BY <4>3, <4>4
    <3> QED
      BY <3>1, <3>2, <3>3, <3>4
  <2> QED
    BY <2>6, <2>7
<1>8. CASE /\ Refuses(p, op)
           /\ answer' = IF pc[p] = op THEN [answer EXCEPT ![p] = "error"] ELSE answer
  <2>1. /\ UNCHANGED <<tmp, target, installed>>
        /\ keepsTmp' = IF op = "remove" THEN keepsTmp \cup {p} ELSE keepsTmp
    BY <1>8 DEF Refuses
  <2>2. answer' \in [Puts -> {"none", "ok", "error"}] /\ \A q \in Puts \ {p} : answer'[q] = answer[q]
    BY <1>8 DEF TypeOK
  <2>3. TypeOK'
    BY <1>1, <1>5, <1>6, <2>1, <2>2 DEF TypeOK
  <2>4. ASSUME NEW q \in Puts, q # p PROVE UploadInv(q)'
    BY <1>1, <1>4, <1>6, <2>1, <2>2, <2>4, Frame
  <2>5. UploadInv(p)'
    <3>1. pc[p] \notin {"new", "lookup"}
      BY <1>1 DEF UploadInv
    <3>2. pc' = pc /\ link' = link /\ writeOk' = writeOk
      BY <1>1, <1>6
    <3>3. CASE pc[p] = op
      <4>1. answer'[p] = "error" /\ (link => answer[p] = "none")
        BY <1>1, <1>8, <3>3 DEF UploadInv, TypeOK
      <4> QED
        BY <1>3, <2>1, <3>1, <3>2, <3>3, <4>1 DEF UploadInv, Renames, Ops
    <3>4. CASE pc[p] # op
      <4>1. ~link /\ answer'[p] = answer[p]
        BY <1>1, <1>8, <3>4 DEF UploadInv
      <4> QED
        BY <1>3, <2>1, <3>1, <3>2, <4>1 DEF UploadInv, Renames, Ops
    <3> QED
      BY <3>3, <3>4
  <2> QED
    BY <2>1, <2>3, <2>4, <2>5
<1> QED
  BY <1>7, <1>8 DEF Serve

-------------------------------------------------------------------------------
(* PutFile: the client's next request, or the end of the upload.           *)

\* Sending the next request keeps the types and the other uploads.
LEMMA RequestSent ==
  ASSUME IInv, NEW p \in Puts, NEW op \in Ops, Request(p, op),
         link => \A o \in Ops : <<p, o>> \notin requests,
         UNCHANGED <<tmp, target, installed, keepsTmp, session>>,
         writeOk' \in [Puts -> BOOLEAN],
         \A q \in Puts \ {p} : writeOk'[q] = writeOk[q]
  PROVE  /\ TypeOK'
         /\ target'.whole
         /\ \A q \in Puts \ {p} : UploadInv(q)'
         /\ pc'[p] = op /\ answer'[p] = "none" /\ link' = link
         /\ \A o \in Ops : <<p, o>> \in requests' =>
              IF link THEN o = op ELSE <<p, o>> \in requests
<1> USE DEF IInv
<1>1. UNCHANGED <<registered, handleClosed, closing, link>>
  BY DEF session
<1>2. /\ pc' = [pc EXCEPT ![p] = op]
      /\ answer' = [answer EXCEPT ![p] = "none"]
      /\ requests' = IF link THEN requests \cup {<<p, op>>} ELSE requests
  BY DEF Request
<1>3. \A q \in Puts \ {p} : pc'[q] = pc[q] /\ answer'[q] = answer[q]
  BY <1>2 DEF TypeOK
<1>4. \A q \in Puts \ {p}, o \in Ops : <<q, o>> \in requests' <=> <<q, o>> \in requests
  BY <1>2
<1>5. \A q \in Puts \ {p} : UploadInv(q)'
  <2> SUFFICES ASSUME NEW q \in Puts \ {p} PROVE UploadInv(q)'
    OBVIOUS
  <2> QED
    BY <1>1, <1>3, <1>4, Frame
<1>6. pc' \in [Puts -> {"new", "lookup"} \cup Ops \cup Ends]
  BY <1>2 DEF TypeOK
<1>7. answer' \in [Puts -> {"none", "ok", "error"}]
  BY <1>2 DEF TypeOK
<1>8. requests' \subseteq (Puts \X Ops) /\ \A r, s \in requests' : r[1] = s[1] => r = s
  <2>1. \A r \in requests : r = <<r[1], r[2]>> /\ r[1] \in Puts /\ r[2] \in Ops
    BY DEF TypeOK
  <2>2. CASE link
    <3>1. \A r \in requests : r[1] # p
      BY <2>1, <2>2
    <3> QED
      BY <1>2, <2>1, <2>2, <3>1 DEF TypeOK
  <2>3. CASE ~link
    BY <1>2, <2>3 DEF TypeOK
  <2> QED
    BY <2>2, <2>3
<1>9. TypeOK'
  BY <1>1, <1>6, <1>7, <1>8 DEF TypeOK
<1>10. pc'[p] = op /\ answer'[p] = "none"
  BY <1>2 DEF TypeOK
<1> QED
  BY <1>1, <1>2, <1>5, <1>9, <1>10

\* The same of an upload that ends or passes ensureOpen().
LEMMA Finished ==
  ASSUME IInv, NEW p \in Puts, NEW end \in {"lookup"} \cup Ends, Finish(p, end),
         UNCHANGED <<tmp, target, installed, keepsTmp, session>>,
         writeOk' \in [Puts -> BOOLEAN],
         \A q \in Puts \ {p} : writeOk'[q] = writeOk[q]
  PROVE  /\ TypeOK'
         /\ target'.whole
         /\ \A q \in Puts \ {p} : UploadInv(q)'
         /\ pc'[p] = end /\ link' = link /\ answer' = answer /\ requests' = requests
<1> USE DEF IInv
<1>1. UNCHANGED <<registered, handleClosed, closing, link, answer, requests>>
  BY DEF session, Finish
<1>2. pc' = [pc EXCEPT ![p] = end]
  BY DEF Finish
<1>3. \A q \in Puts \ {p} : pc'[q] = pc[q]
  BY <1>2 DEF TypeOK
<1>4. \A q \in Puts \ {p} : UploadInv(q)'
  <2> SUFFICES ASSUME NEW q \in Puts \ {p} PROVE UploadInv(q)'
    OBVIOUS
  <2> QED
    BY <1>1, <1>3, Frame
<1>5. pc' \in [Puts -> {"new", "lookup"} \cup Ops \cup Ends] /\ pc'[p] = end
  BY <1>2 DEF TypeOK
<1> QED
  BY <1>1, <1>4, <1>5 DEF TypeOK

LEMMA PutIInv ==
  ASSUME IInv, NEW p \in Puts, Put(p)
  PROVE  IInv'
<1> DEFINE end == IF handleClosed THEN "untyped" ELSE "lookup"
<1>1. end \in {"lookup"} \cup Ends /\ Finish(p, end)
  BY DEF Put, Ends
<1>2. UNCHANGED <<writeOk, tmp, target, installed, keepsTmp, session>>
  BY DEF Put
<1> HIDE DEF end
<1>3. /\ TypeOK' /\ target'.whole /\ \A q \in Puts \ {p} : UploadInv(q)'
      /\ pc'[p] = end /\ link' = link /\ answer' = answer /\ requests' = requests
  BY <1>1, <1>2, Finished DEF IInv, TypeOK
<1>4. UploadInv(p)'
  BY <1>2, <1>3 DEF Put, IInv, UploadInv, Ops, Renames, end
<1> QED
  BY <1>3, <1>4 DEF IInv

LEMMA LookupIInv ==
  ASSUME IInv, NEW p \in Puts, Lookup(p)
  PROVE  IInv'
<1>1. pc[p] = "lookup" /\ UNCHANGED <<writeOk, tmp, target, installed, keepsTmp, session>>
  BY DEF Lookup
<1>2. tmp[p] = "absent" /\ p \notin installed /\ \A o \in Ops : <<p, o>> \notin requests
  BY <1>1 DEF IInv, UploadInv
<1>3. CASE Request(p, "create")
  <2>1. /\ TypeOK' /\ target'.whole /\ \A q \in Puts \ {p} : UploadInv(q)'
        /\ pc'[p] = "create" /\ answer'[p] = "none" /\ link' = link
        /\ \A o \in Ops : <<p, o>> \in requests' => IF link THEN o = "create" ELSE <<p, o>> \in requests
    BY <1>1, <1>2, <1>3, RequestSent DEF IInv, TypeOK, Ops
  <2>2. UploadInv(p)'
    BY <1>1, <1>2, <2>1 DEF UploadInv, Ops, Renames
  <2> QED
    BY <2>1, <2>2 DEF IInv
<1>4. CASE Finish(p, "failed")
  <2>1. /\ TypeOK' /\ target'.whole /\ \A q \in Puts \ {p} : UploadInv(q)'
        /\ pc'[p] = "failed" /\ link' = link /\ answer' = answer /\ requests' = requests
    BY <1>1, <1>4, Finished DEF IInv, TypeOK, Ends
  <2>2. UploadInv(p)'
    BY <1>1, <1>2, <2>1 DEF UploadInv, Ops, Renames
  <2> QED
    BY <2>1, <2>2 DEF IInv
<1> QED
  BY <1>3, <1>4 DEF Lookup

LEMMA ContinueIInv ==
  ASSUME IInv, NEW p \in Puts, Continue(p)
  PROVE  IInv'
<1> DEFINE ok == answer[p] = "ok"
<1>1. /\ pc[p] \in Ops
      /\ link => answer[p] # "none"
      /\ Step(p, ok)
      /\ UNCHANGED <<tmp, target, installed, keepsTmp, session>>
  BY DEF Continue, Answered
<1>2. link' = link
  BY <1>1 DEF session
<1>3. UploadInv(p) /\ writeOk[p] \in BOOLEAN
  BY DEF IInv, TypeOK
<1>4. link => \A o \in Ops : <<p, o>> \notin requests
  BY <1>1, <1>3 DEF UploadInv
<1>5. /\ writeOk' \in [Puts -> BOOLEAN]
      /\ \A q \in Puts \ {p} : writeOk'[q] = writeOk[q]
      /\ pc[p] = "write" => writeOk'[p] = ok
      /\ pc[p] # "write" => writeOk'[p] = writeOk[p]
  BY <1>1 DEF Step, IInv, TypeOK
<1>6. ASSUME NEW op \in Ops, Request(p, op),
             op \in {"create", "write", "close"} =>
               p \notin installed /\ \A o \in Renames : <<p, o>> \notin requests,
             op = "create" => FALSE,
             link /\ op = "close" /\ writeOk'[p] => tmp[p] = "whole",
             link /\ op \in Renames => tmp[p] = "whole" /\ p \notin installed,
             link /\ op = "remove" => p \notin installed
      PROVE  IInv'
  <2>1. /\ TypeOK' /\ target'.whole /\ \A q \in Puts \ {p} : UploadInv(q)'
        /\ pc'[p] = op /\ answer'[p] = "none" /\ link' = link
        /\ \A o \in Ops : <<p, o>> \in requests' => IF link THEN o = op ELSE <<p, o>> \in requests
    BY <1>1, <1>4, <1>5, <1>6, RequestSent
  <2>2. UploadInv(p)'
    BY <1>1, <1>3, <1>6, <2>1 DEF UploadInv, Ops, Renames
  <2> QED
    BY <2>1, <2>2 DEF IInv
<1>7. ASSUME NEW end \in {"done", "failed"}, Finish(p, end),
             end = "done" => p \in installed,
             end = "failed" /\ link => p \notin installed /\ (tmp[p] = "absent" \/ p \in keepsTmp)
      PROVE  IInv'
  <2>1. /\ TypeOK' /\ target'.whole /\ \A q \in Puts \ {p} : UploadInv(q)'
        /\ pc'[p] = end /\ link' = link /\ answer' = answer /\ requests' = requests
    BY <1>1, <1>5, <1>7, Finished DEF Ends
  <2>2. UploadInv(p)'
    BY <1>1, <1>3, <1>4, <1>7, <2>1 DEF UploadInv, Ops, Renames
  <2> QED
    BY <2>1, <2>2 DEF IInv
<1>8. CASE pc[p] = "create"
  <2>1. p \notin installed /\ \A o \in Renames : <<p, o>> \notin requests
    BY <1>3, <1>8 DEF UploadInv
  <2>2. CASE ok /\ Request(p, "write")
    BY <1>6, <2>1, <2>2 DEF Ops, Renames
  <2>3. CASE ~ok /\ Finish(p, "failed")
    BY <1>3, <1>7, <1>8, <2>1, <2>3 DEF UploadInv
  <2> QED
    BY <1>1, <1>8, <2>2, <2>3 DEF Step
<1>9. CASE pc[p] = "write"
  <2>1. p \notin installed /\ \A o \in Renames : <<p, o>> \notin requests
    BY <1>3, <1>9 DEF UploadInv
  <2>2. link /\ writeOk'[p] => tmp[p] = "whole"
    BY <1>3, <1>5, <1>9 DEF UploadInv
  <2>3. Request(p, "close")
    BY <1>1, <1>9 DEF Step
  <2> QED
    BY <1>6, <2>1, <2>2, <2>3 DEF Ops, Renames
<1>10. CASE pc[p] = "close"
  <2>1. p \notin installed
    BY <1>3, <1>10 DEF UploadInv
  <2>2. CASE writeOk[p] /\ Request(p, "posixRename")
    BY <1>3, <1>6, <1>10, <2>1, <2>2 DEF Ops, Renames, UploadInv
  <2>3. CASE Request(p, "remove")
    BY <1>6, <2>1, <2>3 DEF Ops, Renames
  <2> QED
    BY <1>1, <1>10, <2>2, <2>3 DEF Step, GoodUpload
<1>11. CASE pc[p] \in Renames
  <2>1. ok => p \in installed
    BY <1>3, <1>11 DEF UploadInv
  <2>2. ~ok /\ link => tmp[p] = "whole" /\ p \notin installed
    BY <1>3, <1>11 DEF UploadInv
  <2>3. CASE ok /\ Finish(p, "done")
    BY <1>7, <2>1, <2>3
  <2>4. CASE ~ok /\ Request(p, "rename")
    BY <1>6, <2>2, <2>4 DEF Ops, Renames
  <2>5. CASE ~ok /\ Request(p, "remove")
    BY <1>6, <2>2, <2>5 DEF Ops, Renames
  <2> QED
    BY <1>1, <1>11, <2>3, <2>4, <2>5 DEF Step, RenameFailed, Renames
<1>12. CASE pc[p] = "remove"
  <2>1. Finish(p, "failed")
    BY <1>1, <1>12 DEF Step
  <2> QED
    BY <1>1, <1>3, <1>7, <1>12, <2>1 DEF UploadInv
<1> QED
  BY <1>1, <1>8, <1>9, <1>10, <1>11, <1>12 DEF Ops

-------------------------------------------------------------------------------
LEMMA SessionIInv ==
  ASSUME IInv, LoseLink \/ Close \/ Unregister \/ CloseClient \/ UNCHANGED vars
  PROVE  IInv'
<1>1. UNCHANGED <<pc, writeOk, answer, requests, tmp, target, installed, keepsTmp>> /\ (link' => link)
  BY DEF LoseLink, Close, Unregister, CloseClient, vars, server, session
<1>2. /\ registered' \in BOOLEAN /\ handleClosed' \in BOOLEAN /\ link' \in BOOLEAN
      /\ closing' \in {"no", "bindings", "client", "finished"}
  <2>1. /\ registered \in BOOLEAN /\ handleClosed \in BOOLEAN /\ link \in BOOLEAN
        /\ closing \in {"no", "bindings", "client", "finished"}
    BY DEF IInv, TypeOK
  <2>2. CASE LoseLink
    BY <2>1, <2>2 DEF LoseLink
  <2>3. CASE Close
    BY <2>1, <2>3 DEF Close
  <2>4. CASE Unregister
    BY <2>1, <2>4 DEF Unregister
  <2>5. CASE CloseClient
    BY <2>1, <2>5 DEF CloseClient
  <2>6. CASE UNCHANGED vars
    BY <2>1, <2>6 DEF vars, session
  <2> QED
    BY <2>2, <2>3, <2>4, <2>5, <2>6
<1>3. TypeOK' /\ target'.whole
  BY <1>1, <1>2 DEF IInv, TypeOK
<1>4. ASSUME NEW q \in Puts PROVE UploadInv(q)'
  BY <1>1, Frame DEF IInv
<1> QED
  BY <1>3, <1>4 DEF IInv

LEMMA NextIInv == IInv /\ [Next]_vars => IInv'
BY ServeIInv, PutIInv, LookupIInv, ContinueIInv, SessionIInv DEF Next

\* The inductive invariant holds in every reachable state.
THEOREM Invariant == Spec => []IInv
BY InitIInv, NextIInv, PTL DEF Spec

\* Every variable keeps its type, and an upload has one request under way.
THEOREM TypeCorrect == Spec => []TypeOK
<1>1. IInv => TypeOK
  BY DEF IInv
<1> QED
  BY <1>1, Invariant, PTL

\* While the channel lives an upload that is rejected has left the target as
\* it was and no temporary file that the server agreed to remove.
THEOREM FailsCleanly == Spec => []CleanFailure
<1>1. IInv => CleanFailure
  BY DEF IInv, UploadInv, CleanFailure
<1> QED
  BY <1>1, Invariant, PTL

-------------------------------------------------------------------------------
(* The refinement: a rename the server executes is Install, the end of an  *)
(* upload is a report, everything else stutters.                           *)

Report(p) == CASE pc[p] = "done" -> "done"
               [] pc[p] \in {"failed", "untyped"} -> "failed"
               [] OTHER -> "nothing"
FileNow == IF target.whole THEN target.of ELSE "torn"

LEMMA ServeIsAtomic ==
  ASSUME IInv, NEW p \in Puts, NEW op \in Ops, Serve(p, op)
  PROVE  [File!Next]_(File!vars)
<1>1. UNCHANGED <<pc, writeOk, session>>
  BY DEF Serve
<1>2. CASE op \in Renames /\ Executes(p, op)
  <2>1. tmp[p] = "whole" /\ p \notin installed
    BY <1>2 DEF IInv, UploadInv, Serve
  <2>2. target' = [of |-> p, whole |-> TRUE] /\ installed' = installed \cup {p}
    BY <1>2, <2>1 DEF Executes, Effect
  <2>3. File!Install(p)
    BY <1>1, <2>1, <2>2 DEF File!Install
  <2> QED
    BY <2>3 DEF File!Next
<1>3. CASE UNCHANGED <<target, installed>>
  BY <1>1, <1>3 DEF File!vars
<1> QED
  BY <1>2, <1>3 DEF Serve, Executes, Effect, Refuses

LEMMA ClientIsAtomic ==
  ASSUME IInv, NEW p \in Puts, Put(p) \/ Lookup(p) \/ Continue(p)
  PROVE  [File!Next]_(File!vars)
<1>1. UNCHANGED <<target, installed>>
  BY DEF Put, Lookup, Continue
<1>2. pc \in [Puts -> {"new", "lookup"} \cup Ops \cup Ends]
  BY DEF IInv, TypeOK
<1>3. pc[p] \in {"new", "lookup"} \cup Ops
  BY DEF Put, Lookup, Continue
<1>4. PICK l \in {"lookup"} \cup Ops \cup Ends : pc' = [pc EXCEPT ![p] = l]
  <2>1. CASE Put(p)
    BY <2>1 DEF Put, Finish, Ends
  <2>2. CASE Lookup(p)
    BY <2>2 DEF Lookup, Finish, Request, Ends, Ops
  <2>3. CASE Continue(p)
    BY <2>3 DEF Continue, Step, RenameFailed, Finish, Request, Ends, Ops, Renames
  <2> QED
    BY <2>1, <2>2, <2>3
<1>5. l = "done" => p \in installed
  <2>1. IInv'
    BY PutIInv, LookupIInv, ContinueIInv
  <2> QED
    BY <1>1, <1>2, <1>4, <2>1 DEF IInv, UploadInv
<1> DEFINE reported == [q \in Puts |-> Report(q)]
<1>6. reported[p] = "nothing"
  BY <1>3 DEF Report, Ops, Renames
<1>7. reported' = [reported EXCEPT ![p] = CASE l = "done" -> "done"
                                            [] l \in {"failed", "untyped"} -> "failed"
                                            [] OTHER -> "nothing"]
  BY <1>2, <1>4 DEF Report
<1>8. FileNow' = FileNow
  BY <1>1 DEF FileNow
<1>9. CASE l = "done"
  <2>1. reported' = [reported EXCEPT ![p] = "done"]
    BY <1>7, <1>9
  <2>2. File!ReportDone(p)
    BY <1>1, <1>5, <1>6, <1>8, <1>9, <2>1 DEF File!ReportDone, Report, FileNow
  <2> QED
    BY <2>2 DEF File!Next
<1>10. CASE l \in {"failed", "untyped"}
  <2>1. reported' = [reported EXCEPT ![p] = "failed"]
    BY <1>7, <1>10
  <2>2. File!ReportFailed(p)
    BY <1>1, <1>6, <1>8, <2>1 DEF File!ReportFailed, Report, FileNow
  <2> QED
    BY <2>2 DEF File!Next
<1>11. CASE l \notin {"done", "failed", "untyped"}
  <2>1. reported' = reported
    BY <1>6, <1>7, <1>11
  <2> QED
    BY <1>1, <1>8, <2>1 DEF File!vars, Report, FileNow
<1> QED
  BY <1>9, <1>10, <1>11

\* An uploaded file is replaced atomically, at most once per upload, and
\* before the upload is reported as done.
THEOREM ImplementsAtomicFile == Spec => IsAtomicFile
<1>1. Init => File!Init
  BY DEF Init, File!Init
<1>2. IInv /\ [Next]_vars => [File!Next]_(File!vars)
  <2> SUFFICES ASSUME IInv, [Next]_vars PROVE [File!Next]_(File!vars)
    OBVIOUS
  <2>1. CASE LoseLink \/ Close \/ Unregister \/ CloseClient \/ UNCHANGED vars
    BY <2>1 DEF LoseLink, Close, Unregister, CloseClient, vars, server, File!vars
  <2> QED
    BY <2>1, ServeIsAtomic, ClientIsAtomic DEF Next
<1> QED
  BY <1>1, <1>2, Invariant, PTL DEF Spec, IsAtomicFile, File!Spec
===============================================================================
