------------------------------ MODULE SFTPUpload -------------------------------
(***************************************************************************)
(* Uploads of several callers to one target file over one SFTP session:    *)
(* put() and close() of lib/sftp.ts, sftpPut and sftpClose of              *)
(* sftp_bindings.go, PutFile and Close of pkg/sshclient/sftp.go, and the   *)
(* SFTP server they talk to.  Between a request and its answer other       *)
(* uploads run, the session may be closed and the connection may go away;  *)
(* then the client gets an error whether or not the server acted, and what *)
(* the server has already received it may still execute.                   *)
(*                                                                         *)
(* An upload is its own content.  The temporary names carry 64 random bits *)
(* and are taken to be distinct.                                           *)
(***************************************************************************)
CONSTANTS
  Puts,    \* uploads, each called once
  Before   \* what the target name holds at first, Absent included

ASSUME PutsAssumption == Before \notin Puts

VARIABLES
  pc,          \* the request PutFile is waiting for, or where it ended
  writeOk,     \* f.Write wrote everything
  answer,      \* what the server answered to that request
  requests,    \* what the server received and has not executed
  tmp,         \* state of each temporary file
  target,      \* content of the target name
  installed,   \* history: uploads that reached the target name
  keepsTmp,    \* history: uploads whose Remove the server refused
  registered,  \* the session is in sftpSessions
  handleClosed,\* SFTPHandle.closed
  closing,     \* where close() is
  link         \* the SFTP channel works

server == <<requests, tmp, target, installed, keepsTmp>>
session == <<registered, handleClosed, closing, link>>
vars == <<pc, writeOk, answer, server, session>>

Renames == {"posixRename", "rename"}
Ops == {"create", "write", "close", "remove"} \cup Renames
Ends == {"done", "failed", "untyped"}

TypeOK ==
  /\ pc \in [Puts -> {"new", "lookup"} \cup Ops \cup Ends]
  /\ writeOk \in [Puts -> BOOLEAN]
  /\ answer \in [Puts -> {"none", "ok", "error"}]
  /\ requests \subseteq (Puts \X Ops)
  /\ \A r, s \in requests : r[1] = s[1] => r = s   \* one at a time per upload
  /\ tmp \in [Puts -> {"absent", "partial", "whole"}]
  /\ target \in [of : Puts \cup {Before}, whole : BOOLEAN]
  /\ installed \subseteq Puts
  /\ keepsTmp \subseteq Puts
  /\ registered \in BOOLEAN
  /\ handleClosed \in BOOLEAN
  /\ closing \in {"no", "bindings", "client", "finished"}
  /\ link \in BOOLEAN

Init ==
  /\ pc = [p \in Puts |-> "new"]
  /\ writeOk = [p \in Puts |-> FALSE]
  /\ answer = [p \in Puts |-> "none"]
  /\ requests = {}
  /\ tmp = [p \in Puts |-> "absent"]
  /\ target = [of |-> Before, whole |-> TRUE]
  /\ installed = {}
  /\ keepsTmp = {}
  /\ registered = TRUE
  /\ handleClosed = FALSE
  /\ closing = "no"
  /\ link = TRUE

-------------------------------------------------------------------------------
(* The server executes a request, or refuses it.                           *)

\* An existing target name: posix-rename replaces it, rename may refuse.
Effect(p, op) ==
  /\ tmp' = [tmp EXCEPT ![p] = CASE op = "create" -> "partial"
                                 [] op = "write" -> "whole"
                                 [] op \in Renames \cup {"remove"} -> "absent"
                                 [] OTHER -> @]
  /\ IF op \in Renames
     THEN /\ target' = [of |-> p, whole |-> tmp[p] = "whole"]
          /\ installed' = installed \cup {p}
     ELSE UNCHANGED <<target, installed>>

Executes(p, op) ==
  /\ op # "create" => tmp[p] # "absent"
  /\ Effect(p, op)
  /\ UNCHANGED keepsTmp

\* A refused write may leave a part of the data in the file.
Refuses(p, op) ==
  /\ keepsTmp' = IF op = "remove" THEN keepsTmp \cup {p} ELSE keepsTmp
  /\ UNCHANGED <<tmp, target, installed>>

Serve(p, op) ==
  /\ <<p, op>> \in requests
  /\ requests' = requests \ {<<p, op>>}
  /\ \/ /\ Executes(p, op)
        /\ answer' = IF pc[p] = op THEN [answer EXCEPT ![p] = "ok"] ELSE answer
     \/ /\ Refuses(p, op)
        /\ answer' = IF pc[p] = op THEN [answer EXCEPT ![p] = "error"] ELSE answer
  /\ UNCHANGED <<pc, writeOk, session>>

\* The connection, the SSH session or the server goes away.
LoseLink ==
  /\ link
  /\ link' = FALSE
  /\ UNCHANGED <<pc, writeOk, answer, server, registered, handleClosed, closing>>

-------------------------------------------------------------------------------
(* PutFile: one request after the other.                                   *)

\* The client proceeds to op; on a dead channel nothing is sent.
Request(p, op) ==
  /\ pc' = [pc EXCEPT ![p] = op]
  /\ answer' = [answer EXCEPT ![p] = "none"]
  /\ requests' = IF link THEN requests \cup {<<p, op>>} ELSE requests

Finish(p, end) ==
  /\ pc' = [pc EXCEPT ![p] = end]
  /\ UNCHANGED <<answer, requests>>

\* ensureOpen() throws a plain Error.
Put(p) ==
  /\ pc[p] = "new"
  /\ Finish(p, IF handleClosed THEN "untyped" ELSE "lookup")
  /\ UNCHANGED <<writeOk, tmp, target, installed, keepsTmp, session>>

\* GetSFTPSession, then Create.
Lookup(p) ==
  /\ pc[p] = "lookup"
  /\ IF registered THEN Request(p, "create") ELSE Finish(p, "failed")
  /\ UNCHANGED <<writeOk, tmp, target, installed, keepsTmp, session>>

RenameAnyway(p, ok) == TRUE     \* mutant: the result of Write is not looked at
GoodUpload(p, ok) == ok /\ writeOk[p]

RenameIsLast(p) == Finish(p, "failed")     \* mutant: no Remove after a failed Rename
RenameAgain(p) == Request(p, "rename")     \* mutant: tries for ever
RenameFailed(p) == Request(p, "remove")

\* A request has its answer, or fails because the channel is gone.
Step(p, ok) ==
  /\ writeOk' = IF pc[p] = "write" THEN [writeOk EXCEPT ![p] = ok] ELSE writeOk
  /\ CASE pc[p] = "create" -> IF ok THEN Request(p, "write") ELSE Finish(p, "failed")
       [] pc[p] = "write" -> Request(p, "close")
       [] pc[p] = "close" ->
            IF GoodUpload(p, ok) THEN Request(p, "posixRename") ELSE Request(p, "remove")
       [] pc[p] = "posixRename" -> IF ok THEN Finish(p, "done") ELSE Request(p, "rename")
       [] pc[p] = "rename" -> IF ok THEN Finish(p, "done") ELSE RenameFailed(p)
       [] pc[p] = "remove" -> Finish(p, "failed")

FireAndForget(p) == TRUE        \* mutant: does not wait for the answer
Answered(p) == answer[p] # "none" \/ ~link

Continue(p) ==
  /\ pc[p] \in Ops
  /\ Answered(p)
  /\ Step(p, answer[p] = "ok")
  /\ UNCHANGED <<tmp, target, installed, keepsTmp, session>>

-------------------------------------------------------------------------------
(* close(): `closed' is set when the bindings have answered.               *)

Close ==
  /\ closing = "no"
  /\ ~handleClosed
  /\ closing' = "bindings"
  /\ UNCHANGED <<pc, writeOk, answer, server, registered, handleClosed, link>>

Unregister ==
  /\ closing = "bindings"
  /\ registered' = FALSE
  /\ closing' = "client"
  /\ UNCHANGED <<pc, writeOk, answer, server, handleClosed, link>>

CloseClient ==
  /\ closing = "client"
  /\ link' = FALSE
  /\ handleClosed' = TRUE
  /\ closing' = "finished"
  /\ UNCHANGED <<pc, writeOk, answer, server, registered>>

-------------------------------------------------------------------------------
Next ==
  \/ \E p \in Puts : Put(p) \/ Lookup(p) \/ Continue(p)
  \/ \E p \in Puts, op \in Ops : Serve(p, op)
  \/ LoseLink
  \/ Close \/ Unregister \/ CloseClient

Spec == Init /\ [][Next]_vars

\* The server answers what it received while the channel lives, and the client
\* is told when it does not: a WebSocket that the bridge closes (not reported to
\* the Go side, see Session) is outside of this assumption.
FairSpec ==
  /\ Spec
  /\ \A p \in Puts : WF_vars(Lookup(p)) /\ WF_vars(Continue(p))
  /\ \A p \in Puts, op \in Ops : WF_vars(link /\ Serve(p, op))

-------------------------------------------------------------------------------
(* Whoever watches the target name sees it go from one whole content to    *)
(* another ("partial uploads are never observable under the target         *)
(* filename", lib/sftp.ts), each upload takes effect at most once, and a   *)
(* put() that resolves has taken effect, whatever the order of the         *)
(* requests of several uploads and wherever the connection breaks.         *)
File == INSTANCE AtomicFile WITH
  file <- IF target.whole THEN target.of ELSE "torn",
  reported <- [p \in Puts |-> CASE pc[p] = "done" -> "done"
                                [] pc[p] \in {"failed", "untyped"} -> "failed"
                                [] OTHER -> "nothing"]
IsAtomicFile == File!Spec

(* While the channel lives a rejected put() has not touched the target and *)
(* leaves no temporary file, unless the server refuses to remove it.       *)
CleanFailure ==
  \A p \in Puts : link /\ pc[p] = "failed" =>
    /\ p \notin installed
    /\ tmp[p] = "absent" \/ p \in keepsTmp

(* What the history of an upload says of its request, its temporary file   *)
(* and the target; after the channel is gone only that a rename still on   *)
(* its way to the server finds the whole data and is the only one.         *)
UploadInv(p) ==
  /\ \A op \in Ops : <<p, op>> \in requests => ~link \/ (pc[p] = op /\ answer[p] = "none")
  /\ \A op \in Renames : <<p, op>> \in requests => tmp[p] = "whole" /\ p \notin installed
  /\ pc[p] \in {"new", "lookup", "create", "write", "close", "untyped"} =>
       p \notin installed /\ \A op \in Renames : <<p, op>> \notin requests
  /\ pc[p] \in {"new", "lookup"} => tmp[p] = "absent" /\ \A op \in Ops : <<p, op>> \notin requests
  /\ pc[p] \in Renames /\ answer[p] = "ok" => p \in installed
  /\ pc[p] = "done" => p \in installed
  /\ link =>
       /\ pc[p] = "create" /\ answer[p] # "ok" => tmp[p] = "absent"
       /\ pc[p] = "write" /\ answer[p] = "ok" => tmp[p] = "whole"
       /\ pc[p] = "close" /\ writeOk[p] => tmp[p] = "whole"
       /\ pc[p] \in Renames /\ answer[p] # "ok" => tmp[p] = "whole" /\ p \notin installed
       /\ pc[p] \in {"remove", "failed"} => p \notin installed
       /\ pc[p] = "remove" /\ answer[p] # "none" => tmp[p] = "absent" \/ p \in keepsTmp
       /\ pc[p] = "failed" => tmp[p] = "absent" \/ p \in keepsTmp

IInv == TypeOK /\ target.whole /\ \A p \in Puts : UploadInv(p)

(* Every put() settles: each of its requests is answered or fails with the *)
(* channel, and the rename and remove that follow a failure come to an end.*)
Settles == \A p \in Puts : (pc[p] = "lookup") ~> (pc[p] \in Ends)
===============================================================================
