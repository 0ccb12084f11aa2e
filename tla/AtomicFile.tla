------------------------------ MODULE AtomicFile -------------------------------
(***************************************************************************)
(* What SFTPHandle.put() promises (lib/sftp.ts, PutFile in sftp.go) to the *)
(* callers and to whoever watches the target file name: the file goes from *)
(* one whole content to another in a single step, each upload takes effect *)
(* at most once, and an upload that is reported as done has taken effect.  *)
(***************************************************************************)
CONSTANTS Puts, Before

VARIABLES
  file,       \* the content under the target name: Before, or that of a put
  installed,  \* uploads that have taken effect
  reported    \* what the caller of each upload was told

vars == <<file, installed, reported>>

Init ==
  /\ file = Before
  /\ installed = {}
  /\ reported = [p \in Puts |-> "nothing"]

Install(p) ==
  /\ p \notin installed
  /\ file' = p
  /\ installed' = installed \cup {p}
  /\ UNCHANGED reported

ReportDone(p) ==
  /\ p \in installed
  /\ reported[p] = "nothing"
  /\ reported' = [reported EXCEPT ![p] = "done"]
  /\ UNCHANGED <<file, installed>>

ReportFailed(p) ==
  /\ reported[p] = "nothing"
  /\ reported' = [reported EXCEPT ![p] = "failed"]
  /\ UNCHANGED <<file, installed>>

Next == \E p \in Puts : Install(p) \/ ReportDone(p) \/ ReportFailed(p)

Spec == Init /\ [][Next]_vars
===============================================================================
