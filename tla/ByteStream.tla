------------------------------ MODULE ByteStream ------------------------------
(***************************************************************************)
(* What a Transport promises the SSH client that reads from it (the        *)
(* io.Reader half of the interface in pkg/sshclient/transport.go): bytes   *)
(* come out in the order they came in, none twice, none invented, and none *)
(* skipped as long as the stream has not been declared lossy; the stream   *)
(* ends only after it was shut, and yields nothing once it has ended.      *)
(*                                                                         *)
(* A byte is its position in the stream: bytes 0 .. arrived-1 have come in *)
(* and what the reader was handed last are the bytes readFrom .. readPos-1.*)
(***************************************************************************)
EXTENDS Naturals

VARIABLES
  arrived,   \* number of bytes that came in
  readFrom,  \* position of the first byte of what the reader was handed last
  readPos,   \* position after the last byte of it
  lossy,     \* some byte that came in was thrown away
  shut,      \* the stream was closed
  ended      \* the reader was told end-of-file

vars == <<arrived, readFrom, readPos, lossy, shut, ended>>

Init ==
  /\ arrived = 0
  /\ readFrom = 0
  /\ readPos = 0
  /\ lossy = FALSE
  /\ shut = FALSE
  /\ ended = FALSE

Arrive ==
  /\ arrived' \in Nat
  /\ arrived' >= arrived
  /\ UNCHANGED <<readFrom, readPos, lossy, shut, ended>>

Lose ==
  /\ lossy' = TRUE
  /\ UNCHANGED <<arrived, readFrom, readPos, shut, ended>>

\* The reader gets a run of consecutive bytes that starts where the last one
\* stopped, or later when something was lost in between.
Take ==
  /\ ~ended
  /\ \E from \in readPos .. arrived, to \in readPos .. arrived :
       /\ from <= to
       /\ lossy \/ from = readPos
       /\ readFrom' = from
       /\ readPos' = to
  /\ UNCHANGED <<arrived, lossy, shut, ended>>

Shut ==
  /\ shut' = TRUE
  /\ UNCHANGED <<arrived, readFrom, readPos, lossy, ended>>

End ==
  /\ shut
  /\ ended' = TRUE
  /\ UNCHANGED <<arrived, readFrom, readPos, lossy, shut>>

Next == Arrive \/ Lose \/ Take \/ Shut \/ End

Spec == Init /\ [][Next]_vars
===============================================================================
