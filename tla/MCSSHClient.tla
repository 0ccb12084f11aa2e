----------------------------- MODULE MCSSHClient ------------------------------
(* SSHClient for TLC: three goroutines, so that a Send, the Send that      *)
(* started the shell and a Disconnect meet.                                *)
EXTENDS SSHClient

CONSTANTS g1, g2, g3

MCCallers == {g1, g2, g3}
===============================================================================
