---------------------------- MODULE MCJSTransport -----------------------------
(* JSTransport for TLC: two closers race each other, chunks of up to two   *)
(* bytes meet reads of one or two, and the channel fills after two chunks. *)
EXTENDS JSTransport

CONSTANTS c1, c2

MCClosers == {c1, c2}
===============================================================================
