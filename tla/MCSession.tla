------------------------------- MODULE MCSession -------------------------------
(* Session for TLC: two plain connect() and a fingerprint capture with the *)
(* same transport id, and a connect() with a .ppk key under another id.    *)
EXTENDS Session, Naturals

CONSTANTS plain, second, ppk, capture, id, other

MCCalls == {plain, second, ppk, capture}
MCIdOf == [c \in MCCalls |-> IF c = ppk THEN other ELSE id]

\* Three calls to a behaviour.  No fairness asks for another one to begin.
AtMostThree == Cardinality({c \in MCCalls : pc[c] # "new"}) <= 3
===============================================================================
