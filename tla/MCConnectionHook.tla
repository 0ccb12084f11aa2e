--------------------------- MODULE MCConnectionHook ---------------------------
(* ConnectionHook for TLC.                                                 *)
EXTENDS ConnectionHook, FiniteSets

CONSTANT MaxActs

\* Calls of initialize() and connect() in a behaviour.  No fairness asks for
\* another one.
FewActs == Len(caller) + Cardinality({a \in Attempts : attempt[a] # "unused"}) <= MaxActs
===============================================================================
