--------------------------- MODULE MCVmRegistry ---------------------------
(* Instances of VmRegistry for TLC.                                        *)
EXTENDS VmRegistry, FiniteSets

CONSTANTS t1, t2, a1, a2, a3

\* a1 is private to t1, a3 to t2, and both may get a2.
SharedArena == [t \in Threads |-> IF t = t1 THEN {a1, a2} ELSE {a2, a3}]
=============================================================================
