--------------------------- MODULE MCHashTable ---------------------------
(* Instances of HashTable for TLC.                                         *)
EXTENDS HashTable, TLC

CONSTANTS k1, k2, k3, k4, v1, v2

\* k1, k2, k3 collide in 4 nodes, k1 and k3 in 8; the main position of k4 is
\* where the first colliding key goes in 4 nodes.
CollidingHash == k1 :> 0 @@ k2 :> 4 @@ k3 :> 8 @@ k4 :> 3

\* A program that uses all keys and values, and one that iterates meanwhile.
MCPrograms == { [keys |-> Keys, vals |-> Vals, iterates |-> FALSE],
                [keys |-> {k1, k2, k4}, vals |-> {v1}, iterates |-> TRUE] }
=============================================================================
