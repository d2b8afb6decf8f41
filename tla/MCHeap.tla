------------------------------ MODULE MCHeap ------------------------------
(* Small instances of Heap for TLC. *)
EXTENDS Heap, TLC

MCPrograms == {"table", "handle", "collect"} :> 6
           @@ {"table", "userdata", "weakref", "collect"} :> 5
           @@ {"table", "class", "instance", "collect"} :> 5
           @@ {"table", "closure"} :> 5
           @@ {"class", "closure"} :> 4
           @@ {"thread", "userdata", "collect"} :> 5

\* Captured variables and the collector.
OuterPrograms == {"table", "closure", "collect"} :> 8
===========================================================================
