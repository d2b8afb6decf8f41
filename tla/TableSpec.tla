----------------------------- MODULE TableSpec -----------------------------
(***************************************************************************)
(* What a Squirrel table promises: a finite map from non-null keys to      *)
(* values. ret is what the last operation returned to its caller.          *)
(***************************************************************************)
CONSTANTS Keys, Vals, Nil

VARIABLES map, ret

Maps == UNION {[S -> Vals] : S \in SUBSET Keys}

Init == map = [k \in {} |-> Nil] /\ ret = Nil

\* The value of a slot, Nil when there is none.
Get(k) ==
    /\ ret' = IF k \in DOMAIN map THEN map[k] ELSE Nil
    /\ UNCHANGED map

\* The slot is there afterwards; TRUE if it is a new one.
NewSlot(k, v) ==
    /\ map' = [j \in DOMAIN map \cup {k} |-> IF j = k THEN v ELSE map[j]]
    /\ ret' = (k \notin DOMAIN map)

\* An existing slot is overwritten, a missing one is refused.
Set(k, v) ==
    /\ map' = IF k \in DOMAIN map THEN [map EXCEPT ![k] = v] ELSE map
    /\ ret' = (k \in DOMAIN map)

\* There is no slot under a null key to be overwritten.
SetNull == ret' = FALSE /\ UNCHANGED map

Remove(k) ==
    /\ map' = [j \in DOMAIN map \ {k} |-> map[j]]
    /\ ret' = (k \in DOMAIN map)

Clear == map' = [k \in {} |-> Nil] /\ UNCHANGED ret

Next ==
    \/ \E k \in Keys : Get(k) \/ Remove(k)
    \/ \E k \in Keys, v \in Vals : NewSlot(k, v) \/ Set(k, v)
    \/ SetNull
    \/ Clear

Spec == Init /\ [][Next]_<<map, ret>>
=============================================================================
