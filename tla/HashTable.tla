----------------------------- MODULE HashTable -----------------------------
(***************************************************************************)
(* SQTable: chained scatter hashing in one array of nodes. A key lives in  *)
(* its main position (hash modulo the number of nodes) or in a free node   *)
(* that is linked into the chain of its main position. _firstfree only     *)
(* moves down; when it finds no free node the table is rebuilt, and the    *)
(* rebuild may double, halve or keep the number of nodes. One iteration    *)
(* (foreach, sq_next, TableSlots) runs while the table is modified.        *)
(***************************************************************************)
EXTENDS Naturals, FiniteSets

CONSTANTS
    Keys,       \* non-null keys
    Hash,       \* Hash[k]: HashObj(k)
    Vals,       \* values stored in slots
    Sizes,      \* initial capacities passed to the constructor
    MaxNodes,   \* bound: nodes of a table
    Programs,   \* what a program may do: the keys and values it uses, whether it
                \* iterates over the table
    Null,       \* the null key; its hash is 0
    Nil         \* no node, no value

ASSUME HashAssumption == \A k \in Keys : Hash[k] \in Nat
ASSUME SizesAssumption == Sizes \subseteq Nat /\ MaxNodes \in Nat
ASSUME ProgramsAssumption ==
    \A p \in Programs : p.keys \subseteq Keys /\ p.vals \subseteq Vals
ASSUME NullAssumption == Null \notin Keys /\ Nil \notin Vals \cup Nat

VARIABLES
    t,      \* the table: n nodes with key, val, next; free (_firstfree);
            \* used (_usednodes); full: NewSlot found no free node
    ret,    \* what the last operation returned
    path,   \* how it came to that: "rebuilt", NewSlot called itself after
            \* Rehash; "nullhit", Set took a free node for a null key; "plain"
    use,    \* the program of this behaviour
    iter    \* the iteration: its position, what it has seen, the keys that
            \* were there from its start on, whether an insertion or a rebuild
            \* has happened since, a key seen twice, whether it has ended

vars == <<t, ret, path, use, iter>>

MinPower2 == 4

-----------------------------------------------------------------------------
(* Nodes and chains                                                        *)

\* AllocNodes
AllocNodes(size) ==
    [n |-> size, key |-> [i \in 0 .. size - 1 |-> Null],
     val |-> [i \in 0 .. size - 1 |-> Nil], next |-> [i \in 0 .. size - 1 |-> Nil],
     free |-> size - 1, used |-> 0, full |-> FALSE]

\* HashObj(key) & (_numofnodes - 1), for a power of two
MainPos(s, k) == (IF k = Null THEN 0 ELSE Hash[k]) % s.n

\* n->next, also of the end of a chain.
Succ(s, i) == IF i = Nil THEN Nil ELSE s.next[i]

\* The nodes of the chain that starts at h, in order; Nil after its end.
Walk(s, h) ==
    LET w[i \in 0 .. s.n] == IF i = 0 THEN h ELSE Succ(s, w[i - 1]) IN w

\* _Get: the first node of k's chain that holds k. A free node holds Null.
GetNode(s, k) ==
    LET w == Walk(s, MainPos(s, k))
        hits == {i \in 0 .. s.n : w[i] # Nil /\ s.key[w[i]] = k}
    IN  IF hits = {} THEN Nil
        ELSE w[CHOOSE i \in hits : \A j \in hits : i <= j]

\* The node of the chain of h whose successor is i.
Previous(s, h, i) ==
    LET w == Walk(s, h)
    IN  w[CHOOSE j \in 0 .. s.n : w[j] # Nil /\ s.next[w[j]] = i]

-----------------------------------------------------------------------------
(* NewSlot, Rehash, Remove, Clear, Clone                                   *)

\* Fault: the chain is not redone when the colliding node moves.
Place_BreaksChain(s, k) ==
    LET mp == MainPos(s, k)
        n == s.free
    IN  IF s.key[mp] = Null
          THEN [tab |-> [s EXCEPT !.key[mp] = k], node |-> mp]
        ELSE IF mp > n /\ MainPos(s, s.key[mp]) # mp
          THEN [tab |-> [s EXCEPT !.key[n] = s.key[mp], !.val[n] = s.val[mp],
                                  !.next[n] = s.next[mp], !.next[mp] = Nil,
                                  !.key[mp] = k, !.val[mp] = Nil], node |-> mp]
        ELSE [tab |-> [s EXCEPT !.next[n] = s.next[mp], !.next[mp] = n, !.key[n] = k],
              node |-> n]

\* Fault: the new node is linked in before it takes over the rest of the chain.
Place_LinksFirst(s, k) ==
    LET mp == MainPos(s, k)
        n == s.free
    IN  IF s.key[mp] = Null
          THEN [tab |-> [s EXCEPT !.key[mp] = k], node |-> mp]
        ELSE [tab |-> [s EXCEPT !.next[mp] = n, !.next[n] = n, !.key[n] = k], node |-> n]

\* NewSlot up to `mp->key = key`: the table with k in a node, and that node.
Place(s, k) ==
    LET mp == MainPos(s, k)
        n == s.free
        mph == MainPos(s, s.key[mp])
    IN  IF s.key[mp] = Null
          THEN [tab |-> [s EXCEPT !.key[mp] = k], node |-> mp]
        ELSE IF mp > n /\ mph # mp
          THEN [tab |-> [s EXCEPT !.next[Previous(s, mph, mp)] = n,
                                  !.key[n] = s.key[mp], !.val[n] = s.val[mp],
                                  !.next[n] = s.next[mp], !.next[mp] = Nil,
                                  !.key[mp] = k, !.val[mp] = Nil], node |-> mp]
        ELSE [tab |-> [s EXCEPT !.next[n] = s.next[mp], !.next[mp] = n, !.key[n] = k],
              node |-> n]

\* The loop that corrects _firstfree: down to a node without key and link. If
\* there is none the value is not stored and the slot is not counted.
CorrectFree(s, node, v) ==
    LET ok == {i \in 0 .. s.free : s.key[i] = Null /\ s.next[i] = Nil}
    IN  IF ok = {} THEN [s EXCEPT !.free = 0, !.full = TRUE]
        ELSE [s EXCEPT !.free = CHOOSE i \in ok : \A j \in ok : j <= i,
                       !.val[node] = v, !.used = @ + 1]

\* NewSlot up to its call of Rehash.
Put(s, k, v) ==
    LET n == GetNode(s, k)
        p == Place(s, k)
    IN  IF n # Nil THEN [s EXCEPT !.val[n] = v] ELSE CorrectFree(p.tab, p.node, v)

\* The number of nodes Rehash chooses. 0: it returns without doing anything.
NewSize(s, force) ==
    IF s.used >= s.n - s.n \div 4 THEN s.n * 2
    ELSE IF s.used <= s.n \div 4 /\ s.n > MinPower2 THEN s.n \div 2
    ELSE IF force THEN s.n ELSE 0

\* The slots of s put, in the order of its nodes, into `size` empty nodes.
Rebuild(s, size) ==
    LET r[i \in 0 .. s.n] ==
          IF i = 0 THEN AllocNodes(size)
          ELSE IF s.key[i - 1] = Null THEN r[i - 1]
          ELSE Put(r[i - 1], s.key[i - 1], s.val[i - 1])
    IN  r[s.n]

\* Fault: a table that gets emptier is halved once more.
Rehash_TooSmall(s, force) ==
    IF NewSize(s, force) = 0 THEN s
    ELSE Rebuild(s, IF NewSize(s, force) < s.n THEN s.n \div 4 ELSE NewSize(s, force))

Rehash(s, force) == IF NewSize(s, force) = 0 THEN s ELSE Rebuild(s, NewSize(s, force))

\* NewSlot: when the last free node goes the key is already in its node, the
\* table is rebuilt with it, and the second NewSlot finds it there.
Insert(s, k, v) ==
    LET p == Put(s, k, v) IN IF p.full THEN Put(Rehash(p, TRUE), k, v) ELSE p

\* Fault: the removed slot is not counted off.
Delete_KeepsCount(s, k) ==
    LET n == GetNode(s, k)
    IN  IF n = Nil THEN s
        ELSE Rehash([s EXCEPT !.key[n] = Null, !.val[n] = Nil], FALSE)

\* Remove: the node keeps its link, and its place below or above _firstfree.
Delete(s, k) ==
    LET n == GetNode(s, k)
    IN  IF n = Nil THEN s
        ELSE Rehash([s EXCEPT !.key[n] = Null, !.val[n] = Nil, !.used = @ - 1], FALSE)

\* Set: the value of the node _Get finds, for a null key too.
Assign(s, k, v) ==
    IF GetNode(s, k) = Nil THEN s ELSE [s EXCEPT !.val[GetNode(s, k)] = v]

\* Clear: _ClearNodes leaves the links to the rebuild that follows.
Cleared(s) ==
    Rehash([s EXCEPT !.key = [i \in 0 .. s.n - 1 |-> Null],
                     !.val = [i \in 0 .. s.n - 1 |-> Nil], !.used = 0], TRUE)

\* Clone: a table of as many nodes, filled in the order of iteration.
Cloned(s) == Rebuild(s, s.n)

\* The constructor rounds the capacity up to a power of two: p[i] is pow2size
\* after i turns of its loop, of which there are fewer than size.
Pow2(size) ==
    LET p[i \in 0 .. size] == IF i = 0 THEN MinPower2
                              ELSE IF size > p[i - 1] THEN p[i - 1] * 2 ELSE p[i - 1]
    IN  p[size]

ASSUME CapacityAssumption == \A size \in Sizes : Pow2(size) <= MaxNodes

-----------------------------------------------------------------------------
(* Operations                                                              *)

KeysOf(s) == {s.key[i] : i \in 0 .. s.n - 1} \ {Null}

NoIter == [pos |-> Nil, seen |-> {}, kept |-> {}, moved |-> FALSE, twice |-> FALSE,
           ended |-> FALSE]

Init ==
    /\ \E size \in Sizes : t = AllocNodes(Pow2(size))
    /\ ret = Nil /\ path = "plain"
    /\ use \in Programs
    /\ iter = NoIter

\* The iteration while the table becomes s.
Disturb(s) ==
    iter' = IF iter.pos = Nil THEN iter
            ELSE [iter EXCEPT !.kept = @ \cap KeysOf(s),
                              !.moved = @ \/ s.n # t.n \/ KeysOf(s) \ KeysOf(t) # {}]

Get(k) ==
    /\ ret' = IF GetNode(t, k) = Nil THEN Nil ELSE t.val[GetNode(t, k)]
    /\ path' = "plain"
    /\ UNCHANGED <<t, iter>>

\* NewSlot returns FALSE for a new slot too when it has to rebuild the table.
NewSlot(k, v) ==
    /\ LET s == Insert(t, k, v) IN s.n <= MaxNodes /\ t' = s
    /\ ret' = (GetNode(t, k) = Nil /\ ~Put(t, k, v).full)
    /\ path' = IF Put(t, k, v).full THEN "rebuilt" ELSE "plain"
    /\ Disturb(t')

\* SQTable::Set as SQVM::Set calls it, with any key.
Set(k, v) ==
    /\ t' = Assign(t, k, v)
    /\ ret' = (GetNode(t, k) # Nil)
    /\ path' = IF k = Null /\ GetNode(t, k) # Nil THEN "nullhit" ELSE "plain"
    /\ UNCHANGED iter

\* Remove after a successful Get (sq_rawdeleteslot, SQVM::DeleteSlot).
Remove(k) ==
    /\ LET s == Delete(t, k) IN s.n <= MaxNodes /\ t' = s
    /\ ret' = (GetNode(t, k) # Nil)
    /\ path' = "plain"
    /\ Disturb(t')

Clear ==
    /\ t' = Cleared(t)
    /\ UNCHANGED <<ret, path>>
    /\ Disturb(t')

\* The program goes on with the clone of its table.
Clone ==
    /\ t' = Cloned(t)
    /\ iter' = NoIter
    /\ UNCHANGED <<ret, path>>

\* foreach, Table::iter: the position is null.
IterBegin ==
    /\ use.iterates
    /\ iter.pos = Nil
    /\ iter' = [NoIter EXCEPT !.pos = 0, !.kept = KeysOf(t)]
    /\ UNCHANGED <<t, ret, path>>

\* Fault: the position of the next iteration is one node too far.
IterNext_SkipsNode ==
    /\ iter.pos # Nil
    /\ LET ahead == {i \in iter.pos .. t.n - 1 : t.key[i] # Null}
           i == CHOOSE i \in ahead : \A j \in ahead : i <= j
       IN  \/ /\ ahead = {}
              /\ iter' = [iter EXCEPT !.ended = TRUE]
           \/ /\ ahead # {}
              /\ iter' = [iter EXCEPT !.pos = i + 2, !.seen = @ \cup {t.key[i]},
                                      !.twice = @ \/ t.key[i] \in iter.seen]
    /\ UNCHANGED <<t, ret, path>>

\* SQTable::Next from the position of the iteration.
IterNext ==
    /\ iter.pos # Nil
    /\ LET ahead == {i \in iter.pos .. t.n - 1 : t.key[i] # Null}
           i == CHOOSE i \in ahead : \A j \in ahead : i <= j
       IN  \/ /\ ahead = {}
              /\ iter' = [iter EXCEPT !.ended = TRUE]
           \/ /\ ahead # {}
              /\ iter' = [iter EXCEPT !.pos = i + 1, !.seen = @ \cup {t.key[i]},
                                      !.twice = @ \/ t.key[i] \in iter.seen]
    /\ UNCHANGED <<t, ret, path>>

\* The iterator goes away.
IterEnd ==
    /\ iter.pos # Nil
    /\ iter' = NoIter
    /\ UNCHANGED <<t, ret, path>>

-----------------------------------------------------------------------------
Next ==
    /\ \/ \E k \in use.keys : Get(k)
       \/ \E k \in use.keys, v \in use.vals : NewSlot(k, v)
       \/ \E k \in use.keys \cup {Null}, v \in use.vals : Set(k, v)
       \/ \E k \in use.keys : Remove(k)
       \/ Clear
       \/ Clone
       \/ IterBegin
       \/ IterNext
       \/ IterEnd
    /\ UNCHANGED use

Spec == Init /\ [][Next]_vars

-----------------------------------------------------------------------------
(* Properties                                                              *)

Nodes(s) == 0 .. s.n - 1

\* Nodes, links and counters are in range.
TypeOK ==
    /\ t.n \in 1 .. MaxNodes
    /\ t.key \in [Nodes(t) -> Keys \cup {Null}]
    /\ t.val \in [Nodes(t) -> Vals \cup {Nil}]
    /\ t.next \in [Nodes(t) -> Nodes(t) \cup {Nil}]
    /\ t.free \in Nodes(t)
    /\ t.used \in 0 .. t.n
    /\ ret \in Vals \cup {Nil} \cup BOOLEAN
    /\ path \in {"plain", "rebuilt", "nullhit"}
    /\ iter.pos \in 0 .. MaxNodes \cup {Nil}

\* Every chain ends: the do-while of _Get and the search for the previous node
\* in NewSlot terminate.
ChainsEnd == \A h \in Nodes(t) : Walk(t, h)[t.n] = Nil

\* Every slot is found from the main position of its key, at its own node: no
\* move of a colliding node, removal or rebuild cuts a key off, and no key is
\* stored twice.
SlotsFound == \A i \in Nodes(t) : t.key[i] # Null => GetNode(t, t.key[i]) = i

\* Between operations _firstfree is a node without key and without link, so
\* NewSlot never takes a node that a chain still runs through.
FreeNodeIsFree == t.key[t.free] = Null /\ t.next[t.free] = Nil

\* A key that is not in its main position lies above _firstfree: `mp > n` in
\* NewSlot tells the colliding nodes that may be moved from those that may not.
CollidersAboveFree ==
    \A i \in Nodes(t) :
        t.key[i] # Null /\ MainPos(t, t.key[i]) # i => i > t.free

\* Table::len: _usednodes counts the slots, through failed insertions and
\* rebuilds.
UsedCounts == t.used = Cardinality(KeysOf(t))

\* A rebuild always leaves a free node: Rehash does not call itself through
\* NewSlot, and the second NewSlot after it does not fail.
RebuildFits == ~t.full

\* The nodes are what _Get, NewSlot and Remove take them for, after any sequence
\* of insertions, moves of colliding nodes, removals and rebuilds.
NodesSound == ChainsEnd /\ SlotsFound /\ FreeNodeIsFree /\ CollidersAboveFree

\* The numbers Rehash decides by are right, and the size it chooses suffices.
SizesSound == UsedCounts /\ RebuildFits

\* An iteration during which nothing is inserted and nothing is rebuilt sees
\* every key that stays in the table, and no key twice, although slots are
\* assigned and removed under it (SQTable::Next, sq_next, TableSlots).
IterationExact ==
    ~iter.moved => ~iter.twice /\ (iter.ended => iter.kept \subseteq iter.seen)

\* The slots as an abstract map.
SlotMap == [k \in KeysOf(t) |-> t.val[CHOOSE i \in Nodes(t) : t.key[i] = k]]

\* What the last operation should have returned: the code's result, but for the
\* two paths on which it is wrong. NewSlot, called again after Rehash, finds the
\* key that it has just placed and says that it was already present; Set of a
\* null key takes a node without key for the slot and says that it was written.
Promised == CASE path = "rebuilt" -> TRUE [] path = "nullhit" -> FALSE [] OTHER -> ret

Abstract == INSTANCE TableSpec WITH map <- SlotMap, ret <- Promised

\* The hash table implements the map: what NewSlot, Set, Remove and Get do does
\* not depend on collisions, tombstones or the number of nodes, and neither does
\* what they return, except on the two paths of Promised.
ImplementsMap == Abstract!Spec

\* NewSlot "returns true if a new slot has been created false if it was already
\* present" (sqtable.h:97).
ReportsNewSlots ==
    [][\A k \in Keys, v \in Vals : NewSlot(k, v) => ret' = (k \notin KeysOf(t))]_vars
=============================================================================
