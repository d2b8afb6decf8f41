-------------------------- MODULE HashTableProofs --------------------------
(***************************************************************************)
(* Theorems about HashTable, for every set of keys, every hash function    *)
(* and every number of nodes: chains end, every key is found, counts are   *)
(* right, a rebuild fits, an iteration is exact and the table implements   *)
(* TableSpec.                                                              *)
(***************************************************************************)
EXTENDS HashTable, Integers, Induction, FiniteSetTheorems, FunctionTheorems

USE HashAssumption, SizesAssumption, NullAssumption

-----------------------------------------------------------------------------
(* The invariant of a table s.                                             *)

\* The tables of m nodes.
Tabs(m) ==
    [n : {m}, key : [0 .. m - 1 -> Keys \cup {Null}], val : [0 .. m - 1 -> Vals \cup {Nil}],
     next : [0 .. m - 1 -> (0 .. m - 1) \cup {Nil}], free : 0 .. m - 1, used : Nat, full : BOOLEAN]
IsTab(s) == s.n \in Nat \ {0} /\ s \in Tabs(s.n)

\* Links lead from higher to lower ranks, so there is no cycle.
Ranks(s, rk) ==
    rk \in [Nodes(s) -> Nat] /\ \A i \in Nodes(s) : s.next[i] # Nil => rk[s.next[i]] < rk[i]
Acyclic(s) == \E rk : Ranks(s, rk)

\* A node has one predecessor at most; the nodes that have one lie above
\* _firstfree, or are _firstfree just after NewSlot took it.
OnePrevious(s) == \A i, j \in Nodes(s) : s.next[i] # Nil /\ s.next[i] = s.next[j] => i = j
LinksAbove(s) == \A i \in Nodes(s) : s.next[i] # Nil =>
    s.next[i] >= s.free /\ (s.next[i] = s.free => s.key[s.free] # Null)

\* No key is stored twice.
Unique(s) == \A i, j \in Nodes(s) : s.key[i] # Null /\ s.key[i] = s.key[j] => i = j

\* The node of a key lies in every set of nodes that contains the main position
\* of the key and follows the links: it can be reached from there.
Closed(s, S) == S \in SUBSET Nodes(s) /\ \A i \in S : s.next[i] # Nil => s.next[i] \in S
Reach(s, h, i) == \A S : Closed(s, S) /\ h \in S => i \in S
Reached(s) == \A i \in Nodes(s) : s.key[i] # Null => Reach(s, MainPos(s, s.key[i]), i)

\* A node with a key of another main position lies at or above _firstfree, and
\* is the main position of no key.
Stray(s, i) == s.key[i] # Null /\ MainPos(s, s.key[i]) # i
StraysAbove(s) == \A i \in Nodes(s) : Stray(s, i) => i >= s.free
StraysAlone(s) ==
    \A i, j \in Nodes(s) : Stray(s, i) /\ s.key[j] # Null => MainPos(s, s.key[j]) # i

Sound(s) == /\ IsTab(s) /\ Acyclic(s) /\ OnePrevious(s) /\ LinksAbove(s)
            /\ Unique(s) /\ Reached(s) /\ StraysAbove(s) /\ StraysAlone(s)

FreeOK(s) == s.key[s.free] = Null /\ s.next[s.free] = Nil
Counted(s) == IsFiniteSet(KeysOf(s)) /\ s.used = Cardinality(KeysOf(s))
Good(s) == Sound(s) /\ FreeOK(s) /\ Counted(s) /\ ~s.full

\* A table from which nothing was removed: a node without a key has no link and
\* is not above _firstfree.
Fresh(s) == \A i \in Nodes(s) : s.key[i] = Null => s.next[i] = Nil /\ i <= s.free

\* The slots of a table.
Has(s, k, v) == \E i \in Nodes(s) : s.key[i] = k /\ s.val[i] = v
SameSlots(s, s2) == \A k \in Keys, v \in Vals \cup {Nil} : Has(s2, k, v) <=> Has(s, k, v)

-----------------------------------------------------------------------------
(* Nodes and chains.                                                       *)

\* The components of a table.
LEMMA TabTypes ==
    ASSUME NEW s, IsTab(s)
    PROVE  /\ s.n \in Nat \ {0} /\ Nodes(s) = 0 .. s.n - 1 /\ Nil \notin Nodes(s)
           /\ s.key \in [Nodes(s) -> Keys \cup {Null}] /\ s.val \in [Nodes(s) -> Vals \cup {Nil}]
           /\ s.next \in [Nodes(s) -> Nodes(s) \cup {Nil}] /\ s.free \in Nodes(s)
           /\ s.used \in Nat /\ s.full \in BOOLEAN
           /\ \A i \in Nodes(s) : s.key[i] \in Keys \cup {Null} /\ s.next[i] \in Nodes(s) \cup {Nil}
                                  /\ i \in Nat
  BY DEF IsTab, Tabs, Nodes

\* A main position is a node.
LEMMA MainPosType ==
    ASSUME NEW s, IsTab(s), NEW k \in Keys \cup {Null}
    PROVE  MainPos(s, k) \in Nodes(s)
<1>1. s.n \in Nat /\ s.n > 0
  BY TabTypes
<1>2. (IF k = Null THEN 0 ELSE Hash[k]) \in Nat
  OBVIOUS
<1> DEFINE h == IF k = Null THEN 0 ELSE Hash[k]
<1> HIDE DEF h
<1>3. h % s.n \in 0 .. s.n - 1
  BY <1>1, <1>2 DEF h
<1>4. QED
  BY <1>3 DEF MainPos, Nodes, h

\* The chain that starts at h, step by step.
Walks(s, h, w) ==
    /\ w \in [0 .. s.n -> Nodes(s) \cup {Nil}] /\ w[0] = h
    /\ \A i \in 1 .. s.n : w[i] = Succ(s, w[i - 1])

\* Walk is that chain.
LEMMA WalkSteps ==
    ASSUME NEW s, IsTab(s), NEW h \in Nodes(s)
    PROVE  Walks(s, h, Walk(s, h))
<1> DEFINE T == Nodes(s) \cup {Nil}
           F(w) == [i \in 0 .. s.n |-> IF i = 0 THEN h ELSE Succ(s, w[i - 1])]
           step == [p \in T \X (1 .. s.n) |-> Succ(s, p[1])]
<1>1. Walk(s, h) = CHOOSE w : w = F(w)
  BY DEF Walk
<1>2. \A x \in T : Succ(s, x) \in T
  BY TabTypes DEF Succ
<1>3. s.n \in Nat /\ h \in T
  BY TabTypes
<1> HIDE DEF T
<1>4. step \in [T \X (1 .. s.n) -> T]
  <2>1. \A p \in T \X (1 .. s.n) : p[1] \in T
    OBVIOUS
  <2>2. QED
    BY <2>1, <1>2
<1>5. PICK w \in [0 .. s.n -> T] : w[0] = h /\ \A i \in 1 .. s.n : w[i] = step[<<w[i - 1], i>>]
  <2> HIDE DEF step
  <2>1. Recursion(s.n, T, h, step)
    BY <1>3, <1>4 DEF Recursion
  <2>2. QED
    BY <2>1, FiniteRecursion DEF IsRecursive
<1>6. w = F(w)
  <2>1. ASSUME NEW i \in 1 .. s.n PROVE step[<<w[i - 1], i>>] = Succ(s, w[i - 1])
    <3>1. i - 1 \in 0 .. s.n
      BY <1>3
    <3>2. w[i - 1] \in T
      BY <3>1
    <3>3. QED
      BY <3>2
  <2> HIDE DEF step
  <2>2. \A i \in 0 .. s.n : i # 0 => i \in 1 .. s.n
    BY <1>3
  <2>3. QED
    BY <1>5, <2>1, <2>2
<1> DEFINE g == Walk(s, h)
<1>7. g = F(g)
  BY <1>1, <1>6
<1> HIDE DEF g
<1>8. g \in [0 .. s.n -> T]
  <2>1. \E u \in [0 .. s.n -> T] : u = F(u) /\ g = F(g)
    BY <1>6, <1>7
  <2> DEFINE Bad == {i \in 0 .. s.n : g[i] \notin T}
  <2>2. SUFFICES ASSUME Bad # {} PROVE FALSE
    BY <1>7
  <2>3. Bad \in SUBSET Nat
    OBVIOUS
  <2>4. PICK m \in Bad : \A k \in Bad : m <= k
    BY <2>2, <2>3, LeastNat
  <2>5. m # 0
    BY <1>3, <1>7, <2>4
  <2>6. m - 1 \in 0 .. s.n /\ m - 1 \notin Bad
    <3> HIDE DEF Bad
    <3>1. m \in 0 .. s.n
      BY DEF Bad
    <3>2. m - 1 \in 0 .. s.n /\ ~(m <= m - 1)
      BY <3>1, <2>5, <1>3
    <3>3. QED
      BY <2>4, <3>2
  <2>7. g[m] = Succ(s, g[m - 1])
    BY <1>7, <2>5, <2>4
  <2>8. QED
    BY <2>4, <2>6, <2>7, <1>2
<1>9. 0 \in 0 .. s.n /\ \A i \in 1 .. s.n : i \in 0 .. s.n /\ i # 0
  BY <1>3
<1>10. g[0] = h /\ \A i \in 1 .. s.n : g[i] = Succ(s, g[i - 1])
  BY <1>7, <1>9
<1>11. QED
  BY <1>8, <1>10 DEF Walks, g, T

\* Once a chain has ended it stays so.
LEMMA WalkEnded ==
    ASSUME NEW s, IsTab(s), NEW h, NEW w, Walks(s, h, w), NEW a \in 0 .. s.n, w[a] = Nil
    PROVE  w[s.n] = Nil
<1> DEFINE Bad == {i \in a .. s.n : w[i] # Nil}
<1>1. s.n \in Nat /\ s.n \in a .. s.n /\ a \in Nat
  BY TabTypes
<1>2. SUFFICES ASSUME Bad # {} PROVE FALSE
  BY <1>1
<1>3. Bad \in SUBSET Nat
  BY <1>1
<1>4. PICK m \in Bad : \A k \in Bad : m <= k
  BY <1>2, <1>3, LeastNat
<1>5. m \in a .. s.n /\ m # a
  BY <1>4
<1>6. m - 1 \in a .. s.n /\ m \in 1 .. s.n /\ ~(m <= m - 1)
  BY <1>1, <1>5
<1> HIDE DEF Bad
<1>7. m - 1 \notin Bad
  BY <1>4, <1>6
<1>8. w[m - 1] = Nil
  BY <1>6, <1>7 DEF Bad
<1>9. w[m] = Nil
  BY <1>6, <1>8 DEF Walks, Succ
<1>10. QED
  BY <1>4, <1>9 DEF Bad

\* Every chain ends: a chain of more than n nodes would meet a node twice, and
\* ranks fall along it.
LEMMA WalkEnds ==
    ASSUME NEW s, IsTab(s), Acyclic(s), NEW h, NEW w, Walks(s, h, w)
    PROVE  w[s.n] = Nil
<1> SUFFICES ASSUME w[s.n] # Nil PROVE FALSE
  OBVIOUS
<1>1. s.n \in Nat \ {0} /\ s.n - 1 \in Nat
  BY TabTypes
<1>2. \A i \in 0 .. s.n : w[i] # Nil
  BY WalkEnded
<1>3. w \in [0 .. s.n -> 0 .. s.n - 1]
  BY <1>2 DEF Walks, Nodes
<1>4. \A i \in 1 .. s.n : w[i] = s.next[w[i - 1]]
  <2>1. \A i \in 1 .. s.n : i - 1 \in 0 .. s.n
    BY <1>1
  <2>2. QED
    BY <1>2, <2>1 DEF Walks, Succ
<1>5. PICK rk : Ranks(s, rk)
  BY DEF Acyclic
<1>6. ASSUME NEW a \in 0 .. s.n, NEW b \in 0 .. s.n, a < b
      PROVE  w[a] # w[b]
  <2> DEFINE Bad == {i \in a + 1 .. s.n : ~(rk[w[i]] < rk[w[a]])}
  <2>0. \A i \in 0 .. s.n : w[i] \in Nodes(s) /\ rk[w[i]] \in Nat
    BY <1>3, <1>5 DEF Ranks, Nodes
  <2>1. \A i \in 1 .. s.n : rk[w[i]] < rk[w[i - 1]]
    <3>1. SUFFICES ASSUME NEW i \in 1 .. s.n PROVE rk[w[i]] < rk[w[i - 1]]
      OBVIOUS
    <3>2. i - 1 \in 0 .. s.n /\ i \in 0 .. s.n
      BY <1>1
    <3>3. w[i - 1] \in Nodes(s) /\ s.next[w[i - 1]] = w[i] /\ w[i] # Nil
      BY <3>2, <2>0, <1>2, <1>4
    <3>4. QED
      BY <3>3, <1>5 DEF Ranks
  <2>2. Bad = {}
    <3>1. SUFFICES ASSUME Bad # {} PROVE FALSE
      OBVIOUS
    <3>2. Bad \in SUBSET Nat
      OBVIOUS
    <3>3. PICK m \in Bad : \A k \in Bad : m <= k
      BY <3>1, <3>2, LeastNat
    <3>4. m \in a + 1 .. s.n /\ ~(rk[w[m]] < rk[w[a]])
      BY <3>3
    <3>5. m \in 1 .. s.n /\ m - 1 \in 0 .. s.n /\ ~(m <= m - 1) /\ m \in 0 .. s.n
          /\ (m # a + 1 => m - 1 \in a + 1 .. s.n) /\ (m = a + 1 => m - 1 = a)
      BY <3>4, <1>1
    <3> HIDE DEF Bad
    <3>6. rk[w[m - 1]] < rk[w[a]] \/ m - 1 = a
      BY <3>3, <3>5 DEF Bad
    <3>7. rk[w[m]] < rk[w[m - 1]]
      BY <2>1, <3>5
    <3> DEFINE x == rk[w[m]]  y == rk[w[m - 1]]  z == rk[w[a]]
    <3>8. x \in Nat /\ y \in Nat /\ z \in Nat
      BY <2>0, <3>5
    <3>9. y < z \/ y = z
      BY <3>6
    <3> HIDE DEF x, y, z
    <3>10. x < z
      BY <3>7, <3>8, <3>9 DEF x, y
    <3>11. QED
      BY <3>4, <3>10 DEF x, z
  <2>3. b \in a + 1 .. s.n
    BY <1>1, <1>6
  <2>4. rk[w[b]] < rk[w[a]] /\ rk[w[a]] \in Nat
    BY <2>2, <2>3, <2>0
  <2>5. QED
    BY <2>4
<1>7. IsFiniteSet(0 .. s.n) /\ Cardinality(0 .. s.n) = s.n + 1
  <2>1. 0 \in Int /\ s.n \in Int /\ ~(0 > s.n) /\ s.n - 0 + 1 = s.n + 1
    BY <1>1
  <2>2. QED
    BY <2>1, FS_Interval
<1>8. IsFiniteSet(0 .. s.n - 1) /\ Cardinality(0 .. s.n - 1) = s.n
  <2>1. 0 \in Int /\ s.n - 1 \in Int /\ ~(0 > s.n - 1) /\ s.n - 1 - 0 + 1 = s.n
    BY <1>1
  <2>2. QED
    BY <2>1, FS_Interval
<1>9. Cardinality(0 .. s.n - 1) < Cardinality(0 .. s.n)
  BY <1>1, <1>7, <1>8
<1>10. PICK x, y \in 0 .. s.n : x # y /\ w[x] = w[y]
  <2> DEFINE A == 0 .. s.n  B == 0 .. s.n - 1
  <2>1. w \in [A -> B] /\ IsFiniteSet(A) /\ IsFiniteSet(B) /\ Cardinality(B) < Cardinality(A)
    BY <1>3, <1>7, <1>8, <1>9
  <2> HIDE DEF A, B
  <2>2. \E x, y \in A : x # y /\ w[x] = w[y]
    BY <2>1, FS_PigeonHole
  <2>3. QED
    BY <2>2 DEF A
<1>11. x < y \/ y < x
  BY <1>10, <1>1
<1>12. QED
  BY <1>6, <1>10, <1>11

\* What can be reached is on the chain.
LEMMA WalkReaches ==
    ASSUME NEW s, IsTab(s), Acyclic(s), NEW h \in Nodes(s), NEW w, Walks(s, h, w),
           NEW i \in Nodes(s), Reach(s, h, i)
    PROVE  \E m \in 0 .. s.n : w[m] = i
<1> DEFINE S == {w[m] : m \in 0 .. s.n} \ {Nil}
<1>1. s.n \in Nat /\ w[s.n] = Nil /\ w[0] = h /\ 0 \in 0 .. s.n /\ h # Nil
  <2>1. w[s.n] = Nil
    BY WalkEnds
  <2>2. w[0] = h
    BY DEF Walks
  <2>3. s.n \in Nat /\ h # Nil
    BY TabTypes
  <2>4. QED
    BY <2>1, <2>2, <2>3
<1>2. S \in SUBSET Nodes(s) /\ h \in S
  BY <1>1 DEF Walks
<1>3. ASSUME NEW x \in S, s.next[x] # Nil PROVE s.next[x] \in S
  <2>1. PICK m \in 0 .. s.n : w[m] = x /\ x # Nil
    OBVIOUS
  <2>2. m # s.n
    BY <1>1, <2>1
  <2>3. m + 1 \in 1 .. s.n /\ m + 1 \in 0 .. s.n /\ (m + 1) - 1 = m
    BY <1>1, <2>2
  <2>4. w[m + 1] = s.next[x]
    BY <2>1, <2>3 DEF Walks, Succ
  <2>5. QED
    BY <1>3, <2>3, <2>4
<1>4. Closed(s, S)
  BY <1>2, <1>3 DEF Closed
<1> HIDE DEF S
<1>5. i \in S
  BY <1>2, <1>4 DEF Reach
<1>6. QED
  BY <1>5 DEF S

\* _Get returns a node with the key, or none.
LEMMA GetNodeType ==
    ASSUME NEW s, IsTab(s), NEW k \in Keys \cup {Null}
    PROVE  /\ GetNode(s, k) \in Nodes(s) \cup {Nil}
           /\ GetNode(s, k) # Nil => s.key[GetNode(s, k)] = k
           /\ \A m \in 0 .. s.n : LET x == Walk(s, MainPos(s, k))[m]
                                  IN  x # Nil /\ s.key[x] = k => GetNode(s, k) # Nil
<1> DEFINE w == Walk(s, MainPos(s, k))
           hits == {i \in 0 .. s.n : w[i] # Nil /\ s.key[w[i]] = k}
           c == CHOOSE i \in hits : \A j \in hits : i <= j
<1>1. w \in [0 .. s.n -> Nodes(s) \cup {Nil}]
  BY MainPosType, WalkSteps DEF Walks
<1>2. GetNode(s, k) = IF hits = {} THEN Nil ELSE w[c]
  BY DEF GetNode
<1>3. hits \in SUBSET Nat
  OBVIOUS
<1>4. hits # {} => c \in hits
  <2>1. ASSUME hits # {} PROVE \E i \in hits : \A j \in hits : i <= j
    BY <2>1, <1>3, LeastNat
  <2> HIDE DEF hits
  <2>2. QED
    BY <2>1
<1> HIDE DEF c
<1>5. hits # {} => w[c] \in Nodes(s) \cup {Nil} /\ w[c] # Nil /\ s.key[w[c]] = k
  BY <1>1, <1>4
<1>6. \A m \in 0 .. s.n : w[m] # Nil /\ s.key[w[m]] = k => hits # {}
  OBVIOUS
<1> HIDE DEF hits, w
<1>7. QED
  BY <1>2, <1>5, <1>6 DEF w

\* Every key of a table is found at its node, and no other.
LEMMA GetNodeFinds ==
    ASSUME NEW s, IsTab(s), Acyclic(s), Unique(s), Reached(s), NEW k \in Keys
    PROVE  /\ \A i \in Nodes(s) : s.key[i] = k => GetNode(s, k) = i
           /\ GetNode(s, k) = Nil <=> k \notin KeysOf(s)
           /\ GetNode(s, k) # Nil => GetNode(s, k) \in Nodes(s) /\ s.key[GetNode(s, k)] = k
<1>1. k # Null /\ Nil \notin Nodes(s)
  BY TabTypes
<1>2. GetNode(s, k) \in Nodes(s) \cup {Nil} /\ (GetNode(s, k) # Nil => s.key[GetNode(s, k)] = k)
  BY GetNodeType
<1>3. ASSUME NEW i \in Nodes(s), s.key[i] = k PROVE GetNode(s, k) = i
  <2> DEFINE h == MainPos(s, k)
  <2>1. h \in Nodes(s)
    BY MainPosType
  <2>2. Reach(s, h, i)
    BY <1>1, <1>3 DEF Reached
  <2> DEFINE w == Walk(s, h)
  <2>3. Walks(s, h, w)
    BY <2>1, WalkSteps
  <2> HIDE DEF h, w
  <2>4. PICK m \in 0 .. s.n : w[m] = i
    BY <2>1, <2>2, <2>3, WalkReaches
  <2>5. GetNode(s, k) # Nil
    BY <2>4, <1>1, <1>3, GetNodeType DEF w, h
  <2>6. GetNode(s, k) \in Nodes(s) /\ s.key[GetNode(s, k)] = s.key[i]
    BY <2>5, <1>2, <1>3
  <2>7. QED
    BY <2>6, <1>1, <1>3 DEF Unique
<1>4. KeysOf(s) = {s.key[i] : i \in Nodes(s)} \ {Null}
  BY DEF KeysOf, Nodes
<1>5. QED
  BY <1>1, <1>2, <1>3, <1>4

\* The search of NewSlot for the node before a colliding one ends at it.
LEMMA PreviousFound ==
    ASSUME NEW s, IsTab(s), Acyclic(s), NEW h \in Nodes(s), NEW i \in Nodes(s), h # i, Reach(s, h, i)
    PROVE  Previous(s, h, i) \in Nodes(s) /\ s.next[Previous(s, h, i)] = i
<1> DEFINE w == Walk(s, h)
           S == {m \in 0 .. s.n : w[m] = i}
           c == CHOOSE j \in 0 .. s.n : w[j] # Nil /\ s.next[w[j]] = i
<1>1. Walks(s, h, w)
  BY WalkSteps
<1>2. Previous(s, h, i) = w[c]
  BY DEF Previous
<1> HIDE DEF w
<1>3. S # {} /\ S \in SUBSET Nat
  BY <1>1, WalkReaches
<1>4. PICK m \in S : \A k \in S : m <= k
  BY <1>3, LeastNat
<1>5. m \in 0 .. s.n /\ w[m] = i /\ m # 0 /\ s.n \in Nat
  BY <1>1, <1>4, TabTypes DEF Walks
<1>6. m \in 1 .. s.n /\ m - 1 \in 0 .. s.n
  BY <1>5
<1>7. i # Nil
  BY TabTypes
<1>8. w[m - 1] # Nil /\ s.next[w[m - 1]] = i
  BY <1>1, <1>5, <1>6, <1>7 DEF Walks, Succ
<1>9. c \in 0 .. s.n /\ w[c] # Nil /\ s.next[w[c]] = i
  BY <1>6, <1>8
<1> HIDE DEF c
<1>10. QED
  BY <1>1, <1>2, <1>9 DEF Walks

-----------------------------------------------------------------------------
(* NewSlot: the node for a new key.                                        *)

\* What Place leaves alone.
SameFrame(s, s2) ==
    IsTab(s2) /\ s2.n = s.n /\ s2.free = s.free /\ s2.used = s.used /\ s2.full = s.full

\* The key goes to its main position, which has no key.
InMain(s, k, s2, x) ==
    LET mp == MainPos(s, k) IN
    /\ s.key[mp] = Null /\ x = mp
    /\ \A i \in Nodes(s) : /\ s2.key[i] = IF i = mp THEN k ELSE s.key[i]
                           /\ s2.val[i] = s.val[i] /\ s2.next[i] = s.next[i]

\* The key of another chain that is in the main position moves to _firstfree.
InMoved(s, k, s2, x) ==
    LET mp == MainPos(s, k)
        n == s.free
        mph == MainPos(s, s.key[mp])
        q == Previous(s, mph, mp)
    IN
    /\ s.key[mp] # Null /\ mp > n /\ mph # mp /\ x = mp
    /\ \A i \in Nodes(s) :
          /\ s2.key[i] = IF i = mp THEN k ELSE IF i = n THEN s.key[mp] ELSE s.key[i]
          /\ s2.val[i] = IF i = mp THEN Nil ELSE IF i = n THEN s.val[mp] ELSE s.val[i]
          /\ s2.next[i] = IF i = mp THEN Nil ELSE IF i = n THEN s.next[mp]
                          ELSE IF i = q THEN n ELSE s.next[i]

\* The key goes to _firstfree, which is linked in after the main position.
InFree(s, k, s2, x) ==
    LET mp == MainPos(s, k)
        n == s.free
    IN
    /\ s.key[mp] # Null /\ (mp <= n \/ MainPos(s, s.key[mp]) = mp) /\ x = n
    /\ \A i \in Nodes(s) :
          /\ s2.key[i] = IF i = n THEN k ELSE s.key[i]
          /\ s2.val[i] = s.val[i]
          /\ s2.next[i] = IF i = mp THEN n ELSE IF i = n THEN s.next[mp] ELSE s.next[i]

\* The three ways of Place, node by node.
LEMMA PlaceCases ==
    ASSUME NEW s, IsTab(s), NEW k \in Keys
    PROVE  LET p == Place(s, k) IN
           /\ SameFrame(s, p.tab) /\ p.node \in Nodes(s)
           /\ InMain(s, k, p.tab, p.node) \/ InMoved(s, k, p.tab, p.node) \/ InFree(s, k, p.tab, p.node)
<1> DEFINE mp == MainPos(s, k)
           n == s.free
           mph == MainPos(s, s.key[mp])
           q == Previous(s, mph, mp)
           s1 == [s EXCEPT !.key[mp] = k]
           s2 == [s EXCEPT !.next[q] = n, !.key[n] = s.key[mp], !.val[n] = s.val[mp],
                           !.next[n] = s.next[mp], !.next[mp] = Nil, !.key[mp] = k, !.val[mp] = Nil]
           s3 == [s EXCEPT !.next[n] = s.next[mp], !.next[mp] = n, !.key[n] = k]
           N == Nodes(s)
<1>1. s.n \in Nat \ {0} /\ N = 0 .. s.n - 1
  BY TabTypes
<1>2. mp \in N /\ n \in N
  BY MainPosType, TabTypes
<1>3. s.key[mp] \in Keys \cup {Null} /\ s.val[mp] \in Vals \cup {Nil} /\ s.next[mp] \in N \cup {Nil}
  BY <1>2, TabTypes
<1>4. s \in [n : {s.n}, key : [N -> Keys \cup {Null}], val : [N -> Vals \cup {Nil}],
             next : [N -> N \cup {Nil}], free : N, used : Nat, full : BOOLEAN]
  BY <1>1 DEF IsTab, Tabs
<1>5. \A x : x \in [n : {s.n}, key : [N -> Keys \cup {Null}], val : [N -> Vals \cup {Nil}],
                    next : [N -> N \cup {Nil}], free : N, used : Nat, full : BOOLEAN]
             => IsTab(x)
  BY <1>1 DEF IsTab, Tabs
<1>6. Place(s, k) = IF s.key[mp] = Null THEN [tab |-> s1, node |-> mp]
                    ELSE IF mp > n /\ mph # mp THEN [tab |-> s2, node |-> mp]
                    ELSE [tab |-> s3, node |-> n]
  BY DEF Place
<1>7. mp \in Nat /\ n \in Nat
  BY <1>1, <1>2
<1> HIDE DEF mp, n, mph, q, N
<1>8. CASE s.key[mp] = Null
  <2>1. SameFrame(s, s1)
    BY <1>2, <1>3, <1>4, <1>5 DEF SameFrame
  <2>2. InMain(s, k, s1, mp)
    BY <1>8, <1>2, <1>4 DEF InMain, mp, N
  <2> HIDE DEF s1, s2, s3
  <2>3. Place(s, k).tab = s1 /\ Place(s, k).node = mp
    BY <1>6, <1>8
  <2>4. QED
    BY <2>1, <2>2, <2>3, <1>2 DEF N
<1>9. CASE s.key[mp] # Null /\ mp > n /\ mph # mp
  <2>1. s2 \in [n : {s.n}, key : [N -> Keys \cup {Null}], val : [N -> Vals \cup {Nil}],
                next : [N -> N \cup {Nil}], free : N, used : Nat, full : BOOLEAN]
    BY <1>2, <1>3, <1>4
  <2>2. SameFrame(s, s2)
    BY <1>4, <1>5, <2>1 DEF SameFrame
  <2>3. ASSUME NEW i \in N
        PROVE  /\ s2.key[i] = IF i = mp THEN k ELSE IF i = n THEN s.key[mp] ELSE s.key[i]
               /\ s2.val[i] = IF i = mp THEN Nil ELSE IF i = n THEN s.val[mp] ELSE s.val[i]
               /\ s2.next[i] = IF i = mp THEN Nil ELSE IF i = n THEN s.next[mp]
                               ELSE IF i = q THEN n ELSE s.next[i]
    BY <1>2, <1>4
  <2> HIDE DEF s1, s2, s3
  <2>4. InMoved(s, k, s2, mp)
    BY <1>9, <2>3 DEF InMoved, mp, mph, q, n, N
  <2>5. Place(s, k).tab = s2 /\ Place(s, k).node = mp
    BY <1>6, <1>9
  <2>6. QED
    BY <2>2, <2>4, <2>5, <1>2 DEF N
<1>10. CASE s.key[mp] # Null /\ ~(mp > n /\ mph # mp)
  <2>1. s3 \in [n : {s.n}, key : [N -> Keys \cup {Null}], val : [N -> Vals \cup {Nil}],
                next : [N -> N \cup {Nil}], free : N, used : Nat, full : BOOLEAN]
    BY <1>2, <1>3, <1>4
  <2>2. SameFrame(s, s3)
    BY <1>4, <1>5, <2>1 DEF SameFrame
  <2>3. ASSUME NEW i \in N
        PROVE  /\ s3.key[i] = IF i = n THEN k ELSE s.key[i]
               /\ s3.val[i] = s.val[i]
               /\ s3.next[i] = IF i = mp THEN n ELSE IF i = n THEN s.next[mp] ELSE s.next[i]
    BY <1>2, <1>4
  <2>4. mp <= n \/ mph = mp
    BY <1>7, <1>10
  <2> HIDE DEF s1, s2, s3
  <2>5. InFree(s, k, s3, n)
    BY <1>10, <2>3, <2>4 DEF InFree, mp, mph, n, N
  <2>6. Place(s, k).tab = s3 /\ Place(s, k).node = n
    BY <1>6, <1>10
  <2>7. QED
    BY <2>2, <2>5, <2>6, <1>2 DEF N
<1>11. QED
  BY <1>8, <1>9, <1>10

\* The table has the new key at x, and its other slots are those of before.
Joins(s, k, s2, x) ==
    /\ Sound(s2) /\ x \in Nodes(s2) /\ s2.key[x] = k
    /\ \A kk \in Keys \ {k}, v \in Vals \cup {Nil} : Has(s2, kk, v) <=> Has(s, kk, v)
    /\ Fresh(s) => Fresh(s2)

\* NewSlot has not found the key.
Misses(s, k) == Sound(s) /\ FreeOK(s) /\ k \notin KeysOf(s)

\* No node links to _firstfree, no key has its main position there.
LEMMA FreeFacts ==
    ASSUME NEW s, NEW k \in Keys, Misses(s, k)
    PROVE  /\ \A i \in Nodes(s) : s.next[i] # s.free
           /\ \A i \in Nodes(s) : s.key[i] # Null => MainPos(s, s.key[i]) # s.free
           /\ \A i \in Nodes(s) : s.key[i] # k
<1>1. IsTab(s) /\ s.key[s.free] = Null /\ s.next[s.free] = Nil
  BY DEF Misses, Sound, FreeOK
<1>2. s.free \in Nodes(s) /\ Nil \notin Nodes(s)
  BY <1>1, TabTypes
<1>3. \A i \in Nodes(s) : s.next[i] # s.free
  BY <1>1, <1>2 DEF Misses, Sound, LinksAbove
<1>4. ASSUME NEW i \in Nodes(s), s.key[i] # Null, MainPos(s, s.key[i]) = s.free PROVE FALSE
  <2>1. Closed(s, {s.free})
    BY <1>1, <1>2 DEF Closed
  <2>2. i \in {s.free}
    BY <2>1, <1>4 DEF Misses, Sound, Reached, Reach
  <2>3. QED
    BY <2>2, <1>1, <1>4
<1>5. \A i \in Nodes(s) : s.key[i] # k
  BY DEF Misses, KeysOf, Nodes
<1>6. QED
  BY <1>3, <1>4, <1>5

\* Same nodes and main positions.
LEMMA FrameFacts ==
    ASSUME NEW s, NEW s2, SameFrame(s, s2)
    PROVE  Nodes(s2) = Nodes(s) /\ \A k : MainPos(s2, k) = MainPos(s, k)
  BY DEF SameFrame, Nodes, MainPos

\* A key in its main position.
LEMMA MainSound ==
    ASSUME NEW s, NEW k \in Keys, Misses(s, k), NEW s2, NEW x, SameFrame(s, s2), InMain(s, k, s2, x)
    PROVE  Joins(s, k, s2, x)
<1> DEFINE N == Nodes(s)
           mp == MainPos(s, k)
           H(c) == MainPos(s, c)
<1>1. /\ s.key[mp] = Null /\ x = mp
      /\ \A i \in N : /\ s2.key[i] = IF i = mp THEN k ELSE s.key[i]
                      /\ s2.val[i] = s.val[i] /\ s2.next[i] = s.next[i]
  BY DEF InMain
<1>2. /\ IsTab(s) /\ Acyclic(s) /\ OnePrevious(s) /\ LinksAbove(s) /\ Unique(s) /\ Reached(s)
      /\ StraysAbove(s) /\ StraysAlone(s)
  BY DEF Misses, Sound
<1>3. Nodes(s2) = N /\ (\A c : MainPos(s2, c) = H(c)) /\ IsTab(s2) /\ s2.free = s.free
  BY FrameFacts DEF SameFrame
<1>4. mp \in N /\ k # Null /\ H(k) = mp /\ s.free \in N /\ N \subseteq Nat
  BY <1>2, MainPosType, TabTypes
<1>5. /\ \A i \in N : s.next[i] # s.free /\ s.key[i] # k
  BY FreeFacts
<1> HIDE DEF N, mp, H
<1>6. Acyclic(s2)
  <2>1. PICK rk : Ranks(s, rk)
    BY <1>2 DEF Acyclic
  <2>2. Ranks(s2, rk)
    BY <2>1, <1>1, <1>3 DEF Ranks, N
  <2>3. QED
    BY <2>2 DEF Acyclic
<1>7. OnePrevious(s2)
  BY <1>1, <1>2, <1>3 DEF OnePrevious, N
<1>8. LinksAbove(s2)
  BY <1>1, <1>2, <1>3, <1>5 DEF LinksAbove, N
<1>9. Unique(s2)
  BY <1>1, <1>2, <1>3, <1>5 DEF Unique, N
<1>10. Reached(s2)
  <2>1. SUFFICES ASSUME NEW i \in N, s2.key[i] # Null, NEW S, Closed(s2, S), H(s2.key[i]) \in S
                 PROVE  i \in S
    BY <1>3 DEF Reached, Reach
  <2>2. CASE i = mp
    BY <2>1, <2>2, <1>1, <1>4
  <2>3. CASE i # mp
    <3>1. Closed(s, S)
      BY <2>1, <1>1, <1>3 DEF Closed, N
    <3>2. s.key[i] = s2.key[i]
      BY <2>3, <1>1
    <3>3. QED
      BY <3>1, <3>2, <2>1, <1>2 DEF Reached, Reach, H, N
  <2>4. QED
    BY <2>2, <2>3
<1>11. \A i \in N : Stray(s2, i) => Stray(s, i) /\ i # mp
  BY <1>1, <1>3, <1>4 DEF Stray, H
<1>12. StraysAbove(s2)
  BY <1>2, <1>3, <1>11 DEF StraysAbove, N
<1>13. StraysAlone(s2)
  <2>1. SUFFICES ASSUME NEW i \in N, NEW j \in N, Stray(s2, i), s2.key[j] # Null
                 PROVE  H(s2.key[j]) # i
    BY <1>3 DEF StraysAlone
  <2>2. Stray(s, i) /\ i # mp
    BY <1>11, <2>1
  <2>3. CASE j = mp
    BY <2>2, <2>3, <1>1, <1>4
  <2>4. CASE j # mp
    <3>1. s2.key[j] = s.key[j]
      BY <2>4, <1>1
    <3>2. QED
      BY <3>1, <2>1, <2>2, <1>2 DEF StraysAlone, N, H
  <2>5. QED
    BY <2>3, <2>4
<1>14. \A kk \in Keys \ {k}, v \in Vals \cup {Nil} : Has(s2, kk, v) <=> Has(s, kk, v)
  BY <1>1, <1>3 DEF Has, N
<1>15. Fresh(s) => Fresh(s2)
  BY <1>1, <1>3, <1>4 DEF Fresh, N
<1>16. x \in Nodes(s2) /\ s2.key[x] = k
  BY <1>1, <1>3, <1>4
<1>17. QED
  BY <1>3, <1>6, <1>7, <1>8, <1>9, <1>10, <1>12, <1>13, <1>14, <1>15, <1>16 DEF Joins, Sound

\* A key in _firstfree.
LEMMA FreeSound ==
    ASSUME NEW s, NEW k \in Keys, Misses(s, k), NEW s2, NEW x, SameFrame(s, s2), InFree(s, k, s2, x)
    PROVE  Joins(s, k, s2, x)
<1> DEFINE N == Nodes(s)
           mp == MainPos(s, k)
           n == s.free
           H(c) == MainPos(s, c)
<1>1. /\ s.key[mp] # Null /\ (mp <= n \/ H(s.key[mp]) = mp) /\ x = n
      /\ \A i \in N : /\ s2.key[i] = IF i = n THEN k ELSE s.key[i]
                      /\ s2.val[i] = s.val[i]
                      /\ s2.next[i] = IF i = mp THEN n ELSE IF i = n THEN s.next[mp] ELSE s.next[i]
  BY DEF InFree
<1>2. /\ IsTab(s) /\ Acyclic(s) /\ OnePrevious(s) /\ LinksAbove(s) /\ Unique(s) /\ Reached(s)
      /\ StraysAbove(s) /\ StraysAlone(s) /\ s.key[n] = Null /\ s.next[n] = Nil
  BY DEF Misses, Sound, FreeOK
<1>3. Nodes(s2) = N /\ (\A c : MainPos(s2, c) = H(c)) /\ IsTab(s2) /\ s2.free = n
  BY FrameFacts DEF SameFrame
<1>4. mp \in N /\ k # Null /\ H(k) = mp /\ n \in N /\ N \subseteq Nat /\ Nil \notin N
      /\ s.next[mp] \in N \cup {Nil}
  BY <1>2, MainPosType, TabTypes
<1>5. \A i \in N : /\ s.next[i] # n /\ s.key[i] # k
                   /\ s.key[i] # Null => H(s.key[i]) # n
  BY FreeFacts
<1>6. mp # n
  BY <1>1, <1>2
<1>7. H(s.key[mp]) = mp
  <2>1. ASSUME H(s.key[mp]) # mp PROVE FALSE
    <3>1. mp >= n
      BY <2>1, <1>1, <1>2, <1>4 DEF StraysAbove, Stray
    <3>2. mp \in Nat /\ n \in Nat
      BY <1>4
    <3> HIDE DEF mp, n
    <3>3. mp <= n
      BY <2>1, <1>1
    <3>4. QED
      BY <3>1, <3>2, <3>3, <1>6
  <2>2. QED
    BY <2>1
<1> HIDE DEF N, mp, n, H
<1>8. Acyclic(s2)
  <2>1. PICK rk : Ranks(s, rk)
    BY <1>2 DEF Acyclic
  <2> DEFINE r2 == [i \in N |-> IF i = n THEN 2 * rk[mp] ELSE 2 * rk[i] + 1]
  <2>2. rk \in [N -> Nat] /\ \A i \in N : s.next[i] # Nil => rk[s.next[i]] < rk[i]
    BY <2>1 DEF Ranks, N
  <2>3. \A i \in N : rk[i] \in Nat
    BY <2>2
  <2>4. r2 \in [N -> Nat]
    BY <2>3, <1>4
  <2>5. ASSUME NEW i \in N, s2.next[i] # Nil PROVE r2[s2.next[i]] < r2[i]
    <3>1. CASE i = mp
      <4>1. s2.next[i] = n /\ r2[n] = 2 * rk[mp] /\ r2[i] = 2 * rk[mp] + 1
        BY <3>1, <1>1, <1>4, <1>6
      <4>2. rk[mp] \in Nat
        BY <2>3, <1>4
      <4> HIDE DEF r2
      <4>3. QED
        BY <4>1, <4>2
    <3>2. CASE i = n
      <4>1. s2.next[i] = s.next[mp] /\ s.next[mp] # Nil /\ s.next[mp] # n
        BY <3>2, <2>5, <1>1, <1>4, <1>5, <1>6
      <4> DEFINE y == s.next[mp]
      <4>2. y \in N /\ y # n /\ rk[y] < rk[mp] /\ rk[y] \in Nat /\ rk[mp] \in Nat
        BY <4>1, <1>4, <2>2, <2>3
      <4> HIDE DEF y
      <4>3. r2[y] = 2 * rk[y] + 1 /\ r2[n] = 2 * rk[mp]
        BY <4>2, <1>4
      <4> HIDE DEF r2
      <4>4. r2[y] < r2[n]
        BY <4>2, <4>3
      <4>5. QED
        BY <4>1, <4>4, <3>2 DEF y
    <3>3. CASE i # mp /\ i # n
      <4> DEFINE y == s.next[i]
      <4>1. s2.next[i] = y /\ y # Nil /\ y # n
        BY <3>3, <2>5, <1>1, <1>5
      <4>2. y \in N
        BY <4>1, <1>2, TabTypes DEF N
      <4>3. rk[y] < rk[i] /\ rk[y] \in Nat /\ rk[i] \in Nat
        BY <4>1, <4>2, <2>2, <2>3
      <4> HIDE DEF y
      <4>4. r2[y] = 2 * rk[y] + 1 /\ r2[i] = 2 * rk[i] + 1
        BY <4>1, <4>2, <3>3
      <4> HIDE DEF r2
      <4>5. r2[y] < r2[i]
        BY <4>3, <4>4
      <4>6. QED
        BY <4>1, <4>5
    <3>4. QED
      BY <3>1, <3>2, <3>3
  <2> HIDE DEF r2
  <2>6. Ranks(s2, r2)
    BY <2>4, <2>5, <1>3 DEF Ranks
  <2>7. QED
    BY <2>6 DEF Acyclic
<1>9. OnePrevious(s2)
  <2>1. \A i, j \in N : s.next[i] # Nil /\ s.next[i] = s.next[j] => i = j
    BY <1>2 DEF OnePrevious, N
  <2>2. SUFFICES ASSUME NEW i \in N, NEW j \in N, s2.next[i] # Nil, s2.next[i] = s2.next[j]
                 PROVE  i = j
    BY <1>3 DEF OnePrevious
  <2>3. \A y \in N : s2.next[y] = n <=> y = mp
    BY <1>1, <1>4, <1>5, <1>6
  <2>4. \A y \in N : y # mp => s2.next[y] = IF y = n THEN s.next[mp] ELSE s.next[y]
    BY <1>1
  <2>5. CASE i = mp \/ j = mp
    BY <2>2, <2>3, <2>5
  <2>6. CASE i # mp /\ j # mp
    BY <2>1, <2>2, <2>4, <2>6, <1>4
  <2>7. QED
    BY <2>5, <2>6
<1>10. LinksAbove(s2)
  <2>1. SUFFICES ASSUME NEW i \in N, s2.next[i] # Nil
                 PROVE  s2.next[i] >= n /\ (s2.next[i] = n => s2.key[n] # Null)
    BY <1>3 DEF LinksAbove
  <2>2. s2.key[n] # Null /\ n \in Nat
    BY <1>1, <1>4
  <2>3. \A j \in N : s.next[j] # Nil => s.next[j] >= n
    BY <1>2 DEF LinksAbove, N, n
  <2>4. s2.next[i] = n \/ \E j \in N : s2.next[i] = s.next[j]
    BY <1>1, <1>4
  <2>5. CASE s2.next[i] = n
    BY <2>2, <2>5
  <2>6. CASE \E j \in N : s2.next[i] = s.next[j]
    BY <2>1, <2>2, <2>3, <2>6
  <2>7. QED
    BY <2>4, <2>5, <2>6
<1>11. Unique(s2)
  BY <1>1, <1>2, <1>3, <1>5 DEF Unique, N
<1>12. Reached(s2)
  <2>1. SUFFICES ASSUME NEW i \in N, s2.key[i] # Null, NEW S, Closed(s2, S), H(s2.key[i]) \in S
                 PROVE  i \in S
    BY <1>3 DEF Reached, Reach
  <2>2. S \in SUBSET N /\ \A y \in S : s2.next[y] # Nil => s2.next[y] \in S
    BY <2>1, <1>3 DEF Closed
  <2>3. ASSUME mp \in S PROVE n \in S
    BY <2>2, <2>3, <1>1, <1>4
  <2>4. CASE i = n
    BY <2>1, <2>3, <2>4, <1>1, <1>4
  <2>5. CASE i # n
    <3>1. ASSUME NEW y \in S, s.next[y] # Nil PROVE s.next[y] \in S
      <4>1. CASE y = mp
        <5>1. n \in S /\ s2.next[n] = s.next[mp]
          BY <4>1, <2>3, <1>1, <1>4, <1>6
        <5>2. QED
          BY <5>1, <4>1, <3>1, <2>2
      <4>2. CASE y # mp
        BY <4>2, <3>1, <2>2, <1>1, <1>2
      <4>3. QED
        BY <4>1, <4>2
    <3>2. Closed(s, S)
      BY <2>2, <3>1 DEF Closed, N
    <3>3. s.key[i] = s2.key[i]
      BY <2>5, <1>1
    <3>4. QED
      BY <3>2, <3>3, <2>1, <1>2 DEF Reached, Reach, H, N
  <2>6. QED
    BY <2>4, <2>5
<1>13. \A i \in N : Stray(s2, i) => i = n \/ (Stray(s, i) /\ i # mp)
  BY <1>1, <1>3, <1>7 DEF Stray, H
<1>14. StraysAbove(s2)
  <2>1. n >= n
    BY <1>4
  <2>2. QED
    BY <2>1, <1>2, <1>3, <1>13 DEF StraysAbove, N, n
<1>15. StraysAlone(s2)
  <2>1. SUFFICES ASSUME NEW i \in N, NEW j \in N, Stray(s2, i), s2.key[j] # Null
                 PROVE  H(s2.key[j]) # i
    BY <1>3 DEF StraysAlone
  <2>2. CASE j = n
    BY <2>1, <2>2, <1>1, <1>4, <1>6, <1>13
  <2>3. CASE j # n
    <3>1. s2.key[j] = s.key[j] /\ H(s.key[j]) # n
      BY <2>1, <2>3, <1>1, <1>5
    <3>2. i = n \/ Stray(s, i)
      BY <2>1, <1>13
    <3>3. QED
      BY <3>1, <3>2, <2>1, <1>2 DEF StraysAlone, N, H
  <2>4. QED
    BY <2>2, <2>3
<1>16. \A kk \in Keys \ {k}, v \in Vals \cup {Nil} : Has(s2, kk, v) <=> Has(s, kk, v)
  BY <1>1, <1>2, <1>3 DEF Has, N
<1>17. Fresh(s) => Fresh(s2)
  BY <1>1, <1>3, <1>4 DEF Fresh, N, n
<1>18. x \in Nodes(s2) /\ s2.key[x] = k
  BY <1>1, <1>3, <1>4
<1>19. QED
  BY <1>3, <1>8, <1>9, <1>10, <1>11, <1>12, <1>14, <1>15, <1>16, <1>17, <1>18 DEF Joins, Sound

\* A key in its main position, from which a stray key has moved.
LEMMA MovedSound ==
    ASSUME NEW s, NEW k \in Keys, Misses(s, k), NEW s2, NEW x, SameFrame(s, s2), InMoved(s, k, s2, x)
    PROVE  Joins(s, k, s2, x)
<1> DEFINE N == Nodes(s)
           mp == MainPos(s, k)
           n == s.free
           H(c) == MainPos(s, c)
           mph == H(s.key[mp])
           q == Previous(s, mph, mp)
<1>1. /\ s.key[mp] # Null /\ mp > n /\ mph # mp /\ x = mp
      /\ \A i \in N :
          /\ s2.key[i] = IF i = mp THEN k ELSE IF i = n THEN s.key[mp] ELSE s.key[i]
          /\ s2.val[i] = IF i = mp THEN Nil ELSE IF i = n THEN s.val[mp] ELSE s.val[i]
          /\ s2.next[i] = IF i = mp THEN Nil ELSE IF i = n THEN s.next[mp]
                          ELSE IF i = q THEN n ELSE s.next[i]
  BY DEF InMoved
<1>2. /\ IsTab(s) /\ Acyclic(s) /\ OnePrevious(s) /\ LinksAbove(s) /\ Unique(s) /\ Reached(s)
      /\ StraysAbove(s) /\ StraysAlone(s) /\ s.key[n] = Null /\ s.next[n] = Nil
  BY DEF Misses, Sound, FreeOK
<1>3. Nodes(s2) = N /\ (\A c : MainPos(s2, c) = H(c)) /\ IsTab(s2) /\ s2.free = n
  BY FrameFacts DEF SameFrame
<1>4. mp \in N /\ k # Null /\ H(k) = mp /\ n \in N /\ N \subseteq Nat /\ Nil \notin N
      /\ s.next[mp] \in N \cup {Nil}
  BY <1>2, MainPosType, TabTypes
<1>5. \A i \in N : /\ s.next[i] # n /\ s.key[i] # k
                   /\ s.key[i] # Null => H(s.key[i]) # n
  BY FreeFacts
<1>6. mp # n
  BY <1>1, <1>2
<1>7. mph \in N /\ Reach(s, mph, mp)
  <2>1. s.key[mp] \in Keys \cup {Null}
    BY <1>2, <1>4, TabTypes
  <2>2. mph \in N
    BY <2>1, <1>2, MainPosType
  <2>3. QED
    BY <2>2, <1>1, <1>2, <1>4 DEF Reached
<1>8. q \in N /\ s.next[q] = mp
  BY <1>1, <1>2, <1>4, <1>7, PreviousFound
<1> HIDE DEF N, mp, n, H, mph, q
<1>9. q # n /\ \A i \in N : s.next[i] = mp <=> i = q
  BY <1>2, <1>4, <1>8 DEF OnePrevious, N
<1>10. q # mp /\ Acyclic(s2)
  <2>1. PICK rk : Ranks(s, rk)
    BY <1>2 DEF Acyclic
  <2> DEFINE r2 == [i \in N |-> IF i = n THEN rk[mp] ELSE rk[i]]
  <2>2. rk \in [N -> Nat] /\ \A i \in N : s.next[i] # Nil => rk[s.next[i]] < rk[i]
    BY <2>1 DEF Ranks, N
  <2>3. q # mp
    <3>1. rk[mp] < rk[q] /\ rk[mp] \in Nat
      BY <2>2, <1>4, <1>8
    <3>2. QED
      BY <3>1
  <2>4. r2 \in [N -> Nat]
    BY <2>2, <1>4
  <2>5. ASSUME NEW i \in N, s2.next[i] # Nil PROVE r2[s2.next[i]] < r2[i]
    <3>1. i # mp
      BY <2>5, <1>1
    <3>2. CASE i = n
      <4>1. s2.next[i] = s.next[mp] /\ s.next[mp] \in N /\ s.next[mp] # n
        BY <3>2, <2>5, <1>1, <1>4, <1>5, <1>6
      <4>2. r2[s.next[mp]] = rk[s.next[mp]] /\ r2[n] = rk[mp]
        BY <4>1, <1>4
      <4>3. rk[s.next[mp]] < rk[mp]
        BY <4>1, <1>4, <2>2
      <4> HIDE DEF r2
      <4>4. QED
        BY <4>1, <4>2, <4>3, <3>2
    <3>3. CASE i = q
      <4>1. s2.next[i] = n /\ r2[n] = rk[mp] /\ r2[q] = rk[q]
        BY <3>3, <1>1, <1>4, <1>8, <1>9, <2>3
      <4>2. rk[mp] < rk[q]
        BY <2>2, <1>4, <1>8
      <4> HIDE DEF r2
      <4>3. QED
        BY <4>1, <4>2, <3>3
    <3>4. CASE i # n /\ i # q
      <4> DEFINE y == s.next[i]
      <4>1. s2.next[i] = y /\ y # Nil /\ y # n
        BY <3>1, <3>4, <2>5, <1>1, <1>5
      <4>2. y \in N
        BY <4>1, <1>2, TabTypes DEF N
      <4>3. rk[y] < rk[i]
        BY <4>1, <2>2
      <4> HIDE DEF y
      <4>4. r2[y] = rk[y] /\ r2[i] = rk[i]
        BY <4>1, <4>2, <3>4
      <4> HIDE DEF r2
      <4>5. QED
        BY <4>1, <4>3, <4>4
    <3>5. QED
      BY <3>2, <3>3, <3>4
  <2> HIDE DEF r2
  <2>6. Ranks(s2, r2)
    BY <2>4, <2>5, <1>3 DEF Ranks
  <2>7. QED
    BY <2>3, <2>6 DEF Acyclic
<1>11. OnePrevious(s2)
  <2>1. \A i, j \in N : s.next[i] # Nil /\ s.next[i] = s.next[j] => i = j
    BY <1>2 DEF OnePrevious, N
  <2>2. SUFFICES ASSUME NEW i \in N, NEW j \in N, s2.next[i] # Nil, s2.next[i] = s2.next[j]
                 PROVE  i = j
    BY <1>3 DEF OnePrevious
  <2>3. \A y \in N : s2.next[y] = n <=> y = q
    BY <1>1, <1>4, <1>5, <1>6, <1>8, <1>9, <1>10
  <2>4. \A y \in N : y # q /\ y # mp => s2.next[y] = IF y = n THEN s.next[mp] ELSE s.next[y]
    BY <1>1
  <2>5. i # mp /\ j # mp
    BY <2>2, <1>1
  <2>6. CASE i = q \/ j = q
    BY <2>2, <2>3, <2>6
  <2>7. CASE i # q /\ j # q
    BY <2>1, <2>2, <2>4, <2>5, <2>7, <1>4
  <2>8. QED
    BY <2>6, <2>7
<1>12. LinksAbove(s2)
  <2>1. SUFFICES ASSUME NEW i \in N, s2.next[i] # Nil
                 PROVE  s2.next[i] >= n /\ (s2.next[i] = n => s2.key[n] # Null)
    BY <1>3 DEF LinksAbove
  <2>2. s2.key[n] # Null /\ n \in Nat
    BY <1>1, <1>4, <1>6
  <2>3. \A j \in N : s.next[j] # Nil => s.next[j] >= n
    BY <1>2 DEF LinksAbove, N, n
  <2>4. s2.next[i] = n \/ \E j \in N : s2.next[i] = s.next[j]
    BY <2>1, <1>1, <1>4
  <2>5. CASE s2.next[i] = n
    BY <2>2, <2>5
  <2>6. CASE \E j \in N : s2.next[i] = s.next[j]
    BY <2>1, <2>2, <2>3, <2>6
  <2>7. QED
    BY <2>4, <2>5, <2>6
<1>13. Unique(s2)
  <2>1. \A i, j \in N : s.key[i] # Null /\ s.key[i] = s.key[j] => i = j
    BY <1>2 DEF Unique, N
  <2>2. SUFFICES ASSUME NEW i \in N, NEW j \in N, s2.key[i] # Null, s2.key[i] = s2.key[j]
                 PROVE  i = j
    BY <1>3 DEF Unique
  <2>3. \A y \in N : s2.key[y] = k <=> y = mp
    BY <1>1, <1>4, <1>5, <1>6
  <2>4. \A y \in N : y # mp => s2.key[y] = IF y = n THEN s.key[mp] ELSE s.key[y]
    BY <1>1
  <2>5. CASE i = mp \/ j = mp
    BY <2>2, <2>3, <2>5
  <2>6. CASE i # mp /\ j # mp
    BY <2>1, <2>2, <2>4, <2>6, <1>4
  <2>7. QED
    BY <2>5, <2>6
<1>14. Reached(s2)
  <2>1. SUFFICES ASSUME NEW i \in N, s2.key[i] # Null, NEW S, Closed(s2, S), H(s2.key[i]) \in S
                 PROVE  i \in S
    BY <1>3 DEF Reached, Reach
  <2>2. S \in SUBSET N /\ \A y \in S : s2.next[y] # Nil => s2.next[y] \in S
    BY <2>1, <1>3 DEF Closed
  <2> DEFINE R == IF n \in S THEN S \cup {mp} ELSE S \ {mp}
  <2>3. R \in SUBSET N /\ (mp \in R <=> n \in S) /\ \A y : y # mp => (y \in R <=> y \in S)
    BY <2>2, <1>4
  <2> HIDE DEF R
  <2>4. ASSUME NEW y \in R, s.next[y] # Nil PROVE s.next[y] \in R
    <3>1. CASE y = mp
      <4>1. n \in S /\ s2.next[n] = s.next[mp]
        BY <3>1, <2>3, <1>1, <1>4, <1>6
      <4>2. s.next[mp] \in S /\ s.next[mp] # mp
        BY <4>1, <3>1, <2>2, <2>4, <1>4, <1>9, <1>10
      <4>3. QED
        BY <4>2, <2>3, <3>1
    <3>2. CASE y = q
      <4>1. q \in S /\ s2.next[q] = n /\ n # Nil
        BY <3>2, <2>3, <1>1, <1>4, <1>8, <1>9, <1>10
      <4>2. n \in S
        BY <4>1, <2>2
      <4>3. QED
        BY <4>2, <3>2, <2>3, <1>8
    <3>3. CASE y # mp /\ y # q
      <4>1. y \in S /\ y \in N /\ y # n
        BY <3>3, <2>2, <2>3, <2>4, <1>2
      <4>2. s2.next[y] = s.next[y] /\ s.next[y] # mp
        BY <4>1, <3>3, <1>1, <1>9
      <4>3. QED
        BY <4>1, <4>2, <2>2, <2>3, <2>4
    <3>4. QED
      BY <3>1, <3>2, <3>3
  <2>5. Closed(s, R)
    BY <2>3, <2>4 DEF Closed, N
  <2>6. CASE i = mp
    BY <2>1, <2>6, <1>1, <1>4
  <2>7. CASE i = n
    <3>1. mph \in R
      BY <2>1, <2>3, <2>7, <1>1, <1>4, <1>6 DEF mph
    <3>2. mp \in R
      BY <3>1, <2>5, <1>7 DEF Reach
    <3>3. QED
      BY <3>2, <2>3, <2>7
  <2>8. CASE i # mp /\ i # n
    <3>1. s.key[i] = s2.key[i] /\ s.key[i] # Null
      BY <2>1, <2>8, <1>1
    <3>2. Stray(s, mp)
      BY <1>1 DEF Stray, mph, H
    <3>3. H(s.key[i]) # mp
      BY <3>1, <3>2, <1>2, <1>4 DEF StraysAlone, N, H
    <3>4. H(s.key[i]) \in R
      BY <3>1, <3>3, <2>1, <2>3
    <3>5. i \in R
      BY <3>1, <3>4, <2>5, <1>2 DEF Reached, Reach, H, N
    <3>6. QED
      BY <3>5, <2>3, <2>8
  <2>9. QED
    BY <2>6, <2>7, <2>8
<1>15. \A i \in N : Stray(s2, i) => i # mp /\ (i = n \/ Stray(s, i))
  BY <1>1, <1>3, <1>4 DEF Stray, H
<1>16. StraysAbove(s2)
  <2>1. n >= n
    BY <1>4
  <2>2. QED
    BY <2>1, <1>2, <1>3, <1>15 DEF StraysAbove, N, n
<1>17. StraysAlone(s2)
  <2>1. SUFFICES ASSUME NEW i \in N, NEW j \in N, Stray(s2, i), s2.key[j] # Null
                 PROVE  H(s2.key[j]) # i
    BY <1>3 DEF StraysAlone
  <2>2. i # mp /\ (i = n \/ Stray(s, i))
    BY <2>1, <1>15
  <2>3. CASE j = mp
    BY <2>2, <2>3, <1>1, <1>4
  <2>4. CASE j # mp
    <3>1. PICK y \in N : s2.key[j] = s.key[y]
      BY <2>4, <1>1, <1>4
    <3>2. H(s.key[y]) # n
      BY <3>1, <2>1, <1>5
    <3>3. QED
      BY <3>1, <3>2, <2>1, <2>2, <1>2 DEF StraysAlone, N, H
  <2>5. QED
    BY <2>3, <2>4
<1>18. ASSUME NEW kk \in Keys \ {k}, NEW v \in Vals \cup {Nil}
       PROVE  Has(s2, kk, v) <=> Has(s, kk, v)
  <2>1. kk # Null /\ kk # k
    OBVIOUS
  <2>2. ASSUME NEW i \in N, s2.key[i] = kk, s2.val[i] = v
        PROVE  \E j \in N : s.key[j] = kk /\ s.val[j] = v
    <3>1. i # mp
      BY <2>1, <2>2, <1>1
    <3>2. CASE i = n
      BY <2>2, <3>1, <3>2, <1>1, <1>4
    <3>3. CASE i # n
      BY <2>2, <3>1, <3>3, <1>1
    <3>4. QED
      BY <3>2, <3>3
  <2>3. ASSUME NEW i \in N, s.key[i] = kk, s.val[i] = v
        PROVE  \E j \in N : s2.key[j] = kk /\ s2.val[j] = v
    <3>1. i # n
      BY <2>1, <2>3, <1>2
    <3>2. CASE i = mp
      BY <2>3, <3>2, <1>1, <1>4, <1>6
    <3>3. CASE i # mp
      BY <2>3, <3>1, <3>3, <1>1
    <3>4. QED
      BY <3>2, <3>3
  <2>4. QED
    BY <2>2, <2>3, <1>3 DEF Has, N
<1>19. Fresh(s) => Fresh(s2)
  BY <1>1, <1>3, <1>4, <1>8, <1>9, <1>10 DEF Fresh, N, n
<1>20. x \in Nodes(s2) /\ s2.key[x] = k
  BY <1>1, <1>3, <1>4
<1>21. QED
  BY <1>3, <1>10, <1>11, <1>12, <1>13, <1>14, <1>16, <1>17, <1>18, <1>19, <1>20 DEF Joins, Sound

\* A bounded non-empty set of naturals has a greatest element.
LEMMA GreatestNat ==
    ASSUME NEW m \in Nat, NEW S \in SUBSET (0 .. m), S # {}
    PROVE  \E x \in S : \A y \in S : y <= x
<1> DEFINE U == {b \in Nat : \A y \in S : y <= b}
<1>1. m \in U
  OBVIOUS
<1>2. PICK u \in U : \A b \in U : u <= b
  <2>1. U \in SUBSET Nat /\ U # {}
    BY <1>1
  <2> HIDE DEF U
  <2>2. QED
    BY <2>1, LeastNat
<1>3. u \in S
  <2>1. SUFFICES ASSUME u \notin S PROVE FALSE
    OBVIOUS
  <2>2. \A y \in S : y \in Nat /\ y < u
    BY <1>2, <2>1
  <2>3. u \in Nat /\ u # 0
    <3>1. PICK y \in S : y \in Nat /\ y < u
      BY <2>2
    <3>2. QED
      BY <3>1, <1>2
  <2>4. u - 1 \in U
    BY <2>2, <2>3
  <2>5. QED
    BY <2>3, <2>4, <1>2
<1>4. QED
  BY <1>2, <1>3

-----------------------------------------------------------------------------
(* NewSlot: the next _firstfree.                                           *)

\* Where CorrectFree looks.
Spare(s, i) == i \in Nodes(s) /\ i <= s.free /\ s.key[i] = Null /\ s.next[i] = Nil

\* There is a free node: the value is stored and the slot is counted.
Frees(s, s2, x, v) ==
    /\ IsTab(s2) /\ s2.n = s.n /\ s2.key = s.key /\ s2.next = s.next /\ s2.full = s.full
    /\ s2.used = s.used + 1
    /\ \A i \in Nodes(s) : s2.val[i] = IF i = x THEN v ELSE s.val[i]
    /\ Spare(s, s2.free) /\ \A i : Spare(s, i) => i <= s2.free

\* There is none.
Fills(s, s2) ==
    /\ IsTab(s2) /\ s2.n = s.n /\ s2.key = s.key /\ s2.next = s.next /\ s2.val = s.val
    /\ s2.used = s.used /\ s2.full /\ \A i : ~Spare(s, i)

\* The loop that corrects _firstfree ends in one of these.
LEMMA CorrectFreeCases ==
    ASSUME NEW s, IsTab(s), NEW x \in Nodes(s), NEW v \in Vals \cup {Nil}
    PROVE  Frees(s, CorrectFree(s, x, v), x, v) \/ Fills(s, CorrectFree(s, x, v))
<1> DEFINE ok == {i \in 0 .. s.free : s.key[i] = Null /\ s.next[i] = Nil}
           c == CHOOSE i \in ok : \A j \in ok : j <= i
           N == Nodes(s)
           s1 == [s EXCEPT !.free = 0, !.full = TRUE]
           s2 == [s EXCEPT !.free = c, !.val[x] = v, !.used = @ + 1]
<1>1. s.n \in Nat \ {0} /\ N = 0 .. s.n - 1 /\ s.free \in N /\ s.used \in Nat /\ 0 \in N
      /\ s.used + 1 \in Nat
  BY TabTypes
<1>2. \A i : Spare(s, i) <=> i \in ok
  BY <1>1 DEF Spare
<1>3. CorrectFree(s, x, v) = IF ok = {} THEN s1 ELSE s2
  BY DEF CorrectFree
<1>4. ok \in SUBSET (0 .. s.free) /\ s.free \in Nat
  BY <1>1
<1>5. \A i \in ok : i \in N
  BY <1>1
<1> HIDE DEF ok, N
<1>6. ok # {} => c \in ok /\ \A j \in ok : j <= c
  BY <1>4, GreatestNat
<1> HIDE DEF c
<1>7. s \in [n : {s.n}, key : [N -> Keys \cup {Null}], val : [N -> Vals \cup {Nil}],
             next : [N -> N \cup {Nil}], free : N, used : Nat, full : BOOLEAN]
  BY <1>1 DEF IsTab, Tabs
<1>8. \A y : y \in [n : {s.n}, key : [N -> Keys \cup {Null}], val : [N -> Vals \cup {Nil}],
                    next : [N -> N \cup {Nil}], free : N, used : Nat, full : BOOLEAN]
             => IsTab(y)
  BY <1>1 DEF IsTab, Tabs
<1>9. CASE ok = {}
  <2>1. s1 \in [n : {s.n}, key : [N -> Keys \cup {Null}], val : [N -> Vals \cup {Nil}],
             next : [N -> N \cup {Nil}], free : N, used : Nat, full : BOOLEAN]
    BY <1>1, <1>7
  <2>2. s1.n = s.n /\ s1.key = s.key /\ s1.next = s.next /\ s1.val = s.val
        /\ s1.used = s.used /\ s1.full = TRUE
    BY <1>7
  <2> HIDE DEF s1
  <2>3. Fills(s, s1)
    BY <2>1, <2>2, <1>2, <1>8, <1>9 DEF Fills
  <2>4. QED
    BY <2>3, <1>3, <1>9
<1>10. CASE ok # {}
  <2>1. c \in N
    BY <1>5, <1>6, <1>10
  <2>2. s2 \in [n : {s.n}, key : [N -> Keys \cup {Null}], val : [N -> Vals \cup {Nil}],
             next : [N -> N \cup {Nil}], free : N, used : Nat, full : BOOLEAN]
    BY <1>1, <1>7, <2>1
  <2>3. s2.n = s.n /\ s2.key = s.key /\ s2.next = s.next /\ s2.full = s.full
        /\ s2.free = c /\ s2.used = s.used + 1
    BY <1>7
  <2>4. \A i \in N : s2.val[i] = IF i = x THEN v ELSE s.val[i]
    BY <1>7
  <2> HIDE DEF s2
  <2>5. Frees(s, s2, x, v)
    BY <2>2, <2>3, <2>4, <1>2, <1>6, <1>8, <1>10 DEF Frees, N
  <2>6. QED
    BY <2>5, <1>3, <1>10
<1>11. QED
  BY <1>9, <1>10

\* The keys of a table are those of its slots.
LEMMA KeysHeld ==
    ASSUME NEW s, IsTab(s)
    PROVE  \A k : k \in KeysOf(s) <=> k \in Keys /\ \E v \in Vals \cup {Nil} : Has(s, k, v)
<1>1. KeysOf(s) = {s.key[i] : i \in Nodes(s)} \ {Null}
  BY DEF KeysOf, Nodes
<1>2. \A i \in Nodes(s) : s.key[i] \in Keys \cup {Null} /\ s.val[i] \in Vals \cup {Nil}
  BY TabTypes
<1>3. QED
  BY <1>1, <1>2 DEF Has

\* A table that has the slots of s, with v at k.
Stores(s, s2, k, v) ==
    /\ Good(s2) /\ s2.n = s.n
    /\ \A kk \in Keys, vv \in Vals \cup {Nil} : Has(s2, kk, vv) <=> IF kk = k THEN vv = v ELSE Has(s, kk, vv)
    /\ Fresh(s) => Fresh(s2)

\* A table in which the key has taken the last free node.
Overflows(s, s2, k) ==
    /\ IsTab(s2) /\ Unique(s2) /\ s2.full /\ s2.n = s.n /\ s2.used = s.used
    /\ k \notin KeysOf(s) /\ \E v \in Vals \cup {Nil} : Has(s2, k, v)
    /\ \A kk \in Keys \ {k}, vv \in Vals \cup {Nil} : Has(s2, kk, vv) <=> Has(s, kk, vv)
    /\ Fresh(s) => \A i \in Nodes(s2) : s2.key[i] # Null

\* A new key with a free node left.
LEMMA FreesStores ==
    ASSUME NEW s, NEW k \in Keys, Misses(s, k), Counted(s), ~s.full, NEW v \in Vals \cup {Nil},
           NEW s1, NEW x, SameFrame(s, s1), Joins(s, k, s1, x), NEW s2, Frees(s1, s2, x, v)
    PROVE  Stores(s, s2, k, v)
<1> DEFINE N == Nodes(s1)
<1>1. /\ IsTab(s1) /\ Acyclic(s1) /\ OnePrevious(s1) /\ LinksAbove(s1) /\ Unique(s1) /\ Reached(s1)
      /\ StraysAbove(s1) /\ StraysAlone(s1) /\ x \in N /\ s1.key[x] = k
  BY DEF Joins, Sound
<1>2. /\ IsTab(s2) /\ s2.n = s1.n /\ s2.key = s1.key /\ s2.next = s1.next /\ s2.full = s1.full
      /\ s2.used = s1.used + 1 /\ Nodes(s2) = N /\ \A c : MainPos(s2, c) = MainPos(s1, c)
  BY DEF Frees, Nodes, MainPos
<1>3. /\ s2.free \in N /\ s2.free <= s1.free /\ s1.key[s2.free] = Null /\ s1.next[s2.free] = Nil
      /\ s1.free \in N /\ N \subseteq Nat
  BY <1>1, TabTypes DEF Frees, Spare
<1>4. \A i \in N : s1.next[i] \in N \cup {Nil}
  BY <1>1, TabTypes
<1> HIDE DEF N
<1>5. Acyclic(s2) /\ OnePrevious(s2) /\ Unique(s2)
  BY <1>1, <1>2 DEF Acyclic, Ranks, OnePrevious, Unique, N
<1>6. LinksAbove(s2)
  <2>1. SUFFICES ASSUME NEW i \in N, s1.next[i] # Nil
                 PROVE  s1.next[i] >= s2.free /\ s1.next[i] # s2.free
    BY <1>2 DEF LinksAbove
  <2> DEFINE y == s1.next[i]  a == s1.free  b == s2.free
  <2>2. y \in Nat /\ a \in Nat /\ b \in Nat
    BY <2>1, <1>3, <1>4
  <2>3. y >= a /\ (y = a => s1.key[a] # Null) /\ b <= a /\ s1.key[b] = Null
    BY <2>1, <1>1, <1>3 DEF LinksAbove, N
  <2> HIDE DEF y, a, b
  <2>4. y >= b /\ (y = b => y = a)
    BY <2>2, <2>3
  <2>5. QED
    BY <2>3, <2>4 DEF y, b
<1>7. Reached(s2)
  BY <1>1, <1>2 DEF Reached, Reach, Closed, N
<1>8. \A i \in N : Stray(s2, i) <=> Stray(s1, i)
  BY <1>2 DEF Stray
<1>9. StraysAbove(s2)
  <2>1. SUFFICES ASSUME NEW i \in N, Stray(s1, i) PROVE i >= s2.free
    BY <1>2, <1>8 DEF StraysAbove
  <2>2. i >= s1.free
    BY <2>1, <1>1 DEF StraysAbove, N
  <2> DEFINE a == s1.free  b == s2.free
  <2>3. i \in Nat /\ a \in Nat /\ b \in Nat /\ b <= a /\ i >= a
    BY <1>3, <2>2
  <2> HIDE DEF a, b
  <2>4. i >= b
    BY <2>3
  <2>5. QED
    BY <2>4 DEF b
<1>10. StraysAlone(s2)
  BY <1>1, <1>2, <1>8 DEF StraysAlone, N
<1>11. FreeOK(s2)
  BY <1>2, <1>3 DEF FreeOK
<1>12. ASSUME NEW kk \in Keys, NEW vv \in Vals \cup {Nil}
       PROVE  Has(s2, kk, vv) <=> IF kk = k THEN vv = v ELSE Has(s, kk, vv)
  <2>1. \A i \in N : s2.key[i] = s1.key[i] /\ s2.val[i] = IF i = x THEN v ELSE s1.val[i]
    BY <1>2 DEF Frees, N
  <2>2. CASE kk = k
    <3>1. \A i \in N : s2.key[i] = k <=> i = x
      BY <2>1, <1>1 DEF Unique, N
    <3>2. QED
      BY <3>1, <2>1, <2>2, <1>1, <1>2 DEF Has
  <2>3. CASE kk # k
    <3>1. \A i \in N : s2.key[i] = kk => i # x
      BY <2>1, <2>3, <1>1
    <3>2. Has(s2, kk, vv) <=> Has(s1, kk, vv)
      BY <3>1, <2>1, <1>2 DEF Has, N
    <3>3. QED
      BY <3>2, <2>3 DEF Joins
  <2>4. QED
    BY <2>2, <2>3
<1>13. Counted(s2)
  <2>0. IsTab(s)
    BY DEF Misses, Sound
  <2>1. KeysOf(s2) = KeysOf(s) \cup {k}
    <3>1. \A c : c \in KeysOf(s2) <=> c \in Keys /\ \E vv \in Vals \cup {Nil} : Has(s2, c, vv)
      BY <1>2, KeysHeld
    <3>2. \A c : c \in KeysOf(s) <=> c \in Keys /\ \E vv \in Vals \cup {Nil} : Has(s, c, vv)
      BY <2>0, KeysHeld
    <3>3. \A c : c \in KeysOf(s2) <=> c \in KeysOf(s) \cup {k}
      BY <3>1, <3>2, <1>12
    <3>4. QED
      BY <3>3
  <2>2. IsFiniteSet(KeysOf(s)) /\ k \notin KeysOf(s)
    BY DEF Counted, Misses
  <2>3. IsFiniteSet(KeysOf(s2)) /\ Cardinality(KeysOf(s2)) = Cardinality(KeysOf(s)) + 1
    BY <2>1, <2>2, FS_AddElement
  <2>4. QED
    BY <2>3, <1>2 DEF Counted, SameFrame
<1>14. ASSUME Fresh(s) PROVE Fresh(s2)
  <2>1. \A i \in N : s1.key[i] = Null => s1.next[i] = Nil /\ i <= s1.free
    BY <1>14 DEF Joins, Fresh, N
  <2>2. \A i \in N : s1.key[i] = Null => Spare(s1, i)
    BY <2>1 DEF Spare, N
  <2>3. QED
    BY <2>1, <2>2, <1>2 DEF Fresh, Frees
<1>15. ~s2.full /\ s2.n = s.n
  BY <1>2 DEF SameFrame
<1>16. Good(s2)
  BY <1>2, <1>5, <1>6, <1>7, <1>9, <1>10, <1>11, <1>13, <1>15 DEF Good, Sound
<1>17. QED
  BY <1>12, <1>14, <1>15, <1>16 DEF Stores

\* A new key that takes the last free node.
LEMMA FillsOverflows ==
    ASSUME NEW s, NEW k \in Keys, Misses(s, k),
           NEW s1, NEW x, SameFrame(s, s1), Joins(s, k, s1, x), NEW s2, Fills(s1, s2)
    PROVE  Overflows(s, s2, k)
<1> DEFINE N == Nodes(s1)
<1>1. /\ IsTab(s1) /\ Unique(s1) /\ x \in N /\ s1.key[x] = k
      /\ \A kk \in Keys \ {k}, vv \in Vals \cup {Nil} : Has(s1, kk, vv) <=> Has(s, kk, vv)
  BY DEF Joins, Sound
<1>2. /\ IsTab(s2) /\ s2.n = s1.n /\ s2.key = s1.key /\ s2.val = s1.val /\ s2.full
      /\ s2.used = s1.used /\ Nodes(s2) = N /\ \A i : ~Spare(s1, i)
  BY DEF Fills, Nodes
<1>3. s1.val[x] \in Vals \cup {Nil} /\ s1.n = s.n /\ s1.used = s.used
  BY <1>1, TabTypes DEF SameFrame
<1> HIDE DEF N
<1>4. Unique(s2)
  BY <1>1, <1>2 DEF Unique, N
<1>5. \A kk, vv : Has(s2, kk, vv) <=> Has(s1, kk, vv)
  BY <1>2 DEF Has, N
<1>6. \E v \in Vals \cup {Nil} : Has(s2, k, v)
  BY <1>1, <1>2, <1>3 DEF Has
<1>7. ASSUME Fresh(s), NEW i \in N, s1.key[i] = Null PROVE FALSE
  <2>1. s1.next[i] = Nil /\ i <= s1.free
    BY <1>7 DEF Joins, Fresh, N
  <2>2. QED
    BY <2>1, <1>2, <1>7 DEF Spare, N
<1>8. QED
  BY <1>1, <1>2, <1>3, <1>4, <1>5, <1>6, <1>7 DEF Overflows, Misses

\* A key that is there, or the null key: only a value changes.
LEMMA PresentStores ==
    ASSUME NEW s, Good(s), NEW k \in Keys \cup {Null}, NEW v \in Vals \cup {Nil}, NEW x \in Nodes(s), s.key[x] = k
    PROVE  Stores(s, [s EXCEPT !.val[x] = v], k, v)
<1> DEFINE N == Nodes(s)
           s2 == [s EXCEPT !.val[x] = v]
<1>1. IsTab(s) /\ Unique(s) /\ s.n \in Nat \ {0}
  BY TabTypes DEF Good, Sound
<1>2. s \in [n : {s.n}, key : [N -> Keys \cup {Null}], val : [N -> Vals \cup {Nil}],
             next : [N -> N \cup {Nil}], free : N, used : Nat, full : BOOLEAN]
  BY <1>1 DEF IsTab, Tabs, Nodes
<1>3. /\ s2 \in [n : {s.n}, key : [N -> Keys \cup {Null}], val : [N -> Vals \cup {Nil}],
                 next : [N -> N \cup {Nil}], free : N, used : Nat, full : BOOLEAN]
      /\ s2.n = s.n /\ s2.key = s.key /\ s2.next = s.next /\ s2.free = s.free
      /\ s2.used = s.used /\ s2.full = s.full
      /\ \A i \in N : s2.val[i] = IF i = x THEN v ELSE s.val[i]
  BY <1>2
<1> HIDE DEF s2, N
<1>4. IsTab(s2) /\ Nodes(s2) = N /\ \A c : MainPos(s2, c) = MainPos(s, c)
  BY <1>1, <1>3 DEF IsTab, Tabs, Nodes, N, MainPos
<1>5. Sound(s2)
  <2>1. \A i \in N : Stray(s2, i) <=> Stray(s, i)
    BY <1>3, <1>4 DEF Stray
  <2>2. Acyclic(s2) /\ OnePrevious(s2) /\ LinksAbove(s2) /\ Unique(s2)
    BY <1>3, <1>4 DEF Good, Sound, Acyclic, Ranks, OnePrevious, LinksAbove, Unique, N
  <2>3. Reached(s2)
    BY <1>3, <1>4 DEF Good, Sound, Reached, Reach, Closed, N
  <2>4. StraysAbove(s2) /\ StraysAlone(s2)
    BY <1>3, <1>4, <2>1 DEF Good, Sound, StraysAbove, StraysAlone, N
  <2>5. QED
    BY <1>4, <2>2, <2>3, <2>4 DEF Sound
<1>6. Good(s2)
  <2>1. KeysOf(s2) = KeysOf(s)
    BY <1>3 DEF KeysOf
  <2>2. QED
    BY <1>3, <1>5, <2>1 DEF Good, FreeOK, Counted
<1>7. ASSUME NEW kk \in Keys, NEW vv \in Vals \cup {Nil}
      PROVE  Has(s2, kk, vv) <=> IF kk = k THEN vv = v ELSE Has(s, kk, vv)
  <2>1. kk = k => \A i \in N : s.key[i] = k <=> i = x
    BY <1>1 DEF Unique, N
  <2>2. CASE kk = k
    BY <2>1, <2>2, <1>3, <1>4 DEF Has, N
  <2>3. CASE kk # k
    BY <2>3, <1>3, <1>4 DEF Has, N
  <2>4. QED
    BY <2>2, <2>3
<1>8. Fresh(s) => Fresh(s2)
  BY <1>3, <1>4 DEF Fresh, N
<1>9. QED
  BY <1>3, <1>6, <1>7, <1>8 DEF Stores, s2

\* NewSlot, up to its call of Rehash: the slot is stored, or the new key has
\* taken the last free node.
LEMMA PutCases ==
    ASSUME NEW s, Good(s), NEW k \in Keys, NEW v \in Vals \cup {Nil}
    PROVE  Stores(s, Put(s, k, v), k, v) \/ Overflows(s, Put(s, k, v), k)
<1> DEFINE g == GetNode(s, k)
           p == Place(s, k)
<1>1. IsTab(s) /\ Acyclic(s) /\ Unique(s) /\ Reached(s)
  BY DEF Good, Sound
<1>2. (g = Nil <=> k \notin KeysOf(s)) /\ (g # Nil => g \in Nodes(s) /\ s.key[g] = k)
  BY <1>1, GetNodeFinds
<1>3. Put(s, k, v) = IF g # Nil THEN [s EXCEPT !.val[g] = v] ELSE CorrectFree(p.tab, p.node, v)
  BY DEF Put
<1> HIDE DEF g, p
<1>4. CASE g # Nil
  BY <1>2, <1>3, <1>4, PresentStores
<1>5. CASE g = Nil
  <2> DEFINE s1 == p.tab  x == p.node
  <2>1. Misses(s, k) /\ Counted(s) /\ ~s.full
    BY <1>2, <1>5 DEF Good, Misses
  <2>2. SameFrame(s, s1) /\ (InMain(s, k, s1, x) \/ InMoved(s, k, s1, x) \/ InFree(s, k, s1, x))
    BY <1>1, PlaceCases DEF p
  <2> HIDE DEF s1, x
  <2>3. Joins(s, k, s1, x)
    BY <2>1, <2>2, MainSound, MovedSound, FreeSound
  <2> DEFINE s2 == CorrectFree(s1, x, v)
  <2>4. IsTab(s1) /\ x \in Nodes(s1)
    BY <2>3 DEF Joins, Sound
  <2>5. Frees(s1, s2, x, v) \/ Fills(s1, s2)
    BY <2>4, CorrectFreeCases
  <2> HIDE DEF s2
  <2>6. Stores(s, s2, k, v) \/ Overflows(s, s2, k)
    BY <2>1, <2>2, <2>3, <2>5, FreesStores, FillsOverflows
  <2>7. QED
    BY <2>6, <1>3, <1>5 DEF s2, s1, x
<1>6. QED
  BY <1>4, <1>5

\* Put gives a table of as many nodes, whatever the links of s are.
LEMMA PutType ==
    ASSUME NEW s, IsTab(s), NEW k \in Keys, NEW v \in Vals \cup {Nil}
    PROVE  IsTab(Put(s, k, v)) /\ Put(s, k, v).n = s.n
<1> DEFINE g == GetNode(s, k)
           p == Place(s, k)
           N == Nodes(s)
<1>1. g \in N \cup {Nil} /\ s.n \in Nat \ {0}
  BY GetNodeType, TabTypes
<1>2. Put(s, k, v) = IF g # Nil THEN [s EXCEPT !.val[g] = v] ELSE CorrectFree(p.tab, p.node, v)
  BY DEF Put
<1>3. s \in [n : {s.n}, key : [N -> Keys \cup {Null}], val : [N -> Vals \cup {Nil}],
             next : [N -> N \cup {Nil}], free : N, used : Nat, full : BOOLEAN]
  BY <1>1 DEF IsTab, Tabs, Nodes
<1>4. SameFrame(s, p.tab) /\ p.node \in N
  BY PlaceCases
<1> HIDE DEF g, p, N
<1>5. CASE g # Nil
  <2> DEFINE s2 == [s EXCEPT !.val[g] = v]
  <2>1. /\ s2 \in [n : {s.n}, key : [N -> Keys \cup {Null}], val : [N -> Vals \cup {Nil}],
                   next : [N -> N \cup {Nil}], free : N, used : Nat, full : BOOLEAN]
        /\ s2.n = s.n
    BY <1>1, <1>3, <1>5
  <2> HIDE DEF s2
  <2>2. IsTab(s2)
    BY <2>1, <1>1 DEF IsTab, Tabs, Nodes, N
  <2>3. QED
    BY <2>1, <2>2, <1>2, <1>5 DEF s2
<1>6. CASE g = Nil
  <2> DEFINE s1 == p.tab  x == p.node
  <2>1. IsTab(s1) /\ x \in Nodes(s1) /\ s1.n = s.n
    BY <1>4 DEF SameFrame, Nodes, N
  <2> HIDE DEF s1, x
  <2>2. IsTab(CorrectFree(s1, x, v)) /\ CorrectFree(s1, x, v).n = s1.n
    BY <2>1, CorrectFreeCases DEF Frees, Fills
  <2>3. QED
    BY <2>1, <2>2, <1>2, <1>6 DEF s1, x
<1>7. QED
  BY <1>5, <1>6

-----------------------------------------------------------------------------
(* Rehash.                                                                 *)

\* There are as many keys as nodes at most, fewer when a node has none.
LEMMA KeysFew ==
    ASSUME NEW s, IsTab(s)
    PROVE  /\ IsFiniteSet(KeysOf(s)) /\ Cardinality(KeysOf(s)) \in Nat
           /\ Cardinality(KeysOf(s)) <= s.n
           /\ s.key[s.free] = Null => Cardinality(KeysOf(s)) <= s.n - 1
<1> DEFINE N == Nodes(s)
           f == s.free
           K == {s.key[i] : i \in N}
           K2 == {s.key[i] : i \in N \ {f}}
<1>1. s.n \in Nat \ {0} /\ N = 0 .. s.n - 1 /\ f \in N /\ KeysOf(s) = K \ {Null}
  BY TabTypes DEF KeysOf, Nodes
<1>2. IsFiniteSet(N) /\ Cardinality(N) = s.n
  <2>1. 0 \in Int /\ s.n - 1 \in Int /\ ~(0 > s.n - 1) /\ s.n - 1 - 0 + 1 = s.n
    BY <1>1
  <2>2. QED
    BY <2>1, <1>1, FS_Interval
<1>3. IsFiniteSet(N \ {f}) /\ Cardinality(N \ {f}) = s.n - 1
  BY <1>1, <1>2, FS_RemoveElement
<1> HIDE DEF N, f
<1>4. IsFiniteSet(K) /\ Cardinality(K) <= s.n /\ Cardinality(K) \in Nat
  <2> DEFINE h == [i \in N |-> s.key[i]]
  <2>1. h \in [N -> K] /\ \A y \in K : \E i \in N : h[i] = y
    OBVIOUS
  <2> HIDE DEF h, K
  <2>2. h \in Surjection(N, K)
    BY <2>1, Fun_IsSurj
  <2>3. IsFiniteSet(K) /\ Cardinality(K) <= Cardinality(N)
    BY <2>2, <1>2, FS_Surjection
  <2>4. QED
    BY <2>3, <1>2, FS_CardinalityType
<1>5. IsFiniteSet(K2) /\ Cardinality(K2) <= s.n - 1 /\ Cardinality(K2) \in Nat
  <2> DEFINE M == N \ {f}
             h == [i \in M |-> s.key[i]]
  <2>1. h \in [M -> K2] /\ \A y \in K2 : \E i \in M : h[i] = y
    OBVIOUS
  <2> HIDE DEF h, K2, M
  <2>2. h \in Surjection(M, K2)
    BY <2>1, Fun_IsSurj
  <2>3. IsFiniteSet(K2) /\ Cardinality(K2) <= Cardinality(M)
    BY <2>2, <1>3, FS_Surjection DEF M
  <2>4. QED
    BY <2>3, <1>3, FS_CardinalityType DEF M
<1>6. KeysOf(s) \subseteq K /\ (s.key[f] = Null => KeysOf(s) \subseteq K2)
  BY <1>1
<1> HIDE DEF K, K2
<1>7. IsFiniteSet(KeysOf(s)) /\ Cardinality(KeysOf(s)) <= Cardinality(K)
  BY <1>4, <1>6, FS_Subset
<1>8. s.key[f] = Null => Cardinality(KeysOf(s)) <= Cardinality(K2)
  BY <1>5, <1>6, FS_Subset
<1>9. Cardinality(KeysOf(s)) \in Nat
  BY <1>7, FS_CardinalityType
<1> DEFINE c == Cardinality(KeysOf(s))  a == Cardinality(K)  b == Cardinality(K2)  n == s.n
<1>10. /\ c \in Nat /\ a \in Nat /\ b \in Nat /\ n \in Nat /\ a <= n /\ b <= n - 1 /\ c <= a
       /\ (s.key[f] = Null => c <= b)
  BY <1>1, <1>4, <1>5, <1>7, <1>8, <1>9
<1> HIDE DEF c, a, b, n
<1>11. c <= n /\ (s.key[f] = Null => c <= n - 1)
  BY <1>10
<1>12. QED
  BY <1>7, <1>9, <1>11 DEF c, n, f

\* An empty table.
LEMMA AllocGood ==
    ASSUME NEW size \in Nat \ {0}
    PROVE  LET s == AllocNodes(size) IN
           /\ s \in Tabs(size) /\ s.n = size /\ Good(s) /\ Fresh(s) /\ KeysOf(s) = {}
<1> DEFINE s == AllocNodes(size)
           N == 0 .. size - 1
<1>1. /\ s.n = size /\ s.free = size - 1 /\ s.used = 0 /\ s.full = FALSE
      /\ s.key = [i \in N |-> Null] /\ s.val = [i \in N |-> Nil] /\ s.next = [i \in N |-> Nil]
  BY DEF AllocNodes
<1>2. size - 1 \in N /\ N \subseteq Nat /\ \A i \in N : i <= size - 1
  OBVIOUS
<1>3. s \in Tabs(size) /\ IsTab(s) /\ Nodes(s) = N
  <2> HIDE DEF N
  <2>1. s \in Tabs(size)
    BY <1>2 DEF AllocNodes, Tabs, N
  <2>2. QED
    BY <2>1, <1>1 DEF IsTab, Nodes, N
<1> HIDE DEF s, N
<1>4. \A i \in N : s.key[i] = Null /\ s.next[i] = Nil
  BY <1>1
<1>5. Acyclic(s)
  <2>1. Ranks(s, [i \in N |-> 0])
    BY <1>3, <1>4 DEF Ranks
  <2>2. QED
    BY <2>1 DEF Acyclic
<1>6. OnePrevious(s) /\ LinksAbove(s) /\ Unique(s) /\ Reached(s) /\ StraysAbove(s) /\ StraysAlone(s)
      /\ Fresh(s)
  <2>1. OnePrevious(s) /\ LinksAbove(s) /\ Unique(s)
    BY <1>3, <1>4 DEF OnePrevious, LinksAbove, Unique
  <2>2. Reached(s) /\ StraysAbove(s) /\ StraysAlone(s)
    BY <1>3, <1>4 DEF Reached, StraysAbove, StraysAlone, Stray
  <2>3. Fresh(s)
    <3>1. \A i \in N : i <= s.free
      BY <1>1, <1>2
    <3>2. QED
      BY <3>1, <1>3, <1>4 DEF Fresh
  <2>4. QED
    BY <2>1, <2>2, <2>3
<1>7. KeysOf(s) = {}
  BY <1>1, <1>4 DEF KeysOf, N
<1>8. Counted(s)
  BY <1>1, <1>7, FS_EmptySet DEF Counted
<1>9. FreeOK(s)
  BY <1>1, <1>2, <1>4 DEF FreeOK
<1>10. QED
  BY <1>1, <1>3, <1>5, <1>6, <1>7, <1>8, <1>9 DEF Good, Sound, s

\* The nodes of s, one by one, in the rebuilt table.
Rebuilds(s, size, r) ==
    /\ r \in [0 .. s.n -> Tabs(size)] /\ r[0] = AllocNodes(size)
    /\ \A i \in 1 .. s.n :
          r[i] = IF s.key[i - 1] = Null THEN r[i - 1] ELSE Put(r[i - 1], s.key[i - 1], s.val[i - 1])

\* Rebuild is the last of these tables.
LEMMA RebuildSteps ==
    ASSUME NEW s, IsTab(s), NEW size \in Nat \ {0}
    PROVE  \E r : Rebuilds(s, size, r) /\ Rebuild(s, size) = r[s.n]
<1> DEFINE T == Tabs(size)
           c == AllocNodes(size)
           Do(x, i) == IF s.key[i - 1] = Null THEN x ELSE Put(x, s.key[i - 1], s.val[i - 1])
           F(r) == [i \in 0 .. s.n |-> IF i = 0 THEN c ELSE Do(r[i - 1], i)]
           step == [p \in T \X (1 .. s.n) |-> Do(p[1], p[2])]
           g == CHOOSE r : r = F(r)
<1>1. Rebuild(s, size) = g[s.n]
  BY DEF Rebuild
<1>2. s.n \in Nat /\ c \in T
  BY TabTypes, AllocGood
<1>3. ASSUME NEW x \in T, NEW i \in 1 .. s.n PROVE Do(x, i) \in T
  <2>1. IsTab(x) /\ x.n = size
    BY DEF Tabs, IsTab
  <2>2. i - 1 \in Nodes(s)
    BY <1>2 DEF Nodes
  <2>3. s.key[i - 1] \in Keys \cup {Null} /\ s.val[i - 1] \in Vals \cup {Nil}
    BY <2>2, TabTypes
  <2>4. CASE s.key[i - 1] = Null
    BY <2>4
  <2>5. CASE s.key[i - 1] # Null
    <3> DEFINE k == s.key[i - 1]  v == s.val[i - 1]
    <3>1. k \in Keys /\ v \in Vals \cup {Nil}
      BY <2>3, <2>5
    <3> HIDE DEF k, v
    <3>2. IsTab(Put(x, k, v)) /\ Put(x, k, v).n = size
      BY <2>1, <3>1, PutType
    <3>3. Put(x, k, v) \in T
      BY <3>2 DEF IsTab
    <3>4. QED
      BY <3>3, <2>5 DEF k, v
  <2>6. QED
    BY <2>4, <2>5
<1> HIDE DEF T, c, Do
<1>4. step \in [T \X (1 .. s.n) -> T]
  <2>1. \A p \in T \X (1 .. s.n) : p[1] \in T /\ p[2] \in 1 .. s.n
    OBVIOUS
  <2>2. QED
    BY <2>1, <1>3
<1>5. PICK w \in [0 .. s.n -> T] : w[0] = c /\ \A i \in 1 .. s.n : w[i] = step[<<w[i - 1], i>>]
  <2> HIDE DEF step
  <2>1. Recursion(s.n, T, c, step)
    BY <1>2, <1>4 DEF Recursion
  <2>2. QED
    BY <2>1, FiniteRecursion DEF IsRecursive
<1>6. w = F(w)
  <2>1. ASSUME NEW i \in 1 .. s.n PROVE step[<<w[i - 1], i>>] = Do(w[i - 1], i)
    <3>1. i - 1 \in 0 .. s.n
      BY <1>2
    <3>2. w[i - 1] \in T
      BY <3>1
    <3>3. QED
      BY <3>2
  <2> HIDE DEF step
  <2>2. \A i \in 0 .. s.n : i # 0 => i \in 1 .. s.n
    BY <1>2
  <2>3. QED
    BY <1>5, <2>1, <2>2
<1>7. g = F(g)
  BY <1>6
<1> HIDE DEF g
<1>8. g \in [0 .. s.n -> T]
  <2> DEFINE Bad == {i \in 0 .. s.n : g[i] \notin T}
  <2>2. SUFFICES ASSUME Bad # {} PROVE FALSE
    BY <1>7
  <2>3. Bad \in SUBSET Nat
    OBVIOUS
  <2>4. PICK m \in Bad : \A k \in Bad : m <= k
    BY <2>2, <2>3, LeastNat
  <2>5. m # 0
    BY <1>2, <1>7, <2>4
  <2>6. m - 1 \in 0 .. s.n /\ m - 1 \notin Bad /\ m \in 1 .. s.n
    <3> HIDE DEF Bad
    <3>1. m \in 0 .. s.n
      BY DEF Bad
    <3>2. m - 1 \in 0 .. s.n /\ ~(m <= m - 1) /\ m \in 1 .. s.n
      BY <3>1, <2>5, <1>2
    <3>3. QED
      BY <2>4, <3>2
  <2>7. g[m] = Do(g[m - 1], m)
    BY <1>7, <2>5, <2>4
  <2>8. QED
    BY <2>4, <2>6, <2>7, <1>3
<1>9. 0 \in 0 .. s.n /\ \A i \in 1 .. s.n : i \in 0 .. s.n /\ i # 0
  BY <1>2
<1>10. g[0] = c /\ \A i \in 1 .. s.n : g[i] = Do(g[i - 1], i)
  BY <1>7, <1>9
<1>11. Rebuilds(s, size, g)
  BY <1>8, <1>10 DEF Rebuilds, T, c, Do
<1>12. QED
  BY <1>1, <1>11

\* A good table of `size` nodes with the slots of s.
Rebuilt(s, size, s2) == Good(s2) /\ s2.n = size /\ SameSlots(s, s2)

\* A slot of the first i nodes.
HasBelow(s, i, k, v) == \E j \in 0 .. i - 1 : s.key[j] = k /\ s.val[j] = v
\* The first i nodes of s are in the new table x.
Copied(s, size, i, x) ==
    /\ Good(x) /\ Fresh(x) /\ x.n = size
    /\ \A k \in Keys, v \in Vals \cup {Nil} : Has(x, k, v) <=> HasBelow(s, i, k, v)

\* A table to which nothing was removed overflows only when every node has a key.
LEMMA TooManyKeys ==
    ASSUME NEW s, IsTab(s), NEW x, IsTab(x), Unique(x), \A i \in Nodes(x) : x.key[i] # Null,
           \A i \in Nodes(x) : x.key[i] \in KeysOf(s)
    PROVE  ~(Cardinality(KeysOf(s)) < x.n)
<1> SUFFICES ASSUME Cardinality(KeysOf(s)) < x.n PROVE FALSE
  OBVIOUS
<1> DEFINE N == Nodes(x)
           K == KeysOf(s)
<1>1. x.n \in Nat \ {0} /\ N = 0 .. x.n - 1 /\ x.key \in [N -> Keys \cup {Null}]
  BY TabTypes
<1>2. IsFiniteSet(N) /\ Cardinality(N) = x.n
  <2>1. 0 \in Int /\ x.n - 1 \in Int /\ ~(0 > x.n - 1) /\ x.n - 1 - 0 + 1 = x.n
    BY <1>1
  <2>2. QED
    BY <2>1, <1>1, FS_Interval
<1>3. IsFiniteSet(K)
  BY KeysFew
<1>4. x.key \in [N -> K]
  BY <1>1
<1>5. \A i, j \in N : x.key[i] = x.key[j] => i = j
  BY DEF Unique
<1> DEFINE f == x.key
<1>6. f \in [N -> K] /\ Cardinality(K) < Cardinality(N)
  BY <1>2, <1>4
<1> HIDE DEF N, K, f
<1>7. \E i, j \in N : i # j /\ f[i] = f[j]
  BY <1>2, <1>3, <1>6, FS_PigeonHole
<1>8. QED
  BY <1>5, <1>7 DEF f

\* One more node is copied.
LEMMA CopyStep ==
    ASSUME NEW s, IsTab(s), Unique(s), NEW size \in Nat \ {0}, Cardinality(KeysOf(s)) < size,
           NEW i \in 1 .. s.n, NEW x, Copied(s, size, i - 1, x),
           NEW y, y = IF s.key[i - 1] = Null THEN x ELSE Put(x, s.key[i - 1], s.val[i - 1])
    PROVE  Copied(s, size, i, y)
<1> DEFINE e == i - 1  k == s.key[e]  v == s.val[e]
<1>1. s.n \in Nat /\ e \in Nodes(s) /\ i \in Nat /\ Nodes(s) = 0 .. s.n - 1
  BY TabTypes DEF Nodes
<1>2. k \in Keys \cup {Null} /\ v \in Vals \cup {Nil}
  BY <1>1, TabTypes
<1>3. \A j : j \in 0 .. i - 1 <=> j \in 0 .. e - 1 \/ j = e
  BY <1>1
<1>4. \A j \in 0 .. i - 1 : j \in Nodes(s)
  BY <1>1
<1>5. e \notin 0 .. e - 1
  BY <1>1
<1>6. /\ Good(x) /\ Fresh(x) /\ x.n = size
      /\ \A kk \in Keys, vv \in Vals \cup {Nil} : Has(x, kk, vv) <=> HasBelow(s, e, kk, vv)
  BY DEF Copied
<1>7. y = IF k = Null THEN x ELSE Put(x, k, v)
  OBVIOUS
<1>8. \A kk, vv : HasBelow(s, i, kk, vv) <=> HasBelow(s, e, kk, vv) \/ (kk = k /\ vv = v)
  BY <1>3 DEF HasBelow
<1>9. k # Null => \A vv : ~HasBelow(s, e, k, vv)
  BY <1>1, <1>3, <1>4, <1>5 DEF HasBelow, Unique
<1>10. \A kk, vv : HasBelow(s, i, kk, vv) /\ kk # Null => kk \in KeysOf(s)
  BY <1>1, <1>4 DEF HasBelow, KeysOf
<1> HIDE DEF e, k, v
<1>11. CASE k = Null
  BY <1>6, <1>7, <1>8, <1>11 DEF Copied
<1>12. CASE k # Null
  <2>1. k \in Keys /\ y = Put(x, k, v)
    BY <1>2, <1>7, <1>12
  <2>2. Stores(x, y, k, v) \/ Overflows(x, y, k)
    BY <2>1, <1>2, <1>6, PutCases
  <2>3. CASE Stores(x, y, k, v)
    <3>1. Good(y) /\ Fresh(y) /\ y.n = size
      BY <2>3, <1>6 DEF Stores
    <3>2. ASSUME NEW kk \in Keys, NEW vv \in Vals \cup {Nil}
          PROVE  Has(y, kk, vv) <=> HasBelow(s, i, kk, vv)
      <4>1. Has(y, kk, vv) <=> IF kk = k THEN vv = v ELSE Has(x, kk, vv)
        BY <2>3 DEF Stores
      <4>2. QED
        BY <4>1, <1>6, <1>8, <1>9, <1>12
    <3>3. QED
      BY <3>1, <3>2 DEF Copied
  <2>4. CASE Overflows(x, y, k)
    <3>1. IsTab(y) /\ Unique(y) /\ y.n = size /\ \A j \in Nodes(y) : y.key[j] # Null
      BY <2>4, <1>6 DEF Overflows
    <3>2. ASSUME NEW j \in Nodes(y) PROVE y.key[j] \in KeysOf(s)
      <4> DEFINE kk == y.key[j]  vv == y.val[j]
      <4>0. y.val \in [Nodes(y) -> Vals \cup {Nil}] /\ y.key[j] \in Keys \cup {Null}
        BY <3>1, TabTypes
      <4>1. kk \in Keys /\ vv \in Vals \cup {Nil} /\ Has(y, kk, vv)
        BY <4>0, <3>1 DEF Has
      <4> HIDE DEF kk, vv
      <4>2. CASE kk = k
        <5>1. HasBelow(s, i, k, v)
          BY <1>8
        <5>2. QED
          BY <5>1, <4>2, <1>10, <1>12 DEF kk
      <4>3. CASE kk # k
        <5>1. Has(x, kk, vv)
          BY <4>1, <4>3, <2>4 DEF Overflows
        <5>2. HasBelow(s, e, kk, vv)
          BY <5>1, <4>1, <1>6
        <5>3. HasBelow(s, i, kk, vv)
          BY <5>2, <1>8
        <5>4. kk # Null
          BY <4>1
        <5>5. QED
          BY <5>3, <5>4, <1>10 DEF kk
      <4>4. QED
        BY <4>2, <4>3 DEF kk
    <3>3. QED
      BY <3>1, <3>2, TooManyKeys
  <2>5. QED
    BY <2>2, <2>3, <2>4
<1>13. QED
  BY <1>11, <1>12

\* A rebuild with more nodes than there are keys never runs out of nodes.
LEMMA RebuildGood ==
    ASSUME NEW s, IsTab(s), Unique(s), NEW size \in Nat \ {0}, Cardinality(KeysOf(s)) < size
    PROVE  Rebuilt(s, size, Rebuild(s, size))
<1>1. PICK r : Rebuilds(s, size, r) /\ Rebuild(s, size) = r[s.n]
  BY RebuildSteps
<1> DEFINE Bad == {i \in 0 .. s.n : ~Copied(s, size, i, r[i])}
<1>2. s.n \in Nat /\ s.n \in 0 .. s.n
  BY TabTypes
<1>3. Bad = {}
  <2>1. SUFFICES ASSUME Bad # {} PROVE FALSE
    OBVIOUS
  <2>2. Bad \in SUBSET Nat
    OBVIOUS
  <2>3. PICK m \in Bad : \A k \in Bad : m <= k
    BY <2>1, <2>2, LeastNat
  <2>4. m \in 0 .. s.n /\ ~Copied(s, size, m, r[m])
    BY <2>3
  <2>5. Copied(s, size, 0, r[0])
    <3>1. r[0] = AllocNodes(size)
      BY <1>1 DEF Rebuilds
    <3> DEFINE x == AllocNodes(size)
    <3>2. Good(x) /\ Fresh(x) /\ x.n = size /\ KeysOf(x) = {} /\ IsTab(x)
      BY AllocGood DEF Good, Sound
    <3> HIDE DEF x
    <3>3. \A k \in Keys, v \in Vals \cup {Nil} : ~Has(x, k, v)
      BY <3>2, KeysHeld
    <3>4. \A k, v : ~HasBelow(s, 0, k, v)
      BY DEF HasBelow
    <3>5. QED
      BY <3>1, <3>2, <3>3, <3>4 DEF Copied, x
  <2>6. m # 0
    BY <2>4, <2>5
  <2>7. m \in 1 .. s.n /\ m - 1 \in 0 .. s.n /\ ~(m <= m - 1)
    BY <2>4, <2>6, <1>2
  <2>8. Copied(s, size, m - 1, r[m - 1])
    <3> HIDE DEF Bad
    <3>1. m - 1 \notin Bad
      BY <2>3, <2>7
    <3>2. QED
      BY <3>1, <2>7 DEF Bad
  <2>9. r[m] = IF s.key[m - 1] = Null THEN r[m - 1] ELSE Put(r[m - 1], s.key[m - 1], s.val[m - 1])
    BY <1>1, <2>7 DEF Rebuilds
  <2>10. Copied(s, size, m, r[m])
    BY <2>7, <2>8, <2>9, CopyStep
  <2>11. QED
    BY <2>4, <2>10
<1> DEFINE x == Rebuild(s, size)
<1>4. Copied(s, size, s.n, x)
  BY <1>1, <1>2, <1>3
<1> HIDE DEF x
<1>5. \A k, v : HasBelow(s, s.n, k, v) <=> Has(s, k, v)
  BY DEF HasBelow, Has, Nodes
<1>6. QED
  BY <1>4, <1>5 DEF Copied, Rebuilt, SameSlots, x

-----------------------------------------------------------------------------
(* The number of nodes is a power of two.                                  *)

\* n is in every set that contains MinPower2 and the double of each member.
IsPower(n) == \A S \in SUBSET Nat : MinPower2 \in S /\ (\A x \in S : 2 * x \in S) => n \in S

\* Powers are doubled and halved; half and a quarter of them are exact.
LEMMA PowerFacts ==
    /\ IsPower(4)
    /\ \A n : IsPower(n) => n \in Nat /\ n >= 4 /\ n % 4 = 0 /\ IsPower(n * 2)
    /\ \A n : IsPower(n) /\ n > 4 => IsPower(n \div 2)
<1>1. IsPower(4)
  BY DEF IsPower, MinPower2
<1>2. ASSUME NEW n, IsPower(n) PROVE n \in Nat
  <2>1. Nat \in SUBSET Nat /\ 4 \in Nat /\ \A x \in Nat : 2 * x \in Nat
    OBVIOUS
  <2>2. QED
    BY <1>2, <2>1 DEF IsPower, MinPower2
<1>3. ASSUME NEW n, IsPower(n) PROVE n >= 4 /\ n % 4 = 0
  <2> DEFINE S == {x \in Nat : x >= 4 /\ x % 4 = 0}
  <2>1. S \in SUBSET Nat /\ 4 \in S
    OBVIOUS
  <2>2. \A x \in S : 2 * x \in S
    OBVIOUS
  <2> HIDE DEF S
  <2>3. n \in S
    BY <1>3, <2>1, <2>2 DEF IsPower, MinPower2
  <2>4. QED
    BY <2>3 DEF S
<1>4. ASSUME NEW n, IsPower(n) PROVE IsPower(n * 2)
  <2>1. n \in Nat /\ n * 2 = 2 * n
    BY <1>2, <1>4
  <2>2. QED
    BY <1>4, <2>1 DEF IsPower
<1>5. ASSUME NEW n, IsPower(n), n > 4 PROVE IsPower(n \div 2)
  <2> DEFINE S == {x \in Nat : IsPower(x) /\ (x = 4 \/ \E y \in Nat : x = 2 * y /\ IsPower(y))}
  <2>1. S \in SUBSET Nat /\ 4 \in S
    BY <1>1
  <2>2. ASSUME NEW x \in S PROVE 2 * x \in S
    <3>1. x \in Nat /\ IsPower(x) /\ x * 2 = 2 * x
      OBVIOUS
    <3>2. IsPower(2 * x)
      BY <3>1, <1>4
    <3>3. QED
      BY <3>1, <3>2
  <2>3. n \in S
    <3> HIDE DEF S
    <3>1. QED
      BY <1>5, <2>1, <2>2 DEF IsPower, MinPower2
  <2>4. PICK y \in Nat : n = 2 * y /\ IsPower(y)
    BY <2>3, <1>5
  <2>5. n \div 2 = y
    BY <2>4
  <2>6. QED
    BY <2>4, <2>5
<1>6. QED
  BY <1>1, <1>2, <1>3, <1>4, <1>5

\* The constructor's loop gives a power of two.
LEMMA Pow2Power ==
    ASSUME NEW size \in Nat
    PROVE  IsPower(Pow2(size))
<1> DEFINE T == {x \in Nat : IsPower(x)}
           Do(x) == IF size > x THEN x * 2 ELSE x
           F(p) == [i \in 0 .. size |-> IF i = 0 THEN MinPower2 ELSE Do(p[i - 1])]
           step == [p \in T \X (1 .. size) |-> Do(p[1])]
           g == CHOOSE p : p = F(p)
<1>1. Pow2(size) = g[size]
  BY DEF Pow2
<1>2. MinPower2 \in T
  BY PowerFacts DEF MinPower2
<1>3. ASSUME NEW x \in T PROVE Do(x) \in T
  BY PowerFacts
<1> HIDE DEF T, Do
<1>4. step \in [T \X (1 .. size) -> T]
  <2>1. \A p \in T \X (1 .. size) : p[1] \in T
    OBVIOUS
  <2>2. QED
    BY <2>1, <1>3
<1>5. PICK w \in [0 .. size -> T] :
         w[0] = MinPower2 /\ \A i \in 1 .. size : w[i] = step[<<w[i - 1], i>>]
  <2> HIDE DEF step
  <2>1. Recursion(size, T, MinPower2, step)
    BY <1>2, <1>4 DEF Recursion
  <2>2. \E w : IsRecursive(w, size, T, MinPower2, step)
    BY <2>1, FiniteRecursion, Zenon
  <2>3. QED
    BY <2>2 DEF IsRecursive
<1>6. w = F(w)
  <2>1. ASSUME NEW i \in 1 .. size PROVE step[<<w[i - 1], i>>] = Do(w[i - 1])
    <3>1. i - 1 \in 0 .. size
      OBVIOUS
    <3>2. w[i - 1] \in T
      BY <3>1
    <3>3. QED
      BY <3>2
  <2> HIDE DEF step
  <2>2. \A i \in 0 .. size : i # 0 => i \in 1 .. size
    OBVIOUS
  <2>3. QED
    BY <1>5, <2>1, <2>2
<1>7. g = F(g)
  BY <1>6
<1> HIDE DEF g
<1> DEFINE Bad == {i \in 0 .. size : g[i] \notin T}
<1>8. Bad = {}
  <2>1. SUFFICES ASSUME Bad # {} PROVE FALSE
    OBVIOUS
  <2>2. Bad \in SUBSET Nat
    OBVIOUS
  <2>3. PICK m \in Bad : \A k \in Bad : m <= k
    BY <2>1, <2>2, LeastNat
  <2>4. m # 0
    BY <1>2, <1>7, <2>3
  <2>5. m - 1 \in 0 .. size /\ m - 1 \notin Bad
    <3> HIDE DEF Bad
    <3>1. m \in 0 .. size
      BY DEF Bad
    <3>2. m - 1 \in 0 .. size /\ ~(m <= m - 1)
      BY <3>1, <2>4
    <3>3. QED
      BY <2>3, <3>2
  <2>6. g[m] = Do(g[m - 1])
    BY <1>7, <2>4, <2>3
  <2>7. QED
    BY <2>3, <2>5, <2>6, <1>3
<1>9. g[size] \in T
  BY <1>8
<1>10. QED
  BY <1>1, <1>9 DEF T

\* The number of nodes Rehash chooses is a power of two and more than the keys
\* it is chosen for: those counted, or one more after a failed insertion.
LEMMA NewSizeFits ==
    ASSUME NEW s, IsPower(s.n), s.used \in Nat, NEW force \in BOOLEAN, NEW c \in Nat, c <= s.n,
           IF force THEN c <= s.used + 1 ELSE c <= s.used, NewSize(s, force) # 0
    PROVE  /\ NewSize(s, force) \in Nat \ {0} /\ IsPower(NewSize(s, force)) /\ c < NewSize(s, force)
           /\ ~force => NewSize(s, force) # s.n
           /\ s.used = 0 => NewSize(s, force) <= s.n
<1> DEFINE n == s.n  u == s.used
           z == IF u >= n - n \div 4 THEN n * 2
                ELSE IF u <= n \div 4 /\ n > 4 THEN n \div 2
                ELSE IF force THEN n ELSE 0
<1>1. NewSize(s, force) = z
  BY DEF NewSize, MinPower2
<1>2. n \in Nat /\ n >= 4 /\ n % 4 = 0 /\ IsPower(n * 2) /\ (n > 4 => IsPower(n \div 2)) /\ u \in Nat
      /\ IsPower(n)
  BY PowerFacts
<1> HIDE DEF n, u
<1>3. c <= n /\ c <= u + 1
  <2>1. c <= n /\ (c <= u + 1 \/ c <= u)
    BY DEF n, u
  <2>2. QED
    BY <2>1, <1>2
<1>4. n \div 4 \in Nat /\ n = 4 * (n \div 4) /\ n \div 2 = 2 * (n \div 4) /\ n \div 4 >= 1
  BY <1>2
<1> DEFINE q == n \div 4
<1> HIDE DEF q
<1>5. q \in Nat /\ n = 4 * q /\ n \div 2 = 2 * q /\ q >= 1 /\ n \div 4 = q
  BY <1>4 DEF q
<1>6. CASE u >= n - n \div 4
  <2>1. z = n * 2 /\ u >= n - q
    BY <1>6, <1>5
  <2>2. n * 2 \in Nat \ {0} /\ c < n * 2 /\ n * 2 # n /\ u # 0
    BY <1>2, <1>3, <1>5, <2>1
  <2>3. QED
    BY <2>1, <2>2, <1>1, <1>2 DEF n, u
<1>7. CASE ~(u >= n - n \div 4) /\ u <= n \div 4 /\ n > 4
  <2>1. z = n \div 2 /\ u <= q /\ n > 4
    BY <1>7, <1>5
  <2>2. q >= 2
    BY <2>1, <1>5
  <2>3. c < 2 * q
    BY <2>1, <2>2, <1>2, <1>3, <1>5
  <2>5. 2 * q \in Nat \ {0} /\ 2 * q # n /\ 2 * q <= n
    BY <2>2, <1>5
  <2>4. QED
    BY <2>1, <2>3, <2>5, <1>1, <1>2, <1>5 DEF n
<1>8. CASE ~(u >= n - n \div 4) /\ ~(u <= n \div 4 /\ n > 4)
  <2>1. force /\ z = n
    BY <1>8, <1>1
  <2>2. u < n - q
    BY <1>8, <1>2, <1>5
  <2>3. c < n /\ n \in Nat \ {0} /\ n <= n
    BY <2>1, <2>2, <1>2, <1>3, <1>5
  <2>4. QED
    BY <2>1, <2>3, <1>1, <1>2 DEF n
<1>9. QED
  BY <1>6, <1>7, <1>8

\* A forced rebuild takes place.
LEMMA NewSizeForced ==
    ASSUME NEW s, IsPower(s.n)
    PROVE  NewSize(s, TRUE) # 0
<1> DEFINE n == s.n
<1>1. n \in Nat /\ n >= 4
  BY PowerFacts
<1>2. NewSize(s, TRUE) \in {n * 2, n \div 2, n}
  BY DEF NewSize
<1> HIDE DEF n
<1>3. n * 2 # 0 /\ n \div 2 # 0 /\ n # 0
  BY <1>1
<1>4. QED
  BY <1>2, <1>3

-----------------------------------------------------------------------------
(* The operations.                                                         *)

OK(s) == Good(s) /\ IsPower(s.n)

\* Unless a key was added or the number of nodes changed, every key that is
\* left is where it was.
Stays(s, s2) ==
    s2.n = s.n /\ KeysOf(s2) \subseteq KeysOf(s) =>
        \A i \in Nodes(s) : s2.key[i] = s.key[i] \/ s2.key[i] = Null

\* The slots of s with v at k; without k.
With(s, s2, k, v) ==
    \A kk \in Keys, vv \in Vals \cup {Nil} : Has(s2, kk, vv) <=> IF kk = k THEN vv = v ELSE Has(s, kk, vv)
Without(s, s2, k) ==
    \A kk \in Keys, vv \in Vals \cup {Nil} : Has(s2, kk, vv) <=> kk # k /\ Has(s, kk, vv)

\* A key with a slot is a key of the table.
LEMMA HasKey ==
    ASSUME NEW s, IsTab(s), NEW k \in Keys, NEW v, Has(s, k, v)
    PROVE  k \in KeysOf(s)
  BY DEF Has, KeysOf, Nodes

\* NewSlot stores the slot, with a rebuild where it is needed.
LEMMA InsertGood ==
    ASSUME NEW s, OK(s), NEW k \in Keys, NEW v \in Vals \cup {Nil}
    PROVE  OK(Insert(s, k, v)) /\ With(s, Insert(s, k, v), k, v) /\ Stays(s, Insert(s, k, v))
<1> DEFINE p == Put(s, k, v)
           z == NewSize(p, TRUE)
           q == Rebuild(p, z)
           s2 == Insert(s, k, v)
<1>1. Good(s) /\ IsPower(s.n) /\ IsTab(s)
  BY DEF OK, Good, Sound
<1>2. Stores(s, p, k, v) \/ Overflows(s, p, k)
  BY <1>1, PutCases
<1>3. s2 = IF p.full THEN Put(IF z = 0 THEN p ELSE q, k, v) ELSE p
  BY DEF Insert, Rehash
<1>4. CASE Stores(s, p, k, v)
  <2>1. OK(p) /\ With(s, p, k, v) /\ IsTab(p) /\ ~p.full
    BY <1>1, <1>4 DEF Stores, OK, With, Good, Sound
  <2>2. ASSUME KeysOf(p) \subseteq KeysOf(s) PROVE p.key = s.key
    <3>1. Has(p, k, v)
      BY <2>1 DEF With
    <3>2. k \in KeysOf(s)
      BY <2>1, <2>2, <3>1, HasKey
    <3> DEFINE g == GetNode(s, k)
    <3>3. g # Nil
      BY <1>1, <3>2, GetNodeFinds DEF Good, Sound
    <3>4. p = [s EXCEPT !.val[g] = v]
      BY <3>3 DEF Put
    <3>5. s \in Tabs(s.n)
      BY <1>1 DEF IsTab
    <3> HIDE DEF p, g
    <3>6. QED
      BY <3>4, <3>5 DEF Tabs
  <2>3. Stays(s, p)
    BY <2>2 DEF Stays
  <2> HIDE DEF p, s2, z, q
  <2>4. s2 = p
    BY <2>1, <1>3
  <2>5. QED
    BY <2>1, <2>3, <2>4 DEF s2
<1>5. CASE Overflows(s, p, k)
  <2> HIDE DEF p
  <2>1. /\ IsTab(p) /\ Unique(p) /\ p.full /\ p.n = s.n /\ p.used = s.used /\ k \notin KeysOf(s)
        /\ \A kk \in Keys \ {k}, vv \in Vals \cup {Nil} : Has(p, kk, vv) <=> Has(s, kk, vv)
    BY <1>5 DEF Overflows
  <2>2. PICK v0 \in Vals \cup {Nil} : Has(p, k, v0)
    BY <1>5 DEF Overflows
  <2>3. KeysOf(p) = KeysOf(s) \cup {k}
    <3>1. \A c : c \in KeysOf(p) <=> c \in Keys /\ \E vv \in Vals \cup {Nil} : Has(p, c, vv)
      BY <2>1, KeysHeld
    <3>2. \A c : c \in KeysOf(s) <=> c \in Keys /\ \E vv \in Vals \cup {Nil} : Has(s, c, vv)
      BY <1>1, KeysHeld
    <3>3. \A c : c \in KeysOf(p) <=> c \in KeysOf(s) \cup {k}
      BY <3>1, <3>2, <2>1, <2>2
    <3>4. QED
      BY <3>3
  <2> DEFINE c == Cardinality(KeysOf(p))
  <2>4. c = s.used + 1
    <3>1. IsFiniteSet(KeysOf(s)) /\ s.used = Cardinality(KeysOf(s))
      BY <1>1 DEF Good, Counted
    <3>2. Cardinality(KeysOf(s) \cup {k}) = Cardinality(KeysOf(s)) + 1
      BY <3>1, <2>1, FS_AddElement
    <3>3. QED
      BY <3>1, <3>2, <2>3
  <2>5. c \in Nat /\ c <= p.n /\ p.used \in Nat /\ IsPower(p.n)
    BY <1>1, <2>1, KeysFew, TabTypes
  <2> HIDE DEF c
  <2>6. c <= p.used + 1
    BY <2>1, <2>4, <2>5
  <2>7. z # 0
    BY <2>5, NewSizeForced
  <2>8. z \in Nat \ {0} /\ IsPower(z) /\ c < z
    BY <2>5, <2>6, <2>7, NewSizeFits
  <2> HIDE DEF z
  <2>9. Rebuilt(p, z, q)
    BY <2>1, <2>8, RebuildGood DEF c
  <2> HIDE DEF q
  <2>10. Good(q) /\ q.n = z /\ IsTab(q)
         /\ \A kk \in Keys, vv \in Vals \cup {Nil} : Has(q, kk, vv) <=> Has(p, kk, vv)
    BY <2>9 DEF Rebuilt, SameSlots, Good, Sound
  <2>11. Stores(q, Put(q, k, v), k, v)
    <3>1. Stores(q, Put(q, k, v), k, v) \/ Overflows(q, Put(q, k, v), k)
      BY <2>10, PutCases
    <3>2. k \in KeysOf(q)
      BY <2>2, <2>10, HasKey
    <3>3. QED
      BY <3>1, <3>2 DEF Overflows
  <2>12. s2 = Put(q, k, v)
    <3> HIDE DEF s2
    <3>1. QED
      BY <1>3, <2>1, <2>7
  <2> HIDE DEF s2
  <2>13. OK(s2) /\ IsTab(s2)
    BY <2>8, <2>10, <2>11, <2>12 DEF Stores, OK, Good, Sound
  <2>14. With(s, s2, k, v)
    <3>1. SUFFICES ASSUME NEW kk \in Keys, NEW vv \in Vals \cup {Nil}
                   PROVE  Has(s2, kk, vv) <=> IF kk = k THEN vv = v ELSE Has(s, kk, vv)
      BY DEF With
    <3>2. Has(s2, kk, vv) <=> IF kk = k THEN vv = v ELSE Has(q, kk, vv)
      BY <2>11, <2>12 DEF Stores
    <3>3. QED
      BY <3>2, <2>1, <2>10
  <2>15. Stays(s, s2)
    <3>1. Has(s2, k, v)
      BY <2>14 DEF With
    <3>2. k \in KeysOf(s2)
      BY <2>13, <3>1, HasKey
    <3>3. QED
      BY <2>1, <3>2 DEF Stays
  <2>16. QED
    BY <2>13, <2>14, <2>15 DEF s2
<1>6. QED
  BY <1>2, <1>4, <1>5

\* Remove up to its call of Rehash: the node loses its key and keeps its link.
Vacated(s, x) == [s EXCEPT !.key[x] = Null, !.val[x] = Nil, !.used = @ - 1]

\* A table stays good when a node loses its key.
LEMMA VacateGood ==
    ASSUME NEW s, Good(s), NEW x \in Nodes(s), s.key[x] # Null,
           NEW s2, s2 = Vacated(s, x)
    PROVE  /\ Good(s2) /\ s2.n = s.n /\ Without(s, s2, s.key[x])
           /\ \A i \in Nodes(s) : s2.key[i] = s.key[i] \/ s2.key[i] = Null
<1> DEFINE N == Nodes(s)
           k == s.key[x]
           K == KeysOf(s)
<1>1. IsTab(s) /\ Unique(s) /\ s.n \in Nat \ {0} /\ k \in Keys /\ s.used \in Nat /\ s.free \in N
  BY TabTypes DEF Good, Sound
<1>2. s \in [n : {s.n}, key : [N -> Keys \cup {Null}], val : [N -> Vals \cup {Nil}],
             next : [N -> N \cup {Nil}], free : N, used : Nat, full : BOOLEAN]
  BY <1>1 DEF IsTab, Tabs, Nodes
<1>3. k \in K /\ IsFiniteSet(K) /\ s.used = Cardinality(K)
  BY <1>1 DEF KeysOf, Nodes, Good, Counted
<1>4. IsFiniteSet(K \ {k}) /\ Cardinality(K \ {k}) = s.used - 1 /\ s.used - 1 \in Nat
  <2>1. IsFiniteSet(K \ {k}) /\ Cardinality(K \ {k}) = Cardinality(K) - 1
    BY <1>3, FS_RemoveElement
  <2>2. Cardinality(K \ {k}) \in Nat
    BY <2>1, FS_CardinalityType
  <2>3. QED
    BY <2>1, <2>2, <1>3
<1> HIDE DEF N, K
<1>5. /\ s2 \in [n : {s.n}, key : [N -> Keys \cup {Null}], val : [N -> Vals \cup {Nil}],
                 next : [N -> N \cup {Nil}], free : N, used : Nat, full : BOOLEAN]
      /\ s2.n = s.n /\ s2.next = s.next /\ s2.free = s.free
      /\ s2.used = s.used - 1 /\ s2.full = s.full
      /\ \A i \in N : /\ s2.key[i] = IF i = x THEN Null ELSE s.key[i]
                      /\ s2.val[i] = IF i = x THEN Nil ELSE s.val[i]
  BY <1>2, <1>4 DEF Vacated
<1>6. IsTab(s2) /\ Nodes(s2) = N /\ \A c : MainPos(s2, c) = MainPos(s, c)
  BY <1>1, <1>5 DEF IsTab, Tabs, Nodes, N, MainPos
<1>7. \A i \in N : s2.key[i] # Null => s2.key[i] = s.key[i] /\ i # x
  BY <1>5
<1>8. Sound(s2)
  <2>1. \A i \in N : Stray(s2, i) => Stray(s, i)
    BY <1>6, <1>7 DEF Stray
  <2>2. Acyclic(s2) /\ OnePrevious(s2) /\ Unique(s2)
    BY <1>5, <1>6, <1>7 DEF Good, Sound, Acyclic, Ranks, OnePrevious, Unique, N
  <2>3. LinksAbove(s2)
    <3>1. \A i \in N : s.next[i] # Nil => s.next[i] >= s.free /\ s.next[i] # s.free
      BY DEF Good, Sound, FreeOK, LinksAbove, N
    <3>2. QED
      BY <3>1, <1>5, <1>6 DEF LinksAbove
  <2>4. Reached(s2)
    BY <1>5, <1>6, <1>7 DEF Good, Sound, Reached, Reach, Closed, N
  <2>5. StraysAbove(s2) /\ StraysAlone(s2)
    BY <1>5, <1>6, <1>7, <2>1 DEF Good, Sound, StraysAbove, StraysAlone, N
  <2>6. QED
    BY <1>6, <2>2, <2>3, <2>4, <2>5 DEF Sound
<1>9. ASSUME NEW kk \in Keys, NEW vv \in Vals \cup {Nil}
      PROVE  Has(s2, kk, vv) <=> kk # k /\ Has(s, kk, vv)
  <2>1. \A i \in N : s.key[i] = k <=> i = x
    BY <1>1 DEF Unique, N
  <2>2. \A i \in N : s2.key[i] = kk <=> s.key[i] = kk /\ kk # k
    BY <2>1, <1>1, <1>5
  <2>3. \A i \in N : s2.key[i] = kk => s2.val[i] = s.val[i]
    BY <1>5, <1>7
  <2>4. QED
    BY <2>2, <2>3, <1>6 DEF Has, N
<1>10. KeysOf(s2) = K \ {k}
  <2>1. \A c : c \in KeysOf(s2) <=> c \in Keys /\ \E vv \in Vals \cup {Nil} : Has(s2, c, vv)
    BY <1>6, KeysHeld
  <2>2. \A c : c \in K <=> c \in Keys /\ \E vv \in Vals \cup {Nil} : Has(s, c, vv)
    BY <1>1, KeysHeld DEF K
  <2>3. \A c : c \in KeysOf(s2) <=> c \in K \ {k}
    BY <2>1, <2>2, <1>9
  <2>4. QED
    BY <2>3
<1>11. Counted(s2)
  BY <1>4, <1>5, <1>10 DEF Counted
<1>12. FreeOK(s2) /\ ~s2.full
  BY <1>1, <1>5 DEF Good, FreeOK
<1>13. QED
  BY <1>5, <1>7, <1>8, <1>9, <1>11, <1>12 DEF Good, Without, k, N

\* Remove takes the slot out.
LEMMA DeleteGood ==
    ASSUME NEW s, OK(s), NEW k \in Keys
    PROVE  OK(Delete(s, k)) /\ Without(s, Delete(s, k), k) /\ Stays(s, Delete(s, k))
<1> DEFINE g == GetNode(s, k)
           s1 == [s EXCEPT !.key[g] = Null, !.val[g] = Nil, !.used = @ - 1]
           z == NewSize(s1, FALSE)
           s2 == Delete(s, k)
<1>1. Good(s) /\ IsPower(s.n) /\ IsTab(s) /\ Unique(s) /\ Acyclic(s) /\ Reached(s)
  BY DEF OK, Good, Sound
<1>2. (g = Nil <=> k \notin KeysOf(s)) /\ (g # Nil => g \in Nodes(s) /\ s.key[g] = k)
  BY <1>1, GetNodeFinds
<1>3. s2 = IF g = Nil THEN s ELSE IF z = 0 THEN s1 ELSE Rebuild(s1, z)
  BY DEF Delete, Rehash
<1> HIDE DEF g, z, s2
<1>4. CASE g = Nil
  <2>1. s2 = s /\ k \notin KeysOf(s)
    BY <1>2, <1>3, <1>4
  <2>2. \A vv : ~Has(s, k, vv)
    BY <2>1, <1>1, HasKey
  <2>3. Without(s, s, k) /\ Stays(s, s)
    BY <2>2 DEF Without, Stays
  <2>4. QED
    BY <2>1, <2>3 DEF s2
<1>5. CASE g # Nil
  <2>1. g \in Nodes(s) /\ s.key[g] = k /\ k # Null
    BY <1>2, <1>5
  <2>2. /\ Good(s1) /\ s1.n = s.n /\ Without(s, s1, k)
        /\ \A i \in Nodes(s) : s1.key[i] = s.key[i] \/ s1.key[i] = Null
    <3>1. s1 = Vacated(s, g)
      BY DEF Vacated
    <3> HIDE DEF s1
    <3>2. s.key[g] # Null
      BY <2>1
    <3>3. /\ Good(s1) /\ s1.n = s.n /\ Without(s, s1, s.key[g])
          /\ \A i \in Nodes(s) : s1.key[i] = s.key[i] \/ s1.key[i] = Null
      BY <3>1, <3>2, <2>1, <1>1, VacateGood
    <3>4. QED
      BY <3>3, <2>1
  <2> HIDE DEF s1
  <2>3. IsTab(s1) /\ Unique(s1) /\ s1.used = Cardinality(KeysOf(s1)) /\ IsPower(s1.n)
    BY <2>2, <1>1 DEF Good, Sound, Counted
  <2>4. CASE z = 0
    <3>1. s2 = s1
      BY <1>3, <1>5, <2>4
    <3>2. Stays(s, s1)
      BY <2>2 DEF Stays
    <3>3. QED
      BY <3>1, <3>2, <2>2, <2>3 DEF OK, s2
  <2>5. CASE z # 0
    <3> DEFINE c == Cardinality(KeysOf(s1))
    <3>1. c \in Nat /\ c <= s1.n /\ s1.used \in Nat
      BY <2>3, KeysFew, TabTypes
    <3>2. c <= s1.used
      BY <3>1, <2>3
    <3> HIDE DEF c
    <3>3. z \in Nat \ {0} /\ IsPower(z) /\ c < z /\ z # s1.n
      BY <3>1, <3>2, <2>3, <2>5, NewSizeFits DEF z
    <3> DEFINE q == Rebuild(s1, z)
    <3>4. Rebuilt(s1, z, q)
      BY <2>3, <3>3, RebuildGood DEF c
    <3> HIDE DEF q
    <3>5. s2 = q
      BY <1>3, <1>5, <2>5 DEF q
    <3>6. OK(q) /\ q.n # s.n
      BY <3>3, <3>4, <2>2 DEF Rebuilt, OK
    <3>7. Without(s, q, k)
      BY <3>4, <2>2 DEF Rebuilt, SameSlots, Without
    <3>8. Stays(s, q)
      BY <3>6 DEF Stays
    <3>9. QED
      BY <3>5, <3>6, <3>7, <3>8 DEF s2
  <2>6. QED
    BY <2>4, <2>5
<1>6. QED
  BY <1>4, <1>5

\* Set changes the value of a slot that is there, and makes none.
LEMMA AssignGood ==
    ASSUME NEW s, OK(s), NEW k \in Keys \cup {Null}, NEW v \in Vals
    PROVE  LET s2 == Assign(s, k, v) IN
           /\ OK(s2) /\ s2.n = s.n /\ \A i \in Nodes(s) : s2.key[i] = s.key[i]
           /\ IF GetNode(s, k) # Nil THEN With(s, s2, k, v) ELSE s2 = s
<1> DEFINE g == GetNode(s, k)
           s1 == [s EXCEPT !.val[g] = v]
           s2 == Assign(s, k, v)
<1>1. Good(s) /\ IsPower(s.n) /\ IsTab(s) /\ s \in Tabs(s.n)
  BY DEF OK, Good, Sound, IsTab
<1>2. s2 = IF g = Nil THEN s ELSE s1
  BY DEF Assign
<1>3. g \in Nodes(s) \cup {Nil} /\ (g # Nil => s.key[g] = k)
  BY <1>1, GetNodeType
<1> HIDE DEF g, s2
<1>4. CASE g = Nil
  BY <1>1, <1>2, <1>4 DEF s2, g, OK
<1>5. CASE g # Nil
  <2>1. Stores(s, s1, k, v)
    BY <1>1, <1>3, <1>5, PresentStores
  <2>2. s1.key = s.key
    BY <1>1 DEF Tabs
  <2> HIDE DEF s1
  <2>3. OK(s1) /\ s1.n = s.n /\ With(s, s1, k, v)
    BY <2>1, <1>1 DEF Stores, With, OK
  <2>4. QED
    BY <2>2, <2>3, <1>2, <1>5 DEF s2, g
<1>6. QED
  BY <1>4, <1>5

\* Clear empties the table.
LEMMA ClearedGood ==
    ASSUME NEW s, OK(s)
    PROVE  LET s2 == Cleared(s) IN OK(s2) /\ s2.n <= s.n /\ KeysOf(s2) = {}
<1> DEFINE N == Nodes(s)
           s1 == [s EXCEPT !.key = [i \in 0 .. s.n - 1 |-> Null],
                           !.val = [i \in 0 .. s.n - 1 |-> Nil], !.used = 0]
           z == NewSize(s1, TRUE)
           q == Rebuild(s1, z)
<1>1. IsPower(s.n) /\ IsTab(s) /\ s.n \in Nat \ {0}
  BY TabTypes DEF OK, Good, Sound
<1>2. Cleared(s) = IF z = 0 THEN s1 ELSE q
  BY DEF Cleared, Rehash
<1>3. s \in [n : {s.n}, key : [N -> Keys \cup {Null}], val : [N -> Vals \cup {Nil}],
             next : [N -> N \cup {Nil}], free : N, used : Nat, full : BOOLEAN]
      /\ N = 0 .. s.n - 1
  BY <1>1 DEF IsTab, Tabs, Nodes
<1> HIDE DEF N
<1>4. /\ s1 \in [n : {s.n}, key : [N -> Keys \cup {Null}], val : [N -> Vals \cup {Nil}],
                 next : [N -> N \cup {Nil}], free : N, used : Nat, full : BOOLEAN]
      /\ s1.n = s.n /\ s1.used = 0 /\ \A i \in N : s1.key[i] = Null
  BY <1>3
<1> HIDE DEF s1, z, q
<1>5. IsTab(s1) /\ Nodes(s1) = N
  BY <1>1, <1>4 DEF IsTab, Tabs, Nodes, N
<1>6. Unique(s1) /\ KeysOf(s1) = {}
  <2>1. KeysOf(s1) = {s1.key[i] : i \in N} \ {Null}
    BY <1>5 DEF KeysOf, Nodes
  <2>2. QED
    BY <2>1, <1>4, <1>5 DEF Unique
<1>7. Cardinality(KeysOf(s1)) = 0
  BY <1>6, FS_EmptySet
<1>8. z # 0
  BY <1>1, <1>4, NewSizeForced DEF z
<1>9. z \in Nat \ {0} /\ IsPower(z) /\ 0 < z /\ z <= s.n
  <2>1. 0 \in Nat /\ 0 <= s1.n /\ 0 <= s1.used + 1 /\ s1.used \in Nat /\ IsPower(s1.n)
    BY <1>1, <1>4
  <2>2. QED
    BY <2>1, <1>4, <1>8, NewSizeFits DEF z
<1>10. Rebuilt(s1, z, q)
  BY <1>5, <1>6, <1>7, <1>9, RebuildGood DEF q
<1>11. OK(q) /\ q.n <= s.n /\ IsTab(q)
  BY <1>9, <1>10 DEF Rebuilt, OK, Good, Sound
<1>12. KeysOf(q) = {}
  <2>1. \A c : c \in KeysOf(q) <=> c \in Keys /\ \E vv \in Vals \cup {Nil} : Has(q, c, vv)
    BY <1>11, KeysHeld
  <2>2. \A c : c \in KeysOf(s1) <=> c \in Keys /\ \E vv \in Vals \cup {Nil} : Has(s1, c, vv)
    BY <1>5, KeysHeld
  <2>3. QED
    BY <2>1, <2>2, <1>6, <1>10 DEF Rebuilt, SameSlots
<1>13. QED
  BY <1>2, <1>8, <1>11, <1>12

\* Clone has the same slots.
LEMMA ClonedGood ==
    ASSUME NEW s, OK(s)
    PROVE  OK(Cloned(s)) /\ Cloned(s).n = s.n /\ SameSlots(s, Cloned(s))
<1>1. IsPower(s.n) /\ IsTab(s) /\ Unique(s) /\ s.key[s.free] = Null
  BY DEF OK, Good, Sound, FreeOK
<1> DEFINE c == Cardinality(KeysOf(s))
           n == s.n
<1>2. n \in Nat \ {0} /\ c \in Nat /\ c <= n - 1
  BY <1>1, KeysFew, TabTypes
<1> HIDE DEF c, n
<1>3. c < n
  BY <1>2
<1> DEFINE q == Rebuild(s, n)
<1>4. Rebuilt(s, n, q)
  BY <1>1, <1>2, <1>3, RebuildGood DEF c
<1>5. Cloned(s) = q
  BY DEF Cloned, n
<1> HIDE DEF q
<1>6. QED
  BY <1>1, <1>4, <1>5 DEF Rebuilt, OK, n

-----------------------------------------------------------------------------
(* The table as a map.                                                     *)

\* SlotMap of a table.
MapOf(s) == [k \in KeysOf(s) |-> s.val[CHOOSE i \in Nodes(s) : s.key[i] = k]]

\* The map holds the slots, and _Get looks them up.
LEMMA MapFacts ==
    ASSUME NEW s, OK(s)
    PROVE  /\ \A k \in KeysOf(s) : k \in Keys /\ Has(s, k, MapOf(s)[k])
                                   /\ MapOf(s)[k] \in Vals \cup {Nil}
           /\ \A k \in Keys : \A v : Has(s, k, v) => k \in KeysOf(s) /\ MapOf(s)[k] = v
           /\ \A k \in Keys : IF GetNode(s, k) = Nil THEN k \notin KeysOf(s)
                              ELSE k \in KeysOf(s) /\ s.val[GetNode(s, k)] = MapOf(s)[k]
<1> DEFINE N == Nodes(s)
           f == MapOf(s)
<1>1. IsTab(s) /\ Unique(s) /\ Acyclic(s) /\ Reached(s)
  BY DEF OK, Good, Sound
<1>2. /\ KeysOf(s) = {s.key[i] : i \in N} \ {Null} /\ s.val \in [N -> Vals \cup {Nil}]
      /\ \A i \in N : s.key[i] \in Keys \cup {Null}
  BY <1>1, TabTypes DEF KeysOf, Nodes
<1>3. ASSUME NEW i \in N, s.key[i] # Null
      PROVE  s.key[i] \in KeysOf(s) /\ f[s.key[i]] = s.val[i]
  <2> DEFINE k == s.key[i]
             c == CHOOSE j \in N : s.key[j] = k
  <2>1. c \in N /\ s.key[c] = k
    OBVIOUS
  <2>2. f[k] = s.val[c] /\ k \in KeysOf(s)
    BY <1>2, <1>3 DEF MapOf
  <2> HIDE DEF c
  <2>3. c = i
    BY <2>1, <1>1, <1>3 DEF Unique
  <2>4. QED
    BY <2>2, <2>3
<1> HIDE DEF f
<1>4. ASSUME NEW k \in KeysOf(s)
      PROVE  k \in Keys /\ Has(s, k, f[k]) /\ f[k] \in Vals \cup {Nil}
  <2>1. PICK i \in N : s.key[i] = k /\ k # Null
    BY <1>2
  <2>2. f[k] = s.val[i] /\ k \in Keys /\ s.val[i] \in Vals \cup {Nil}
    BY <2>1, <1>2, <1>3
  <2>3. QED
    BY <2>1, <2>2 DEF Has
<1>5. ASSUME NEW k \in Keys, NEW v, Has(s, k, v) PROVE k \in KeysOf(s) /\ f[k] = v
  <2>1. PICK i \in N : s.key[i] = k /\ s.val[i] = v
    BY <1>5 DEF Has
  <2>2. QED
    BY <2>1, <1>3
<1>6. ASSUME NEW k \in Keys
      PROVE  IF GetNode(s, k) = Nil THEN k \notin KeysOf(s)
             ELSE k \in KeysOf(s) /\ s.val[GetNode(s, k)] = f[k]
  <2> DEFINE g == GetNode(s, k)
  <2>1. (g = Nil <=> k \notin KeysOf(s)) /\ (g # Nil => g \in N /\ s.key[g] = k)
    BY <1>1, GetNodeFinds
  <2> HIDE DEF g
  <2>2. QED
    BY <2>1, <1>3 DEF g
<1>7. QED
  BY <1>4, <1>5, <1>6 DEF f

\* A map with the slots of a table is its map.
LEMMA MapIs ==
    ASSUME NEW s, OK(s), NEW h, h = [k \in KeysOf(s) |-> h[k]], \A k \in KeysOf(s) : Has(s, k, h[k])
    PROVE  MapOf(s) = h
<1>1. \A k \in KeysOf(s) : MapOf(s)[k] = h[k]
  BY MapFacts
<1>2. MapOf(s) = [k \in KeysOf(s) |-> MapOf(s)[k]]
  BY DEF MapOf
<1> DEFINE f == MapOf(s)
<1> HIDE DEF f
<1>3. f = h
  BY <1>1, <1>2 DEF f
<1>4. QED
  BY <1>3 DEF f

\* The map after NewSlot, or after Set of a slot that is there.
LEMMA MapWith ==
    ASSUME NEW s, OK(s), NEW s2, OK(s2), NEW k \in Keys, NEW v \in Vals \cup {Nil}, With(s, s2, k, v)
    PROVE  MapOf(s2) = [j \in KeysOf(s) \cup {k} |-> IF j = k THEN v ELSE MapOf(s)[j]]
<1> DEFINE f == MapOf(s)
           K == KeysOf(s) \cup {k}
           h == [j \in K |-> IF j = k THEN v ELSE f[j]]
<1>1. \A j \in KeysOf(s) : j \in Keys /\ Has(s, j, f[j]) /\ f[j] \in Vals \cup {Nil}
  BY MapFacts
<1>2. \A j \in Keys : \A w : Has(s2, j, w) => j \in KeysOf(s2)
  BY MapFacts
<1>3. \A j \in KeysOf(s2) : j \in Keys /\ \E w \in Vals \cup {Nil} : Has(s2, j, w)
  BY MapFacts
<1>4. \A j \in Keys : \A w : Has(s, j, w) => j \in KeysOf(s)
  BY MapFacts
<1> HIDE DEF f
<1>5. \A j \in K : j \in Keys /\ Has(s2, j, h[j])
  BY <1>1 DEF With
<1>6. KeysOf(s2) = K
  <2>1. \A j \in KeysOf(s2) : j \in K
    BY <1>3, <1>4 DEF With
  <2>2. \A j \in K : j \in KeysOf(s2)
    BY <1>2, <1>5
  <2>3. QED
    BY <2>1, <2>2
<1>7. h = [j \in KeysOf(s2) |-> h[j]] /\ \A j \in KeysOf(s2) : Has(s2, j, h[j])
  BY <1>5, <1>6
<1> HIDE DEF h, K
<1>8. MapOf(s2) = h
  BY <1>7, MapIs
<1>9. QED
  BY <1>8 DEF h, f, K

\* The map after Remove.
LEMMA MapWithout ==
    ASSUME NEW s, OK(s), NEW s2, OK(s2), NEW k, Without(s, s2, k)
    PROVE  MapOf(s2) = [j \in KeysOf(s) \ {k} |-> MapOf(s)[j]]
<1> DEFINE f == MapOf(s)
           K == KeysOf(s) \ {k}
           h == [j \in K |-> f[j]]
<1>1. \A j \in KeysOf(s) : j \in Keys /\ Has(s, j, f[j]) /\ f[j] \in Vals \cup {Nil}
  BY MapFacts
<1>2. \A j \in Keys : \A w : Has(s2, j, w) => j \in KeysOf(s2)
  BY MapFacts
<1>3. \A j \in KeysOf(s2) : j \in Keys /\ \E w \in Vals \cup {Nil} : Has(s2, j, w)
  BY MapFacts
<1>4. \A j \in Keys : \A w : Has(s, j, w) => j \in KeysOf(s)
  BY MapFacts
<1> HIDE DEF f
<1>5. \A j \in K : j \in Keys /\ Has(s2, j, h[j])
  BY <1>1 DEF Without
<1>6. KeysOf(s2) = K
  <2>1. \A j \in KeysOf(s2) : j \in K
    BY <1>3, <1>4 DEF Without
  <2>2. \A j \in K : j \in KeysOf(s2)
    BY <1>2, <1>5
  <2>3. QED
    BY <2>1, <2>2
<1>7. h = [j \in KeysOf(s2) |-> h[j]] /\ \A j \in KeysOf(s2) : Has(s2, j, h[j])
  BY <1>5, <1>6
<1> HIDE DEF h, K
<1>8. MapOf(s2) = h
  BY <1>7, MapIs
<1>9. QED
  BY <1>8 DEF h, f, K

\* Tables with the same slots have the same map.
LEMMA MapSame ==
    ASSUME NEW s, OK(s), NEW s2, OK(s2), SameSlots(s, s2)
    PROVE  MapOf(s2) = MapOf(s)
<1>1. Without(s, s2, Null)
  BY DEF SameSlots, Without
<1>2. MapOf(s2) = [j \in KeysOf(s) \ {Null} |-> MapOf(s)[j]]
  BY <1>1, MapWithout
<1>3. KeysOf(s) \ {Null} = KeysOf(s)
  BY DEF KeysOf
<1>4. MapOf(s) = [j \in KeysOf(s) |-> MapOf(s)[j]]
  BY DEF MapOf
<1>5. QED
  BY <1>2, <1>3, <1>4

-----------------------------------------------------------------------------
(* The invariant.                                                          *)

Iters == [pos : (0 .. MaxNodes) \cup {Nil}, seen : SUBSET Keys, kept : SUBSET Keys,
          moved : BOOLEAN, twice : BOOLEAN, ended : BOOLEAN]

\* The iteration has seen no key that lies ahead of it, and every key that has
\* stayed and lies behind it.
Tracks(s, it) ==
    /\ it.kept \subseteq KeysOf(s)
    /\ \A i \in Nodes(s) : s.key[i] # Null =>
          IF i >= it.pos THEN s.key[i] \notin it.seen ELSE s.key[i] \in it.kept => s.key[i] \in it.seen

IterOK(s, it) ==
    /\ it \in Iters
    /\ it.pos = Nil => it = NoIter
    /\ ~it.moved => ~it.twice /\ (it.ended => it.kept \subseteq it.seen)
    /\ it.pos # Nil /\ ~it.moved => Tracks(s, it)

Inv == /\ OK(t) /\ t.n <= MaxNodes
       /\ ret \in Vals \cup {Nil} \cup BOOLEAN
       /\ path \in {"plain", "rebuilt", "nullhit"}
       /\ use \in Programs
       /\ IterOK(t, iter)

\* The iteration over a table that is rebuilt, or in which keys stay where they
\* are or go.
LEMMA DisturbOK ==
    ASSUME OK(t), IterOK(t, iter), OK(t'), Stays(t, t'), Disturb(t')
    PROVE  IterOK(t', iter')
<1>1. CASE iter.pos = Nil
  <2>1. iter' = iter /\ iter = NoIter
    BY <1>1 DEF Disturb, IterOK
  <2>2. QED
    BY <2>1 DEF IterOK, NoIter
<1>2. CASE iter.pos # Nil
  <2> DEFINE mv == iter.moved \/ t'.n # t.n \/ KeysOf(t') \ KeysOf(t) # {}
  <2>1. iter' = [iter EXCEPT !.kept = iter.kept \cap KeysOf(t'), !.moved = mv]
    BY <1>2 DEF Disturb
  <2>2. iter \in Iters /\ mv \in BOOLEAN
    BY DEF IterOK
  <2> HIDE DEF mv
  <2>3. /\ iter' \in Iters /\ iter'.pos = iter.pos /\ iter'.seen = iter.seen
        /\ iter'.kept = iter.kept \cap KeysOf(t') /\ iter'.moved = mv /\ iter'.twice = iter.twice
        /\ iter'.ended = iter.ended
    BY <2>1, <2>2 DEF Iters
  <2>4. ASSUME ~mv PROVE ~iter'.twice /\ (iter'.ended => iter'.kept \subseteq iter'.seen) /\ Tracks(t', iter')
    <3>1. ~iter.moved /\ t'.n = t.n /\ KeysOf(t') \subseteq KeysOf(t)
      BY <2>4 DEF mv
    <3>2. Tracks(t, iter) /\ ~iter.twice /\ (iter.ended => iter.kept \subseteq iter.seen)
      BY <3>1, <1>2 DEF IterOK
    <3>3. Nodes(t') = Nodes(t) /\ \A i \in Nodes(t) : t'.key[i] = t.key[i] \/ t'.key[i] = Null
      BY <3>1 DEF Stays, Nodes
    <3>4. Tracks(t', iter')
      BY <2>3, <3>2, <3>3 DEF Tracks
    <3>5. QED
      BY <2>3, <3>2, <3>4
  <2>5. QED
    BY <1>2, <2>3, <2>4 DEF IterOK
<1>3. QED
  BY <1>1, <1>2

\* SQTable::Next.
LEMMA IterNextOK ==
    ASSUME OK(t), t.n <= MaxNodes, IterOK(t, iter), IterNext
    PROVE  IterOK(t, iter')
<1> DEFINE p == iter.pos
           ahead == {i \in p .. t.n - 1 : t.key[i] # Null}
           c == CHOOSE i \in ahead : \A j \in ahead : i <= j
           N == Nodes(t)
<1>1. IsTab(t) /\ Unique(t) /\ t.n \in Nat /\ N = 0 .. t.n - 1 /\ \A i \in N : t.key[i] \in Keys \cup {Null}
  BY TabTypes DEF OK, Good, Sound
<1>2. p # Nil /\ iter \in Iters /\ p \in 0 .. MaxNodes /\ MaxNodes \in Nat
  BY DEF IterNext, IterOK, Iters
<1>3. \A i : i \in ahead <=> i \in N /\ i >= p /\ t.key[i] # Null
  BY <1>1, <1>2
<1>4. \/ ahead = {} /\ iter' = [iter EXCEPT !.ended = TRUE]
      \/ /\ ahead # {}
         /\ iter' = [iter EXCEPT !.pos = c + 1, !.seen = iter.seen \cup {t.key[c]},
                                 !.twice = iter.twice \/ t.key[c] \in iter.seen]
  BY DEF IterNext
<1>5. ahead \in SUBSET Nat
  BY <1>2
<1>6. ahead # {} => c \in ahead /\ \A j \in ahead : c <= j
  <2>1. ahead # {} => \E i \in ahead : \A j \in ahead : i <= j
    BY <1>5, LeastNat
  <2> HIDE DEF ahead
  <2>2. QED
    BY <2>1
<1>7. ~iter.moved => Tracks(t, iter) /\ ~iter.twice /\ (iter.ended => iter.kept \subseteq iter.seen)
  BY <1>2 DEF IterOK
<1>8. KeysOf(t) = {t.key[i] : i \in N} \ {Null}
  BY <1>1 DEF KeysOf
<1> HIDE DEF ahead, c, N
<1>9. CASE ahead = {}
  <2>1. iter' = [iter EXCEPT !.ended = TRUE]
    BY <1>4, <1>9
  <2>2. /\ iter' \in Iters /\ iter'.pos = p /\ iter'.seen = iter.seen /\ iter'.kept = iter.kept
        /\ iter'.moved = iter.moved /\ iter'.twice = iter.twice
    BY <2>1, <1>2 DEF Iters
  <2>3. ASSUME ~iter.moved PROVE iter.kept \subseteq iter.seen
    <3>1. SUFFICES ASSUME NEW k \in iter.kept PROVE k \in iter.seen
      OBVIOUS
    <3>2. PICK i \in N : t.key[i] = k /\ k # Null
      BY <3>1, <2>3, <1>7, <1>8 DEF Tracks
    <3>3. ~(i >= p)
      BY <3>2, <1>3, <1>9
    <3>4. QED
      BY <3>1, <3>2, <3>3, <2>3, <1>7 DEF Tracks, N
  <2>4. ~iter.moved => Tracks(t, iter')
    BY <2>2, <1>7 DEF Tracks
  <2>5. QED
    BY <2>2, <2>3, <2>4, <1>2, <1>7 DEF IterOK
<1>10. CASE ahead # {}
  <2> DEFINE k == t.key[c]
             tw == iter.twice \/ k \in iter.seen
  <2>1. iter' = [iter EXCEPT !.pos = c + 1, !.seen = iter.seen \cup {k}, !.twice = tw]
    BY <1>4, <1>10
  <2>2. c \in N /\ c >= p /\ k # Null /\ \A j \in ahead : c <= j
    BY <1>3, <1>6, <1>10
  <2>3. k \in Keys /\ c + 1 \in 0 .. MaxNodes /\ c \in Nat /\ p \in Nat
    <3>1. k \in Keys
      BY <2>2, <1>1
    <3> DEFINE n == t.n
    <3>2. c \in 0 .. n - 1 /\ n \in Nat /\ n <= MaxNodes /\ p \in Nat /\ MaxNodes \in Nat
      BY <2>2, <1>1, <1>2
    <3> HIDE DEF n
    <3>3. QED
      BY <3>1, <3>2
  <2>4. tw \in BOOLEAN
    BY <1>2 DEF Iters
  <2> HIDE DEF k, tw
  <2>5. /\ iter' \in Iters /\ iter'.pos = c + 1 /\ iter'.seen = iter.seen \cup {k}
        /\ iter'.kept = iter.kept /\ iter'.moved = iter.moved /\ iter'.twice = tw
        /\ iter'.ended = iter.ended
    BY <2>1, <2>3, <2>4, <1>2 DEF Iters
  <2>6. c + 1 # Nil
    BY <2>3
  <2>7. ASSUME ~iter.moved
        PROVE  ~tw /\ (iter.ended => iter.kept \subseteq iter.seen \cup {k}) /\ Tracks(t, iter')
    <3>1. k \notin iter.seen
      BY <2>2, <2>7, <1>7 DEF Tracks, k, N
    <3>2. ASSUME NEW i \in N, t.key[i] # Null
          PROVE  IF i >= c + 1 THEN t.key[i] \notin iter.seen \cup {k}
                 ELSE t.key[i] \in iter.kept => t.key[i] \in iter.seen \cup {k}
      <4>0. i \in Nat
        BY <1>1
      <4>1. CASE i >= c + 1
        <5>1. i >= p /\ i # c
          BY <4>0, <4>1, <2>2, <2>3
        <5>2. t.key[i] # k
          BY <5>1, <2>2, <3>2, <1>1 DEF Unique, k, N
        <5>3. t.key[i] \notin iter.seen
          BY <5>1, <3>2, <2>7, <1>7 DEF Tracks, N
        <5>4. QED
          BY <5>2, <5>3, <4>1
      <4>2. CASE ~(i >= c + 1) /\ i >= p
        <5>1. c <= i
          BY <4>2, <3>2, <2>2, <1>3
        <5>2. i = c
          BY <5>1, <4>0, <4>2, <2>3
        <5>3. QED
          BY <5>2, <4>2 DEF k
      <4>3. CASE ~(i >= c + 1) /\ ~(i >= p)
        BY <4>3, <3>2, <2>7, <1>7 DEF Tracks, N
      <4>4. QED
        BY <4>1, <4>2, <4>3
    <3>3. Tracks(t, iter')
      BY <3>2, <2>5, <2>7, <1>7 DEF Tracks, N
    <3>4. QED
      BY <3>1, <3>3, <2>7, <1>7 DEF tw
  <2>8. QED
    BY <2>5, <2>6, <2>7 DEF IterOK
<1>11. QED
  BY <1>9, <1>10

-----------------------------------------------------------------------------
(* Theorems.                                                               *)

\* The invariant holds at the start.
LEMMA InitInv == Init => Inv
<1> SUFFICES ASSUME Init PROVE Inv
  OBVIOUS
<1>1. PICK size \in Sizes : t = AllocNodes(Pow2(size))
  BY DEF Init
<1>2. size \in Nat /\ Pow2(size) <= MaxNodes
  BY CapacityAssumption
<1> DEFINE z == Pow2(size)
<1>3. IsPower(z)
  BY <1>2, Pow2Power
<1> HIDE DEF z
<1>4. z \in Nat \ {0}
  <2>1. z \in Nat /\ z >= 4
    BY <1>3, PowerFacts
  <2>2. QED
    BY <2>1
<1>5. Good(t) /\ t.n = z
  BY <1>1, <1>4, AllocGood DEF z
<1>6. OK(t) /\ t.n <= MaxNodes
  BY <1>2, <1>3, <1>5 DEF OK, z
<1>7. ret \in Vals \cup {Nil} \cup BOOLEAN
  BY DEF Init
<1>8. IterOK(t, iter)
  BY DEF Init, IterOK, NoIter, Iters
<1>9. path \in {"plain", "rebuilt", "nullhit"} /\ use \in Programs
  BY DEF Init
<1>10. QED
  BY <1>6, <1>7, <1>8, <1>9 DEF Inv

\* Every operation preserves it.
LEMMA StepInv == Inv /\ [Next]_vars => Inv'
<1> SUFFICES ASSUME Inv, [Next]_vars PROVE Inv'
  OBVIOUS
<1>1. OK(t) /\ t.n <= MaxNodes /\ IterOK(t, iter) /\ ret \in Vals \cup {Nil} \cup BOOLEAN
  BY DEF Inv
<1>0. path' \in {"plain", "rebuilt", "nullhit"} /\ use' \in Programs
  <2>1. path \in {"plain", "rebuilt", "nullhit"} /\ use \in Programs
    BY DEF Inv
  <2>2. use' = use
    BY DEF Next, vars
  <2>3. path' \in {"plain", "rebuilt", "nullhit"}
    BY <2>1 DEF Next, vars, Get, NewSlot, Set, Remove, Clear, Clone, IterBegin, IterNext, IterEnd
  <2>4. QED
    BY <2>1, <2>2, <2>3
<1>2. IsTab(t) /\ t.n \in Nat /\ MaxNodes \in Nat
  BY <1>1, TabTypes DEF OK, Good, Sound
<1>3. ASSUME NEW k \in Keys, Get(k) PROVE Inv'
  <2>1. t' = t /\ iter' = iter /\ ret' = IF GetNode(t, k) = Nil THEN Nil ELSE t.val[GetNode(t, k)]
    BY <1>3 DEF Get
  <2>2. GetNode(t, k) # Nil => GetNode(t, k) \in Nodes(t)
    BY <1>2, GetNodeType
  <2>3. ret' \in Vals \cup {Nil} \cup BOOLEAN
    BY <2>1, <2>2, <1>2, TabTypes
  <2>4. QED
    BY <2>1, <2>3, <1>1, <1>0 DEF Inv
<1>4. ASSUME NEW k \in Keys, NEW v \in Vals, NewSlot(k, v) PROVE Inv'
  <2>1. t' = Insert(t, k, v) /\ t'.n <= MaxNodes /\ ret' \in BOOLEAN /\ Disturb(t')
    BY <1>4 DEF NewSlot
  <2>2. OK(t') /\ Stays(t, t')
    BY <2>1, <1>1, InsertGood
  <2>3. IterOK(t', iter')
    BY <2>1, <2>2, <1>1, DisturbOK
  <2>4. QED
    BY <2>1, <2>2, <2>3, <1>0 DEF Inv
<1>5. ASSUME NEW k \in Keys \cup {Null}, NEW v \in Vals, Set(k, v) PROVE Inv'
  <2>1. t' = Assign(t, k, v) /\ iter' = iter /\ ret' \in BOOLEAN
    BY <1>5 DEF Set
  <2>2. OK(t') /\ t'.n = t.n /\ \A i \in Nodes(t) : t'.key[i] = t.key[i]
    BY <2>1, <1>1, AssignGood
  <2>3. Nodes(t') = Nodes(t) /\ KeysOf(t') = KeysOf(t)
    BY <2>2 DEF Nodes, KeysOf
  <2>4. Tracks(t, iter) => Tracks(t', iter)
    BY <2>2, <2>3 DEF Tracks
  <2>5. IterOK(t', iter')
    BY <2>1, <2>4, <1>1 DEF IterOK
  <2>6. QED
    BY <2>1, <2>2, <2>5, <1>1, <1>0 DEF Inv
<1>6. ASSUME NEW k \in Keys, Remove(k) PROVE Inv'
  <2>1. t' = Delete(t, k) /\ t'.n <= MaxNodes /\ ret' \in BOOLEAN /\ Disturb(t')
    BY <1>6 DEF Remove
  <2>2. OK(t') /\ Stays(t, t')
    BY <2>1, <1>1, DeleteGood
  <2>3. IterOK(t', iter')
    BY <2>1, <2>2, <1>1, DisturbOK
  <2>4. QED
    BY <2>1, <2>2, <2>3, <1>0 DEF Inv
<1>7. CASE Clear
  <2>1. t' = Cleared(t) /\ ret' = ret /\ Disturb(t')
    BY <1>7 DEF Clear
  <2>2. OK(t') /\ t'.n <= t.n /\ KeysOf(t') = {}
    BY <2>1, <1>1, ClearedGood
  <2>3. Stays(t, t')
    BY <2>2 DEF Stays, KeysOf, Nodes
  <2>4. IterOK(t', iter')
    BY <2>1, <2>2, <2>3, <1>1, DisturbOK
  <2>5. t'.n \in Nat
    BY <2>2, TabTypes DEF OK, Good, Sound
  <2> DEFINE a == t.n  b == t'.n
  <2>6. a \in Nat /\ b \in Nat /\ b <= a /\ a <= MaxNodes
    BY <2>2, <2>5, <1>1, <1>2
  <2> HIDE DEF a, b
  <2>7. b <= MaxNodes
    BY <2>6, <1>2
  <2>8. QED
    BY <2>1, <2>2, <2>4, <2>7, <1>1, <1>0 DEF Inv, b
<1>8. CASE Clone
  <2>1. t' = Cloned(t) /\ ret' = ret /\ iter' = NoIter
    BY <1>8 DEF Clone
  <2>2. OK(t') /\ t'.n = t.n
    BY <2>1, <1>1, ClonedGood
  <2>3. IterOK(t', iter')
    BY <2>1 DEF IterOK, NoIter, Iters
  <2>4. QED
    BY <2>1, <2>2, <2>3, <1>1, <1>0 DEF Inv
<1>9. CASE IterBegin
  <2>1. t' = t /\ ret' = ret /\ iter' = [NoIter EXCEPT !.pos = 0, !.kept = KeysOf(t)]
    BY <1>9 DEF IterBegin
  <2>2. KeysOf(t) \subseteq Keys
    BY <1>1, MapFacts
  <2>3. iter' = [pos |-> 0, seen |-> {}, kept |-> KeysOf(t), moved |-> FALSE, twice |-> FALSE,
                 ended |-> FALSE]
    BY <2>1 DEF NoIter
  <2>4. iter' \in Iters /\ 0 # Nil
    BY <2>2, <2>3, <1>2 DEF Iters
  <2>5. \A i \in Nodes(t) : i >= 0
    BY <1>2, TabTypes
  <2>6. Tracks(t, iter')
    BY <2>3, <2>5 DEF Tracks
  <2>7. IterOK(t, iter')
    BY <2>3, <2>4, <2>6 DEF IterOK
  <2>8. QED
    BY <2>1, <2>7, <1>1, <1>0 DEF Inv
<1>10. CASE IterNext
  <2>1. t' = t /\ ret' = ret
    BY <1>10 DEF IterNext
  <2>2. IterOK(t, iter')
    BY <1>1, <1>10, IterNextOK
  <2>3. QED
    BY <2>1, <2>2, <1>1, <1>0 DEF Inv
<1>11. CASE IterEnd
  <2>1. t' = t /\ ret' = ret /\ iter' = NoIter
    BY <1>11 DEF IterEnd
  <2>2. IterOK(t, NoIter)
    BY DEF IterOK, NoIter, Iters
  <2>3. QED
    BY <2>1, <2>2, <1>1, <1>0 DEF Inv
<1>12. CASE UNCHANGED vars
  BY <1>12, <1>0, <1>1 DEF vars, Inv
<1>13. use.keys \subseteq Keys /\ use.vals \subseteq Vals
  BY ProgramsAssumption DEF Inv
<1>14. QED
  BY <1>13, <1>3, <1>4, <1>5, <1>6, <1>7, <1>8, <1>9, <1>10, <1>11, <1>12 DEF Next

\* The table is good, of a bounded power of two of nodes, and the iteration is
\* where it has to be, after any sequence of operations.
THEOREM TableInvariant == Spec => []Inv
  BY InitInv, StepInv, PTL DEF Spec

\* The components of a table and of an iteration are in range, whatever the keys
\* and their hashes are.
THEOREM TableTypes == Spec => []TypeOK
<1>1. Inv => TypeOK
  <2> SUFFICES ASSUME Inv PROVE TypeOK
    OBVIOUS
  <2>1. IsTab(t) /\ Counted(t) /\ t.n <= MaxNodes
    BY DEF Inv, OK, Good, Sound
  <2> DEFINE n == t.n  u == t.used
  <2>2. n \in Nat \ {0} /\ u \in Nat /\ u <= n /\ n <= MaxNodes
    BY <2>1, KeysFew, TabTypes DEF Counted
  <2> HIDE DEF n, u
  <2>3. n \in 1 .. MaxNodes /\ u \in 0 .. n
    BY <2>2
  <2>4. iter.pos \in 0 .. MaxNodes \cup {Nil} /\ ret \in Vals \cup {Nil} \cup BOOLEAN
    BY DEF Inv, IterOK, Iters
  <2>5. /\ t.key \in [Nodes(t) -> Keys \cup {Null}] /\ t.val \in [Nodes(t) -> Vals \cup {Nil}]
        /\ t.next \in [Nodes(t) -> Nodes(t) \cup {Nil}] /\ t.free \in Nodes(t)
    BY <2>1, TabTypes
  <2>6. path \in {"plain", "rebuilt", "nullhit"}
    BY DEF Inv
  <2>7. QED
    BY <2>3, <2>4, <2>5, <2>6 DEF TypeOK, n, u
<1>2. QED
  BY <1>1, TableInvariant, PTL

\* Chains end, every key is found at its node and stored once, _firstfree is
\* free, and the colliding nodes lie above it: what _Get, NewSlot and Remove
\* rely on, for every hash function.
THEOREM NodesAreSound == Spec => []NodesSound
<1>1. Inv => NodesSound
  <2> SUFFICES ASSUME Inv PROVE NodesSound
    OBVIOUS
  <2>1. /\ IsTab(t) /\ Acyclic(t) /\ Unique(t) /\ Reached(t) /\ StraysAbove(t)
        /\ t.key[t.free] = Null /\ t.next[t.free] = Nil
    BY DEF Inv, OK, Good, Sound, FreeOK
  <2>2. ChainsEnd
    <3>1. SUFFICES ASSUME NEW h \in Nodes(t) PROVE Walk(t, h)[t.n] = Nil
      BY DEF ChainsEnd
    <3>2. Walks(t, h, Walk(t, h))
      BY <2>1, WalkSteps
    <3>3. QED
      BY <3>2, <2>1, WalkEnds
  <2>3. SlotsFound
    <3>1. SUFFICES ASSUME NEW i \in Nodes(t), t.key[i] # Null PROVE GetNode(t, t.key[i]) = i
      BY DEF SlotsFound
    <3>2. t.key[i] \in Keys
      BY <3>1, <2>1, TabTypes
    <3>3. QED
      BY <3>2, <2>1, GetNodeFinds
  <2>4. CollidersAboveFree
    <3>1. SUFFICES ASSUME NEW i \in Nodes(t), t.key[i] # Null, MainPos(t, t.key[i]) # i
                   PROVE  i > t.free
      BY DEF CollidersAboveFree
    <3>2. i >= t.free /\ i # t.free
      BY <3>1, <2>1 DEF StraysAbove, Stray
    <3> DEFINE f == t.free
    <3>3. i \in Nat /\ f \in Nat /\ i >= f /\ i # f
      BY <3>2, <2>1, TabTypes
    <3> HIDE DEF f
    <3>4. i > f
      BY <3>3
    <3>5. QED
      BY <3>4 DEF f
  <2>5. QED
    BY <2>1, <2>2, <2>3, <2>4 DEF NodesSound, FreeNodeIsFree
<1>2. QED
  BY <1>1, TableInvariant, PTL

\* _usednodes is the number of slots, and the size Rehash chooses always
\* suffices.
THEOREM SizesAreSound == Spec => []SizesSound
<1>1. Inv => SizesSound
  BY DEF Inv, OK, Good, Counted, SizesSound, UsedCounts, RebuildFits
<1>2. QED
  BY <1>1, TableInvariant, PTL

\* An iteration under which slots are assigned and removed sees every key that
\* stays, and none twice.
THEOREM IterationsAreExact == Spec => []IterationExact
<1>1. Inv => IterationExact
  BY DEF Inv, IterOK, IterationExact
<1>2. QED
  BY <1>1, TableInvariant, PTL

\* Every operation of the hash table is the operation of the same name of the
\* map, or leaves the map alone.
LEMMA StepRefines == Inv /\ Inv' /\ [Next]_vars => [Abstract!Next]_<<SlotMap, Promised>>
<1> SUFFICES ASSUME Inv, Inv', [Next]_vars PROVE [Abstract!Next]_<<SlotMap, Promised>>
  OBVIOUS
<1> DEFINE m == MapOf(t)
           K == KeysOf(t)
<1>0. SlotMap = m /\ SlotMap' = MapOf(t')
  BY DEF SlotMap, MapOf
<1>1. OK(t) /\ OK(t')
  BY DEF Inv
<1>2. DOMAIN m = K /\ m = [j \in K |-> m[j]]
  BY DEF MapOf
<1>3. \A k \in Keys : IF GetNode(t, k) = Nil THEN k \notin K
                      ELSE k \in K /\ t.val[GetNode(t, k)] = m[k]
  BY <1>1, MapFacts
<1> HIDE DEF m, K
<1>4. ASSUME NEW k \in Keys, Get(k) PROVE Abstract!Next
  <2>1. t' = t /\ Promised' = IF GetNode(t, k) = Nil THEN Nil ELSE t.val[GetNode(t, k)]
    BY <1>4 DEF Get, Promised
  <2>2. Abstract!Get(k)
    BY <2>1, <1>0, <1>2, <1>3 DEF Abstract!Get, m
  <2>3. QED
    BY <2>2 DEF Abstract!Next
<1>5. ASSUME NEW k \in Keys, NEW v \in Vals, NewSlot(k, v) PROVE Abstract!Next
  <2>1. t' = Insert(t, k, v) /\ ret' = (GetNode(t, k) = Nil /\ ~Put(t, k, v).full)
    BY <1>5 DEF NewSlot
  <2>2. With(t, t', k, v)
    BY <2>1, <1>1, InsertGood
  <2>3. MapOf(t') = [j \in K \cup {k} |-> IF j = k THEN v ELSE m[j]]
    BY <2>2, <1>1, MapWith DEF K, m
  <2>4. Promised' = (k \notin K)
    <3>1. GetNode(t, k) = Nil <=> k \notin K
      BY <1>3
    <3>2. Put(t, k, v).full => GetNode(t, k) = Nil
      <4>1. ~t.full
        BY <1>1 DEF OK, Good
      <4>2. GetNode(t, k) # Nil => Put(t, k, v) = [t EXCEPT !.val[GetNode(t, k)] = v]
        BY DEF Put
      <4>3. GetNode(t, k) # Nil => ~Put(t, k, v).full
        <5> DEFINE w == [t.val EXCEPT ![GetNode(t, k)] = v]
        <5>1. IsTab(t)
          BY <1>1 DEF OK, Good, Sound
        <5>2. [t EXCEPT !.val = w].full = t.full
          <6> HIDE DEF w
          <6> QED BY <5>1 DEF IsTab
        <5>3. [t EXCEPT !.val[GetNode(t, k)] = v] = [t EXCEPT !.val = w]
          OBVIOUS
        <5>4. QED
          BY <4>1, <4>2, <5>2, <5>3
      <4>4. QED
        BY <4>3
    <3>3. path' = IF Put(t, k, v).full THEN "rebuilt" ELSE "plain"
      BY <1>5 DEF NewSlot
    <3>4. QED
      BY <2>1, <3>1, <3>2, <3>3 DEF Promised
  <2>5. Abstract!NewSlot(k, v)
    BY <2>3, <2>4, <1>0, <1>2 DEF Abstract!NewSlot
  <2>6. QED
    BY <2>5 DEF Abstract!Next
<1>6. ASSUME NEW k \in Keys, NEW v \in Vals, Set(k, v) PROVE Abstract!Next
  <2>1. t' = Assign(t, k, v) /\ Promised' = (GetNode(t, k) # Nil)
    BY <1>6, NullAssumption DEF Set, Promised
  <2>2. IF GetNode(t, k) # Nil THEN With(t, t', k, v) ELSE t' = t
    BY <2>1, <1>1, AssignGood
  <2>3. GetNode(t, k) # Nil <=> k \in K
    BY <1>3
  <2>4. MapOf(t') = IF k \in K THEN [m EXCEPT ![k] = v] ELSE m
    <3>1. CASE k \in K
      <4>1. MapOf(t') = [j \in K \cup {k} |-> IF j = k THEN v ELSE m[j]]
        BY <3>1, <2>2, <2>3, <1>1, MapWith DEF K, m
      <4>2. K \cup {k} = K
        BY <3>1
      <4>3. [m EXCEPT ![k] = v] = [j \in K |-> IF j = k THEN v ELSE m[j]]
        BY <1>2
      <4>4. QED
        BY <4>1, <4>2, <4>3, <3>1
    <3>2. CASE k \notin K
      BY <3>2, <2>2, <2>3 DEF m
    <3>3. QED
      BY <3>1, <3>2
  <2>5. Abstract!Set(k, v)
    BY <2>1, <2>3, <2>4, <1>0, <1>2 DEF Abstract!Set
  <2>6. QED
    BY <2>5 DEF Abstract!Next
<1>7. ASSUME NEW v \in Vals, Set(Null, v) PROVE Abstract!Next
  <2>1. t' = Assign(t, Null, v) /\ Promised' = FALSE
    BY <1>7 DEF Set, Promised
  <2>2. IF GetNode(t, Null) # Nil THEN With(t, t', Null, v) ELSE t' = t
    BY <2>1, <1>1, AssignGood
  <2>3. SameSlots(t, t')
    BY <2>2 DEF With, SameSlots
  <2>4. MapOf(t') = m
    BY <2>3, <1>1, MapSame DEF m
  <2>5. Abstract!SetNull
    BY <2>1, <2>4, <1>0 DEF Abstract!SetNull
  <2>6. QED
    BY <2>5 DEF Abstract!Next
<1>8. ASSUME NEW k \in Keys, Remove(k) PROVE Abstract!Next
  <2>1. t' = Delete(t, k) /\ Promised' = (GetNode(t, k) # Nil)
    BY <1>8 DEF Remove, Promised
  <2>2. Without(t, t', k)
    BY <2>1, <1>1, DeleteGood
  <2>3. MapOf(t') = [j \in K \ {k} |-> m[j]]
    BY <2>2, <1>1, MapWithout DEF K, m
  <2>4. Promised' = (k \in K)
    BY <2>1, <1>3
  <2>5. Abstract!Remove(k)
    BY <2>3, <2>4, <1>0, <1>2 DEF Abstract!Remove
  <2>6. QED
    BY <2>5 DEF Abstract!Next
<1>9. CASE Clear
  <2>1. t' = Cleared(t) /\ Promised' = Promised
    BY <1>9 DEF Clear, Promised
  <2>2. KeysOf(t') = {}
    BY <2>1, <1>1, ClearedGood
  <2>3. MapOf(t') = [k \in {} |-> Nil]
    BY <2>2 DEF MapOf
  <2>4. Abstract!Clear
    BY <2>1, <2>3, <1>0 DEF Abstract!Clear
  <2>5. QED
    BY <2>4 DEF Abstract!Next
<1>10. CASE Clone
  <2>1. t' = Cloned(t) /\ Promised' = Promised
    BY <1>10 DEF Clone, Promised
  <2>2. SameSlots(t, t')
    BY <2>1, <1>1, ClonedGood
  <2>3. MapOf(t') = m
    BY <2>2, <1>1, MapSame DEF m
  <2>4. QED
    BY <2>1, <2>3, <1>0
<1>11. CASE IterBegin \/ IterNext \/ IterEnd \/ UNCHANGED vars
  <2>1. t' = t /\ Promised' = Promised
    BY <1>11 DEF IterBegin, IterNext, IterEnd, vars, Promised
  <2>2. QED
    BY <2>1, <1>0 DEF m
<1>12. use.keys \subseteq Keys /\ use.vals \subseteq Vals
  BY ProgramsAssumption DEF Inv
<1>13. QED
  BY <1>12, <1>4, <1>5, <1>6, <1>7, <1>8, <1>9, <1>10, <1>11 DEF Next

\* The hash table implements the map, for every set of keys and every hash
\* function: collisions, tombstones and rebuilds cannot be observed.
THEOREM TableImplementsMap == Spec => ImplementsMap
<1>1. Init => Abstract!Init
  <2> SUFFICES ASSUME Init PROVE Abstract!Init
    OBVIOUS
  <2>1. PICK size \in Sizes : t = AllocNodes(Pow2(size))
    BY DEF Init
  <2>2. KeysOf(t) = {}
    <3> DEFINE z == Pow2(size)
    <3>1. \A i \in 0 .. z - 1 : t.key[i] = Null
      BY <2>1 DEF AllocNodes
    <3>2. t.n = z
      BY <2>1 DEF AllocNodes
    <3>3. QED
      BY <3>1, <3>2 DEF KeysOf
  <2>3. SlotMap = [k \in {} |-> Nil]
    BY <2>2 DEF SlotMap
  <2>4. QED
    BY <2>3 DEF Init, Abstract!Init, Promised
<1>2. QED
  BY <1>1, StepRefines, TableInvariant, PTL DEF Spec, ImplementsMap, Abstract!Spec
=============================================================================
