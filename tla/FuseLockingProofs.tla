------------------------- MODULE FuseLockingProofs -------------------------
(***************************************************************************)
(* Proofs about FuseLocking, for any number of threads and nodes: what     *)
(* fusefs_lockpair and fusefs_lockfour lock and in which order, that the   *)
(* unlocks give back what was locked, and when nobody can deadlock.        *)
(***************************************************************************)
EXTENDS FuseLocking, SequenceTheorems, WellFoundedInduction, TLAPS

\* No two nodes have each other, and none has itself, as recorded parent.
NoMutualParents ==
    \A n, m \in Nodes : ~(parent_nodeid[n] = m /\ parent_nodeid[m] = n)

\* Every directory has a lower address than the nodes made in it.
ParentsBelow == \A n \in Nodes : parent_nodeid[n] < n

\* In the order of the addresses.
Ascends(list) == \A i, k \in DOMAIN list : i < k => list[i] < list[k]

\* A list that has each of the nodes of a set once, and in that order if the
\* parents are below their children.
Locks(list, nodes) ==
    /\ list \in Seq(Nodes) /\ list # <<>> /\ IsInjective(list)
    /\ ToSet(list) = nodes
    /\ ParentsBelow => Ascends(list)

-----------------------------------------------------------------------------
\* A list with one more node.
LEMMA AppendNode ==
    ASSUME NEW list \in Seq(Nodes), NEW cp \in Nodes
    PROVE  LET l == Append(list, cp) IN
           /\ l \in Seq(Nodes) /\ l # <<>> /\ Last(l) = cp
           /\ ToSet(l) = ToSet(list) \union {cp}
           /\ IsInjective(list) /\ cp \notin ToSet(list) => IsInjective(l)
           /\ Ascends(list) /\ (\A x \in ToSet(list) : x < cp) => Ascends(l)
<1>. DEFINE l == Append(list, cp)
<1>1. /\ l \in Seq(Nodes) /\ Len(l) = Len(list) + 1 /\ DOMAIN l = 1 .. Len(list) + 1
      /\ \A i \in 1 .. Len(list) : l[i] = list[i]
      /\ l[Len(list) + 1] = cp /\ DOMAIN list = 1 .. Len(list) /\ Len(list) \in Nat
  BY AppendProperties
<1>. HIDE DEF l
<1>2. l # <<>>
  BY <1>1, EmptySeq
<1>3. Last(l) = cp
  BY <1>1 DEF Last
<1>4. ToSet(l) = ToSet(list) \union {cp}
  BY <1>1 DEF ToSet
<1>5. ASSUME IsInjective(list), cp \notin ToSet(list) PROVE IsInjective(l)
  BY <1>1, <1>5 DEF ToSet, IsInjective
<1>6. ASSUME Ascends(list), \A x \in ToSet(list) : x < cp PROVE Ascends(l)
  <2>. SUFFICES ASSUME NEW i \in 1 .. Len(list) + 1, NEW k \in 1 .. Len(list) + 1, i < k
                PROVE  l[i] < l[k]
    BY <1>1 DEF Ascends
  <2>1. i \in 1 .. Len(list) /\ l[i] = list[i] /\ list[i] \in ToSet(list)
    BY <1>1 DEF ToSet
  <2>2. CASE k = Len(list) + 1
    BY <1>1, <1>6, <2>1, <2>2
  <2>3. CASE k # Len(list) + 1
    <3>1. k \in 1 .. Len(list) /\ l[k] = list[k]
      BY <1>1, <2>3
    <3>. QED BY <1>1, <1>6, <2>1, <3>1 DEF Ascends
  <2>. QED BY <2>2, <2>3
<1>. QED BY <1>1, <1>2, <1>3, <1>4, <1>5, <1>6 DEF l

\* A turn of the loop that skips duplicates, given that they come one right
\* after the other.
LEMMA SkippingKeeps ==
    ASSUME NEW list \in Seq(Nodes), NEW cp \in Nodes, IsInjective(list),
           cp \in ToSet(list) => list # <<>> /\ Last(list) = cp
    PROVE  LET l == Skipping(list, cp) IN
           /\ l \in Seq(Nodes) /\ l # <<>> /\ Last(l) = cp
           /\ ToSet(l) = ToSet(list) \union {cp} /\ IsInjective(l)
           /\ Ascends(list) /\ (\A x \in ToSet(list) : x <= cp) => Ascends(l)
<1>. DEFINE l == Skipping(list, cp)
<1>1. cp # 0 /\ Nodes \subseteq Nat
  BY LockingAssumption
<1>2. CASE list # <<>> /\ Last(list) = cp
  <2>1. l = list
    BY <1>2 DEF Skipping
  <2>2. cp \in ToSet(list)
    <3>1. Len(list) \in DOMAIN list /\ list[Len(list)] = cp
      BY <1>2, EmptySeq DEF Last
    <3>. QED BY <3>1 DEF ToSet
  <2>. QED BY <1>2, <2>1, <2>2
<1>3. CASE ~(list # <<>> /\ Last(list) = cp)
  <2>1. l = Append(list, cp) /\ cp \notin ToSet(list)
    BY <1>1, <1>3 DEF Skipping
  <2>2. ToSet(list) \subseteq Nodes
    BY DEF ToSet
  <2>3. ASSUME \A x \in ToSet(list) : x <= cp, NEW x \in ToSet(list) PROVE x < cp
    <3>1. x \in Nat /\ cp \in Nat /\ x # cp /\ x <= cp
      BY <1>1, <2>1, <2>2, <2>3
    <3>. QED BY <3>1
  <2>. QED BY <2>1, <2>3, AppendNode
<1>. QED BY <1>2, <1>3

\* The list of four nodes, of which the first may be a null pointer.
Four(x1, x2, x3, x4) ==
    Skipping(Skipping(Skipping(Skipping(<<>>, x1), x2), x3), x4)

\* fusefs_lockfour's list has every node once, if duplicates come one right
\* after the other.
LEMMA FourLocks ==
    ASSUME NEW x1 \in Nodes \union {0}, NEW x2 \in Nodes, NEW x3 \in Nodes, NEW x4 \in Nodes,
           x3 = x1 => x3 = x2, x4 \in {x1, x2} => x4 = x3
    PROVE  LET l == Four(x1, x2, x3, x4) IN
           /\ l \in Seq(Nodes) /\ l # <<>> /\ IsInjective(l)
           /\ ToSet(l) = {x1, x2, x3, x4} \ {0}
           /\ x1 <= x2 /\ x2 <= x3 /\ x3 <= x4 => Ascends(l)
<1>. DEFINE l1 == Skipping(<<>>, x1)
            l2 == Skipping(l1, x2)
            l3 == Skipping(l2, x3)
            l4 == Skipping(l3, x4)
<1>1. <<>> \in Seq(Nodes) /\ ToSet(<<>>) = {} /\ IsInjective(<<>>) /\ Ascends(<<>>)
  BY DEF ToSet, IsInjective, Ascends
<1>2. /\ 0 \notin Nodes /\ Nodes \subseteq Nat
  BY LockingAssumption
<1>3. /\ l1 \in Seq(Nodes) /\ IsInjective(l1) /\ ToSet(l1) = {x1} \ {0} /\ Ascends(l1)
      /\ x1 # 0 => l1 # <<>> /\ Last(l1) = x1
  <2>1. CASE x1 = 0
    BY <1>1, <2>1 DEF Skipping
  <2>2. CASE x1 # 0
    <3>1. x1 \in Nodes /\ x1 \notin ToSet(<<>>) /\ \A x \in ToSet(<<>>) : x <= x1
      BY <1>1, <2>2
    <3>2. l1 \in Seq(Nodes) /\ l1 # <<>> /\ Last(l1) = x1
          /\ ToSet(l1) = ToSet(<<>>) \union {x1} /\ IsInjective(l1)
      BY <1>1, <3>1, SkippingKeeps
    <3>3. Ascends(l1)
      BY <1>1, <3>1, SkippingKeeps
    <3>. QED BY <1>1, <2>2, <3>2, <3>3
  <2>. QED BY <2>1, <2>2
<1>. HIDE DEF l1
<1>4. /\ l2 \in Seq(Nodes) /\ l2 # <<>> /\ Last(l2) = x2 /\ IsInjective(l2)
      /\ ToSet(l2) = {x1, x2} \ {0}
      /\ x1 <= x2 => Ascends(l2)
  <2>1. x2 \in ToSet(l1) => l1 # <<>> /\ Last(l1) = x2
    BY <1>2, <1>3
  <2>2. x1 <= x2 => \A x \in ToSet(l1) : x <= x2
    BY <1>3
  <2>3. ToSet(l1) \union {x2} = {x1, x2} \ {0}
    BY <1>2, <1>3
  <2>. QED BY <1>3, <2>1, <2>2, <2>3, SkippingKeeps
<1>. HIDE DEF l2
<1>5. /\ l3 \in Seq(Nodes) /\ l3 # <<>> /\ Last(l3) = x3 /\ IsInjective(l3)
      /\ ToSet(l3) = {x1, x2, x3} \ {0}
      /\ x1 <= x2 /\ x2 <= x3 => Ascends(l3)
  <2>1. x3 \in ToSet(l2) => l2 # <<>> /\ Last(l2) = x3
    BY <1>2, <1>4
  <2>2. x1 <= x2 /\ x2 <= x3 => \A x \in ToSet(l2) : x <= x3
    BY <1>2, <1>4
  <2>3. ToSet(l2) \union {x3} = {x1, x2, x3} \ {0}
    BY <1>2, <1>4
  <2>. QED BY <1>4, <2>1, <2>2, <2>3, SkippingKeeps
<1>. HIDE DEF l3
<1>6. /\ l4 \in Seq(Nodes) /\ l4 # <<>> /\ IsInjective(l4)
      /\ ToSet(l4) = {x1, x2, x3, x4} \ {0}
      /\ x1 <= x2 /\ x2 <= x3 /\ x3 <= x4 => Ascends(l4)
  <2>1. x4 \in ToSet(l3) => l3 # <<>> /\ Last(l3) = x4
    BY <1>2, <1>5
  <2>2. x1 <= x2 /\ x2 <= x3 /\ x3 <= x4 => \A x \in ToSet(l3) : x <= x4
    BY <1>2, <1>5
  <2>3. ToSet(l3) \union {x4} = {x1, x2, x3, x4} \ {0}
    BY <1>2, <1>5
  <2>. QED BY <1>5, <2>1, <2>2, <2>3, SkippingKeeps
<1>. QED BY <1>6 DEF Four, l1, l2, l3

\* The same, with all that is said of a list of locks.
LEMMA FourFits ==
    ASSUME NEW x1 \in Nodes \union {0}, NEW x2 \in Nodes, NEW x3 \in Nodes, NEW x4 \in Nodes,
           x3 = x1 => x3 = x2, x4 \in {x1, x2} => x4 = x3,
           ParentsBelow => x1 <= x2 /\ x2 <= x3 /\ x3 <= x4
    PROVE  Locks(Four(x1, x2, x3, x4), {x1, x2, x3, x4} \ {0})
<1>. DEFINE l == Four(x1, x2, x3, x4)
<1>1. /\ l \in Seq(Nodes) /\ l # <<>> /\ IsInjective(l)
      /\ ToSet(l) = {x1, x2, x3, x4} \ {0}
      /\ x1 <= x2 /\ x2 <= x3 /\ x3 <= x4 => Ascends(l)
  BY FourLocks
<1>. QED BY <1>1, Zenon DEF Locks

-----------------------------------------------------------------------------
\* fusefs_isordered puts two nodes into one order, the parent first.
LEMMA Ordered ==
    ASSUME NEW x \in Nodes, NEW y \in Nodes
    PROVE  /\ ~fusefs_isordered(x, x)
           /\ x # y => fusefs_isordered(x, y) \/ fusefs_isordered(y, x)
           /\ NoMutualParents => ~(fusefs_isordered(x, y) /\ fusefs_isordered(y, x))
           /\ ParentsBelow => (fusefs_isordered(x, y) <=> x < y)
<1>1. x \in Nat \ {0} /\ y \in Nat \ {0} /\ Sentinel = -1
  BY LockingAssumption DEF Sentinel
<1>2. parent_nodeid[x] \in Nat /\ parent_nodeid[y] \in Nat
  <2>1. parent_nodeid[x] \in Nodes \union {0} /\ parent_nodeid[y] \in Nodes \union {0}
    BY LockingAssumption
  <2>2. Nodes \union {0} \subseteq Nat
    BY LockingAssumption
  <2>. QED BY <2>1, <2>2
<1>3. fusefs_isordered(x, y) <=>
         x # y /\ (x = parent_nodeid[y] \/ (y # parent_nodeid[x] /\ x < y))
  BY <1>1 DEF fusefs_isordered
<1>4. fusefs_isordered(y, x) <=>
         x # y /\ (y = parent_nodeid[x] \/ (x # parent_nodeid[y] /\ y < x))
  BY <1>1 DEF fusefs_isordered
<1>5. ~fusefs_isordered(x, x)
  BY DEF fusefs_isordered
<1>6. NoMutualParents => ~(x = parent_nodeid[y] /\ y = parent_nodeid[x])
  BY DEF NoMutualParents
<1>7. ParentsBelow => parent_nodeid[x] < x /\ parent_nodeid[y] < y
  BY DEF ParentsBelow
<1>. QED BY <1>1, <1>2, <1>3, <1>4, <1>5, <1>6, <1>7

\* Null pointers are first and sentinels last.
LEMMA OrderedEnds ==
    ASSUME NEW x \in Nodes
    PROVE  /\ fusefs_isordered(0, x) /\ ~fusefs_isordered(x, 0) /\ ~fusefs_isordered(0, 0)
           /\ fusefs_isordered(x, Sentinel) /\ ~fusefs_isordered(Sentinel, x)
           /\ fusefs_isordered(0, Sentinel) /\ ~fusefs_isordered(Sentinel, 0)
<1>1. x \in Nat \ {0} /\ Sentinel = -1
  BY LockingAssumption DEF Sentinel
<1>. QED BY <1>1 DEF fusefs_isordered

\* The six ways to merge two sorted pairs, and what is compared on each.
LEMMA MergedLists ==
    ASSUME NEW a1 \in Nodes, NEW a2 \in Nodes, NEW b1 \in Nodes \union {0}, NEW b2 \in Nodes
    PROVE  LET a == <<a1, a2, Sentinel>>
               b == <<b1, b2, Sentinel>>
               O(x, y) == fusefs_isordered(x, y)
               turn(m) == Turn(a, b, m)
               l == turn(turn(turn(turn([i |-> 1, j |-> 1, list |-> <<>>])))).list
           IN  \/ l = Four(a1, a2, b1, b2) /\ O(a1, b1) /\ O(a2, b1)
               \/ l = Four(a1, b1, a2, b2) /\ O(a1, b1) /\ ~O(a2, b1) /\ O(a2, b2)
               \/ l = Four(a1, b1, b2, a2) /\ O(a1, b1) /\ ~O(a2, b1) /\ ~O(a2, b2)
               \/ l = Four(b1, a1, a2, b2) /\ ~O(a1, b1) /\ O(a1, b2) /\ O(a2, b2)
               \/ l = Four(b1, a1, b2, a2) /\ ~O(a1, b1) /\ O(a1, b2) /\ ~O(a2, b2)
               \/ l = Four(b1, b2, a1, a2) /\ ~O(a1, b1) /\ ~O(a1, b2)
<1>. DEFINE a == <<a1, a2, Sentinel>>
            b == <<b1, b2, Sentinel>>
            O(x, y) == fusefs_isordered(x, y)
            st(i, j, l) == [i |-> i, j |-> j, list |-> l]
            turn(m) == Turn(a, b, m)
<1>1. ASSUME NEW i \in {1, 2, 3}, NEW j \in {1, 2, 3}, NEW l
      PROVE  /\ O(a[i], b[j]) => turn(st(i, j, l)) = st(i + 1, j, Skipping(l, a[i]))
             /\ ~O(a[i], b[j]) => turn(st(i, j, l)) = st(i, j + 1, Skipping(l, b[j]))
  BY DEF Turn
<1>2. /\ a[1] = a1 /\ a[2] = a2 /\ a[3] = Sentinel
      /\ b[1] = b1 /\ b[2] = b2 /\ b[3] = Sentinel
  OBVIOUS
<1>3. /\ O(a1, Sentinel) /\ O(a2, Sentinel) /\ ~O(Sentinel, b1) /\ ~O(Sentinel, b2)
  BY OrderedEnds
<1>4. \A i, j, l : st(i, j, l).list = l
  OBVIOUS
<1>. HIDE DEF a, b, O, st, turn
<1>. DEFINE S1(x) == Skipping(<<>>, x)
            S2(x, y) == Skipping(S1(x), y)
            S3(x, y, z) == Skipping(S2(x, y), z)
            final == turn(turn(turn(turn(st(1, 1, <<>>)))))
<1>5. ASSUME O(a1, b1), O(a2, b1) PROVE final.list = Four(a1, a2, b1, b2)
  <2>1. turn(st(1, 1, <<>>)) = st(2, 1, S1(a1)) BY <1>1, <1>2, <1>5
  <2>2. turn(st(2, 1, S1(a1))) = st(3, 1, S2(a1, a2)) BY <1>1, <1>2, <1>5
  <2>3. turn(st(3, 1, S2(a1, a2))) = st(3, 2, S3(a1, a2, b1)) BY <1>1, <1>2, <1>3
  <2>4. turn(st(3, 2, S3(a1, a2, b1))) = st(3, 3, Four(a1, a2, b1, b2))
    BY <1>1, <1>2, <1>3 DEF Four
  <2>. QED BY <2>1, <2>2, <2>3, <2>4, <1>4
<1>6. ASSUME O(a1, b1), ~O(a2, b1), O(a2, b2) PROVE final.list = Four(a1, b1, a2, b2)
  <2>1. turn(st(1, 1, <<>>)) = st(2, 1, S1(a1)) BY <1>1, <1>2, <1>6
  <2>2. turn(st(2, 1, S1(a1))) = st(2, 2, S2(a1, b1)) BY <1>1, <1>2, <1>6
  <2>3. turn(st(2, 2, S2(a1, b1))) = st(3, 2, S3(a1, b1, a2)) BY <1>1, <1>2, <1>6
  <2>4. turn(st(3, 2, S3(a1, b1, a2))) = st(3, 3, Four(a1, b1, a2, b2))
    BY <1>1, <1>2, <1>3 DEF Four
  <2>. QED BY <2>1, <2>2, <2>3, <2>4, <1>4
<1>7. ASSUME O(a1, b1), ~O(a2, b1), ~O(a2, b2) PROVE final.list = Four(a1, b1, b2, a2)
  <2>1. turn(st(1, 1, <<>>)) = st(2, 1, S1(a1)) BY <1>1, <1>2, <1>7
  <2>2. turn(st(2, 1, S1(a1))) = st(2, 2, S2(a1, b1)) BY <1>1, <1>2, <1>7
  <2>3. turn(st(2, 2, S2(a1, b1))) = st(2, 3, S3(a1, b1, b2)) BY <1>1, <1>2, <1>7
  <2>4. turn(st(2, 3, S3(a1, b1, b2))) = st(3, 3, Four(a1, b1, b2, a2))
    BY <1>1, <1>2, <1>3 DEF Four
  <2>. QED BY <2>1, <2>2, <2>3, <2>4, <1>4
<1>8. ASSUME ~O(a1, b1), O(a1, b2), O(a2, b2) PROVE final.list = Four(b1, a1, a2, b2)
  <2>1. turn(st(1, 1, <<>>)) = st(1, 2, S1(b1)) BY <1>1, <1>2, <1>8
  <2>2. turn(st(1, 2, S1(b1))) = st(2, 2, S2(b1, a1)) BY <1>1, <1>2, <1>8
  <2>3. turn(st(2, 2, S2(b1, a1))) = st(3, 2, S3(b1, a1, a2)) BY <1>1, <1>2, <1>8
  <2>4. turn(st(3, 2, S3(b1, a1, a2))) = st(3, 3, Four(b1, a1, a2, b2))
    BY <1>1, <1>2, <1>3 DEF Four
  <2>. QED BY <2>1, <2>2, <2>3, <2>4, <1>4
<1>9. ASSUME ~O(a1, b1), O(a1, b2), ~O(a2, b2) PROVE final.list = Four(b1, a1, b2, a2)
  <2>1. turn(st(1, 1, <<>>)) = st(1, 2, S1(b1)) BY <1>1, <1>2, <1>9
  <2>2. turn(st(1, 2, S1(b1))) = st(2, 2, S2(b1, a1)) BY <1>1, <1>2, <1>9
  <2>3. turn(st(2, 2, S2(b1, a1))) = st(2, 3, S3(b1, a1, b2)) BY <1>1, <1>2, <1>9
  <2>4. turn(st(2, 3, S3(b1, a1, b2))) = st(3, 3, Four(b1, a1, b2, a2))
    BY <1>1, <1>2, <1>3 DEF Four
  <2>. QED BY <2>1, <2>2, <2>3, <2>4, <1>4
<1>10. ASSUME ~O(a1, b1), ~O(a1, b2) PROVE final.list = Four(b1, b2, a1, a2)
  <2>1. turn(st(1, 1, <<>>)) = st(1, 2, S1(b1)) BY <1>1, <1>2, <1>10
  <2>2. turn(st(1, 2, S1(b1))) = st(1, 3, S2(b1, b2)) BY <1>1, <1>2, <1>10
  <2>3. turn(st(1, 3, S2(b1, b2))) = st(2, 3, S3(b1, b2, a1)) BY <1>1, <1>2, <1>3
  <2>4. turn(st(2, 3, S3(b1, b2, a1))) = st(3, 3, Four(b1, b2, a1, a2))
    BY <1>1, <1>2, <1>3 DEF Four
  <2>. QED BY <2>1, <2>2, <2>3, <2>4, <1>4
<1>. QED BY <1>5, <1>6, <1>7, <1>8, <1>9, <1>10 DEF final, a, b, O, st, turn

\* The order of nodes and null pointers.
LEMMA OrderedAll ==
    ASSUME NoMutualParents, NEW x \in Nodes \union {0}, NEW y \in Nodes \union {0}
    PROVE  /\ ~fusefs_isordered(x, x) /\ ~fusefs_isordered(x, 0)
           /\ x # y => fusefs_isordered(x, y) \/ fusefs_isordered(y, x)
           /\ ~(fusefs_isordered(x, y) /\ fusefs_isordered(y, x))
           /\ ParentsBelow => (fusefs_isordered(x, y) <=> x < y)
<1>1. Nodes \subseteq Nat \ {0}
  BY LockingAssumption
<1>2. ~fusefs_isordered(0, 0)
  BY DEF fusefs_isordered
<1>3. CASE x \in Nodes /\ y \in Nodes
  BY <1>3, Ordered, OrderedEnds
<1>4. CASE x = 0 /\ y \in Nodes
  <2>1. 0 < y /\ ~(y < 0)
    BY <1>1, <1>4
  <2>. QED BY <1>2, <1>4, <2>1, OrderedEnds
<1>5. CASE x \in Nodes /\ y = 0
  <2>1. 0 < x /\ ~(x < 0)
    BY <1>1, <1>5
  <2>. QED BY <1>5, <2>1, OrderedEnds, Ordered
<1>6. CASE x = 0 /\ y = 0
  BY <1>2, <1>6
<1>. QED BY <1>3, <1>4, <1>5, <1>6

\* A pair in order.
LEMMA Pairs ==
    ASSUME NoMutualParents, NEW x \in Nodes, NEW y \in Nodes \union {0}
    PROVE  \E c \in Nodes \union {0}, d \in Nodes :
               /\ InOrder(x, y) = <<c, d, Sentinel>> /\ {c, d} = {x, y}
               /\ c # d => fusefs_isordered(c, d)
               /\ c = 0 <=> y = 0
<1>1. 0 \notin Nodes
  BY LockingAssumption
<1>2. CASE fusefs_isordered(x, y)
  <2>1. y # 0
    BY <1>2, OrderedAll
  <2>2. InOrder(x, y) = <<x, y, Sentinel>>
    BY <1>2 DEF InOrder
  <2>. QED BY <1>1, <1>2, <2>1, <2>2
<1>3. CASE ~fusefs_isordered(x, y)
  <2>1. InOrder(x, y) = <<y, x, Sentinel>>
    BY <1>3 DEF InOrder
  <2>2. y # x => fusefs_isordered(y, x)
    BY <1>3, OrderedAll
  <2>. QED BY <1>1, <2>1, <2>2
<1>. QED BY <1>2, <1>3

\* fusefs_lockfour locks each of its nodes once, duplicates and null pointers
\* aside, and in address order if the parents are below their children.  This
\* takes that no two nodes are each other's recorded parent: otherwise the order
\* is none, and a node on both lists may come up twice with others between.
LEMMA LockFour ==
    ASSUME NoMutualParents, NEW p \in Nodes, NEW q \in Nodes, NEW f \in Nodes,
           NEW v \in Nodes \union {0}, v # f
    PROVE  Locks(fusefs_lockfour(p, q, f, v), {p, q, f, v} \ {0})
<1>. DEFINE O(x, y) == fusefs_isordered(x, y)
            N == Nodes \union {0}
            l == fusefs_lockfour(p, q, f, v)
<1>1. PICK a1 \in N, a2 \in Nodes :
         /\ InOrder(p, q) = <<a1, a2, Sentinel>> /\ {a1, a2} = {p, q}
         /\ a1 # a2 => O(a1, a2)
         /\ a1 = 0 <=> q = 0
  BY Pairs
<1>2. PICK b1 \in N, b2 \in Nodes :
         /\ InOrder(f, v) = <<b1, b2, Sentinel>> /\ {b1, b2} = {f, v}
         /\ b1 # b2 => O(b1, b2)
         /\ b1 = 0 <=> v = 0
  BY Pairs
<1>3. a1 \in Nodes /\ 0 \notin Nodes /\ N \subseteq Nat
  BY <1>1, LockingAssumption
<1>4. b1 # b2 /\ O(b1, b2)
  BY <1>2
<1>5. \/ l = Four(a1, a2, b1, b2) /\ O(a1, b1) /\ O(a2, b1)
      \/ l = Four(a1, b1, a2, b2) /\ O(a1, b1) /\ ~O(a2, b1) /\ O(a2, b2)
      \/ l = Four(a1, b1, b2, a2) /\ O(a1, b1) /\ ~O(a2, b1) /\ ~O(a2, b2)
      \/ l = Four(b1, a1, a2, b2) /\ ~O(a1, b1) /\ O(a1, b2) /\ O(a2, b2)
      \/ l = Four(b1, a1, b2, a2) /\ ~O(a1, b1) /\ O(a1, b2) /\ ~O(a2, b2)
      \/ l = Four(b1, b2, a1, a2) /\ ~O(a1, b1) /\ ~O(a1, b2)
  BY <1>1, <1>2, <1>3, MergedLists DEF fusefs_lockfour
<1>6. \A x, y \in N : /\ ~O(x, x) /\ ~O(x, 0)
                      /\ x # y => O(x, y) \/ O(y, x)
                      /\ ~(O(x, y) /\ O(y, x))
                      /\ ParentsBelow => (O(x, y) <=> x < y)
  BY OrderedAll
<1>7. {a1, a2, b1, b2} \ {0} = {p, q, f, v} \ {0}
  BY <1>1, <1>2
<1>. HIDE DEF O, l
<1>8. ASSUME ParentsBelow
      PROVE  \A x, y \in N : (O(x, y) => x <= y) /\ (~O(x, y) => y <= x)
  BY <1>3, <1>6, <1>8
<1>9. ParentsBelow => a1 <= a2 /\ b1 <= b2
  BY <1>1, <1>3, <1>4, <1>8
<1>10. SUFFICES Locks(l, {a1, a2, b1, b2} \ {0})
  BY <1>7 DEF l
<1>11. CASE l = Four(a1, a2, b1, b2) /\ O(a1, b1) /\ O(a2, b1)
  <2>1. b1 \in Nodes
    BY <1>3, <1>6, <1>11
  <2>2. b1 # a1 /\ b1 # a2 /\ b2 # a1 /\ b2 # a2
    BY <1>3, <1>4, <1>6, <1>11
  <2>3. ParentsBelow => a2 <= b1
    BY <1>3, <1>8, <1>11
  <2>4. /\ a1 \in Nodes \union {0} /\ a2 \in Nodes /\ b1 \in Nodes /\ b2 \in Nodes
        /\ b1 = a1 => b1 = a2
        /\ b2 \in {a1, a2} => b2 = b1
        /\ ParentsBelow => a1 <= a2 /\ a2 <= b1 /\ b1 <= b2
    BY <1>3, <1>9, <2>1, <2>2, <2>3
  <2>6. Locks(Four(a1, a2, b1, b2), {a1, a2, b1, b2} \ {0})
    BY <2>4, FourFits
  <2>. QED BY <1>11, <2>6
<1>12. CASE l = Four(a1, b1, a2, b2) /\ O(a1, b1) /\ ~O(a2, b1) /\ O(a2, b2)
  <2>1. b1 \in Nodes
    BY <1>3, <1>6, <1>12
  <2>2. a2 # a1 /\ b2 # a1
    BY <1>3, <1>4, <1>6, <1>12
  <2>3. ParentsBelow => a1 <= b1 /\ b1 <= a2 /\ a2 <= b2
    BY <1>3, <1>8, <1>12
  <2>4. {a1, b1, a2, b2} = {a1, a2, b1, b2}
    OBVIOUS
  <2>5. /\ a1 \in Nodes \union {0} /\ b1 \in Nodes /\ a2 \in Nodes /\ b2 \in Nodes
        /\ a2 = a1 => a2 = b1
        /\ b2 \in {a1, b1} => b2 = a2
        /\ ParentsBelow => a1 <= b1 /\ b1 <= a2 /\ a2 <= b2
    BY <1>3, <1>4, <2>1, <2>2, <2>3, <2>4
  <2>6. Locks(Four(a1, b1, a2, b2), {a1, b1, a2, b2} \ {0})
    BY <2>5, FourFits
  <2>. QED BY <1>12, <2>4, <2>6
<1>13. CASE l = Four(a1, b1, b2, a2) /\ O(a1, b1) /\ ~O(a2, b1) /\ ~O(a2, b2)
  <2>1. b1 \in Nodes
    BY <1>3, <1>6, <1>13
  <2>2. b2 # a1 /\ a2 # a1 /\ a2 # b1
    BY <1>3, <1>4, <1>6, <1>13
  <2>3. ParentsBelow => a1 <= b1 /\ b2 <= a2
    BY <1>3, <1>8, <1>13
  <2>4. {a1, b1, b2, a2} = {a1, a2, b1, b2}
    OBVIOUS
  <2>5. /\ a1 \in Nodes \union {0} /\ b1 \in Nodes /\ b2 \in Nodes /\ a2 \in Nodes
        /\ b2 = a1 => b2 = b1
        /\ a2 \in {a1, b1} => a2 = b2
        /\ ParentsBelow => a1 <= b1 /\ b1 <= b2 /\ b2 <= a2
    BY <1>3, <1>9, <2>1, <2>2, <2>3, <2>4
  <2>6. Locks(Four(a1, b1, b2, a2), {a1, b1, b2, a2} \ {0})
    BY <2>5, FourFits
  <2>. QED BY <1>13, <2>4, <2>6
<1>14. CASE l = Four(b1, a1, a2, b2) /\ ~O(a1, b1) /\ O(a1, b2) /\ O(a2, b2)
  <2>1. a2 = b1 => a2 = a1
    BY <1>1, <1>14
  <2>2. b2 # a1
    BY <1>3, <1>6, <1>14
  <2>3. ParentsBelow => b1 <= a1 /\ a2 <= b2
    BY <1>3, <1>8, <1>14
  <2>4. {b1, a1, a2, b2} = {a1, a2, b1, b2}
    OBVIOUS
  <2>5. /\ b1 \in Nodes \union {0} /\ a1 \in Nodes /\ a2 \in Nodes /\ b2 \in Nodes
        /\ a2 = b1 => a2 = a1
        /\ b2 \in {b1, a1} => b2 = a2
        /\ ParentsBelow => b1 <= a1 /\ a1 <= a2 /\ a2 <= b2
    BY <1>3, <1>4, <1>9, <2>1, <2>2, <2>3, <2>4
  <2>6. Locks(Four(b1, a1, a2, b2), {b1, a1, a2, b2} \ {0})
    BY <2>5, FourFits
  <2>. QED BY <1>14, <2>4, <2>6
<1>15. CASE l = Four(b1, a1, b2, a2) /\ ~O(a1, b1) /\ O(a1, b2) /\ ~O(a2, b2)
  <2>1. a2 # a1
    BY <1>15
  <2>2. a2 # b1
    BY <1>1, <1>15, <2>1
  <2>3. ParentsBelow => b1 <= a1 /\ a1 <= b2 /\ b2 <= a2
    BY <1>3, <1>8, <1>15
  <2>4. {b1, a1, b2, a2} = {a1, a2, b1, b2}
    OBVIOUS
  <2>5. /\ b1 \in Nodes \union {0} /\ a1 \in Nodes /\ b2 \in Nodes /\ a2 \in Nodes
        /\ b2 = b1 => b2 = a1
        /\ a2 \in {b1, a1} => a2 = b2
        /\ ParentsBelow => b1 <= a1 /\ a1 <= b2 /\ b2 <= a2
    BY <1>3, <1>4, <2>1, <2>2, <2>3, <2>4
  <2>6. Locks(Four(b1, a1, b2, a2), {b1, a1, b2, a2} \ {0})
    BY <2>5, FourFits
  <2>. QED BY <1>15, <2>4, <2>6
<1>16. CASE l = Four(b1, b2, a1, a2) /\ ~O(a1, b1) /\ ~O(a1, b2)
  <2>1. a1 # b1
    BY <1>4, <1>16
  <2>2. a2 \in {b1, b2} => a2 = a1
    BY <1>1, <1>16
  <2>3. ParentsBelow => b2 <= a1
    BY <1>3, <1>8, <1>16
  <2>4. {b1, b2, a1, a2} = {a1, a2, b1, b2}
    OBVIOUS
  <2>5. /\ b1 \in Nodes \union {0} /\ b2 \in Nodes /\ a1 \in Nodes /\ a2 \in Nodes
        /\ a1 = b1 => a1 = b2
        /\ a2 \in {b1, b2} => a2 = a1
        /\ ParentsBelow => b1 <= b2 /\ b2 <= a1 /\ a1 <= a2
    BY <1>3, <1>9, <2>1, <2>2, <2>3, <2>4
  <2>6. Locks(Four(b1, b2, a1, a2), {b1, b2, a1, a2} \ {0})
    BY <2>5, FourFits
  <2>. QED BY <1>16, <2>4, <2>6
<1>. QED BY <1>5, <1>11, <1>12, <1>13, <1>14, <1>15, <1>16, Zenon

\* The list of one node.
LEMMA LockOne ==
    ASSUME NEW n \in Nodes
    PROVE  Locks(<<n>>, {n})
<1>1. ToSet(<<n>>) = {n}
  BY DEF ToSet
<1>. QED BY <1>1 DEF Locks, IsInjective, Ascends

\* fusefs_lockpair does the same for two nodes.
LEMMA LockPair ==
    ASSUME NEW f \in Nodes, NEW g \in Nodes
    PROVE  Locks(fusefs_lockpair(f, g), {f, g})
<1>1. f \in Nat /\ g \in Nat
  BY LockingAssumption
<1>2. ASSUME NEW x \in Nodes, NEW y \in Nodes, x # y,
             ParentsBelow => x < y
      PROVE  Locks(<<x, y>>, {x, y})
  <2>1. ToSet(<<x, y>>) = {x, y}
    BY DEF ToSet
  <2>. QED BY <1>2, <2>1 DEF Locks, IsInjective, Ascends
<1>3. CASE f = g
  <2>1. fusefs_lockpair(f, g) = <<f>>
    BY <1>3 DEF fusefs_lockpair
  <2>. QED BY <1>3, <2>1, LockOne
<1>4. CASE f # g /\ ((f \in Dirs /\ f = parent_nodeid[g]) \/ f < g)
  <2>1. fusefs_lockpair(f, g) = <<f, g>>
    BY <1>4 DEF fusefs_lockpair
  <2>2. ParentsBelow => f < g
    BY <1>4 DEF ParentsBelow
  <2>. QED BY <1>2, <1>4, <2>1, <2>2
<1>5. CASE f # g /\ ~((f \in Dirs /\ f = parent_nodeid[g]) \/ f < g)
  <2>1. fusefs_lockpair(f, g) = <<g, f>>
    BY <1>5 DEF fusefs_lockpair
  <2>2. g < f
    BY <1>1, <1>5
  <2>3. {g, f} = {f, g}
    OBVIOUS
  <2>. QED BY <1>2, <1>5, <2>1, <2>2, <2>3
<1>. QED BY <1>3, <1>4, <1>5

-----------------------------------------------------------------------------
(***************************************************************************)
(* The inductive invariant.                                                *)
(***************************************************************************)
Shapes ==
    /\ pc \in [Threads -> {"idle", "locking", "locked", "operating"}]
    /\ op \in [Threads -> {"single", "exchange", "rename"}]
    /\ args \in [Threads -> Seq(Nodes \union {0})]
    /\ todo \in [Threads -> Seq(Nodes)]
    /\ owner \in [Nodes -> Threads \union {None}]
    /\ dir \in [Nodes -> Nodes \union {0}]

\* What is left to lock are some of the arguments, each once.
Remaining(t) ==
    /\ IsInjective(todo[t]) /\ ToSet(todo[t]) \subseteq ToSet(args[t])
    /\ pc[t] = "locking" <=> todo[t] # <<>>
    /\ pc[t] = "idle" => args[t] = <<>>
    /\ op[t] = "rename" => args[t][1] \in Nodes

\* The locks of a thread are those of its arguments that are not left.
Holds(t) == {n \in Nodes : owner[n] = t} = (ToSet(args[t]) \ {0}) \ ToSet(todo[t])

IInv == Shapes /\ \A t \in Threads : Remaining(t) /\ Holds(t)

\* What a thread still has to lock ascends, and is above all that it has.
Climbs(t) ==
    /\ Ascends(todo[t])
    /\ \A n \in Nodes, m \in ToSet(todo[t]) : owner[n] = t => n < m

OInv == IInv /\ \A t \in Threads : Climbs(t)

\* A list without its first node.
LEMMA Shorter ==
    ASSUME NEW list \in Seq(Nodes), list # <<>>, IsInjective(list)
    PROVE  /\ Head(list) \in Nodes /\ Head(list) \in ToSet(list)
           /\ Tail(list) \in Seq(Nodes) /\ IsInjective(Tail(list))
           /\ ToSet(Tail(list)) = ToSet(list) \ {Head(list)}
           /\ Len(list) = 1 <=> Tail(list) = <<>>
           /\ Ascends(list) => /\ Ascends(Tail(list))
                               /\ \A x \in ToSet(Tail(list)) : Head(list) < x
<1>. DEFINE h == Head(list)
            r == Tail(list)
<1>1. /\ h \in Nodes /\ r \in Seq(Nodes) /\ Len(r) = Len(list) - 1
      /\ \A i \in 1 .. Len(r) : r[i] = list[i + 1]
      /\ DOMAIN r = 1 .. Len(r) /\ DOMAIN list = 1 .. Len(list) /\ Len(list) \in Nat
  BY HeadTailProperties
<1>2. h = list[1] /\ Len(list) > 0
  BY <1>1, EmptySeq
<1>3. Len(list) = 1 <=> r = <<>>
  <2>1. r = <<>> <=> Len(r) = 0
    BY <1>1, EmptySeq
  <2>. HIDE DEF r
  <2>. QED BY <1>1, <2>1
<1>. HIDE DEF h, r
<1>4. h \in ToSet(list)
  BY <1>1, <1>2 DEF ToSet
<1>5. IsInjective(r)
  BY <1>1 DEF IsInjective
<1>6. \A i \in 2 .. Len(list) : list[i] # h
  BY <1>1, <1>2 DEF IsInjective
<1>7. ToSet(r) = ToSet(list) \ {h}
  <2>1. ASSUME NEW x \in ToSet(r) PROVE x \in ToSet(list) \ {h}
    <3>1. PICK i \in 1 .. Len(r) : x = list[i + 1]
      BY <1>1, <2>1 DEF ToSet
    <3>2. i + 1 \in 2 .. Len(list)
      BY <1>1
    <3>. QED BY <1>1, <1>6, <3>1, <3>2 DEF ToSet
  <2>2. ASSUME NEW x \in ToSet(list), x # h PROVE x \in ToSet(r)
    <3>1. PICK i \in 1 .. Len(list) : x = list[i]
      BY <1>1, <2>2 DEF ToSet
    <3>2. i - 1 \in 1 .. Len(r) /\ (i - 1) + 1 = i
      BY <1>1, <1>2, <2>2, <3>1
    <3>3. r[i - 1] = x
      BY <1>1, <3>1, <3>2
    <3>. QED BY <1>1, <3>2, <3>3 DEF ToSet
  <2>. QED BY <2>1, <2>2
<1>8. ASSUME Ascends(list) PROVE Ascends(r) /\ \A x \in ToSet(r) : h < x
  <2>1. ASSUME NEW i \in 1 .. Len(r), NEW k \in 1 .. Len(r), i < k PROVE r[i] < r[k]
    <3>1. /\ i + 1 \in DOMAIN list /\ k + 1 \in DOMAIN list /\ i + 1 < k + 1
          /\ r[i] = list[i + 1] /\ r[k] = list[k + 1]
      BY <1>1, <2>1
    <3>. QED BY <1>8, <3>1 DEF Ascends
  <2>2. ASSUME NEW x \in ToSet(r) PROVE h < x
    <3>1. PICK i \in 1 .. Len(r) : x = list[i + 1]
      BY <1>1, <2>2 DEF ToSet
    <3>2. 1 \in DOMAIN list /\ i + 1 \in DOMAIN list /\ 1 < i + 1
      BY <1>1
    <3>. QED BY <1>2, <1>8, <3>1, <3>2 DEF Ascends
  <2>. QED BY <1>1, <2>1, <2>2 DEF Ascends
<1>. QED BY <1>1, <1>3, <1>4, <1>5, <1>7, <1>8 DEF h, r

-----------------------------------------------------------------------------
\* At first nothing is locked.
LEMMA InitHolds == Init => IInv /\ OInv
<1>. SUFFICES ASSUME Init PROVE IInv /\ OInv
  OBVIOUS
<1>1. <<>> \in Seq(Nodes) /\ <<>> \in Seq(Nodes \union {0})
  OBVIOUS
<1>2. Shapes
  BY <1>1, LockingAssumption DEF Init, Shapes
<1>3. IsInjective(<<>>) /\ ToSet(<<>>) = {} /\ Ascends(<<>>)
  BY DEF ToSet, IsInjective, Ascends
<1>4. ASSUME NEW t \in Threads PROVE Remaining(t) /\ Holds(t) /\ Climbs(t)
  <2>1. pc[t] = "idle" /\ op[t] = "single" /\ args[t] = <<>> /\ todo[t] = <<>>
    BY DEF Init
  <2>2. {n \in Nodes : owner[n] = t} = {}
    BY LockingAssumption DEF Init
  <2>3. Remaining(t)
    BY <1>3, <2>1 DEF Remaining
  <2>4. Holds(t)
    BY <1>3, <2>1, <2>2 DEF Holds
  <2>. QED BY <1>3, <2>1, <2>3, <2>4 DEF Climbs
<1>. QED BY <1>2, <1>4 DEF IInv, OInv

\* An operation begins.
LEMMA BeginKeeps ==
    ASSUME IInv, NEW t \in Threads, NEW what \in {"single", "exchange", "rename"},
           NEW nodes \in Seq(Nodes \union {0}), NEW locks \in Seq(Nodes),
           Begin(t, what, nodes, locks),
           IsInjective(locks), ToSet(locks) = ToSet(nodes) \ {0},
           what = "rename" => nodes[1] \in Nodes
    PROVE  /\ IInv'
           /\ (\A u \in Threads : Climbs(u)) /\ Ascends(locks) => \A u \in Threads : Climbs(u)'
<1>1. Shapes /\ \A u \in Threads : Remaining(u) /\ Holds(u)
  BY DEF IInv
<1>2. /\ op' = [op EXCEPT ![t] = what] /\ args' = [args EXCEPT ![t] = nodes]
      /\ todo' = [todo EXCEPT ![t] = locks]
      /\ pc' = [pc EXCEPT ![t] = IF locks = <<>> THEN "locked" ELSE "locking"]
      /\ owner' = owner /\ dir' = dir /\ pc[t] = "idle"
  BY DEF Begin
<1>3. Shapes'
  BY <1>1, <1>2 DEF Shapes
<1>4. {n \in Nodes : owner[n] = t} = {}
  <2>1. args[t] = <<>> /\ ToSet(<<>>) = {}
    BY <1>1, <1>2 DEF Remaining, ToSet
  <2>. QED BY <1>1, <2>1 DEF Holds
<1>5. ASSUME NEW u \in Threads
      PROVE  /\ Remaining(u)' /\ Holds(u)'
             /\ Climbs(u) /\ Ascends(locks) => Climbs(u)'
  <2>1. CASE u = t
    <3>1. /\ pc'[u] = (IF locks = <<>> THEN "locked" ELSE "locking") /\ op'[u] = what
          /\ args'[u] = nodes /\ todo'[u] = locks
      BY <1>1, <1>2, <2>1 DEF Shapes
    <3>2. Remaining(u)'
      BY <3>1 DEF Remaining
    <3>3. Holds(u)'
      BY <1>2, <1>4, <2>1, <3>1 DEF Holds
    <3>4. Ascends(locks) => Climbs(u)'
      BY <1>2, <1>4, <2>1, <3>1 DEF Climbs
    <3>. QED BY <3>2, <3>3, <3>4
  <2>2. CASE u # t
    <3>1. pc'[u] = pc[u] /\ op'[u] = op[u] /\ args'[u] = args[u] /\ todo'[u] = todo[u]
      BY <1>1, <1>2, <2>2 DEF Shapes
    <3>. QED BY <1>1, <1>2, <3>1 DEF Remaining, Holds, Climbs
  <2>. QED BY <2>1, <2>2
<1>. QED BY <1>3, <1>5 DEF IInv

\* The nodes of a list of arguments.
LEMMA Arguments ==
    /\ ToSet(<<>>) = {}
    /\ \A a : ToSet(<<a>>) = {a}
    /\ \A a, b : ToSet(<<a, b>>) = {a, b}
    /\ \A a, b, c, d : ToSet(<<a, b, c, d>>) = {a, b, c, d}
  BY DEF ToSet

\* A single-node operation begins, or one that locks no node.
LEMMA SingleKeeps ==
    ASSUME IInv, NEW t \in Threads, Single(t)
    PROVE  IInv' /\ (ParentsBelow /\ OInv => OInv')
<1>1. 0 \notin Nodes
  BY LockingAssumption
<1>2. ASSUME NEW n \in Nodes, Begin(t, "single", <<n>>, <<n>>)
      PROVE  IInv' /\ (ParentsBelow /\ OInv => OInv')
  <2>1. /\ <<n>> \in Seq(Nodes) /\ <<n>> \in Seq(Nodes \union {0}) /\ IsInjective(<<n>>)
        /\ ToSet(<<n>>) = {n} /\ {n} = {n} \ {0}
        /\ ParentsBelow => Ascends(<<n>>)
    BY <1>1, LockOne DEF Locks
  <2>2. /\ IInv'
        /\ (\A u \in Threads : Climbs(u)) /\ Ascends(<<n>>) => \A u \in Threads : Climbs(u)'
    BY <1>2, <2>1, BeginKeeps
  <2>. QED BY <2>1, <2>2 DEF OInv
<1>3. ASSUME Begin(t, "single", <<>>, <<>>)
      PROVE  IInv' /\ (ParentsBelow /\ OInv => OInv')
  <2>1. /\ <<>> \in Seq(Nodes) /\ <<>> \in Seq(Nodes \union {0}) /\ IsInjective(<<>>)
        /\ ToSet(<<>>) = ToSet(<<>>) \ {0} /\ Ascends(<<>>)
    BY DEF IsInjective, ToSet, Ascends
  <2>2. /\ IInv'
        /\ (\A u \in Threads : Climbs(u)) /\ Ascends(<<>>) => \A u \in Threads : Climbs(u)'
    BY <1>3, <2>1, BeginKeeps
  <2>. QED BY <2>1, <2>2 DEF OInv
<1>. QED BY <1>2, <1>3 DEF Single

\* An exchange begins.
LEMMA ExchangeKeeps ==
    ASSUME IInv, NEW t \in Threads, Exchange(t)
    PROVE  IInv' /\ (ParentsBelow /\ OInv => OInv')
<1>1. 0 \notin Nodes
  BY LockingAssumption
<1>2. PICK f \in Nodes, g \in Nodes : Begin(t, "exchange", <<f, g>>, fusefs_lockpair(f, g))
  BY DEF Exchange
<1>. DEFINE l == fusefs_lockpair(f, g)
<1>3. l \in Seq(Nodes) /\ IsInjective(l) /\ ToSet(l) = {f, g} /\ (ParentsBelow => Ascends(l))
  BY LockPair DEF Locks
<1>4. <<f, g>> \in Seq(Nodes \union {0}) /\ ToSet(l) = ToSet(<<f, g>>) \ {0}
  BY <1>1, <1>3, Arguments
<1>. HIDE DEF l
<1>5. /\ IInv'
      /\ (\A u \in Threads : Climbs(u)) /\ Ascends(l) => \A u \in Threads : Climbs(u)'
  <2>1. Begin(t, "exchange", <<f, g>>, l)
    BY <1>2 DEF l
  <2>. QED BY <1>3, <1>4, <2>1, BeginKeeps
<1>. QED BY <1>3, <1>5 DEF OInv

\* A rename begins.
LEMMA RenameKeeps ==
    ASSUME NoMutualParents, IInv, NEW t \in Threads, Rename(t)
    PROVE  IInv' /\ (ParentsBelow /\ OInv => OInv')
<1>1. 0 \notin Nodes /\ Dirs \subseteq Nodes
  BY LockingAssumption
<1>2. PICK f \in Nodes, p \in Dirs, v \in Nodes \union {0} :
         /\ dir[f] \in Nodes /\ v # f
         /\ Begin(t, "rename", <<p, dir[f], f, v>>, fusefs_lockfour(p, dir[f], f, v))
  BY <1>1 DEF Rename
<1>. DEFINE q == dir[f]
            l == fusefs_lockfour(p, q, f, v)
            a == <<p, q, f, v>>
<1>3. Locks(l, {p, q, f, v} \ {0})
  BY <1>1, <1>2, LockFour
<1>4. a \in Seq(Nodes \union {0}) /\ a[1] \in Nodes /\ ToSet(a) = {p, q, f, v}
  BY <1>1, <1>2, Arguments
<1>5. Begin(t, "rename", a, l)
  BY <1>2
<1>. HIDE DEF l, a, q
<1>6. /\ l \in Seq(Nodes) /\ IsInjective(l) /\ ToSet(l) = ToSet(a) \ {0}
      /\ ParentsBelow => Ascends(l)
  BY <1>3, <1>4 DEF Locks
<1>7. /\ IInv'
      /\ (\A u \in Threads : Climbs(u)) /\ Ascends(l) => \A u \in Threads : Climbs(u)'
  BY <1>4, <1>5, <1>6, BeginKeeps
<1>. QED BY <1>6, <1>7 DEF OInv

\* A thread gets the lock that is next on its list.
LEMMA LockKeeps ==
    ASSUME IInv, NEW t \in Threads, fusefs_lock(t)
    PROVE  IInv' /\ (OInv => OInv')
<1>. DEFINE h == Head(todo[t])
            r == Tail(todo[t])
<1>1. Shapes /\ \A u \in Threads : Remaining(u) /\ Holds(u)
  BY DEF IInv
<1>2. /\ pc[t] = "locking" /\ owner[h] = None
      /\ owner' = [owner EXCEPT ![h] = t]
      /\ todo' = [todo EXCEPT ![t] = r]
      /\ pc' = [pc EXCEPT ![t] = IF Len(todo[t]) = 1 THEN "locked" ELSE pc[t]]
      /\ op' = op /\ args' = args /\ dir' = dir
  BY DEF fusefs_lock
<1>3. todo[t] \in Seq(Nodes) /\ todo[t] # <<>> /\ IsInjective(todo[t])
  BY <1>1, <1>2 DEF Shapes, Remaining
<1>4. /\ h \in Nodes /\ h \in ToSet(todo[t]) /\ r \in Seq(Nodes) /\ IsInjective(r)
      /\ ToSet(r) = ToSet(todo[t]) \ {h}
      /\ Len(todo[t]) = 1 <=> r = <<>>
      /\ Ascends(todo[t]) => Ascends(r) /\ \A x \in ToSet(r) : h < x
  BY <1>3, Shorter
<1>. HIDE DEF h, r
<1>5. Shapes'
  BY <1>1, <1>2, <1>4 DEF Shapes
<1>6. 0 \notin Nodes /\ None \notin Threads
  BY LockingAssumption
<1>7. /\ owner'[h] = t
      /\ \A n \in Nodes : n # h => owner'[n] = owner[n]
  BY <1>1, <1>2, <1>4 DEF Shapes
<1>8. ASSUME NEW u \in Threads PROVE Remaining(u)' /\ Holds(u)' /\ (OInv => Climbs(u)')
  <2>1. CASE u = t
    <3>1. /\ pc'[u] = (IF r = <<>> THEN "locked" ELSE "locking") /\ op'[u] = op[u]
          /\ args'[u] = args[u] /\ todo'[u] = r
      BY <1>1, <1>2, <1>4, <2>1 DEF Shapes
    <3>2. Remaining(u)'
      BY <1>1, <1>4, <2>1, <3>1 DEF Remaining
    <3>3. Holds(u)'
      <4>1. {n \in Nodes : owner'[n] = u} = {n \in Nodes : owner[n] = u} \union {h}
        BY <1>4, <1>7, <2>1
      <4>2. h \in ToSet(args[u]) /\ h # 0
        BY <1>1, <1>4, <1>6, <2>1 DEF Remaining
      <4>3. {n \in Nodes : owner[n] = u} = (ToSet(args[u]) \ {0}) \ ToSet(todo[t])
        BY <1>1, <2>1 DEF Holds
      <4>4. {n \in Nodes : owner'[n] = u} = (ToSet(args[u]) \ {0}) \ ToSet(r)
        BY <1>4, <4>1, <4>2, <4>3
      <4>. QED BY <3>1, <4>4 DEF Holds
    <3>4. ASSUME OInv PROVE Climbs(u)'
      <4>1. Climbs(t)
        BY <3>4 DEF OInv
      <4>2. Ascends(r) /\ \A x \in ToSet(r) : h < x
        BY <1>4, <4>1 DEF Climbs
      <4>3. ASSUME NEW n \in Nodes, NEW m \in ToSet(r), owner'[n] = t PROVE n < m
        BY <1>4, <1>7, <4>1, <4>2, <4>3 DEF Climbs
      <4>. QED BY <2>1, <3>1, <4>2, <4>3 DEF Climbs
    <3>. QED BY <3>2, <3>3, <3>4
  <2>2. CASE u # t
    <3>1. pc'[u] = pc[u] /\ op'[u] = op[u] /\ args'[u] = args[u] /\ todo'[u] = todo[u]
      BY <1>1, <1>2, <2>2 DEF Shapes
    <3>2. \A n \in Nodes : owner'[n] = u <=> owner[n] = u
      BY <1>2, <1>6, <1>7, <2>2
    <3>3. Remaining(u)'
      BY <1>1, <3>1 DEF Remaining
    <3>4. Holds(u)'
      <4>1. {n \in Nodes : owner'[n] = u} = {n \in Nodes : owner[n] = u}
        BY <3>2
      <4>. QED BY <1>1, <3>1, <4>1 DEF Holds
    <3>5. Climbs(u) => Climbs(u)'
      BY <3>1, <3>2 DEF Climbs
    <3>. QED BY <3>3, <3>4, <3>5 DEF OInv
  <2>. QED BY <2>1, <2>2
<1>. QED BY <1>5, <1>8 DEF IInv, OInv

\* A thread gets the big lock.
LEMMA BiglockKeeps ==
    ASSUME IInv, NEW t \in Threads, fuse_biglock_lock(t)
    PROVE  IInv' /\ (OInv => OInv')
<1>1. Shapes /\ \A u \in Threads : Remaining(u) /\ Holds(u)
  BY DEF IInv
<1>2. /\ pc[t] = "locked" /\ pc' = [pc EXCEPT ![t] = "operating"]
      /\ op' = op /\ args' = args /\ todo' = todo /\ owner' = owner /\ dir' = dir
  BY DEF fuse_biglock_lock
<1>3. Shapes'
  BY <1>1, <1>2 DEF Shapes
<1>4. ASSUME NEW u \in Threads PROVE Remaining(u)' /\ Holds(u)' /\ (OInv => Climbs(u)')
  <2>1. /\ pc'[u] = "locking" <=> pc[u] = "locking"
        /\ pc'[u] = "idle" <=> pc[u] = "idle"
    BY <1>1, <1>2 DEF Shapes
  <2>2. Remaining(u)'
    BY <1>1, <1>2, <2>1 DEF Remaining
  <2>. QED BY <1>1, <1>2, <2>2 DEF Holds, Climbs, OInv
<1>. QED BY <1>3, <1>4 DEF IInv, OInv

\* An operation ends and unlocks what it was called with.
LEMMA OperateKeeps ==
    ASSUME IInv, NEW t \in Threads, Operate(t)
    PROVE  IInv' /\ (OInv => OInv')
<1>1. Shapes /\ \A u \in Threads : Remaining(u) /\ Holds(u)
  BY DEF IInv
<1>2. /\ pc[t] = "operating" /\ pc' = [pc EXCEPT ![t] = "idle"]
      /\ owner' = [n \in Nodes |-> IF n \in ToSet(args[t]) THEN None ELSE owner[n]]
      /\ op' = [op EXCEPT ![t] = "single"] /\ args' = [args EXCEPT ![t] = <<>>]
      /\ todo' = todo
      /\ dir' = dir \/ (op[t] = "rename" /\ dir' = Moved(args[t]))
  BY DEF Operate
<1>3. dir' \in [Nodes -> Nodes \union {0}]
  <2>1. CASE dir' = dir
    BY <1>1, <2>1 DEF Shapes
  <2>2. CASE op[t] = "rename" /\ dir' = Moved(args[t])
    <3>1. args[t][1] \in Nodes
      BY <1>1, <2>2 DEF Remaining
    <3>. QED BY <1>1, <2>2, <3>1 DEF Moved, Shapes
  <2>. QED BY <1>2, <2>1, <2>2
<1>4. <<>> \in Seq(Nodes \union {0}) /\ ToSet(<<>>) = {}
  BY Arguments
<1>5. Shapes'
  BY <1>1, <1>2, <1>3, <1>4 DEF Shapes
<1>6. todo[t] = <<>> /\ IsInjective(<<>>)
  BY <1>1, <1>2 DEF Remaining
<1>7. \A n \in Nodes : owner[n] = t <=> n \in ToSet(args[t])
  <2>1. {n \in Nodes : owner[n] = t} = (ToSet(args[t]) \ {0}) \ {}
    BY <1>1, <1>4, <1>6 DEF Holds
  <2>. QED BY <2>1, LockingAssumption
<1>8. \A n \in Nodes : owner'[n] = IF n \in ToSet(args[t]) THEN None ELSE owner[n]
  BY <1>2
<1>9. ASSUME NEW u \in Threads PROVE Remaining(u)' /\ Holds(u)' /\ (OInv => Climbs(u)')
  <2>1. CASE u = t
    <3>1. pc'[u] = "idle" /\ op'[u] = "single" /\ args'[u] = <<>> /\ todo'[u] = <<>>
      BY <1>1, <1>2, <1>6, <2>1 DEF Shapes
    <3>2. {n \in Nodes : owner'[n] = u} = {}
      BY <1>7, <1>8, <2>1, LockingAssumption
    <3>3. Remaining(u)'
      BY <1>4, <1>6, <3>1 DEF Remaining
    <3>4. Holds(u)'
      BY <1>4, <3>1, <3>2 DEF Holds
    <3>5. Climbs(u)'
      BY <1>4, <3>1, <3>2 DEF Climbs, Ascends
    <3>. QED BY <3>3, <3>4, <3>5
  <2>2. CASE u # t
    <3>1. pc'[u] = pc[u] /\ op'[u] = op[u] /\ args'[u] = args[u] /\ todo'[u] = todo[u]
      BY <1>1, <1>2, <2>2 DEF Shapes
    <3>2. \A n \in Nodes : owner'[n] = u <=> owner[n] = u
      BY <1>7, <1>8, <2>2, LockingAssumption
    <3>3. Remaining(u)'
      BY <1>1, <3>1 DEF Remaining
    <3>4. Holds(u)'
      <4>1. {n \in Nodes : owner'[n] = u} = {n \in Nodes : owner[n] = u}
        BY <3>2
      <4>. QED BY <1>1, <3>1, <4>1 DEF Holds
    <3>5. Climbs(u) => Climbs(u)'
      BY <3>1, <3>2 DEF Climbs
    <3>. QED BY <3>3, <3>4, <3>5 DEF OInv
  <2>. QED BY <2>1, <2>2
<1>. QED BY <1>5, <1>9 DEF IInv, OInv

\* Every step keeps the invariants.
LEMMA NextKeeps ==
    ASSUME NoMutualParents, IInv, [Next]_vars
    PROVE  IInv' /\ (ParentsBelow /\ OInv => OInv')
<1>1. CASE Next
  <2>1. PICK t \in Threads : \/ Single(t) \/ Exchange(t) \/ Rename(t)
                             \/ fusefs_lock(t) \/ fuse_biglock_lock(t) \/ Operate(t)
    BY <1>1 DEF Next
  <2>2. CASE Single(t)
    BY <2>2, SingleKeeps
  <2>3. CASE Exchange(t)
    BY <2>3, ExchangeKeeps
  <2>4. CASE Rename(t)
    BY <2>4, RenameKeeps
  <2>5. CASE fusefs_lock(t)
    BY <2>5, LockKeeps
  <2>6. CASE fuse_biglock_lock(t)
    BY <2>6, BiglockKeeps
  <2>7. CASE Operate(t)
    BY <2>7, OperateKeeps
  <2>. QED BY <2>1, <2>2, <2>3, <2>4, <2>5, <2>6, <2>7
<1>2. CASE UNCHANGED vars
  BY <1>2 DEF vars, IInv, OInv, Shapes, Remaining, Holds, Climbs
<1>. QED BY <1>1, <1>2

\* Where every parent is below its children, none has itself or its own parent
\* as a child.
LEMMA BelowIsNotMutual == ParentsBelow => NoMutualParents
<1>. SUFFICES ASSUME ParentsBelow, NEW n \in Nodes, NEW m \in Nodes,
                     parent_nodeid[n] = m, parent_nodeid[m] = n
              PROVE  FALSE
  BY DEF NoMutualParents
<1>1. m < n /\ n < m
  BY DEF ParentsBelow
<1>. QED BY <1>1, LockingAssumption

\* Addresses are machine words: of some waiting threads, one waits for a lock
\* that no other waits above.
LEMMA Highest ==
    ASSUME NEW b \in Nat, Nodes \subseteq 1 .. b, NEW S, S # {},
           NEW f \in [S -> Nodes]
    PROVE  \E t \in S : \A u \in S : ~(f[t] < f[u])
<1>. DEFINE T == {b - f[t] : t \in S}
<1>1. \A t \in S : f[t] \in 1 .. b
  OBVIOUS
<1>2. T \subseteq Nat /\ T # {}
  BY <1>1
<1>. DEFINE R == OpToRel(<, Nat)
<1>3. \A x, y \in Nat : x < y => <<x, y>> \in R
  BY DEF OpToRel
<1>4. IsWellFoundedOn(R, Nat)
  BY NatLessThanWellFounded
<1>. HIDE DEF R
<1>5. PICK x \in T : \A y \in T : ~(<<y, x>> \in R)
  BY <1>2, <1>4, WFMin
<1>6. PICK t \in S : x = b - f[t]
  OBVIOUS
<1>7. ASSUME NEW u \in S, f[t] < f[u] PROVE FALSE
  <2>1. b - f[u] \in T /\ b - f[u] \in Nat /\ x \in Nat /\ b - f[u] < x
    BY <1>1, <1>6, <1>7
  <2>. QED BY <1>3, <1>5, <2>1
<1>. QED BY <1>7

\* In a circle, everyone would wait for a lock below the one its owner waits for.
LEMMA NoCircleHere ==
    ASSUME NEW b \in Nat, Nodes \subseteq 1 .. b, OInv
    PROVE  NobodyWaitsInACircle
<1>. SUFFICES ASSUME NEW S \in SUBSET Threads, S # {},
                     \A t \in S : pc[t] = "locking" /\ owner[Head(todo[t])] \in S
              PROVE  FALSE
  BY DEF NobodyWaitsInACircle
<1>. DEFINE h == [t \in S |-> Head(todo[t])]
<1>1. Shapes /\ \A t \in Threads : Remaining(t) /\ Climbs(t)
  BY DEF IInv, OInv
<1>2. ASSUME NEW t \in S PROVE h[t] \in Nodes /\ h[t] \in ToSet(todo[t])
  <2>1. todo[t] \in Seq(Nodes) /\ todo[t] # <<>> /\ IsInjective(todo[t])
    BY <1>1 DEF Shapes, Remaining
  <2>. QED BY <2>1, Shorter
<1>. HIDE DEF h
<1>3. h \in [S -> Nodes]
  BY <1>2 DEF h
<1>4. PICK t \in S : \A u \in S : ~(h[t] < h[u])
  BY <1>3, Highest
<1>5. owner[h[t]] \in S
  BY DEF h
<1>6. h[t] < h[owner[h[t]]]
  BY <1>1, <1>2, <1>5 DEF Climbs
<1>. QED BY <1>4, <1>5, <1>6

-----------------------------------------------------------------------------
\* "only one lock taken per fusenode", "all or none of the locks are taken":
\* fusefs_lock, fusefs_lockpair and fusefs_lockfour take exactly the locks that
\* the unlocks give back, for any addresses and any nodes called with, as long
\* as no two nodes are each other's recorded parent.
THEOREM LocksAreReturned ==
    ASSUME NoMutualParents
    PROVE  Spec => []LocksMatch
<1>1. IInv => LocksMatch
  BY DEF IInv, Holds, LocksMatch
<1>2. Init => IInv
  BY InitHolds
<1>3. IInv /\ [Next]_vars => IInv'
  BY NextKeeps
<1>. QED BY <1>1, <1>2, <1>3, PTL DEF Spec

\* Nobody deadlocks on node locks where fusefs_isordered's two orders, parents
\* first and lower addresses first, agree: where each parent is at a lower
\* address than its children.  (Run locking_order: they deadlock where not.)
THEOREM NoCircle ==
    ASSUME NEW b \in Nat, Nodes \subseteq 1 .. b, ParentsBelow
    PROVE  Spec => []NobodyWaitsInACircle
<1>1. OInv => NobodyWaitsInACircle
  BY NoCircleHere
<1>2. Init => OInv
  BY InitHolds
<1>3. OInv /\ [Next]_vars => OInv'
  BY NextKeeps, BelowIsNotMutual DEF OInv
<1>. QED BY <1>1, <1>2, <1>3, PTL DEF Spec
=============================================================================
