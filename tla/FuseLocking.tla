---------------------------- MODULE FuseLocking ----------------------------
(***************************************************************************)
(* The locks of the 64-bit build (src/core/10.5/fusefs: fuse_locking.c and *)
(* the wrappers of fuse_biglock_vnops.h): an operation locks the node it   *)
(* is about, the two (exchange) or the four (rename), one after the other, *)
(* then the big lock of the volume; page traffic takes the big lock only.  *)
(*                                                                         *)
(* A node is its address, 0 the null pointer.  parent_nodeid is set when a *)
(* node is made and never again, dir is where the daemon has it now.       *)
(***************************************************************************)
EXTENDS Integers, Sequences, SequencesExt

CONSTANTS
    Threads,
    Nodes,          \* addresses: a set of positive numbers
    Dirs,           \* those that are directories
    parent_nodeid,  \* of each node, 0 if its parent is not among them
    None

ASSUME LockingAssumption ==
    /\ Nodes \subseteq Nat \ {0} /\ Dirs \subseteq Nodes
    /\ parent_nodeid \in [Nodes -> Nodes \union {0}]
    /\ None \notin Threads

VARIABLES
    pc,         \* "idle", "locking", "locked" or "operating"
    op,         \* what a thread is doing
    args,       \* the nodes its operation was called with
    todo,       \* those it still has to lock, in order
    owner,      \* of each node's lock
    biglock,
    dir

vars == <<pc, op, args, todo, owner, biglock, dir>>

Init ==
    /\ pc = [t \in Threads |-> "idle"]
    /\ op = [t \in Threads |-> "single"]
    /\ args = [t \in Threads |-> <<>>]
    /\ todo = [t \in Threads |-> <<>>]
    /\ owner = [n \in Nodes |-> None]
    /\ biglock = None
    /\ dir = parent_nodeid

-----------------------------------------------------------------------------
\* Mutant: in the order of the arguments.
fusefs_lockpair_AsCalled(cp1, cp2) ==
    IF cp1 = cp2 THEN <<cp1>> ELSE <<cp1, cp2>>

\* fusefs_lockpair: the order of its two locks.
fusefs_lockpair(cp1, cp2) ==
    IF cp1 = cp2 THEN <<cp1>>
    ELSE IF \/ cp1 \in Dirs /\ cp1 = parent_nodeid[cp2]
            \/ cp1 < cp2
         THEN <<cp1, cp2>>
         ELSE <<cp2, cp1>>

Sentinel == -1

\* fusefs_isordered, with its null pointers and sentinels.
fusefs_isordered(cp1, cp2) ==
    /\ cp1 # cp2
    /\ \/ cp1 = 0 \/ cp2 = Sentinel
       \/ /\ cp2 # 0 /\ cp1 # Sentinel
          /\ \/ cp1 = parent_nodeid[cp2]
             \/ cp2 # parent_nodeid[cp1] /\ cp1 < cp2

InOrder(cp1, cp2) ==
    IF fusefs_isordered(cp1, cp2) THEN <<cp1, cp2, Sentinel>>
    ELSE <<cp2, cp1, Sentinel>>

\* Mutant: duplicates stay.
Skipping_Not(list, cp) == IF cp = 0 THEN list ELSE Append(list, cp)

\* Adds a node to the list, unless it is the last one there.  The null pointers
\* that the locking loop skips are first in order: they need no entry.
Skipping(list, cp) ==
    IF cp = 0 \/ (list # <<>> /\ Last(list) = cp) THEN list ELSE Append(list, cp)

\* One turn of the loop that merges a and b.
Turn(a, b, m) ==
    IF fusefs_isordered(a[m.i], b[m.j])
    THEN [i |-> m.i + 1, j |-> m.j, list |-> Skipping(m.list, a[m.i])]
    ELSE [i |-> m.i, j |-> m.j + 1, list |-> Skipping(m.list, b[m.j])]

\* fusefs_lockfour: two sorted pairs are merged, in four turns, since neither
\* sentinel is taken before the other list is at its own.
fusefs_lockfour(cp1, cp2, cp3, cp4) ==
    LET turn(m) == Turn(InOrder(cp1, cp2), InOrder(cp3, cp4), m)
    IN  turn(turn(turn(turn([i |-> 1, j |-> 1, list |-> <<>>])))).list

-----------------------------------------------------------------------------
Begin(t, what, nodes, locks) ==
    /\ pc[t] = "idle"
    /\ op' = [op EXCEPT ![t] = what]
    /\ args' = [args EXCEPT ![t] = nodes]
    /\ todo' = [todo EXCEPT ![t] = locks]
    /\ pc' = [pc EXCEPT ![t] = IF locks = <<>> THEN "locked" ELSE "locking"]
    /\ UNCHANGED <<owner, biglock, dir>>

\* nodelocked_vnop, and locked_vnop, which locks no node.
Single(t) ==
    \/ \E n \in Nodes : Begin(t, "single", <<n>>, <<n>>)
    \/ Begin(t, "single", <<>>, <<>>)

\* nodelocked_pair_vnop: exchange of two files.
Exchange(t) ==
    \E f, g \in Nodes \ Dirs :
        Begin(t, "exchange", <<f, g>>, fusefs_lockpair(f, g))

\* nodelocked_quad_vnop: rename, as the kernel calls it after its lookups: the
\* target may be missing, and is not the source; nothing is moved into itself.
Rename(t) ==
    \E fvp \in Nodes, tdvp \in Dirs :
        /\ dir[fvp] \in Nodes /\ tdvp # fvp
        /\ \E tvp \in {n \in Nodes : dir[n] = tdvp /\ n # fvp} \union {0} :
              Begin(t, "rename", <<tdvp, dir[fvp], fvp, tvp>>,
                    fusefs_lockfour(tdvp, dir[fvp], fvp, tvp))

\* fusefs_lock.  No node has C_NOEXISTS, which nothing sets: it cannot fail.
fusefs_lock(t) ==
    /\ pc[t] = "locking"
    /\ owner[Head(todo[t])] = None
    /\ owner' = [owner EXCEPT ![Head(todo[t])] = t]
    /\ todo' = [todo EXCEPT ![t] = Tail(@)]
    /\ pc' = [pc EXCEPT ![t] = IF Len(todo[t]) = 1 THEN "locked" ELSE @]
    /\ UNCHANGED <<op, args, biglock, dir>>

\* fuse_biglock_lock
fuse_biglock_lock(t) ==
    /\ pc[t] = "locked" /\ biglock = None
    /\ biglock' = t
    /\ pc' = [pc EXCEPT ![t] = "operating"]
    /\ UNCHANGED <<op, args, todo, owner, dir>>

\* What the daemon does with a rename whose names still are what they were.
Moved(a) ==
    IF dir[a[3]] # a[2] THEN dir
    ELSE [n \in Nodes |-> IF n = a[3] THEN a[1]
                          ELSE IF n = a[4] THEN 0 ELSE dir[n]]

\* The operation, fuse_biglock_unlock, and fusefs_unlock, _unlockpair or
\* _unlockfour: each node it was called with, once.
Operate(t) ==
    /\ pc[t] = "operating"
    /\ \/ op[t] = "rename" /\ dir' = Moved(args[t])
       \/ UNCHANGED dir
    /\ biglock' = None
    /\ owner' = [n \in Nodes |-> IF n \in ToSet(args[t]) THEN None ELSE owner[n]]
    /\ op' = [op EXCEPT ![t] = "single"]
    /\ args' = [args EXCEPT ![t] = <<>>]
    /\ pc' = [pc EXCEPT ![t] = "idle"]
    /\ UNCHANGED todo

Next ==
    \E t \in Threads :
        \/ Single(t) \/ Exchange(t) \/ Rename(t)
        \/ fusefs_lock(t) \/ fuse_biglock_lock(t) \/ Operate(t)

Spec == Init /\ [][Next]_vars

-----------------------------------------------------------------------------
\* "only one lock taken per fusenode (dup fusenodes are skipped)", "all or none
\* of the locks are taken": a thread has exactly the locks of the nodes it was
\* called with, less those it will still take, so that the unlocks at the end
\* leave nothing locked and unlock nothing of anybody else.
LocksMatch ==
    \A t \in Threads :
        {n \in Nodes : owner[n] = t} = (ToSet(args[t]) \ {0}) \ ToSet(todo[t])

\* "Locked in fusenode parent-child order (if there is a relationship),
\* otherwise lock in fusenode address order": nobody waits in a circle for node
\* locks, not even for his own.
NobodyWaitsInACircle ==
    ~ \E S \in (SUBSET Threads) \ {{}} :
        \A t \in S : pc[t] = "locking" /\ owner[Head(todo[t])] \in S
=============================================================================
