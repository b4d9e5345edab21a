----------------------------- MODULE NodeTable -----------------------------
(***************************************************************************)
(* What the node hash promises to the rest of the file system, with no     *)
(* locks, no memory and no half-made nodes: a table from node ids to       *)
(* vnodes in which a user always finds the one vnode of an id, and an      *)
(* entry goes away only when no user has its vnode.  (The page cache hangs *)
(* off the vnode: two vnodes for one file would be two versions of it.)    *)
(***************************************************************************)
CONSTANTS
    Users,      \* who looks ids up
    Ids,
    VNodes,
    None        \* no vnode

VARIABLES
    vnodeOf,    \* the vnode of each id, or None
    has         \* what each user has in hand: an id and its vnode, or None

tableVars == <<vnodeOf, has>>

Init ==
    /\ vnodeOf = [i \in Ids |-> None]
    /\ has = [u \in Users |-> None]

\* The vnode of the id; if it has none, one that no other id has.
Get(u, i, v) ==
    /\ has[u] = None
    /\ \/ vnodeOf[i] = v
       \/ vnodeOf[i] = None /\ \A j \in Ids : vnodeOf[j] # v
    /\ vnodeOf' = [vnodeOf EXCEPT ![i] = v]
    /\ has' = [has EXCEPT ![u] = <<i, v>>]

Put(u) ==
    /\ has[u] # None
    /\ has' = [has EXCEPT ![u] = None]
    /\ UNCHANGED vnodeOf

\* An id loses its vnode: not while somebody has it.
Drop(i) ==
    /\ vnodeOf[i] # None
    /\ \A u \in Users : has[u] # <<i, vnodeOf[i]>>
    /\ vnodeOf' = [vnodeOf EXCEPT ![i] = None]
    /\ UNCHANGED has

Next ==
    \/ \E u \in Users : Put(u) \/ \E i \in Ids, v \in VNodes : Get(u, i, v)
    \/ \E i \in Ids : Drop(i)

Spec == Init /\ [][Next]_tableVars
=============================================================================
