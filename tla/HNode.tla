------------------------------- MODULE HNode -------------------------------
(***************************************************************************)
(* The node hash: from the node ids of the daemon to vnodes                *)
(* (src/core/10.5/fusefs: fuse_nodehash.c, fuse_node.c), with its callers: *)
(* the operations that receive an entry from the daemon (fuse_vnop_lookup, *)
(* fuse_internal_newentry_core, fuse_vnop_create, fuse_vnop_link in        *)
(* fuse_vnops.c and fuse_internal.c), the ioctl that finds the vnode of an *)
(* id (fuse_device.c), and fuse_vnop_reclaim.                              *)
(*                                                                         *)
(* An HNode is found by its id, may be without a vnode while one thread    *)
(* attaches it (attachOutstanding), and is freed with its last vnode.  The *)
(* kernel recycles vnodes on its own.  An action is one critical section   *)
(* of gHashMutex, or one call out of the extension.  Every caller passes   *)
(* fork index 0, so that an HNode has one slot for a vnode.  With BigLock  *)
(* (the 64-bit build) the operations of a volume exclude each other,       *)
(* except where the code releases the lock; without it (the 32-bit build)  *)
(* a thread gives way wherever it may block.  Each thread works in a       *)
(* directory of its own: the node lock of the directory already excludes   *)
(* two lookups in one.                                                     *)
(***************************************************************************)
EXTENDS Integers, FiniteSets

CONSTANTS
    Threads,    \* threads inside operations of one volume
    Inos,       \* node ids the daemon uses, the root's left out
    Kinds,      \* what an id can be: a type and a generation
    Entries,    \* the entries the daemon may answer with (struct fuse_entry_out)
    Addrs,      \* memory for HNodes (with the fuse_vnode_data behind each)
    VNodes,     \* vnode structures of the kernel
    None,       \* a null pointer
    BigLock,    \* M_MACFUSE_ENABLE_INTERIM_FSNODE_LOCK: the 64-bit build
    Faults,     \* what may fail: "malloc", "vnode_create"
    MaxAsks     \* bound: entries the daemon hands out, and ioctls

ASSUME HNodeAssumption ==
    /\ None \notin Addrs /\ None \notin VNodes /\ None \notin Threads
    /\ None \notin Kinds /\ None \notin Inos \X VNodes
    /\ IsFiniteSet(Threads)
    /\ Entries \subseteq [ino : Inos, kind : Kinds] /\ Entries # {}
    /\ BigLock \in BOOLEAN
    /\ MaxAsks \in Nat

VARIABLES
    \* struct HNode, by address
    allocated,          \* the addresses that hold an HNode
    linked,             \* the HNodes in gHashTable
    ino,
    attachOutstanding,  \* the HNodes with this flag
    waiting,            \* the HNodes with this flag
    forkVNodesCount,
    forkVNodes,         \* the vnode of the only fork
    \* struct fuse_vnode_data, behind the HNode
    kind,               \* vtype and generation; None until fInitialised
    nlookup,
    \* struct vnode (kernel)
    vstate,             \* "free", "live", "dying" (VL_TERMINATE), "detached"
    vid,
    v_fsnode,
    \* a thread
    pc, op,
    want,               \* the entry it was given: node id, type and generation
    thisNode, newNode,
    candidateVN, cvid,  \* candidateVN, and its vid when that was read
    vn,                 \* the vnode it has an I/O reference on
    biglock,            \* who holds the big lock
    \* the daemon
    daemon,             \* lookups it counts for an id: entries given, less
                        \*   what FORGET took back
    releasing,          \* RELEASE messages whose answer will send a FORGET
    unreturned,         \* entries given that no FORGET will ever take back
    asks

hashVars   == <<allocated, linked, ino, attachOutstanding, waiting,
                forkVNodesCount, forkVNodes>>
fsnodeVars == <<kind, nlookup>>
vnodeVars  == <<vstate, vid, v_fsnode>>
threadVars == <<pc, op, want, thisNode, newNode, candidateVN, cvid, vn>>
daemonVars == <<daemon, releasing, unreturned, asks>>
vars == <<hashVars, fsnodeVars, vnodeVars, threadVars, biglock, daemonVars>>

PCs == {"idle", "search", "asleep", "getwithvid", "vnode_create", "created",
        "check", "disappear", "fail", "holding"}
VStates == {"free", "live", "dying", "detached"}
AnEntry == CHOOSE e \in Entries : TRUE

\* HNodeInit: an empty table.
Init ==
    /\ allocated = {} /\ linked = {} /\ attachOutstanding = {} /\ waiting = {}
    /\ ino = [a \in Addrs |-> AnEntry.ino]
    /\ forkVNodesCount = [a \in Addrs |-> 0]
    /\ forkVNodes = [a \in Addrs |-> None]
    /\ kind = [a \in Addrs |-> None]
    /\ nlookup = [a \in Addrs |-> 0]
    /\ vstate = [v \in VNodes |-> "free"]
    /\ vid = [v \in VNodes |-> 0]
    /\ v_fsnode = [v \in VNodes |-> None]
    /\ pc = [t \in Threads |-> "idle"]
    /\ op = [t \in Threads |-> "lookup"]
    /\ want = [t \in Threads |-> AnEntry]
    /\ thisNode = [t \in Threads |-> None]
    /\ newNode = [t \in Threads |-> None]
    /\ candidateVN = [t \in Threads |-> None]
    /\ cvid = [t \in Threads |-> 0]
    /\ vn = [t \in Threads |-> None]
    /\ biglock = None
    /\ daemon = [i \in Inos |-> 0]
    /\ releasing = [i \in Inos |-> 0]
    /\ unreturned = [i \in Inos |-> 0]
    /\ asks = 0

-----------------------------------------------------------------------------
\* fuse_biglock_lock and fuse_biglock_unlock.
LockBig(t) ==
    IF BigLock THEN biglock = None /\ biglock' = t ELSE UNCHANGED biglock
UnlockBig == biglock' = None

\* The HNodes of an id in the table.
Found(i) == {a \in linked : ino[a] = i}

\* Mutant: attaches of others are not looked at.
Busy_Never(a) == FALSE

\* Somebody is attaching a vnode to the node.
Busy(a) == a \in attachOutstanding

\* The thread goes on, or leaves the operation: its locals go with it.
GoTo(t, where) == pc' = [pc EXCEPT ![t] = where]
Leave(t) ==
    /\ GoTo(t, "idle")
    /\ op' = [op EXCEPT ![t] = "lookup"]
    /\ want' = [want EXCEPT ![t] = AnEntry]

\* Mutant: a newNode that was not used is forgotten.
FreeNewNode_Forgotten(t) ==
    /\ newNode' = [newNode EXCEPT ![t] = None]
    /\ UNCHANGED <<allocated, ino>>

\* HNodeLookupCreatingIfNecessary: a newNode that was not used is freed.
FreeNewNode(t) ==
    /\ allocated' = allocated \ {newNode[t]}
    /\ ino' = [a \in Addrs |-> IF a = newNode[t] THEN AnEntry.ino ELSE ino[a]]
    /\ newNode' = [newNode EXCEPT ![t] = None]

\* An operation starts, asks the daemon for an entry, and gets one.  A lookup
\* stands for every operation that ends in fuse_vget_i.
Ask(t) ==
    /\ pc[t] = "idle" /\ asks < MaxAsks
    /\ LockBig(t)
    /\ \E o \in {"lookup", "create"}, e \in Entries :
          /\ op' = [op EXCEPT ![t] = o]
          /\ want' = [want EXCEPT ![t] = e]
          /\ daemon' = [daemon EXCEPT ![e.ino] = @ + 1]
    /\ GoTo(t, "search")
    /\ asks' = asks + 1
    /\ UNCHANGED <<hashVars, fsnodeVars, vnodeVars, thisNode, newNode,
                   candidateVN, cvid, vn, releasing, unreturned>>

\* fuse_device_ioctl, FUSEDEVIOCALTERVNODEFORINODE, with
\* HNodeLookupRealQuickIfExists: no wait, no retry, no big lock.
AlterVnodeForInode(t) ==
    /\ pc[t] = "idle" /\ asks < MaxAsks
    /\ \E e \in Entries :
          LET fit == {a \in Found(e.ino) :
                        ~Busy(a) /\ forkVNodes[a] # None}
          IN  \E a \in fit :
                 /\ want' = [want EXCEPT ![t] = e]
                 /\ candidateVN' = [candidateVN EXCEPT ![t] = forkVNodes[a]]
                 /\ cvid' = [cvid EXCEPT ![t] = vid[forkVNodes[a]]]
    /\ op' = [op EXCEPT ![t] = "ioctl"]
    /\ GoTo(t, "getwithvid")
    /\ asks' = asks + 1
    /\ UNCHANGED <<hashVars, fsnodeVars, vnodeVars, thisNode, newNode, vn,
                   biglock, daemon, releasing, unreturned>>

-----------------------------------------------------------------------------
\* HNodeLookupCreatingIfNecessary: the loop, one critical section at a time.

\* The id is not in the table, and there is no node at hand: FUSE_OSMalloc,
\* without the mutex, gives a zeroed node, or ENOMEM; then the search is made
\* again.
SearchMiss(t) ==
    /\ pc[t] = "search"
    /\ Found(want[t].ino) = {} /\ newNode[t] = None
    /\ \/ \E a \in Addrs \ allocated :
             /\ allocated' = allocated \union {a}
             /\ newNode' = [newNode EXCEPT ![t] = a]
             /\ ino' = [ino EXCEPT ![a] = want[t].ino]
             /\ UNCHANGED pc
       \/ /\ "malloc" \in Faults
          /\ GoTo(t, "fail")
          /\ UNCHANGED <<allocated, newNode, ino>>
    /\ UNCHANGED <<linked, attachOutstanding, waiting, forkVNodesCount,
                   forkVNodes, fsnodeVars, vnodeVars, op, want, thisNode,
                   candidateVN, cvid, vn, biglock, daemonVars>>

\* FSNodeGetOrCreateFileVNodeByID fills in a node that is new to it.
FillIn(a, t) ==
    IF kind[a] = None
    THEN /\ kind' = [kind EXCEPT ![a] = want[t].kind]
         /\ nlookup' = [nlookup EXCEPT ![a] = 0]
    ELSE UNCHANGED fsnodeVars

\* Mutant: a new node goes into the table without a second search.
NodeAtHand_New(t) ==
    IF newNode[t] # None THEN {newNode[t]} ELSE Found(want[t].ino)

\* thisNode: the node found, or else the one allocated before.
NodeAtHand(t) ==
    LET here == Found(want[t].ino)
    IN  IF here = {} THEN {newNode[t]} \ {None} ELSE here

\* Mutant: newNode is not cleared when it is used, and so freed at the end.
Unused_Any(t, a) == {newNode[t]}

\* The new node the lookup frees on its way out, if it used node a.
Unused(t, a) == {newNode[t]} \ {a}

\* Mutant: no reference for the attach.
AttachCount_None(a) == forkVNodesCount[a]

\* The reference that keeps the node while a vnode is being attached.
AttachCount(a) == forkVNodesCount[a] + 1

\* A node without a vnode, the one found or the new one, which then enters the
\* table: the caller attaches, and the others wait.  Back in
\* FSNodeGetOrCreateFileVNodeByID, the node is filled in, and the big lock
\* released for vnode_create.
ClaimAttach(t) ==
    /\ pc[t] = "search"
    /\ \E a \in NodeAtHand(t) :
          /\ ~Busy(a) /\ forkVNodes[a] = None
          /\ linked' = linked \union {a}
          /\ attachOutstanding' = attachOutstanding \union {a}
          /\ forkVNodesCount' = [forkVNodesCount EXCEPT ![a] = AttachCount(a)]
          /\ thisNode' = [thisNode EXCEPT ![t] = a]
          /\ allocated' = allocated \ Unused(t, a)
          /\ FillIn(a, t)
    /\ newNode' = [newNode EXCEPT ![t] = None]
    /\ UnlockBig
    /\ GoTo(t, "vnode_create")
    /\ UNCHANGED <<ino, waiting, forkVNodes, vnodeVars, op, want, candidateVN,
                   cvid, vn, daemonVars>>

\* thisNode->waiting = TRUE
MarkWaiting(a) == waiting \union {a}

\* Somebody is attaching: msleep on the node, which drops gHashMutex only.
SearchWait(t) ==
    /\ pc[t] = "search"
    /\ \E a \in Found(want[t].ino) :
          /\ Busy(a)
          /\ waiting' = MarkWaiting(a)
          /\ thisNode' = [thisNode EXCEPT ![t] = a]
    /\ GoTo(t, "asleep")
    /\ UNCHANGED <<allocated, linked, ino, attachOutstanding, forkVNodesCount,
                   forkVNodes, fsnodeVars, vnodeVars, op, want, newNode,
                   candidateVN, cvid, vn, biglock, daemonVars>>

\* A node with a vnode: remember which vnode it is now, drop the mutex.
SearchHit(t) ==
    /\ pc[t] = "search"
    /\ \E a \in Found(want[t].ino) :
          /\ ~Busy(a) /\ forkVNodes[a] # None
          /\ candidateVN' = [candidateVN EXCEPT ![t] = forkVNodes[a]]
          /\ cvid' = [cvid EXCEPT ![t] = vid[forkVNodes[a]]]
    /\ GoTo(t, "getwithvid")
    /\ UNCHANGED <<hashVars, fsnodeVars, vnodeVars, op, want, thisNode, newNode,
                   vn, biglock, daemonVars>>

\* Mutant: vnode_get, which does not ask for the identity.
SameVnode_Any(t) == TRUE

\* The candidate has not been recycled since its vid was read.
SameVnode(t) == vid[candidateVN[t]] = cvid[t]

\* vnode_getwithvid: a reference on the vnode if it still is the one that was
\* seen.  While the vnode is on its way out the kernel makes the caller wait.
\* The lookup loops; the ioctl gives up.
GetWithVid(t) ==
    /\ pc[t] = "getwithvid"
    /\ LET v == candidateVN[t] IN
       \/ /\ SameVnode(t) /\ vstate[v] = "live"
          /\ vn' = [vn EXCEPT ![t] = v]
          /\ FreeNewNode(t)
          /\ GoTo(t, IF op[t] = "ioctl" THEN "holding" ELSE "check")
          /\ UNCHANGED <<op, want>>
       \/ /\ ~SameVnode(t) /\ vstate[v] \in {"free", "live"}
          /\ IF op[t] = "ioctl" THEN Leave(t)
             ELSE GoTo(t, "search") /\ UNCHANGED <<op, want>>
          /\ UNCHANGED <<vn, newNode, allocated, ino>>
    /\ candidateVN' = [candidateVN EXCEPT ![t] = None]
    /\ cvid' = [cvid EXCEPT ![t] = 0]
    /\ UNCHANGED <<linked, attachOutstanding, waiting, forkVNodesCount,
                   forkVNodes, fsnodeVars, vnodeVars, thisNode, biglock,
                   daemonVars>>

-----------------------------------------------------------------------------
\* FSNodeGetOrCreateFileVNodeByID, when it has to attach a vnode.

\* vnode_create: the kernel takes a free vnode, or fails.
VnodeCreate(t) ==
    /\ pc[t] = "vnode_create"
    /\ \/ \E v \in VNodes :
             /\ vstate[v] = "free"
             /\ vstate' = [vstate EXCEPT ![v] = "live"]
             /\ v_fsnode' = [v_fsnode EXCEPT ![v] = thisNode[t]]
             /\ vn' = [vn EXCEPT ![t] = v]
       \/ /\ "vnode_create" \in Faults
          /\ UNCHANGED <<vstate, v_fsnode, vn>>
    /\ GoTo(t, "created")
    /\ UNCHANGED <<hashVars, fsnodeVars, vid, op, want, thisNode, newNode,
                   candidateVN, cvid, biglock, daemonVars>>

\* Mutant: nobody is woken.
Woken_None(a) == {}

\* fuse_wakeup(hnode), if somebody is waiting.
Woken(a) ==
    {u \in Threads : a \in waiting /\ pc[u] = "asleep" /\ thisNode[u] = a}

\* Mutant: the flag stays.
AttachOver_Not(a) == attachOutstanding

\* hnode->attachOutstanding = FALSE
AttachOver(a) == attachOutstanding \ {a}

\* HNodeAttachComplete: the attach is over; those who sleep on the node wake.
HNodeAttachComplete(a, t, where) ==
    /\ attachOutstanding' = AttachOver(a)
    /\ waiting' = waiting \ {a}
    /\ pc' = [u \in Threads |-> IF u = t THEN where
                                ELSE IF u \in Woken(a) THEN "search"
                                ELSE pc[u]]
    /\ thisNode' = [u \in Threads |->
                      IF u = t \/ u \in Woken(a) THEN None ELSE thisNode[u]]

\* HNodeForkVNodeDecrement: the last vnode takes the node out of the table;
\* the caller then frees it (FSNodeScrub, HNodeScrubDone).  Free memory has no
\* contents: a node is blank from here until malloc and memset make it new.
HNodeForkVNodeDecrement(a) ==
    /\ forkVNodesCount' = [forkVNodesCount EXCEPT ![a] = @ - 1]
    /\ IF forkVNodesCount[a] = 1
       THEN /\ linked' = linked \ {a}
            /\ allocated' = allocated \ {a}
            /\ ino' = [ino EXCEPT ![a] = AnEntry.ino]
            /\ kind' = [kind EXCEPT ![a] = None]
            /\ nlookup' = [nlookup EXCEPT ![a] = 0]
       ELSE UNCHANGED <<linked, allocated, ino, fsnodeVars>>

\* The big lock is taken again, then HNodeAttachVNodeSucceeded.
HNodeAttachVNodeSucceeded(t) ==
    /\ pc[t] = "created" /\ vn[t] # None
    /\ LockBig(t)
    /\ forkVNodes' = [forkVNodes EXCEPT ![thisNode[t]] = vn[t]]
    /\ HNodeAttachComplete(thisNode[t], t, "check")
    /\ UNCHANGED <<allocated, linked, ino, forkVNodesCount, fsnodeVars,
                   vnodeVars, op, want, newNode, candidateVN, cvid, vn,
                   daemonVars>>

\* The big lock is taken again, then HNodeAttachVNodeFailed.
HNodeAttachVNodeFailed(t) ==
    /\ pc[t] = "created" /\ vn[t] = None
    /\ LockBig(t)
    /\ HNodeAttachComplete(thisNode[t], t, "fail")
    /\ HNodeForkVNodeDecrement(thisNode[t])
    /\ UNCHANGED <<forkVNodes, vnodeVars, op, want, newNode,
                   candidateVN, cvid, vn, daemonVars>>

\* The entry names the type and generation the node has: fuse_vget_i counts
\* the lookup; fuse_vnop_create, which does not go through it, counts nothing.
Accept(t) ==
    /\ pc[t] = "check"
    /\ kind[v_fsnode[vn[t]]] = want[t].kind
    /\ IF op[t] = "create"
       THEN /\ unreturned' = [unreturned EXCEPT ![want[t].ino] = @ + 1]
            /\ UNCHANGED nlookup
       ELSE /\ nlookup' = [nlookup EXCEPT ![v_fsnode[vn[t]]] = @ + 1]
            /\ UNCHANGED unreturned
    /\ UnlockBig
    /\ GoTo(t, "holding")
    /\ UNCHANGED <<hashVars, kind, vnodeVars, op, want, thisNode, newNode,
                   candidateVN, cvid, vn, daemon, releasing, asks>>

\* The type or the generation changed: fuse_internal_vnode_disappear, without
\* the big lock, marks the vnode for recycling ...
Disappear(t) ==
    /\ pc[t] = "check"
    /\ kind[v_fsnode[vn[t]]] # want[t].kind
    /\ UnlockBig
    /\ GoTo(t, "disappear")
    /\ UNCHANGED <<hashVars, fsnodeVars, vnodeVars, op, want, thisNode, newNode,
                   candidateVN, cvid, vn, daemonVars>>

\* ... and the reference is dropped: EIO or ESTALE.
Disappeared(t) ==
    /\ pc[t] = "disappear"
    /\ LockBig(t)
    /\ vn' = [vn EXCEPT ![t] = None]
    /\ GoTo(t, "fail")
    /\ UNCHANGED <<hashVars, fsnodeVars, vnodeVars, op, want, thisNode, newNode,
                   candidateVN, cvid, daemonVars>>

\* Mutant: the entry is kept.
ForgetOne_Not(i) == UNCHANGED daemon

\* fuse_internal_forget_send for one lookup.
ForgetOne(i) == daemon' = [daemon EXCEPT ![i] = @ - 1]

\* No vnode for the entry: it is given back, by a FORGET or, for a file that
\* CREATE opened, by a RELEASE whose callback sends the FORGET.
Fail(t) ==
    /\ pc[t] = "fail"
    /\ \/ /\ ForgetOne(want[t].ino)
          /\ UNCHANGED releasing
       \/ /\ op[t] = "create"
          /\ releasing' = [releasing EXCEPT ![want[t].ino] = @ + 1]
          /\ UNCHANGED daemon
    /\ UnlockBig
    /\ Leave(t)
    /\ UNCHANGED <<hashVars, fsnodeVars, vnodeVars, thisNode, newNode,
                   candidateVN, cvid, vn, unreturned, asks>>

\* fuse_internal_forget_callback: the RELEASE is answered.
ForgetCallback(i) ==
    /\ releasing[i] > 0
    /\ releasing' = [releasing EXCEPT ![i] = @ - 1]
    /\ ForgetOne(i)
    /\ UNCHANGED <<hashVars, fsnodeVars, vnodeVars, threadVars, biglock,
                   unreturned, asks>>

-----------------------------------------------------------------------------
\* The caller is done with its vnode: vnode_put.
Put(t) ==
    /\ pc[t] = "holding"
    /\ vn' = [vn EXCEPT ![t] = None]
    /\ Leave(t)
    /\ UNCHANGED <<hashVars, fsnodeVars, vnodeVars, thisNode, newNode,
                   candidateVN, cvid, biglock, daemonVars>>

\* fuse_vnop_link on a vnode the thread holds: the entry the daemon returns is
\* counted, unless it fails fuse_internal_checkentry.
Link(t) ==
    /\ pc[t] = "holding" /\ op[t] # "ioctl" /\ asks < MaxAsks
    /\ BigLock => biglock = None
    /\ LET a == v_fsnode[vn[t]] IN
       /\ daemon' = [daemon EXCEPT ![ino[a]] = @ + 1]
       /\ \/ /\ nlookup' = [nlookup EXCEPT ![a] = @ + 1]
             /\ UNCHANGED unreturned
          \/ /\ unreturned' = [unreturned EXCEPT ![ino[a]] = @ + 1]
             /\ UNCHANGED nlookup
    /\ asks' = asks + 1
    /\ UNCHANGED <<hashVars, kind, vnodeVars, threadVars, biglock, releasing>>

\* The kernel recycles a vnode nobody has a reference on.
Recycle(v) ==
    /\ vstate[v] = "live"
    /\ \A t \in Threads : vn[t] # v
    /\ vstate' = [vstate EXCEPT ![v] = "dying"]
    /\ UNCHANGED <<hashVars, fsnodeVars, vid, v_fsnode, threadVars, biglock,
                   daemonVars>>

\* HNodeDetachVNode: the node loses the vnode, and goes with its last one.
HNodeDetachVNode(a, v) ==
    /\ forkVNodes' = [forkVNodes EXCEPT ![a] = None]
    /\ v_fsnode' = [v_fsnode EXCEPT ![v] = None]
    /\ HNodeForkVNodeDecrement(a)

\* fuse_vnop_reclaim, under the big lock: FORGET for all lookups the node has
\* counted, then HNodeDetachVNode.
ReclaimNode(v) ==
    /\ vstate[v] = "dying"
    /\ BigLock => biglock = None
    /\ LET a == v_fsnode[v] IN
       /\ daemon' = [daemon EXCEPT ![ino[a]] = @ - nlookup[a]]
       /\ HNodeDetachVNode(a, v)
    /\ vstate' = [vstate EXCEPT ![v] = "detached"]
    /\ UNCHANGED <<attachOutstanding, waiting, vid, threadVars, biglock,
                   releasing, unreturned, asks>>

\* The kernel gives the vnode a new identity, and may use it again.
Recycled(v) ==
    /\ vstate[v] = "detached"
    /\ vid' = [vid EXCEPT ![v] = @ + 1]
    /\ vstate' = [vstate EXCEPT ![v] = "free"]
    /\ UNCHANGED <<hashVars, fsnodeVars, v_fsnode, threadVars, biglock,
                   daemonVars>>

-----------------------------------------------------------------------------
\* What a thread does once the daemon has answered; the kernel schedules it.
Step(t) ==
    \/ SearchMiss(t) \/ ClaimAttach(t) \/ SearchWait(t) \/ SearchHit(t)
    \/ GetWithVid(t) \/ VnodeCreate(t)
    \/ HNodeAttachVNodeSucceeded(t) \/ HNodeAttachVNodeFailed(t)
    \/ Accept(t) \/ Disappear(t) \/ Disappeared(t) \/ Fail(t)

\* What the kernel does with a vnode whose recycling has begun.
Reclaim(v) == ReclaimNode(v) \/ Recycled(v)

Next ==
    \/ \E t \in Threads : \/ Ask(t) \/ AlterVnodeForInode(t) \/ Step(t)
                          \/ Put(t) \/ Link(t)
    \/ \E v \in VNodes : Recycle(v) \/ Reclaim(v)
    \/ \E i \in Inos : ForgetCallback(i)

Spec == Init /\ [][Next]_vars

\* Threads that can run do, and a recycling that began goes on.
FairSpec ==
    /\ Spec
    /\ \A t \in Threads : WF_vars(Step(t)) /\ WF_vars(Put(t))
    /\ \A v \in VNodes : WF_vars(Reclaim(v))
    /\ \A i \in Inos : WF_vars(ForgetCallback(i))

-----------------------------------------------------------------------------
\* Properties.

TypeOK ==
    /\ allocated \subseteq Addrs /\ linked \subseteq Addrs
    /\ attachOutstanding \subseteq Addrs /\ waiting \subseteq Addrs
    /\ ino \in [Addrs -> Inos]
    /\ forkVNodesCount \in [Addrs -> Nat]
    /\ forkVNodes \in [Addrs -> VNodes \union {None}]
    /\ kind \in [Addrs -> Kinds \union {None}]
    /\ nlookup \in [Addrs -> Nat]
    /\ vstate \in [VNodes -> VStates]
    /\ vid \in [VNodes -> Nat]
    /\ v_fsnode \in [VNodes -> Addrs \union {None}]
    /\ pc \in [Threads -> PCs]
    /\ op \in [Threads -> {"lookup", "create", "ioctl"}]
    /\ want \in [Threads -> Entries]
    /\ thisNode \in [Threads -> Addrs \union {None}]
    /\ newNode \in [Threads -> Addrs \union {None}]
    /\ candidateVN \in [Threads -> VNodes \union {None}]
    /\ cvid \in [Threads -> Nat]
    /\ vn \in [Threads -> VNodes \union {None}]
    /\ biglock \in Threads \union {None}
    /\ daemon \in [Inos -> Int]
    /\ releasing \in [Inos -> Nat] /\ unreturned \in [Inos -> Nat]
    /\ asks \in Nat

\* A thread that HNodeLookupCreatingIfNecessary gave a vnode to has the vnode
\* of the id it asked for: alive, and tied to the one node of that id in the
\* table, whatever was recycled, and used again, while it was not looking.
VnodeIsTheOneAsked ==
    \A t \in Threads : pc[t] \in {"check", "disappear", "holding"} =>
        /\ vstate[vn[t]] = "live"
        /\ v_fsnode[vn[t]] \in linked
        /\ ino[v_fsnode[vn[t]]] = want[t].ino
        /\ forkVNodes[v_fsnode[vn[t]]] = vn[t]

\* The table has at most one node for an id, although the mutex is dropped
\* between the search that misses and the insertion.
OneNodePerId ==
    \A a, b \in linked : ino[a] = ino[b] => a = b

\* The address of an HNode is not kept where it could be used after
\* HNodeScrubDone freed it: not in the table, by a thread that attaches or
\* sleeps, or by a vnode; and nodes in use are never the same memory.
NoUseAfterFree ==
    /\ linked \subseteq allocated
    /\ \A t \in Threads :
          /\ thisNode[t] # None => thisNode[t] \in linked
          /\ newNode[t] # None => newNode[t] \in allocated \ linked
          /\ \A u \in Threads \ {t} : newNode[t] # None => newNode[t] # newNode[u]
    /\ \A v \in VNodes : v_fsnode[v] # None => v_fsnode[v] \in linked

\* Memory comes back: what is allocated is in the table or in a lookup that
\* will use it or free it.
NoNodeLeak ==
    allocated \subseteq linked \union {newNode[t] : t \in Threads}

\* "It would be easy to fix this (we could wake them up at this point) but, as
\* I don't think it can actually happen": nobody sleeps on a node unless an
\* attach is outstanding whose end will wake him, and that attach has an owner.
SleeperHasAttacher ==
    /\ waiting \subseteq attachOutstanding
    /\ \A t \in Threads : pc[t] = "asleep" => thisNode[t] \in waiting
    /\ \A a \in attachOutstanding :
          Cardinality({t \in Threads :
                          /\ thisNode[t] = a
                          /\ pc[t] \in {"vnode_create", "created"}}) = 1

\* Entries given to threads that have neither counted them nor given them back.
InFlight(i) ==
    Cardinality({t \in Threads :
                    /\ want[t].ino = i /\ op[t] # "ioctl"
                    /\ pc[t] \notin {"idle", "holding"}})

\* Lookups that the node in the table has counted and not yet forgotten.
Counted(i) ==
    LET nodes == {a \in linked : ino[a] = i}
    IN  IF nodes = {} THEN 0 ELSE nlookup[CHOOSE a \in nodes : TRUE]

\* The daemon's count for an id is exactly what this side still owes it:
\* lookups a node counted, entries on their way to be counted, and FORGETs to
\* come; apart from the entries of fuse_vnop_create, and of links that were
\* refused, which it never gets back.  So an id is never forgotten too early.
LookupsAddUp ==
    \A i \in Inos :
        daemon[i] = Counted(i) + InFlight(i) + releasing[i] + unreturned[i]

\* What the rest of the file system sees of it: the vnode that is attached to
\* an id, and the vnodes the threads were given.
AttachedVNode(i) ==
    LET nodes == {a \in linked : ino[a] = i /\ forkVNodes[a] # None}
    IN  IF nodes = {} THEN None ELSE forkVNodes[CHOOSE a \in nodes : TRUE]
Given(t) ==
    IF pc[t] \in {"check", "disappear", "holding"} THEN <<want[t].ino, vn[t]>>
    ELSE None

Table == INSTANCE NodeTable WITH
            Users <- Threads, Ids <- Inos,
            vnodeOf <- [i \in Inos |-> AttachedVNode(i)],
            has <- [t \in Threads |-> Given(t)]

\* The hash, with its races, implements the table of NodeTable: two threads
\* never have different vnodes for one id, and a node is not taken from the
\* table under a thread that was given its vnode.
ImplementsNodeTable == Table!Spec

\* A thread that was given an entry gets its vnode, or its error.
LookupsReturn ==
    \A t \in Threads : pc[t] # "idle" ~> pc[t] \in {"idle", "holding"}
=============================================================================
