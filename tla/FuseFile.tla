------------------------------ MODULE FuseFile ------------------------------
(***************************************************************************)
(* The file handles of one vnode, fvdat->fufh[] (src/core/10.5/fusefs:     *)
(* fuse_file.c, fuse_file.h), and the operations that get, share and put   *)
(* them: create, open, close, mmap, mnomap, readdir, write, inactive and   *)
(* reclaim (fuse_vnops.c), and the page traffic that comes on its own      *)
(* (fuse_internal_strategy in fuse_internal.c).                            *)
(*                                                                         *)
(* A vnode has one slot for each way to open a file, shared by all who     *)
(* opened it so.  A handle is opened with the daemon when a slot is first  *)
(* needed and released when its count falls to zero.  The 64-bit build is  *)
(* modelled: an operation holds the node's lock and the big lock of the    *)
(* volume from beginning to end, requests to the daemon included           *)
(* (nodelocked_vnop in fuse_biglock_vnops.h), so that it is one step,      *)
(* except where the code gives the big lock up (mmap, write) or sleeps     *)
(* (open); the page traffic takes the big lock only (locked_vnop).         *)
(***************************************************************************)
EXTENDS Integers, FiniteSets

CONSTANTS
    Threads,        \* processes, with one descriptor and one mapping each
    None,
    PrivateMaps,    \* writable private mappings of files opened for reading
    MaxCreates,     \* bound: calls of fuse_vnop_create
    MaxHandles,     \* bound: handles the daemon has open at a time
    MaxUses         \* bound: the uses of one slot

ASSUME FileAssumption ==
    /\ None \notin Threads
    /\ None \notin {"FUFH_RDONLY", "FUFH_WRONLY", "FUFH_RDWR"}
    /\ None \notin {"shared", "readonly", "private"}
    /\ IsFiniteSet(Threads)
    /\ PrivateMaps \in BOOLEAN
    /\ MaxCreates \in Nat /\ MaxHandles \in Nat /\ MaxUses \in Nat \ {0}

Types == {"FUFH_RDONLY", "FUFH_WRONLY", "FUFH_RDWR"}

VARIABLES
    vtype,              \* "VREG" or "VDIR"
    exists,             \* the daemon has the file
    present,            \* the file has a vnode
    \* struct fuse_vnode_data
    creating,           \* FN_CREATING
    creator,
    fh_id, open_count, aux_count,   \* fufh[]
    nodelock, biglock,  \* who keeps them from one step to the next
    \* processes
    pc,
    type,               \* the slot a process in open or mmap wants
    fd,                 \* how its descriptor is open, or None
    used,               \* it has been open since inactive was last called
    map,                \* "shared", "readonly", "private" or None
    nmaps,              \* mappings counted in each slot
    dirty,              \* pages wait to be written to the daemon
    \* the daemon
    opened,             \* the handles it has open
    dead,               \* FSESS_DEAD
    panic,              \* which panic() stopped the kernel, or "no"
    creates,
    lost,               \* handles another create wrote over in their slot
    restashed           \* a create has stashed into a node it did not make

nodeVars    == <<vtype, exists, present>>
createVars  == <<creating, creator, creates, lost, restashed>>
slotVars    == <<fh_id, open_count, aux_count>>
lockVars    == <<nodelock, biglock>>
procVars    == <<pc, type, fd, used, map>>
vars == <<nodeVars, createVars, slotVars, lockVars, procVars, nmaps, dirty,
          opened, dead, panic>>

NoUses == [y \in Types |-> 0]

\* A file nobody knows yet, a file that exists, or a directory.
Init ==
    /\ vtype \in {"VREG", "VDIR"}
    /\ exists \in BOOLEAN /\ (vtype = "VDIR" => exists)
    /\ present = FALSE
    /\ creating = FALSE /\ creator = None /\ creates = 0
    /\ lost = {} /\ restashed = FALSE
    /\ fh_id = NoUses /\ open_count = NoUses /\ aux_count = NoUses
    /\ nodelock = None /\ biglock = None
    /\ pc = [t \in Threads |-> "user"]
    /\ type = [t \in Threads |-> "FUFH_RDONLY"]
    /\ fd = [t \in Threads |-> None]
    /\ used = FALSE
    /\ map = [t \in Threads |-> None]
    /\ nmaps = NoUses
    /\ dirty = FALSE
    /\ opened = {}
    /\ dead = FALSE /\ panic = "no"

-----------------------------------------------------------------------------
FUFH_IS_VALID(y) == open_count[y] > 0

\* The lock wrappers: the big lock (locked_vnop), or both (nodelocked_vnop).  A
\* panic stops everybody.
Running == panic = "no"
BigLockFree == biglock = None /\ Running
LocksFree == nodelock = None /\ BigLockFree
KeepLocks == UNCHANGED lockVars

\* The daemon may number its handles as it likes, old numbers again included.
HasHandle == 1..MaxHandles \ opened # {}
NewHandle == CHOOSE h \in 1..MaxHandles : h \notin opened

\* Mutant: the old count is kept.
AuxAfterGet_Kept(y, aux) == aux_count[y] + aux

\* aux_count = 0, and FUFH_AUX_INC by the page traffic.
AuxAfterGet(y, aux) == aux

\* fuse_filehandle_get: panics if the slot is in use; else OPEN, and the slot
\* is filled.  aux is 1 for the page traffic (FUFH_AUX_INC).
GetSucceeds(y, aux, why) ==
    /\ ~dead /\ HasHandle
    /\ IF FUFH_IS_VALID(y)
       THEN panic' = why /\ UNCHANGED <<slotVars, opened>>
       ELSE /\ opened' = opened \union {NewHandle}
            /\ fh_id' = [fh_id EXCEPT ![y] = NewHandle]
            /\ open_count' = [open_count EXCEPT ![y] = 1]
            /\ aux_count' = [aux_count EXCEPT ![y] = AuxAfterGet(y, aux)]
            /\ UNCHANGED panic

\* FUFH_USE_INC
UseInc(y) ==
    /\ open_count[y] < MaxUses
    /\ open_count' = [open_count EXCEPT ![y] = @ + 1]
    /\ UNCHANGED <<fh_id, aux_count, opened, panic>>

\* fuse_filehandle_put of the slots ys, once their counts are what counts says:
\* panics if one is still in use; else RELEASE, unless the daemon is gone.
PutAll(ys, counts) ==
    /\ open_count' = counts
    /\ panic' = IF \E y \in ys : counts[y] > 0 THEN "put" ELSE panic
    /\ opened' = IF dead THEN opened ELSE opened \ {fh_id[y] : y \in ys}

\* Nobody has the vnode in hand, open or mapped.
Unused ==
    \A t \in Threads : pc[t] = "user" /\ fd[t] = None /\ map[t] = None

\* A thread leaves the kernel.
Returns(t) ==
    /\ pc' = [pc EXCEPT ![t] = "user"]
    /\ type' = [type EXCEPT ![t] = "FUFH_RDONLY"]

-----------------------------------------------------------------------------
\* open(O_CREAT): the lookup finds nothing.
LookupMisses(t) ==
    /\ pc[t] = "user" /\ fd[t] = None /\ map[t] = None
    /\ ~exists /\ ~dead /\ BigLockFree
    /\ creates < MaxCreates
    /\ creates' = creates + 1
    /\ pc' = [pc EXCEPT ![t] = "create"]
    /\ UNCHANGED <<nodeVars, creating, creator, lost, restashed, slotVars,
                   lockVars, type, fd, used, map, nmaps, dirty, opened, dead,
                   panic>>

\* fuse_vnop_create, under the lock of the directory and the big lock.  The
\* file may exist by now: CREATE does not ask for a new one.  A new node is
\* marked FN_CREATING.  The handle is stashed for open, over whatever was
\* there.
fuse_vnop_create(t) ==
    /\ pc[t] = "create" /\ BigLockFree
    /\ ~dead /\ HasHandle
    /\ exists' = TRUE /\ present' = TRUE
    /\ IF present THEN UNCHANGED <<creating, creator>>
       ELSE creating' = TRUE /\ creator' = t
    /\ opened' = opened \union {NewHandle}
    /\ fh_id' = [fh_id EXCEPT !["FUFH_RDWR"] = NewHandle]
    /\ open_count' = [open_count EXCEPT !["FUFH_RDWR"] = 1]
    /\ lost' = IF FUFH_IS_VALID("FUFH_RDWR")
               THEN lost \union {fh_id["FUFH_RDWR"]} ELSE lost
    /\ restashed' = (restashed \/ present)
    /\ pc' = [pc EXCEPT ![t] = "created"]
    /\ UNCHANGED <<vtype, creates, aux_count, lockVars, type, fd, used, map,
                   nmaps, dirty, dead, panic>>

\* The daemon has no CREATE: MKNOD, and nothing to stash; or CREATE fails, or
\* there is no vnode for the new file (its handle is released at once).
CreateOtherwise(t) ==
    /\ pc[t] = "create" /\ BigLockFree
    /\ \/ /\ ~dead
          /\ exists' = TRUE /\ present' = TRUE
          /\ pc' = [pc EXCEPT ![t] = "created"]
       \/ pc' = [pc EXCEPT ![t] = "user"] /\ UNCHANGED <<exists, present>>
    /\ UNCHANGED <<vtype, createVars, slotVars, lockVars, type, fd, used, map,
                   nmaps, dirty, opened, dead, panic>>

\* Mutant: the two assignments the other way round.
PickUpCounts_Swapped(y) ==
    [[open_count EXCEPT ![y] = 1] EXCEPT !["FUFH_RDWR"] = 0]

\* "Note that fufh_rw can be the same as fufh!  Order is key."
PickUpCounts(y) ==
    [[open_count EXCEPT !["FUFH_RDWR"] = 0] EXCEPT ![y] = 1]

\* fuse_vnop_open by the creator: it moves the stashed handle to the slot it
\* wants and wakes the contenders.
CreatorOpens(t, y) ==
    /\ creator = t /\ creating
    /\ fh_id' = [fh_id EXCEPT ![y] = fh_id["FUFH_RDWR"]]
    /\ open_count' = PickUpCounts(y)
    /\ creating' = FALSE
    /\ pc' = [u \in Threads |-> IF u = t THEN "user"
                                ELSE IF pc[u] = "contender" THEN "awake"
                                ELSE pc[u]]
    /\ fd' = [fd EXCEPT ![t] = y] /\ used' = TRUE
    /\ UNCHANGED <<creator, creates, lost, restashed, aux_count, type,
                   lockVars, opened, panic>>

\* Mutant: the locks are given up for the sleep.
ContenderKeeps_Not(t) == UNCHANGED lockVars

\* msleep gives up createlock only.
ContenderKeeps(t) == nodelock' = t /\ biglock' = t

\* fuse_vnop_open by somebody else while the file is being created: sleeps.
ContenderSleeps(t, y) ==
    /\ creator # t /\ creating
    /\ pc' = [pc EXCEPT ![t] = "contender"]
    /\ type' = [type EXCEPT ![t] = y]
    /\ ContenderKeeps(t)
    /\ UNCHANGED <<createVars, slotVars, fd, used, opened, panic>>

\* fuse_vnop_open otherwise: one more use of the slot, or a new handle.
OpenSlot(t, y) ==
    /\ IF FUFH_IS_VALID(y) THEN UseInc(y) ELSE GetSucceeds(y, 0, "get")
    /\ fd' = [fd EXCEPT ![t] = y] /\ used' = TRUE
    /\ Returns(t)

\* The wait was interrupted, or OPEN failed.
OpenFails(t) ==
    /\ Returns(t)
    /\ UNCHANGED <<slotVars, fd, used, opened, panic>>

\* open(2): of a file that exists, or after create.  The lookup before it
\* makes the vnode, if there is none.
fuse_vnop_open(t) ==
    /\ pc[t] \in {"user", "created"} /\ fd[t] = None /\ exists /\ ~dead
    /\ LocksFree
    /\ present' = TRUE
    /\ \E y \in IF vtype = "VDIR" THEN {"FUFH_RDONLY"} ELSE Types :
          \/ CreatorOpens(t, y)
          \/ ContenderSleeps(t, y)
          \/ /\ ~creating /\ OpenSlot(t, y)
             /\ KeepLocks /\ UNCHANGED createVars
          \/ /\ ~creating /\ ~FUFH_IS_VALID(y) /\ OpenFails(t)
             /\ KeepLocks /\ UNCHANGED createVars
    /\ UNCHANGED <<vtype, exists, map, nmaps, dirty, dead>>

\* A contender awake again, or interrupted (PCATCH); the locks go at the end.
ContenderGoesOn(t) ==
    /\ Running
    /\ \/ pc[t] = "awake" /\ (OpenSlot(t, type[t]) \/ OpenFails(t))
       \/ pc[t] = "contender" /\ OpenFails(t)
    /\ nodelock' = None /\ biglock' = None
    /\ UNCHANGED <<nodeVars, createVars, map, nmaps, dirty, dead>>

\* The session has died after create: open returns ENXIO.
CreatorLeaves(t) ==
    /\ pc[t] = "created" /\ dead /\ Running
    /\ pc' = [pc EXCEPT ![t] = "user"]
    /\ UNCHANGED <<nodeVars, createVars, slotVars, lockVars, type, fd, used,
                   map, nmaps, dirty, opened, dead, panic>>

-----------------------------------------------------------------------------
\* Mutant: the handle is released by every close.
LastUse_Always(y) == TRUE

\* The use that is given up was the last one.
LastUse(y) == open_count[y] = 1

\* fuse_vnop_close: FLUSH, one use less, RELEASE with the last.
fuse_vnop_close(t) ==
    /\ pc[t] = "user" /\ fd[t] # None
    /\ LocksFree
    /\ IF dead \/ ~FUFH_IS_VALID(fd[t])
       THEN UNCHANGED <<slotVars, opened, panic>>
       ELSE /\ PutAll(IF LastUse(fd[t]) THEN {fd[t]} ELSE {},
                      [open_count EXCEPT ![fd[t]] = @ - 1])
            /\ UNCHANGED <<fh_id, aux_count>>
    /\ fd' = [fd EXCEPT ![t] = None]
    /\ UNCHANGED <<used, nodeVars, createVars, lockVars, pc, type, map, nmaps,
                   dirty, dead>>

\* The mappings a descriptor allows, and the slots fuse_filehandle_xlate_from_
\* mmap chooses for them.
MapChoices(t) ==
    (IF fd[t] \in {"FUFH_RDONLY", "FUFH_RDWR"}
     THEN {<<"readonly", "FUFH_RDONLY">>} ELSE {})
    \union (IF fd[t] = "FUFH_RDWR"
            THEN {<<"shared", "FUFH_RDWR">>, <<"shared", "FUFH_WRONLY">>}
            ELSE {})
    \union (IF PrivateMaps /\ fd[t] = "FUFH_RDONLY"
            THEN {<<"private", "FUFH_RDWR">>} ELSE {})

\* Mutant: the mapping is not counted.
MapUse_Uncounted(y) == UNCHANGED <<slotVars, opened, panic>>

\* mmap of a slot in use counts one use more.
MapUse(y) == UseInc(y)

\* fuse_vnop_mmap after the death of the daemon.
MmapOnDead(t) ==
    /\ pc[t] = "user" /\ map[t] = None /\ vtype = "VREG" /\ dead
    /\ MapChoices(t) # {} /\ LocksFree
    /\ panic' = "mmap_dead"
    /\ UNCHANGED <<nodeVars, createVars, slotVars, lockVars, procVars, nmaps,
                   dirty, opened, dead>>

\* fuse_vnop_mmap: a use of the slot, if it is valid; else the big lock is
\* given up to ask for the authorization.
fuse_vnop_mmap(t) ==
    /\ pc[t] = "user" /\ map[t] = None /\ vtype = "VREG" /\ ~dead
    /\ LocksFree
    /\ \E c \in MapChoices(t) :
          /\ nmaps[c[2]] < MaxUses
          /\ map' = [map EXCEPT ![t] = c[1]]
          /\ IF FUFH_IS_VALID(c[2])
             THEN /\ MapUse(c[2])
                  /\ nmaps' = [nmaps EXCEPT ![c[2]] = @ + 1]
                  /\ UNCHANGED <<pc, type, nodelock>>
             ELSE /\ pc' = [pc EXCEPT ![t] = "preflight"]
                  /\ type' = [type EXCEPT ![t] = c[2]]
                  /\ nodelock' = t
                  /\ UNCHANGED <<slotVars, opened, nmaps, panic>>
    /\ UNCHANGED <<nodeVars, createVars, biglock, fd, used, dirty, dead>>

\* fuse_vnop_mmap goes on with the big lock: the handle is got, or refused, or
\* refused for writing (EACCES) and tried again for reading.
MmapGets(t) ==
    /\ pc[t] = "preflight" /\ BigLockFree
    /\ \/ /\ GetSucceeds(type[t], 0, "mmap_raced")
          /\ nmaps' = [nmaps EXCEPT ![type[t]] = @ + 1]
          /\ UNCHANGED map
       \/ /\ map' = [map EXCEPT ![t] = None]
          /\ UNCHANGED <<slotVars, opened, nmaps, panic>>
       \/ /\ type[t] # "FUFH_RDONLY" /\ FUFH_IS_VALID("FUFH_RDONLY")
          /\ MapUse("FUFH_RDONLY")
          /\ nmaps' = [nmaps EXCEPT !["FUFH_RDONLY"] = @ + 1]
          /\ UNCHANGED map
    /\ nodelock' = None
    /\ Returns(t)
    /\ UNCHANGED <<nodeVars, createVars, biglock, fd, used, dirty, dead>>

\* ... or tried again, with a new authorization, where reading has no handle.
MmapRetries(t) ==
    /\ pc[t] = "preflight" /\ BigLockFree
    /\ type[t] # "FUFH_RDONLY" /\ ~FUFH_IS_VALID("FUFH_RDONLY")
    /\ type' = [type EXCEPT ![t] = "FUFH_RDONLY"]
    /\ UNCHANGED <<nodeVars, createVars, slotVars, lockVars, pc, fd, used, map,
                   nmaps, dirty, opened, dead, panic>>

\* munmap: fuse_vnop_mnomap leaves the handles to inactive.
fuse_vnop_mnomap(t) ==
    /\ pc[t] = "user" /\ map[t] # None
    /\ LocksFree
    /\ map' = [map EXCEPT ![t] = None]
    /\ UNCHANGED <<nodeVars, createVars, slotVars, lockVars, pc, type, fd,
                   used, nmaps, dirty, opened, dead, panic>>

\* A store into a shared mapping.
Store(t) ==
    /\ pc[t] = "user" /\ map[t] = "shared" /\ Running
    /\ dirty' = TRUE
    /\ UNCHANGED <<nodeVars, createVars, slotVars, lockVars, procVars, nmaps,
                   opened, dead, panic>>

\* fuse_vnop_write: the big lock is given up for the cluster layer ...
fuse_vnop_write(t) ==
    /\ pc[t] = "user" /\ fd[t] \in {"FUFH_WRONLY", "FUFH_RDWR"} /\ ~dead
    /\ LocksFree
    /\ pc' = [pc EXCEPT ![t] = "write"]
    /\ nodelock' = t
    /\ dirty' = TRUE
    /\ UNCHANGED <<nodeVars, createVars, slotVars, biglock, type, fd, used,
                   map, nmaps, opened, dead, panic>>

\* ... which has written the pages by then, or (nosyncwrites) will do it later.
WriteEnds(t) ==
    /\ pc[t] = "write" /\ BigLockFree
    /\ pc' = [pc EXCEPT ![t] = "user"]
    /\ nodelock' = None
    /\ UNCHANGED <<nodeVars, createVars, slotVars, biglock, type, fd, used,
                   map, nmaps, dirty, opened, dead, panic>>

\* fuse_vnop_readdir: a directory that is not open is opened for it alone.
fuse_vnop_readdir(t) ==
    /\ pc[t] = "user" /\ vtype = "VDIR" /\ present /\ ~dead
    /\ LocksFree /\ ~FUFH_IS_VALID("FUFH_RDONLY")
    /\ HasHandle
    /\ fh_id' = [fh_id EXCEPT !["FUFH_RDONLY"] = NewHandle]
    /\ aux_count' = [aux_count EXCEPT !["FUFH_RDONLY"] = 0]
    /\ UNCHANGED <<nodeVars, createVars, open_count, lockVars, procVars, nmaps,
                   dirty, opened, dead, panic>>

-----------------------------------------------------------------------------
\* fuse_internal_strategy: pages in and out, on behalf of anybody, under the
\* big lock only.  It uses the slot that fits, or FUFH_RDWR, or else gets a
\* handle of its own, which stays (aux_count) until inactive or reclaim.  It
\* would sleep while the file is being created, which has no pages then
\* (CountsAddUp).
Strategy(fits, gets) ==
    /\ present /\ vtype = "VREG" /\ ~creating /\ BigLockFree
    /\ IF FUFH_IS_VALID(fits) \/ FUFH_IS_VALID("FUFH_RDWR")
       THEN UNCHANGED <<slotVars, opened, panic>>
       ELSE \/ GetSucceeds(gets, 1, "get")
            \/ UNCHANGED <<slotVars, opened, panic>>
    /\ UNCHANGED <<nodeVars, createVars, lockVars, procVars, nmaps, dead>>

\* Pages of a file somebody has open (a partial write reads, too) or mapped.
PageIn ==
    /\ \E t \in Threads : fd[t] # None \/ (map[t] # None /\ pc[t] = "user")
    /\ Strategy("FUFH_RDONLY", "FUFH_RDONLY")
    /\ UNCHANGED dirty

\* The kernel cleans pages whenever it likes; a failure loses them.
PageOut ==
    /\ dirty /\ dirty' = FALSE
    /\ Strategy("FUFH_WRONLY", "FUFH_RDWR")

\* Mutant: only the handles for reading are put.
InactivePuts_Some == {y \in Types : FUFH_IS_VALID(y) /\ y = "FUFH_RDONLY"}

\* The slots that inactive and reclaim reset and put.
InactivePuts == {y \in Types : FUFH_IS_VALID(y)}

\* fuse_vnop_inactive, when the last user has gone.
fuse_vnop_inactive ==
    /\ used /\ Unused /\ LocksFree
    /\ used' = FALSE
    /\ PutAll(InactivePuts, [y \in Types |-> IF y \in InactivePuts THEN 0
                                             ELSE open_count[y]])
    /\ nmaps' = NoUses
    /\ UNCHANGED <<nodeVars, createVars, fh_id, aux_count, lockVars, pc, type,
                   fd, map, dirty, dead>>

\* fuse_vnop_reclaim, when the kernel wants the vnode, whose pages it has
\* written first.  The next vnode of the file begins with empty slots.
fuse_vnop_reclaim ==
    /\ present /\ ~used /\ Unused /\ ~dirty /\ BigLockFree
    /\ PutAll(InactivePuts, NoUses)
    /\ present' = FALSE /\ creating' = FALSE /\ creator' = None
    /\ fh_id' = NoUses /\ aux_count' = NoUses /\ nmaps' = NoUses
    /\ UNCHANGED <<vtype, exists, creates, lost, restashed, lockVars, procVars,
                   dirty, dead>>

\* The daemon dies.
Die ==
    /\ ~dead /\ dead' = TRUE /\ Running
    /\ UNCHANGED <<nodeVars, createVars, slotVars, lockVars, procVars, nmaps,
                   dirty, opened, panic>>

-----------------------------------------------------------------------------
Step(t) ==
    \/ fuse_vnop_create(t) \/ CreateOtherwise(t) \/ CreatorLeaves(t)
    \/ ContenderGoesOn(t) \/ MmapGets(t) \/ MmapRetries(t) \/ WriteEnds(t)

Next ==
    \/ \E t \in Threads :
          \/ LookupMisses(t) \/ fuse_vnop_open(t) \/ fuse_vnop_close(t)
          \/ fuse_vnop_mmap(t) \/ MmapOnDead(t) \/ fuse_vnop_mnomap(t)
          \/ Store(t) \/ fuse_vnop_write(t) \/ fuse_vnop_readdir(t)
          \/ Step(t)
    \/ PageIn \/ PageOut \/ fuse_vnop_inactive
    \/ fuse_vnop_reclaim \/ Die

Spec == Init /\ [][Next]_vars

\* A thread inside an operation goes on; nobody counts on a signal to wake a
\* sleeper.  After create a process goes on to open.  The kernel calls inactive
\* for a vnode nobody uses.
Fairness ==
    /\ \A t \in Threads :
          /\ WF_vars(pc[t] # "contender" /\ Step(t))
          /\ WF_vars(pc[t] = "created" /\ fuse_vnop_open(t))
    /\ WF_vars(fuse_vnop_inactive)

FairSpec == Spec /\ Fairness

-----------------------------------------------------------------------------
Valid == {y \in Types : FUFH_IS_VALID(y)}
Users(y) == Cardinality({t \in Threads : fd[t] = y})

TypeOK ==
    /\ vtype \in {"VREG", "VDIR"}
    /\ exists \in BOOLEAN /\ present \in BOOLEAN /\ creating \in BOOLEAN
    /\ creator \in Threads \union {None}
    /\ creates \in 0..MaxCreates
    /\ lost \subseteq opened /\ opened \subseteq 1..MaxHandles
    /\ restashed \in BOOLEAN
    /\ fh_id \in [Types -> 0..MaxHandles]
    /\ open_count \in [Types -> 0..MaxUses]
    /\ aux_count \in [Types -> 0..1]
    /\ nodelock \in Threads \union {None} /\ biglock \in Threads \union {None}
    /\ pc \in [Threads -> {"user", "create", "created", "contender", "awake",
                           "preflight", "write"}]
    /\ type \in [Threads -> Types]
    /\ fd \in [Threads -> Types \union {None}]
    /\ used \in BOOLEAN
    /\ map \in [Threads -> {"shared", "readonly", "private", None}]
    /\ nmaps \in [Types -> 0..MaxUses]
    /\ dirty \in BOOLEAN /\ dead \in BOOLEAN
    /\ panic \in {"no", "get", "put", "mmap_raced", "mmap_dead"}

\* The assertions of fuse_filehandle_get ("called despite valid fufh") and
\* fuse_filehandle_put ("called on a valid fufh") hold for every caller that has
\* tested the slot under the lock it still holds.  Of mmap this cannot be said:
\* it gives the big lock up between its test and its call, and a page-out may
\* fill the slot in between; nor of its own assertion that the file system is
\* alive.
NoPanic == panic \in {"no", "mmap_raced", "mmap_dead"}

\* The handles the daemon has open are exactly those in the valid slots, each in
\* one slot: none is leaked when the last close, inactive or reclaim comes, and
\* none is used after its RELEASE.  The exception are handles that a second
\* create of the same file has overwritten: nobody can release them.
HandlesMatch ==
    ~dead => /\ opened = {fh_id[y] : y \in Valid} \union lost
             /\ \A y, z \in Valid : fh_id[y] = fh_id[z] => y = z

\* A slot is counted once for each descriptor opened so and each mapping made,
\* once for the page traffic if that opened it, and once for the handle stashed
\* by create: so no close finds an invalid slot and no close of one process
\* takes the handle from another.  Until the creator has opened a new file
\* nobody else has it open, mapped, or dirty.
CountsAddUp ==
    Running /\ ~dead /\ ~restashed =>
        /\ \A y \in Types :
              IF FUFH_IS_VALID(y)
              THEN open_count[y] = Users(y) + nmaps[y] + aux_count[y]
                       + (IF creating /\ y = "FUFH_RDWR" THEN 1 ELSE 0)
              ELSE Users(y) = 0 /\ nmaps[y] = 0
        /\ creating => /\ \A t \in Threads : fd[t] = None /\ map[t] = None
                       /\ ~dirty /\ Valid \subseteq {"FUFH_RDWR"}

\* Once nobody has the file open or mapped, the daemon gets all its handles
\* back, or somebody uses the file again.  Mappings are not counted down by
\* mnomap, nor the page traffic's use by anybody: inactive has to do it.
HandlesComeBack ==
    (used /\ Unused) ~> (opened \subseteq lost \/ ~Unused \/ dead \/ ~Running)

\* A contender goes to sleep holding both locks, which the creator needs to
\* open the file and wake it: it never gets the file, and leaves only when a
\* signal interrupts it ("Contender is awake now" is reached with an error).
ContenderIsStuck ==
    [][\A t \in Threads : pc[t] = "contender" =>
          /\ creating'
          /\ pc'[t] # "contender" => fd'[t] = None]_vars
=============================================================================
