----------------------------- MODULE FuseDevice -----------------------------
(***************************************************************************)
(* One slot of fuse_device_table, /dev/fuseN, through its life: opened and *)
(* closed by daemons, mounted and unmounted, killed by the sysctl, torn    *)
(* down with the kernel extension (src/core/10.5/fusefs: fuse_device.c,    *)
(* fuse_vfsop_mount and fuse_vfsop_unmount in fuse_vfsops.c, fusefs_stop   *)
(* in fuse_main.c).                                                        *)
(*                                                                         *)
(* What is at stake is struct fuse_data, the session: open allocates it;   *)
(* close frees it unless a volume still uses it; then the unmount, or the  *)
(* failing mount, has to.  The slot's mutex (fdev->mtx) and the global one *)
(* (fuse_device_mutex) order these steps.  An action is one critical       *)
(* section, or one access without a lock.  The traffic of the session is   *)
(* in FuseIpc.                                                             *)
(***************************************************************************)
EXTENDS Integers, FiniteSets

CONSTANTS
    Daemons,     \* user processes that open the device
    Mounters,    \* volumes: the threads that mount and later unmount each
    Sessions,    \* bound: the fuse_data structures that can ever be allocated
    None,        \* a null pointer; no thread; no random number
    MayUnload,   \* the kernel extension may be asked to unload
    MaxOpens,    \* bound: calls of fuse_device_open
    MaxMounts    \* bound: calls of fuse_vfsop_mount

ASSUME DeviceAssumption ==
    /\ None \notin Sessions /\ None \notin Daemons /\ None \notin Mounters
    /\ Daemons \intersect Mounters = {}
    /\ MayUnload \in BOOLEAN
    /\ MaxOpens \in Nat /\ MaxMounts \in Nat

VARIABLES
    \* struct fuse_device.  random() numbers do not repeat: the session's name
    \* stands for the number drawn when it was opened.
    usecount, random, fdev_data,
    llock,              \* who holds fdev->mtx from one step to the next
    glock,              \* who holds fuse_device_mutex from one step to the next
    mtx,                \* fdev->mtx: "live" or "freed"
    available,          \* fuse_interface_available
    fuse_mount_count,
    \* struct fuse_data
    life,               \* "unborn", "live" or "destroyed"
    opened,             \* the sessions with FSESS_OPENED
    mount_state,        \* "FM_NOTMOUNTED" or "FM_MOUNTED"
    dead,               \* the sessions with FSESS_DEAD
    \* threads
    dpc, ddata,         \* a daemon in open or close; its local data
    mpc, mdata,         \* a volume; the session it is attached to
    mrandom,            \* the random number in its mount arguments
    mounted,            \* the volumes whose mount has set its local mounted
    upc,                \* fusefs_stop
    panic, opens, mounts

slot     == <<usecount, random, fdev_data>>
locks    == <<llock, glock, mtx, available>>
session  == <<life, opened, mount_state, dead>>
daemons  == <<dpc, ddata>>
volumes  == <<mpc, mdata, mrandom, mounted>>
bounds   == <<opens, mounts>>
vars == <<slot, locks, fuse_mount_count, session, daemons, volumes, upc, panic,
          bounds>>

DaemonPCs == {"out", "o_global", "o_local", "o_install", "o_busy", "open",
              "c_dead", "c_local", "c_global"}
MounterPCs == {"idle", "m_lock", "m_init", "m_out", "mounted", "u_flushed",
               "u_lock", "unlock"}

\* Everything is as fuse_devices_start leaves it.
Init ==
    /\ usecount = 0 /\ random = None /\ fdev_data = None
    /\ llock = None /\ glock = None /\ mtx = "live" /\ available = TRUE
    /\ fuse_mount_count = 0
    /\ life = [x \in Sessions |-> "unborn"]
    /\ opened = {} /\ dead = {}
    /\ mount_state = [x \in Sessions |-> "FM_NOTMOUNTED"]
    /\ dpc = [p \in Daemons |-> "out"]
    /\ ddata = [p \in Daemons |-> None]
    /\ mpc = [m \in Mounters |-> "idle"]
    /\ mdata = [m \in Mounters |-> None]
    /\ mrandom = [m \in Mounters |-> None]
    /\ mounted = {}
    /\ upc = "loaded" /\ panic = "none" /\ opens = 0 /\ mounts = 0

-----------------------------------------------------------------------------
(***************************************************************************)
(* Locks and sessions.                                                     *)
(***************************************************************************)
\* Taking, or giving back, fdev->mtx.
UseLocalMutex ==
    panic' = IF mtx = "live" THEN panic ELSE "freed_mutex"

DGoto(p, l) == dpc' = [dpc EXCEPT ![p] = l]
MGoto(m, l) == mpc' = [mpc EXCEPT ![m] = l]

\* fdata_destroy of what the slot points to, and the slot is empty again.
EmptySlot ==
    /\ life' = [life EXCEPT ![fdev_data] = "destroyed"]
    /\ fdev_data' = None
    /\ random' = None

\* fuse_device_close_final, if the daemon has left.
fuse_device_close_final(x) ==
    IF x \in opened THEN UNCHANGED <<life, fdev_data, random>> ELSE EmptySlot

-----------------------------------------------------------------------------
(***************************************************************************)
(* fuse_device_open.                                                       *)
(***************************************************************************)
\* fuse_interface_available is read without a lock.
fuse_device_open(p) ==
    /\ dpc[p] = "out" /\ opens < MaxOpens
    /\ upc # "unloaded"
    /\ opens' = opens + 1
    /\ IF available THEN DGoto(p, "o_global") ELSE UNCHANGED dpc
    /\ UNCHANGED <<slot, locks, fuse_mount_count, session, ddata, volumes, upc,
                   panic, mounts>>

\* Mutant: the slot may be opened again while it is open.
InUse_Never == FALSE

InUse == usecount # 0

\* EBUSY when the slot is in use; otherwise the global lock is kept while
\* waiting for the slot's.
OpenCounts(p) ==
    /\ dpc[p] = "o_global" /\ glock = None
    /\ IF InUse
       THEN DGoto(p, "out") /\ UNCHANGED <<usecount, glock>>
       ELSE usecount' = usecount + 1 /\ glock' = p /\ DGoto(p, "o_local")
    /\ UNCHANGED <<random, fdev_data, llock, mtx, available,
                   fuse_mount_count, session, ddata, volumes, upc, panic, bounds>>

\* fdata_alloc, under the slot's lock.
OpenAllocates(p) ==
    LET x == CHOOSE y \in Sessions : life[y] = "unborn" IN
    /\ dpc[p] = "o_local" /\ llock = None
    /\ \E y \in Sessions : life[y] = "unborn"
    /\ UseLocalMutex
    /\ llock' = p /\ glock' = None
    /\ life' = [life EXCEPT ![x] = "live"]
    /\ ddata' = [ddata EXCEPT ![p] = x]
    /\ DGoto(p, "o_install")
    /\ UNCHANGED <<slot, mtx, available, fuse_mount_count, opened,
                   mount_state, dead, volumes, upc, bounds>>

\* Mutant: a lingering session is overwritten.
SlotTaken_Ignored == FALSE

SlotTaken == fdev_data # None

OpenInstalls(p) ==
    LET x == ddata[p] IN
    /\ dpc[p] = "o_install"
    /\ IF SlotTaken
       THEN /\ DGoto(p, "o_busy")
            /\ UNCHANGED <<fdev_data, random, opened, llock, panic>>
       ELSE /\ opened' = opened \union {x}
            /\ fdev_data' = x
            /\ random' = x
            /\ UseLocalMutex
            /\ llock' = None
            /\ DGoto(p, "open")
    /\ UNCHANGED <<usecount, glock, mtx, available, fuse_mount_count, life,
                   mount_state, dead, ddata, volumes, upc, bounds>>

\* A lingering mount has the slot: EBUSY.  The global lock is taken inside the
\* slot's lock here.
OpenBacksOut(p) ==
    /\ dpc[p] = "o_busy" /\ glock = None
    /\ usecount' = usecount - 1
    /\ UseLocalMutex
    /\ llock' = None
    /\ life' = [life EXCEPT ![ddata[p]] = "destroyed"]
    /\ ddata' = [ddata EXCEPT ![p] = None]
    /\ DGoto(p, "out")
    /\ UNCHANGED <<random, fdev_data, glock, mtx, available,
                   fuse_mount_count, opened, mount_state, dead, volumes, upc,
                   bounds>>

-----------------------------------------------------------------------------
(***************************************************************************)
(* fuse_device_close, and the ioctl of a daemon that has the device open.  *)
(***************************************************************************)
\* fdev->data is read without a lock.
fuse_device_close(p) ==
    /\ dpc[p] = "open"
    /\ IF fdev_data = None
       THEN panic' = "no_private_data" /\ UNCHANGED daemons
       ELSE /\ ddata' = [ddata EXCEPT ![p] = fdev_data]
            /\ DGoto(p, "c_dead")
            /\ UNCHANGED panic
    /\ UNCHANGED <<slot, locks, fuse_mount_count, session, volumes, upc, bounds>>

CloseSetsDead(p) ==
    /\ dpc[p] = "c_dead"
    /\ dead' = dead \union {ddata[p]}
    /\ DGoto(p, "c_local")
    /\ UNCHANGED <<slot, locks, fuse_mount_count, life, opened, mount_state,
                   ddata, volumes, upc, panic, bounds>>

\* Mutant: the session is freed although a volume still uses it.
CloseKeeps_Never(x) == FALSE

CloseKeeps(x) == mount_state[x] = "FM_MOUNTED"

\* "Left mpdata for unmount to destroy", or destroyed here.
CloseLocked(p) ==
    LET x == ddata[p] IN
    /\ dpc[p] = "c_local" /\ llock = None
    /\ UseLocalMutex
    /\ opened' = opened \ {x}
    /\ IF CloseKeeps(x) THEN UNCHANGED <<life, fdev_data, random>> ELSE EmptySlot
    /\ ddata' = [ddata EXCEPT ![p] = None]
    /\ DGoto(p, "c_global")
    /\ UNCHANGED <<usecount, locks, fuse_mount_count, mount_state, dead, volumes,
                   upc, bounds>>

CloseUncounts(p) ==
    /\ dpc[p] = "c_global" /\ glock = None
    /\ usecount' = usecount - 1
    /\ DGoto(p, "out")
    /\ UNCHANGED <<random, fdev_data, locks, fuse_mount_count, session, ddata,
                   volumes, upc, panic, bounds>>

\* FUSEDEVIOCSETDAEMONDEAD; the other commands leave this state alone.
fuse_device_ioctl(p) ==
    /\ dpc[p] = "open" /\ llock = None
    /\ UseLocalMutex
    /\ dead' = IF fdev_data = None THEN dead ELSE dead \union {fdev_data}
    /\ UNCHANGED <<slot, locks, fuse_mount_count, life, opened, mount_state,
                   daemons, volumes, upc, bounds>>

\* The macfuse.control.kill sysctl, there until fuse_sysctl_stop.
fuse_device_kill ==
    /\ upc # "unloaded" /\ llock = None
    /\ UseLocalMutex
    /\ dead' = IF fdev_data = None THEN dead ELSE dead \union {fdev_data}
    /\ UNCHANGED <<slot, locks, fuse_mount_count, life, opened, mount_state,
                   daemons, volumes, upc, bounds>>

-----------------------------------------------------------------------------
(***************************************************************************)
(* fuse_vfsop_mount.                                                       *)
(***************************************************************************)
\* A mount begins.  Its arguments carry the random number that its daemon has
\* got from FUSEDEVIOCGETRANDOM; the daemon may have closed the device since.
fuse_vfsop_mount(m) ==
    /\ mpc[m] = "idle" /\ mounts < MaxMounts
    /\ upc # "unloaded"
    /\ mounts' = mounts + 1
    /\ \E x \in Sessions :
          life[x] # "unborn" /\ mrandom' = [mrandom EXCEPT ![m] = x]
    /\ mounted' = mounted \ {m}
    /\ MGoto(m, "m_lock")
    /\ UNCHANGED <<slot, locks, fuse_mount_count, session, daemons, mdata, upc,
                   panic, opens>>

\* Mutant: the random number is not compared.
RandomMatches_Any(m) == TRUE

RandomMatches(m) == mrandom[m] = random

MayAttach(m) ==
    /\ RandomMatches(m) /\ fdev_data # None
    /\ mount_state[fdev_data] = "FM_NOTMOUNTED"

\* The locked part, refused: EINVAL, ENXIO, EALREADY.
MountRefused(m) ==
    /\ mpc[m] = "m_lock" /\ llock = None
    /\ ~MayAttach(m)
    /\ UseLocalMutex
    /\ MGoto(m, "idle")
    /\ UNCHANGED <<slot, locks, fuse_mount_count, session, daemons, mdata,
                   mrandom, mounted, upc, bounds>>

\* The locked part, up to the handshake.  ENXIO, ENOTCONN and EPERM leave by
\* the error path with the slot unlocked.
MountAttaches(m) ==
    LET x == fdev_data IN
    /\ mpc[m] = "m_lock" /\ llock = None
    /\ MayAttach(m)
    /\ UseLocalMutex
    /\ IF x \notin opened
       THEN /\ MGoto(m, "m_out")
            /\ UNCHANGED <<mount_state, fuse_mount_count, mounted>>
       ELSE /\ mount_state' = [mount_state EXCEPT ![x] = "FM_MOUNTED"]
            /\ fuse_mount_count' = fuse_mount_count + 1
            /\ mounted' = mounted \union {m}
            /\ IF x \in dead THEN MGoto(m, "m_out")
               ELSE \E l \in {"m_init", "m_out"} : MGoto(m, l)
    /\ mdata' = [mdata EXCEPT ![m] = x]
    /\ UNCHANGED <<slot, locks, life, opened, dead, daemons, mrandom, upc, bounds>>

\* The handshake with the daemon, the first getattr and the root vnode.
MountFinishes(m) ==
    /\ mpc[m] = "m_init"
    /\ \E l \in {"mounted", "m_out"} : MGoto(m, l)
    /\ UNCHANGED <<slot, locks, fuse_mount_count, session, daemons, mdata,
                   mrandom, mounted, upc, panic, bounds>>

\* Mutant: the failing mount leaves an abandoned session in the slot.
MountFrees_Never(x) == UNCHANGED <<life, fdev_data, random>>

MountFrees(x) == fuse_device_close_final(x)

\* The error path, with the session the slot has by then.
MountFails(m) ==
    LET x == fdev_data IN
    /\ mpc[m] = "m_out" /\ llock = None
    /\ UseLocalMutex
    /\ llock' = m
    /\ fuse_mount_count' = fuse_mount_count - (IF m \in mounted THEN 1 ELSE 0)
    /\ IF x = None
       THEN UNCHANGED <<mount_state, life, fdev_data, random>>
       ELSE /\ mount_state' = [mount_state EXCEPT ![x] = "FM_NOTMOUNTED"]
            /\ MountFrees(x)
    /\ mdata' = [mdata EXCEPT ![m] = None]
    /\ MGoto(m, "unlock")
    /\ UNCHANGED <<usecount, glock, mtx, available, opened, dead, daemons,
                   mrandom, mounted, upc, bounds>>

Unlock(m) ==
    /\ mpc[m] = "unlock"
    /\ UseLocalMutex
    /\ llock' = None
    /\ MGoto(m, "idle")
    /\ UNCHANGED <<slot, glock, mtx, available, fuse_mount_count, session,
                   daemons, mdata, mrandom, mounted, upc, bounds>>

-----------------------------------------------------------------------------
(***************************************************************************)
(* fuse_vfsop_unmount.  Its branch for a session that is not yet INITED is *)
(* not reachable: a mount that returns success has set FSESS_INITED.       *)
(***************************************************************************)
\* vflush succeeds (or the attempt fails, EBUSY, and nothing has changed).
fuse_vfsop_unmount(m) ==
    /\ mpc[m] = "mounted"
    /\ MGoto(m, "u_flushed")
    /\ UNCHANGED <<slot, locks, fuse_mount_count, session, daemons, mdata,
                   mrandom, mounted, upc, panic, bounds>>

\* FUSE_DESTROY, unless the session is dead; dead it is in the end.
UnmountDestroys(m) ==
    /\ mpc[m] = "u_flushed"
    /\ dead' = dead \union {mdata[m]}
    /\ MGoto(m, "u_lock")
    /\ UNCHANGED <<slot, locks, fuse_mount_count, life, opened, mount_state,
                   daemons, mdata, mrandom, mounted, upc, panic, bounds>>

UnmountLocked(m) ==
    LET x == mdata[m] IN
    /\ mpc[m] = "u_lock" /\ llock = None
    /\ UseLocalMutex
    /\ llock' = m
    /\ mount_state' = [mount_state EXCEPT ![x] = "FM_NOTMOUNTED"]
    /\ fuse_mount_count' = fuse_mount_count - 1
    /\ fuse_device_close_final(x)
    /\ mdata' = [mdata EXCEPT ![m] = None]
    /\ MGoto(m, "unlock")
    /\ UNCHANGED <<usecount, glock, mtx, available, opened, dead, daemons,
                   mrandom, mounted, upc, bounds>>

-----------------------------------------------------------------------------
(***************************************************************************)
(* fusefs_stop: fuse_devices_stop, then the rest of the extension.         *)
(***************************************************************************)
fusefs_stop ==
    /\ MayUnload /\ upc = "loaded"
    /\ available' = FALSE
    /\ upc' = "s_global"
    /\ UNCHANGED <<slot, llock, glock, mtx, fuse_mount_count, session,
                   daemons, volumes, panic, bounds>>

\* Mutant: only the open devices are looked for.
SlotIdle_UseOnly == usecount = 0

SlotIdle == usecount = 0 /\ fdev_data = None

\* The check and the teardown, all under the global lock: "No device is in
\* use", the mutex goes, and devfs's node with it.
fuse_devices_stop ==
    /\ upc = "s_global" /\ glock = None
    /\ IF SlotIdle
       THEN upc' = "s_freed" /\ mtx' = "freed" /\ UNCHANGED available
       ELSE upc' = "loaded" /\ available' = TRUE /\ UNCHANGED mtx
    /\ UNCHANGED <<slot, llock, glock, fuse_mount_count, session, daemons,
                   volumes, panic, bounds>>

\* vfs_fsremove fails while a volume is in use; the unload may be tried again.
StopEnds ==
    /\ upc = "s_freed"
    /\ \A m \in Mounters : mpc[m] = "idle"
    /\ upc' = "unloaded"
    /\ UNCHANGED <<slot, locks, fuse_mount_count, session, daemons, volumes,
                   panic, bounds>>

-----------------------------------------------------------------------------
DaemonStep(p) ==
    \/ OpenCounts(p) \/ OpenAllocates(p) \/ OpenInstalls(p) \/ OpenBacksOut(p)
    \/ CloseSetsDead(p) \/ CloseLocked(p) \/ CloseUncounts(p)

DaemonChoice(p) ==
    fuse_device_open(p) \/ fuse_device_close(p) \/ fuse_device_ioctl(p)

VolumeStep(m) ==
    \/ MountRefused(m) \/ MountAttaches(m) \/ MountFails(m) \/ Unlock(m)
    \/ UnmountLocked(m)

\* These wait for an answer of the daemon, unless the session is dead.
VolumeWaits(m) == MountFinishes(m) \/ UnmountDestroys(m)
AnswersEnd(m) == mdata[m] # None /\ mdata[m] \in dead

Next ==
    /\ panic = "none"
    /\ \/ \E p \in Daemons : DaemonStep(p) \/ DaemonChoice(p)
       \/ \E m \in Mounters : \/ VolumeStep(m) \/ VolumeWaits(m)
                              \/ fuse_vfsop_mount(m) \/ fuse_vfsop_unmount(m)
       \/ fuse_device_kill
       \/ fusefs_stop \/ fuse_devices_stop \/ StopEnds

Spec == Init /\ [][Next]_vars

\* Threads in the kernel run, and a dead session answers no call but ends it.
\* Nothing makes a daemon close, a user unmount, or a live daemon answer.
Fairness ==
    /\ \A p \in Daemons : WF_vars(panic = "none" /\ DaemonStep(p))
    /\ \A m \in Mounters :
          /\ WF_vars(panic = "none" /\ VolumeStep(m))
          /\ WF_vars(panic = "none" /\ AnswersEnd(m) /\ VolumeWaits(m))

FairSpec == Spec /\ Fairness

-----------------------------------------------------------------------------
(***************************************************************************)
(* Properties.                                                             *)
(***************************************************************************)
\* Types.  The slot has one user at a time.
TypeOK ==
    /\ usecount \in {0, 1}
    /\ random \in Sessions \union {None} /\ fdev_data \in Sessions \union {None}
    /\ llock \in Daemons \union Mounters \union {None}
    /\ glock \in Daemons \union {None}
    /\ mtx \in {"live", "freed"} /\ available \in BOOLEAN
    /\ fuse_mount_count \in Nat
    /\ life \in [Sessions -> {"unborn", "live", "destroyed"}]
    /\ opened \subseteq Sessions /\ dead \subseteq Sessions
    /\ mount_state \in [Sessions -> {"FM_NOTMOUNTED", "FM_MOUNTED"}]
    /\ dpc \in [Daemons -> DaemonPCs]
    /\ ddata \in [Daemons -> Sessions \union {None}]
    /\ mpc \in [Mounters -> MounterPCs]
    /\ mdata \in [Mounters -> Sessions \union {None}]
    /\ mrandom \in [Mounters -> Sessions \union {None}]
    /\ mounted \subseteq Mounters
    /\ upc \in {"loaded", "s_global", "s_freed", "unloaded"}
    /\ panic \in {"none", "freed_mutex", "no_private_data"}
    /\ opens \in 0 .. MaxOpens /\ mounts \in 0 .. MaxMounts

\* A volume between the locked parts of its mount and of its unmount.
Attached(m) == mpc[m] \in {"m_init", "m_out", "mounted", "u_flushed", "u_lock"}

\* Nobody has a pointer to a session that has been freed: not the slot, not a
\* daemon's open or close, not a mounted volume, whose unmount will find its
\* own session in the slot.
SessionIsLive ==
    /\ fdev_data # None => life[fdev_data] = "live"
    /\ \A p \in Daemons :
          /\ dpc[p] \in {"o_install", "o_busy"} => life[ddata[p]] = "live"
          /\ dpc[p] = "open" => fdev_data # None
          /\ dpc[p] \in {"c_dead", "c_local"} =>
                fdev_data = ddata[p] /\ life[ddata[p]] = "live"
    /\ \A m \in Mounters :
          Attached(m) => fdev_data = mdata[m] /\ life[mdata[m]] = "live"

\* No session is leaked: it is in the slot, with a daemon or a volume that will
\* free it, or an open that has not got the slot is about to free it.
SomebodyFrees == \A x \in Sessions : life[x] = "live" =>
    \/ /\ fdev_data = x
       /\ x \in opened \/ \E m \in Mounters : Attached(m) /\ mdata[m] = x
    \/ \E p \in Daemons : dpc[p] \in {"o_install", "o_busy"} /\ ddata[p] = x

\* A mount attaches to the session of the daemon that asked for it, even when
\* that daemon has gone and another one has the slot; no two volumes share a
\* session; and fuse_mount_count counts the volumes.
MountsOwnSession ==
    /\ \A m \in Mounters : Attached(m) => mdata[m] = mrandom[m]
    /\ \A m, n \in Mounters :
          Attached(m) /\ Attached(n) /\ mdata[m] = mdata[n] => m = n
    /\ fuse_mount_count = Cardinality({m \in Mounters : Attached(m)})

\* fuse_devices_stop does not free the mutex of a slot with a lingering mount.
TornDownEmpty == mtx = "freed" => fdev_data = None

\* The comment "No device is in use" of fuse_devices_stop: after it nobody
\* takes or gives back the mutex that is freed there.
TeardownIsFinal == panic # "freed_mutex"

\* Every open and every close comes to its end, although open takes the two
\* locks in both orders; unless the kernel has stopped at the freed mutex of
\* TeardownIsFinal.
OpenCloseReturn == \A p \in Daemons :
    dpc[p] \notin {"out", "open"} ~>
        dpc[p] \in {"out", "open"} \/ panic = "freed_mutex"

\* A session whose daemon has left is freed, unless a volume stays mounted, or
\* the kernel has stopped.
AbandonedIsFreed == \A x \in Sessions :
    (x \in dead /\ x \notin opened) ~>
        \/ life[x] = "destroyed" \/ panic = "freed_mutex"
        \/ \E m \in Mounters : mpc[m] = "mounted" /\ mdata[m] = x
=============================================================================
