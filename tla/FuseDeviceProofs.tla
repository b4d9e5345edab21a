-------------------------- MODULE FuseDeviceProofs --------------------------
(***************************************************************************)
(* Proofs about FuseDevice for any number of daemons, volumes and sessions.*)
(*                                                                         *)
(* That no freed session is in use (SessionIsLive) and that none is leaked *)
(* (SomebodyFrees) is not inductive by itself.  IInv adds who holds the    *)
(* locks, that at most one daemon is past the test of usecount, and that   *)
(* FSESS_OPENED and FM_MOUNTED are set only in the slot's own session and  *)
(* tell the truth about the daemon and the volume it serves.               *)
(***************************************************************************)
EXTENDS FuseDevice, FiniteSetTheorems, TLAPS

\* A daemon that has counted itself in and not yet out.
Inside(p) == dpc[p] \notin {"out", "o_global"}

\* An open with a session that is not in the slot.
Private(p) == dpc[p] \in {"o_install", "o_busy"}

\* The locks are held where the program counters say so.
LockInv ==
    /\ \A p \in Daemons : llock = p <=> Private(p)
    /\ \A m \in Mounters : llock = m <=> mpc[m] = "unlock"
    /\ \A p \in Daemons : glock = p <=> dpc[p] = "o_local"

\* usecount lets one daemon in.
UseInv ==
    /\ \A p, q \in Daemons : Inside(p) /\ Inside(q) => p = q
    /\ \A p \in Daemons : Inside(p) => usecount = 1

\* The slot has the random number of its session, which is live and in use.
SlotInv ==
    /\ random = fdev_data
    /\ fdev_data # None =>
          /\ life[fdev_data] = "live"
          /\ fdev_data \in opened \/ mount_state[fdev_data] = "FM_MOUNTED"

\* FSESS_OPENED is set in the slot's own session only.
OpenedInv == \A x \in opened : fdev_data = x

\* So is FM_MOUNTED, and a volume is attached then.
MountedInv == \A x \in Sessions : mount_state[x] = "FM_MOUNTED" =>
    fdev_data = x /\ \E m \in Mounters : Attached(m)

\* A live session is in the slot or in the hands of an open.
LiveInv == \A x \in Sessions : life[x] = "live" =>
    fdev_data = x \/ \E p \in Daemons : Private(p) /\ ddata[p] = x

\* A session that an open has not installed is its own; an open device has
\* its session in the slot, which close finds there.
DaemonInv == \A p \in Daemons :
    /\ Private(p) =>
          /\ ddata[p] \in Sessions /\ life[ddata[p]] = "live"
          /\ ddata[p] # fdev_data /\ mount_state[ddata[p]] = "FM_NOTMOUNTED"
    /\ dpc[p] \in {"open", "c_dead", "c_local"} => fdev_data \in opened
    /\ dpc[p] \in {"c_dead", "c_local"} => ddata[p] = fdev_data

\* A volume is attached to the session in the slot.
VolumeInv == \A m \in Mounters : Attached(m) =>
    /\ fdev_data # None
    /\ mdata[m] = fdev_data /\ mrandom[m] = fdev_data
    /\ mount_state[fdev_data] = "FM_MOUNTED"
    /\ m \in mounted

\* One volume at most is attached, and fuse_mount_count counts it.
CountInv ==
    /\ \A m, n \in Mounters : Attached(m) /\ Attached(n) => m = n
    /\ \A m \in Mounters : Attached(m) => fuse_mount_count = 1
    /\ (\A m \in Mounters : ~Attached(m)) => fuse_mount_count = 0

\* After the teardown the slot is empty and no open gets past the first test.
TearInv == mtx = "freed" =>
    /\ fdev_data = None
    /\ panic = "none" =>
          \A p \in Daemons : dpc[p] \in {"out", "o_global", "o_local"}

\* The inductive invariant.
IInv == /\ TypeOK /\ LockInv /\ UseInv /\ SlotInv /\ OpenedInv /\ MountedInv
        /\ LiveInv /\ DaemonInv /\ VolumeInv /\ CountInv /\ TearInv

\* Daemons, volumes and None are different things.
LEMMA Distinct ==
    /\ \A p \in Daemons : p # None /\ p \notin Mounters
    /\ \A m \in Mounters : m # None /\ m \notin Daemons
    /\ \A x \in Sessions : x # None
  BY DeviceAssumption

\* The state that fuse_devices_start leaves satisfies the invariant.
LEMMA InitInv == Init => IInv
<1> SUFFICES ASSUME Init PROVE IInv
  OBVIOUS
<1>1. TypeOK
  BY DeviceAssumption DEF Init, TypeOK, DaemonPCs, MounterPCs
<1>2. LockInv /\ UseInv /\ TearInv
  BY Distinct DEF Init, LockInv, UseInv, TearInv, Private, Inside
<1>3. SlotInv /\ OpenedInv /\ MountedInv /\ LiveInv
  BY Distinct DEF Init, SlotInv, OpenedInv, MountedInv, LiveInv
<1>4. DaemonInv /\ VolumeInv /\ CountInv
  BY DEF Init, DaemonInv, VolumeInv, CountInv, Private, Attached
<1>5. QED
  BY <1>1, <1>2, <1>3, <1>4 DEF IInv

\* fuse_device_open keeps the invariant.
LEMMA fuse_device_open_Inv ==
    ASSUME IInv, panic = "none", NEW p \in Daemons, fuse_device_open(p)
    PROVE  IInv'
<1>1. TypeOK'
  BY DeviceAssumption DEF IInv, TypeOK, DaemonPCs, MounterPCs,
      fuse_device_open, DGoto, slot, locks, session, volumes
<1>2. LockInv'
  BY Distinct DEF IInv, TypeOK, LockInv, Private, fuse_device_open, DGoto,
      slot, locks, session, volumes
<1>3. UseInv'
  BY Distinct DEF IInv, TypeOK, UseInv, Inside, fuse_device_open, DGoto, slot,
      locks, session, volumes
<1>4. LiveInv'
  BY Distinct DEF IInv, TypeOK, LiveInv, Private, fuse_device_open, DGoto,
      slot, locks, session, volumes
<1>5. DaemonInv'
  BY Distinct DEF IInv, TypeOK, DaemonInv, Private, fuse_device_open, DGoto,
      slot, locks, session, volumes
<1>6. TearInv'
  BY Distinct DEF IInv, TypeOK, TearInv, fuse_device_open, DGoto, slot, locks,
      session, volumes
<1>7. SlotInv' /\ OpenedInv' /\ MountedInv' /\ VolumeInv' /\ CountInv'
  BY DEF IInv, SlotInv, OpenedInv, MountedInv, VolumeInv, CountInv, Attached,
      fuse_device_open, slot, locks, session, volumes
<1>8. QED
  BY <1>1, <1>2, <1>3, <1>4, <1>5, <1>6, <1>7 DEF IInv

\* OpenCounts keeps the invariant.
LEMMA OpenCounts_Inv ==
    ASSUME IInv, panic = "none", NEW p \in Daemons, OpenCounts(p)
    PROVE  IInv'
<1>1. TypeOK'
  BY DeviceAssumption DEF IInv, TypeOK, DaemonPCs, MounterPCs, OpenCounts,
      DGoto, InUse, session, volumes, bounds
<1>2. LockInv'
  BY Distinct DEF IInv, TypeOK, LockInv, Private, OpenCounts, DGoto, InUse,
      session, volumes, bounds
<1>3. UseInv'
  BY Distinct DEF IInv, TypeOK, UseInv, Inside, OpenCounts, DGoto, InUse,
      session, volumes, bounds
<1>4. LiveInv'
  BY Distinct DEF IInv, TypeOK, LiveInv, Private, OpenCounts, DGoto, InUse,
      session, volumes, bounds
<1>5. DaemonInv'
  BY Distinct DEF IInv, TypeOK, DaemonInv, Private, OpenCounts, DGoto, InUse,
      session, volumes, bounds
<1>6. TearInv'
  BY Distinct DEF IInv, TypeOK, TearInv, OpenCounts, DGoto, InUse, session,
      volumes, bounds
<1>7. SlotInv' /\ OpenedInv' /\ MountedInv' /\ VolumeInv' /\ CountInv'
  BY DEF IInv, SlotInv, OpenedInv, MountedInv, VolumeInv, CountInv, Attached,
      OpenCounts, session, volumes, bounds
<1>8. QED
  BY <1>1, <1>2, <1>3, <1>4, <1>5, <1>6, <1>7 DEF IInv

\* OpenAllocates keeps the invariant.
LEMMA OpenAllocates_Inv ==
    ASSUME IInv, panic = "none", NEW p \in Daemons, OpenAllocates(p)
    PROVE  IInv'
<1>1. /\ dpc[p] = "o_local" /\ llock = None /\ glock = p
  BY DEF IInv, LockInv, OpenAllocates
<1>2. \A q \in Daemons : Inside(q) => q = p
  BY DEF IInv, UseInv, Inside, OpenAllocates
<1>3. PICK x \in Sessions :
         /\ life[x] = "unborn"
         /\ life' = [life EXCEPT ![x] = "live"]
         /\ ddata' = [ddata EXCEPT ![p] = x]
  BY DEF OpenAllocates
<1>4. x # fdev_data /\ mount_state[x] = "FM_NOTMOUNTED"
  BY <1>3, Distinct DEF IInv, TypeOK, SlotInv, MountedInv
<1>5. /\ llock' = p
      /\ glock' = None
      /\ life' = [life EXCEPT ![x] = "live"]
      /\ dpc' = [dpc EXCEPT ![p] = "o_install"]
      /\ ddata' = [ddata EXCEPT ![p] = x]
      /\ panic' \in {"none", "freed_mutex"}
      /\ UNCHANGED <<usecount, random, fdev_data, mtx, available, opened,
             mount_state, dead, mpc, mdata, mrandom, mounted, opens,
             mounts, fuse_mount_count, upc>>
  BY <1>1, <1>2, <1>3, <1>4 DEF OpenAllocates, DGoto, UseLocalMutex, slot,
      volumes, bounds
<1>6. TypeOK'
  BY <1>5, <1>1, <1>2, <1>3, <1>4, DeviceAssumption DEF IInv, TypeOK,
      DaemonPCs, MounterPCs
<1>7. LockInv'
  BY <1>5, <1>1, <1>2, <1>3, <1>4, Distinct DEF IInv, TypeOK, LockInv, Private
<1>8. UseInv'
  BY <1>5, <1>1, <1>2, <1>3, <1>4, Distinct DEF IInv, TypeOK, UseInv, Inside
<1>9. SlotInv'
  BY <1>5, <1>1, <1>2, <1>3, <1>4, Distinct DEF IInv, TypeOK, SlotInv
<1>10. LiveInv'
  BY <1>5, <1>1, <1>2, <1>3, <1>4, Distinct DEF IInv, TypeOK, LiveInv, Inside,
      Private
<1>11. DaemonInv'
  BY <1>5, <1>1, <1>2, <1>3, <1>4, Distinct DEF IInv, TypeOK, DaemonInv,
      Inside, OpenedInv, Private
<1>12. TearInv'
  BY <1>5, <1>1, <1>2, <1>3, <1>4, Distinct DEF IInv, TypeOK, TearInv,
      OpenAllocates, UseLocalMutex
<1>13. OpenedInv' /\ MountedInv' /\ VolumeInv' /\ CountInv'
  BY <1>5 DEF IInv, OpenedInv, MountedInv, VolumeInv, CountInv, Attached
<1>14. QED
  BY <1>6, <1>7, <1>8, <1>9, <1>10, <1>11, <1>12, <1>13 DEF IInv

\* OpenInstalls keeps the invariant.
LEMMA OpenInstalls_Inv ==
    ASSUME IInv, panic = "none", NEW p \in Daemons, OpenInstalls(p)
    PROVE  IInv'
<1>1. /\ ddata[p] \in Sessions /\ life[ddata[p]] = "live"
      /\ ddata[p] # fdev_data /\ mount_state[ddata[p]] = "FM_NOTMOUNTED"
      /\ dpc[p] = "o_install" /\ llock = p
  BY DEF IInv, DaemonInv, LockInv, Private, OpenInstalls
<1>2. \A q \in Daemons : Inside(q) => q = p
  BY DEF IInv, UseInv, Inside, OpenInstalls
<1>3. mtx = "live"
  BY <1>1 DEF IInv, TypeOK, TearInv
<1>4. CASE fdev_data # None
  <2>1. /\ dpc' = [dpc EXCEPT ![p] = "o_busy"]
        /\ UNCHANGED <<usecount, random, fdev_data, llock, glock, mtx,
               available, life, opened, mount_state, dead, ddata, mpc, mdata,
               mrandom, mounted, opens, mounts, fuse_mount_count, upc,
               panic>>
    BY <1>1, <1>2, <1>3, <1>4 DEF OpenInstalls, DGoto, UseLocalMutex,
        SlotTaken, volumes, bounds
  <2>2. TypeOK'
    BY <2>1, <1>4, <1>1, <1>2, <1>3, DeviceAssumption DEF IInv, TypeOK,
        DaemonPCs, MounterPCs
  <2>3. LockInv'
    BY <2>1, <1>4, <1>1, <1>2, <1>3, Distinct DEF IInv, TypeOK, LockInv,
        Private
  <2>4. UseInv'
    BY <2>1, <1>4, <1>1, <1>2, <1>3, Distinct DEF IInv, TypeOK, UseInv, Inside
  <2>5. LiveInv'
    BY <2>1, <1>4, <1>1, <1>2, <1>3, Distinct DEF IInv, TypeOK, LiveInv,
        Inside, Private
  <2>6. DaemonInv'
    BY <2>1, <1>4, <1>1, <1>2, <1>3, Distinct DEF IInv, TypeOK, DaemonInv,
        Inside, OpenedInv, Private
  <2>7. TearInv'
    BY <2>1, <1>4, <1>1, <1>2, <1>3, Distinct DEF IInv, TypeOK, TearInv
  <2>8. SlotInv' /\ OpenedInv' /\ MountedInv' /\ VolumeInv' /\ CountInv'
    BY <2>1 DEF IInv, SlotInv, OpenedInv, MountedInv, VolumeInv, CountInv,
        Attached
  <2>9. QED
    BY <2>2, <2>3, <2>4, <2>5, <2>6, <2>7, <2>8 DEF IInv
<1>5. CASE fdev_data = None
  <2>1. /\ random' = ddata[p]
        /\ fdev_data' = ddata[p]
        /\ llock' = None
        /\ opened' = opened \union {ddata[p]}
        /\ dpc' = [dpc EXCEPT ![p] = "open"]
        /\ UNCHANGED <<usecount, glock, mtx, available, life, mount_state,
               dead, ddata, mpc, mdata, mrandom, mounted, opens, mounts,
               fuse_mount_count, upc, panic>>
    BY <1>1, <1>2, <1>3, <1>5 DEF OpenInstalls, DGoto, UseLocalMutex,
        SlotTaken, volumes, bounds
  <2>2. TypeOK'
    BY <2>1, <1>5, <1>1, <1>2, <1>3, DeviceAssumption DEF IInv, TypeOK,
        DaemonPCs, MounterPCs
  <2>3. LockInv'
    BY <2>1, <1>5, <1>1, <1>2, <1>3, Distinct DEF IInv, TypeOK, LockInv,
        Private
  <2>4. UseInv'
    BY <2>1, <1>5, <1>1, <1>2, <1>3, Distinct DEF IInv, TypeOK, UseInv, Inside
  <2>5. SlotInv'
    BY <2>1, <1>5, <1>1, <1>2, <1>3, Distinct DEF IInv, TypeOK, SlotInv
  <2>6. OpenedInv'
    BY <2>1, <1>5, <1>1, <1>2, <1>3, Distinct DEF IInv, TypeOK, OpenedInv
  <2>7. MountedInv'
    BY <2>1, <1>5, <1>1, <1>2, <1>3, Distinct DEF IInv, TypeOK, MountedInv,
        Attached
  <2>8. LiveInv'
    BY <2>1, <1>5, <1>1, <1>2, <1>3, Distinct DEF IInv, TypeOK, LiveInv,
        Inside, Private
  <2>9. DaemonInv'
    BY <2>1, <1>5, <1>1, <1>2, <1>3, Distinct DEF IInv, TypeOK, DaemonInv,
        Inside, OpenedInv, Private
  <2>10. VolumeInv'
    BY <2>1, <1>5, <1>1, <1>2, <1>3, Distinct DEF IInv, TypeOK, VolumeInv,
        Attached
  <2>11. TearInv'
    BY <2>1, <1>5, <1>1, <1>2, <1>3, Distinct DEF IInv, TypeOK, TearInv
  <2>12. CountInv'
    BY <2>1 DEF IInv, CountInv, Attached
  <2>13. QED
    BY <2>2, <2>3, <2>4, <2>5, <2>6, <2>7, <2>8, <2>9, <2>10, <2>11, <2>12 DEF
        IInv
<1>6. QED
  BY <1>4, <1>5, <1>1

\* OpenBacksOut keeps the invariant.
LEMMA OpenBacksOut_Inv ==
    ASSUME IInv, panic = "none", NEW p \in Daemons, OpenBacksOut(p)
    PROVE  IInv'
<1>1. /\ ddata[p] \in Sessions /\ life[ddata[p]] = "live" /\ ddata[p] # fdev_data
      /\ mount_state[ddata[p]] = "FM_NOTMOUNTED" /\ dpc[p] = "o_busy" /\ llock = p
  BY DEF IInv, DaemonInv, LockInv, Private, OpenBacksOut
<1>2. \A q \in Daemons : Inside(q) => q = p
  BY DEF IInv, UseInv, Inside, OpenBacksOut
<1>3. mtx = "live" /\ usecount = 1
  BY <1>1 DEF IInv, TypeOK, TearInv, UseInv, Inside
<1>4. /\ usecount' = 0
      /\ llock' = None
      /\ life' = [life EXCEPT ![ddata[p]] = "destroyed"]
      /\ dpc' = [dpc EXCEPT ![p] = "out"]
      /\ ddata' = [ddata EXCEPT ![p] = None]
      /\ UNCHANGED <<random, fdev_data, glock, mtx, available, opened,
             mount_state, dead, mpc, mdata, mrandom, mounted, opens,
             mounts, fuse_mount_count, upc, panic>>
  BY <1>1, <1>2, <1>3 DEF OpenBacksOut, DGoto, UseLocalMutex, volumes, bounds
<1>5. TypeOK'
  BY <1>4, <1>1, <1>2, <1>3, DeviceAssumption DEF IInv, TypeOK, DaemonPCs,
      MounterPCs
<1>6. LockInv'
  BY <1>4, <1>1, <1>2, <1>3, Distinct DEF IInv, TypeOK, LockInv, Private
<1>7. UseInv'
  BY <1>4, <1>1, <1>2, <1>3, Distinct DEF IInv, TypeOK, UseInv, Inside
<1>8. SlotInv'
  BY <1>4, <1>1, <1>2, <1>3, Distinct DEF IInv, TypeOK, SlotInv
<1>9. LiveInv'
  BY <1>4, <1>1, <1>2, <1>3, Distinct DEF IInv, TypeOK, LiveInv, Inside,
      Private
<1>10. DaemonInv'
  BY <1>4, <1>1, <1>2, <1>3, Distinct DEF IInv, TypeOK, DaemonInv, Inside,
      OpenedInv, Private
<1>11. TearInv'
  BY <1>4, <1>1, <1>2, <1>3, Distinct DEF IInv, TypeOK, TearInv
<1>12. OpenedInv' /\ MountedInv' /\ VolumeInv' /\ CountInv'
  BY <1>4 DEF IInv, OpenedInv, MountedInv, VolumeInv, CountInv, Attached
<1>13. QED
  BY <1>5, <1>6, <1>7, <1>8, <1>9, <1>10, <1>11, <1>12 DEF IInv

\* fuse_device_close keeps the invariant.
LEMMA fuse_device_close_Inv ==
    ASSUME IInv, panic = "none", NEW p \in Daemons, fuse_device_close(p)
    PROVE  IInv'
<1>1. fdev_data \in Sessions /\ fdev_data # None /\ dpc[p] = "open"
  BY Distinct DEF IInv, TypeOK, DaemonInv, fuse_device_close
<1>2. /\ dpc' = [dpc EXCEPT ![p] = "c_dead"]
      /\ ddata' = [ddata EXCEPT ![p] = fdev_data]
      /\ UNCHANGED <<usecount, random, fdev_data, llock, glock, mtx,
             available, life, opened, mount_state, dead, mpc, mdata,
             mrandom, mounted, opens, mounts, fuse_mount_count, upc,
             panic>>
  BY <1>1 DEF fuse_device_close, DGoto, slot, locks, session, daemons,
      volumes, bounds
<1>3. TypeOK'
  BY <1>2, <1>1, DeviceAssumption DEF IInv, TypeOK, DaemonPCs, MounterPCs
<1>4. LockInv'
  BY <1>2, <1>1, Distinct DEF IInv, TypeOK, LockInv, Private
<1>5. UseInv'
  BY <1>2, <1>1, Distinct DEF IInv, TypeOK, UseInv, Inside
<1>6. LiveInv'
  BY <1>2, <1>1, Distinct DEF IInv, TypeOK, LiveInv, UseInv, Inside, Private
<1>7. DaemonInv'
  BY <1>2, <1>1, Distinct DEF IInv, TypeOK, DaemonInv, Private
<1>8. TearInv'
  BY <1>2, <1>1, Distinct DEF IInv, TypeOK, TearInv
<1>9. SlotInv' /\ OpenedInv' /\ MountedInv' /\ VolumeInv' /\ CountInv'
  BY <1>2 DEF IInv, SlotInv, OpenedInv, MountedInv, VolumeInv, CountInv,
      Attached
<1>10. QED
  BY <1>3, <1>4, <1>5, <1>6, <1>7, <1>8, <1>9 DEF IInv

\* CloseSetsDead keeps the invariant.
LEMMA CloseSetsDead_Inv ==
    ASSUME IInv, panic = "none", NEW p \in Daemons, CloseSetsDead(p)
    PROVE  IInv'
<1>1. TypeOK'
  BY DeviceAssumption DEF IInv, TypeOK, DaemonInv, DaemonPCs, MounterPCs,
      CloseSetsDead, DGoto, slot, locks, volumes, bounds
<1>2. LockInv'
  BY Distinct DEF IInv, TypeOK, LockInv, Private, CloseSetsDead, DGoto, slot,
      locks, volumes, bounds
<1>3. UseInv'
  BY Distinct DEF IInv, TypeOK, UseInv, Inside, CloseSetsDead, DGoto, slot,
      locks, volumes, bounds
<1>4. LiveInv'
  BY Distinct DEF IInv, TypeOK, LiveInv, Private, CloseSetsDead, DGoto, slot,
      locks, volumes, bounds
<1>5. DaemonInv'
  BY Distinct DEF IInv, TypeOK, DaemonInv, Private, CloseSetsDead, DGoto,
      slot, locks, volumes, bounds
<1>6. TearInv'
  BY Distinct DEF IInv, TypeOK, TearInv, CloseSetsDead, DGoto, slot, locks,
      volumes, bounds
<1>7. SlotInv' /\ OpenedInv' /\ MountedInv' /\ VolumeInv' /\ CountInv'
  BY DEF IInv, SlotInv, OpenedInv, MountedInv, VolumeInv, CountInv, Attached,
      CloseSetsDead, slot, locks, volumes, bounds
<1>8. QED
  BY <1>1, <1>2, <1>3, <1>4, <1>5, <1>6, <1>7 DEF IInv

\* CloseLocked keeps the invariant.
LEMMA CloseLocked_Inv ==
    ASSUME IInv, panic = "none", NEW p \in Daemons, CloseLocked(p)
    PROVE  IInv'
<1>1. /\ dpc[p] = "c_local" /\ llock = None
      /\ ddata[p] = fdev_data /\ fdev_data \in opened
  BY DEF IInv, DaemonInv, CloseLocked
<1>2. fdev_data \in Sessions /\ fdev_data # None
  BY <1>1, Distinct DEF IInv, TypeOK
<1>3. mtx = "live" /\ opened = {fdev_data}
  BY <1>1, <1>2 DEF IInv, TypeOK, TearInv, OpenedInv
<1>4. \A q \in Daemons : Inside(q) => q = p
  BY DEF IInv, UseInv, Inside, CloseLocked
<1>5. CASE mount_state[fdev_data] = "FM_MOUNTED"
  <2>1. /\ opened' = {}
        /\ dpc' = [dpc EXCEPT ![p] = "c_global"]
        /\ ddata' = [ddata EXCEPT ![p] = None]
        /\ UNCHANGED <<usecount, random, fdev_data, llock, glock, mtx,
               available, life, mount_state, dead, mpc, mdata, mrandom,
               mounted, opens, mounts, fuse_mount_count, upc, panic>>
    BY <1>1, <1>2, <1>3, <1>4, <1>5 DEF CloseLocked, DGoto, UseLocalMutex,
        CloseKeeps, EmptySlot, locks, volumes, bounds
  <2>2. TypeOK'
    BY <2>1, <1>5, <1>1, <1>2, <1>3, <1>4, DeviceAssumption DEF IInv, TypeOK,
        DaemonPCs, MounterPCs
  <2>3. LockInv'
    BY <2>1, <1>5, <1>1, <1>2, <1>3, <1>4, Distinct DEF IInv, TypeOK, LockInv,
        Private
  <2>4. UseInv'
    BY <2>1, <1>5, <1>1, <1>2, <1>3, <1>4, Distinct DEF IInv, TypeOK, UseInv,
        Inside
  <2>5. SlotInv'
    BY <2>1, <1>5, <1>1, <1>2, <1>3, <1>4, Distinct DEF IInv, TypeOK, SlotInv
  <2>6. OpenedInv'
    BY <2>1, <1>5, <1>1, <1>2, <1>3, <1>4, Distinct DEF IInv, TypeOK,
        OpenedInv
  <2>7. LiveInv'
    BY <2>1, <1>5, <1>1, <1>2, <1>3, <1>4, Distinct DEF IInv, TypeOK, LiveInv,
        Inside, Private
  <2>8. DaemonInv'
    BY <2>1, <1>5, <1>1, <1>2, <1>3, <1>4, Distinct DEF IInv, TypeOK,
        DaemonInv, Inside, OpenedInv, Private
  <2>9. TearInv'
    BY <2>1, <1>5, <1>1, <1>2, <1>3, <1>4, Distinct DEF IInv, TypeOK, TearInv
  <2>10. MountedInv' /\ VolumeInv' /\ CountInv'
    BY <2>1 DEF IInv, MountedInv, VolumeInv, CountInv, Attached
  <2>11. QED
    BY <2>2, <2>3, <2>4, <2>5, <2>6, <2>7, <2>8, <2>9, <2>10 DEF IInv
<1>6. CASE mount_state[fdev_data] = "FM_NOTMOUNTED"
  <2>1. /\ random' = None
        /\ fdev_data' = None
        /\ life' = [life EXCEPT ![fdev_data] = "destroyed"]
        /\ opened' = {}
        /\ dpc' = [dpc EXCEPT ![p] = "c_global"]
        /\ ddata' = [ddata EXCEPT ![p] = None]
        /\ UNCHANGED <<usecount, llock, glock, mtx, available, mount_state,
               dead, mpc, mdata, mrandom, mounted, opens, mounts,
               fuse_mount_count, upc, panic>>
    BY <1>1, <1>2, <1>3, <1>4, <1>6 DEF CloseLocked, DGoto, UseLocalMutex,
        CloseKeeps, EmptySlot, locks, volumes, bounds
  <2>2. TypeOK'
    BY <2>1, <1>6, <1>1, <1>2, <1>3, <1>4, DeviceAssumption DEF IInv, TypeOK,
        DaemonPCs, MounterPCs
  <2>3. LockInv'
    BY <2>1, <1>6, <1>1, <1>2, <1>3, <1>4, Distinct DEF IInv, TypeOK, LockInv,
        Private
  <2>4. UseInv'
    BY <2>1, <1>6, <1>1, <1>2, <1>3, <1>4, Distinct DEF IInv, TypeOK, UseInv,
        Inside
  <2>5. SlotInv'
    BY <2>1, <1>6, <1>1, <1>2, <1>3, <1>4, Distinct DEF IInv, TypeOK, SlotInv
  <2>6. OpenedInv'
    BY <2>1, <1>6, <1>1, <1>2, <1>3, <1>4, Distinct DEF IInv, TypeOK,
        OpenedInv
  <2>7. MountedInv'
    BY <2>1, <1>6, <1>1, <1>2, <1>3, <1>4, Distinct DEF IInv, TypeOK,
        MountedInv, Attached
  <2>8. LiveInv'
    BY <2>1, <1>6, <1>1, <1>2, <1>3, <1>4, Distinct DEF IInv, TypeOK, LiveInv,
        Inside, Private
  <2>9. DaemonInv'
    BY <2>1, <1>6, <1>1, <1>2, <1>3, <1>4, Distinct DEF IInv, TypeOK,
        DaemonInv, Inside, OpenedInv, Private
  <2>10. VolumeInv'
    BY <2>1, <1>6, <1>1, <1>2, <1>3, <1>4, Distinct DEF IInv, TypeOK,
        VolumeInv, Attached
  <2>11. TearInv'
    BY <2>1, <1>6, <1>1, <1>2, <1>3, <1>4, Distinct DEF IInv, TypeOK, TearInv
  <2>12. CountInv'
    BY <2>1 DEF IInv, CountInv, Attached
  <2>13. QED
    BY <2>2, <2>3, <2>4, <2>5, <2>6, <2>7, <2>8, <2>9, <2>10, <2>11, <2>12 DEF
        IInv
<1>7. QED
  BY <1>5, <1>6, <1>2 DEF IInv, TypeOK

\* CloseUncounts keeps the invariant.
LEMMA CloseUncounts_Inv ==
    ASSUME IInv, panic = "none", NEW p \in Daemons, CloseUncounts(p)
    PROVE  IInv'
<1>1. \A q \in Daemons : Inside(q) => q = p
  BY DEF IInv, UseInv, Inside, CloseUncounts
<1>2. TypeOK'
  BY <1>1, DeviceAssumption DEF IInv, TypeOK, UseInv, Inside, DaemonPCs,
      MounterPCs, CloseUncounts, DGoto, locks, session, volumes, bounds
<1>3. LockInv'
  BY <1>1, Distinct DEF IInv, TypeOK, LockInv, Private, CloseUncounts, DGoto,
      locks, session, volumes, bounds
<1>4. UseInv'
  BY <1>1, Distinct DEF IInv, TypeOK, UseInv, Inside, CloseUncounts, DGoto,
      locks, session, volumes, bounds
<1>5. LiveInv'
  BY <1>1, Distinct DEF IInv, TypeOK, LiveInv, Inside, Private, CloseUncounts,
      DGoto, locks, session, volumes, bounds
<1>6. DaemonInv'
  BY <1>1, Distinct DEF IInv, TypeOK, DaemonInv, Inside, OpenedInv, Private,
      CloseUncounts, DGoto, locks, session, volumes, bounds
<1>7. TearInv'
  BY <1>1, Distinct DEF IInv, TypeOK, TearInv, CloseUncounts, DGoto, locks,
      session, volumes, bounds
<1>8. SlotInv' /\ OpenedInv' /\ MountedInv' /\ VolumeInv' /\ CountInv'
  BY DEF IInv, SlotInv, OpenedInv, MountedInv, VolumeInv, CountInv, Attached,
      CloseUncounts, locks, session, volumes, bounds
<1>9. QED
  BY <1>2, <1>3, <1>4, <1>5, <1>6, <1>7, <1>8 DEF IInv

\* fuse_device_ioctl keeps the invariant.
LEMMA fuse_device_ioctl_Inv ==
    ASSUME IInv, panic = "none", NEW p \in Daemons, fuse_device_ioctl(p)
    PROVE  IInv'
<1>1. TypeOK'
  BY DeviceAssumption DEF IInv, TypeOK, DaemonPCs, MounterPCs,
      fuse_device_ioctl, UseLocalMutex, slot, locks, daemons, volumes, bounds
<1>2. TearInv'
  BY Distinct DEF IInv, TypeOK, TearInv, fuse_device_ioctl, UseLocalMutex,
      slot, locks, daemons, volumes, bounds
<1>3. LockInv' /\ UseInv' /\ SlotInv' /\ OpenedInv' /\ MountedInv' /\ LiveInv'
    /\ DaemonInv' /\ VolumeInv' /\ CountInv'
  BY DEF IInv, LockInv, UseInv, SlotInv, OpenedInv, MountedInv, LiveInv,
      DaemonInv, VolumeInv, CountInv, Private, Inside, Attached,
      fuse_device_ioctl, slot, locks, daemons, volumes, bounds
<1>4. QED
  BY <1>1, <1>2, <1>3 DEF IInv

\* fuse_device_kill keeps the invariant.
LEMMA fuse_device_kill_Inv ==
    ASSUME IInv, panic = "none", fuse_device_kill
    PROVE  IInv'
<1>1. TypeOK'
  BY DeviceAssumption DEF IInv, TypeOK, DaemonPCs, MounterPCs,
      fuse_device_kill, UseLocalMutex, slot, locks, daemons, volumes, bounds
<1>2. TearInv'
  BY Distinct DEF IInv, TypeOK, TearInv, fuse_device_kill, UseLocalMutex,
      slot, locks, daemons, volumes, bounds
<1>3. LockInv' /\ UseInv' /\ SlotInv' /\ OpenedInv' /\ MountedInv' /\ LiveInv'
    /\ DaemonInv' /\ VolumeInv' /\ CountInv'
  BY DEF IInv, LockInv, UseInv, SlotInv, OpenedInv, MountedInv, LiveInv,
      DaemonInv, VolumeInv, CountInv, Private, Inside, Attached,
      fuse_device_kill, slot, locks, daemons, volumes, bounds
<1>4. QED
  BY <1>1, <1>2, <1>3 DEF IInv

\* fuse_vfsop_mount keeps the invariant.
LEMMA fuse_vfsop_mount_Inv ==
    ASSUME IInv, panic = "none", NEW m \in Mounters, fuse_vfsop_mount(m)
    PROVE  IInv'
<1>1. TypeOK'
  BY DeviceAssumption DEF IInv, TypeOK, DaemonPCs, MounterPCs,
      fuse_vfsop_mount, MGoto, slot, locks, session, daemons
<1>2. LockInv'
  BY Distinct DEF IInv, TypeOK, LockInv, Private, fuse_vfsop_mount, MGoto,
      slot, locks, session, daemons
<1>3. MountedInv'
  BY Distinct DEF IInv, TypeOK, MountedInv, Attached, fuse_vfsop_mount, MGoto,
      slot, locks, session, daemons
<1>4. VolumeInv'
  BY Distinct DEF IInv, TypeOK, VolumeInv, Attached, fuse_vfsop_mount, MGoto,
      slot, locks, session, daemons
<1>5. CountInv'
  BY Distinct DEF IInv, TypeOK, CountInv, Attached, fuse_vfsop_mount, MGoto,
      slot, locks, session, daemons
<1>6. UseInv' /\ SlotInv' /\ OpenedInv' /\ LiveInv' /\ DaemonInv' /\ TearInv'
  BY DEF IInv, UseInv, SlotInv, OpenedInv, LiveInv, DaemonInv, TearInv,
      Inside, Private, fuse_vfsop_mount, slot, locks, session, daemons
<1>7. QED
  BY <1>1, <1>2, <1>3, <1>4, <1>5, <1>6 DEF IInv

\* MountRefused keeps the invariant.
LEMMA MountRefused_Inv ==
    ASSUME IInv, panic = "none", NEW m \in Mounters, MountRefused(m)
    PROVE  IInv'
<1>1. TypeOK'
  BY DeviceAssumption DEF IInv, TypeOK, DaemonPCs, MounterPCs, MountRefused,
      MGoto, UseLocalMutex, slot, locks, session, daemons, bounds
<1>2. LockInv'
  BY Distinct DEF IInv, TypeOK, LockInv, Private, MountRefused, MGoto,
      UseLocalMutex, slot, locks, session, daemons, bounds
<1>3. MountedInv'
  BY Distinct DEF IInv, TypeOK, MountedInv, Attached, MountRefused, MGoto,
      UseLocalMutex, slot, locks, session, daemons, bounds
<1>4. VolumeInv'
  BY Distinct DEF IInv, TypeOK, VolumeInv, Attached, MountRefused, MGoto,
      UseLocalMutex, slot, locks, session, daemons, bounds
<1>5. CountInv'
  BY Distinct DEF IInv, TypeOK, CountInv, Attached, MountRefused, MGoto,
      UseLocalMutex, slot, locks, session, daemons, bounds
<1>6. TearInv'
  BY Distinct DEF IInv, TypeOK, TearInv, MountRefused, MGoto, UseLocalMutex,
      slot, locks, session, daemons, bounds
<1>7. UseInv' /\ SlotInv' /\ OpenedInv' /\ LiveInv' /\ DaemonInv'
  BY DEF IInv, UseInv, SlotInv, OpenedInv, LiveInv, DaemonInv, Inside,
      Private, MountRefused, slot, locks, session, daemons, bounds
<1>8. QED
  BY <1>1, <1>2, <1>3, <1>4, <1>5, <1>6, <1>7 DEF IInv

\* MountAttaches keeps the invariant.
LEMMA MountAttaches_Inv ==
    ASSUME IInv, panic = "none", NEW m \in Mounters, MountAttaches(m)
    PROVE  IInv'
<1>1. /\ mpc[m] = "m_lock" /\ llock = None /\ fdev_data # None
      /\ mrandom[m] = random /\ mount_state[fdev_data] = "FM_NOTMOUNTED"
  BY DEF MountAttaches, MayAttach, RandomMatches
<1>2. fdev_data \in Sessions /\ fdev_data \in opened /\ random = fdev_data
  BY <1>1 DEF IInv, TypeOK, SlotInv
<1>3. mtx = "live"
  BY <1>1 DEF IInv, TypeOK, TearInv
<1>4. \A n \in Mounters : ~Attached(n)
  BY <1>1 DEF IInv, VolumeInv
<1>5. fuse_mount_count = 0
  BY <1>4 DEF IInv, CountInv
<1>6. PICK l \in {"m_init", "m_out"} : mpc' = [mpc EXCEPT ![m] = l]
  BY <1>2 DEF MountAttaches, MGoto
<1>7. /\ mount_state' = [mount_state EXCEPT ![fdev_data] = "FM_MOUNTED"]
      /\ mpc' = [mpc EXCEPT ![m] = l]
      /\ mdata' = [mdata EXCEPT ![m] = fdev_data]
      /\ mounted' = mounted \union {m}
      /\ fuse_mount_count' = 1
      /\ UNCHANGED <<usecount, random, fdev_data, llock, glock, mtx,
             available, life, opened, dead, dpc, ddata, mrandom, opens,
             mounts, upc, panic>>
  BY <1>1, <1>2, <1>3, <1>4, <1>5, <1>6 DEF MountAttaches, MGoto,
      UseLocalMutex, MayAttach, RandomMatches, slot, locks, daemons, bounds
<1>8. TypeOK'
  BY <1>7, <1>1, <1>2, <1>3, <1>4, <1>5, <1>6, DeviceAssumption DEF IInv,
      TypeOK, DaemonPCs, MounterPCs
<1>9. LockInv'
  BY <1>7, <1>1, <1>2, <1>3, <1>4, <1>5, <1>6, Distinct DEF IInv, TypeOK,
      LockInv, Private
<1>10. SlotInv'
  BY <1>7, <1>1, <1>2, <1>3, <1>4, <1>5, <1>6, Distinct DEF IInv, TypeOK,
      SlotInv
<1>11. MountedInv'
  BY <1>7, <1>1, <1>2, <1>3, <1>4, <1>5, <1>6, Distinct DEF IInv, TypeOK,
      MountedInv, Attached
<1>12. DaemonInv'
  BY <1>7, <1>1, <1>2, <1>3, <1>4, <1>5, <1>6, Distinct DEF IInv, TypeOK,
      DaemonInv, Private
<1>13. VolumeInv'
  BY <1>7, <1>1, <1>2, <1>3, <1>4, <1>5, <1>6, Distinct DEF IInv, TypeOK,
      VolumeInv, Attached
<1>14. CountInv'
  BY <1>7, <1>1, <1>2, <1>3, <1>4, <1>5, <1>6, Distinct DEF IInv, TypeOK,
      CountInv, Attached
<1>15. UseInv' /\ OpenedInv' /\ LiveInv' /\ TearInv'
  BY <1>7 DEF IInv, UseInv, OpenedInv, LiveInv, TearInv, Inside, Private
<1>16. QED
  BY <1>8, <1>9, <1>10, <1>11, <1>12, <1>13, <1>14, <1>15 DEF IInv

\* MountFinishes keeps the invariant.
LEMMA MountFinishes_Inv ==
    ASSUME IInv, panic = "none", NEW m \in Mounters, MountFinishes(m)
    PROVE  IInv'
<1>1. TypeOK'
  BY DeviceAssumption DEF IInv, TypeOK, DaemonPCs, MounterPCs, MountFinishes,
      MGoto, slot, locks, session, daemons, bounds
<1>2. LockInv'
  BY Distinct DEF IInv, TypeOK, LockInv, Private, MountFinishes, MGoto, slot,
      locks, session, daemons, bounds
<1>3. MountedInv'
  BY Distinct DEF IInv, TypeOK, MountedInv, Attached, MountFinishes, MGoto,
      slot, locks, session, daemons, bounds
<1>4. VolumeInv'
  BY Distinct DEF IInv, TypeOK, VolumeInv, Attached, MountFinishes, MGoto,
      slot, locks, session, daemons, bounds
<1>5. CountInv'
  BY Distinct DEF IInv, TypeOK, CountInv, Attached, MountFinishes, MGoto,
      slot, locks, session, daemons, bounds
<1>6. UseInv' /\ SlotInv' /\ OpenedInv' /\ LiveInv' /\ DaemonInv' /\ TearInv'
  BY DEF IInv, UseInv, SlotInv, OpenedInv, LiveInv, DaemonInv, TearInv,
      Inside, Private, MountFinishes, slot, locks, session, daemons, bounds
<1>7. QED
  BY <1>1, <1>2, <1>3, <1>4, <1>5, <1>6 DEF IInv

\* MountFails keeps the invariant.
LEMMA MountFails_Inv ==
    ASSUME IInv, panic = "none", NEW m \in Mounters, MountFails(m)
    PROVE  IInv'
<1>1. mpc[m] = "m_out" /\ llock = None /\ Attached(m)
  BY DEF MountFails, Attached
<1>2. /\ mdata[m] = fdev_data /\ fdev_data # None
      /\ mount_state[fdev_data] = "FM_MOUNTED" /\ m \in mounted
  BY <1>1 DEF IInv, VolumeInv
<1>3. fdev_data \in Sessions
  BY <1>2 DEF IInv, TypeOK
<1>4. mtx = "live"
  BY <1>2 DEF IInv, TypeOK, TearInv
<1>5. fuse_mount_count = 1 /\ \A n \in Mounters : Attached(n) => n = m
  BY <1>1 DEF IInv, CountInv
<1>6. CASE fdev_data \in opened
  <2>1. /\ llock' = m
        /\ mount_state' = [mount_state EXCEPT ![fdev_data] = "FM_NOTMOUNTED"]
        /\ mpc' = [mpc EXCEPT ![m] = "unlock"]
        /\ mdata' = [mdata EXCEPT ![m] = None]
        /\ fuse_mount_count' = 0
        /\ UNCHANGED <<usecount, random, fdev_data, glock, mtx, available,
               life, opened, dead, dpc, ddata, mrandom, mounted, opens,
               mounts, upc, panic>>
    BY <1>1, <1>2, <1>3, <1>4, <1>5, <1>6 DEF MountFails, MGoto,
        UseLocalMutex, MountFrees, fuse_device_close_final, EmptySlot,
        daemons, bounds
  <2>2. TypeOK'
    BY <2>1, <1>6, <1>1, <1>2, <1>3, <1>4, <1>5, DeviceAssumption DEF IInv,
        TypeOK, DaemonPCs, MounterPCs
  <2>3. LockInv'
    BY <2>1, <1>6, <1>1, <1>2, <1>3, <1>4, <1>5, Distinct DEF IInv, TypeOK,
        LockInv, Private
  <2>4. SlotInv'
    BY <2>1, <1>6, <1>1, <1>2, <1>3, <1>4, <1>5, Distinct DEF IInv, TypeOK,
        SlotInv
  <2>5. MountedInv'
    BY <2>1, <1>6, <1>1, <1>2, <1>3, <1>4, <1>5, Distinct DEF IInv, TypeOK,
        MountedInv, OpenedInv, Attached
  <2>6. DaemonInv'
    BY <2>1, <1>6, <1>1, <1>2, <1>3, <1>4, <1>5, Distinct DEF IInv, TypeOK,
        DaemonInv, OpenedInv, Private
  <2>7. VolumeInv'
    BY <2>1, <1>6, <1>1, <1>2, <1>3, <1>4, <1>5, Distinct DEF IInv, TypeOK,
        VolumeInv, Attached
  <2>8. CountInv'
    BY <2>1, <1>6, <1>1, <1>2, <1>3, <1>4, <1>5, Distinct DEF IInv, TypeOK,
        CountInv, Attached
  <2>9. UseInv' /\ OpenedInv' /\ LiveInv' /\ TearInv'
    BY <2>1 DEF IInv, UseInv, OpenedInv, LiveInv, TearInv, Inside, Private
  <2>10. QED
    BY <2>2, <2>3, <2>4, <2>5, <2>6, <2>7, <2>8, <2>9 DEF IInv
<1>7. CASE fdev_data \notin opened
  <2>1. /\ random' = None
        /\ fdev_data' = None
        /\ llock' = m
        /\ life' = [life EXCEPT ![fdev_data] = "destroyed"]
        /\ mount_state' = [mount_state EXCEPT ![fdev_data] = "FM_NOTMOUNTED"]
        /\ mpc' = [mpc EXCEPT ![m] = "unlock"]
        /\ mdata' = [mdata EXCEPT ![m] = None]
        /\ fuse_mount_count' = 0
        /\ UNCHANGED <<usecount, glock, mtx, available, opened, dead, dpc,
               ddata, mrandom, mounted, opens, mounts, upc, panic>>
    BY <1>1, <1>2, <1>3, <1>4, <1>5, <1>7 DEF MountFails, MGoto,
        UseLocalMutex, MountFrees, fuse_device_close_final, EmptySlot,
        daemons, bounds
  <2>2. TypeOK'
    BY <2>1, <1>7, <1>1, <1>2, <1>3, <1>4, <1>5, DeviceAssumption DEF IInv,
        TypeOK, DaemonPCs, MounterPCs
  <2>3. LockInv'
    BY <2>1, <1>7, <1>1, <1>2, <1>3, <1>4, <1>5, Distinct DEF IInv, TypeOK,
        LockInv, Private
  <2>4. SlotInv'
    BY <2>1, <1>7, <1>1, <1>2, <1>3, <1>4, <1>5, Distinct DEF IInv, TypeOK,
        SlotInv
  <2>5. OpenedInv'
    BY <2>1, <1>7, <1>1, <1>2, <1>3, <1>4, <1>5, Distinct DEF IInv, TypeOK,
        OpenedInv
  <2>6. MountedInv'
    BY <2>1, <1>7, <1>1, <1>2, <1>3, <1>4, <1>5, Distinct DEF IInv, TypeOK,
        MountedInv, OpenedInv, Attached
  <2>7. LiveInv'
    BY <2>1, <1>7, <1>1, <1>2, <1>3, <1>4, <1>5, Distinct DEF IInv, TypeOK,
        LiveInv, Private
  <2>8. DaemonInv'
    BY <2>1, <1>7, <1>1, <1>2, <1>3, <1>4, <1>5, Distinct DEF IInv, TypeOK,
        DaemonInv, OpenedInv, Private
  <2>9. VolumeInv'
    BY <2>1, <1>7, <1>1, <1>2, <1>3, <1>4, <1>5, Distinct DEF IInv, TypeOK,
        VolumeInv, Attached
  <2>10. CountInv'
    BY <2>1, <1>7, <1>1, <1>2, <1>3, <1>4, <1>5, Distinct DEF IInv, TypeOK,
        CountInv, Attached
  <2>11. TearInv'
    BY <2>1, <1>7, <1>1, <1>2, <1>3, <1>4, <1>5, Distinct DEF IInv, TypeOK,
        TearInv
  <2>12. UseInv'
    BY <2>1 DEF IInv, UseInv, Inside
  <2>13. QED
    BY <2>2, <2>3, <2>4, <2>5, <2>6, <2>7, <2>8, <2>9, <2>10, <2>11, <2>12 DEF
        IInv
<1>8. QED
  BY <1>6, <1>7, <1>3

\* Unlock keeps the invariant.
LEMMA Unlock_Inv ==
    ASSUME IInv, panic = "none", NEW m \in Mounters, Unlock(m)
    PROVE  IInv'
<1>1. mpc[m] = "unlock" /\ llock = m
  BY DEF IInv, LockInv, Unlock
<1>2. /\ llock' = None
      /\ mpc' = [mpc EXCEPT ![m] = "idle"]
      /\ panic' \in {"none", "freed_mutex"}
      /\ UNCHANGED <<usecount, random, fdev_data, glock, mtx, available,
             life, opened, mount_state, dead, dpc, ddata, mdata, mrandom,
             mounted, opens, mounts, fuse_mount_count, upc>>
  BY <1>1 DEF Unlock, MGoto, UseLocalMutex, slot, session, daemons, bounds
<1>3. TypeOK'
  BY <1>2, <1>1, DeviceAssumption DEF IInv, TypeOK, DaemonPCs, MounterPCs
<1>4. LockInv'
  BY <1>2, <1>1, Distinct DEF IInv, TypeOK, LockInv, Private
<1>5. MountedInv'
  BY <1>2, <1>1, Distinct DEF IInv, TypeOK, MountedInv, Attached
<1>6. VolumeInv'
  BY <1>2, <1>1, Distinct DEF IInv, TypeOK, VolumeInv, Attached
<1>7. CountInv'
  BY <1>2, <1>1, Distinct DEF IInv, TypeOK, CountInv, Attached
<1>8. TearInv'
  BY <1>2, <1>1, Distinct DEF IInv, TypeOK, TearInv, Unlock, UseLocalMutex
<1>9. UseInv' /\ SlotInv' /\ OpenedInv' /\ LiveInv' /\ DaemonInv'
  BY <1>2 DEF IInv, UseInv, SlotInv, OpenedInv, LiveInv, DaemonInv, Inside,
      Private
<1>10. QED
  BY <1>3, <1>4, <1>5, <1>6, <1>7, <1>8, <1>9 DEF IInv

\* fuse_vfsop_unmount keeps the invariant.
LEMMA fuse_vfsop_unmount_Inv ==
    ASSUME IInv, panic = "none", NEW m \in Mounters, fuse_vfsop_unmount(m)
    PROVE  IInv'
<1>1. TypeOK'
  BY DeviceAssumption DEF IInv, TypeOK, DaemonPCs, MounterPCs,
      fuse_vfsop_unmount, MGoto, slot, locks, session, daemons, bounds
<1>2. LockInv'
  BY Distinct DEF IInv, TypeOK, LockInv, Private, fuse_vfsop_unmount, MGoto,
      slot, locks, session, daemons, bounds
<1>3. MountedInv'
  BY Distinct DEF IInv, TypeOK, MountedInv, Attached, fuse_vfsop_unmount,
      MGoto, slot, locks, session, daemons, bounds
<1>4. VolumeInv'
  BY Distinct DEF IInv, TypeOK, VolumeInv, Attached, fuse_vfsop_unmount,
      MGoto, slot, locks, session, daemons, bounds
<1>5. CountInv'
  BY Distinct DEF IInv, TypeOK, CountInv, Attached, fuse_vfsop_unmount, MGoto,
      slot, locks, session, daemons, bounds
<1>6. UseInv' /\ SlotInv' /\ OpenedInv' /\ LiveInv' /\ DaemonInv' /\ TearInv'
  BY DEF IInv, UseInv, SlotInv, OpenedInv, LiveInv, DaemonInv, TearInv,
      Inside, Private, fuse_vfsop_unmount, slot, locks, session, daemons,
      bounds
<1>7. QED
  BY <1>1, <1>2, <1>3, <1>4, <1>5, <1>6 DEF IInv

\* UnmountDestroys keeps the invariant.
LEMMA UnmountDestroys_Inv ==
    ASSUME IInv, panic = "none", NEW m \in Mounters, UnmountDestroys(m)
    PROVE  IInv'
<1>1. TypeOK'
  BY DeviceAssumption DEF IInv, TypeOK, VolumeInv, Attached, DaemonPCs,
      MounterPCs, UnmountDestroys, MGoto, slot, locks, daemons, bounds
<1>2. LockInv'
  BY Distinct DEF IInv, TypeOK, LockInv, Private, UnmountDestroys, MGoto,
      slot, locks, daemons, bounds
<1>3. MountedInv'
  BY Distinct DEF IInv, TypeOK, MountedInv, Attached, UnmountDestroys, MGoto,
      slot, locks, daemons, bounds
<1>4. VolumeInv'
  BY Distinct DEF IInv, TypeOK, VolumeInv, Attached, UnmountDestroys, MGoto,
      slot, locks, daemons, bounds
<1>5. CountInv'
  BY Distinct DEF IInv, TypeOK, CountInv, Attached, UnmountDestroys, MGoto,
      slot, locks, daemons, bounds
<1>6. UseInv' /\ SlotInv' /\ OpenedInv' /\ LiveInv' /\ DaemonInv' /\ TearInv'
  BY DEF IInv, UseInv, SlotInv, OpenedInv, LiveInv, DaemonInv, TearInv,
      Inside, Private, UnmountDestroys, slot, locks, daemons, bounds
<1>7. QED
  BY <1>1, <1>2, <1>3, <1>4, <1>5, <1>6 DEF IInv

\* UnmountLocked keeps the invariant.
LEMMA UnmountLocked_Inv ==
    ASSUME IInv, panic = "none", NEW m \in Mounters, UnmountLocked(m)
    PROVE  IInv'
<1>1. mpc[m] = "u_lock" /\ llock = None /\ Attached(m)
  BY DEF UnmountLocked, Attached
<1>2. /\ mdata[m] = fdev_data /\ fdev_data # None
      /\ mount_state[fdev_data] = "FM_MOUNTED" /\ m \in mounted
  BY <1>1 DEF IInv, VolumeInv
<1>3. fdev_data \in Sessions
  BY <1>2 DEF IInv, TypeOK
<1>4. mtx = "live"
  BY <1>2 DEF IInv, TypeOK, TearInv
<1>5. fuse_mount_count = 1 /\ \A n \in Mounters : Attached(n) => n = m
  BY <1>1 DEF IInv, CountInv
<1>6. CASE fdev_data \in opened
  <2>1. /\ llock' = m
        /\ mount_state' = [mount_state EXCEPT ![fdev_data] = "FM_NOTMOUNTED"]
        /\ mpc' = [mpc EXCEPT ![m] = "unlock"]
        /\ mdata' = [mdata EXCEPT ![m] = None]
        /\ fuse_mount_count' = 0
        /\ UNCHANGED <<usecount, random, fdev_data, glock, mtx, available,
               life, opened, dead, dpc, ddata, mrandom, mounted, opens,
               mounts, upc, panic>>
    BY <1>1, <1>2, <1>3, <1>4, <1>5, <1>6 DEF UnmountLocked, MGoto,
        UseLocalMutex, fuse_device_close_final, EmptySlot, daemons, bounds
  <2>2. TypeOK'
    BY <2>1, <1>6, <1>1, <1>2, <1>3, <1>4, <1>5, DeviceAssumption DEF IInv,
        TypeOK, DaemonPCs, MounterPCs
  <2>3. LockInv'
    BY <2>1, <1>6, <1>1, <1>2, <1>3, <1>4, <1>5, Distinct DEF IInv, TypeOK,
        LockInv, Private
  <2>4. SlotInv'
    BY <2>1, <1>6, <1>1, <1>2, <1>3, <1>4, <1>5, Distinct DEF IInv, TypeOK,
        SlotInv
  <2>5. MountedInv'
    BY <2>1, <1>6, <1>1, <1>2, <1>3, <1>4, <1>5, Distinct DEF IInv, TypeOK,
        MountedInv, OpenedInv, Attached
  <2>6. DaemonInv'
    BY <2>1, <1>6, <1>1, <1>2, <1>3, <1>4, <1>5, Distinct DEF IInv, TypeOK,
        DaemonInv, OpenedInv, Private
  <2>7. VolumeInv'
    BY <2>1, <1>6, <1>1, <1>2, <1>3, <1>4, <1>5, Distinct DEF IInv, TypeOK,
        VolumeInv, Attached
  <2>8. CountInv'
    BY <2>1, <1>6, <1>1, <1>2, <1>3, <1>4, <1>5, Distinct DEF IInv, TypeOK,
        CountInv, Attached
  <2>9. UseInv' /\ OpenedInv' /\ LiveInv' /\ TearInv'
    BY <2>1 DEF IInv, UseInv, OpenedInv, LiveInv, TearInv, Inside, Private
  <2>10. QED
    BY <2>2, <2>3, <2>4, <2>5, <2>6, <2>7, <2>8, <2>9 DEF IInv
<1>7. CASE fdev_data \notin opened
  <2>1. /\ random' = None
        /\ fdev_data' = None
        /\ llock' = m
        /\ life' = [life EXCEPT ![fdev_data] = "destroyed"]
        /\ mount_state' = [mount_state EXCEPT ![fdev_data] = "FM_NOTMOUNTED"]
        /\ mpc' = [mpc EXCEPT ![m] = "unlock"]
        /\ mdata' = [mdata EXCEPT ![m] = None]
        /\ fuse_mount_count' = 0
        /\ UNCHANGED <<usecount, glock, mtx, available, opened, dead, dpc,
               ddata, mrandom, mounted, opens, mounts, upc, panic>>
    BY <1>1, <1>2, <1>3, <1>4, <1>5, <1>7 DEF UnmountLocked, MGoto,
        UseLocalMutex, fuse_device_close_final, EmptySlot, daemons, bounds
  <2>2. TypeOK'
    BY <2>1, <1>7, <1>1, <1>2, <1>3, <1>4, <1>5, DeviceAssumption DEF IInv,
        TypeOK, DaemonPCs, MounterPCs
  <2>3. LockInv'
    BY <2>1, <1>7, <1>1, <1>2, <1>3, <1>4, <1>5, Distinct DEF IInv, TypeOK,
        LockInv, Private
  <2>4. SlotInv'
    BY <2>1, <1>7, <1>1, <1>2, <1>3, <1>4, <1>5, Distinct DEF IInv, TypeOK,
        SlotInv
  <2>5. OpenedInv'
    BY <2>1, <1>7, <1>1, <1>2, <1>3, <1>4, <1>5, Distinct DEF IInv, TypeOK,
        OpenedInv
  <2>6. MountedInv'
    BY <2>1, <1>7, <1>1, <1>2, <1>3, <1>4, <1>5, Distinct DEF IInv, TypeOK,
        MountedInv, OpenedInv, Attached
  <2>7. LiveInv'
    BY <2>1, <1>7, <1>1, <1>2, <1>3, <1>4, <1>5, Distinct DEF IInv, TypeOK,
        LiveInv, Private
  <2>8. DaemonInv'
    BY <2>1, <1>7, <1>1, <1>2, <1>3, <1>4, <1>5, Distinct DEF IInv, TypeOK,
        DaemonInv, OpenedInv, Private
  <2>9. VolumeInv'
    BY <2>1, <1>7, <1>1, <1>2, <1>3, <1>4, <1>5, Distinct DEF IInv, TypeOK,
        VolumeInv, Attached
  <2>10. CountInv'
    BY <2>1, <1>7, <1>1, <1>2, <1>3, <1>4, <1>5, Distinct DEF IInv, TypeOK,
        CountInv, Attached
  <2>11. TearInv'
    BY <2>1, <1>7, <1>1, <1>2, <1>3, <1>4, <1>5, Distinct DEF IInv, TypeOK,
        TearInv
  <2>12. UseInv'
    BY <2>1 DEF IInv, UseInv, Inside
  <2>13. QED
    BY <2>2, <2>3, <2>4, <2>5, <2>6, <2>7, <2>8, <2>9, <2>10, <2>11, <2>12 DEF
        IInv
<1>8. QED
  BY <1>6, <1>7, <1>3

\* fusefs_stop keeps the invariant.
LEMMA fusefs_stop_Inv ==
    ASSUME IInv, panic = "none", fusefs_stop
    PROVE  IInv'
<1>1. TypeOK'
  BY DeviceAssumption DEF IInv, TypeOK, DaemonPCs, MounterPCs, fusefs_stop,
      slot, session, daemons, volumes, bounds
<1>2. LockInv' /\ UseInv' /\ SlotInv' /\ OpenedInv' /\ MountedInv' /\ LiveInv'
    /\ DaemonInv' /\ VolumeInv' /\ CountInv' /\ TearInv'
  BY DEF IInv, LockInv, UseInv, SlotInv, OpenedInv, MountedInv, LiveInv,
      DaemonInv, VolumeInv, CountInv, TearInv, Private, Inside, Attached,
      fusefs_stop, slot, session, daemons, volumes, bounds
<1>3. QED
  BY <1>1, <1>2 DEF IInv

\* fuse_devices_stop keeps the invariant.
LEMMA fuse_devices_stop_Inv ==
    ASSUME IInv, panic = "none", fuse_devices_stop
    PROVE  IInv'
<1>1. TypeOK'
  BY DeviceAssumption DEF IInv, TypeOK, DaemonPCs, MounterPCs,
      fuse_devices_stop, SlotIdle, slot, session, daemons, volumes, bounds
<1>2. TearInv'
  BY Distinct DEF IInv, TypeOK, TearInv, UseInv, Inside, LockInv,
      fuse_devices_stop, SlotIdle, slot, session, daemons, volumes, bounds
<1>3. LockInv' /\ UseInv' /\ SlotInv' /\ OpenedInv' /\ MountedInv' /\ LiveInv'
    /\ DaemonInv' /\ VolumeInv' /\ CountInv'
  BY DEF IInv, LockInv, UseInv, SlotInv, OpenedInv, MountedInv, LiveInv,
      DaemonInv, VolumeInv, CountInv, Private, Inside, Attached,
      fuse_devices_stop, slot, session, daemons, volumes, bounds
<1>4. QED
  BY <1>1, <1>2, <1>3 DEF IInv

\* StopEnds keeps the invariant.
LEMMA StopEnds_Inv ==
    ASSUME IInv, panic = "none", StopEnds
    PROVE  IInv'
<1>1. TypeOK'
  BY DeviceAssumption DEF IInv, TypeOK, DaemonPCs, MounterPCs, StopEnds, slot,
      locks, session, daemons, volumes, bounds
<1>2. LockInv' /\ UseInv' /\ SlotInv' /\ OpenedInv' /\ MountedInv' /\ LiveInv'
    /\ DaemonInv' /\ VolumeInv' /\ CountInv' /\ TearInv'
  BY DEF IInv, LockInv, UseInv, SlotInv, OpenedInv, MountedInv, LiveInv,
      DaemonInv, VolumeInv, CountInv, TearInv, Private, Inside, Attached,
      StopEnds, slot, locks, session, daemons, volumes, bounds
<1>3. QED
  BY <1>1, <1>2 DEF IInv

\* Every step of the slot keeps the invariant.
LEMMA NextInv == IInv /\ [Next]_vars => IInv'
<1> SUFFICES ASSUME IInv, [Next]_vars PROVE IInv'
  OBVIOUS
<1>1. ASSUME panic = "none", NEW p \in Daemons, DaemonStep(p) \/ DaemonChoice(p)
      PROVE  IInv'
  BY <1>1, fuse_device_open_Inv, OpenCounts_Inv, OpenAllocates_Inv,
     OpenInstalls_Inv, OpenBacksOut_Inv, fuse_device_close_Inv, CloseSetsDead_Inv,
     CloseLocked_Inv, CloseUncounts_Inv, fuse_device_ioctl_Inv
  DEF DaemonStep, DaemonChoice
<1>2. ASSUME panic = "none", NEW m \in Mounters,
             \/ VolumeStep(m) \/ VolumeWaits(m)
             \/ fuse_vfsop_mount(m) \/ fuse_vfsop_unmount(m)
      PROVE  IInv'
  BY <1>2, fuse_vfsop_mount_Inv, MountRefused_Inv, MountAttaches_Inv,
     MountFinishes_Inv, MountFails_Inv, Unlock_Inv, fuse_vfsop_unmount_Inv,
     UnmountDestroys_Inv, UnmountLocked_Inv
  DEF VolumeStep, VolumeWaits
<1>3. CASE /\ panic = "none"
           /\ fuse_device_kill \/ fusefs_stop \/ fuse_devices_stop \/ StopEnds
  BY <1>3, fuse_device_kill_Inv, fusefs_stop_Inv, fuse_devices_stop_Inv,
     StopEnds_Inv
<1>4. CASE UNCHANGED vars
  <2>1. TypeOK'
    <3>1. /\ UNCHANGED <<usecount, random, fdev_data, llock, glock, mtx, life, dpc>>
          /\ UNCHANGED <<ddata, opened, mount_state, dead, mpc, mdata, mrandom, mounted>>
          /\ UNCHANGED <<fuse_mount_count, upc, panic, opens, mounts>>
      BY <1>4 DEF vars, slot, locks, session, daemons, volumes, bounds
    <3>2. UNCHANGED available
      BY <1>4 DEF vars, locks
    <3>3. available' \in BOOLEAN
      BY <3>2, Zenon DEF IInv, TypeOK
    <3>4. QED
      BY <3>1, <3>3 DEF IInv, TypeOK
  <2>2. LockInv' /\ UseInv' /\ TearInv'
    BY <1>4 DEF IInv, LockInv, UseInv, TearInv, Private, Inside, vars, slot, locks,
        daemons, volumes
  <2>3. SlotInv' /\ OpenedInv' /\ MountedInv' /\ LiveInv'
    BY <1>4 DEF IInv, SlotInv, OpenedInv, MountedInv, LiveInv, Private, Attached,
        vars, slot, session, daemons, volumes
  <2>4. DaemonInv' /\ VolumeInv' /\ CountInv'
    BY <1>4 DEF IInv, DaemonInv, VolumeInv, CountInv, Private, Attached, vars, slot,
        session, daemons, volumes
  <2>5. QED
    BY <2>1, <2>2, <2>3, <2>4 DEF IInv
<1>5. QED
  BY <1>1, <1>2, <1>3, <1>4 DEF Next

\* The inductive invariant holds in every behaviour.
THEOREM InvHolds == Spec => []IInv
  BY InitInv, NextInv, PTL DEF Spec

\* The types hold, and with them that the slot never has two users and that
\* fuse_mount_count never falls below zero.
THEOREM DeviceTypes == Spec => []TypeOK
<1>1. IInv => TypeOK
  BY DEF IInv
<1>2. QED
  BY <1>1, InvHolds, PTL

\* No session is used after it has been freed, however open, close, mount,
\* failing mount, unmount, kill and unload interleave.
THEOREM NoUseAfterFree == Spec => []SessionIsLive
<1>1. IInv => SessionIsLive
  <2> SUFFICES ASSUME IInv PROVE SessionIsLive
    OBVIOUS
  <2>1. \A p \in Daemons : dpc[p] = "open" => fdev_data # None
    BY Distinct DEF IInv, TypeOK, DaemonInv
  <2>2. \A p \in Daemons : dpc[p] \in {"c_dead", "c_local"} => fdev_data # None
    BY Distinct DEF IInv, TypeOK, DaemonInv
  <2>3. QED
    BY <2>1, <2>2 DEF IInv, SlotInv, DaemonInv, VolumeInv, SessionIsLive, Private
<1>2. QED
  BY <1>1, InvHolds, PTL

\* No session is leaked: whatever happens, somebody is left to free it.
THEOREM NoLeak == Spec => []SomebodyFrees
<1>1. IInv => SomebodyFrees
  <2> SUFFICES ASSUME IInv, NEW x \in Sessions, life[x] = "live"
               PROVE  \/ /\ fdev_data = x
                         /\ \/ x \in opened
                            \/ \E m \in Mounters : Attached(m) /\ mdata[m] = x
                      \/ \E p \in Daemons :
                            dpc[p] \in {"o_install", "o_busy"} /\ ddata[p] = x
    BY DEF SomebodyFrees
  <2>1. CASE fdev_data = x /\ x \in opened
    BY <2>1
  <2>2. CASE fdev_data = x /\ mount_state[x] = "FM_MOUNTED"
    <3>1. PICK m \in Mounters : Attached(m)
      BY <2>2 DEF IInv, MountedInv
    <3>2. mdata[m] = x
      BY <2>2, <3>1 DEF IInv, VolumeInv
    <3>3. QED
      BY <2>2, <3>1, <3>2
  <2>3. CASE fdev_data # x
    BY <2>3 DEF IInv, LiveInv, Private
  <2>4. QED
    BY <2>1, <2>2, <2>3, Distinct DEF IInv, SlotInv
<1>2. QED
  BY <1>1, InvHolds, PTL

\* A mount gets the session of the daemon that asked for it, no session gets
\* two volumes, and fuse_mount_count counts the volumes.
THEOREM MountsTheRightOne == Spec => []MountsOwnSession
<1>1. IInv => MountsOwnSession
  <2> SUFFICES ASSUME IInv PROVE MountsOwnSession
    OBVIOUS
  <2> DEFINE A == {m \in Mounters : Attached(m)}
  <2>1. fuse_mount_count = Cardinality(A)
    <3>1. CASE \A m \in Mounters : ~Attached(m)
      <4>1. A = {}
        BY <3>1
      <4>2. fuse_mount_count = 0
        BY <3>1 DEF IInv, CountInv
      <4>3. QED
        BY <4>1, <4>2, FS_EmptySet
    <3>2. CASE \E m \in Mounters : Attached(m)
      <4>1. PICK m \in Mounters : Attached(m)
        BY <3>2
      <4>2. A = {m}
        BY <4>1 DEF IInv, CountInv
      <4>3. fuse_mount_count = 1
        BY <4>1 DEF IInv, CountInv
      <4>4. Cardinality({m}) = 1
        BY FS_Singleton
      <4>5. QED
        BY <4>2, <4>3, <4>4
    <3>3. QED
      BY <3>1, <3>2
  <2>2. QED
    BY <2>1 DEF IInv, VolumeInv, CountInv, MountsOwnSession
<1>2. QED
  BY <1>1, InvHolds, PTL

\* The teardown of the extension never strikes a slot with a session in it.
THEOREM TearDownSafe == Spec => []TornDownEmpty
<1>1. IInv => TornDownEmpty
  BY DEF IInv, TearInv, TornDownEmpty
<1>2. QED
  BY <1>1, InvHolds, PTL
=============================================================================
