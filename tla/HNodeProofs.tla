---------------------------- MODULE HNodeProofs ----------------------------
(***************************************************************************)
(* Proofs about HNode for any number of threads, ids, nodes and vnodes,    *)
(* with and without the big lock.                                          *)
(*                                                                         *)
(* None of the properties is inductive by itself: that a node is not freed *)
(* under a thread depends on its count of vnodes, the count on who is      *)
(* attaching, that on the program counters, and the identity of a vnode    *)
(* got with vnode_getwithvid on what its vid stood for when it was read.   *)
(* IInv puts these together.                                               *)
(***************************************************************************)
EXTENDS HNode, FiniteSetTheorems, TLAPS

\* A thread between HNodeLookupCreatingIfNecessary and HNodeAttachComplete.
Attaching(t) == pc[t] \in {"vnode_create", "created"}

\* A thread that HNodeLookupCreatingIfNecessary gave a vnode to.
Holding(t) == pc[t] \in {"check", "disappear", "holding"}

\* Which locals of the operations are set, by program counter.
LocalInv == \A t \in Threads :
    /\ thisNode[t] # None <=> Attaching(t) \/ pc[t] = "asleep"
    /\ newNode[t] # None =>
          pc[t] \in {"search", "asleep", "getwithvid"} /\ op[t] # "ioctl"
    /\ op[t] = "ioctl" => pc[t] \in {"getwithvid", "holding"}
    /\ candidateVN[t] # None <=> pc[t] = "getwithvid"
    /\ vn[t] # None => Holding(t) \/ pc[t] = "created"
    /\ Holding(t) => vn[t] # None

\* Memory: a node in use is in the table or in the hands of one lookup.
MemoryInv ==
    /\ linked \subseteq allocated
    /\ allocated \subseteq linked \union {newNode[t] : t \in Threads}
    /\ \A t \in Threads : newNode[t] # None =>
          /\ newNode[t] \in allocated /\ newNode[t] \notin linked
          /\ ino[newNode[t]] = want[t].ino
          /\ \A u \in Threads : newNode[u] = newNode[t] => u = t

\* Memory that is not in the table has no contents, but for its id.
BlankInv == \A a \in Addrs : a \notin linked =>
    /\ forkVNodesCount[a] = 0 /\ forkVNodes[a] = None
    /\ kind[a] = None /\ nlookup[a] = 0
    /\ a \notin attachOutstanding

\* A node in the table has one reference: its vnode or the attach, before
\* whose end no lookup is counted.
CountInv == \A a \in linked :
    /\ forkVNodesCount[a] = 1 /\ kind[a] # None
    /\ forkVNodes[a] = None <=> a \in attachOutstanding
    /\ a \in attachOutstanding => nlookup[a] = 0

\* Who attaches, and who sleeps meanwhile.
AttachInv ==
    /\ waiting \subseteq attachOutstanding
    /\ \A t \in Threads : thisNode[t] # None
         => thisNode[t] \in attachOutstanding
    /\ \A t \in Threads : pc[t] = "asleep" => thisNode[t] \in waiting
    /\ \A a \in attachOutstanding :
          \E t \in Threads : Attaching(t) /\ thisNode[t] = a
    /\ \A t, u \in Threads :
          Attaching(t) /\ Attaching(u) /\ thisNode[t] = thisNode[u] => t = u

\* A vnode in use and its node name each other, or will when the attach ends.
Tied(v) ==
    /\ v_fsnode[v] # None <=> vstate[v] \in {"live", "dying"}
    /\ v_fsnode[v] # None =>
          /\ v_fsnode[v] \in linked
          /\ \/ forkVNodes[v_fsnode[v]] = v
             \/ \E t \in Threads : /\ pc[t] = "created" /\ vn[t] = v
                                   /\ thisNode[t] = v_fsnode[v]
VnodeInv ==
    /\ \A v \in VNodes : Tied(v)
    /\ \A a \in Addrs : forkVNodes[a] # None => v_fsnode[forkVNodes[a]] = a

\* The node a thread attaches or waits for, and the vnode it has a reference
\* on, are of the id it was given.
Held(t) ==
    /\ thisNode[t] # None => ino[thisNode[t]] = want[t].ino
    /\ vn[t] # None => vstate[vn[t]] = "live"
    /\ vn[t] # None /\ pc[t] = "created" => v_fsnode[vn[t]] = thisNode[t]
    /\ Holding(t) =>
          /\ v_fsnode[vn[t]] # None /\ forkVNodes[v_fsnode[vn[t]]] = vn[t]
          /\ ino[v_fsnode[vn[t]]] = want[t].ino
HeldInv == \A t \in Threads : Held(t)

\* The vnode a thread is about to get has another vid by now, or is still the
\* one that the node of the id had.
CandidateInv == \A t \in Threads : candidateVN[t] # None =>
    LET v == candidateVN[t] IN
    /\ cvid[t] <= vid[v]
    /\ vid[v] = cvid[t] =>
          /\ vstate[v] # "free"
          /\ v_fsnode[v] # None => /\ forkVNodes[v_fsnode[v]] = v
                                   /\ ino[v_fsnode[v]] = want[t].ino

\* The inductive invariant.
IInv == /\ TypeOK /\ LocalInv /\ MemoryInv /\ BlankInv /\ CountInv /\ AttachInv
        /\ VnodeInv /\ HeldInv /\ CandidateInv /\ OneNodePerId

-----------------------------------------------------------------------------
\* The entries of the daemon are records of an id and a kind.
LEMMA EntryType ==
    /\ AnEntry \in Entries
    /\ \A e \in Entries : e.ino \in Inos /\ e.kind \in Kinds /\ e.kind # None
<1>1. AnEntry \in Entries
  BY HNodeAssumption DEF AnEntry
<1>2. \A e \in Entries : e.ino \in Inos /\ e.kind \in Kinds
  BY HNodeAssumption
<1>. QED BY <1>1, <1>2, HNodeAssumption

\* An empty table.
LEMMA Init_Inv == Init => IInv
<1>. SUFFICES ASSUME Init PROVE IInv
  OBVIOUS
<1>. USE HNodeAssumption, EntryType DEF Init
<1>1. TypeOK BY DEF TypeOK, PCs, VStates
<1>2. LocalInv BY DEF LocalInv, Attaching, Holding
<1>3. MemoryInv BY DEF MemoryInv
<1>4. BlankInv /\ CountInv BY DEF BlankInv, CountInv
<1>5. AttachInv BY DEF AttachInv, Attaching
<1>6. VnodeInv BY DEF VnodeInv, Tied
<1>7. HeldInv BY DEF HeldInv, Held, Holding
<1>8. CandidateInv /\ OneNodePerId BY DEF CandidateInv, OneNodePerId
<1>. QED BY <1>1, <1>2, <1>3, <1>4, <1>5, <1>6, <1>7, <1>8 DEF IInv

\* Nobody starts or ends an attach, or falls asleep or wakes up.
LEMMA AttachFrame ==
    ASSUME AttachInv,
           \A u \in Threads :
              pc'[u] = pc[u] \/ {pc[u], pc'[u]} \intersect
                                  {"vnode_create", "created", "asleep"} = {},
           UNCHANGED <<thisNode, attachOutstanding, waiting>>
    PROVE  AttachInv'
<1>1. \A u \in Threads : /\ Attaching(u)' <=> Attaching(u)
                         /\ pc'[u] = "asleep" <=> pc[u] = "asleep"
  BY DEF Attaching
<1>. QED BY <1>1 DEF AttachInv

\* An entry arrives.
LEMMA Ask_Inv ==
    ASSUME IInv, NEW t \in Threads, Ask(t)
    PROVE  IInv'
<1>. USE HNodeAssumption, EntryType
     DEF hashVars, fsnodeVars, vnodeVars, threadVars, daemonVars
<1>1. TypeOK'
  BY DEF IInv, TypeOK, PCs, VStates, Ask, LockBig, GoTo
<1>2. LocalInv'
  BY DEF IInv, LocalInv, TypeOK, Attaching, Holding, Ask, LockBig, GoTo
<1>3. MemoryInv'
  BY DEF IInv, MemoryInv, TypeOK, LocalInv, Ask, LockBig, GoTo
<1>4. BlankInv'
  BY DEF IInv, BlankInv, TypeOK, CountInv, Ask, LockBig, GoTo
<1>5. CountInv'
  BY DEF IInv, CountInv, TypeOK, BlankInv, Ask, LockBig, GoTo
<1>6. AttachInv'
  BY AttachFrame DEF IInv, AttachInv, TypeOK, Ask, LockBig, GoTo
<1>7. VnodeInv'
  BY DEF IInv, VnodeInv, TypeOK, LocalInv, Tied, Ask, LockBig, GoTo
<1>8. HeldInv'
  <2>. SUFFICES ASSUME NEW u \in Threads PROVE Held(u)'
    BY DEF HeldInv
  <2>1. CASE u = t
    <3>1. thisNode[t] = None /\ vn'[t] = None /\ pc'[t] = "search"
      BY DEF IInv, TypeOK, LocalInv, Attaching, Holding, Ask, GoTo
    <3>. QED BY <2>1, <3>1 DEF Held, Holding, Ask
  <2>2. CASE u # t
    BY <2>2 DEF IInv, TypeOK, LocalInv, VnodeInv, HeldInv, Held, Holding, Ask,
        GoTo
  <2>. QED BY <2>1, <2>2
<1>9. CandidateInv'
  BY DEF IInv, CandidateInv, TypeOK, LocalInv, VnodeInv, Tied, Ask, LockBig,
      GoTo
<1>10. OneNodePerId'
  BY DEF IInv, OneNodePerId, TypeOK, Ask, LockBig, GoTo
<1>. QED BY <1>1, <1>2, <1>3, <1>4, <1>5, <1>6, <1>7, <1>8, <1>9, <1>10 DEF
    IInv

\* The ioctl reads the vnode of an id.
LEMMA AlterVnodeForInode_Inv ==
    ASSUME IInv, NEW t \in Threads, AlterVnodeForInode(t)
    PROVE  IInv'
<1>. USE HNodeAssumption, EntryType
     DEF hashVars, fsnodeVars, vnodeVars, threadVars, daemonVars
<1>1. TypeOK'
  BY DEF IInv, TypeOK, PCs, VStates, AlterVnodeForInode, GoTo, Found, Busy
<1>2. LocalInv'
  BY DEF IInv, LocalInv, TypeOK, Attaching, Holding, AlterVnodeForInode, GoTo,
      Found, Busy
<1>3. MemoryInv'
  BY DEF IInv, MemoryInv, TypeOK, LocalInv, AlterVnodeForInode, GoTo, Found,
      Busy
<1>4. BlankInv'
  BY DEF IInv, BlankInv, TypeOK, CountInv, AlterVnodeForInode, GoTo, Found,
      Busy
<1>5. CountInv'
  BY DEF IInv, CountInv, TypeOK, BlankInv, AlterVnodeForInode, GoTo, Found,
      Busy
<1>6. AttachInv'
  BY AttachFrame DEF IInv, AttachInv, TypeOK, AlterVnodeForInode, GoTo, Found,
      Busy
<1>7. VnodeInv'
  BY DEF IInv, VnodeInv, TypeOK, LocalInv, Tied, AlterVnodeForInode, GoTo,
      Found, Busy
<1>8. HeldInv'
  <2>. SUFFICES ASSUME NEW u \in Threads PROVE Held(u)'
    BY DEF HeldInv
  <2>1. CASE u = t
    <3>1. thisNode[t] = None /\ vn'[t] = None /\ pc'[t] = "getwithvid"
      BY DEF IInv, TypeOK, LocalInv, Attaching, Holding, AlterVnodeForInode,
          GoTo
    <3>. QED BY <2>1, <3>1 DEF Held, Holding, AlterVnodeForInode
  <2>2. CASE u # t
    BY <2>2 DEF IInv, TypeOK, LocalInv, VnodeInv, HeldInv, Held, Holding,
        AlterVnodeForInode, GoTo
  <2>. QED BY <2>1, <2>2
<1>9. CandidateInv'
  BY DEF IInv, CandidateInv, TypeOK, LocalInv, VnodeInv, Tied,
      AlterVnodeForInode, GoTo, Found, Busy
<1>10. OneNodePerId'
  BY DEF IInv, OneNodePerId, TypeOK, AlterVnodeForInode, GoTo, Found, Busy
<1>. QED BY <1>1, <1>2, <1>3, <1>4, <1>5, <1>6, <1>7, <1>8, <1>9, <1>10 DEF
    IInv

\* A node is allocated outside the table.
LEMMA SearchMiss_Inv ==
    ASSUME IInv, NEW t \in Threads, SearchMiss(t)
    PROVE  IInv'
<1>. USE HNodeAssumption, EntryType
     DEF hashVars, fsnodeVars, vnodeVars, threadVars, daemonVars
<1>1. ASSUME NEW a \in Addrs \ allocated,
            allocated' = allocated \union {a},
            newNode' = [newNode EXCEPT ![t] = a],
            ino' = [ino EXCEPT ![a] = want[t].ino],
            UNCHANGED pc
     PROVE  IInv'
  <2>1. TypeOK'
    BY <1>1 DEF IInv, TypeOK, PCs, VStates, SearchMiss
  <2>2. LocalInv'
    BY <1>1, SMTT(40) DEF IInv, LocalInv, TypeOK, Attaching, Holding,
        SearchMiss
  <2>3. MemoryInv'
    BY <1>1 DEF IInv, MemoryInv, TypeOK, LocalInv, SearchMiss
  <2>4. BlankInv'
    BY <1>1 DEF IInv, BlankInv, TypeOK, CountInv, SearchMiss
  <2>5. CountInv'
    BY <1>1 DEF IInv, CountInv, TypeOK, BlankInv, SearchMiss
  <2>6. AttachInv'
    BY <1>1, AttachFrame DEF IInv, AttachInv, TypeOK, SearchMiss
  <2>7. VnodeInv'
    BY <1>1 DEF IInv, VnodeInv, TypeOK, LocalInv, Tied, SearchMiss
  <2>8. HeldInv'
    BY <1>1, SMTT(40) DEF IInv, HeldInv, TypeOK, LocalInv, VnodeInv, Holding,
        Held, Tied, SearchMiss, MemoryInv, AttachInv, BlankInv
  <2>9. CandidateInv'
    BY <1>1, SMTT(40) DEF IInv, CandidateInv, TypeOK, LocalInv, VnodeInv, Tied,
        SearchMiss, MemoryInv
  <2>10. OneNodePerId'
    BY <1>1, SMTT(40) DEF IInv, OneNodePerId, TypeOK, SearchMiss, MemoryInv
  <2>. QED BY <2>1, <2>2, <2>3, <2>4, <2>5, <2>6, <2>7, <2>8, <2>9, <2>10 DEF
      IInv
<1>2. CASE GoTo(t, "fail") /\ UNCHANGED <<allocated, newNode, ino>>
  <2>1. TypeOK'
    BY <1>2 DEF IInv, TypeOK, PCs, VStates, SearchMiss, GoTo
  <2>2. LocalInv'
    BY <1>2, SMTT(40) DEF IInv, LocalInv, TypeOK, Attaching, Holding,
        SearchMiss, GoTo
  <2>3. MemoryInv'
    BY <1>2 DEF IInv, MemoryInv, TypeOK, LocalInv, SearchMiss, GoTo
  <2>4. BlankInv'
    BY <1>2 DEF IInv, BlankInv, TypeOK, CountInv, SearchMiss, GoTo
  <2>5. CountInv'
    BY <1>2 DEF IInv, CountInv, TypeOK, BlankInv, SearchMiss, GoTo
  <2>6. AttachInv'
    BY <1>2, AttachFrame DEF IInv, AttachInv, TypeOK, SearchMiss, GoTo
  <2>7. VnodeInv'
    BY <1>2 DEF IInv, VnodeInv, TypeOK, LocalInv, Tied, SearchMiss, GoTo
  <2>8. HeldInv'
    BY <1>2, SMTT(40) DEF IInv, HeldInv, TypeOK, LocalInv, VnodeInv, Holding,
        Held, Tied, SearchMiss, GoTo, MemoryInv, AttachInv, BlankInv
  <2>9. CandidateInv'
    BY <1>2, SMTT(40) DEF IInv, CandidateInv, TypeOK, LocalInv, VnodeInv, Tied,
        SearchMiss, GoTo, MemoryInv
  <2>10. OneNodePerId'
    BY <1>2, SMTT(40) DEF IInv, OneNodePerId, TypeOK, SearchMiss, GoTo,
        MemoryInv
  <2>. QED BY <2>1, <2>2, <2>3, <2>4, <2>5, <2>6, <2>7, <2>8, <2>9, <2>10 DEF
      IInv
<1>. QED BY <1>1, <1>2 DEF SearchMiss, GoTo, Found

\* A thread becomes the attacher of a node.
LEMMA ClaimAttach_Inv ==
    ASSUME IInv, NEW t \in Threads, ClaimAttach(t)
    PROVE  IInv'
<1>. USE HNodeAssumption, EntryType
     DEF hashVars, fsnodeVars, vnodeVars, threadVars, daemonVars
<1>1. TypeOK'
  BY DEF IInv, TypeOK, PCs, VStates, ClaimAttach, GoTo, Found, Busy, UnlockBig,
      FillIn, NodeAtHand, Unused, AttachCount
<1>2. LocalInv'
  BY DEF IInv, LocalInv, TypeOK, Attaching, Holding, ClaimAttach, GoTo, Found,
      Busy, UnlockBig, FillIn, NodeAtHand, Unused, AttachCount
<1>3. MemoryInv'
  BY DEF IInv, MemoryInv, TypeOK, LocalInv, ClaimAttach, GoTo, Found, Busy,
      UnlockBig, FillIn, NodeAtHand, Unused, AttachCount
<1>4. BlankInv'
  BY DEF IInv, BlankInv, TypeOK, CountInv, ClaimAttach, GoTo, Found, Busy,
      UnlockBig, FillIn, NodeAtHand, Unused, AttachCount
<1>5. CountInv'
  BY DEF IInv, CountInv, TypeOK, BlankInv, ClaimAttach, GoTo, Found, Busy,
      UnlockBig, FillIn, NodeAtHand, Unused, AttachCount
<1>6. AttachInv'
  BY DEF IInv, AttachInv, TypeOK, LocalInv, Attaching, ClaimAttach, GoTo,
      Found, Busy, UnlockBig, FillIn, NodeAtHand, Unused, AttachCount
<1>7. VnodeInv'
  BY DEF IInv, VnodeInv, TypeOK, LocalInv, Tied, ClaimAttach, GoTo, Found,
      Busy, UnlockBig, FillIn, NodeAtHand, Unused, AttachCount
<1>8. HeldInv'
  <2>. SUFFICES ASSUME NEW u \in Threads PROVE Held(u)'
    BY DEF HeldInv
  <2>1. CASE u = t
    BY <2>1, SMTT(30) DEF IInv, TypeOK, LocalInv, VnodeInv, HeldInv, Held,
        Holding, ClaimAttach, GoTo, Found, Busy, UnlockBig, FillIn, NodeAtHand,
        Unused, AttachCount, MemoryInv, CountInv, AttachInv
  <2>2. CASE u # t
    BY <2>2, SMTT(30) DEF IInv, TypeOK, LocalInv, VnodeInv, HeldInv, Held,
        Holding, ClaimAttach, GoTo, Found, Busy, UnlockBig, FillIn, NodeAtHand,
        Unused, AttachCount, MemoryInv, CountInv, AttachInv
  <2>. QED BY <2>1, <2>2
<1>9. CandidateInv'
  BY DEF IInv, CandidateInv, TypeOK, LocalInv, VnodeInv, Tied, ClaimAttach,
      GoTo, Found, Busy, UnlockBig, FillIn, NodeAtHand, Unused, AttachCount
<1>10. OneNodePerId'
  BY SMTT(40) DEF IInv, OneNodePerId, TypeOK, ClaimAttach, GoTo, Found, Busy,
      UnlockBig, FillIn, NodeAtHand, Unused, AttachCount, MemoryInv
<1>. QED BY <1>1, <1>2, <1>3, <1>4, <1>5, <1>6, <1>7, <1>8, <1>9, <1>10 DEF
    IInv

\* A thread goes to sleep on a node.
LEMMA SearchWait_Inv ==
    ASSUME IInv, NEW t \in Threads, SearchWait(t)
    PROVE  IInv'
<1>. USE HNodeAssumption, EntryType
     DEF hashVars, fsnodeVars, vnodeVars, threadVars, daemonVars
<1>1. TypeOK'
  BY DEF IInv, TypeOK, PCs, VStates, SearchWait, GoTo, Found, Busy, MarkWaiting
<1>2. LocalInv'
  BY DEF IInv, LocalInv, TypeOK, Attaching, Holding, SearchWait, GoTo, Found,
      Busy, MarkWaiting
<1>3. MemoryInv'
  BY DEF IInv, MemoryInv, TypeOK, LocalInv, SearchWait, GoTo, Found, Busy,
      MarkWaiting
<1>4. BlankInv'
  BY DEF IInv, BlankInv, TypeOK, CountInv, SearchWait, GoTo, Found, Busy,
      MarkWaiting
<1>5. CountInv'
  BY DEF IInv, CountInv, TypeOK, BlankInv, SearchWait, GoTo, Found, Busy,
      MarkWaiting
<1>6. AttachInv'
  <2>1. PICK a \in Found(want[t].ino) :
            /\ a \in attachOutstanding /\ waiting' = waiting \union {a}
            /\ thisNode' = [thisNode EXCEPT ![t] = a]
    BY DEF SearchWait, Busy, MarkWaiting
  <2>2. /\ \A u \in Threads : Attaching(u)' <=> Attaching(u) /\ u # t
        /\ \A u \in Threads \ {t} : pc'[u] = pc[u] /\ thisNode'[u] = thisNode[u]
        /\ ~Attaching(t) /\ thisNode'[t] = a /\ UNCHANGED attachOutstanding
    BY <2>1 DEF IInv, TypeOK, Attaching, SearchWait, GoTo
  <2>. QED BY <2>1, <2>2 DEF IInv, AttachInv
<1>7. VnodeInv'
  BY DEF IInv, VnodeInv, TypeOK, LocalInv, Tied, SearchWait, GoTo, Found, Busy,
      MarkWaiting
<1>8. HeldInv'
  BY DEF IInv, HeldInv, TypeOK, LocalInv, VnodeInv, Holding, Held, Tied,
      SearchWait, GoTo, Found, Busy, MarkWaiting
<1>9. CandidateInv'
  BY DEF IInv, CandidateInv, TypeOK, LocalInv, VnodeInv, Tied, SearchWait,
      GoTo, Found, Busy, MarkWaiting
<1>10. OneNodePerId'
  BY DEF IInv, OneNodePerId, TypeOK, SearchWait, GoTo, Found, Busy, MarkWaiting
<1>. QED BY <1>1, <1>2, <1>3, <1>4, <1>5, <1>6, <1>7, <1>8, <1>9, <1>10 DEF
    IInv

\* A lookup reads the vnode of a node.
LEMMA SearchHit_Inv ==
    ASSUME IInv, NEW t \in Threads, SearchHit(t)
    PROVE  IInv'
<1>. USE HNodeAssumption, EntryType
     DEF hashVars, fsnodeVars, vnodeVars, threadVars, daemonVars
<1>1. TypeOK'
  BY DEF IInv, TypeOK, PCs, VStates, SearchHit, GoTo, Found, Busy
<1>2. LocalInv'
  BY DEF IInv, LocalInv, TypeOK, Attaching, Holding, SearchHit, GoTo, Found,
      Busy
<1>3. MemoryInv'
  BY DEF IInv, MemoryInv, TypeOK, LocalInv, SearchHit, GoTo, Found, Busy
<1>4. BlankInv'
  BY DEF IInv, BlankInv, TypeOK, CountInv, SearchHit, GoTo, Found, Busy
<1>5. CountInv'
  BY DEF IInv, CountInv, TypeOK, BlankInv, SearchHit, GoTo, Found, Busy
<1>6. AttachInv'
  BY AttachFrame DEF IInv, AttachInv, TypeOK, SearchHit, GoTo, Found, Busy
<1>7. VnodeInv'
  BY DEF IInv, VnodeInv, TypeOK, LocalInv, Tied, SearchHit, GoTo, Found, Busy
<1>8. HeldInv'
  BY DEF IInv, HeldInv, TypeOK, LocalInv, VnodeInv, Holding, Held, Tied,
      SearchHit, GoTo, Found, Busy
<1>9. CandidateInv'
  BY SMTT(40) DEF IInv, CandidateInv, TypeOK, LocalInv, VnodeInv, Tied,
      SearchHit, GoTo, Found, Busy, CountInv
<1>10. OneNodePerId'
  BY DEF IInv, OneNodePerId, TypeOK, SearchHit, GoTo, Found, Busy
<1>. QED BY <1>1, <1>2, <1>3, <1>4, <1>5, <1>6, <1>7, <1>8, <1>9, <1>10 DEF
    IInv

\* vnode_getwithvid, the race with recycling.
LEMMA GetWithVid_Inv ==
    ASSUME IInv, NEW t \in Threads, GetWithVid(t)
    PROVE  IInv'
<1>. USE HNodeAssumption, EntryType
     DEF hashVars, fsnodeVars, vnodeVars, threadVars, daemonVars
<1>1. CASE /\ SameVnode(t) /\ vstate[candidateVN[t]] = "live"
           /\ vn' = [vn EXCEPT ![t] = candidateVN[t]]
           /\ FreeNewNode(t)
           /\ GoTo(t, IF op[t] = "ioctl" THEN "holding" ELSE "check")
           /\ UNCHANGED <<op, want>>
  <2>1. TypeOK'
    BY <1>1 DEF IInv, TypeOK, PCs, VStates, GetWithVid, GoTo, SameVnode,
        FreeNewNode
  <2>2. LocalInv'
    BY <1>1 DEF IInv, LocalInv, TypeOK, Attaching, Holding, GetWithVid, GoTo,
        SameVnode, FreeNewNode
  <2>3. MemoryInv'
    BY <1>1, SMTT(40) DEF IInv, MemoryInv, TypeOK, LocalInv, GetWithVid, GoTo,
        SameVnode, FreeNewNode
  <2>4. BlankInv'
    BY <1>1 DEF IInv, BlankInv, TypeOK, CountInv, GetWithVid, GoTo, SameVnode,
        FreeNewNode
  <2>5. CountInv'
    BY <1>1 DEF IInv, CountInv, TypeOK, BlankInv, GetWithVid, GoTo, SameVnode,
        FreeNewNode
  <2>6. AttachInv'
    BY <1>1, AttachFrame DEF IInv, AttachInv, TypeOK, GetWithVid, GoTo,
        SameVnode, FreeNewNode
  <2>7. VnodeInv'
    BY <1>1 DEF IInv, VnodeInv, TypeOK, LocalInv, Tied, GetWithVid, GoTo,
        SameVnode, FreeNewNode
  <2>8. HeldInv'
    BY <1>1, SMTT(40) DEF IInv, HeldInv, TypeOK, LocalInv, VnodeInv, Holding,
        Held, Tied, GetWithVid, GoTo, SameVnode, FreeNewNode, MemoryInv,
        AttachInv, CandidateInv, BlankInv
  <2>9. CandidateInv'
    BY <1>1, SMTT(40) DEF IInv, CandidateInv, TypeOK, LocalInv, VnodeInv, Tied,
        GetWithVid, GoTo, SameVnode, FreeNewNode, MemoryInv
  <2>10. OneNodePerId'
    BY <1>1, SMTT(40) DEF IInv, OneNodePerId, TypeOK, GetWithVid, GoTo,
        SameVnode, FreeNewNode, MemoryInv
  <2>. QED BY <2>1, <2>2, <2>3, <2>4, <2>5, <2>6, <2>7, <2>8, <2>9, <2>10 DEF
      IInv
<1>2. CASE /\ op[t] = "ioctl" /\ Leave(t)
           /\ UNCHANGED <<vn, newNode, allocated, ino>>
  <2>1. TypeOK'
    BY <1>2 DEF IInv, TypeOK, PCs, VStates, GetWithVid, GoTo, Leave
  <2>2. LocalInv'
    BY <1>2 DEF IInv, LocalInv, TypeOK, Attaching, Holding, GetWithVid, GoTo,
        Leave
  <2>3. MemoryInv'
    BY <1>2, SMTT(40) DEF IInv, MemoryInv, TypeOK, LocalInv, GetWithVid, GoTo,
        Leave
  <2>4. BlankInv'
    BY <1>2 DEF IInv, BlankInv, TypeOK, CountInv, GetWithVid, GoTo, Leave
  <2>5. CountInv'
    BY <1>2 DEF IInv, CountInv, TypeOK, BlankInv, GetWithVid, GoTo, Leave
  <2>6. AttachInv'
    BY <1>2, AttachFrame DEF IInv, AttachInv, TypeOK, GetWithVid, GoTo, Leave
  <2>7. VnodeInv'
    BY <1>2 DEF IInv, VnodeInv, TypeOK, LocalInv, Tied, GetWithVid, GoTo, Leave
  <2>8. HeldInv'
    <3>. SUFFICES ASSUME NEW u \in Threads PROVE Held(u)'
      BY DEF HeldInv
    <3>1. CASE u = t
      <4>1. thisNode[t] = None /\ vn'[t] = None /\ pc'[t] = "idle"
        BY <1>2 DEF IInv, TypeOK, LocalInv, Attaching, Holding, GetWithVid,
            Leave,
          GoTo
      <4>. QED BY <3>1, <4>1 DEF Held, Holding, GetWithVid
    <3>2. CASE u # t
      BY <1>2, <3>2 DEF IInv, TypeOK, LocalInv, HeldInv, Held, Holding,
          GetWithVid,
        Leave, GoTo
    <3>. QED BY <3>1, <3>2
  <2>9. CandidateInv'
    BY <1>2, SMTT(40) DEF IInv, CandidateInv, TypeOK, LocalInv, VnodeInv, Tied,
        GetWithVid, GoTo, Leave, MemoryInv
  <2>10. OneNodePerId'
    BY <1>2, SMTT(40) DEF IInv, OneNodePerId, TypeOK, GetWithVid, GoTo, Leave,
        MemoryInv
  <2>. QED BY <2>1, <2>2, <2>3, <2>4, <2>5, <2>6, <2>7, <2>8, <2>9, <2>10 DEF
      IInv
<1>3. CASE /\ op[t] # "ioctl" /\ GoTo(t, "search") /\ UNCHANGED <<op, want>>
           /\ UNCHANGED <<vn, newNode, allocated, ino>>
  <2>1. TypeOK'
    BY <1>3 DEF IInv, TypeOK, PCs, VStates, GetWithVid, GoTo
  <2>2. LocalInv'
    BY <1>3 DEF IInv, LocalInv, TypeOK, Attaching, Holding, GetWithVid, GoTo
  <2>3. MemoryInv'
    BY <1>3, SMTT(40) DEF IInv, MemoryInv, TypeOK, LocalInv, GetWithVid, GoTo
  <2>4. BlankInv'
    BY <1>3 DEF IInv, BlankInv, TypeOK, CountInv, GetWithVid, GoTo
  <2>5. CountInv'
    BY <1>3 DEF IInv, CountInv, TypeOK, BlankInv, GetWithVid, GoTo
  <2>6. AttachInv'
    BY <1>3, AttachFrame DEF IInv, AttachInv, TypeOK, GetWithVid, GoTo
  <2>7. VnodeInv'
    BY <1>3 DEF IInv, VnodeInv, TypeOK, LocalInv, Tied, GetWithVid, GoTo
  <2>8. HeldInv'
    BY <1>3, SMTT(40) DEF IInv, HeldInv, TypeOK, LocalInv, VnodeInv, Holding,
        Held, Tied, GetWithVid, GoTo, MemoryInv, AttachInv
  <2>9. CandidateInv'
    BY <1>3, SMTT(40) DEF IInv, CandidateInv, TypeOK, LocalInv, VnodeInv, Tied,
        GetWithVid, GoTo, MemoryInv
  <2>10. OneNodePerId'
    BY <1>3, SMTT(40) DEF IInv, OneNodePerId, TypeOK, GetWithVid, GoTo,
        MemoryInv
  <2>. QED BY <2>1, <2>2, <2>3, <2>4, <2>5, <2>6, <2>7, <2>8, <2>9, <2>10 DEF
      IInv
<1>. QED BY <1>1, <1>2, <1>3 DEF GetWithVid, GoTo, SameVnode, FreeNewNode,
    Leave

\* The kernel makes a vnode, or does not.
LEMMA VnodeCreate_Inv ==
    ASSUME IInv, NEW t \in Threads, VnodeCreate(t)
    PROVE  IInv'
<1>. USE HNodeAssumption, EntryType
     DEF hashVars, fsnodeVars, vnodeVars, threadVars, daemonVars
<1>1. ASSUME NEW v \in VNodes, vstate[v] = "free",
            vstate' = [vstate EXCEPT ![v] = "live"],
            v_fsnode' = [v_fsnode EXCEPT ![v] = thisNode[t]],
            vn' = [vn EXCEPT ![t] = v]
     PROVE  IInv'
  <2>1. TypeOK'
    BY <1>1 DEF IInv, TypeOK, PCs, VStates, VnodeCreate, GoTo
  <2>2. LocalInv'
    BY <1>1 DEF IInv, LocalInv, TypeOK, Attaching, Holding, VnodeCreate, GoTo
  <2>3. MemoryInv'
    BY <1>1 DEF IInv, MemoryInv, TypeOK, LocalInv, VnodeCreate, GoTo
  <2>4. BlankInv'
    BY <1>1 DEF IInv, BlankInv, TypeOK, CountInv, VnodeCreate, GoTo
  <2>5. CountInv'
    BY <1>1 DEF IInv, CountInv, TypeOK, BlankInv, VnodeCreate, GoTo
  <2>6. AttachInv'
    BY <1>1 DEF IInv, AttachInv, TypeOK, LocalInv, Attaching, VnodeCreate, GoTo
  <2>7. VnodeInv'
    <3>1. vn[t] = None /\ thisNode[t] \in linked
      BY DEF IInv, TypeOK, LocalInv, BlankInv, AttachInv, Attaching, Holding,
        VnodeCreate
    <3>2. Tied(v)'
      BY <1>1, <3>1 DEF IInv, TypeOK, Tied, VnodeCreate, GoTo
    <3>3. ASSUME NEW w \in VNodes \ {v} PROVE Tied(w)'
      BY <1>1, <3>1, <3>3 DEF IInv, TypeOK, VnodeInv, Tied, VnodeCreate, GoTo
    <3>4. ASSUME NEW a \in Addrs, forkVNodes'[a] # None
          PROVE  v_fsnode'[forkVNodes'[a]] = a
      <4>1. v_fsnode[v] = None
        BY <1>1 DEF IInv, TypeOK, VnodeInv, Tied
      <4>2. forkVNodes'[a] = forkVNodes[a] /\ v_fsnode[forkVNodes[a]] = a
        BY <3>4 DEF IInv, VnodeInv, VnodeCreate
      <4>3. a # None /\ forkVNodes[a] \in VNodes
        BY <3>4, <4>2 DEF IInv, TypeOK
      <4>. QED BY <1>1, <4>1, <4>2, <4>3 DEF IInv, TypeOK
    <3>. QED BY <3>2, <3>3, <3>4 DEF VnodeInv
  <2>8. HeldInv'
    BY <1>1, SMTT(40) DEF IInv, HeldInv, TypeOK, LocalInv, VnodeInv, Holding,
        Held, Tied, VnodeCreate, GoTo
  <2>9. CandidateInv'
    BY <1>1 DEF IInv, CandidateInv, TypeOK, LocalInv, VnodeInv, Tied,
        VnodeCreate, GoTo
  <2>10. OneNodePerId'
    BY <1>1 DEF IInv, OneNodePerId, TypeOK, VnodeCreate, GoTo
  <2>. QED BY <2>1, <2>2, <2>3, <2>4, <2>5, <2>6, <2>7, <2>8, <2>9, <2>10 DEF
      IInv
<1>2. CASE UNCHANGED <<vstate, v_fsnode, vn>>
  <2>1. TypeOK'
    BY <1>2 DEF IInv, TypeOK, PCs, VStates, VnodeCreate, GoTo
  <2>2. LocalInv'
    BY <1>2 DEF IInv, LocalInv, TypeOK, Attaching, Holding, VnodeCreate, GoTo
  <2>3. MemoryInv'
    BY <1>2 DEF IInv, MemoryInv, TypeOK, LocalInv, VnodeCreate, GoTo
  <2>4. BlankInv'
    BY <1>2 DEF IInv, BlankInv, TypeOK, CountInv, VnodeCreate, GoTo
  <2>5. CountInv'
    BY <1>2 DEF IInv, CountInv, TypeOK, BlankInv, VnodeCreate, GoTo
  <2>6. AttachInv'
    BY <1>2 DEF IInv, AttachInv, TypeOK, LocalInv, Attaching, VnodeCreate, GoTo
  <2>7. VnodeInv'
    BY <1>2, SMTT(40) DEF IInv, VnodeInv, TypeOK, LocalInv, Tied, VnodeCreate,
        GoTo, BlankInv
  <2>8. HeldInv'
    BY <1>2, SMTT(40) DEF IInv, HeldInv, TypeOK, LocalInv, VnodeInv, Holding,
        Held, Tied, VnodeCreate, GoTo
  <2>9. CandidateInv'
    BY <1>2 DEF IInv, CandidateInv, TypeOK, LocalInv, VnodeInv, Tied,
        VnodeCreate, GoTo
  <2>10. OneNodePerId'
    BY <1>2 DEF IInv, OneNodePerId, TypeOK, VnodeCreate, GoTo
  <2>. QED BY <2>1, <2>2, <2>3, <2>4, <2>5, <2>6, <2>7, <2>8, <2>9, <2>10 DEF
      IInv
<1>. QED BY <1>1, <1>2 DEF VnodeCreate, GoTo

\* The attach ends with a vnode.
LEMMA HNodeAttachVNodeSucceeded_Inv ==
    ASSUME IInv, NEW t \in Threads, HNodeAttachVNodeSucceeded(t)
    PROVE  IInv'
<1>. USE HNodeAssumption, EntryType
     DEF hashVars, fsnodeVars, vnodeVars, threadVars, daemonVars
<1>1. TypeOK'
  BY DEF IInv, TypeOK, PCs, VStates, HNodeAttachVNodeSucceeded, LockBig,
      HNodeAttachComplete, AttachOver, Woken
<1>2. LocalInv'
  BY DEF IInv, LocalInv, TypeOK, Attaching, Holding, HNodeAttachVNodeSucceeded,
      LockBig, HNodeAttachComplete, AttachOver, Woken
<1>3. MemoryInv'
  BY DEF IInv, MemoryInv, TypeOK, LocalInv, HNodeAttachVNodeSucceeded, LockBig,
      HNodeAttachComplete, AttachOver, Woken
<1>4. BlankInv'
  BY SMTT(40) DEF IInv, BlankInv, TypeOK, CountInv, HNodeAttachVNodeSucceeded,
      LockBig, HNodeAttachComplete, AttachOver, Woken, LocalInv, AttachInv
<1>5. CountInv'
  BY DEF IInv, CountInv, TypeOK, BlankInv, HNodeAttachVNodeSucceeded, LockBig,
      HNodeAttachComplete, AttachOver, Woken
<1>6. AttachInv'
  <2>. DEFINE a == thisNode[t]
  <2>. HIDE DEF a
  <2>1. /\ attachOutstanding' = attachOutstanding \ {a}
        /\ waiting' = waiting \ {a}
        /\ \A u \in Threads :
              IF u = t \/ u \in Woken(a)
              THEN thisNode'[u] = None /\ pc'[u] \in {"check", "search"}
              ELSE thisNode'[u] = thisNode[u] /\ pc'[u] = pc[u]
    BY DEF HNodeAttachVNodeSucceeded, HNodeAttachComplete, AttachOver, a
  <2>a. a \in attachOutstanding
    BY DEF IInv, LocalInv, AttachInv, Attaching, HNodeAttachVNodeSucceeded, a
  <2>2. \A u \in Threads : thisNode[u] = a => u = t \/ u \in Woken(a)
    BY <2>a DEF IInv, LocalInv, AttachInv, Attaching, Woken,
      HNodeAttachVNodeSucceeded, a
  <2>3. \A u \in Threads : u \in Woken(a) => ~Attaching(u)
    BY DEF Attaching, Woken
  <2>4. \A u \in Threads : Attaching(u)' <=> Attaching(u) /\ u # t
    BY <2>1, <2>3 DEF Attaching
  <2>5. \A b \in attachOutstanding' :
          \E u \in Threads : Attaching(u)' /\ thisNode'[u] = b
    <3>. SUFFICES ASSUME NEW b \in attachOutstanding, b # a
                 PROVE  \E u \in Threads : Attaching(u)' /\ thisNode'[u] = b
      BY <2>1
    <3>1. PICK u \in Threads : Attaching(u) /\ thisNode[u] = b
      BY DEF IInv, AttachInv
    <3>2. u # t
      BY <3>1 DEF a
    <3>. QED BY <2>1, <2>3, <2>4, <3>1, <3>2
  <2>. QED BY <2>1, <2>2, <2>3, <2>4, <2>5 DEF IInv, AttachInv
<1>7. VnodeInv'
  <2>1. /\ thisNode[t] \in attachOutstanding /\ v_fsnode[vn[t]] = thisNode[t]
        /\ forkVNodes[thisNode[t]] = None
    BY DEF IInv, TypeOK, LocalInv, CountInv, BlankInv, AttachInv, HeldInv, Held,
      Attaching, HNodeAttachVNodeSucceeded
  <2>2. ASSUME NEW w \in VNodes PROVE Tied(w)'
    <3>1. CASE v_fsnode[w] = thisNode[t]
      <4>1. ASSUME NEW u \in Threads, pc[u] = "created",
                   thisNode[u] = v_fsnode[w], vn[u] = w
            PROVE  w = vn[t]
        BY <3>1, <4>1 DEF IInv, AttachInv, Attaching, HNodeAttachVNodeSucceeded
      <4>. QED BY <2>1, <3>1, <4>1 DEF IInv, TypeOK, VnodeInv, Tied,
        HNodeAttachVNodeSucceeded
    <3>2. CASE v_fsnode[w] # thisNode[t]
      BY <3>2 DEF IInv, TypeOK, VnodeInv, Tied, HNodeAttachVNodeSucceeded,
        HNodeAttachComplete, Woken
    <3>. QED BY <3>1, <3>2
  <2>3. ASSUME NEW a \in Addrs, forkVNodes'[a] # None
        PROVE  v_fsnode'[forkVNodes'[a]] = a
    BY <2>1, <2>3 DEF IInv, TypeOK, VnodeInv, HNodeAttachVNodeSucceeded
  <2>. QED BY <2>2, <2>3 DEF VnodeInv
<1>8. HeldInv'
  BY SMTT(40) DEF IInv, HeldInv, TypeOK, LocalInv, VnodeInv, Holding, Held,
      Tied, HNodeAttachVNodeSucceeded, LockBig, HNodeAttachComplete,
      AttachOver, Woken, AttachInv, CountInv
<1>9. CandidateInv'
  BY SMTT(40) DEF IInv, CandidateInv, TypeOK, LocalInv, VnodeInv, Tied,
      HNodeAttachVNodeSucceeded, LockBig, HNodeAttachComplete, AttachOver,
      Woken, AttachInv, CountInv
<1>10. OneNodePerId'
  BY DEF IInv, OneNodePerId, TypeOK, HNodeAttachVNodeSucceeded, LockBig,
      HNodeAttachComplete, AttachOver, Woken
<1>. QED BY <1>1, <1>2, <1>3, <1>4, <1>5, <1>6, <1>7, <1>8, <1>9, <1>10 DEF
    IInv

\* The attach ends without a vnode: the node is freed.
LEMMA HNodeAttachVNodeFailed_Inv ==
    ASSUME IInv, NEW t \in Threads, HNodeAttachVNodeFailed(t)
    PROVE  IInv'
<1>. USE HNodeAssumption, EntryType
     DEF hashVars, fsnodeVars, vnodeVars, threadVars, daemonVars
<1>. DEFINE a == thisNode[t]
<1>a. /\ a \in linked /\ a \in attachOutstanding /\ a \in Addrs
      /\ forkVNodesCount[a] = 1 /\ forkVNodes[a] = None
  BY DEF IInv, TypeOK, LocalInv, BlankInv, CountInv, AttachInv, Attaching,
    HNodeAttachVNodeFailed
<1>b. /\ forkVNodesCount' = [forkVNodesCount EXCEPT ![a] = @ - 1]
      /\ linked' = linked \ {a} /\ allocated' = allocated \ {a}
      /\ ino' = [ino EXCEPT ![a] = AnEntry.ino]
      /\ kind' = [kind EXCEPT ![a] = None]
      /\ nlookup' = [nlookup EXCEPT ![a] = 0]
  BY <1>a DEF HNodeAttachVNodeFailed, HNodeForkVNodeDecrement
<1>. HIDE DEF a
<1>1. TypeOK'
  <2>1. allocated' \subseteq Addrs /\ linked' \subseteq Addrs
    BY <1>a, <1>b DEF IInv, TypeOK
  <2>2. ino' \in [Addrs -> Inos] /\ nlookup' \in [Addrs -> Nat]
    BY <1>a, <1>b DEF IInv, TypeOK
  <2>3. kind' \in [Addrs -> Kinds \union {None}]
    BY <1>a, <1>b DEF IInv, TypeOK
  <2>4. forkVNodesCount' \in [Addrs -> Nat]
    BY <1>a, <1>b DEF IInv, TypeOK
  <2>5. /\ attachOutstanding' \subseteq Addrs /\ waiting' \subseteq Addrs
        /\ thisNode' \in [Threads -> Addrs \union {None}]
    BY DEF IInv, TypeOK, HNodeAttachVNodeFailed, HNodeAttachComplete, AttachOver
  <2>6. pc' \in [Threads -> PCs] /\ biglock' \in Threads \union {None}
    BY DEF IInv, TypeOK, PCs, HNodeAttachVNodeFailed, HNodeAttachComplete,
        LockBig
  <2>. QED BY <2>1, <2>2, <2>3, <2>4, <2>5, <2>6 DEF IInv, TypeOK,
    HNodeAttachVNodeFailed
<1>2. LocalInv'
  BY DEF IInv, LocalInv, TypeOK, Attaching, Holding, HNodeAttachVNodeFailed,
      LockBig, HNodeAttachComplete, AttachOver, Woken, HNodeForkVNodeDecrement
<1>3. MemoryInv'
  BY SMTT(40) DEF IInv, MemoryInv, TypeOK, LocalInv, HNodeAttachVNodeFailed,
      LockBig, HNodeAttachComplete, AttachOver, Woken, HNodeForkVNodeDecrement,
      AttachInv, CountInv, BlankInv, Attaching
<1>4. BlankInv'
  BY SMTT(40) DEF IInv, BlankInv, TypeOK, CountInv, HNodeAttachVNodeFailed,
      LockBig, HNodeAttachComplete, AttachOver, Woken, HNodeForkVNodeDecrement,
      AttachInv, Attaching, LocalInv, MemoryInv
<1>5. CountInv'
  BY DEF IInv, CountInv, TypeOK, BlankInv, HNodeAttachVNodeFailed, LockBig,
      HNodeAttachComplete, AttachOver, Woken, HNodeForkVNodeDecrement
<1>6. AttachInv'
  <2>1. /\ attachOutstanding' = attachOutstanding \ {a}
        /\ waiting' = waiting \ {a}
        /\ \A u \in Threads :
              IF u = t \/ u \in Woken(a)
              THEN thisNode'[u] = None /\ pc'[u] \in {"fail", "search"}
              ELSE thisNode'[u] = thisNode[u] /\ pc'[u] = pc[u]
    BY DEF HNodeAttachVNodeFailed, HNodeAttachComplete, AttachOver, a
  <2>2. \A u \in Threads : thisNode[u] = a => u = t \/ u \in Woken(a)
    BY <1>a DEF IInv, LocalInv, AttachInv, Attaching, Woken,
      HNodeAttachVNodeFailed, a
  <2>3. \A u \in Threads : u \in Woken(a) => ~Attaching(u)
    BY DEF Attaching, Woken
  <2>4. \A u \in Threads : Attaching(u)' <=> Attaching(u) /\ u # t
    BY <2>1, <2>3 DEF Attaching
  <2>5. \A b \in attachOutstanding' :
          \E u \in Threads : Attaching(u)' /\ thisNode'[u] = b
    <3>. SUFFICES ASSUME NEW b \in attachOutstanding, b # a
                 PROVE  \E u \in Threads : Attaching(u)' /\ thisNode'[u] = b
      BY <2>1
    <3>1. PICK u \in Threads : Attaching(u) /\ thisNode[u] = b
      BY DEF IInv, AttachInv
    <3>2. u # t
      BY <3>1 DEF a
    <3>. QED BY <2>1, <2>3, <2>4, <3>1, <3>2
  <2>. QED BY <2>1, <2>2, <2>3, <2>4, <2>5 DEF IInv, AttachInv
<1>7. VnodeInv'
  BY SMTT(40) DEF IInv, VnodeInv, TypeOK, LocalInv, Tied,
      HNodeAttachVNodeFailed, LockBig, HNodeAttachComplete, AttachOver, Woken,
      HNodeForkVNodeDecrement, AttachInv, CountInv, BlankInv, Attaching,
      MemoryInv
<1>8. HeldInv'
  BY SMTT(40) DEF IInv, HeldInv, TypeOK, LocalInv, VnodeInv, Holding, Held,
      Tied, HNodeAttachVNodeFailed, LockBig, HNodeAttachComplete, AttachOver,
      Woken, HNodeForkVNodeDecrement, AttachInv, CountInv, BlankInv, Attaching,
      MemoryInv
<1>9. CandidateInv'
  BY SMTT(40) DEF IInv, CandidateInv, TypeOK, LocalInv, VnodeInv, Tied,
      HNodeAttachVNodeFailed, LockBig, HNodeAttachComplete, AttachOver, Woken,
      HNodeForkVNodeDecrement, AttachInv, CountInv, BlankInv, Attaching,
      MemoryInv
<1>10. OneNodePerId'
  BY DEF IInv, OneNodePerId, TypeOK, HNodeAttachVNodeFailed, LockBig,
      HNodeAttachComplete, AttachOver, Woken, HNodeForkVNodeDecrement
<1>. QED BY <1>1, <1>2, <1>3, <1>4, <1>5, <1>6, <1>7, <1>8, <1>9, <1>10 DEF
    IInv

\* The lookup is counted.
LEMMA Accept_Inv ==
    ASSUME IInv, NEW t \in Threads, Accept(t)
    PROVE  IInv'
<1>. USE HNodeAssumption, EntryType
     DEF hashVars, fsnodeVars, vnodeVars, threadVars, daemonVars
<1>1. TypeOK'
  <2>1. nlookup' \in [Addrs -> Nat]
    BY DEF IInv, TypeOK, Accept, GoTo, UnlockBig, LocalInv, HeldInv, Held,
        Holding
  <2>2. unreturned' \in [Inos -> Nat]
    <3>1. want[t].ino \in Inos
      BY DEF IInv, TypeOK
    <3>. QED BY <3>1 DEF IInv, TypeOK, Accept
  <2>3. /\ pc' \in [Threads -> PCs]
       /\ biglock' \in Threads \union {None}
    BY DEF IInv, TypeOK, Accept, GoTo, UnlockBig, LocalInv, HeldInv, Held,
        Holding, PCs
  <2>. QED BY <2>1, <2>2, <2>3 DEF IInv, TypeOK, Accept
<1>2. LocalInv'
  BY DEF IInv, LocalInv, TypeOK, Attaching, Holding, Accept, GoTo, UnlockBig
<1>3. MemoryInv'
  BY DEF IInv, MemoryInv, TypeOK, LocalInv, Accept, GoTo, UnlockBig
<1>4. BlankInv'
  BY DEF IInv, BlankInv, TypeOK, CountInv, Accept, GoTo, UnlockBig
<1>5. CountInv'
  <2>1. v_fsnode[vn[t]] \in linked /\ v_fsnode[vn[t]] \notin attachOutstanding
    BY DEF IInv, TypeOK, LocalInv, CountInv, VnodeInv, Tied, HeldInv, Held,
      Holding, Accept
  <2>. QED BY <2>1 DEF IInv, TypeOK, CountInv, Accept
<1>6. AttachInv'
  BY AttachFrame DEF IInv, AttachInv, TypeOK, Accept, GoTo, UnlockBig
<1>7. VnodeInv'
  BY DEF IInv, VnodeInv, TypeOK, LocalInv, Tied, Accept, GoTo, UnlockBig
<1>8. HeldInv'
  BY DEF IInv, HeldInv, TypeOK, LocalInv, VnodeInv, Holding, Held, Tied,
      Accept, GoTo, UnlockBig
<1>9. CandidateInv'
  BY DEF IInv, CandidateInv, TypeOK, LocalInv, VnodeInv, Tied, Accept, GoTo,
      UnlockBig
<1>10. OneNodePerId'
  BY DEF IInv, OneNodePerId, TypeOK, Accept, GoTo, UnlockBig
<1>. QED BY <1>1, <1>2, <1>3, <1>4, <1>5, <1>6, <1>7, <1>8, <1>9, <1>10 DEF
    IInv

\* The node is of another kind than the entry.
LEMMA Disappear_Inv ==
    ASSUME IInv, NEW t \in Threads, Disappear(t)
    PROVE  IInv'
<1>. USE HNodeAssumption, EntryType
     DEF hashVars, fsnodeVars, vnodeVars, threadVars, daemonVars
<1>1. TypeOK'
  BY DEF IInv, TypeOK, PCs, VStates, Disappear, GoTo, UnlockBig
<1>2. LocalInv'
  BY DEF IInv, LocalInv, TypeOK, Attaching, Holding, Disappear, GoTo, UnlockBig
<1>3. MemoryInv'
  BY DEF IInv, MemoryInv, TypeOK, LocalInv, Disappear, GoTo, UnlockBig
<1>4. BlankInv'
  BY DEF IInv, BlankInv, TypeOK, CountInv, Disappear, GoTo, UnlockBig
<1>5. CountInv'
  BY DEF IInv, CountInv, TypeOK, BlankInv, Disappear, GoTo, UnlockBig
<1>6. AttachInv'
  BY AttachFrame DEF IInv, AttachInv, TypeOK, Disappear, GoTo, UnlockBig
<1>7. VnodeInv'
  BY DEF IInv, VnodeInv, TypeOK, LocalInv, Tied, Disappear, GoTo, UnlockBig
<1>8. HeldInv'
  BY DEF IInv, HeldInv, TypeOK, LocalInv, VnodeInv, Holding, Held, Tied,
      Disappear, GoTo, UnlockBig
<1>9. CandidateInv'
  BY DEF IInv, CandidateInv, TypeOK, LocalInv, VnodeInv, Tied, Disappear, GoTo,
      UnlockBig
<1>10. OneNodePerId'
  BY DEF IInv, OneNodePerId, TypeOK, Disappear, GoTo, UnlockBig
<1>. QED BY <1>1, <1>2, <1>3, <1>4, <1>5, <1>6, <1>7, <1>8, <1>9, <1>10 DEF
    IInv

\* The reference on the vnode of another kind is dropped.
LEMMA Disappeared_Inv ==
    ASSUME IInv, NEW t \in Threads, Disappeared(t)
    PROVE  IInv'
<1>. USE HNodeAssumption, EntryType
     DEF hashVars, fsnodeVars, vnodeVars, threadVars, daemonVars
<1>1. TypeOK'
  BY DEF IInv, TypeOK, PCs, VStates, Disappeared, GoTo, LockBig
<1>2. LocalInv'
  BY DEF IInv, LocalInv, TypeOK, Attaching, Holding, Disappeared, GoTo, LockBig
<1>3. MemoryInv'
  BY DEF IInv, MemoryInv, TypeOK, LocalInv, Disappeared, GoTo, LockBig
<1>4. BlankInv'
  BY DEF IInv, BlankInv, TypeOK, CountInv, Disappeared, GoTo, LockBig
<1>5. CountInv'
  BY DEF IInv, CountInv, TypeOK, BlankInv, Disappeared, GoTo, LockBig
<1>6. AttachInv'
  BY AttachFrame DEF IInv, AttachInv, TypeOK, Disappeared, GoTo, LockBig
<1>7. VnodeInv'
  BY DEF IInv, VnodeInv, TypeOK, LocalInv, Tied, Disappeared, GoTo, LockBig
<1>8. HeldInv'
  BY DEF IInv, HeldInv, TypeOK, LocalInv, VnodeInv, Holding, Held, Tied,
      Disappeared, GoTo, LockBig
<1>9. CandidateInv'
  BY DEF IInv, CandidateInv, TypeOK, LocalInv, VnodeInv, Tied, Disappeared,
      GoTo, LockBig
<1>10. OneNodePerId'
  BY DEF IInv, OneNodePerId, TypeOK, Disappeared, GoTo, LockBig
<1>. QED BY <1>1, <1>2, <1>3, <1>4, <1>5, <1>6, <1>7, <1>8, <1>9, <1>10 DEF
    IInv

\* An entry is given back.
LEMMA Fail_Inv ==
    ASSUME IInv, NEW t \in Threads, Fail(t)
    PROVE  IInv'
<1>. USE HNodeAssumption, EntryType
     DEF hashVars, fsnodeVars, vnodeVars, threadVars, daemonVars
<1>1. TypeOK'
  <2>1. /\ daemon' \in [Inos -> Int]
       /\ releasing' \in [Inos -> Nat]
    BY DEF IInv, TypeOK, Fail, GoTo, UnlockBig, Leave, ForgetOne
  <2>2. pc' \in [Threads -> PCs]
    BY DEF IInv, TypeOK, Fail, GoTo, UnlockBig, Leave, ForgetOne, PCs
  <2>3. /\ op' \in [Threads -> {"lookup", "create", "ioctl"}]
       /\ want' \in [Threads -> Entries]
    BY DEF IInv, TypeOK, Fail, GoTo, UnlockBig, Leave, ForgetOne
  <2>4. biglock' \in Threads \union {None}
    BY DEF IInv, TypeOK, Fail, GoTo, UnlockBig, Leave, ForgetOne
  <2>. QED BY <2>1, <2>2, <2>3, <2>4 DEF IInv, TypeOK, Fail
<1>2. LocalInv'
  BY DEF IInv, LocalInv, TypeOK, Attaching, Holding, Fail, GoTo, UnlockBig,
      Leave, ForgetOne
<1>3. MemoryInv'
  BY DEF IInv, MemoryInv, TypeOK, LocalInv, Fail, GoTo, UnlockBig, Leave,
      ForgetOne
<1>4. BlankInv'
  BY DEF IInv, BlankInv, TypeOK, CountInv, Fail, GoTo, UnlockBig, Leave,
      ForgetOne
<1>5. CountInv'
  BY DEF IInv, CountInv, TypeOK, BlankInv, Fail, GoTo, UnlockBig, Leave,
      ForgetOne
<1>6. AttachInv'
  BY AttachFrame DEF IInv, AttachInv, TypeOK, Fail, GoTo, UnlockBig, Leave,
      ForgetOne
<1>7. VnodeInv'
  BY DEF IInv, VnodeInv, TypeOK, LocalInv, Tied, Fail, GoTo, UnlockBig, Leave,
      ForgetOne
<1>8. HeldInv'
  <2>. SUFFICES ASSUME NEW u \in Threads PROVE Held(u)'
    BY DEF HeldInv
  <2>1. CASE u = t
    <3>1. thisNode[t] = None /\ vn'[t] = None /\ pc'[t] = "idle"
      BY DEF IInv, TypeOK, LocalInv, Attaching, Holding, Fail, Leave, GoTo
    <3>. QED BY <2>1, <3>1 DEF Held, Holding, Fail
  <2>2. CASE u # t
    BY <2>2 DEF IInv, TypeOK, LocalInv, VnodeInv, HeldInv, Held, Holding, Fail,
        Leave, GoTo
  <2>. QED BY <2>1, <2>2
<1>9. CandidateInv'
  BY DEF IInv, CandidateInv, TypeOK, LocalInv, VnodeInv, Tied, Fail, GoTo,
      UnlockBig, Leave, ForgetOne
<1>10. OneNodePerId'
  BY DEF IInv, OneNodePerId, TypeOK, Fail, GoTo, UnlockBig, Leave, ForgetOne
<1>. QED BY <1>1, <1>2, <1>3, <1>4, <1>5, <1>6, <1>7, <1>8, <1>9, <1>10 DEF
    IInv

\* The reference on the vnode is dropped.
LEMMA Put_Inv ==
    ASSUME IInv, NEW t \in Threads, Put(t)
    PROVE  IInv'
<1>. USE HNodeAssumption, EntryType
     DEF hashVars, fsnodeVars, vnodeVars, threadVars, daemonVars
<1>1. TypeOK'
  BY DEF IInv, TypeOK, PCs, VStates, Put, GoTo, Leave
<1>2. LocalInv'
  BY DEF IInv, LocalInv, TypeOK, Attaching, Holding, Put, GoTo, Leave
<1>3. MemoryInv'
  <2>1. newNode[t] = None /\ UNCHANGED <<allocated, linked, ino, newNode>>
    BY DEF IInv, LocalInv, Put
  <2>2. \A u \in Threads \ {t} : want'[u] = want[u]
    BY DEF IInv, TypeOK, Put, Leave
  <2>. QED BY <2>1, <2>2 DEF IInv, MemoryInv
<1>4. BlankInv'
  BY DEF IInv, BlankInv, TypeOK, CountInv, Put, GoTo, Leave
<1>5. CountInv'
  BY DEF IInv, CountInv, TypeOK, BlankInv, Put, GoTo, Leave
<1>6. AttachInv'
  BY AttachFrame DEF IInv, AttachInv, TypeOK, Put, GoTo, Leave
<1>7. VnodeInv'
  BY DEF IInv, VnodeInv, TypeOK, LocalInv, Tied, Put, GoTo, Leave
<1>8. HeldInv'
  <2>. SUFFICES ASSUME NEW u \in Threads PROVE Held(u)'
    BY DEF HeldInv
  <2>1. CASE u = t
    <3>1. thisNode[t] = None /\ vn'[t] = None /\ pc'[t] = "idle"
      BY DEF IInv, TypeOK, LocalInv, Attaching, Holding, Put, Leave, GoTo
    <3>. QED BY <2>1, <3>1 DEF Held, Holding, Put
  <2>2. CASE u # t
    BY <2>2 DEF IInv, TypeOK, LocalInv, VnodeInv, HeldInv, Held, Holding, Put,
        Leave, GoTo
  <2>. QED BY <2>1, <2>2
<1>9. CandidateInv'
  BY DEF IInv, CandidateInv, TypeOK, LocalInv, VnodeInv, Tied, Put, GoTo, Leave
<1>10. OneNodePerId'
  BY DEF IInv, OneNodePerId, TypeOK, Put, GoTo, Leave
<1>. QED BY <1>1, <1>2, <1>3, <1>4, <1>5, <1>6, <1>7, <1>8, <1>9, <1>10 DEF
    IInv

\* A link counts its entry.
LEMMA Link_Inv ==
    ASSUME IInv, NEW t \in Threads, Link(t)
    PROVE  IInv'
<1>. USE HNodeAssumption, EntryType
     DEF hashVars, fsnodeVars, vnodeVars, threadVars, daemonVars
<1>1. TypeOK'
  BY SMTT(40) DEF IInv, TypeOK, PCs, VStates, Link, VnodeInv, Tied, HeldInv,
      Held, LocalInv, Holding
<1>2. LocalInv'
  BY DEF IInv, LocalInv, TypeOK, Attaching, Holding, Link
<1>3. MemoryInv'
  BY DEF IInv, MemoryInv, TypeOK, LocalInv, Link
<1>4. BlankInv'
  BY SMTT(40) DEF IInv, BlankInv, TypeOK, CountInv, Link, HeldInv, Held,
      VnodeInv, Tied, Holding, LocalInv
<1>5. CountInv'
  <2>1. v_fsnode[vn[t]] \in linked /\ v_fsnode[vn[t]] \notin attachOutstanding
    BY DEF IInv, TypeOK, LocalInv, CountInv, VnodeInv, Tied, HeldInv, Held,
      Holding, Link
  <2>. QED BY <2>1 DEF IInv, TypeOK, CountInv, Link
<1>6. AttachInv'
  BY DEF IInv, AttachInv, TypeOK, LocalInv, Attaching, Link
<1>7. VnodeInv'
  BY DEF IInv, VnodeInv, TypeOK, LocalInv, Tied, Link
<1>8. HeldInv'
  BY DEF IInv, HeldInv, TypeOK, LocalInv, VnodeInv, Holding, Held, Tied, Link
<1>9. CandidateInv'
  BY DEF IInv, CandidateInv, TypeOK, LocalInv, VnodeInv, Tied, Link
<1>10. OneNodePerId'
  BY DEF IInv, OneNodePerId, TypeOK, Link
<1>. QED BY <1>1, <1>2, <1>3, <1>4, <1>5, <1>6, <1>7, <1>8, <1>9, <1>10 DEF
    IInv

\* The kernel starts to recycle a vnode.
LEMMA Recycle_Inv ==
    ASSUME IInv, NEW v \in VNodes, Recycle(v)
    PROVE  IInv'
<1>. USE HNodeAssumption, EntryType
     DEF hashVars, fsnodeVars, vnodeVars, threadVars, daemonVars
<1>1. TypeOK'
  BY DEF IInv, TypeOK, PCs, VStates, Recycle
<1>2. LocalInv'
  BY DEF IInv, LocalInv, TypeOK, Attaching, Holding, Recycle
<1>3. MemoryInv'
  BY DEF IInv, MemoryInv, TypeOK, LocalInv, Recycle
<1>4. BlankInv'
  BY DEF IInv, BlankInv, TypeOK, CountInv, Recycle
<1>5. CountInv'
  BY DEF IInv, CountInv, TypeOK, BlankInv, Recycle
<1>6. AttachInv'
  BY DEF IInv, AttachInv, TypeOK, LocalInv, Attaching, Recycle
<1>7. VnodeInv'
  BY DEF IInv, VnodeInv, TypeOK, LocalInv, Tied, Recycle
<1>8. HeldInv'
  BY DEF IInv, HeldInv, TypeOK, LocalInv, VnodeInv, Holding, Held, Tied,
      Recycle
<1>9. CandidateInv'
  BY DEF IInv, CandidateInv, TypeOK, LocalInv, VnodeInv, Tied, Recycle
<1>10. OneNodePerId'
  BY DEF IInv, OneNodePerId, TypeOK, Recycle
<1>. QED BY <1>1, <1>2, <1>3, <1>4, <1>5, <1>6, <1>7, <1>8, <1>9, <1>10 DEF
    IInv

\* The vnode is detached from its node, which is freed.
LEMMA ReclaimNode_Inv ==
    ASSUME IInv, NEW v \in VNodes, ReclaimNode(v)
    PROVE  IInv'
<1>. USE HNodeAssumption, EntryType
     DEF hashVars, fsnodeVars, vnodeVars, threadVars, daemonVars
<1>. DEFINE a == v_fsnode[v]
<1>a. /\ a \in linked /\ a \notin attachOutstanding /\ a \in Addrs
      /\ forkVNodesCount[a] = 1 /\ forkVNodes[a] = v
  BY DEF IInv, TypeOK, CountInv, VnodeInv, Tied, HeldInv, Held, ReclaimNode
<1>b. /\ forkVNodesCount' = [forkVNodesCount EXCEPT ![a] = @ - 1]
      /\ linked' = linked \ {a} /\ allocated' = allocated \ {a}
      /\ ino' = [ino EXCEPT ![a] = AnEntry.ino]
      /\ kind' = [kind EXCEPT ![a] = None]
      /\ nlookup' = [nlookup EXCEPT ![a] = 0]
  BY <1>a DEF ReclaimNode, HNodeDetachVNode, HNodeForkVNodeDecrement
<1>. HIDE DEF a
<1>1. TypeOK'
  <2>1. allocated' \subseteq Addrs /\ linked' \subseteq Addrs
    BY <1>a, <1>b DEF IInv, TypeOK
  <2>2. ino' \in [Addrs -> Inos] /\ nlookup' \in [Addrs -> Nat]
    BY <1>a, <1>b DEF IInv, TypeOK
  <2>3. kind' \in [Addrs -> Kinds \union {None}]
    BY <1>a, <1>b DEF IInv, TypeOK
  <2>4. forkVNodesCount' \in [Addrs -> Nat]
    BY <1>a, <1>b DEF IInv, TypeOK
  <2>5. /\ forkVNodes' \in [Addrs -> VNodes \union {None}]
        /\ v_fsnode' \in [VNodes -> Addrs \union {None}]
        /\ vstate' \in [VNodes -> VStates]
    BY DEF IInv, TypeOK, VStates, ReclaimNode, HNodeDetachVNode
  <2>6. daemon' \in [Inos -> Int]
    <3>1. ino[a] \in Inos /\ nlookup[a] \in Nat
      BY <1>a DEF IInv, TypeOK
    <3>2. daemon' = [daemon EXCEPT ![ino[a]] = @ - nlookup[a]]
      BY DEF ReclaimNode, a
    <3>. QED BY <3>1, <3>2 DEF IInv, TypeOK
  <2>. QED BY <2>1, <2>2, <2>3, <2>4, <2>5, <2>6 DEF IInv, TypeOK, ReclaimNode
<1>2. LocalInv'
  BY DEF IInv, LocalInv, TypeOK, Attaching, Holding, ReclaimNode,
      HNodeDetachVNode, HNodeForkVNodeDecrement
<1>3. MemoryInv'
  BY SMTT(40) DEF IInv, MemoryInv, TypeOK, LocalInv, ReclaimNode,
      HNodeDetachVNode, HNodeForkVNodeDecrement, VnodeInv, Tied, HeldInv, Held,
      CountInv, BlankInv
<1>4. BlankInv'
  BY SMTT(40) DEF IInv, BlankInv, TypeOK, CountInv, ReclaimNode,
      HNodeDetachVNode, HNodeForkVNodeDecrement, VnodeInv, Tied, HeldInv, Held,
      LocalInv, MemoryInv
<1>5. CountInv'
  BY DEF IInv, CountInv, TypeOK, BlankInv, ReclaimNode, HNodeDetachVNode,
      HNodeForkVNodeDecrement
<1>6. AttachInv'
  BY SMTT(40) DEF IInv, AttachInv, TypeOK, LocalInv, Attaching, ReclaimNode,
      HNodeDetachVNode, HNodeForkVNodeDecrement, VnodeInv, Tied, HeldInv, Held,
      CountInv, BlankInv, MemoryInv
<1>7. VnodeInv'
  <2>1. /\ forkVNodes' = [forkVNodes EXCEPT ![a] = None]
        /\ v_fsnode' = [v_fsnode EXCEPT ![v] = None]
        /\ vstate' = [vstate EXCEPT ![v] = "detached"]
        /\ UNCHANGED <<pc, vn, thisNode>>
    BY DEF ReclaimNode, HNodeDetachVNode, a
  <2>2. ASSUME NEW w \in VNodes PROVE Tied(w)'
    <3>1. CASE w = v
      BY <2>1, <3>1 DEF IInv, TypeOK, Tied
    <3>2. CASE w # v
      <4>1. v_fsnode[w] # a
        <5>1. \A u \in Threads : thisNode[u] # a
          BY <1>a DEF IInv, TypeOK, AttachInv
        <5>. QED BY <1>a, <3>2, <5>1 DEF IInv, VnodeInv, Tied
      <4>. QED BY <1>b, <2>1, <3>2, <4>1 DEF IInv, TypeOK, VnodeInv, Tied
    <3>. QED BY <3>1, <3>2
  <2>3. ASSUME NEW b \in Addrs, forkVNodes'[b] # None
        PROVE  v_fsnode'[forkVNodes'[b]] = b
    <3>1. b # a /\ forkVNodes'[b] = forkVNodes[b]
      BY <1>a, <2>1, <2>3 DEF IInv, TypeOK
    <3>2. v_fsnode[forkVNodes[b]] = b /\ forkVNodes[b] \in VNodes
      BY <2>3, <3>1 DEF IInv, TypeOK, VnodeInv
    <3>. QED BY <2>1, <3>1, <3>2 DEF IInv, TypeOK, a
  <2>. QED BY <2>2, <2>3 DEF VnodeInv
<1>8. HeldInv'
  BY SMTT(40) DEF IInv, HeldInv, TypeOK, LocalInv, VnodeInv, Holding, Held,
      Tied, ReclaimNode, HNodeDetachVNode, HNodeForkVNodeDecrement, CountInv,
      AttachInv, BlankInv
<1>9. CandidateInv'
  BY SMTT(40) DEF IInv, CandidateInv, TypeOK, LocalInv, VnodeInv, Tied,
      ReclaimNode, HNodeDetachVNode, HNodeForkVNodeDecrement, HeldInv, Held,
      CountInv, BlankInv, MemoryInv
<1>10. OneNodePerId'
  BY DEF IInv, OneNodePerId, TypeOK, ReclaimNode, HNodeDetachVNode,
      HNodeForkVNodeDecrement
<1>. QED BY <1>1, <1>2, <1>3, <1>4, <1>5, <1>6, <1>7, <1>8, <1>9, <1>10 DEF
    IInv

\* The vnode gets a new identity.
LEMMA Recycled_Inv ==
    ASSUME IInv, NEW v \in VNodes, Recycled(v)
    PROVE  IInv'
<1>. USE HNodeAssumption, EntryType
     DEF hashVars, fsnodeVars, vnodeVars, threadVars, daemonVars
<1>1. TypeOK'
  BY DEF IInv, TypeOK, PCs, VStates, Recycled
<1>2. LocalInv'
  BY DEF IInv, LocalInv, TypeOK, Attaching, Holding, Recycled
<1>3. MemoryInv'
  BY DEF IInv, MemoryInv, TypeOK, LocalInv, Recycled
<1>4. BlankInv'
  BY DEF IInv, BlankInv, TypeOK, CountInv, Recycled
<1>5. CountInv'
  BY DEF IInv, CountInv, TypeOK, BlankInv, Recycled
<1>6. AttachInv'
  BY DEF IInv, AttachInv, TypeOK, LocalInv, Attaching, Recycled
<1>7. VnodeInv'
  BY DEF IInv, VnodeInv, TypeOK, LocalInv, Tied, Recycled
<1>8. HeldInv'
  BY DEF IInv, HeldInv, TypeOK, LocalInv, VnodeInv, Holding, Held, Tied,
      Recycled
<1>9. CandidateInv'
  BY DEF IInv, CandidateInv, TypeOK, LocalInv, VnodeInv, Tied, Recycled
<1>10. OneNodePerId'
  BY DEF IInv, OneNodePerId, TypeOK, Recycled
<1>. QED BY <1>1, <1>2, <1>3, <1>4, <1>5, <1>6, <1>7, <1>8, <1>9, <1>10 DEF
    IInv

\* The answer to a RELEASE sends the FORGET.
LEMMA ForgetCallback_Inv ==
    ASSUME IInv, NEW i \in Inos, ForgetCallback(i)
    PROVE  IInv'
<1>. USE HNodeAssumption, EntryType
     DEF hashVars, fsnodeVars, vnodeVars, threadVars, daemonVars
<1>1. TypeOK'
  BY DEF IInv, TypeOK, PCs, VStates, ForgetCallback, ForgetOne
<1>2. LocalInv'
  BY DEF IInv, LocalInv, TypeOK, Attaching, Holding, ForgetCallback, ForgetOne
<1>3. MemoryInv'
  BY DEF IInv, MemoryInv, TypeOK, LocalInv, ForgetCallback, ForgetOne
<1>4. BlankInv'
  BY DEF IInv, BlankInv, TypeOK, CountInv, ForgetCallback, ForgetOne
<1>5. CountInv'
  BY DEF IInv, CountInv, TypeOK, BlankInv, ForgetCallback, ForgetOne
<1>6. AttachInv'
  BY DEF IInv, AttachInv, TypeOK, LocalInv, Attaching, ForgetCallback,
      ForgetOne
<1>7. VnodeInv'
  BY DEF IInv, VnodeInv, TypeOK, LocalInv, Tied, ForgetCallback, ForgetOne
<1>8. HeldInv'
  BY DEF IInv, HeldInv, TypeOK, LocalInv, VnodeInv, Holding, Held, Tied,
      ForgetCallback, ForgetOne
<1>9. CandidateInv'
  BY DEF IInv, CandidateInv, TypeOK, LocalInv, VnodeInv, Tied, ForgetCallback,
      ForgetOne
<1>10. OneNodePerId'
  BY DEF IInv, OneNodePerId, TypeOK, ForgetCallback, ForgetOne
<1>. QED BY <1>1, <1>2, <1>3, <1>4, <1>5, <1>6, <1>7, <1>8, <1>9, <1>10 DEF
    IInv
\* Every step preserves the invariant.
LEMMA Next_Inv == IInv /\ [Next]_vars => IInv'
<1>. SUFFICES ASSUME IInv, [Next]_vars PROVE IInv'
  OBVIOUS
<1>1. CASE UNCHANGED vars
  <2>. USE <1>1 DEF vars, hashVars, fsnodeVars, vnodeVars, threadVars,
    daemonVars
  <2>1. TypeOK' BY DEF IInv, TypeOK
  <2>2. LocalInv' BY DEF IInv, LocalInv, Attaching, Holding
  <2>3. MemoryInv' BY DEF IInv, MemoryInv
  <2>4. BlankInv' /\ CountInv' BY DEF IInv, BlankInv, CountInv
  <2>5. AttachInv' BY DEF IInv, AttachInv, Attaching
  <2>6. VnodeInv' BY DEF IInv, VnodeInv, Tied
  <2>7. HeldInv' BY DEF IInv, HeldInv, Held, Holding
  <2>8. CandidateInv' /\ OneNodePerId' BY DEF IInv, CandidateInv, OneNodePerId
  <2>. QED BY <2>1, <2>2, <2>3, <2>4, <2>5, <2>6, <2>7, <2>8 DEF IInv
<1>2. ASSUME NEW t \in Threads, Ask(t) \/ AlterVnodeForInode(t) \/ Put(t)
      \/ Link(t)
      PROVE  IInv'
  BY <1>2, Ask_Inv, AlterVnodeForInode_Inv, Put_Inv, Link_Inv
<1>3. ASSUME NEW t \in Threads, Step(t) PROVE IInv'
  BY <1>3, SearchMiss_Inv, ClaimAttach_Inv, SearchWait_Inv, SearchHit_Inv,
     GetWithVid_Inv, VnodeCreate_Inv, HNodeAttachVNodeSucceeded_Inv,
     HNodeAttachVNodeFailed_Inv, Accept_Inv, Disappear_Inv, Disappeared_Inv,
     Fail_Inv DEF Step
<1>4. ASSUME NEW v \in VNodes, Recycle(v) \/ Reclaim(v) PROVE IInv'
  BY <1>4, Recycle_Inv, ReclaimNode_Inv, Recycled_Inv DEF Reclaim
<1>5. ASSUME NEW i \in Inos, ForgetCallback(i) PROVE IInv'
  BY <1>5, ForgetCallback_Inv
<1>. QED BY <1>1, <1>2, <1>3, <1>4, <1>5 DEF Next

-----------------------------------------------------------------------------
\* The invariant holds in every state of the node hash.
THEOREM Invariance == Spec => []IInv
<1>1. Init => IInv BY Init_Inv
<1>2. IInv /\ [Next]_vars => IInv' BY Next_Inv
<1>. QED BY <1>1, <1>2, PTL DEF Spec

\* The variables of the node hash have their types.
THEOREM TypeCorrect == Spec => []TypeOK
<1>1. IInv => TypeOK BY DEF IInv
<1>. QED BY <1>1, Invariance, PTL

\* HNodeLookupCreatingIfNecessary never gives a thread the vnode of another id,
\* or one that is being recycled, whatever happens between the search under the
\* mutex and vnode_getwithvid.
THEOREM RightVnode == Spec => []VnodeIsTheOneAsked
<1>1. IInv => VnodeIsTheOneAsked
  BY HNodeAssumption DEF IInv, TypeOK, LocalInv, VnodeInv, Tied, HeldInv, Held,
    Holding, VnodeIsTheOneAsked
<1>. QED BY <1>1, Invariance, PTL

\* The second search, after the allocation without the mutex, keeps the table
\* free of duplicates.
THEOREM UniqueNodes == Spec => []OneNodePerId
<1>1. IInv => OneNodePerId BY DEF IInv
<1>. QED BY <1>1, Invariance, PTL

\* No node is freed while the table, a thread or a vnode can still reach it.
THEOREM NodesAreLive == Spec => []NoUseAfterFree
<1>1. ASSUME IInv PROVE NoUseAfterFree
  <2>1. linked \subseteq allocated
    BY <1>1 DEF IInv, MemoryInv
  <2>2. ASSUME NEW t \in Threads
        PROVE  thisNode[t] # None => thisNode[t] \in linked
    BY <1>1 DEF IInv, TypeOK, AttachInv, BlankInv
  <2>3. ASSUME NEW t \in Threads, newNode[t] # None
        PROVE  /\ newNode[t] \in allocated \ linked
               /\ \A u \in Threads \ {t} : newNode[t] # newNode[u]
    BY <1>1, <2>3 DEF IInv, MemoryInv
  <2>4. ASSUME NEW v \in VNodes
        PROVE  v_fsnode[v] # None => v_fsnode[v] \in linked
    BY <1>1 DEF IInv, VnodeInv, Tied
  <2>. QED BY <2>1, <2>2, <2>3, <2>4 DEF NoUseAfterFree
<1>. QED BY <1>1, Invariance, PTL

\* Every node is in the table or in the hands of a lookup that will use it or
\* free it.
THEOREM NodesAreFreed == Spec => []NoNodeLeak
<1>1. IInv => NoNodeLeak BY DEF IInv, MemoryInv, NoNodeLeak
<1>. QED BY <1>1, Invariance, PTL

\* The case that the comment in HNodeDetachVNode leaves open does not happen:
\* whoever sleeps on a node will be woken by the one thread that attaches it.
THEOREM SleepersWake == Spec => []SleeperHasAttacher
<1>1. ASSUME IInv PROVE SleeperHasAttacher
  <2>1. ASSUME NEW a \in attachOutstanding
        PROVE  Cardinality({t \in Threads :
                               /\ thisNode[t] = a
                               /\ pc[t] \in {"vnode_create", "created"}}) = 1
    <3>1. PICK t \in Threads : Attaching(t) /\ thisNode[t] = a
      BY <1>1 DEF IInv, AttachInv
    <3>2. {u \in Threads : /\ thisNode[u] = a
                           /\ pc[u] \in {"vnode_create", "created"}} = {t}
      BY <1>1, <3>1 DEF IInv, AttachInv, Attaching
    <3>. QED BY <3>2, FS_Singleton
  <2>. QED BY <1>1, <2>1 DEF IInv, AttachInv, SleeperHasAttacher
<1>. QED BY <1>1, Invariance, PTL

-----------------------------------------------------------------------------
\* The lookups of the daemon add up.

\* What the node of an id has counted, of a table given by its nodes, their ids
\* and their counts.
CountIn(L, f, n, i) ==
    LET nodes == {a \in L : f[a] = i}
    IN  IF nodes = {} THEN 0 ELSE n[CHOOSE a \in nodes : TRUE]

\* The threads that InFlight counts.
Owes(t, i) ==
    want[t].ino = i /\ op[t] # "ioctl" /\ pc[t] \notin {"idle", "holding"}
Owing(i) == {t \in Threads : Owes(t, i)}

\* The count of an id that has none.
LEMMA CountIn_None ==
    ASSUME NEW L, NEW f, NEW n, NEW i, \A b \in L : f[b] # i
    PROVE  CountIn(L, f, n, i) = 0
<1>1. {b \in L : f[b] = i} = {} OBVIOUS
<1>. QED BY <1>1 DEF CountIn

\* A step that only adds and removes nodes that have counted nothing.
LEMMA Counted_Same ==
    ASSUME OneNodePerId, OneNodePerId', NEW i \in Inos,
           \A a \in linked \intersect linked' :
              ino'[a] = ino[a] /\ nlookup'[a] = nlookup[a],
           \A a \in linked' \ linked : nlookup'[a] = 0,
           \A a \in linked \ linked' : nlookup[a] = 0
    PROVE  Counted(i)' = Counted(i)
<1>1. Counted(i) = CountIn(linked, ino, nlookup, i)
  BY DEF Counted, CountIn
<1>2. Counted(i)' = CountIn(linked', ino', nlookup', i)
  BY DEF Counted, CountIn
<1>3. ASSUME NEW a \in linked, ino[a] = i
      PROVE  CountIn(linked, ino, nlookup, i) = nlookup[a]
  <2>1. ASSUME NEW b \in linked, ino[b] = i PROVE b = a
    BY <1>3, <2>1 DEF OneNodePerId
  <2>2. {b \in linked : ino[b] = i} = {a}
    BY <1>3, <2>1
  <2>. QED BY <2>2 DEF CountIn
<1>4. ASSUME NEW a \in linked', ino'[a] = i
      PROVE  CountIn(linked', ino', nlookup', i) = nlookup'[a]
  <2>1. ASSUME NEW b \in linked', ino'[b] = i PROVE b = a
    BY <1>4, <2>1 DEF OneNodePerId
  <2>2. {b \in linked' : ino'[b] = i} = {a}
    BY <1>4, <2>1
  <2>. QED BY <2>2 DEF CountIn
<1>5. (\A a \in linked : ino[a] # i) => CountIn(linked, ino, nlookup, i) = 0
  BY CountIn_None
<1>6. (\A a \in linked' : ino'[a] # i)
        => CountIn(linked', ino', nlookup', i) = 0
  BY CountIn_None
<1>. QED BY <1>1, <1>2, <1>3, <1>4, <1>5, <1>6

\* The node of an id, whatever the others do.
LEMMA Counted_Node ==
    ASSUME OneNodePerId, NEW a \in linked
    PROVE  Counted(ino[a]) = nlookup[a]
<1>1. CountIn(linked, ino, nlookup, ino[a]) = nlookup[a]
  <2>1. \A b \in linked : ino[b] = ino[a] => b = a
    BY DEF OneNodePerId
  <2>2. {b \in linked : ino[b] = ino[a]} = {a}
    BY <2>1
  <2>. QED BY <2>2 DEF CountIn
<1>. QED BY <1>1 DEF Counted, CountIn

\* InFlight is a natural number.
LEMMA InFlight_Nat ==
    ASSUME NEW i
    PROVE  /\ IsFiniteSet(Owing(i)) /\ InFlight(i) = Cardinality(Owing(i))
           /\ InFlight(i) \in Nat
<1>1. IsFiniteSet(Owing(i))
  BY HNodeAssumption, FS_Subset DEF Owing
<1>2. InFlight(i) = Cardinality(Owing(i))
  BY DEF InFlight, Owing, Owes
<1>. QED BY <1>1, <1>2, FS_CardinalityType

\* A step after which every node of the table has the count it had, and which
\* adds and removes only nodes that have counted nothing ...
CountsStay ==
    /\ \A a \in linked \intersect linked' :
          ino'[a] = ino[a] /\ nlookup'[a] = nlookup[a]
    /\ \A a \in linked' \ linked : nlookup'[a] = 0
    /\ \A a \in linked \ linked' : nlookup[a] = 0
    /\ UNCHANGED <<daemon, releasing, unreturned>>

\* ... and after which the same threads have entries in flight.
OwesStay == \A i \in Inos, u \in Threads : Owes(u, i)' <=> Owes(u, i)

\* Such a step changes nothing in the sum.
LEMMA AddUp_Same ==
    ASSUME OneNodePerId, OneNodePerId', LookupsAddUp, CountsStay, OwesStay
    PROVE  LookupsAddUp'
<1>. SUFFICES ASSUME NEW i \in Inos
     PROVE  daemon'[i] = Counted(i)' + InFlight(i)' + releasing'[i] + unreturned'[i]
  BY DEF LookupsAddUp
<1>1. Counted(i)' = Counted(i)
  BY Counted_Same DEF CountsStay
<1>2. InFlight(i)' = InFlight(i)
  <2>1. Owing(i)' = Owing(i) BY DEF Owing, OwesStay
  <2>2. InFlight(i) = Cardinality(Owing(i)) BY DEF InFlight, Owing, Owes
  <2>3. InFlight(i)' = Cardinality(Owing(i)') BY DEF InFlight, Owing, Owes
  <2>. QED BY <2>1, <2>2, <2>3
<1>. QED BY <1>1, <1>2 DEF LookupsAddUp, CountsStay

\* The steps that neither count a lookup nor give one back.
LEMMA Quiet_AddUp ==
    ASSUME IInv, IInv', LookupsAddUp, NEW t \in Threads,
           \/ AlterVnodeForInode(t) \/ SearchMiss(t) \/ ClaimAttach(t)
           \/ SearchWait(t) \/ SearchHit(t) \/ GetWithVid(t) \/ VnodeCreate(t)
           \/ HNodeAttachVNodeSucceeded(t) \/ HNodeAttachVNodeFailed(t)
           \/ Disappear(t) \/ Disappeared(t) \/ Put(t)
    PROVE  LookupsAddUp'
<1>. USE HNodeAssumption, EntryType
     DEF hashVars, fsnodeVars, vnodeVars, threadVars, daemonVars
<1>. SUFFICES CountsStay /\ OwesStay
  BY AddUp_Same DEF IInv
<1>1. ASSUME AlterVnodeForInode(t) PROVE CountsStay /\ OwesStay
  <2>1. CountsStay
    BY <1>1 DEF IInv, TypeOK, LocalInv, CountsStay, AlterVnodeForInode, Found,
        Busy
  <2>2. OwesStay
    BY <1>1 DEF IInv, TypeOK, LocalInv, OwesStay, Owes, AlterVnodeForInode,
        GoTo, Busy
  <2>. QED BY <2>1, <2>2
<1>2. ASSUME SearchMiss(t) PROVE CountsStay /\ OwesStay
  <2>1. CountsStay
    BY <1>2 DEF IInv, TypeOK, LocalInv, CountsStay, SearchMiss, Found,
        MemoryInv
  <2>2. OwesStay
    BY <1>2 DEF IInv, TypeOK, LocalInv, OwesStay, Owes, SearchMiss, GoTo
  <2>. QED BY <2>1, <2>2
<1>3. ASSUME ClaimAttach(t) PROVE CountsStay /\ OwesStay
  <2>1. CountsStay
    <3>1. PICK a \in Addrs :
             linked' = linked \union {a} /\ FillIn(a, t)
      BY <1>3 DEF IInv, TypeOK, ClaimAttach, NodeAtHand, Found
    <3>2. CASE a \in linked
      BY <1>3, <3>1, <3>2 DEF IInv, CountInv, CountsStay, FillIn, ClaimAttach
    <3>3. CASE a \notin linked
      BY <1>3, <3>1, <3>3 DEF IInv, TypeOK, BlankInv, CountsStay, FillIn,
        ClaimAttach
    <3>. QED BY <3>2, <3>3
  <2>2. OwesStay
    BY <1>3 DEF IInv, TypeOK, LocalInv, OwesStay, Owes, ClaimAttach, GoTo,
        Busy, NodeAtHand
  <2>. QED BY <2>1, <2>2
<1>4. ASSUME SearchWait(t) PROVE CountsStay /\ OwesStay
  <2>1. CountsStay
    BY <1>4 DEF IInv, TypeOK, LocalInv, CountsStay, SearchWait, Found, Busy,
        MarkWaiting
  <2>2. OwesStay
    BY <1>4 DEF IInv, TypeOK, LocalInv, OwesStay, Owes, SearchWait, GoTo, Busy,
        MarkWaiting
  <2>. QED BY <2>1, <2>2
<1>5. ASSUME SearchHit(t) PROVE CountsStay /\ OwesStay
  <2>1. CountsStay
    BY <1>5 DEF IInv, TypeOK, LocalInv, CountsStay, SearchHit, Found, Busy
  <2>2. OwesStay
    BY <1>5 DEF IInv, TypeOK, LocalInv, OwesStay, Owes, SearchHit, GoTo, Busy
  <2>. QED BY <2>1, <2>2
<1>6. ASSUME GetWithVid(t) PROVE CountsStay /\ OwesStay
  <2>1. CountsStay
    BY <1>6 DEF IInv, TypeOK, LocalInv, CountsStay, GetWithVid, SameVnode,
        FreeNewNode, Leave, MemoryInv
  <2>2. OwesStay
    BY <1>6 DEF IInv, TypeOK, LocalInv, OwesStay, Owes, GetWithVid, GoTo,
        SameVnode, FreeNewNode, Leave
  <2>. QED BY <2>1, <2>2
<1>7. ASSUME VnodeCreate(t) PROVE CountsStay /\ OwesStay
  <2>1. CountsStay
    BY <1>7 DEF IInv, TypeOK, LocalInv, CountsStay, VnodeCreate
  <2>2. OwesStay
    BY <1>7 DEF IInv, TypeOK, LocalInv, OwesStay, Owes, VnodeCreate, GoTo
  <2>. QED BY <2>1, <2>2
<1>8. ASSUME HNodeAttachVNodeSucceeded(t) PROVE CountsStay /\ OwesStay
  <2>1. CountsStay
    BY <1>8 DEF IInv, TypeOK, LocalInv, CountsStay, HNodeAttachVNodeSucceeded,
        HNodeAttachComplete, AttachOver, Woken
  <2>2. OwesStay
    BY <1>8 DEF IInv, TypeOK, LocalInv, OwesStay, Owes,
        HNodeAttachVNodeSucceeded, HNodeAttachComplete, AttachOver, Woken
  <2>. QED BY <2>1, <2>2
<1>9. ASSUME HNodeAttachVNodeFailed(t) PROVE CountsStay /\ OwesStay
  <2>1. CountsStay
    BY <1>9 DEF IInv, TypeOK, LocalInv, CountsStay, HNodeAttachVNodeFailed,
        HNodeAttachComplete, AttachOver, Woken, HNodeForkVNodeDecrement,
        AttachInv, CountInv, BlankInv, Attaching
  <2>2. OwesStay
    BY <1>9 DEF IInv, TypeOK, LocalInv, OwesStay, Owes, HNodeAttachVNodeFailed,
        HNodeAttachComplete, AttachOver, Woken
  <2>. QED BY <2>1, <2>2
<1>10. ASSUME Disappear(t) PROVE CountsStay /\ OwesStay
  <2>1. CountsStay
    BY <1>10 DEF IInv, TypeOK, LocalInv, CountsStay, Disappear
  <2>2. OwesStay
    BY <1>10 DEF IInv, TypeOK, LocalInv, OwesStay, Owes, Disappear, GoTo
  <2>. QED BY <2>1, <2>2
<1>11. ASSUME Disappeared(t) PROVE CountsStay /\ OwesStay
  <2>1. CountsStay
    BY <1>11 DEF IInv, TypeOK, LocalInv, CountsStay, Disappeared
  <2>2. OwesStay
    BY <1>11 DEF IInv, TypeOK, LocalInv, OwesStay, Owes, Disappeared, GoTo
  <2>. QED BY <2>1, <2>2
<1>12. ASSUME Put(t) PROVE CountsStay /\ OwesStay
  <2>1. CountsStay
    BY <1>12 DEF IInv, TypeOK, LocalInv, CountsStay, Put, Leave
  <2>2. OwesStay
    BY <1>12 DEF IInv, TypeOK, LocalInv, OwesStay, Owes, Put, GoTo, Leave
  <2>. QED BY <2>1, <2>2
<1>. QED BY <1>1, <1>2, <1>3, <1>4, <1>5, <1>6, <1>7, <1>8, <1>9, <1>10, <1>11,
    <1>12

\* The sum for a thread that starts (d = 1) or stops (d = -1) to have the entry
\* of an id in flight.
LEMMA InFlight_Step ==
    ASSUME NEW t \in Threads, NEW j \in Inos,
           \A i \in Inos, u \in Threads \ {t} : Owes(u, i)' <=> Owes(u, i),
           \A i \in Inos \ {j} : ~Owes(t, i) /\ ~Owes(t, i)'
    PROVE  /\ \A i \in Inos \ {j} : InFlight(i)' = InFlight(i)
           /\ Owes(t, j) /\ ~Owes(t, j)' => InFlight(j)' = InFlight(j) - 1
           /\ ~Owes(t, j) /\ Owes(t, j)' => InFlight(j)' = InFlight(j) + 1
<1>1. \A i \in Inos : InFlight(i) = Cardinality(Owing(i))
  BY DEF InFlight, Owing, Owes
<1>2. \A i \in Inos : InFlight(i)' = Cardinality(Owing(i)')
  BY DEF InFlight, Owing, Owes
<1>3. \A i \in Inos \ {j} : Owing(i)' = Owing(i)
  BY DEF Owing
<1>4. IsFiniteSet(Owing(j))
  BY InFlight_Nat
<1>5. ASSUME Owes(t, j), ~Owes(t, j)'
      PROVE  InFlight(j)' = InFlight(j) - 1
  <2>1. Owing(j)' = Owing(j) \ {t} /\ t \in Owing(j)
    BY <1>5 DEF Owing
  <2>. QED BY <1>1, <1>2, <1>4, <2>1, FS_RemoveElement
<1>6. ASSUME ~Owes(t, j), Owes(t, j)'
      PROVE  InFlight(j)' = InFlight(j) + 1
  <2>1. Owing(j)' = Owing(j) \union {t} /\ t \notin Owing(j)
    BY <1>6 DEF Owing
  <2>. QED BY <1>1, <1>2, <1>4, <2>1, FS_AddElement
<1>. QED BY <1>1, <1>2, <1>3, <1>5, <1>6

\* Counted is a natural number.
LEMMA Counted_Nat ==
    ASSUME IInv, NEW i \in Inos
    PROVE  Counted(i) \in Nat
<1>1. CASE {a \in linked : ino[a] = i} = {}
  BY <1>1 DEF Counted
<1>2. CASE {a \in linked : ino[a] = i} # {}
  <2>1. (CHOOSE a \in {b \in linked : ino[b] = i} : TRUE) \in linked
    BY <1>2
  <2>. QED BY <1>2, <2>1 DEF IInv, TypeOK, Counted
<1>. QED BY <1>1, <1>2

\* A lookup is counted by a node of the table, and by no other.
LEMMA Counted_Change ==
    ASSUME OneNodePerId, NEW a \in linked, NEW j \in Inos, ino[a] = j,
           UNCHANGED <<linked, ino>>,
           \A b \in linked \ {a} : nlookup'[b] = nlookup[b]
    PROVE  /\ Counted(j) = nlookup[a]
           /\ Counted(j)' = nlookup'[a]
           /\ \A i \in Inos \ {j} : Counted(i)' = Counted(i)
<1>1. \A b \in linked : ino[b] = j => b = a
  BY DEF OneNodePerId
<1>2. {b \in linked : ino[b] = j} = {a}
  BY <1>1
<1>3. ASSUME NEW i \in Inos \ {j}
      PROVE  Counted(i)' = Counted(i)
  <2>1. CASE {b \in linked : ino[b] = i} = {}
    BY <2>1 DEF Counted
  <2>2. CASE {b \in linked : ino[b] = i} # {}
    <3>. DEFINE c == CHOOSE b \in {b \in linked : ino[b] = i} : TRUE
    <3>1. c \in linked \ {a}
      BY <1>3, <2>2
    <3>. QED BY <2>2, <3>1 DEF Counted
  <2>. QED BY <2>1, <2>2
<1>. QED BY <1>2, <1>3 DEF Counted

\* An entry is given out: it is in flight.
LEMMA Ask_AddUp ==
    ASSUME IInv, IInv', LookupsAddUp, NEW t \in Threads, Ask(t)
    PROVE  LookupsAddUp'
<1>. USE HNodeAssumption, EntryType
     DEF hashVars, fsnodeVars, vnodeVars, threadVars, daemonVars
<1>1. PICK o \in {"lookup", "create"}, e \in Entries :
         /\ op' = [op EXCEPT ![t] = o] /\ want' = [want EXCEPT ![t] = e]
         /\ daemon' = [daemon EXCEPT ![e.ino] = @ + 1]
  BY DEF Ask
<1>2. /\ \A i \in Inos : ~Owes(t, i)
      /\ \A i \in Inos : Owes(t, i)' <=> i = e.ino
      /\ \A i \in Inos, u \in Threads \ {t} : Owes(u, i)' <=> Owes(u, i)
  BY <1>1 DEF IInv, TypeOK, Owes, Ask, GoTo
<1>3. /\ \A i \in Inos \ {e.ino} : InFlight(i)' = InFlight(i)
      /\ InFlight(e.ino)' = InFlight(e.ino) + 1
  BY <1>2, InFlight_Step
<1>4. \A i \in Inos : Counted(i)' = Counted(i)
  BY DEF Counted, Ask
<1>5. \A i \in Inos : Counted(i) \in Nat /\ InFlight(i) \in Nat
  BY Counted_Nat, InFlight_Nat
<1>6. ASSUME NEW i \in Inos
      PROVE  daemon'[i] = Counted(i)' + InFlight(i)' + releasing'[i] + unreturned'[i]
  <2>1. /\ daemon[i] = Counted(i) + InFlight(i) + releasing[i] + unreturned[i]
        /\ releasing' = releasing /\ unreturned' = unreturned
    BY DEF LookupsAddUp, Ask
  <2>2. releasing[i] \in Nat /\ unreturned[i] \in Nat
    BY DEF IInv, TypeOK
  <2>3. daemon'[i] = IF i = e.ino THEN daemon[i] + 1 ELSE daemon[i]
    BY <1>1 DEF IInv, TypeOK
  <2>. QED BY <1>3, <1>4, <1>5, <2>1, <2>2, <2>3
<1>. QED BY <1>6 DEF LookupsAddUp

\* The entry of a thread that accepts its vnode is counted by the node or, for
\* a CREATE, by nobody.
LEMMA Accept_AddUp ==
    ASSUME IInv, IInv', LookupsAddUp, NEW t \in Threads, Accept(t)
    PROVE  LookupsAddUp'
<1>. USE HNodeAssumption, EntryType
     DEF hashVars, fsnodeVars, vnodeVars, threadVars, daemonVars
<1>1. PICK a \in linked, j \in Inos :
          a = v_fsnode[vn[t]] /\ j = want[t].ino /\ a \in Addrs /\ ino[a] = j
  BY DEF IInv, TypeOK, LocalInv, VnodeInv, Tied, HeldInv, Held, Holding, Accept
<1>2. /\ \A i \in Inos : Owes(t, i) <=> i = j
      /\ \A i \in Inos : ~Owes(t, i)'
      /\ \A i \in Inos, u \in Threads \ {t} : Owes(u, i)' <=> Owes(u, i)
  BY <1>1 DEF IInv, TypeOK, LocalInv, Owes, Accept, GoTo
<1>3. /\ IF op[t] = "create"
         THEN unreturned' = [unreturned EXCEPT ![j] = @ + 1]
         /\ nlookup' = nlookup
         ELSE nlookup' = [nlookup EXCEPT ![a] = @ + 1]
         /\ unreturned' = unreturned
      /\ UNCHANGED <<linked, ino, daemon, releasing>>
  BY <1>1 DEF Accept
<1>4. /\ \A i \in Inos \ {j} : InFlight(i)' = InFlight(i)
      /\ InFlight(j)' = InFlight(j) - 1
  BY <1>1, <1>2, InFlight_Step
<1>5. /\ Counted(j) = nlookup[a] /\ Counted(j)' = nlookup'[a]
      /\ \A i \in Inos \ {j} : Counted(i)' = Counted(i)
  <2>1. \A b \in linked \ {a} : nlookup'[b] = nlookup[b]
    BY <1>1, <1>3 DEF IInv, TypeOK
  <2>. QED BY <1>1, <1>3, <2>1, Counted_Change DEF IInv
<1>6. ASSUME NEW i \in Inos
      PROVE  daemon'[i] = Counted(i)' + InFlight(i)' + releasing'[i] + unreturned'[i]
  <2>1. daemon[i] = Counted(i) + InFlight(i) + releasing[i] + unreturned[i]
    BY DEF LookupsAddUp
  <2>2. /\ releasing[i] \in Nat /\ unreturned[i] \in Nat /\ nlookup[a] \in Nat
        /\ Counted(i) \in Nat /\ InFlight(i) \in Nat
    BY <1>1, Counted_Nat, InFlight_Nat DEF IInv, TypeOK
  <2>3. unreturned'[i] = IF op[t] = "create" /\ i = j
                         THEN unreturned[i] + 1 ELSE unreturned[i]
    BY <1>1, <1>3 DEF IInv, TypeOK
  <2>4. nlookup'[a] = IF op[t] = "create" THEN nlookup[a] ELSE nlookup[a] + 1
    BY <1>1, <1>3 DEF IInv, TypeOK
  <2>. QED BY <1>3, <1>4, <1>5, <2>1, <2>2, <2>3, <2>4
<1>. QED BY <1>6 DEF LookupsAddUp

\* The entry of a thread that fails goes back, or will with its RELEASE.
LEMMA Fail_AddUp ==
    ASSUME IInv, IInv', LookupsAddUp, NEW t \in Threads, Fail(t)
    PROVE  LookupsAddUp'
<1>. USE HNodeAssumption, EntryType
     DEF hashVars, fsnodeVars, vnodeVars, threadVars, daemonVars
<1>1. PICK j \in Inos : j = want[t].ino
  BY DEF IInv, TypeOK
<1>2. /\ \A i \in Inos : Owes(t, i) <=> i = j
      /\ \A i \in Inos : ~Owes(t, i)'
      /\ \A i \in Inos, u \in Threads \ {t} : Owes(u, i)' <=> Owes(u, i)
  BY <1>1 DEF IInv, TypeOK, LocalInv, Owes, Fail, Leave, GoTo
<1>3. /\ \/ daemon' = [daemon EXCEPT ![j] = @ - 1] /\ releasing' = releasing
         \/ releasing' = [releasing EXCEPT ![j] = @ + 1] /\ daemon' = daemon
      /\ UNCHANGED <<linked, ino, nlookup, unreturned>>
  BY <1>1 DEF Fail, ForgetOne
<1>4. /\ \A i \in Inos \ {j} : InFlight(i)' = InFlight(i)
      /\ InFlight(j)' = InFlight(j) - 1
  BY <1>1, <1>2, InFlight_Step
<1>5. \A i \in Inos : Counted(i)' = Counted(i)
  BY <1>3 DEF Counted
<1>6. ASSUME NEW i \in Inos
      PROVE  daemon'[i] = Counted(i)' + InFlight(i)' + releasing'[i] + unreturned'[i]
  <2>1. daemon[i] = Counted(i) + InFlight(i) + releasing[i] + unreturned[i]
    BY DEF LookupsAddUp
  <2>2. /\ releasing[i] \in Nat /\ unreturned[i] \in Nat
        /\ Counted(i) \in Nat /\ InFlight(i) \in Nat
    BY Counted_Nat, InFlight_Nat DEF IInv, TypeOK
  <2>3. \/ /\ daemon'[i] = IF i = j THEN daemon[i] - 1 ELSE daemon[i]
           /\ releasing'[i] = releasing[i]
        \/ /\ releasing'[i] = IF i = j THEN releasing[i] + 1 ELSE releasing[i]
           /\ daemon'[i] = daemon[i]
    BY <1>1, <1>3 DEF IInv, TypeOK
  <2>. QED BY <1>3, <1>4, <1>5, <2>1, <2>2, <2>3
<1>. QED BY <1>6 DEF LookupsAddUp

\* The callback of a RELEASE.
LEMMA ForgetCallback_AddUp ==
    ASSUME IInv, IInv', LookupsAddUp, NEW j \in Inos, ForgetCallback(j)
    PROVE  LookupsAddUp'
<1>. USE DEF hashVars, fsnodeVars, vnodeVars, threadVars, daemonVars
<1>1. \A i \in Inos : Counted(i)' = Counted(i) /\ InFlight(i)' = InFlight(i)
  BY DEF Counted, InFlight, ForgetCallback
<1>2. ASSUME NEW i \in Inos
      PROVE  daemon'[i] = Counted(i)' + InFlight(i)' + releasing'[i] + unreturned'[i]
  <2>1. daemon[i] = Counted(i) + InFlight(i) + releasing[i] + unreturned[i]
    BY DEF LookupsAddUp
  <2>2. /\ releasing[i] \in Nat /\ unreturned[i] \in Nat
        /\ Counted(i) \in Nat /\ InFlight(i) \in Nat
    BY Counted_Nat, InFlight_Nat DEF IInv, TypeOK
  <2>3. /\ daemon'[i] = IF i = j THEN daemon[i] - 1 ELSE daemon[i]
        /\ releasing'[i] = IF i = j THEN releasing[i] - 1 ELSE releasing[i]
        /\ unreturned' = unreturned
    BY DEF IInv, TypeOK, ForgetCallback, ForgetOne
  <2>. QED BY <1>1, <2>1, <2>2, <2>3
<1>. QED BY <1>2 DEF LookupsAddUp

\* A link: its entry is counted by the node of the vnode, or by nobody.
LEMMA Link_AddUp ==
    ASSUME IInv, IInv', LookupsAddUp, NEW t \in Threads, Link(t)
    PROVE  LookupsAddUp'
<1>. USE HNodeAssumption, EntryType
     DEF hashVars, fsnodeVars, vnodeVars, threadVars, daemonVars
<1>1. PICK a \in linked, j \in Inos :
          a = v_fsnode[vn[t]] /\ a \in Addrs /\ ino[a] = j
  BY DEF IInv, TypeOK, LocalInv, VnodeInv, Tied, HeldInv, Held, Holding, Link
<1>2. /\ \/ unreturned' = [unreturned EXCEPT ![j] = @ + 1] /\ nlookup' = nlookup
         \/ nlookup' = [nlookup EXCEPT ![a] = @ + 1] /\ unreturned' = unreturned
      /\ daemon' = [daemon EXCEPT ![j] = @ + 1]
      /\ UNCHANGED <<linked, ino, releasing>>
  BY <1>1 DEF Link
<1>3. \A i \in Inos : InFlight(i)' = InFlight(i)
  BY DEF InFlight, Link
<1>4. /\ Counted(j) = nlookup[a] /\ Counted(j)' = nlookup'[a]
      /\ \A i \in Inos \ {j} : Counted(i)' = Counted(i)
  <2>1. \A b \in linked \ {a} : nlookup'[b] = nlookup[b]
    BY <1>1, <1>2 DEF IInv, TypeOK
  <2>. QED BY <1>1, <1>2, <2>1, Counted_Change DEF IInv
<1>5. ASSUME NEW i \in Inos
      PROVE  daemon'[i] = Counted(i)' + InFlight(i)' + releasing'[i] + unreturned'[i]
  <2>1. daemon[i] = Counted(i) + InFlight(i) + releasing[i] + unreturned[i]
    BY DEF LookupsAddUp
  <2>2. /\ releasing[i] \in Nat /\ unreturned[i] \in Nat /\ nlookup[a] \in Nat
        /\ Counted(i) \in Nat /\ InFlight(i) \in Nat
    BY <1>1, Counted_Nat, InFlight_Nat DEF IInv, TypeOK
  <2>3. /\ daemon'[i] = IF i = j THEN daemon[i] + 1 ELSE daemon[i]
        /\ \/ /\ unreturned'[i] = IF i = j THEN unreturned[i] + 1 ELSE unreturned[i]
              /\ nlookup'[a] = nlookup[a]
           \/ nlookup'[a] = nlookup[a] + 1 /\ unreturned'[i] = unreturned[i]
    BY <1>1, <1>2 DEF IInv, TypeOK
  <2>. QED BY <1>2, <1>3, <1>4, <2>1, <2>2, <2>3
<1>. QED BY <1>5 DEF LookupsAddUp

\* A reclaim forgets exactly what the node has counted.
LEMMA ReclaimNode_AddUp ==
    ASSUME IInv, IInv', LookupsAddUp, NEW v \in VNodes, ReclaimNode(v)
    PROVE  LookupsAddUp'
<1>. USE HNodeAssumption, EntryType
     DEF hashVars, fsnodeVars, vnodeVars, threadVars, daemonVars
<1>1. PICK a \in linked, j \in Inos :
          /\ a = v_fsnode[v] /\ a \in Addrs /\ ino[a] = j
          /\ forkVNodesCount[a] = 1
  BY DEF IInv, TypeOK, CountInv, VnodeInv, Tied, ReclaimNode
<1>2. /\ daemon' = [daemon EXCEPT ![j] = @ - nlookup[a]]
      /\ linked' = linked \ {a} /\ ino' = [ino EXCEPT ![a] = AnEntry.ino]
      /\ nlookup' = [nlookup EXCEPT ![a] = 0]
      /\ UNCHANGED <<releasing, unreturned>>
  BY <1>1 DEF ReclaimNode, HNodeDetachVNode, HNodeForkVNodeDecrement
<1>3. \A i \in Inos : InFlight(i)' = InFlight(i)
  BY DEF InFlight, ReclaimNode
<1>4. {b \in linked : ino[b] = j} = {a}
  BY <1>1 DEF IInv, OneNodePerId
<1>5. \A b \in linked' : b \in linked /\ ino'[b] = ino[b]
        /\ nlookup'[b] = nlookup[b]
  BY <1>1, <1>2 DEF IInv, TypeOK
<1>6. Counted(j) = nlookup[a] /\ Counted(j)' = 0
  <2>1. {b \in linked' : ino'[b] = j} = {}
    BY <1>2, <1>4, <1>5
  <2>. QED BY <1>4, <2>1 DEF Counted
<1>7. ASSUME NEW i \in Inos \ {j}
      PROVE  Counted(i)' = Counted(i)
  <2>1. {b \in linked' : ino'[b] = i} = {b \in linked : ino[b] = i}
    BY <1>1, <1>2, <1>5, <1>7
  <2>2. CASE {b \in linked : ino[b] = i} = {}
    BY <2>1, <2>2 DEF Counted
  <2>3. CASE {b \in linked : ino[b] = i} # {}
    <3>. DEFINE c == CHOOSE b \in {b \in linked : ino[b] = i} : TRUE
    <3>1. c \in linked'
      BY <2>1, <2>3
    <3>. QED BY <1>5, <2>1, <2>3, <3>1 DEF Counted
  <2>. QED BY <2>2, <2>3
<1>8. ASSUME NEW i \in Inos
      PROVE  daemon'[i] = Counted(i)' + InFlight(i)' + releasing'[i] + unreturned'[i]
  <2>1. daemon[i] = Counted(i) + InFlight(i) + releasing[i] + unreturned[i]
    BY DEF LookupsAddUp
  <2>2. /\ releasing[i] \in Nat /\ unreturned[i] \in Nat /\ nlookup[a] \in Nat
        /\ Counted(i) \in Nat /\ InFlight(i) \in Nat
    BY <1>1, Counted_Nat, InFlight_Nat DEF IInv, TypeOK
  <2>3. daemon'[i] = IF i = j THEN daemon[i] - nlookup[a] ELSE daemon[i]
    BY <1>1, <1>2 DEF IInv, TypeOK
  <2>. QED BY <1>2, <1>3, <1>6, <1>7, <2>1, <2>2, <2>3
<1>. QED BY <1>8 DEF LookupsAddUp

\* The daemon's count of every id is what the kernel still owes it, so that a
\* FORGET never takes back a lookup that is still in use.
THEOREM LookupCounts == Spec => []LookupsAddUp
<1>1. Init => LookupsAddUp
  <2>. SUFFICES ASSUME Init, NEW i \in Inos
                PROVE  daemon[i] = Counted(i) + InFlight(i) + releasing[i] + unreturned[i]
    BY DEF LookupsAddUp
  <2>1. Counted(i) = 0
    BY DEF Init, Counted
  <2>2. Owing(i) = {}
    BY DEF Init, Owing, Owes
  <2>3. InFlight(i) = 0
    BY <2>2, InFlight_Nat, FS_EmptySet
  <2>. QED BY <2>1, <2>3 DEF Init
<1>2. LookupsAddUp /\ IInv /\ IInv' /\ [Next]_vars => LookupsAddUp'
  <2>. SUFFICES ASSUME LookupsAddUp, IInv, IInv', [Next]_vars
                PROVE  LookupsAddUp'
    OBVIOUS
  <2>1. CASE UNCHANGED vars
    BY <2>1 DEF LookupsAddUp, Counted, InFlight, vars, hashVars, fsnodeVars,
      threadVars, daemonVars
  <2>2. ASSUME NEW t \in Threads, Ask(t) \/ AlterVnodeForInode(t) \/ Put(t)
        \/ Link(t)
        PROVE  LookupsAddUp'
    BY <2>2, Ask_AddUp, Quiet_AddUp, Link_AddUp
  <2>3. ASSUME NEW t \in Threads, Step(t) PROVE LookupsAddUp'
    BY <2>3, Quiet_AddUp, Accept_AddUp, Fail_AddUp DEF Step
  <2>4. ASSUME NEW v \in VNodes, Recycle(v) \/ Recycled(v) PROVE LookupsAddUp'
    BY <2>4 DEF LookupsAddUp, Counted, InFlight, Recycle, Recycled, hashVars,
      fsnodeVars, threadVars, daemonVars
  <2>5. ASSUME NEW v \in VNodes, ReclaimNode(v) PROVE LookupsAddUp'
    BY <2>5, ReclaimNode_AddUp
  <2>6. ASSUME NEW i \in Inos, ForgetCallback(i) PROVE LookupsAddUp'
    BY <2>6, ForgetCallback_AddUp
  <2>. QED BY <2>1, <2>2, <2>3, <2>4, <2>5, <2>6 DEF Next, Reclaim
<1>. QED BY <1>1, <1>2, Invariance, PTL DEF Spec

-----------------------------------------------------------------------------
\* The hash implements the table of NodeTable.

\* The refinement mapping, as functions.
VnodeOf == [i \in Inos |-> AttachedVNode(i)]
Has == [t \in Threads |-> Given(t)]

\* The node of an id that has a vnode.
Shows(a, i) == a \in linked /\ ino[a] = i /\ forkVNodes[a] # None

\* The vnode of an id is that of its node.
LEMMA Attached_Node ==
    ASSUME OneNodePerId, NEW a, NEW i, Shows(a, i)
    PROVE  AttachedVNode(i) = forkVNodes[a]
<1>1. {b \in linked : ino[b] = i /\ forkVNodes[b] # None} = {a}
  BY DEF OneNodePerId, Shows
<1>. QED BY <1>1 DEF AttachedVNode

\* The same, of the next state.
LEMMA Attached_NodeNext ==
    ASSUME OneNodePerId', NEW a, NEW i, Shows(a, i)'
    PROVE  AttachedVNode(i)' = forkVNodes'[a]
<1>1. {b \in linked' : ino'[b] = i /\ forkVNodes'[b] # None} = {a}
  BY DEF OneNodePerId, Shows
<1>. QED BY <1>1 DEF AttachedVNode

\* An id without a node, or whose node has no vnode yet.
LEMMA Attached_None ==
    ASSUME NEW i, \A a \in linked : ~Shows(a, i)
    PROVE  AttachedVNode(i) = None
<1>1. {b \in linked : ino[b] = i /\ forkVNodes[b] # None} = {}
  BY DEF Shows
<1>. QED BY <1>1 DEF AttachedVNode

\* The same, of the next state.
LEMMA Attached_NoneNext ==
    ASSUME NEW i, \A a \in linked' : ~Shows(a, i)'
    PROVE  AttachedVNode(i)' = None
<1>1. {b \in linked' : ino'[b] = i /\ forkVNodes'[b] # None} = {}
  BY DEF Shows
<1>. QED BY <1>1 DEF AttachedVNode

\* A step that attaches and detaches no vnode ...
AttachedStays == \A a \in Addrs :
    /\ a \in linked' /\ forkVNodes'[a] # None
          <=> a \in linked /\ forkVNodes[a] # None
    /\ a \in linked /\ forkVNodes[a] # None =>
          ino'[a] = ino[a] /\ forkVNodes'[a] = forkVNodes[a]

\* ... and one that gives no thread a vnode, and takes none from it.
GivenStays == \A u \in Threads :
    /\ Holding(u)' <=> Holding(u)
    /\ Holding(u) => want'[u] = want[u] /\ vn'[u] = vn[u]

\* What such steps leave alone.
LEMMA Attached_Same ==
    ASSUME IInv, IInv', AttachedStays
    PROVE  VnodeOf' = VnodeOf
<1>. SUFFICES ASSUME NEW i \in Inos PROVE AttachedVNode(i)' = AttachedVNode(i)
  BY DEF VnodeOf
<1>1. linked \subseteq Addrs /\ linked' \subseteq Addrs
  BY DEF IInv, TypeOK
<1>2. CASE \E a \in linked : Shows(a, i)
  <2>1. PICK a \in linked : Shows(a, i)
    BY <1>2
  <2>2. Shows(a, i)' /\ forkVNodes'[a] = forkVNodes[a]
    BY <1>1, <2>1 DEF Shows, AttachedStays
  <2>. QED BY <2>1, <2>2, Attached_Node, Attached_NodeNext DEF IInv
<1>3. CASE \A a \in linked : ~Shows(a, i)
  <2>1. \A a \in linked' : ~Shows(a, i)'
    BY <1>1, <1>3 DEF Shows, AttachedStays
  <2>. QED BY <1>3, <2>1, Attached_None, Attached_NoneNext
<1>. QED BY <1>2, <1>3

\* What such steps leave alone.
LEMMA Given_Same ==
    ASSUME GivenStays
    PROVE  Has' = Has
<1>1. \A u \in Threads : Given(u)' = Given(u)
  BY DEF GivenStays, Given, Holding
<1>. QED BY <1>1 DEF Has

\* The steps that the table does not see.
LEMMA Quiet_Table ==
    ASSUME IInv, IInv', NEW t \in Threads,
           \/ Ask(t) \/ AlterVnodeForInode(t) \/ SearchMiss(t) \/ ClaimAttach(t)
           \/ SearchWait(t) \/ SearchHit(t) \/ VnodeCreate(t)
           \/ HNodeAttachVNodeFailed(t) \/ Accept(t) \/ Disappear(t) \/ Fail(t)
           \/ Link(t)
    PROVE  UNCHANGED <<VnodeOf, Has>>
<1>. USE HNodeAssumption, EntryType
     DEF hashVars, fsnodeVars, vnodeVars, threadVars, daemonVars
<1>. SUFFICES AttachedStays /\ GivenStays
  BY Attached_Same, Given_Same
<1>1. ASSUME Ask(t) PROVE AttachedStays /\ GivenStays
  <2>1. AttachedStays
    BY <1>1 DEF IInv, TypeOK, LocalInv, AttachedStays, Ask
  <2>2. GivenStays
    BY <1>1 DEF IInv, TypeOK, LocalInv, GivenStays, Holding, Ask, GoTo
  <2>. QED BY <2>1, <2>2
<1>2. ASSUME AlterVnodeForInode(t) PROVE AttachedStays /\ GivenStays
  <2>1. AttachedStays
    BY <1>2 DEF IInv, TypeOK, LocalInv, AttachedStays, AlterVnodeForInode,
        Found, Busy
  <2>2. GivenStays
    BY <1>2 DEF IInv, TypeOK, LocalInv, GivenStays, Holding,
        AlterVnodeForInode, GoTo
  <2>. QED BY <2>1, <2>2
<1>3. ASSUME SearchMiss(t) PROVE AttachedStays /\ GivenStays
  <2>1. AttachedStays
    BY <1>3 DEF IInv, TypeOK, LocalInv, AttachedStays, SearchMiss, Found,
        MemoryInv
  <2>2. GivenStays
    BY <1>3 DEF IInv, TypeOK, LocalInv, GivenStays, Holding, SearchMiss, GoTo
  <2>. QED BY <2>1, <2>2
<1>4. ASSUME ClaimAttach(t) PROVE AttachedStays /\ GivenStays
  <2>1. AttachedStays
    BY <1>4 DEF IInv, TypeOK, LocalInv, AttachedStays, ClaimAttach, Found,
        Busy, NodeAtHand, MemoryInv, BlankInv, CountInv
  <2>2. GivenStays
    BY <1>4 DEF IInv, TypeOK, LocalInv, GivenStays, Holding, ClaimAttach, GoTo
  <2>. QED BY <2>1, <2>2
<1>5. ASSUME SearchWait(t) PROVE AttachedStays /\ GivenStays
  <2>1. AttachedStays
    BY <1>5 DEF IInv, TypeOK, LocalInv, AttachedStays, SearchWait, Found, Busy
  <2>2. GivenStays
    BY <1>5 DEF IInv, TypeOK, LocalInv, GivenStays, Holding, SearchWait, GoTo
  <2>. QED BY <2>1, <2>2
<1>6. ASSUME SearchHit(t) PROVE AttachedStays /\ GivenStays
  <2>1. AttachedStays
    BY <1>6 DEF IInv, TypeOK, LocalInv, AttachedStays, SearchHit, Found, Busy
  <2>2. GivenStays
    BY <1>6 DEF IInv, TypeOK, LocalInv, GivenStays, Holding, SearchHit, GoTo
  <2>. QED BY <2>1, <2>2
<1>7. ASSUME VnodeCreate(t) PROVE AttachedStays /\ GivenStays
  <2>1. AttachedStays
    BY <1>7 DEF IInv, TypeOK, LocalInv, AttachedStays, VnodeCreate
  <2>2. GivenStays
    BY <1>7 DEF IInv, TypeOK, LocalInv, GivenStays, Holding, VnodeCreate, GoTo
  <2>. QED BY <2>1, <2>2
<1>8. ASSUME HNodeAttachVNodeFailed(t) PROVE AttachedStays /\ GivenStays
  <2>1. AttachedStays
    BY <1>8 DEF IInv, TypeOK, LocalInv, AttachedStays, HNodeAttachVNodeFailed,
        HNodeForkVNodeDecrement, AttachInv, CountInv, BlankInv, Attaching
  <2>2. GivenStays
    BY <1>8 DEF IInv, TypeOK, LocalInv, GivenStays, Holding,
        HNodeAttachVNodeFailed, HNodeAttachComplete, Woken
  <2>. QED BY <2>1, <2>2
<1>9. ASSUME Accept(t) PROVE AttachedStays /\ GivenStays
  <2>1. AttachedStays
    BY <1>9 DEF IInv, TypeOK, LocalInv, AttachedStays, Accept
  <2>2. GivenStays
    BY <1>9 DEF IInv, TypeOK, LocalInv, GivenStays, Holding, Accept, GoTo
  <2>. QED BY <2>1, <2>2
<1>10. ASSUME Disappear(t) PROVE AttachedStays /\ GivenStays
  <2>1. AttachedStays
    BY <1>10 DEF IInv, TypeOK, LocalInv, AttachedStays, Disappear
  <2>2. GivenStays
    BY <1>10 DEF IInv, TypeOK, LocalInv, GivenStays, Holding, Disappear, GoTo
  <2>. QED BY <2>1, <2>2
<1>11. ASSUME Fail(t) PROVE AttachedStays /\ GivenStays
  <2>1. AttachedStays
    BY <1>11 DEF IInv, TypeOK, LocalInv, AttachedStays, Fail
  <2>2. GivenStays
    BY <1>11 DEF IInv, TypeOK, LocalInv, GivenStays, Holding, Fail, GoTo, Leave
  <2>. QED BY <2>1, <2>2
<1>12. ASSUME Link(t) PROVE AttachedStays /\ GivenStays
  <2>1. AttachedStays
    BY <1>12 DEF IInv, TypeOK, LocalInv, AttachedStays, Link
  <2>2. GivenStays
    BY <1>12 DEF IInv, TypeOK, LocalInv, GivenStays, Holding, Link
  <2>. QED BY <2>1, <2>2
<1>. QED BY <1>1, <1>2, <1>3, <1>4, <1>5, <1>6, <1>7, <1>8, <1>9, <1>10, <1>11,
    <1>12

\* A thread takes the vnode the node has, or goes on searching.
LEMMA GetWithVid_Table ==
    ASSUME IInv, IInv', NEW t \in Threads, GetWithVid(t)
    PROVE  [Table!Next]_(Table!tableVars)
<1>. USE HNodeAssumption, EntryType
     DEF hashVars, fsnodeVars, vnodeVars, threadVars, daemonVars
<1>1. AttachedStays
  BY DEF IInv, TypeOK, LocalInv, MemoryInv, AttachedStays, GetWithVid,
    FreeNewNode
<1>2. VnodeOf' = VnodeOf
  BY <1>1, Attached_Same
<1>3. CASE vn' = vn
  <2>1. GivenStays
    BY <1>3 DEF IInv, TypeOK, LocalInv, GivenStays, Holding, GetWithVid, Leave,
        GoTo
  <2>. QED BY <1>2, <2>1, Given_Same DEF Table!tableVars, VnodeOf, Has
<1>4. CASE vn' # vn
  <2>1. PICK v \in VNodes, i \in Inos :
           v = candidateVN[t] /\ i = want[t].ino /\ vn' = [vn EXCEPT ![t] = v]
    BY <1>4 DEF IInv, TypeOK, LocalInv, GetWithVid
  <2>2. /\ ~Holding(t) /\ Holding(t)' /\ want' = want /\ vn'[t] = v
        /\ \A u \in Threads \ {t} :
              (Holding(u)' <=> Holding(u)) /\ vn'[u] = vn[u]
    BY <1>4, <2>1 DEF IInv, TypeOK, Holding, GetWithVid, GoTo
  <2>3. Given(t) = None /\ Given(t)' = <<i, v>>
    BY <2>1, <2>2 DEF Given, Holding
  <2>4. \A u \in Threads \ {t} : Given(u)' = Given(u)
    BY <2>2 DEF Given, Holding
  <2>5. Has' = [Has EXCEPT ![t] = <<i, v>>] /\ Has[t] = None
    BY <2>3, <2>4 DEF Has
  <2>6. VnodeOf[i] = v
    <3>1. Held(t)' /\ Tied(v)'
      BY <2>1 DEF IInv, HeldInv, VnodeInv
    <3>2. PICK a : a \in linked' /\ ino'[a] = i /\ forkVNodes'[a] = v
      BY <2>1, <2>2, <3>1 DEF IInv, TypeOK, Held, Tied
    <3>3. Shows(a, i)'
      BY <2>1, <3>2 DEF Shows
    <3>. QED BY <1>2, <3>2, <3>3, Attached_NodeNext DEF IInv, VnodeOf
  <2>7. VnodeOf' = [VnodeOf EXCEPT ![i] = v]
    BY <1>2, <2>6 DEF VnodeOf
  <2>8. Table!Get(t, i, v)
    BY <2>5, <2>6, <2>7 DEF Table!Get, VnodeOf, Has
  <2>. QED BY <2>1, <2>8 DEF Table!Next
<1>. QED BY <1>3, <1>4

\* An attach that succeeds gives the id its vnode.
LEMMA Succeeded_Table ==
    ASSUME IInv, IInv', NEW t \in Threads, HNodeAttachVNodeSucceeded(t)
    PROVE  Table!Next
<1>. USE HNodeAssumption, EntryType
     DEF hashVars, fsnodeVars, vnodeVars, threadVars, daemonVars
<1>1. PICK a \in linked, v \in VNodes, i \in Inos :
         /\ a = thisNode[t] /\ v = vn[t] /\ i = want[t].ino
         /\ a \in Addrs /\ ino[a] = i /\ forkVNodes[a] = None /\ v_fsnode[v] = a
  BY DEF IInv, TypeOK, LocalInv, BlankInv, CountInv, AttachInv, Attaching,
    HeldInv, Held, HNodeAttachVNodeSucceeded
<1>2. /\ forkVNodes' = [forkVNodes EXCEPT ![a] = v]
      /\ UNCHANGED <<linked, ino, want, vn>>
  BY <1>1 DEF HNodeAttachVNodeSucceeded
<1>3. /\ ~Holding(t) /\ Holding(t)'
      /\ \A u \in Threads \ {t} : Holding(u)' <=> Holding(u)
  BY DEF Holding, HNodeAttachVNodeSucceeded, HNodeAttachComplete, Woken
<1>4. Has' = [Has EXCEPT ![t] = <<i, v>>] /\ Has[t] = None
  <2>1. Given(t) = None /\ Given(t)' = <<i, v>>
    BY <1>1, <1>2, <1>3 DEF Given, Holding
  <2>2. \A u \in Threads \ {t} : Given(u)' = Given(u)
    BY <1>2, <1>3 DEF Given, Holding
  <2>. QED BY <2>1, <2>2 DEF Has
<1>5. VnodeOf[i] = None
  <2>1. \A b \in linked : ~Shows(b, i)
    BY <1>1 DEF IInv, OneNodePerId, Shows
  <2>. QED BY <2>1, Attached_None DEF VnodeOf
<1>6. \A j \in Inos : VnodeOf[j] # v
  <2>. SUFFICES ASSUME NEW j \in Inos PROVE AttachedVNode(j) # v
    BY DEF VnodeOf
  <2>1. CASE \E b \in linked : Shows(b, j)
    <3>1. PICK b \in linked : Shows(b, j)
      BY <2>1
    <3>2. AttachedVNode(j) = forkVNodes[b]
      BY <3>1, Attached_Node DEF IInv
    <3>3. b \in Addrs /\ v_fsnode[forkVNodes[b]] = b
      BY <3>1 DEF IInv, TypeOK, VnodeInv, Shows
    <3>. QED BY <1>1, <3>1, <3>2, <3>3 DEF Shows
  <2>2. CASE \A b \in linked : ~Shows(b, j)
    BY <2>2, Attached_None
  <2>. QED BY <2>1, <2>2
<1>7. VnodeOf' = [VnodeOf EXCEPT ![i] = v]
  <2>1. AttachedVNode(i)' = v
    <3>1. Shows(a, i)' /\ forkVNodes'[a] = v
      BY <1>1, <1>2 DEF IInv, TypeOK, Shows
    <3>. QED BY <3>1, Attached_NodeNext DEF IInv
  <2>2. ASSUME NEW j \in Inos \ {i} PROVE AttachedVNode(j)' = AttachedVNode(j)
    <3>1. \A b \in linked : Shows(b, j)' <=> Shows(b, j)
      BY <1>1, <1>2 DEF IInv, TypeOK, Shows
    <3>2. CASE \E b \in linked : Shows(b, j)
      <4>1. PICK b \in linked : Shows(b, j)
        BY <3>2
      <4>2. forkVNodes'[b] = forkVNodes[b]
        BY <1>1, <1>2, <4>1 DEF IInv, TypeOK, Shows
      <4>. QED BY <3>1, <4>1, <4>2, Attached_Node, Attached_NodeNext DEF IInv
    <3>3. CASE \A b \in linked : ~Shows(b, j)
      BY <1>2, <3>1, <3>3, Attached_None, Attached_NoneNext
    <3>. QED BY <3>2, <3>3
  <2>. QED BY <2>1, <2>2 DEF VnodeOf
<1>8. Table!Get(t, i, v)
  BY <1>4, <1>5, <1>6, <1>7 DEF Table!Get, VnodeOf, Has
<1>. QED BY <1>8 DEF Table!Next

\* A thread lets go of its vnode.
LEMMA Release_Table ==
    ASSUME IInv, IInv', NEW t \in Threads, Put(t) \/ Disappeared(t)
    PROVE  Table!Next
<1>. USE HNodeAssumption
     DEF hashVars, fsnodeVars, vnodeVars, threadVars, daemonVars
<1>1. VnodeOf' = VnodeOf
  <2>1. AttachedStays BY DEF AttachedStays, Put, Disappeared
  <2>. QED BY <2>1, Attached_Same
<1>2. /\ Holding(t) /\ ~Holding(t)'
      /\ \A u \in Threads \ {t} : /\ Holding(u)' <=> Holding(u)
                                  /\ want'[u] = want[u] /\ vn'[u] = vn[u]
  BY DEF IInv, TypeOK, Holding, Put, Disappeared, Leave, GoTo
<1>3. Has[t] # None
  <2>1. want[t].ino \in Inos /\ vn[t] \in VNodes
    BY <1>2, EntryType DEF IInv, TypeOK, LocalInv
  <2>2. Given(t) = <<want[t].ino, vn[t]>>
    BY <1>2 DEF Given, Holding
  <2>. QED BY <2>1, <2>2 DEF Has
<1>4. Has' = [Has EXCEPT ![t] = None]
  <2>1. Given(t)' = None
    BY <1>2 DEF Given, Holding
  <2>2. \A u \in Threads \ {t} : Given(u)' = Given(u)
    BY <1>2 DEF Given, Holding
  <2>. QED BY <2>1, <2>2 DEF Has
<1>5. Table!Put(t)
  BY <1>1, <1>3, <1>4 DEF Table!Put, VnodeOf, Has
<1>. QED BY <1>5 DEF Table!Next

\* A reclaim takes its vnode from an id, when no thread has it.
LEMMA ReclaimNode_Table ==
    ASSUME IInv, IInv', NEW v \in VNodes, ReclaimNode(v)
    PROVE  Table!Next
<1>. USE HNodeAssumption, EntryType
     DEF hashVars, fsnodeVars, vnodeVars, threadVars, daemonVars
<1>1. PICK a \in linked, i \in Inos :
         /\ a = v_fsnode[v] /\ a \in Addrs /\ ino[a] = i
         /\ forkVNodes[a] = v /\ forkVNodesCount[a] = 1
  BY DEF IInv, TypeOK, CountInv, VnodeInv, Tied, HeldInv, Held, ReclaimNode
<1>2. /\ linked' = linked \ {a} /\ ino' = [ino EXCEPT ![a] = AnEntry.ino]
      /\ forkVNodes' = [forkVNodes EXCEPT ![a] = None]
      /\ UNCHANGED <<pc, want, vn>>
  BY <1>1 DEF ReclaimNode, HNodeDetachVNode, HNodeForkVNodeDecrement
<1>3. Has' = Has
  <2>1. GivenStays BY <1>2 DEF GivenStays, Holding
  <2>. QED BY <2>1, Given_Same
<1>4. VnodeOf[i] = v
  <2>1. Shows(a, i) BY <1>1 DEF Shows
  <2>. QED BY <1>1, <2>1, Attached_Node DEF IInv, VnodeOf
<1>5. \A u \in Threads : Has[u] # <<i, v>>
  <2>1. \A u \in Threads : vn[u] # v
    BY DEF IInv, TypeOK, HeldInv, Held, ReclaimNode
  <2>. QED BY <2>1 DEF Has, Given
<1>6. VnodeOf' = [VnodeOf EXCEPT ![i] = None]
  <2>1. \A j \in Inos, b \in linked' : Shows(b, j)' <=> Shows(b, j)
    BY <1>1, <1>2 DEF IInv, TypeOK, Shows
  <2>2. AttachedVNode(i)' = None
    <3>1. \A b \in linked' : ~Shows(b, i)'
      BY <1>1, <1>2, <2>1 DEF IInv, OneNodePerId, Shows
    <3>. QED BY <3>1, Attached_NoneNext
  <2>3. ASSUME NEW j \in Inos \ {i} PROVE AttachedVNode(j)' = AttachedVNode(j)
    <3>1. CASE \E b \in linked : Shows(b, j)
      <4>1. PICK b \in linked : Shows(b, j)
        BY <3>1
      <4>2. b \in linked' /\ forkVNodes'[b] = forkVNodes[b]
        BY <1>1, <1>2, <4>1 DEF IInv, TypeOK, Shows
      <4>. QED BY <2>1, <4>1, <4>2, Attached_Node, Attached_NodeNext DEF IInv
    <3>2. CASE \A b \in linked : ~Shows(b, j)
      BY <1>2, <2>1, <3>2, Attached_None, Attached_NoneNext
    <3>. QED BY <3>1, <3>2
  <2>. QED BY <2>2, <2>3 DEF VnodeOf
<1>7. Table!Drop(i)
  BY <1>3, <1>4, <1>5, <1>6 DEF Table!Drop, VnodeOf, Has
<1>. QED BY <1>7 DEF Table!Next

\* The node hash, with its races, implements the table of NodeTable: an id
\* never has two vnodes, and loses its vnode only when no thread has it.
THEOREM Refinement == Spec => ImplementsNodeTable
<1>1. Init => Table!Init
  <2>. SUFFICES ASSUME Init PROVE Table!Init
    OBVIOUS
  <2>1. \A i \in Inos : AttachedVNode(i) = None
    BY DEF Init, AttachedVNode
  <2>2. \A t \in Threads : Given(t) = None
    BY DEF Init, Given
  <2>. QED BY <2>1, <2>2 DEF Table!Init
<1>2. IInv /\ IInv' /\ [Next]_vars => [Table!Next]_(Table!tableVars)
  <2>. SUFFICES ASSUME IInv, IInv', [Next]_vars
                PROVE  [Table!Next]_(Table!tableVars)
    OBVIOUS
  <2>. DEFINE Same == UNCHANGED <<VnodeOf, Has>>
  <2>1. Same => UNCHANGED Table!tableVars
    BY DEF Table!tableVars, VnodeOf, Has
  <2>. HIDE DEF Same
  <2>2. CASE UNCHANGED vars
    BY <2>1, <2>2 DEF Same, VnodeOf, Has, AttachedVNode, Given, vars, hashVars,
      threadVars
  <2>3. ASSUME NEW t \in Threads, Ask(t) \/ AlterVnodeForInode(t) \/ Put(t)
        \/ Link(t)
        PROVE  Table!Next \/ Same
    BY <2>3, Quiet_Table, Release_Table DEF Same
  <2>4. ASSUME NEW t \in Threads, Step(t)
        PROVE  [Table!Next]_(Table!tableVars)
    BY <2>1, <2>4, Quiet_Table, GetWithVid_Table, Succeeded_Table, Release_Table
      DEF Same, Step
  <2>5. ASSUME NEW v \in VNodes, Recycle(v) \/ Recycled(v) PROVE Same
    <3>1. UNCHANGED <<hashVars, threadVars>>
      BY <2>5 DEF Recycle, Recycled
    <3>. QED BY <3>1 DEF Same, VnodeOf, Has, AttachedVNode, Given, hashVars,
      threadVars
  <2>6. ASSUME NEW v \in VNodes, ReclaimNode(v) PROVE Table!Next
    BY <2>6, ReclaimNode_Table
  <2>7. ASSUME NEW i \in Inos, ForgetCallback(i) PROVE Same
    BY <2>7 DEF Same, VnodeOf, Has, AttachedVNode, Given, ForgetCallback,
      hashVars, threadVars
  <2>. QED BY <2>1, <2>2, <2>3, <2>4, <2>5, <2>6, <2>7 DEF Next, Reclaim
<1>. QED BY <1>1, <1>2, Invariance, PTL DEF Spec, Table!Spec,
  ImplementsNodeTable
=============================================================================
