--------------------------- MODULE FuseIpcProofs ---------------------------
(* Proofs about FuseIpc that hold for every value of its constants. *)
EXTENDS FuseIpc, SequenceTheorems, TLAPS

\* A queue from which one element is removed is a queue of the same elements.
LEMMA RemoveAtType ==
    ASSUME NEW S, NEW q \in Seq(S), NEW i \in DOMAIN q
    PROVE  RemoveAt(q, i) \in Seq(S)
<1>1. i \in 1 .. Len(q)
  OBVIOUS
<1>2. SubSeq(q, 1, i - 1) \in Seq(S) /\ SubSeq(q, i + 1, Len(q)) \in Seq(S)
  BY <1>1, SubSeqProperties
<1>3. QED
  BY <1>2, ConcatProperties DEF RemoveAt

\* The empty reply header is a reply.
LEMMA NoReplyType == NoReply \in Replies
  BY DEF NoReply, Replies, Requests, TicketOrNone, AllReplyKinds

\* What the provers need to know of the constants, without the Booleans.
LEMMA ConstantTypes ==
    /\ Ops \subseteq AllOps /\ ReplyKinds \subseteq AllReplyKinds
    /\ MaxRequests \in Nat /\ MaxKills \in Nat
  BY Zenon, IpcAssumption

\* The ticket at the head of a queue, and what is left.
LEMMA PopType ==
    ASSUME NEW q \in Seq(Tickets), q # <<>>
    PROVE  Head(q) \in Tickets /\ Tail(q) \in Seq(Tickets)
  OBVIOUS

\* Setting a bit of tk_flag keeps its type.
LEMMA MarkedType ==
    ASSUME TicketType, NEW t \in Tickets, NEW f \in Flags
    PROVE  [tk_flag EXCEPT ![t] = @ \union {f}] \in [Tickets -> SUBSET Flags]
  BY DEF TicketType

\* fticket_refresh keeps the types of what it resets.
LEMMA RefreshType ==
    ASSUME TicketType, NEW t \in Tickets, fticket_refresh(t)
    PROVE  /\ tk_flag' \in [Tickets -> SUBSET Flags]
           /\ tk_age' \in [Tickets -> Nat]
           /\ tk_aw_errno' \in [Tickets -> {"0", "EINVAL", "ENOTCONN"}]
           /\ tk_aw_ohead' \in [Tickets -> Replies]
  BY NoReplyType DEF TicketType, fticket_refresh

\* fuse_push_freeticks keeps the types of the free list and its counter.
LEMMA PushType ==
    ASSUME QueueType, NEW t \in Tickets, fuse_push_freeticks(t)
    PROVE  /\ free' \in Seq(Tickets)
           /\ freeticket_counter' \in Nat
           /\ free_loop' \in BOOLEAN
<1>1. freeticket_counter' \in Nat
  BY DEF QueueType, fuse_push_freeticks
<1>2. CASE t \notin ToSet(free)
  <2>1. free' = Append(free, t) /\ free_loop' = FALSE
    BY <1>2 DEF fuse_push_freeticks
  <2>2. free' \in Seq(Tickets)
    BY <2>1 DEF QueueType
  <2>3. QED
    BY <1>1, <2>1, <2>2
<1>3. CASE t \in ToSet(free)
  <2>1. PICK i \in DOMAIN free :
            free' = SubSeq(free, 1, i) /\ free_loop' = (i = Len(free))
    BY <1>3 DEF fuse_push_freeticks
  <2>2. free \in Seq(Tickets) /\ 1 \in Int /\ i \in 1 .. Len(free)
    BY DEF QueueType
  <2>3. free' \in Seq(Tickets)
    BY <2>1, <2>2, SubSeqProperties
  <2>4. QED
    BY <1>1, <2>1, <2>3
<1>4. QED
  BY <1>2, <1>3

\* Where a thread goes once its message is out, or need not go out.
LEMMA AfterSendType ==
    ASSUME CallerType, NEW r \in Requesters, AfterSend(r)
    PROVE  CallerType'
<1>1. CASE intr[r]
  <2>1. /\ pc' = [pc EXCEPT ![r] = "waited"]
        /\ itick' = [itick EXCEPT ![r] = NoTicket]
        /\ err' = [err EXCEPT ![r] = "EINTR"]
        /\ UNCHANGED <<op, tick, age>>
    BY <1>1 DEF AfterSend, Goto
  <2>2. intr' = [intr EXCEPT ![r] = FALSE]
    BY <1>1 DEF AfterSend
  <2>3. intr' \in [Requesters -> BOOLEAN]
    BY <2>2 DEF CallerType
  <2>4. QED
    BY <2>1, <2>3 DEF CallerType, RequesterPCs, TicketOrNone, Errors
<1>2. CASE ~intr[r] /\ op[r] \in {"call", "init"}
  BY <1>2 DEF CallerType, AfterSend, Goto, RequesterPCs
<1>3. CASE ~intr[r] /\ op[r] \notin {"call", "init"}
  BY <1>3 DEF CallerType, AfterSend, Return, RequesterPCs, TicketOrNone,
      Errors
<1>4. QED
  BY <1>1, <1>2, <1>3

\* A step that leaves its variables alone leaves a type alone.
LEMMA BitFrame ==
    ASSUME BitType, UNCHANGED <<dead, inited, closed, free_loop>>
    PROVE  BitType'
  BY DEF BitType

\* The same for SessionType.
LEMMA SessionFrame ==
    ASSUME SessionType,
           UNCHANGED <<phase, timeout_status, drain, panic, requests, kills>>
    PROVE  SessionType'
  BY DEF SessionType

\* The same for QueueType.
LEMMA QueueFrame ==
    ASSUME QueueType, UNCHANGED <<ms, aw, free, freeticket_counter, ticketer>>
    PROVE  QueueType'
  BY DEF QueueType

\* The same for TicketType.
LEMMA TicketFrame ==
    ASSUME TicketType,
           UNCHANGED <<tk_life, tk_unique, tk_flag, tk_age, tk_aw_handler,
                       tk_aw_errno, tk_aw_ohead>>
    PROVE  TicketType'
  BY DEF TicketType

\* The same for CallerType.
LEMMA CallerFrame ==
    ASSUME CallerType, UNCHANGED <<pc, op, tick, intr, itick, err, age>>
    PROVE  CallerType'
  BY DEF CallerType

\* The same for DaemonType.
LEMMA DaemonFrame ==
    ASSUME DaemonType, UNCHANGED <<spc, stick, sreply, inbox>>
    PROVE  DaemonType'
  BY DEF DaemonType

\* A caller's step keeps every pointer that will be dereferenced, if it keeps
\* its own.
LEMMA OwnDerefs ==
    ASSUME \A q \in Requesters : CallerDerefs(q),
           NEW r \in Requesters, CallerDerefs(r)',
           \A q \in Requesters : q # r =>
              /\ pc'[q] = pc[q] /\ tick'[q] = tick[q]
              /\ intr'[q] = intr[q] /\ itick'[q] = itick[q]
    PROVE  \A q \in Requesters : CallerDerefs(q)'
<1> SUFFICES ASSUME NEW q \in Requesters, q # r PROVE CallerDerefs(q)'
  OBVIOUS
<1>1. /\ pc'[q] = pc[q] /\ tick'[q] = tick[q]
      /\ intr'[q] = intr[q] /\ itick'[q] = itick[q]
  OBVIOUS
<1>2. CallerDerefs(q)
  OBVIOUS
<1>3. QED
  BY <1>1, <1>2 DEF CallerDerefs, Current

\* Fetched stores the ticket where its thread looks for it.
LEMMA FetchedType ==
    ASSUME CallerType, NEW r \in Requesters, NEW t \in Tickets, Fetched(r, t),
           UNCHANGED <<op, intr, err, age>>
    PROVE  CallerType'
<1>1. pc' \in [Requesters -> RequesterPCs]
  BY DEF CallerType, Fetched, Goto, RequesterPCs
<1>2. tick' \in [Requesters -> TicketOrNone] /\ itick' \in [Requesters -> TicketOrNone]
  BY DEF CallerType, Fetched, TicketOrNone
<1>3. QED
  BY <1>1, <1>2 DEF CallerType

\* With a fetched ticket, its thread has no null pointer to follow.
LEMMA FetchedDerefs ==
    ASSUME CallerType, \A q \in Requesters : CallerDerefs(q),
           NEW r \in Requesters, NEW t \in Tickets, Fetched(r, t),
           pc[r] \in {"fetch", "alloc"}, UNCHANGED intr
    PROVE  \A q \in Requesters : CallerDerefs(q)'
<1>1. PICK l \in {"insert_msg", "insert_cb"} : pc' = [pc EXCEPT ![r] = l]
  BY DEF Fetched, Goto
<1>2. intr[r] => pc'[r] = "insert_msg" /\ tick[r] \in Tickets
  BY DEF CallerType, CallerDerefs, Fetched, Goto
<1>3. /\ intr[r] => itick' = [itick EXCEPT ![r] = t] /\ tick' = tick
      /\ ~intr[r] => tick' = [tick EXCEPT ![r] = t] /\ itick' = itick
  BY DEF Fetched
<1>4. CallerDerefs(r)'
  BY <1>2, <1>3 DEF CallerType, CallerDerefs, Current
<1>5. \A q \in Requesters : q # r =>
         /\ pc'[q] = pc[q] /\ tick'[q] = tick[q]
         /\ intr'[q] = intr[q] /\ itick'[q] = itick[q]
  BY <1>1, <1>3 DEF CallerType
<1>6. QED
  BY <1>4, <1>5, OwnDerefs

\* What is left of the pointers after the message is out, or the ticket dropped.
LEMMA AfterSendDerefs ==
    ASSUME CallerType, \A q \in Requesters : CallerDerefs(q),
           NEW r \in Requesters, AfterSend(r), pc[r] \in {"insert_msg", "push_ms"}
    PROVE  \A q \in Requesters : CallerDerefs(q)'
<1>1. PICK l \in {"waited", "wait", "idle"} : pc' = [pc EXCEPT ![r] = l]
  BY DEF AfterSend, Goto, Return
<1>2. /\ tick' = tick \/ (pc'[r] = "idle" /\ tick' = [tick EXCEPT ![r] = NoTicket])
      /\ itick' = itick \/ itick' = [itick EXCEPT ![r] = NoTicket]
      /\ tick[r] \in Tickets
  BY <1>1 DEF CallerType, CallerDerefs, Current, AfterSend, Return
<1>3. /\ intr' = intr \/ intr' = [intr EXCEPT ![r] = FALSE]
      /\ ~intr'[r]
  BY DEF CallerType, AfterSend, Return
<1>4. CallerDerefs(r)'
  BY <1>1, <1>2, <1>3 DEF CallerType, CallerDerefs, Current
<1>5. \A q \in Requesters : q # r =>
         /\ pc'[q] = pc[q] /\ tick'[q] = tick[q]
         /\ intr'[q] = intr[q] /\ itick'[q] = itick[q]
  BY <1>1, <1>2, <1>3 DEF CallerType
<1>6. QED
  BY <1>4, <1>5, OwnDerefs

\* After fuse_ticket_drop its thread follows the ticket no more.
LEMMA AfterDropDerefs ==
    ASSUME CallerType, \A q \in Requesters : CallerDerefs(q),
           NEW r \in Requesters, AfterDrop(r), pc[r] \in {"drop", "push"}
    PROVE  \A q \in Requesters : CallerDerefs(q)'
<1>1. PICK l \in {"initsync", "idle"} : pc' = [pc EXCEPT ![r] = l]
  BY DEF AfterDrop, Goto, Return
<1>2. /\ tick' = [tick EXCEPT ![r] = NoTicket]
      /\ UNCHANGED <<intr, itick>> /\ ~intr[r]
  BY DEF CallerDerefs, AfterDrop, Return
<1>3. CallerDerefs(r)'
  BY <1>1, <1>2 DEF CallerType, CallerDerefs
<1>4. \A q \in Requesters : q # r =>
         /\ pc'[q] = pc[q] /\ tick'[q] = tick[q]
         /\ intr'[q] = intr[q] /\ itick'[q] = itick[q]
  BY <1>1, <1>2 DEF CallerType
<1>5. QED
  BY <1>3, <1>4, OwnDerefs

\* The state after fdata_alloc has its types.
LEMMA InitType == Init => TypeOK
<1> SUFFICES ASSUME Init PROVE TypeOK
  OBVIOUS
<1>0. BitType
  BY DEF Init, BitType
<1>1. SessionType
  BY IpcAssumption DEF Init, SessionType
<1>2. QueueType
  BY DEF Init, QueueType
<1>3. TicketType
  BY NoReplyType DEF Init, TicketType, Flags, Handlers
<1>4. CallerType
  BY DEF Init, CallerType, RequesterPCs, AllOps, TicketOrNone, Errors
<1>5. DaemonType
  BY NoReplyType DEF Init, DaemonType, ServerPCs, TicketOrNone
<1>6. \A r \in Requesters : CallerDerefs(r)
  BY DEF Init, CallerDerefs
<1>7. \A s \in Servers : ServerDerefs(s)
  BY DEF Init, ServerDerefs
<1>8. QED
  BY <1>0, <1>1, <1>2, <1>3, <1>4, <1>5, <1>6, <1>7 DEF TypeOK

\* Start keeps the types and leaves no null pointer to follow.
LEMMA Start_Type ==
    ASSUME TypeOK, NEW r \in Requesters, NEW o \in Ops \union {"init"}, Start(r, o)
    PROVE  TypeOK'
<1>1. /\ requests \in 0 .. MaxRequests /\ requests < MaxRequests
      /\ requests' = requests + 1
  BY DEF TypeOK, SessionType, Start
<1>2. requests' \in 0 .. MaxRequests
  BY <1>1, ConstantTypes
<1>3. SessionType'
  BY <1>1, <1>2 DEF TypeOK, SessionType, Start, Goto, queues, pool, daemon,
      ticketv
<1>4. CallerType'
  BY ConstantTypes, <1>1, <1>2 DEF TypeOK, CallerType, RequesterPCs, AllOps,
      TicketOrNone, Errors, Start, Goto, queues, pool, daemon, ticketv
<1>5. BitType' /\ QueueType' /\ TicketType' /\ DaemonType'
  <2>1. UNCHANGED <<dead, inited, closed, free_loop, ms, aw, free,
      freeticket_counter, ticketer, tk_life, tk_unique, tk_flag, tk_age,
      tk_aw_handler, tk_aw_errno, tk_aw_ohead, spc, stick, sreply, inbox>>
    BY DEF Start, Goto, queues, pool, daemon, ticketv
  <2>2. QED
    BY <2>1, BitFrame, QueueFrame, TicketFrame, DaemonFrame DEF TypeOK
<1>6. \A q \in Requesters : CallerDerefs(q)'
  BY <1>1, <1>2 DEF TypeOK, CallerDerefs, Current, CallerType, QueueType,
      TicketOrNone, RequesterPCs, Start, Goto, queues, pool, daemon, ticketv
<1>7. \A q \in Servers : ServerDerefs(q)'
  BY DEF TypeOK, ServerDerefs, Start, Goto, queues, pool, daemon, ticketv
<1>8. QED
  BY <1>3, <1>4, <1>5, <1>6, <1>7 DEF TypeOK

\* FetchFree keeps the types and leaves no null pointer to follow.
LEMMA FetchFree_Type ==
    ASSUME TypeOK, NEW r \in Requesters, FetchFree(r)
    PROVE  TypeOK'
<1>1. free # <<>> => Head(free) \in Tickets /\ Tail(free) \in Seq(Tickets)
  BY PopType DEF TypeOK, QueueType
<1>2. free' \in Seq(Tickets)
  BY <1>1 DEF TypeOK, QueueType, FetchFree
<1>3. /\ freeticket_counter \in Nat /\ freeticket_counter > 0
      /\ freeticket_counter' \in {freeticket_counter, freeticket_counter - 1}
  BY DEF TypeOK, QueueType, FetchFree
<1>4. freeticket_counter' \in Nat
  BY <1>3
<1>5. \/ tk_flag' = tk_flag
      \/ /\ free # <<>>
         /\ tk_flag' = [tk_flag EXCEPT ![Head(free)] = @ \union {"INVAL"}]
  BY DEF FetchFree, Fetched
<1>6. tk_flag' \in [Tickets -> SUBSET Flags]
  <2>1. "INVAL" \in Flags /\ TicketType
    BY DEF Flags, TypeOK
  <2>2. CASE tk_flag' = tk_flag
    BY <2>1, <2>2 DEF TicketType
  <2>3. CASE /\ free # <<>>
             /\ tk_flag' = [tk_flag EXCEPT ![Head(free)] = @ \union {"INVAL"}]
    BY <1>1, <2>1, <2>3, MarkedType
  <2>4. QED
    BY <1>5, <2>2, <2>3
<1>7. BitType'
  BY DEF TypeOK, BitType, FetchFree, Goto, Fetched, Admit, fdata_set_dead,
      WakeupOneReader, queues, answers
<1>8. SessionType'
  BY <1>1, <1>2, <1>3, <1>4, <1>5, <1>6 DEF TypeOK, SessionType, FetchFree,
      Goto, Fetched, Admit, fdata_set_dead, WakeupOneReader, queues, answers
<1>9. QueueType'
  BY <1>1, <1>2, <1>3, <1>4, <1>5, <1>6 DEF TypeOK, QueueType, FetchFree,
      queues, answers
<1>10. TicketType'
  BY <1>1, <1>2, <1>3, <1>4, <1>5, <1>6 DEF TypeOK, TicketType, Flags,
      Handlers, FetchFree, queues, answers
<1>11. CallerType'
  <2>1. CASE free = <<>>
    <3>1. UNCHANGED <<pc, op, tick, intr, itick, err, age>>
      BY <2>1 DEF FetchFree
    <3>2. QED
      BY <3>1, CallerFrame DEF TypeOK
  <2>2. CASE free # <<>>
    <3>1. Fetched(r, Head(free)) /\ Head(free) \in Tickets
      BY <1>1, <2>2 DEF FetchFree
    <3>2. UNCHANGED <<op, intr, err, age>>
      BY DEF FetchFree
    <3>3. QED
      BY <3>1, <3>2, FetchedType DEF TypeOK
  <2>3. QED
    BY <2>1, <2>2
<1>12. DaemonType'
  BY <1>1, <1>2, <1>3, <1>4, <1>5, <1>6 DEF TypeOK, DaemonType, ServerPCs,
      TicketOrNone, FetchFree, Goto, Fetched, Admit, fdata_set_dead,
      WakeupOneReader, queues, answers
<1>13. \A q \in Requesters : CallerDerefs(q)'
  <2>1. CASE free = <<>>
    <3>1. UNCHANGED <<pc, tick, intr, itick>>
      BY <2>1 DEF FetchFree
    <3>2. QED
      BY <3>1 DEF TypeOK, CallerDerefs, Current
  <2>2. CASE free # <<>>
    <3>1. Fetched(r, Head(free)) /\ Head(free) \in Tickets
      BY <1>1, <2>2 DEF FetchFree
    <3>2. pc[r] = "fetch" /\ UNCHANGED intr
      BY DEF FetchFree
    <3>3. QED
      BY <3>1, <3>2, FetchedDerefs DEF TypeOK
  <2>3. QED
    BY <2>1, <2>2
<1>14. \A q \in Servers : ServerDerefs(q)'
  BY <1>1, <1>2, <1>3, <1>4, <1>5, <1>6 DEF TypeOK, ServerDerefs, DaemonType,
      QueueType, TicketOrNone, ServerPCs, FetchFree, Goto, Fetched, Admit,
      fdata_set_dead, WakeupOneReader, queues, answers
<1>15. QED
  BY <1>7, <1>8, <1>9, <1>10, <1>11, <1>12, <1>13, <1>14 DEF TypeOK

\* fticket_alloc keeps the types and leaves no null pointer to follow.
LEMMA fticket_alloc_Type ==
    ASSUME TypeOK, NEW r \in Requesters, fticket_alloc(r)
    PROVE  TypeOK'
<1>1. (CHOOSE u \in Tickets : tk_life[u] = "unborn") \in Tickets
  BY DEF fticket_alloc
<1>2. TicketType'
  BY <1>1 DEF TypeOK, TicketType, QueueType, Flags, Handlers, fticket_alloc,
      Goto, session, queues, daemon, control, ticketv
<1>3. CallerType'
  BY <1>1 DEF TypeOK, CallerType, RequesterPCs, AllOps, TicketOrNone, Errors,
      fticket_alloc, Goto, session, queues, daemon, control, ticketv
<1>4. BitType' /\ SessionType' /\ QueueType' /\ DaemonType'
  <2>1. UNCHANGED <<dead, inited, closed, free_loop, phase, timeout_status,
      drain, panic, requests, kills, ms, aw, free, freeticket_counter,
      ticketer, spc, stick, sreply, inbox>>
    BY DEF fticket_alloc, Goto, session, queues, daemon, control, ticketv
  <2>2. QED
    BY <2>1, BitFrame, SessionFrame, QueueFrame, DaemonFrame DEF TypeOK
<1>5. \A q \in Requesters : CallerDerefs(q)'
  BY <1>1 DEF TypeOK, CallerDerefs, Current, CallerType, QueueType,
      TicketOrNone, RequesterPCs, fticket_alloc, Goto, session, queues,
      daemon, control, ticketv
<1>6. \A q \in Servers : ServerDerefs(q)'
  BY DEF TypeOK, ServerDerefs, fticket_alloc, Goto, session, queues, daemon,
      control, ticketv
<1>7. QED
  BY <1>2, <1>3, <1>4, <1>5, <1>6 DEF TypeOK

\* FetchAllocated keeps the types and leaves no null pointer to follow.
LEMMA FetchAllocated_Type ==
    ASSUME TypeOK, NEW r \in Requesters, FetchAllocated(r)
    PROVE  TypeOK'
<1>1. Current(r) \in Tickets
  BY DEF TypeOK, CallerDerefs, Current, FetchAllocated
<1>2. BitType'
  BY DEF TypeOK, BitType, FetchAllocated, Goto, Fetched, Admit,
      fdata_set_dead, WakeupOneReader, Current, queues, answers, control
<1>3. QueueType'
  BY <1>1 DEF TypeOK, QueueType, TicketType, FetchAllocated, queues, answers,
      control
<1>4. TicketType'
  BY <1>1 DEF TypeOK, TicketType, Flags, Handlers, FetchAllocated, Goto,
      Fetched, Admit, fdata_set_dead, WakeupOneReader, Current, queues,
      answers, control
<1>5. CallerType'
  BY <1>1 DEF TypeOK, CallerType, RequesterPCs, AllOps, TicketOrNone, Errors,
      FetchAllocated, Goto, Fetched, Admit, fdata_set_dead, WakeupOneReader,
      Current, queues, answers, control
<1>6. DaemonType'
  BY <1>1 DEF TypeOK, DaemonType, ServerPCs, TicketOrNone, FetchAllocated,
      Goto, Fetched, Admit, fdata_set_dead, WakeupOneReader, Current, queues,
      answers, control
<1>7. SessionType'
  BY DEF TypeOK, SessionType, FetchAllocated, Goto, Fetched, Admit,
      fdata_set_dead, WakeupOneReader, Current, queues, answers, control
<1>8. \A q \in Requesters : CallerDerefs(q)'
  <2>1. Fetched(r, Current(r)) /\ pc[r] = "alloc" /\ UNCHANGED intr
    BY DEF FetchAllocated
  <2>2. QED
    BY <1>1, <2>1, FetchedDerefs DEF TypeOK
<1>9. \A q \in Servers : ServerDerefs(q)'
  BY <1>1 DEF TypeOK, ServerDerefs, DaemonType, QueueType, TicketOrNone,
      ServerPCs, FetchAllocated, Goto, Fetched, Admit, fdata_set_dead,
      WakeupOneReader, Current, queues, answers, control
<1>10. QED
  BY <1>2, <1>3, <1>4, <1>5, <1>6, <1>7, <1>8, <1>9 DEF TypeOK

\* MakeFails keeps the types and leaves no null pointer to follow.
LEMMA MakeFails_Type ==
    ASSUME TypeOK, NEW r \in Requesters, MakeFails(r)
    PROVE  TypeOK'
<1>1. TicketType'
  BY DEF TypeOK, TicketType, Flags, Handlers, MakeFails, Return, session,
      queues, daemon, control, ticketv
<1>2. CallerType'
  BY DEF TypeOK, CallerType, RequesterPCs, AllOps, TicketOrNone, Errors,
      MakeFails, Return, session, queues, daemon, control, ticketv
<1>3. BitType' /\ SessionType' /\ QueueType' /\ DaemonType'
  <2>1. UNCHANGED <<dead, inited, closed, free_loop, phase, timeout_status,
      drain, panic, requests, kills, ms, aw, free, freeticket_counter,
      ticketer, spc, stick, sreply, inbox>>
    BY DEF MakeFails, Return, session, queues, daemon, control, ticketv
  <2>2. QED
    BY <2>1, BitFrame, SessionFrame, QueueFrame, DaemonFrame DEF TypeOK
<1>4. \A q \in Requesters : CallerDerefs(q)'
  BY DEF TypeOK, CallerDerefs, Current, CallerType, QueueType, TicketOrNone,
      RequesterPCs, MakeFails, Return, session, queues, daemon, control,
      ticketv
<1>5. \A q \in Servers : ServerDerefs(q)'
  BY DEF TypeOK, ServerDerefs, MakeFails, Return, session, queues, daemon,
      control, ticketv
<1>6. QED
  BY <1>1, <1>2, <1>3, <1>4, <1>5 DEF TypeOK

\* fuse_insert_callback keeps the types and leaves no null pointer to follow.
LEMMA fuse_insert_callback_Type ==
    ASSUME TypeOK, NEW r \in Requesters, fuse_insert_callback(r)
    PROVE  TypeOK'
<1>1. TicketType'
  BY DEF TypeOK, TicketType, Flags, Handlers, fuse_insert_callback, InsertSeesDead, Goto,
      HandlerOf, session, queues, pool, answers, daemon, control
<1>2. CallerType'
  BY DEF TypeOK, CallerType, RequesterPCs, AllOps, TicketOrNone, Errors,
      fuse_insert_callback, InsertSeesDead, Goto, HandlerOf, session, queues,
      pool, answers,
      daemon, control
<1>3. BitType' /\ SessionType' /\ QueueType' /\ DaemonType'
  <2>1. UNCHANGED <<dead, inited, closed, free_loop, phase, timeout_status,
      drain, panic, requests, kills, ms, aw, free, freeticket_counter,
      ticketer, spc, stick, sreply, inbox>>
    BY DEF fuse_insert_callback, InsertSeesDead, Goto, HandlerOf, session, queues, pool,
        answers, daemon, control
  <2>2. QED
    BY <2>1, BitFrame, SessionFrame, QueueFrame, DaemonFrame DEF TypeOK
<1>4. \A q \in Requesters : CallerDerefs(q)'
  BY DEF TypeOK, CallerDerefs, Current, CallerType, QueueType, TicketOrNone,
      RequesterPCs, fuse_insert_callback, InsertSeesDead, Goto, HandlerOf,
      session, queues,
      pool, answers, daemon, control
<1>5. \A q \in Servers : ServerDerefs(q)'
  BY DEF TypeOK, ServerDerefs, fuse_insert_callback, InsertSeesDead, Goto,
      HandlerOf, session,
      queues, pool, answers, daemon, control
<1>6. QED
  BY <1>1, <1>2, <1>3, <1>4, <1>5 DEF TypeOK

\* fuse_aw_push keeps the types and leaves no null pointer to follow.
LEMMA fuse_aw_push_Type ==
    ASSUME TypeOK, NEW r \in Requesters, fuse_aw_push(r)
    PROVE  TypeOK'
<1>1. tick[r] \in Tickets /\ ~intr[r]
  BY DEF TypeOK, CallerDerefs, Current, fuse_aw_push
<1>2. Append(aw, tick[r]) \in Seq(Tickets)
  BY <1>1 DEF TypeOK, QueueType
<1>3. QueueType'
  BY <1>1, <1>2 DEF TypeOK, QueueType, fuse_aw_push, Goto, session, pool,
      daemon, control, ticketv
<1>4. CallerType'
  BY <1>1, <1>2 DEF TypeOK, CallerType, RequesterPCs, AllOps, TicketOrNone,
      Errors, fuse_aw_push, Goto, session, pool, daemon, control, ticketv
<1>5. BitType' /\ SessionType' /\ TicketType' /\ DaemonType'
  <2>1. UNCHANGED <<dead, inited, closed, free_loop, phase, timeout_status,
      drain, panic, requests, kills, tk_life, tk_unique, tk_flag, tk_age,
      tk_aw_handler, tk_aw_errno, tk_aw_ohead, spc, stick, sreply, inbox>>
    BY DEF fuse_aw_push, Goto, session, pool, daemon, control, ticketv
  <2>2. QED
    BY <2>1, BitFrame, SessionFrame, TicketFrame, DaemonFrame DEF TypeOK
<1>6. \A q \in Requesters : CallerDerefs(q)'
  BY <1>1, <1>2 DEF TypeOK, CallerDerefs, Current, CallerType, QueueType,
      TicketOrNone, RequesterPCs, fuse_aw_push, Goto, session, pool, daemon,
      control, ticketv
<1>7. \A q \in Servers : ServerDerefs(q)'
  BY DEF TypeOK, ServerDerefs, fuse_aw_push, Goto, session, pool, daemon,
      control, ticketv
<1>8. QED
  BY <1>3, <1>4, <1>5, <1>6, <1>7 DEF TypeOK

\* fuse_insert_message keeps the types and leaves no null pointer to follow.
LEMMA fuse_insert_message_Type ==
    ASSUME TypeOK, NEW r \in Requesters, fuse_insert_message(r)
    PROVE  TypeOK'
<1>1. Current(r) \in Tickets
  BY DEF TypeOK, CallerDerefs, Current, fuse_insert_message
<1>2. \/ tk_flag' = tk_flag
      \/ tk_flag' = [tk_flag EXCEPT ![Current(r)] = @ \union {"DIRTY"}]
  BY DEF fuse_insert_message
<1>3. tk_flag' \in [Tickets -> SUBSET Flags]
  BY <1>1, <1>2 DEF TypeOK, TicketType, Flags
<1>4. SessionType'
  BY <1>1, <1>2, <1>3 DEF TypeOK, SessionType, fuse_insert_message, Goto,
      AfterSend, Return, Current, session, queues, pool, answers, callers,
      daemon
<1>5. TicketType'
  BY <1>3 DEF TypeOK, TicketType, fuse_insert_message, pool, answers
<1>6. CallerType'
  BY <1>1, <1>2, <1>3, AfterSendType DEF TypeOK, CallerType, RequesterPCs,
      AllOps, TicketOrNone, Errors, fuse_insert_message, Goto, Current,
      session, queues, pool, answers, callers, daemon
<1>7. BitType' /\ QueueType' /\ DaemonType'
  <2>1. UNCHANGED <<dead, inited, closed, free_loop, ms, aw, free,
      freeticket_counter, ticketer, spc, stick, sreply, inbox>>
    BY DEF fuse_insert_message, Goto, AfterSend, Return, Current, session,
        queues, pool, answers, callers, daemon
  <2>2. QED
    BY <2>1, BitFrame, QueueFrame, DaemonFrame DEF TypeOK
<1>8. \A q \in Requesters : CallerDerefs(q)'
  <2>1. pc[r] = "insert_msg"
    BY DEF fuse_insert_message
  <2>2. CASE UNCHANGED callers
    BY <2>2 DEF TypeOK, CallerDerefs, Current, callers
  <2>3. CASE Goto(r, "push_ms") /\ UNCHANGED <<op, tick, intr, itick, err, age>>
    BY <1>1, <2>1, <2>3 DEF TypeOK, CallerType, CallerDerefs, Current, Goto
  <2>4. CASE AfterSend(r)
    BY <2>1, <2>4, AfterSendDerefs DEF TypeOK
  <2>5. QED
    BY <2>2, <2>3, <2>4 DEF fuse_insert_message
<1>9. \A q \in Servers : ServerDerefs(q)'
  BY DEF TypeOK, ServerDerefs, fuse_insert_message, Goto, AfterSend, Return,
      Current, session, queues, pool, answers, callers, daemon
<1>10. QED
  BY <1>4, <1>5, <1>6, <1>7, <1>8, <1>9 DEF TypeOK

\* fuse_ms_push keeps the types and leaves no null pointer to follow.
LEMMA fuse_ms_push_Type ==
    ASSUME TypeOK, NEW r \in Requesters, fuse_ms_push(r)
    PROVE  TypeOK'
<1>1. Current(r) \in Tickets
  BY DEF TypeOK, CallerDerefs, Current, fuse_ms_push
<1>2. Append(ms, Current(r)) \in Seq(Tickets)
  BY <1>1 DEF TypeOK, QueueType
<1>3. QueueType'
  BY <1>1, <1>2 DEF TypeOK, QueueType, fuse_ms_push, Goto, AfterSend, Return,
      Current, WakeupOneReader, session, pool, control, ticketv
<1>4. CallerType'
  BY <1>1, <1>2, AfterSendType DEF TypeOK, CallerType, RequesterPCs, AllOps,
      TicketOrNone, Errors, fuse_ms_push, Goto, Current, WakeupOneReader,
      session, pool, control, ticketv
<1>5. DaemonType'
  BY <1>1, <1>2 DEF TypeOK, DaemonType, ServerPCs, TicketOrNone, fuse_ms_push,
      Goto, AfterSend, Return, Current, WakeupOneReader, session, pool,
      control, ticketv
<1>6. BitType' /\ SessionType' /\ TicketType'
  <2>1. UNCHANGED <<dead, inited, closed, free_loop, phase, timeout_status,
      drain, panic, requests, kills, tk_life, tk_unique, tk_flag, tk_age,
      tk_aw_handler, tk_aw_errno, tk_aw_ohead>>
    BY DEF fuse_ms_push, Goto, AfterSend, Return, Current, WakeupOneReader,
        session, pool, control, ticketv
  <2>2. QED
    BY <2>1, BitFrame, SessionFrame, TicketFrame DEF TypeOK
<1>7. \A q \in Requesters : CallerDerefs(q)'
  BY AfterSendDerefs DEF TypeOK, fuse_ms_push
<1>8. \A q \in Servers : ServerDerefs(q)'
  BY <1>1, <1>2 DEF TypeOK, ServerDerefs, DaemonType, QueueType, TicketOrNone,
      ServerPCs, fuse_ms_push, Goto, AfterSend, Return, Current,
      WakeupOneReader, session, pool, control, ticketv
<1>9. QED
  BY <1>3, <1>4, <1>5, <1>6, <1>7, <1>8 DEF TypeOK

\* fticket_wait_answer keeps the types and leaves no null pointer to follow.
LEMMA fticket_wait_answer_Type ==
    ASSUME TypeOK, NEW r \in Requesters, fticket_wait_answer(r)
    PROVE  TypeOK'
<1>1. TicketType'
  BY DEF TypeOK, TicketType, Flags, Handlers, fticket_wait_answer, Goto,
      SetAnswered, session, queues, pool, answers, daemon, control
<1>2. CallerType'
  BY DEF TypeOK, CallerType, RequesterPCs, AllOps, TicketOrNone, Errors,
      fticket_wait_answer, Goto, SetAnswered, session, queues, pool, answers,
      daemon, control
<1>3. BitType' /\ SessionType' /\ QueueType' /\ DaemonType'
  <2>1. UNCHANGED <<dead, inited, closed, free_loop, phase, timeout_status,
      drain, panic, requests, kills, ms, aw, free, freeticket_counter,
      ticketer, spc, stick, sreply, inbox>>
    BY DEF fticket_wait_answer, Goto, SetAnswered, session, queues, pool,
        answers, daemon, control
  <2>2. QED
    BY <2>1, BitFrame, SessionFrame, QueueFrame, DaemonFrame DEF TypeOK
<1>4. \A q \in Requesters : CallerDerefs(q)'
  BY DEF TypeOK, CallerDerefs, Current, CallerType, QueueType, TicketOrNone,
      RequesterPCs, fticket_wait_answer, Goto, SetAnswered, session, queues,
      pool, answers, daemon, control
<1>5. \A q \in Servers : ServerDerefs(q)'
  BY DEF TypeOK, ServerDerefs, fticket_wait_answer, Goto, SetAnswered,
      session, queues, pool, answers, daemon, control
<1>6. QED
  BY <1>1, <1>2, <1>3, <1>4, <1>5 DEF TypeOK

\* WakesUp keeps the types and leaves no null pointer to follow.
LEMMA WakesUp_Type ==
    ASSUME TypeOK, NEW r \in Requesters, WakesUp(r)
    PROVE  TypeOK'
<1>1. CallerType'
  BY DEF TypeOK, CallerType, RequesterPCs, AllOps, TicketOrNone, Errors,
      WakesUp, Goto, session, queues, pool, daemon, control, ticketv
<1>2. BitType' /\ SessionType' /\ QueueType' /\ TicketType' /\ DaemonType'
  <2>1. UNCHANGED <<dead, inited, closed, free_loop, phase, timeout_status,
      drain, panic, requests, kills, ms, aw, free, freeticket_counter,
      ticketer, tk_life, tk_unique, tk_flag, tk_age, tk_aw_handler,
      tk_aw_errno, tk_aw_ohead, spc, stick, sreply, inbox>>
    BY DEF WakesUp, Goto, session, queues, pool, daemon, control, ticketv
  <2>2. QED
    BY <2>1, BitFrame, SessionFrame, QueueFrame, TicketFrame, DaemonFrame DEF
        TypeOK
<1>3. \A q \in Requesters : CallerDerefs(q)'
  BY DEF TypeOK, CallerDerefs, Current, CallerType, QueueType, TicketOrNone,
      RequesterPCs, WakesUp, Goto, session, queues, pool, daemon, control,
      ticketv
<1>4. \A q \in Servers : ServerDerefs(q)'
  BY DEF TypeOK, ServerDerefs, WakesUp, Goto, session, queues, pool, daemon,
      control, ticketv
<1>5. QED
  BY <1>1, <1>2, <1>3, <1>4 DEF TypeOK

\* TimesOut keeps the types and leaves no null pointer to follow.
LEMMA TimesOut_Type ==
    ASSUME TypeOK, NEW r \in Requesters, TimesOut(r)
    PROVE  TypeOK'
<1>1. SessionType'
  BY DEF TypeOK, SessionType, TimesOut, Goto, queues, pool, daemon, control,
      ticketv
<1>2. CallerType'
  BY DEF TypeOK, CallerType, RequesterPCs, AllOps, TicketOrNone, Errors,
      TimesOut, Goto, queues, pool, daemon, control, ticketv
<1>3. BitType' /\ QueueType' /\ TicketType' /\ DaemonType'
  <2>1. UNCHANGED <<dead, inited, closed, free_loop, ms, aw, free,
      freeticket_counter, ticketer, tk_life, tk_unique, tk_flag, tk_age,
      tk_aw_handler, tk_aw_errno, tk_aw_ohead, spc, stick, sreply, inbox>>
    BY DEF TimesOut, Goto, queues, pool, daemon, control, ticketv
  <2>2. QED
    BY <2>1, BitFrame, QueueFrame, TicketFrame, DaemonFrame DEF TypeOK
<1>4. \A q \in Requesters : CallerDerefs(q)'
  BY DEF TypeOK, CallerDerefs, Current, CallerType, QueueType, TicketOrNone,
      RequesterPCs, TimesOut, Goto, queues, pool, daemon, control, ticketv
<1>5. \A q \in Servers : ServerDerefs(q)'
  BY DEF TypeOK, ServerDerefs, TimesOut, Goto, queues, pool, daemon, control,
      ticketv
<1>6. QED
  BY <1>1, <1>2, <1>3, <1>4, <1>5 DEF TypeOK

\* Eject keeps the types and leaves no null pointer to follow.
LEMMA Eject_Type ==
    ASSUME TypeOK, NEW r \in Requesters, Eject(r)
    PROVE  TypeOK'
<1>1. BitType'
  BY DEF TypeOK, BitType, Eject, Goto, EjectStatus, SetAnswered,
      fdata_set_dead, WakeupOneReader, queues, pool, answers, control
<1>2. SessionType'
  BY DEF TypeOK, SessionType, Eject, Goto, EjectStatus, SetAnswered,
      fdata_set_dead, WakeupOneReader, queues, pool, answers, control
<1>3. TicketType'
  BY DEF TypeOK, TicketType, Flags, Handlers, Eject, Goto, EjectStatus,
      SetAnswered, fdata_set_dead, WakeupOneReader, queues, pool, answers,
      control
<1>4. CallerType'
  BY DEF TypeOK, CallerType, RequesterPCs, AllOps, TicketOrNone, Errors,
      Eject, Goto, EjectStatus, SetAnswered, fdata_set_dead, WakeupOneReader,
      queues, pool, answers, control
<1>5. DaemonType'
  BY DEF TypeOK, DaemonType, ServerPCs, TicketOrNone, Eject, Goto,
      EjectStatus, SetAnswered, fdata_set_dead, WakeupOneReader, queues, pool,
      answers, control
<1>6. QueueType'
  BY DEF TypeOK, QueueType, Eject, Goto, EjectStatus, SetAnswered,
      fdata_set_dead, WakeupOneReader, queues, pool, answers, control
<1>7. \A q \in Requesters : CallerDerefs(q)'
  BY DEF TypeOK, CallerDerefs, Current, CallerType, QueueType, TicketOrNone,
      RequesterPCs, Eject, Goto, EjectStatus, SetAnswered, fdata_set_dead,
      WakeupOneReader, queues, pool, answers, control
<1>8. \A q \in Servers : ServerDerefs(q)'
  BY DEF TypeOK, ServerDerefs, DaemonType, QueueType, TicketOrNone, ServerPCs,
      Eject, Goto, EjectStatus, SetAnswered, fdata_set_dead, WakeupOneReader,
      queues, pool, answers, control
<1>9. QED
  BY <1>1, <1>2, <1>3, <1>4, <1>5, <1>6, <1>7, <1>8 DEF TypeOK

\* Signalled keeps the types and leaves no null pointer to follow.
LEMMA Signalled_Type ==
    ASSUME TypeOK, NEW r \in Requesters, Signalled(r)
    PROVE  TypeOK'
<1>1. CallerType'
  BY DEF TypeOK, CallerType, RequesterPCs, AllOps, TicketOrNone, Errors,
      Signalled, Goto, session, queues, pool, daemon, control, ticketv
<1>2. BitType' /\ SessionType' /\ QueueType' /\ TicketType' /\ DaemonType'
  <2>1. UNCHANGED <<dead, inited, closed, free_loop, phase, timeout_status,
      drain, panic, requests, kills, ms, aw, free, freeticket_counter,
      ticketer, tk_life, tk_unique, tk_flag, tk_age, tk_aw_handler,
      tk_aw_errno, tk_aw_ohead, spc, stick, sreply, inbox>>
    BY DEF Signalled, Goto, session, queues, pool, daemon, control, ticketv
  <2>2. QED
    BY <2>1, BitFrame, SessionFrame, QueueFrame, TicketFrame, DaemonFrame DEF
        TypeOK
<1>3. \A q \in Requesters : CallerDerefs(q)'
  BY DEF TypeOK, CallerDerefs, Current, CallerType, QueueType, TicketOrNone,
      RequesterPCs, Signalled, Goto, session, queues, pool, daemon, control,
      ticketv
<1>4. \A q \in Servers : ServerDerefs(q)'
  BY DEF TypeOK, ServerDerefs, Signalled, Goto, session, queues, pool, daemon,
      control, ticketv
<1>5. QED
  BY <1>1, <1>2, <1>3, <1>4 DEF TypeOK

\* WaitedOk keeps the types and leaves no null pointer to follow.
LEMMA WaitedOk_Type ==
    ASSUME TypeOK, NEW r \in Requesters, WaitedOk(r)
    PROVE  TypeOK'
<1>1. CallerType'
  BY DEF TypeOK, CallerType, RequesterPCs, AllOps, TicketOrNone, Errors,
      WaitedOk, Goto, session, queues, pool, daemon, control, ticketv
<1>2. BitType' /\ SessionType' /\ QueueType' /\ TicketType' /\ DaemonType'
  <2>1. UNCHANGED <<dead, inited, closed, free_loop, phase, timeout_status,
      drain, panic, requests, kills, ms, aw, free, freeticket_counter,
      ticketer, tk_life, tk_unique, tk_flag, tk_age, tk_aw_handler,
      tk_aw_errno, tk_aw_ohead, spc, stick, sreply, inbox>>
    BY DEF WaitedOk, Goto, session, queues, pool, daemon, control, ticketv
  <2>2. QED
    BY <2>1, BitFrame, SessionFrame, QueueFrame, TicketFrame, DaemonFrame DEF
        TypeOK
<1>3. \A q \in Requesters : CallerDerefs(q)'
  BY DEF TypeOK, CallerDerefs, Current, CallerType, QueueType, TicketOrNone,
      RequesterPCs, WaitedOk, Goto, session, queues, pool, daemon, control,
      ticketv
<1>4. \A q \in Servers : ServerDerefs(q)'
  BY DEF TypeOK, ServerDerefs, WaitedOk, Goto, session, queues, pool, daemon,
      control, ticketv
<1>5. QED
  BY <1>1, <1>2, <1>3, <1>4 DEF TypeOK

\* WaitedErr keeps the types and leaves no null pointer to follow.
LEMMA WaitedErr_Type ==
    ASSUME TypeOK, NEW r \in Requesters, WaitedErr(r)
    PROVE  TypeOK'
<1>1. tick[r] \in Tickets /\ ~intr[r]
  BY DEF TypeOK, CallerDerefs, Current, WaitedErr
<1>2. TicketType'
  BY <1>1 DEF TypeOK, TicketType, Flags, Handlers, WaitedErr, Goto,
      SetAnswered, session, queues, pool, answers, daemon, control
<1>3. CallerType'
  BY <1>1 DEF TypeOK, CallerType, TicketType, RequesterPCs, AllOps,
      TicketOrNone, Errors, WaitedErr, Goto, SetAnswered, session, queues,
      pool, answers, daemon, control
<1>4. BitType' /\ SessionType' /\ QueueType' /\ DaemonType'
  <2>1. UNCHANGED <<dead, inited, closed, free_loop, phase, timeout_status,
      drain, panic, requests, kills, ms, aw, free, freeticket_counter,
      ticketer, spc, stick, sreply, inbox>>
    BY DEF WaitedErr, Goto, SetAnswered, session, queues, pool, answers,
        daemon, control
  <2>2. QED
    BY <2>1, BitFrame, SessionFrame, QueueFrame, DaemonFrame DEF TypeOK
<1>5. \A q \in Requesters : CallerDerefs(q)'
  BY <1>1 DEF TypeOK, CallerDerefs, Current, CallerType, QueueType,
      TicketOrNone, RequesterPCs, WaitedErr, Goto, SetAnswered, session,
      queues, pool, answers, daemon, control
<1>6. \A q \in Servers : ServerDerefs(q)'
  BY DEF TypeOK, ServerDerefs, WaitedErr, Goto, SetAnswered, session, queues,
      pool, answers, daemon, control
<1>7. QED
  BY <1>2, <1>3, <1>4, <1>5, <1>6 DEF TypeOK

\* Abandon keeps the types and leaves no null pointer to follow.
LEMMA Abandon_Type ==
    ASSUME TypeOK, NEW r \in Requesters, Abandon(r)
    PROVE  TypeOK'
<1>1. TicketType'
  BY DEF TypeOK, TicketType, Flags, Handlers, Abandon, Return, session,
      queues, pool, answers, daemon, control
<1>2. CallerType'
  BY DEF TypeOK, CallerType, RequesterPCs, AllOps, TicketOrNone, Errors,
      Abandon, Return, session, queues, pool, answers, daemon, control
<1>3. BitType' /\ SessionType' /\ QueueType' /\ DaemonType'
  <2>1. UNCHANGED <<dead, inited, closed, free_loop, phase, timeout_status,
      drain, panic, requests, kills, ms, aw, free, freeticket_counter,
      ticketer, spc, stick, sreply, inbox>>
    BY DEF Abandon, Return, session, queues, pool, answers, daemon, control
  <2>2. QED
    BY <2>1, BitFrame, SessionFrame, QueueFrame, DaemonFrame DEF TypeOK
<1>4. \A q \in Requesters : CallerDerefs(q)'
  BY DEF TypeOK, CallerDerefs, Current, CallerType, QueueType, TicketOrNone,
      RequesterPCs, Abandon, Return, session, queues, pool, answers, daemon,
      control
<1>5. \A q \in Servers : ServerDerefs(q)'
  BY DEF TypeOK, ServerDerefs, Abandon, Return, session, queues, pool,
      answers, daemon, control
<1>6. QED
  BY <1>1, <1>2, <1>3, <1>4, <1>5 DEF TypeOK

\* Consume keeps the types and leaves no null pointer to follow.
LEMMA Consume_Type ==
    ASSUME TypeOK, NEW r \in Requesters, Consume(r)
    PROVE  TypeOK'
<1>1. CallerType'
  BY DEF TypeOK, CallerType, RequesterPCs, AllOps, TicketOrNone, Errors,
      Consume, Goto, session, queues, pool, daemon, control, ticketv
<1>2. BitType' /\ SessionType' /\ QueueType' /\ TicketType' /\ DaemonType'
  <2>1. UNCHANGED <<dead, inited, closed, free_loop, phase, timeout_status,
      drain, panic, requests, kills, ms, aw, free, freeticket_counter,
      ticketer, tk_life, tk_unique, tk_flag, tk_age, tk_aw_handler,
      tk_aw_errno, tk_aw_ohead, spc, stick, sreply, inbox>>
    BY DEF Consume, Goto, session, queues, pool, daemon, control, ticketv
  <2>2. QED
    BY <2>1, BitFrame, SessionFrame, QueueFrame, TicketFrame, DaemonFrame DEF
        TypeOK
<1>3. \A q \in Requesters : CallerDerefs(q)'
  BY DEF TypeOK, CallerDerefs, Current, CallerType, QueueType, TicketOrNone,
      RequesterPCs, Consume, Goto, session, queues, pool, daemon, control,
      ticketv
<1>4. \A q \in Servers : ServerDerefs(q)'
  BY DEF TypeOK, ServerDerefs, Consume, Goto, session, queues, pool, daemon,
      control, ticketv
<1>5. QED
  BY <1>1, <1>2, <1>3, <1>4 DEF TypeOK

\* Reuse keeps the types and leaves no null pointer to follow.
LEMMA Reuse_Type ==
    ASSUME TypeOK, NEW r \in Requesters, Reuse(r)
    PROVE  TypeOK'
<1>1. /\ requests \in 0 .. MaxRequests /\ requests < MaxRequests
      /\ requests' = requests + 1
  BY DEF TypeOK, SessionType, Reuse
<1>2. requests' \in 0 .. MaxRequests
  BY <1>1, ConstantTypes
<1>3. tick[r] \in Tickets /\ ~intr[r]
  BY DEF TypeOK, CallerDerefs, Current, Reuse
<1>4. SessionType'
  BY <1>1, <1>2, <1>3 DEF TypeOK, SessionType, Reuse, Goto, session, queues,
      pool, daemon
<1>5. TicketType'
  BY <1>1, <1>2, <1>3, RefreshType DEF TypeOK, TicketType, Flags, Handlers,
      Reuse, Goto, session, queues, pool, daemon
<1>6. CallerType'
  BY <1>1, <1>2, <1>3 DEF TypeOK, CallerType, RequesterPCs, AllOps,
      TicketOrNone, Errors, Reuse, Goto, session, queues, pool, daemon
<1>7. BitType' /\ QueueType' /\ DaemonType'
  <2>1. UNCHANGED <<dead, inited, closed, free_loop, ms, aw, free,
      freeticket_counter, ticketer, spc, stick, sreply, inbox>>
    BY DEF Reuse, Goto, fticket_refresh, session, queues, pool, daemon
  <2>2. QED
    BY <2>1, BitFrame, QueueFrame, DaemonFrame DEF TypeOK
<1>8. \A q \in Requesters : CallerDerefs(q)'
  BY <1>1, <1>2, <1>3 DEF TypeOK, CallerDerefs, Current, CallerType,
      QueueType, TicketOrNone, RequesterPCs, Reuse, Goto, fticket_refresh,
      session, queues, pool, daemon
<1>9. \A q \in Servers : ServerDerefs(q)'
  BY DEF TypeOK, ServerDerefs, Reuse, Goto, fticket_refresh, session, queues,
      pool, daemon
<1>10. QED
  BY <1>4, <1>5, <1>6, <1>7, <1>8, <1>9 DEF TypeOK

\* VgetFails keeps the types and leaves no null pointer to follow.
LEMMA VgetFails_Type ==
    ASSUME TypeOK, NEW r \in Requesters, VgetFails(r)
    PROVE  TypeOK'
<1>1. CallerType'
  BY DEF TypeOK, CallerType, RequesterPCs, AllOps, TicketOrNone, Errors,
      VgetFails, Goto, session, queues, pool, daemon, control, ticketv
<1>2. BitType' /\ SessionType' /\ QueueType' /\ TicketType' /\ DaemonType'
  <2>1. UNCHANGED <<dead, inited, closed, free_loop, phase, timeout_status,
      drain, panic, requests, kills, ms, aw, free, freeticket_counter,
      ticketer, tk_life, tk_unique, tk_flag, tk_age, tk_aw_handler,
      tk_aw_errno, tk_aw_ohead, spc, stick, sreply, inbox>>
    BY DEF VgetFails, Goto, session, queues, pool, daemon, control, ticketv
  <2>2. QED
    BY <2>1, BitFrame, SessionFrame, QueueFrame, TicketFrame, DaemonFrame DEF
        TypeOK
<1>3. \A q \in Requesters : CallerDerefs(q)'
  BY DEF TypeOK, CallerDerefs, Current, CallerType, QueueType, TicketOrNone,
      RequesterPCs, VgetFails, Goto, session, queues, pool, daemon, control,
      ticketv
<1>4. \A q \in Servers : ServerDerefs(q)'
  BY DEF TypeOK, ServerDerefs, VgetFails, Goto, session, queues, pool, daemon,
      control, ticketv
<1>5. QED
  BY <1>1, <1>2, <1>3, <1>4 DEF TypeOK

\* InitSync keeps the types and leaves no null pointer to follow.
LEMMA InitSync_Type ==
    ASSUME TypeOK, NEW r \in Requesters, InitSync(r)
    PROVE  TypeOK'
<1>1. BitType'
  BY DEF TypeOK, BitType, InitSync, Return, fdata_set_dead, WakeupOneReader,
      queues, pool, control, ticketv
<1>2. SessionType'
  BY DEF TypeOK, SessionType, InitSync, Return, fdata_set_dead,
      WakeupOneReader, queues, pool, control, ticketv
<1>3. CallerType'
  BY DEF TypeOK, CallerType, RequesterPCs, AllOps, TicketOrNone, Errors,
      InitSync, Return, fdata_set_dead, WakeupOneReader, queues, pool,
      control, ticketv
<1>4. DaemonType'
  BY DEF TypeOK, DaemonType, ServerPCs, TicketOrNone, InitSync, Return,
      fdata_set_dead, WakeupOneReader, queues, pool, control, ticketv
<1>5. QueueType' /\ TicketType'
  <2>1. UNCHANGED <<ms, aw, free, freeticket_counter, ticketer, tk_life,
      tk_unique, tk_flag, tk_age, tk_aw_handler, tk_aw_errno, tk_aw_ohead>>
    BY DEF InitSync, Return, fdata_set_dead, WakeupOneReader, queues, pool,
        control, ticketv
  <2>2. QED
    BY <2>1, QueueFrame, TicketFrame DEF TypeOK
<1>6. \A q \in Requesters : CallerDerefs(q)'
  BY DEF TypeOK, CallerDerefs, Current, CallerType, QueueType, TicketOrNone,
      RequesterPCs, InitSync, Return, fdata_set_dead, WakeupOneReader, queues,
      pool, control, ticketv
<1>7. \A q \in Servers : ServerDerefs(q)'
  BY DEF TypeOK, ServerDerefs, DaemonType, QueueType, TicketOrNone, ServerPCs,
      InitSync, Return, fdata_set_dead, WakeupOneReader, queues, pool,
      control, ticketv
<1>8. QED
  BY <1>1, <1>2, <1>3, <1>4, <1>5, <1>6, <1>7 DEF TypeOK

\* fuse_ticket_drop_lock keeps the types and leaves no null pointer to follow.
LEMMA fuse_ticket_drop_lock_Type ==
    ASSUME TypeOK, NEW r \in Requesters, fuse_ticket_drop_lock(r)
    PROVE  TypeOK'
<1>1. TicketType'
  BY DEF TypeOK, TicketType, Flags, Handlers, fuse_ticket_drop_lock, Goto,
      AfterDrop, Return, session, queues, daemon, control, ticketv
<1>2. CallerType'
  BY DEF TypeOK, CallerType, RequesterPCs, AllOps, TicketOrNone, Errors,
      fuse_ticket_drop_lock, Goto, AfterDrop, Return, session, queues, daemon,
      control, ticketv
<1>3. BitType' /\ SessionType' /\ QueueType' /\ DaemonType'
  <2>1. UNCHANGED <<dead, inited, closed, free_loop, phase, timeout_status,
      drain, panic, requests, kills, ms, aw, free, freeticket_counter,
      ticketer, spc, stick, sreply, inbox>>
    BY DEF fuse_ticket_drop_lock, Goto, AfterDrop, Return, session, queues,
        daemon, control, ticketv
  <2>2. QED
    BY <2>1, BitFrame, SessionFrame, QueueFrame, DaemonFrame DEF TypeOK
<1>4. \A q \in Requesters : CallerDerefs(q)'
  <2>1. pc[r] = "drop"
    BY DEF fuse_ticket_drop_lock
  <2>2. CASE AfterDrop(r)
    BY <2>1, <2>2, AfterDropDerefs DEF TypeOK
  <2>3. CASE Goto(r, "push") /\ UNCHANGED <<tick, intr, itick>>
    BY <2>1, <2>3 DEF TypeOK, CallerType, CallerDerefs, Current, Goto
  <2>4. QED
    BY <2>2, <2>3 DEF fuse_ticket_drop_lock
<1>5. \A q \in Servers : ServerDerefs(q)'
  BY DEF TypeOK, ServerDerefs, fuse_ticket_drop_lock, Goto, AfterDrop, Return,
      session, queues, daemon, control, ticketv
<1>6. QED
  BY <1>1, <1>2, <1>3, <1>4, <1>5 DEF TypeOK

\* fuse_ticket_drop_push keeps the types and leaves no null pointer to follow.
LEMMA fuse_ticket_drop_push_Type ==
    ASSUME TypeOK, NEW r \in Requesters, fuse_ticket_drop_push(r)
    PROVE  TypeOK'
<1>1. tick[r] \in Tickets /\ ~intr[r]
  BY DEF TypeOK, CallerDerefs, Current, fuse_ticket_drop_push
<1>2. BitType'
  BY <1>1, PushType DEF TypeOK, BitType, fuse_ticket_drop_push, Goto,
      AfterDrop, Return, session, queues, daemon, control
<1>3. QueueType'
  BY <1>1, PushType DEF TypeOK, QueueType, fuse_ticket_drop_push, Goto,
      AfterDrop, Return, session, queues, daemon, control
<1>4. TicketType'
  BY <1>1, RefreshType DEF TypeOK, TicketType, Flags, Handlers,
      fuse_ticket_drop_push, Goto, AfterDrop, Return, session, queues, daemon,
      control
<1>5. CallerType'
  BY <1>1 DEF TypeOK, CallerType, RequesterPCs, AllOps, TicketOrNone, Errors,
      fuse_ticket_drop_push, Goto, AfterDrop, Return, session, queues, daemon,
      control
<1>6. SessionType' /\ DaemonType'
  <2>1. UNCHANGED <<phase, timeout_status, drain, panic, requests, kills, spc,
      stick, sreply, inbox>>
    BY DEF fuse_ticket_drop_push, Goto, AfterDrop, Return, fticket_refresh,
        fuse_push_freeticks, session, queues, daemon, control
  <2>2. QED
    BY <2>1, SessionFrame, DaemonFrame DEF TypeOK
<1>7. \A q \in Requesters : CallerDerefs(q)'
  BY AfterDropDerefs DEF TypeOK, fuse_ticket_drop_push
<1>8. \A q \in Servers : ServerDerefs(q)'
  BY DEF TypeOK, ServerDerefs, fuse_ticket_drop_push, Goto, AfterDrop, Return,
      fticket_refresh, fuse_push_freeticks, session, queues, daemon, control
<1>9. QED
  BY <1>2, <1>3, <1>4, <1>5, <1>6, <1>7, <1>8 DEF TypeOK

\* fuse_device_read keeps the types and leaves no null pointer to follow.
LEMMA fuse_device_read_Type ==
    ASSUME TypeOK, NEW s \in Servers, fuse_device_read(s)
    PROVE  TypeOK'
<1>1. ms # <<>> => Head(ms) \in Tickets /\ Tail(ms) \in Seq(Tickets)
  BY PopType DEF TypeOK, QueueType
<1>2. QueueType'
  BY <1>1 DEF TypeOK, QueueType, fuse_device_read, SGoto, session, pool,
      callers, control, ticketv
<1>3. DaemonType'
  BY <1>1 DEF TypeOK, DaemonType, ServerPCs, TicketOrNone, fuse_device_read,
      SGoto, session, pool, callers, control, ticketv
<1>4. BitType' /\ SessionType' /\ TicketType' /\ CallerType'
  <2>1. UNCHANGED <<dead, inited, closed, free_loop, phase, timeout_status,
      drain, panic, requests, kills, tk_life, tk_unique, tk_flag, tk_age,
      tk_aw_handler, tk_aw_errno, tk_aw_ohead, pc, op, tick, intr, itick, err,
      age>>
    BY DEF fuse_device_read, SGoto, session, pool, callers, control, ticketv
  <2>2. QED
    BY <2>1, BitFrame, SessionFrame, TicketFrame, CallerFrame DEF TypeOK
<1>5. \A q \in Requesters : CallerDerefs(q)'
  BY DEF TypeOK, CallerDerefs, Current, fuse_device_read, SGoto, session,
      pool, callers, control, ticketv
<1>6. \A q \in Servers : ServerDerefs(q)'
  BY <1>1 DEF TypeOK, ServerDerefs, DaemonType, QueueType, TicketOrNone,
      ServerPCs, fuse_device_read, SGoto, session, pool, callers, control,
      ticketv
<1>7. QED
  BY <1>2, <1>3, <1>4, <1>5, <1>6 DEF TypeOK

\* ReaderWakes keeps the types and leaves no null pointer to follow.
LEMMA ReaderWakes_Type ==
    ASSUME TypeOK, NEW s \in Servers, ReaderWakes(s)
    PROVE  TypeOK'
<1>1. ms # <<>> => Head(ms) \in Tickets /\ Tail(ms) \in Seq(Tickets)
  BY PopType DEF TypeOK, QueueType
<1>2. QueueType'
  BY <1>1 DEF TypeOK, QueueType, ReaderWakes, SGoto, session, pool, callers,
      control, ticketv
<1>3. DaemonType'
  BY <1>1 DEF TypeOK, DaemonType, ServerPCs, TicketOrNone, ReaderWakes, SGoto,
      session, pool, callers, control, ticketv
<1>4. BitType' /\ SessionType' /\ TicketType' /\ CallerType'
  <2>1. UNCHANGED <<dead, inited, closed, free_loop, phase, timeout_status,
      drain, panic, requests, kills, tk_life, tk_unique, tk_flag, tk_age,
      tk_aw_handler, tk_aw_errno, tk_aw_ohead, pc, op, tick, intr, itick, err,
      age>>
    BY DEF ReaderWakes, SGoto, session, pool, callers, control, ticketv
  <2>2. QED
    BY <2>1, BitFrame, SessionFrame, TicketFrame, CallerFrame DEF TypeOK
<1>5. \A q \in Requesters : CallerDerefs(q)'
  BY DEF TypeOK, CallerDerefs, Current, ReaderWakes, SGoto, session, pool,
      callers, control, ticketv
<1>6. \A q \in Servers : ServerDerefs(q)'
  BY <1>1 DEF TypeOK, ServerDerefs, DaemonType, QueueType, TicketOrNone,
      ServerPCs, ReaderWakes, SGoto, session, pool, callers, control, ticketv
<1>7. QED
  BY <1>2, <1>3, <1>4, <1>5, <1>6 DEF TypeOK

\* ReaderSignalled keeps the types and leaves no null pointer to follow.
LEMMA ReaderSignalled_Type ==
    ASSUME TypeOK, NEW s \in Servers, ReaderSignalled(s)
    PROVE  TypeOK'
<1>1. DaemonType'
  BY DEF TypeOK, DaemonType, ServerPCs, TicketOrNone, ReaderSignalled, SGoto,
      session, queues, pool, callers, control, ticketv
<1>2. BitType'
  BY DEF TypeOK, BitType, ReaderSignalled, SGoto, session, queues, pool,
      callers, control, ticketv
<1>3. SessionType' /\ QueueType' /\ TicketType' /\ CallerType'
  <2>1. UNCHANGED <<phase, timeout_status, drain, panic, requests, kills, ms,
      aw, free, freeticket_counter, ticketer, tk_life, tk_unique, tk_flag,
      tk_age, tk_aw_handler, tk_aw_errno, tk_aw_ohead, pc, op, tick, intr,
      itick, err, age>>
    BY DEF ReaderSignalled, SGoto, session, queues, pool, callers, control,
        ticketv
  <2>2. QED
    BY <2>1, SessionFrame, QueueFrame, TicketFrame, CallerFrame DEF TypeOK
<1>4. \A q \in Requesters : CallerDerefs(q)'
  BY DEF TypeOK, CallerDerefs, Current, ReaderSignalled, SGoto, session,
      queues, pool, callers, control, ticketv
<1>5. \A q \in Servers : ServerDerefs(q)'
  BY DEF TypeOK, ServerDerefs, DaemonType, QueueType, TicketOrNone, ServerPCs,
      ReaderSignalled, SGoto, session, queues, pool, callers, control, ticketv
<1>6. QED
  BY <1>1, <1>2, <1>3, <1>4, <1>5 DEF TypeOK

\* ReadChecksDead keeps the types and leaves no null pointer to follow.
LEMMA ReadChecksDead_Type ==
    ASSUME TypeOK, NEW s \in Servers, ReadChecksDead(s)
    PROVE  TypeOK'
<1>1. DaemonType'
  BY DEF TypeOK, DaemonType, ServerPCs, TicketOrNone, ReadChecksDead, SGoto,
      DropInvalid, session, queues, pool, callers, control, ticketv
<1>2. BitType'
  BY DEF TypeOK, BitType, ReadChecksDead, SGoto, DropInvalid, session, queues,
      pool, callers, control, ticketv
<1>3. SessionType' /\ QueueType' /\ TicketType' /\ CallerType'
  <2>1. UNCHANGED <<phase, timeout_status, drain, panic, requests, kills, ms,
      aw, free, freeticket_counter, ticketer, tk_life, tk_unique, tk_flag,
      tk_age, tk_aw_handler, tk_aw_errno, tk_aw_ohead, pc, op, tick, intr,
      itick, err, age>>
    BY DEF ReadChecksDead, SGoto, DropInvalid, session, queues, pool, callers,
        control, ticketv
  <2>2. QED
    BY <2>1, SessionFrame, QueueFrame, TicketFrame, CallerFrame DEF TypeOK
<1>4. \A q \in Requesters : CallerDerefs(q)'
  BY DEF TypeOK, CallerDerefs, Current, ReadChecksDead, SGoto, DropInvalid,
      session, queues, pool, callers, control, ticketv
<1>5. \A q \in Servers : ServerDerefs(q)'
  BY DEF TypeOK, ServerDerefs, DaemonType, QueueType, TicketOrNone, ServerPCs,
      ReadChecksDead, SGoto, DropInvalid, session, queues, pool, callers,
      control, ticketv
<1>6. QED
  BY <1>1, <1>2, <1>3, <1>4, <1>5 DEF TypeOK

\* ReadFinishes keeps the types and leaves no null pointer to follow.
LEMMA ReadFinishes_Type ==
    ASSUME TypeOK, NEW s \in Servers, ReadFinishes(s)
    PROVE  TypeOK'
<1>1. stick[s] \in Tickets
  BY DEF TypeOK, ServerDerefs, ReadFinishes
<1>2. [unique |-> tk_unique[stick[s]], req |-> Request(stick[s])]
        \in [unique : Nat, req : Requests]
  BY <1>1 DEF TypeOK, TicketType, Request, Requests, TicketOrNone
<1>3. BitType'
  BY DEF TypeOK, BitType, ReadFinishes, SGoto, DropInvalid, Request, queues,
      pool, callers, control, ticketv
<1>4. DaemonType'
  BY <1>1, <1>2 DEF TypeOK, DaemonType, ServerPCs, TicketOrNone, ReadFinishes,
      SGoto, DropInvalid, Request, queues, pool, callers, control, ticketv
<1>5. SessionType' /\ QueueType' /\ TicketType' /\ CallerType'
  <2>1. UNCHANGED <<phase, timeout_status, drain, panic, requests, kills, ms,
      aw, free, freeticket_counter, ticketer, tk_life, tk_unique, tk_flag,
      tk_age, tk_aw_handler, tk_aw_errno, tk_aw_ohead, pc, op, tick, intr,
      itick, err, age>>
    BY DEF ReadFinishes, SGoto, DropInvalid, Request, queues, pool, callers,
        control, ticketv
  <2>2. QED
    BY <2>1, SessionFrame, QueueFrame, TicketFrame, CallerFrame DEF TypeOK
<1>6. \A q \in Requesters : CallerDerefs(q)'
  BY DEF TypeOK, CallerDerefs, Current, ReadFinishes, SGoto, DropInvalid,
      Request, queues, pool, callers, control, ticketv
<1>7. \A q \in Servers : ServerDerefs(q)'
  BY <1>1, <1>2 DEF TypeOK, ServerDerefs, DaemonType, QueueType, TicketOrNone,
      ServerPCs, ReadFinishes, SGoto, DropInvalid, Request, queues, pool,
      callers, control, ticketv
<1>8. QED
  BY <1>3, <1>4, <1>5, <1>6, <1>7 DEF TypeOK

\* fuse_device_write keeps the types and leaves no null pointer to follow.
LEMMA fuse_device_write_Type ==
    ASSUME TypeOK, NEW s \in Servers, NEW m \in inbox, NEW k \in ReplyKinds,
           fuse_device_write(s, m, k)
    PROVE  TypeOK'
<1>1. [req |-> m.req, kind |-> k] \in Replies
  BY ConstantTypes DEF TypeOK, DaemonType, Replies
<1>2. \A i \in DOMAIN aw : aw[i] \in Tickets
  BY DEF TypeOK, QueueType
<1>3. sreply' \in [Servers -> Replies]
  BY <1>1 DEF TypeOK, DaemonType, fuse_device_write
<1>4. stick' \in [Servers -> TicketOrNone]
  BY <1>2 DEF TypeOK, DaemonType, TicketOrNone, fuse_device_write
<1>5. spc' \in [Servers -> ServerPCs]
  BY DEF TypeOK, DaemonType, ServerPCs, fuse_device_write, SGoto
<1>6. QueueType'
  BY <1>1, <1>2, <1>3, <1>4, <1>5, RemoveAtType DEF TypeOK, QueueType,
      fuse_device_write, SGoto, session, pool, callers, control, ticketv
<1>7. DaemonType'
  BY ConstantTypes, <1>1, <1>2, <1>3, <1>4, <1>5 DEF TypeOK, DaemonType,
      ServerPCs, TicketOrNone, fuse_device_write, SGoto, session, pool,
      callers, control, ticketv
<1>8. BitType' /\ SessionType' /\ TicketType' /\ CallerType'
  <2>1. UNCHANGED <<dead, inited, closed, free_loop, phase, timeout_status,
      drain, panic, requests, kills, tk_life, tk_unique, tk_flag, tk_age,
      tk_aw_handler, tk_aw_errno, tk_aw_ohead, pc, op, tick, intr, itick, err,
      age>>
    BY DEF fuse_device_write, SGoto, session, pool, callers, control, ticketv
  <2>2. QED
    BY <2>1, BitFrame, SessionFrame, TicketFrame, CallerFrame DEF TypeOK
<1>9. \A q \in Requesters : CallerDerefs(q)'
  BY DEF TypeOK, CallerDerefs, Current, fuse_device_write, SGoto, session,
      pool, callers, control, ticketv
<1>10. \A q \in Servers : ServerDerefs(q)'
  BY <1>1, <1>2, <1>3, <1>4, <1>5 DEF TypeOK, ServerDerefs, DaemonType,
      QueueType, TicketOrNone, ServerPCs, fuse_device_write, SGoto, session,
      pool, callers, control, ticketv
<1>11. QED
  BY <1>6, <1>7, <1>8, <1>9, <1>10 DEF TypeOK

\* RunHandler keeps the types and leaves no null pointer to follow.
LEMMA RunHandler_Type ==
    ASSUME TypeOK, NEW s \in Servers, RunHandler(s)
    PROVE  TypeOK'
<1>1. stick[s] \in Tickets /\ sreply[s] \in Replies
  BY DEF TypeOK, ServerDerefs, DaemonType, RunHandler
<1>2. sreply' \in [Servers -> Replies]
  BY <1>1, NoReplyType DEF TypeOK, DaemonType, Replies, AllReplyKinds,
      RunHandler
<1>3. TicketType'
  BY <1>1, <1>2 DEF TypeOK, TicketType, Flags, Handlers, RunHandler, SGoto,
      session, queues, pool, callers, control
<1>4. DaemonType'
  BY <1>1, <1>2 DEF TypeOK, DaemonType, ServerPCs, TicketOrNone, RunHandler,
      SGoto, session, queues, pool, callers, control
<1>5. BitType' /\ SessionType' /\ QueueType' /\ CallerType'
  <2>1. UNCHANGED <<dead, inited, closed, free_loop, phase, timeout_status,
      drain, panic, requests, kills, ms, aw, free, freeticket_counter,
      ticketer, pc, op, tick, intr, itick, err, age>>
    BY DEF RunHandler, SGoto, session, queues, pool, callers, control
  <2>2. QED
    BY <2>1, BitFrame, SessionFrame, QueueFrame, CallerFrame DEF TypeOK
<1>6. \A q \in Requesters : CallerDerefs(q)'
  BY DEF TypeOK, CallerDerefs, Current, RunHandler, SGoto, session, queues,
      pool, callers, control
<1>7. \A q \in Servers : ServerDerefs(q)'
  BY <1>1, <1>2 DEF TypeOK, ServerDerefs, DaemonType, QueueType, TicketOrNone,
      ServerPCs, RunHandler, SGoto, session, queues, pool, callers, control
<1>8. QED
  BY <1>3, <1>4, <1>5, <1>6, <1>7 DEF TypeOK

\* fuse_standard_handler keeps the types and leaves no null pointer to follow.
LEMMA fuse_standard_handler_Type ==
    ASSUME TypeOK, NEW s \in Servers, fuse_standard_handler(s)
    PROVE  TypeOK'
<1>1. stick[s] \in Tickets
  BY DEF TypeOK, ServerDerefs, fuse_standard_handler
<1>2. TicketType'
  BY <1>1 DEF TypeOK, TicketType, Flags, Handlers, fuse_standard_handler,
      SGoto, SetAnswered, Wakeup, session, queues, pool, control
<1>3. CallerType'
  BY <1>1 DEF TypeOK, CallerType, RequesterPCs, AllOps, TicketOrNone, Errors,
      fuse_standard_handler, SGoto, SetAnswered, Wakeup, session, queues,
      pool, control
<1>4. DaemonType'
  BY <1>1, NoReplyType DEF TypeOK, DaemonType, ServerPCs, TicketOrNone,
      fuse_standard_handler, SGoto, SetAnswered, Wakeup, session, queues,
      pool, control
<1>5. BitType' /\ SessionType' /\ QueueType'
  <2>1. UNCHANGED <<dead, inited, closed, free_loop, phase, timeout_status,
      drain, panic, requests, kills, ms, aw, free, freeticket_counter,
      ticketer>>
    BY DEF fuse_standard_handler, SGoto, SetAnswered, Wakeup, session, queues,
        pool, control
  <2>2. QED
    BY <2>1, BitFrame, SessionFrame, QueueFrame DEF TypeOK
<1>6. \A q \in Requesters : CallerDerefs(q)'
  BY <1>1 DEF TypeOK, CallerDerefs, Current, CallerType, QueueType,
      TicketOrNone, RequesterPCs, fuse_standard_handler, SGoto, SetAnswered,
      Wakeup, session, queues, pool, control
<1>7. \A q \in Servers : ServerDerefs(q)'
  BY <1>1 DEF TypeOK, ServerDerefs, DaemonType, QueueType, TicketOrNone,
      ServerPCs, fuse_standard_handler, SGoto, SetAnswered, Wakeup, session,
      queues, pool, control
<1>8. QED
  BY <1>2, <1>3, <1>4, <1>5, <1>6, <1>7 DEF TypeOK

\* ServerDropLock keeps the types and leaves no null pointer to follow.
LEMMA ServerDropLock_Type ==
    ASSUME TypeOK, NEW s \in Servers, ServerDropLock(s)
    PROVE  TypeOK'
<1>1. TicketType'
  BY DEF TypeOK, TicketType, Flags, Handlers, ServerDropLock, SGoto, session,
      queues, callers, control, ticketv
<1>2. DaemonType'
  BY DEF TypeOK, DaemonType, ServerPCs, TicketOrNone, ServerDropLock, SGoto,
      session, queues, callers, control, ticketv
<1>3. BitType' /\ SessionType' /\ QueueType' /\ CallerType'
  <2>1. UNCHANGED <<dead, inited, closed, free_loop, phase, timeout_status,
      drain, panic, requests, kills, ms, aw, free, freeticket_counter,
      ticketer, pc, op, tick, intr, itick, err, age>>
    BY DEF ServerDropLock, SGoto, session, queues, callers, control, ticketv
  <2>2. QED
    BY <2>1, BitFrame, SessionFrame, QueueFrame, CallerFrame DEF TypeOK
<1>4. \A q \in Requesters : CallerDerefs(q)'
  BY DEF TypeOK, CallerDerefs, Current, ServerDropLock, SGoto, session,
      queues, callers, control, ticketv
<1>5. \A q \in Servers : ServerDerefs(q)'
  BY DEF TypeOK, ServerDerefs, DaemonType, QueueType, TicketOrNone, ServerPCs,
      ServerDropLock, SGoto, session, queues, callers, control, ticketv
<1>6. QED
  BY <1>1, <1>2, <1>3, <1>4, <1>5 DEF TypeOK

\* ServerDropPush keeps the types and leaves no null pointer to follow.
LEMMA ServerDropPush_Type ==
    ASSUME TypeOK, NEW s \in Servers, ServerDropPush(s)
    PROVE  TypeOK'
<1>1. stick[s] \in Tickets
  BY DEF TypeOK, ServerDerefs, ServerDropPush
<1>2. BitType'
  BY <1>1, PushType DEF TypeOK, BitType, ServerDropPush, SGoto, session,
      queues, callers, control
<1>3. QueueType'
  BY <1>1, PushType DEF TypeOK, QueueType, ServerDropPush, SGoto, session,
      queues, callers, control
<1>4. TicketType'
  BY <1>1, RefreshType DEF TypeOK, TicketType, Flags, Handlers,
      ServerDropPush, SGoto, session, queues, callers, control
<1>5. DaemonType'
  BY <1>1 DEF TypeOK, DaemonType, ServerPCs, TicketOrNone, ServerDropPush,
      SGoto, session, queues, callers, control
<1>6. SessionType' /\ CallerType'
  <2>1. UNCHANGED <<phase, timeout_status, drain, panic, requests, kills, pc,
      op, tick, intr, itick, err, age>>
    BY DEF ServerDropPush, SGoto, fticket_refresh, fuse_push_freeticks,
        session, queues, callers, control
  <2>2. QED
    BY <2>1, SessionFrame, CallerFrame DEF TypeOK
<1>7. \A q \in Requesters : CallerDerefs(q)'
  BY DEF TypeOK, CallerDerefs, Current, ServerDropPush, SGoto,
      fticket_refresh, fuse_push_freeticks, session, queues, callers, control
<1>8. \A q \in Servers : ServerDerefs(q)'
  BY <1>1 DEF TypeOK, ServerDerefs, DaemonType, QueueType, TicketOrNone,
      ServerPCs, ServerDropPush, SGoto, fticket_refresh, fuse_push_freeticks,
      session, queues, callers, control
<1>9. QED
  BY <1>2, <1>3, <1>4, <1>5, <1>6, <1>7, <1>8 DEF TypeOK

\* fuse_device_close keeps the types and leaves no null pointer to follow.
LEMMA fuse_device_close_Type ==
    ASSUME TypeOK, fuse_device_close
    PROVE  TypeOK'
<1>1. BitType'
  BY DEF TypeOK, BitType, fuse_device_close, queues, pool, callers, ticketv
<1>2. SessionType'
  BY DEF TypeOK, SessionType, fuse_device_close, queues, pool, callers,
      ticketv
<1>3. DaemonType'
  BY DEF TypeOK, DaemonType, ServerPCs, TicketOrNone, fuse_device_close,
      queues, pool, callers, ticketv
<1>4. QueueType' /\ TicketType' /\ CallerType'
  <2>1. UNCHANGED <<ms, aw, free, freeticket_counter, ticketer, tk_life,
      tk_unique, tk_flag, tk_age, tk_aw_handler, tk_aw_errno, tk_aw_ohead, pc,
      op, tick, intr, itick, err, age>>
    BY DEF fuse_device_close, queues, pool, callers, ticketv
  <2>2. QED
    BY <2>1, QueueFrame, TicketFrame, CallerFrame DEF TypeOK
<1>5. \A q \in Requesters : CallerDerefs(q)'
  BY DEF TypeOK, CallerDerefs, Current, fuse_device_close, queues, pool,
      callers, ticketv
<1>6. \A q \in Servers : ServerDerefs(q)'
  BY DEF TypeOK, ServerDerefs, DaemonType, QueueType, TicketOrNone, ServerPCs,
      fuse_device_close, queues, pool, callers, ticketv
<1>7. QED
  BY <1>1, <1>2, <1>3, <1>4, <1>5, <1>6 DEF TypeOK

\* fuse_device_kill keeps the types and leaves no null pointer to follow.
LEMMA fuse_device_kill_Type ==
    ASSUME TypeOK, fuse_device_kill
    PROVE  TypeOK'
<1>1. kills \in 0 .. MaxKills /\ kills < MaxKills /\ kills' = kills + 1
  BY DEF TypeOK, SessionType, fuse_device_kill
<1>2. kills' \in 0 .. MaxKills
  BY <1>1, ConstantTypes
<1>3. BitType'
  BY DEF TypeOK, BitType, fuse_device_kill, fdata_set_dead, WakeupOneReader,
      queues, pool, callers, ticketv
<1>4. SessionType'
  BY <1>1, <1>2 DEF TypeOK, SessionType, fuse_device_kill, fdata_set_dead,
      WakeupOneReader, queues, pool, callers, ticketv
<1>5. DaemonType'
  BY <1>1, <1>2 DEF TypeOK, DaemonType, ServerPCs, TicketOrNone,
      fuse_device_kill, fdata_set_dead, WakeupOneReader, queues, pool,
      callers, ticketv
<1>6. QueueType' /\ TicketType' /\ CallerType'
  <2>1. UNCHANGED <<ms, aw, free, freeticket_counter, ticketer, tk_life,
      tk_unique, tk_flag, tk_age, tk_aw_handler, tk_aw_errno, tk_aw_ohead, pc,
      op, tick, intr, itick, err, age>>
    BY DEF fuse_device_kill, fdata_set_dead, WakeupOneReader, queues, pool,
        callers, ticketv
  <2>2. QED
    BY <2>1, QueueFrame, TicketFrame, CallerFrame DEF TypeOK
<1>7. \A q \in Requesters : CallerDerefs(q)'
  BY DEF TypeOK, CallerDerefs, Current, fuse_device_kill, fdata_set_dead,
      WakeupOneReader, queues, pool, callers, ticketv
<1>8. \A q \in Servers : ServerDerefs(q)'
  BY <1>1, <1>2 DEF TypeOK, ServerDerefs, DaemonType, QueueType, TicketOrNone,
      ServerPCs, fuse_device_kill, fdata_set_dead, WakeupOneReader, queues,
      pool, callers, ticketv
<1>9. QED
  BY <1>3, <1>4, <1>5, <1>6, <1>7, <1>8 DEF TypeOK

\* DrainStarts keeps the types and leaves no null pointer to follow.
LEMMA DrainStarts_Type ==
    ASSUME TypeOK, DrainStarts
    PROVE  TypeOK'
<1>1. SessionType'
  BY DEF TypeOK, SessionType, DrainStarts, session, queues, pool, callers,
      daemon, ticketv
<1>2. BitType' /\ QueueType' /\ TicketType' /\ CallerType' /\ DaemonType'
  <2>1. UNCHANGED <<dead, inited, closed, free_loop, ms, aw, free,
      freeticket_counter, ticketer, tk_life, tk_unique, tk_flag, tk_age,
      tk_aw_handler, tk_aw_errno, tk_aw_ohead, pc, op, tick, intr, itick, err,
      age, spc, stick, sreply, inbox>>
    BY DEF DrainStarts, session, queues, pool, callers, daemon, ticketv
  <2>2. QED
    BY <2>1, BitFrame, QueueFrame, TicketFrame, CallerFrame, DaemonFrame DEF
        TypeOK
<1>3. \A q \in Requesters : CallerDerefs(q)'
  BY DEF TypeOK, CallerDerefs, Current, DrainStarts, session, queues, pool,
      callers, daemon, ticketv
<1>4. \A q \in Servers : ServerDerefs(q)'
  BY DEF TypeOK, ServerDerefs, DrainStarts, session, queues, pool, callers,
      daemon, ticketv
<1>5. QED
  BY <1>1, <1>2, <1>3, <1>4 DEF TypeOK

\* DrainOne keeps the types and leaves no null pointer to follow.
LEMMA DrainOne_Type ==
    ASSUME TypeOK, DrainOne
    PROVE  TypeOK'
<1>1. QueueType'
  BY DEF TypeOK, QueueType, DrainOne, SetAnswered, Wakeup, session, pool,
      daemon, control
<1>2. TicketType'
  BY DEF TypeOK, TicketType, Flags, Handlers, DrainOne, SetAnswered, Wakeup,
      session, pool, daemon, control
<1>3. CallerType'
  BY DEF TypeOK, CallerType, RequesterPCs, AllOps, TicketOrNone, Errors,
      DrainOne, SetAnswered, Wakeup, session, pool, daemon, control
<1>4. BitType' /\ SessionType' /\ DaemonType'
  <2>1. UNCHANGED <<dead, inited, closed, free_loop, phase, timeout_status,
      drain, panic, requests, kills, spc, stick, sreply, inbox>>
    BY DEF DrainOne, SetAnswered, Wakeup, session, pool, daemon, control
  <2>2. QED
    BY <2>1, BitFrame, SessionFrame, DaemonFrame DEF TypeOK
<1>5. \A q \in Requesters : CallerDerefs(q)'
  BY DEF TypeOK, CallerDerefs, Current, CallerType, QueueType, TicketOrNone,
      RequesterPCs, DrainOne, SetAnswered, Wakeup, session, pool, daemon,
      control
<1>6. \A q \in Servers : ServerDerefs(q)'
  BY DEF TypeOK, ServerDerefs, DrainOne, SetAnswered, Wakeup, session, pool,
      daemon, control
<1>7. QED
  BY <1>1, <1>2, <1>3, <1>4, <1>5, <1>6 DEF TypeOK

\* DrainEnds keeps the types and leaves no null pointer to follow.
LEMMA DrainEnds_Type ==
    ASSUME TypeOK, DrainEnds
    PROVE  TypeOK'
<1>1. SessionType'
  BY DEF TypeOK, SessionType, DrainEnds, session, queues, pool, callers,
      daemon, ticketv
<1>2. BitType' /\ QueueType' /\ TicketType' /\ CallerType' /\ DaemonType'
  <2>1. UNCHANGED <<dead, inited, closed, free_loop, ms, aw, free,
      freeticket_counter, ticketer, tk_life, tk_unique, tk_flag, tk_age,
      tk_aw_handler, tk_aw_errno, tk_aw_ohead, pc, op, tick, intr, itick, err,
      age, spc, stick, sreply, inbox>>
    BY DEF DrainEnds, session, queues, pool, callers, daemon, ticketv
  <2>2. QED
    BY <2>1, BitFrame, QueueFrame, TicketFrame, CallerFrame, DaemonFrame DEF
        TypeOK
<1>3. \A q \in Requesters : CallerDerefs(q)'
  BY DEF TypeOK, CallerDerefs, Current, DrainEnds, session, queues, pool,
      callers, daemon, ticketv
<1>4. \A q \in Servers : ServerDerefs(q)'
  BY DEF TypeOK, ServerDerefs, DrainEnds, session, queues, pool, callers,
      daemon, ticketv
<1>5. QED
  BY <1>1, <1>2, <1>3, <1>4 DEF TypeOK

\* SetDaemonDead keeps the types and leaves no null pointer to follow.
LEMMA SetDaemonDead_Type ==
    ASSUME TypeOK, SetDaemonDead
    PROVE  TypeOK'
<1>1. BitType'
  BY DEF TypeOK, BitType, SetDaemonDead, fdata_set_dead, WakeupOneReader,
      queues, pool, callers, control, ticketv
<1>2. SessionType'
  BY DEF TypeOK, SessionType, SetDaemonDead, fdata_set_dead, WakeupOneReader,
      queues, pool, callers, control, ticketv
<1>3. DaemonType'
  BY DEF TypeOK, DaemonType, ServerPCs, TicketOrNone, SetDaemonDead,
      fdata_set_dead, WakeupOneReader, queues, pool, callers, control, ticketv
<1>4. QueueType' /\ TicketType' /\ CallerType'
  <2>1. UNCHANGED <<ms, aw, free, freeticket_counter, ticketer, tk_life,
      tk_unique, tk_flag, tk_age, tk_aw_handler, tk_aw_errno, tk_aw_ohead, pc,
      op, tick, intr, itick, err, age>>
    BY DEF SetDaemonDead, fdata_set_dead, WakeupOneReader, queues, pool,
        callers, control, ticketv
  <2>2. QED
    BY <2>1, QueueFrame, TicketFrame, CallerFrame DEF TypeOK
<1>5. \A q \in Requesters : CallerDerefs(q)'
  BY DEF TypeOK, CallerDerefs, Current, SetDaemonDead, fdata_set_dead,
      WakeupOneReader, queues, pool, callers, control, ticketv
<1>6. \A q \in Servers : ServerDerefs(q)'
  BY DEF TypeOK, ServerDerefs, DaemonType, QueueType, TicketOrNone, ServerPCs,
      SetDaemonDead, fdata_set_dead, WakeupOneReader, queues, pool, callers,
      control, ticketv
<1>7. QED
  BY <1>1, <1>2, <1>3, <1>4, <1>5, <1>6 DEF TypeOK
\* Every step of the channel keeps the types.
LEMMA NextType == TypeOK /\ [Next]_vars => TypeOK'
<1> SUFFICES ASSUME TypeOK, [Next]_vars PROVE TypeOK'
  OBVIOUS
<1>1. ASSUME NEW r \in Requesters, CallerStep(r) PROVE TypeOK'
  BY <1>1, FetchFree_Type, fticket_alloc_Type, FetchAllocated_Type,
      fuse_insert_callback_Type, fuse_aw_push_Type, fuse_insert_message_Type,
      fuse_ms_push_Type, fticket_wait_answer_Type, WakesUp_Type,
      TimesOut_Type, Eject_Type, WaitedOk_Type, WaitedErr_Type, Abandon_Type,
      Consume_Type, InitSync_Type, fuse_ticket_drop_lock_Type,
      fuse_ticket_drop_push_Type DEF CallerStep
<1>2. ASSUME NEW r \in Requesters, CallerChoice(r) PROVE TypeOK'
  BY <1>2, Start_Type, MakeFails_Type, Signalled_Type, Reuse_Type,
      VgetFails_Type DEF CallerChoice
<1>3. ASSUME NEW s \in Servers, ServerStep(s) PROVE TypeOK'
  BY <1>3, ReaderWakes_Type, ReadChecksDead_Type, ReadFinishes_Type,
      RunHandler_Type, fuse_standard_handler_Type, ServerDropLock_Type,
      ServerDropPush_Type DEF ServerStep
<1>4. ASSUME NEW s \in Servers, ServerChoice(s) PROVE TypeOK'
  BY <1>4, fuse_device_read_Type, ReaderSignalled_Type, fuse_device_write_Type
      DEF ServerChoice
<1>5. CASE DrainStep
  BY <1>5, DrainStarts_Type, DrainOne_Type, DrainEnds_Type DEF DrainStep
<1>6. CASE SessionEnd
  BY <1>6, fuse_device_close_Type, fuse_device_kill_Type, SetDaemonDead_Type
      DEF SessionEnd
<1>7. CASE UNCHANGED vars
  <2>1. BitType' /\ SessionType' /\ QueueType'
    <3>1. /\ UNCHANGED <<dead, inited, closed, free_loop>>
          /\ UNCHANGED <<phase, timeout_status, drain, panic, requests, kills>>
          /\ UNCHANGED <<ms, aw, free, freeticket_counter, ticketer>>
      BY <1>7 DEF vars, session, queues, pool, control
    <3>2. QED
      BY <3>1, BitFrame, SessionFrame, QueueFrame DEF TypeOK
  <2>2. TicketType' /\ CallerType' /\ DaemonType'
    BY <1>7 DEF TypeOK, TicketType, CallerType, DaemonType, vars, session,
        queues, pool, ticketv, callers, daemon, control
  <2>3. \A r \in Requesters : CallerDerefs(r)'
    BY <1>7 DEF TypeOK, CallerDerefs, Current, vars, session, queues, pool,
        ticketv, callers, daemon, control
  <2>4. \A s \in Servers : ServerDerefs(s)'
    BY <1>7 DEF TypeOK, ServerDerefs, vars, session, queues, pool, ticketv,
        callers, daemon, control
  <2>5. QED
    BY <2>1, <2>2, <2>3, <2>4 DEF TypeOK
<1>8. QED
  BY <1>1, <1>2, <1>3, <1>4, <1>5, <1>6, <1>7 DEF Next

\* FuseIpc keeps its types for any number of threads and tickets and any
\* choice of operations, faults and tunables: no step of a caller or of a daemon
\* thread ever dereferences a null ticket pointer.
THEOREM TypeCorrect == Spec => []TypeOK
  BY InitType, NextType, PTL DEF Spec
=============================================================================
