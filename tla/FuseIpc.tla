------------------------------ MODULE FuseIpc ------------------------------
(***************************************************************************)
(* The message channel between the kernel half of MacFUSE and one user     *)
(* daemon (src/core/10.5/fusefs: fuse_ipc.c, fuse_ipc.h, the read, write,  *)
(* close, kill and ioctl entries of fuse_device.c, and the senders of      *)
(* fuse_internal.c).                                                       *)
(*                                                                         *)
(* A file system call takes a ticket, writes its request into it, queues   *)
(* it on ms_head (to be read by the daemon) and on aw_head (to be          *)
(* answered), and sleeps on it.  Threads of the daemon read messages and   *)
(* write replies.  Tickets are recycled through a free list; a recycled    *)
(* ticket keeps its tk_unique and gets a new tk_age.                       *)
(*                                                                         *)
(* One action is one critical section of the code, or one unlocked access  *)
(* to shared state.  Calls run concurrently: what the 32-bit build allows  *)
(* wherever a thread blocks, and more than the big lock of the 64-bit build*)
(* allows, where only requests that nobody waits for (FORGET, RELEASE) and *)
(* calls that release the lock overlap with others.                        *)
(***************************************************************************)
EXTENDS Integers, Sequences, FiniteSets, SequencesExt

CONSTANTS
    Requesters,            \* threads that make file system calls
    Mounter,               \* the requester that mounts, and so sends FUSE_INIT
    Servers,               \* threads of the user daemon
    Tickets,               \* bound: the tickets that can ever be allocated
    NoTicket,              \* a null ticket pointer
    Ops,                   \* kinds of call the requesters make
    ReplyKinds,            \* kinds of reply the daemon writes
    Faults,                \* which disturbances the environment may cause
    MaxRequests,           \* bound: requests (and reuses of a ticket) started
    MaxKills,              \* bound: calls of fuse_device_kill
    fuse_max_freetickets,  \* tunable: length limit of the free list
    fuse_max_tickets,      \* tunable: limit of live tickets, 0 for none
    DaemonTimeout,         \* data->daemon_timeout_p is not NULL
    NoAlerts,              \* FSESS_NO_ALERTS is set
    AtomicTicketer         \* no two threads are in fticket_alloc at once

AllOps == {"call", "forget", "release", "fsync"}
AllReplyKinds == {"ok", "error", "bad", "nomem"}
AllFaults == {"signal", "shortread", "close", "ioctl", "makefails", "vgetfails"}

ASSUME IpcAssumption ==
    /\ Mounter \in Requesters /\ Servers # {}
    /\ NoTicket \notin Tickets
    /\ Ops \subseteq AllOps
    /\ ReplyKinds \subseteq AllReplyKinds
    /\ Faults \subseteq AllFaults
    /\ MaxRequests \in Nat /\ MaxKills \in Nat
    /\ fuse_max_freetickets \in Nat /\ fuse_max_tickets \in Nat
    /\ DaemonTimeout \in BOOLEAN /\ NoAlerts \in BOOLEAN
    /\ AtomicTicketer \in BOOLEAN

VARIABLES
    \* struct fuse_data
    dead, inited,          \* FSESS_DEAD, FSESS_INITED in dataflags
    phase,                 \* how far fuse_vfsop_mount has come
    ms, aw,                \* ms_head and aw_head
    free,                  \* freetickets_head
    free_loop,             \* the last free ticket is linked to itself
    freeticket_counter,
    ticketer,
    timeout_status,
    \* struct fuse_ticket
    tk_life,               \* "unborn", "live" (allocated) or "freed"
    tk_unique, tk_flag, tk_age, tk_aw_handler, tk_aw_errno,
    tk_aw_ohead,           \* the reply's header, with the request it answers
    \* threads in file system calls
    pc, op, tick, intr, itick, err, age,
    \* threads of the daemon, and the messages it has read and not answered
    spc, stick, sreply, inbox,
    \* fuse_device_close or fuse_device_kill at work; panics; bounds
    drain, closed, panic, requests, kills

session == <<dead, inited, phase, timeout_status>>
queues  == <<ms, aw>>
pool    == <<free, free_loop, freeticket_counter, ticketer, tk_life, tk_unique>>
answers == <<tk_aw_errno, tk_aw_ohead>>
callers == <<pc, op, tick, intr, itick, err, age>>
daemon  == <<spc, stick, sreply, inbox>>
control == <<drain, closed, panic, requests, kills>>
ticketv == <<tk_flag, tk_age, tk_aw_handler, tk_aw_errno, tk_aw_ohead>>
vars == <<session, queues, pool, ticketv, callers, daemon, control>>

-----------------------------------------------------------------------------
(***************************************************************************)
(* Vocabulary.                                                             *)
(***************************************************************************)
Flags == {"ANSW", "INVAL", "DIRTY", "KILLL"}
Handlers == {"null", "standard", "fsync"}
NoReply == [req |-> <<NoTicket, 0>>, kind |-> "ok"]
TicketOrNone == Tickets \union {NoTicket}

Errors == {"0", "EINTR", "ERESTART", "ENOTCONN", "ENXIO", "EIO", "errno",
           "EPROTO"}

RequesterPCs == {"idle", "fetch", "alloc", "insert_cb", "push_aw",
                 "insert_msg", "push_ms", "wait", "asleep", "woken", "eject",
                 "waited", "abandon", "have", "drop", "push",
                 "initsync"}
ServerPCs == {"user", "asleep", "woken", "popped", "finish", "handler",
              "answer", "drop", "push", "gone"}

\* The request a ticket carries now: its age tells one use from the next.
Request(t) == <<t, tk_age[t]>>

fticket_answered(t) == "ANSW" \in tk_flag[t]

\* The ticket a thread is preparing: its own, or, inside
\* fuse_internal_interrupt_send, that of its INTERRUPT message.
Current(r) == IF intr[r] THEN itick[r] ELSE tick[r]

\* A thread owns tk_aw_mtx across steps while it handles a timeout and while
\* it sends the INTERRUPT message.
AwMtxHeld(t) == \E r \in Requesters :
    tick[r] = t /\ (pc[r] = "eject" \/ intr[r])

\* close and kill keep aw_mtx while they empty aw_head.
AwListFree == drain # "draining"

\* Mutant: the first ticket is taken without comparing tk_unique.
AnsweredAt_NoCompare(i, u) == i = 1

\* The loop of fuse_device_write stops at the first ticket with this unique.
AnsweredAt(i, u) ==
    /\ tk_unique[aw[i]] = u
    /\ \A j \in 1 .. i - 1 : tk_unique[aw[j]] # u

-----------------------------------------------------------------------------
(***************************************************************************)
(* Wakeups.                                                                *)
(***************************************************************************)
\* Mutant: the wakeup is forgotten.
WakeupOneReader_Forgotten == spc' = spc

\* fuse_wakeup_one(data): one of the readers asleep in fuse_device_read.
WakeupOneReader ==
    IF \E s \in Servers : spc[s] = "asleep"
    THEN \E s \in Servers : /\ spc[s] = "asleep"
                            /\ spc' = [spc EXCEPT ![s] = "woken"]
    ELSE spc' = spc

\* fuse_wakeup(ftick): every thread asleep on the ticket.
Wakeup(t) ==
    pc' = [r \in Requesters |->
             IF pc[r] = "asleep" /\ tick[r] = t THEN "woken" ELSE pc[r]]

\* fdata_set_dead.  Its wakeup of &ticketer finds no sleeper: the one thread
\* that sleeps there has a signal pending and does not stay asleep.
fdata_set_dead ==
    /\ dead' = TRUE
    /\ IF dead THEN spc' = spc ELSE WakeupOneReader

-----------------------------------------------------------------------------
(***************************************************************************)
(* Tickets: fuse_ticket_fetch, fuse_ticket_drop, fticket_refresh.          *)
(***************************************************************************)
Init ==
    /\ dead = FALSE /\ inited = FALSE /\ phase = "unmounted"
    /\ timeout_status = "NONE"
    /\ ms = <<>> /\ aw = <<>>
    /\ free = <<>> /\ free_loop = FALSE /\ freeticket_counter = 0
    /\ ticketer = 0
    /\ tk_life = [t \in Tickets |-> "unborn"]
    /\ tk_unique = [t \in Tickets |-> 0]
    /\ tk_flag = [t \in Tickets |-> {}]
    /\ tk_age = [t \in Tickets |-> 0]
    /\ tk_aw_handler = [t \in Tickets |-> "null"]
    /\ tk_aw_errno = [t \in Tickets |-> "0"]
    /\ tk_aw_ohead = [t \in Tickets |-> NoReply]
    /\ pc = [r \in Requesters |-> "idle"]
    /\ op = [r \in Requesters |-> "call"]
    /\ tick = [r \in Requesters |-> NoTicket]
    /\ intr = [r \in Requesters |-> FALSE]
    /\ itick = [r \in Requesters |-> NoTicket]
    /\ err = [r \in Requesters |-> "0"]
    /\ age = [r \in Requesters |-> 0]
    /\ spc = [s \in Servers |-> "user"]
    /\ stick = [s \in Servers |-> NoTicket]
    /\ sreply = [s \in Servers |-> NoReply]
    /\ inbox = {}
    /\ drain = "off" /\ closed = FALSE /\ panic = "none"
    /\ requests = 0 /\ kills = 0

\* fuse_push_freeticks: STAILQ_INSERT_TAIL.  Inserting a ticket that is on the
\* list already cuts the list behind it; inserting the last one again links
\* it to itself.
fuse_push_freeticks(t) ==
    /\ freeticket_counter' = freeticket_counter + 1
    /\ IF t \notin ToSet(free)
       THEN free' = Append(free, t) /\ free_loop' = FALSE
       ELSE \E i \in DOMAIN free :
                /\ free[i] = t
                /\ free' = SubSeq(free, 1, i)
                /\ free_loop' = (i = Len(free))

\* fticket_refresh leaves tk_aw_handler as it was.
fticket_refresh(t) ==
    /\ tk_flag' = [tk_flag EXCEPT ![t] = {}]
    /\ tk_age' = [tk_age EXCEPT ![t] = @ + 1]
    /\ tk_aw_errno' = [tk_aw_errno EXCEPT ![t] = "0"]
    /\ tk_aw_ohead' = [tk_aw_ohead EXCEPT ![t] = NoReply]

\* fuse_ticket_drop, first half: does the ticket die?  (The test
\* fuse_max_freetickets >= 0 is vacuous, the tunable is unsigned.)
TicketDies(t) ==
    \/ fuse_max_freetickets <= freeticket_counter
    \/ "KILLL" \in tk_flag[t]

\* A caller is done: it hands its err out and holds no ticket any more.
Return(r) ==
    /\ pc' = [pc EXCEPT ![r] = "idle"]
    /\ tick' = [tick EXCEPT ![r] = NoTicket]
    /\ err' = [err EXCEPT ![r] = "0"]
    /\ age' = [age EXCEPT ![r] = 0]
    /\ UNCHANGED <<op, intr, itick>>

Goto(r, l) == pc' = [pc EXCEPT ![r] = l]

\* The INIT requester goes on to fuse_internal_init_synchronous.
AfterDrop(r) ==
    IF op[r] = "init" /\ err[r] \in {"0", "EPROTO"}
    THEN /\ Goto(r, "initsync")
         /\ tick' = [tick EXCEPT ![r] = NoTicket]
         /\ UNCHANGED <<op, intr, itick, err, age>>
    ELSE Return(r)

fuse_ticket_drop_lock(r) ==
    LET t == tick[r] IN
    /\ pc[r] = "drop"
    /\ IF TicketDies(t)
       THEN /\ tk_life' = [tk_life EXCEPT ![t] = "freed"]
            /\ AfterDrop(r)
       ELSE /\ Goto(r, "push")
            /\ UNCHANGED <<tk_life, op, tick, intr, itick, err, age>>
    /\ UNCHANGED <<session, queues, free, free_loop, freeticket_counter,
                   ticketer, tk_unique, ticketv, daemon, control>>

fuse_ticket_drop_push(r) ==
    LET t == tick[r] IN
    /\ pc[r] = "push"
    /\ fticket_refresh(t)
    /\ fuse_push_freeticks(t)
    /\ AfterDrop(r)
    /\ UNCHANGED <<session, queues, ticketer, tk_life, tk_unique,
                   tk_aw_handler, daemon, control>>

\* A call begins.  The mounter's first one is FUSE_INIT; the others find the
\* volume only once it is mounted.
Start(r, o) ==
    /\ pc[r] = "idle"
    /\ requests < MaxRequests
    /\ \/ o = "init" /\ r = Mounter /\ phase = "unmounted"
       \/ o \in Ops /\ phase = "mounted"
    /\ phase' = IF o = "init" THEN "mounting" ELSE phase
    /\ requests' = requests + 1
    /\ op' = [op EXCEPT ![r] = o]
    /\ err' = [err EXCEPT ![r] = "0"]
    /\ Goto(r, "fetch")
    /\ UNCHANGED <<dead, inited, timeout_status, queues, pool, ticketv, tick,
                   intr, itick, age, daemon, drain, closed, panic, kills>>

\* The fetched ticket is filled in.  FORGET and INTERRUPT are marked FT_INVAL
\* (no reply is wanted) and get no entry on aw_head.
Fetched(r, t) ==
    /\ IF intr[r] THEN itick' = [itick EXCEPT ![r] = t] /\ tick' = tick
                  ELSE tick' = [tick EXCEPT ![r] = t] /\ itick' = itick
    /\ IF intr[r] \/ op[r] = "forget"
       THEN /\ tk_flag' = [tk_flag EXCEPT ![t] = @ \union {"INVAL"}]
            /\ Goto(r, "insert_msg")
       ELSE tk_flag' = tk_flag /\ Goto(r, "insert_cb")

\* The end of fuse_ticket_fetch, n being data->ticketer: a request that is not
\* the first waits for FSESS_INITED.  Only the INTERRUPT of FUSE_INIT comes
\* here so early; its sender has a signal pending, so the sleep fails at once.
AdmissionFails(n) ==
    \/ ~inited /\ n > 1
    \/ /\ fuse_max_tickets # 0
       /\ n - Cardinality({t \in Tickets : tk_life[t] = "freed"})
              > fuse_max_tickets

Admit(n) ==
    IF AdmissionFails(n) THEN fdata_set_dead ELSE UNCHANGED <<dead, spc>>

\* fuse_ticket_fetch with a free ticket, fuse_pop_freeticks included.
FetchFree(r) ==
    /\ pc[r] = "fetch"
    /\ freeticket_counter > 0
    /\ IF free = <<>>
       THEN /\ panic' = "count_mismatch"
            /\ UNCHANGED <<free, freeticket_counter, tick, itick, pc, tk_flag,
                           dead, spc>>
       ELSE /\ freeticket_counter' = freeticket_counter - 1
            /\ free' = IF Len(free) = 1 /\ free_loop THEN free ELSE Tail(free)
            /\ panic' = IF free' = <<>> /\ freeticket_counter' # 0
                        THEN "count_mismatch" ELSE panic
            /\ Fetched(r, Head(free))
            /\ Admit(ticketer)
    /\ UNCHANGED <<inited, phase, timeout_status, queues, free_loop, ticketer,
                   tk_life, tk_unique, tk_age, tk_aw_handler, answers, op, intr,
                   err, age, stick, sreply, inbox, drain, closed, requests, kills>>

\* fticket_alloc runs without ticket_mtx: data->ticketer++ is a load here and
\* a store in the next action.
fticket_alloc(r) ==
    LET t == CHOOSE u \in Tickets : tk_life[u] = "unborn" IN
    /\ pc[r] = "fetch"
    /\ freeticket_counter = 0
    /\ AtomicTicketer => \A q \in Requesters : pc[q] # "alloc"
    /\ \E u \in Tickets : tk_life[u] = "unborn"
    /\ tk_life' = [tk_life EXCEPT ![t] = "live"]
    /\ tk_unique' = [tk_unique EXCEPT ![t] = ticketer]
    /\ IF intr[r] THEN itick' = [itick EXCEPT ![r] = t] /\ tick' = tick
                  ELSE tick' = [tick EXCEPT ![r] = t] /\ itick' = itick
    /\ Goto(r, "alloc")
    /\ UNCHANGED <<session, queues, free, free_loop, freeticket_counter,
                   ticketer, ticketv, op, intr, err, age, daemon, control>>

FetchAllocated(r) ==
    LET t == Current(r)
        n == tk_unique[t] + 1
    IN  /\ pc[r] = "alloc"
        /\ ticketer' = n
        /\ Fetched(r, t)
        /\ Admit(n)
        /\ UNCHANGED <<inited, phase, timeout_status, queues, free, free_loop,
                       freeticket_counter, tk_life, tk_unique, tk_age,
                       tk_aw_handler, answers, op, intr, err, age, stick,
                       sreply, inbox, control>>

\* fdisp_make_canfail cannot get memory for the message: fuse_ticket_kill.
MakeFails(r) ==
    /\ "makefails" \in Faults
    /\ pc[r] = "insert_cb" /\ op[r] = "call"
    /\ tk_life' = [tk_life EXCEPT ![tick[r]] = "freed"]
    /\ Return(r)
    /\ UNCHANGED <<session, queues, free, free_loop, freeticket_counter,
                   ticketer, tk_unique, ticketv, daemon, control>>

-----------------------------------------------------------------------------
(***************************************************************************)
(* Sending: fuse_insert_callback and fuse_insert_message.  Both look at    *)
(* FSESS_DEAD without a lock, before they take the lock of their queue.    *)
(***************************************************************************)
HandlerOf(o) == CASE o = "release" -> "null"
                  [] o = "fsync"   -> "fsync"
                  [] OTHER         -> "standard"

\* Mutant: a call in a dead session still queues its ticket for an answer.
InsertSeesDead_Not == FALSE

InsertSeesDead == dead

fuse_insert_callback(r) ==
    /\ pc[r] = "insert_cb"
    /\ IF InsertSeesDead
       THEN Goto(r, "insert_msg") /\ UNCHANGED tk_aw_handler
       ELSE /\ tk_aw_handler' = [tk_aw_handler EXCEPT ![tick[r]] = HandlerOf(op[r])]
            /\ Goto(r, "push_aw")
    /\ UNCHANGED <<session, queues, pool, tk_flag, tk_age, answers, op, tick,
                   intr, itick, err, age, daemon, control>>

fuse_aw_push(r) ==
    /\ pc[r] = "push_aw"
    /\ AwListFree
    /\ aw' = Append(aw, tick[r])
    /\ Goto(r, "insert_msg")
    /\ UNCHANGED <<session, ms, pool, ticketv, op, tick, intr, itick, err, age,
                   daemon, control>>

\* What the sender does once the message is out: wait for the answer, end
\* the INTERRUPT and leave fticket_wait_answer with EINTR, or just return.
AfterSend(r) ==
    IF intr[r]
    THEN /\ Goto(r, "waited")
         /\ intr' = [intr EXCEPT ![r] = FALSE]
         /\ itick' = [itick EXCEPT ![r] = NoTicket]
         /\ err' = [err EXCEPT ![r] = "EINTR"]
         /\ UNCHANGED <<op, tick, age>>
    ELSE IF op[r] \in {"call", "init"}
         THEN Goto(r, "wait") /\ UNCHANGED <<op, tick, intr, itick, err, age>>
         ELSE Return(r)

fuse_insert_message(r) ==
    LET t == Current(r) IN
    /\ pc[r] = "insert_msg"
    /\ IF "DIRTY" \in tk_flag[t]
       THEN /\ panic' = "not_refreshed"
            /\ UNCHANGED <<tk_flag, callers>>
       ELSE /\ tk_flag' = [tk_flag EXCEPT ![t] = @ \union {"DIRTY"}]
            /\ IF dead THEN AfterSend(r)
               ELSE /\ Goto(r, "push_ms")
                    /\ UNCHANGED <<op, tick, intr, itick, err, age>>
            /\ UNCHANGED panic
    /\ UNCHANGED <<session, queues, pool, tk_age, tk_aw_handler, answers, daemon,
                   drain, closed, requests, kills>>

fuse_ms_push(r) ==
    /\ pc[r] = "push_ms"
    /\ ms' = Append(ms, Current(r))
    /\ WakeupOneReader
    /\ AfterSend(r)
    /\ UNCHANGED <<session, aw, pool, ticketv, stick, sreply, inbox, control>>

-----------------------------------------------------------------------------
(***************************************************************************)
(* Waiting: fticket_wait_answer.                                           *)
(***************************************************************************)
SetAnswered(t) == tk_flag' = [tk_flag EXCEPT ![t] = @ \union {"ANSW"}]

\* Mutant: the waiting caller does not look whether the session is dead.
WaitSeesDead_Not == FALSE

WaitSeesDead == dead

fticket_wait_answer(r) ==
    LET t == tick[r] IN
    /\ pc[r] = "wait"
    /\ ~AwMtxHeld(t)
    /\ \/ /\ fticket_answered(t)
          /\ Goto(r, "waited")
          /\ UNCHANGED <<tk_flag, err>>
       \/ /\ ~fticket_answered(t) /\ WaitSeesDead
          /\ err' = [err EXCEPT ![r] = "ENOTCONN"]
          /\ SetAnswered(t)
          /\ Goto(r, "waited")
       \/ /\ ~fticket_answered(t) /\ ~WaitSeesDead
          /\ Goto(r, "asleep")
          /\ UNCHANGED <<tk_flag, err>>
    /\ UNCHANGED <<session, queues, pool, tk_age, tk_aw_handler, answers, op,
                   tick, intr, itick, age, daemon, control>>

\* msleep returns 0 after a wakeup.
WakesUp(r) ==
    /\ pc[r] = "woken"
    /\ ~AwMtxHeld(tick[r])
    /\ Goto(r, "waited")
    /\ UNCHANGED <<session, queues, pool, ticketv, op, tick, intr, itick, err,
                   age, daemon, control>>

\* msleep returns EAGAIN: the daemon timeout.  While another thread is dealing
\* with a timeout (PROCESSING) this one goes back to sleep, which is no step.
TimesOut(r) ==
    /\ DaemonTimeout
    /\ pc[r] = "asleep"
    /\ ~AwMtxHeld(tick[r])
    /\ NoAlerts \/ timeout_status # "PROCESSING"
    /\ timeout_status' =
         IF ~NoAlerts /\ timeout_status = "NONE" THEN "PROCESSING" ELSE "DEAD"
    /\ Goto(r, "eject")
    /\ UNCHANGED <<dead, inited, phase, queues, pool, ticketv, op, tick, intr,
                   itick, err, age, daemon, control>>

\* Mutant: the timeout status is left at PROCESSING.
EjectStatus_Kept == timeout_status

EjectStatus == "DEAD"

\* No alert can be shown in this build (M_MACFUSE_ENABLE_KUNC is 0): eject.
Eject(r) ==
    /\ pc[r] = "eject"
    /\ timeout_status' = EjectStatus
    /\ fdata_set_dead
    /\ SetAnswered(tick[r])
    /\ err' = [err EXCEPT ![r] = "ENOTCONN"]
    /\ Goto(r, "waited")
    /\ UNCHANGED <<inited, phase, queues, pool, tk_age, tk_aw_handler, answers,
                   op, tick, intr, itick, age, stick, sreply, inbox, control>>

\* msleep returns EINTR or ERESTART.  A signal wins over a wakeup that has
\* already been delivered.  EINTR sends an INTERRUPT, ERESTART does not.
Signalled(r) ==
    /\ "signal" \in Faults
    /\ pc[r] \in {"asleep", "woken"}
    /\ ~AwMtxHeld(tick[r])
    /\ \/ /\ intr' = [intr EXCEPT ![r] = TRUE]
          /\ Goto(r, "fetch")
          /\ UNCHANGED err
       \/ /\ err' = [err EXCEPT ![r] = "ERESTART"]
          /\ Goto(r, "waited")
          /\ UNCHANGED intr
    /\ UNCHANGED <<session, queues, pool, ticketv, op, tick, itick, age, daemon,
                   control>>

-----------------------------------------------------------------------------
(***************************************************************************)
(* The rest of fdisp_wait_answ, and what callers do with the answer.       *)
(***************************************************************************)
\* The last test of fticket_wait_answer, made after the unlock, and what
\* fdisp_wait_answ makes of an answer.
WaitedOk(r) ==
    LET t == tick[r]
        e == IF ~fticket_answered(t) THEN "ENXIO"
             ELSE IF tk_aw_errno[t] # "0" THEN "EIO"
             ELSE IF tk_aw_ohead[t].kind = "error" THEN "errno" ELSE "0"
    IN  /\ pc[r] = "waited"
        /\ err[r] = "0"
        /\ err' = [err EXCEPT ![r] = e]
        /\ Goto(r, CASE e = "0"     -> "have"
                     [] e = "ENXIO" -> "waited"
                     [] OTHER       -> "drop")
        /\ UNCHANGED <<session, queues, pool, ticketv, op, tick, intr, itick,
                       age, daemon, control>>

\* Mutant: the caller whose wait failed always drops its ticket.
CallerDrops_Always(t) == TRUE

CallerDrops(t) == fticket_answered(t)

\* The wait failed.  An answered ticket is the caller's to drop; otherwise the
\* caller declares it answered and leaves it to whoever takes it off aw_head.
WaitedErr(r) ==
    LET t == tick[r] IN
    /\ pc[r] = "waited"
    /\ err[r] # "0"
    /\ ~AwMtxHeld(t)
    /\ IF CallerDrops(t)
       THEN Goto(r, "drop") /\ UNCHANGED <<tk_flag, age>>
       ELSE /\ age' = [age EXCEPT ![r] = tk_age[t]]
            /\ SetAnswered(t)
            /\ Goto(r, "abandon")
    /\ UNCHANGED <<session, queues, pool, tk_age, tk_aw_handler, answers, op,
                   tick, intr, itick, err, daemon, control>>

\* Mutant: the ticket's age is not compared.
StillMine_AnyAge(r) == tick[r] \in ToSet(aw)

StillMine(r) == tick[r] \in ToSet(aw) /\ tk_age[tick[r]] = age[r]

\* Preventing I/O in vain: no handler if the ticket still awaits this answer.
Abandon(r) ==
    LET t == tick[r] IN
    /\ pc[r] = "abandon"
    /\ AwListFree
    /\ tk_aw_handler' = IF StillMine(r)
                        THEN [tk_aw_handler EXCEPT ![t] = "null"] ELSE tk_aw_handler
    /\ Return(r)
    /\ UNCHANGED <<session, queues, pool, tk_flag, tk_age, answers, daemon,
                   control>>

\* The caller is done with the answer (fuse_ticket_drop follows).  FUSE_INIT's
\* answer may be refused by fuse_internal_init_synchronous.
Consume(r) ==
    /\ pc[r] = "have"
    /\ Goto(r, "drop")
    /\ IF op[r] = "init"
       THEN \E e \in {"0", "EPROTO"} : err' = [err EXCEPT ![r] = e]
       ELSE UNCHANGED err
    /\ UNCHANGED <<session, queues, pool, ticketv, op, tick, intr, itick, age,
                   daemon, control>>

\* The read, write and readdir loops call fdisp_make again with the ticket
\* they hold: it is refreshed, not fetched.
Reuse(r) ==
    /\ pc[r] = "have" /\ op[r] = "call"
    /\ requests < MaxRequests
    /\ requests' = requests + 1
    /\ fticket_refresh(tick[r])
    /\ Goto(r, "insert_cb")
    /\ UNCHANGED <<session, queues, pool, tk_aw_handler, op, tick, intr, itick,
                   err, age, daemon, drain, closed, panic, kills>>

\* No vnode for the new entry: fuse_internal_forget_send takes the dispatcher
\* over, fdisp_init clears its ticket pointer and the answered ticket is lost.
VgetFails(r) ==
    /\ "vgetfails" \in Faults
    /\ pc[r] = "have" /\ op[r] = "call"
    /\ op' = [op EXCEPT ![r] = "forget"]
    /\ tick' = [tick EXCEPT ![r] = NoTicket]
    /\ Goto(r, "fetch")
    /\ UNCHANGED <<session, queues, pool, ticketv, intr, itick, err, age, daemon,
                   control>>

\* fuse_internal_init_synchronous after the drop: FSESS_INITED is set and the
\* mount goes on even when the session has just been declared dead.
InitSync(r) ==
    /\ pc[r] = "initsync"
    /\ IF err[r] # "0" THEN fdata_set_dead ELSE UNCHANGED <<dead, spc>>
    /\ inited' = TRUE
    /\ phase' = "mounted"
    /\ Return(r)
    /\ UNCHANGED <<timeout_status, queues, pool, ticketv, stick, sreply, inbox,
                   control>>

-----------------------------------------------------------------------------
(***************************************************************************)
(* The daemon's threads in fuse_device_read.                               *)
(***************************************************************************)
SGoto(s, l) == spc' = [spc EXCEPT ![s] = l]

\* ms_mtx is held from the test of FSESS_DEAD to the pop or the sleep.  A dead
\* session answers ENODEV, which leaves the thread where it is.
fuse_device_read(s) ==
    /\ spc[s] = "user"
    /\ ~dead
    /\ IF ms = <<>>
       THEN SGoto(s, "asleep") /\ UNCHANGED <<ms, stick>>
       ELSE /\ stick' = [stick EXCEPT ![s] = Head(ms)]
            /\ ms' = Tail(ms)
            /\ SGoto(s, "popped")
    /\ UNCHANGED <<session, aw, pool, ticketv, callers, sreply, inbox, control>>

\* msleep returned 0: pop first, and only then look at FSESS_DEAD.
ReaderWakes(s) ==
    /\ spc[s] = "woken"
    /\ \/ /\ ms # <<>>
          /\ stick' = [stick EXCEPT ![s] = Head(ms)]
          /\ ms' = Tail(ms)
          /\ SGoto(s, "popped")
       \/ /\ ms = <<>>
          /\ SGoto(s, IF dead THEN "user" ELSE "asleep")
          /\ UNCHANGED <<ms, stick>>
    /\ UNCHANGED <<session, aw, pool, ticketv, callers, sreply, inbox, control>>

\* msleep returned an error: back to the daemon, even if a wakeup was meant
\* for this thread.
ReaderSignalled(s) ==
    /\ "signal" \in Faults
    /\ spc[s] \in {"asleep", "woken"}
    /\ SGoto(s, "user")
    /\ UNCHANGED <<session, queues, pool, ticketv, callers, stick, sreply, inbox,
                   control>>

\* Mutant: the invalidated ticket is not dropped.
DropInvalid_Forgotten(s) ==
    SGoto(s, "user") /\ stick' = [stick EXCEPT ![s] = NoTicket]

\* Mutant: the pointer is cleared before the drop.
DropInvalid_Early(s) ==
    /\ SGoto(s, IF "INVAL" \in tk_flag[stick[s]] THEN "drop" ELSE "user")
    /\ stick' = [stick EXCEPT ![s] = NoTicket]

\* fuse_ticket_drop_invalid at the end of a read.
DropInvalid(s) ==
    IF "INVAL" \in tk_flag[stick[s]]
    THEN SGoto(s, "drop") /\ UNCHANGED stick
    ELSE SGoto(s, "user") /\ stick' = [stick EXCEPT ![s] = NoTicket]

ReadChecksDead(s) ==
    /\ spc[s] = "popped"
    /\ IF dead THEN DropInvalid(s) ELSE SGoto(s, "finish") /\ UNCHANGED stick
    /\ UNCHANGED <<session, queues, pool, ticketv, callers, sreply, inbox, control>>

\* The copy out.  A buffer that is too small kills the session without waking
\* anybody; a request that has been abandoned meanwhile is reported as EINTR,
\* so the daemon does not see it.
ReadFinishes(s) ==
    LET t == stick[s] IN
    /\ spc[s] = "finish"
    /\ \/ /\ "shortread" \in Faults
          /\ dead' = TRUE
          /\ UNCHANGED inbox
       \/ /\ UNCHANGED dead
          /\ inbox' = inbox \union
                 (IF fticket_answered(t) \/ "INVAL" \in tk_flag[t] THEN {}
                  ELSE {[unique |-> tk_unique[t], req |-> Request(t)]})
    /\ DropInvalid(s)
    /\ UNCHANGED <<inited, phase, timeout_status, queues, pool, ticketv, callers,
                   sreply, control>>

-----------------------------------------------------------------------------
(***************************************************************************)
(* The daemon's threads in fuse_device_write.  The daemon (external) is    *)
(* well behaved: it answers a message at most once, and only one it has    *)
(* read.                                                                   *)
(***************************************************************************)
fuse_device_write(s, m, k) ==
    /\ spc[s] = "user"
    /\ AwListFree
    /\ inbox' = inbox \ {m}
    /\ \/ \E i \in DOMAIN aw :
            /\ AnsweredAt(i, m.unique)
            /\ aw' = RemoveAt(aw, i)
            /\ stick' = [stick EXCEPT ![s] = aw[i]]
            /\ sreply' = [sreply EXCEPT ![s] = [req |-> m.req, kind |-> k]]
            /\ SGoto(s, "handler")
       \/ /\ \A t \in ToSet(aw) : tk_unique[t] # m.unique
          /\ UNCHANGED <<aw, spc, stick, sreply>>
    /\ UNCHANGED <<session, ms, pool, ticketv, callers, control>>

\* The handler, up to the lock: fuse_standard_handler copies the body in
\* (fticket_pull).  A failed copy marks the ticket FT_KILLL.
RunHandler(s) ==
    LET t == stick[s]
        h == tk_aw_handler[t]
    IN  /\ spc[s] = "handler"
        /\ SGoto(s, IF h = "standard" THEN "answer" ELSE "drop")
        /\ tk_aw_ohead' = IF h = "null" THEN tk_aw_ohead
                          ELSE [tk_aw_ohead EXCEPT ![t] = sreply[s]]
        /\ IF h = "standard" /\ ~dead /\ sreply[s].kind = "nomem"
           THEN tk_flag' = [tk_flag EXCEPT ![t] = @ \union {"KILLL"}]
           ELSE UNCHANGED tk_flag
        /\ sreply' = IF h # "standard" THEN [sreply EXCEPT ![s] = NoReply]
                     ELSE IF dead /\ sreply[s].kind # "error"
                          THEN [sreply EXCEPT ![s].kind = "bad"] ELSE sreply
        /\ UNCHANGED <<session, queues, pool, tk_age, tk_aw_handler, tk_aw_errno,
                       callers, stick, inbox, control>>

\* The locked half of fuse_standard_handler.
fuse_standard_handler(s) ==
    LET t == stick[s] IN
    /\ spc[s] = "answer"
    /\ ~AwMtxHeld(t)
    /\ IF fticket_answered(t)
       THEN SGoto(s, "drop") /\ UNCHANGED <<tk_flag, tk_aw_errno, pc, stick>>
       ELSE /\ SetAnswered(t)
            /\ tk_aw_errno' = [tk_aw_errno EXCEPT
                                 ![t] = IF sreply[s].kind \in {"bad", "nomem"}
                                        THEN "EINVAL" ELSE "0"]
            /\ Wakeup(t)
            /\ SGoto(s, "user")
            /\ stick' = [stick EXCEPT ![s] = NoTicket]
    /\ sreply' = [sreply EXCEPT ![s] = NoReply]
    /\ UNCHANGED <<session, queues, pool, tk_age, tk_aw_handler, tk_aw_ohead, op,
                   tick, intr, itick, err, age, inbox, control>>

ServerDropLock(s) ==
    LET t == stick[s] IN
    /\ spc[s] = "drop"
    /\ IF TicketDies(t)
       THEN /\ tk_life' = [tk_life EXCEPT ![t] = "freed"]
            /\ stick' = [stick EXCEPT ![s] = NoTicket]
            /\ SGoto(s, "user")
       ELSE SGoto(s, "push") /\ UNCHANGED <<tk_life, stick>>
    /\ UNCHANGED <<session, queues, free, free_loop, freeticket_counter,
                   ticketer, tk_unique, ticketv, callers, sreply, inbox, control>>

ServerDropPush(s) ==
    LET t == stick[s] IN
    /\ spc[s] = "push"
    /\ fticket_refresh(t)
    /\ fuse_push_freeticks(t)
    /\ stick' = [stick EXCEPT ![s] = NoTicket]
    /\ SGoto(s, "user")
    /\ UNCHANGED <<session, queues, ticketer, tk_life, tk_unique, tk_aw_handler,
                   callers, sreply, inbox, control>>

-----------------------------------------------------------------------------
(***************************************************************************)
(* The end of a session: close, the kill sysctl, the ioctl.                *)
(***************************************************************************)
\* fuse_device_close while mounted.  The kernel calls it when the last thread
\* has left the device.
fuse_device_close ==
    /\ "close" \in Faults
    /\ ~closed /\ drain = "off"
    /\ phase = "mounted" \/ (phase = "mounting" /\ pc[Mounter] # "idle")
    /\ \A s \in Servers : spc[s] = "user"
    /\ closed' = TRUE
    /\ dead' = TRUE
    /\ drain' = "dead"
    /\ spc' = [s \in Servers |-> "gone"]
    /\ inbox' = {}
    /\ UNCHANGED <<inited, phase, timeout_status, queues, pool, ticketv, callers,
                   stick, sreply, panic, requests, kills>>

fuse_device_kill ==
    /\ kills < MaxKills
    /\ drain = "off"
    /\ kills' = kills + 1
    /\ fdata_set_dead
    /\ drain' = "dead"
    /\ UNCHANGED <<inited, phase, timeout_status, queues, pool, ticketv, callers,
                   stick, sreply, inbox, closed, panic, requests>>

\* Both then take aw_mtx and keep it until aw_head is empty.
DrainStarts ==
    /\ drain = "dead"
    /\ drain' = "draining"
    /\ UNCHANGED <<session, queues, pool, ticketv, callers, daemon, closed, panic,
                   requests, kills>>

DrainOne ==
    LET t == Head(aw) IN
    /\ drain = "draining" /\ aw # <<>>
    /\ ~AwMtxHeld(t)
    /\ aw' = Tail(aw)
    /\ SetAnswered(t)
    /\ tk_aw_errno' = [tk_aw_errno EXCEPT ![t] = "ENOTCONN"]
    /\ Wakeup(t)
    /\ UNCHANGED <<session, ms, pool, tk_age, tk_aw_handler, tk_aw_ohead, op, tick,
                   intr, itick, err, age, daemon, control>>

DrainEnds ==
    /\ drain = "draining" /\ aw = <<>>
    /\ drain' = "off"
    /\ UNCHANGED <<session, queues, pool, ticketv, callers, daemon, closed, panic,
                   requests, kills>>

\* FUSEDEVIOCSETDAEMONDEAD.
SetDaemonDead ==
    /\ "ioctl" \in Faults
    /\ ~closed
    /\ fdata_set_dead
    /\ timeout_status' = "DEAD"
    /\ UNCHANGED <<inited, phase, queues, pool, ticketv, callers, stick, sreply,
                   inbox, control>>

-----------------------------------------------------------------------------
CallerStep(r) ==
    \/ FetchFree(r) \/ fticket_alloc(r) \/ FetchAllocated(r)
    \/ fuse_insert_callback(r) \/ fuse_aw_push(r)
    \/ fuse_insert_message(r) \/ fuse_ms_push(r)
    \/ fticket_wait_answer(r) \/ WakesUp(r) \/ TimesOut(r) \/ Eject(r)
    \/ WaitedOk(r) \/ WaitedErr(r) \/ Abandon(r)
    \/ Consume(r) \/ InitSync(r)
    \/ fuse_ticket_drop_lock(r) \/ fuse_ticket_drop_push(r)

CallerChoice(r) ==
    \/ \E o \in Ops \union {"init"} : Start(r, o)
    \/ Signalled(r) \/ MakeFails(r) \/ Reuse(r) \/ VgetFails(r)

\* What a daemon thread that is inside the kernel does next.
ServerStep(s) ==
    \/ ReaderWakes(s) \/ ReadChecksDead(s) \/ ReadFinishes(s)
    \/ RunHandler(s) \/ fuse_standard_handler(s)
    \/ ServerDropLock(s) \/ ServerDropPush(s)

ServerChoice(s) ==
    \/ fuse_device_read(s) \/ ReaderSignalled(s)
    \/ \E m \in inbox, k \in ReplyKinds : fuse_device_write(s, m, k)

DrainStep == DrainStarts \/ DrainOne \/ DrainEnds
SessionEnd == fuse_device_close \/ fuse_device_kill \/ SetDaemonDead

Next ==
    /\ panic = "none"
    /\ \/ \E r \in Requesters : CallerStep(r) \/ CallerChoice(r)
       \/ \E s \in Servers : ServerStep(s) \/ ServerChoice(s)
       \/ DrainStep
       \/ SessionEnd

Spec == Init /\ [][Next]_vars

\* Threads inside the kernel run; the daemon and the callers owe nothing.
Fairness ==
    /\ \A r \in Requesters : WF_vars(panic = "none" /\ CallerStep(r))
    /\ \A s \in Servers : WF_vars(panic = "none" /\ ServerStep(s))
    /\ WF_vars(panic = "none" /\ DrainStep)

FairSpec == Spec /\ Fairness

-----------------------------------------------------------------------------
(***************************************************************************)
(* Properties.                                                             *)
(***************************************************************************)
Requests == TicketOrNone \X Nat
Replies == [req : Requests, kind : AllReplyKinds]

BitType ==
    /\ dead \in BOOLEAN /\ inited \in BOOLEAN
    /\ closed \in BOOLEAN /\ free_loop \in BOOLEAN

SessionType ==
    /\ phase \in {"unmounted", "mounting", "mounted"}
    /\ timeout_status \in {"NONE", "PROCESSING", "DEAD"}
    /\ drain \in {"off", "dead", "draining"}
    /\ panic \in {"none", "count_mismatch", "not_refreshed"}
    /\ requests \in 0 .. MaxRequests /\ kills \in 0 .. MaxKills

QueueType ==
    /\ ms \in Seq(Tickets) /\ aw \in Seq(Tickets) /\ free \in Seq(Tickets)
    /\ freeticket_counter \in Nat /\ ticketer \in Nat

TicketType ==
    /\ tk_life \in [Tickets -> {"unborn", "live", "freed"}]
    /\ tk_unique \in [Tickets -> Nat]
    /\ tk_flag \in [Tickets -> SUBSET Flags]
    /\ tk_age \in [Tickets -> Nat]
    /\ tk_aw_handler \in [Tickets -> Handlers]
    /\ tk_aw_errno \in [Tickets -> {"0", "EINVAL", "ENOTCONN"}]
    /\ tk_aw_ohead \in [Tickets -> Replies]

CallerType ==
    /\ pc \in [Requesters -> RequesterPCs]
    /\ op \in [Requesters -> AllOps \union {"init"}]
    /\ tick \in [Requesters -> TicketOrNone]
    /\ intr \in [Requesters -> BOOLEAN]
    /\ itick \in [Requesters -> TicketOrNone]
    /\ err \in [Requesters -> Errors]
    /\ age \in [Requesters -> Nat]

DaemonType ==
    /\ spc \in [Servers -> ServerPCs]
    /\ stick \in [Servers -> TicketOrNone]
    /\ sreply \in [Servers -> Replies]
    /\ inbox \subseteq [unique : Nat, req : Requests]

\* Where a thread dereferences its ticket pointer.
CallerDerefs(r) ==
    /\ pc[r] \notin {"idle", "fetch", "initsync"} => Current(r) \in Tickets
    /\ intr[r] => /\ tick[r] \in Tickets
                  /\ pc[r] \in {"fetch", "alloc", "insert_msg", "push_ms"}
ServerDerefs(s) ==
    spc[s] \in {"popped", "finish", "handler", "answer", "drop", "push"}
        => stick[s] \in Tickets

\* Types of the session, the tickets and the threads.  A ticket pointer that
\* a step dereferences is never null.
TypeOK ==
    /\ BitType /\ SessionType /\ QueueType /\ TicketType /\ CallerType /\ DaemonType
    /\ \A r \in Requesters : CallerDerefs(r)
    /\ \A s \in Servers : ServerDerefs(s)

\* Who works with a ticket.  A caller at "abandon" has given its ticket up:
\* it still compares the pointer with those on aw_head.
CallerRefs(r) ==
    (IF pc[r] = "abandon" THEN {} ELSE {tick[r], itick[r]}) \ {NoTicket}
Referenced == ToSet(ms) \union ToSet(aw)
    \union (UNION {CallerRefs(r) : r \in Requesters})
    \union ({stick[s] : s \in Servers} \ {NoTicket})

\* As long as the session lives, fuse_ticket_drop has put a ticket back at
\* most once: no free or destroyed ticket is still in use, no two calls work
\* with the same ticket, and the free list agrees with its counter.
TicketsHaveOneOwner == ~dead =>
    /\ ToSet(free) \intersect Referenced = {}
    /\ \A t \in Referenced \union ToSet(free) : tk_life[t] = "live"
    /\ \A r, q \in Requesters :
          r # q => CallerRefs(r) \intersect CallerRefs(q) = {}
    /\ IsInjective(free) /\ ~free_loop /\ freeticket_counter = Len(free)

\* fuse_ms_push and fuse_aw_push never link a ticket that is linked already,
\* not even after the session has died.
QueuedOnce == IsInjective(ms) /\ IsInjective(aw)

\* While the session lives, a call that fdisp_wait_answ ends with success has
\* the daemon's answer to its own request, not to an earlier user's of the
\* ticket.
AnswerIsMine == \A r \in Requesters :
    ~dead /\ pc[r] = "have" => tk_aw_ohead[tick[r]].req = Request(tick[r])

\* While the session lives, a caller asleep in fticket_wait_answer will be
\* woken by the reply: its ticket awaits it with the standard handler, or a
\* daemon thread is on its way to fuse_standard_handler with it.
SleeperHasWaker == \A r \in Requesters :
    ~dead /\ pc[r] = "asleep" =>
        /\ tk_aw_handler[tick[r]] = "standard"
        /\ ~fticket_answered(tick[r])
        /\ \/ tick[r] \in ToSet(aw)
           \/ \E s \in Servers :
                 spc[s] \in {"handler", "answer"} /\ stick[s] = tick[r]

\* No wakeup_one is lost: while the session lives and a message waits on
\* ms_head, not every daemon thread sleeps in fuse_device_read.
NoStrandedMessage ==
    ~dead /\ ms # <<>> => \E s \in Servers : spc[s] # "asleep"

\* While the session lives, every ticket in existence is free, held by a call,
\* queued or in the hands of a daemon thread: an abandoned one is not lost.
NoTicketLost == ~dead =>
    \A t \in Tickets : tk_life[t] = "live" => t \in ToSet(free) \union Referenced

\* The request whose answer a caller has sent for: from fuse_ms_push until it
\* gives the ticket up, drops it or uses it again.
Awaits(r) ==
    IF /\ op[r] \in {"call", "init"}
       /\ intr[r] \/ pc[r] \in {"wait", "asleep", "woken", "eject", "waited",
                               "have", "drop", "push"}
    THEN Request(tick[r]) ELSE <<NoTicket, 0>>

\* Requests on ms_head, or taken off it and not yet copied out to the daemon.
Unread ==
    LET taken == {s \in Servers : spc[s] \in {"popped", "finish"}}
        there == ToSet(ms) \union {stick[s] : s \in taken}
    IN  {Request(t) : t \in {u \in there : "INVAL" \notin tk_flag[u]}}

Calls == INSTANCE RemoteCall WITH
    Callers <- Requesters, None <- <<NoTicket, 0>>,
    wait <- [r \in Requesters |-> Awaits(r)],
    answered <- {r \in Requesters :
                   Awaits(r) # <<NoTicket, 0>> /\ fticket_answered(tick[r])},
    pending <- Unread,
    reading <- {m.req : m \in inbox},
    replies <- {sreply[s].req : s \in
                   {u \in Servers : spc[u] \in {"handler", "answer"}}},
    over <- dead

\* While the session lives, the channel with its recycled tickets, its two
\* queues and its interrupted callers implements RemoteCall: no request is read
\* twice, no answer goes astray, and one is thrown away only when its caller
\* has left.
ImplementsRemoteCall == Calls!Spec

\* The panic of fuse_insert_message, "ticket reused without being refreshed",
\* never strikes.
NeverReusedUnrefreshed == panic # "not_refreshed"

\* With a daemon timeout every call comes back, whatever the daemon does.
CallsReturn == \A r \in Requesters : pc[r] = "fetch" ~> pc[r] = "idle"

\* Even without one, fuse_device_close releases every call, those included
\* that queue their ticket or go to sleep while the device is closing.
CloseReleasesCalls == \A r \in Requesters :
    (closed /\ pc[r] # "idle") ~> pc[r] = "idle"
=============================================================================
