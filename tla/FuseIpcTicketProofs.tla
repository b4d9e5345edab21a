------------------------ MODULE FuseIpcTicketProofs ------------------------
(***************************************************************************)
(* Proofs about the tickets of FuseIpc, for any number of callers, daemon  *)
(* threads and tickets: who has a ticket, where it is linked, and whose    *)
(* answer it carries, from its allocation to its return to the free list.  *)
(***************************************************************************)
EXTENDS FuseIpcProofs

\* A caller has a ticket in hand; at "abandon" it has given it up.
Holds(r, t) == pc[r] # "abandon" /\ tick[r] = t
Held(t) == \E r \in Requesters : Holds(r, t)
\* It is the ticket of somebody's INTERRUPT.
Interrupts(t) == \E r \in Requesters : itick[r] = t
\* A daemon thread has it.
InHand(t) == \E s \in Servers : stick[s] = t

\* The caller has a ticket of its own and has not sent it: nothing is on it
\* yet, or its handler, and then its flags, are.
Filling(r) == ~intr[r] /\ pc[r] \in {"alloc", "insert_cb", "push_aw"}
Sending(r) == ~intr[r] /\ pc[r] \in {"insert_msg", "push_ms"}
\* The caller's message is out, and its answer is not yet taken.
Waiting(r) == intr[r] \/ pc[r] \in {"wait", "asleep", "woken", "eject", "waited"}
\* The caller has its answer.
Done(r) == pc[r] \in {"have", "drop", "push"}
Wanted == {"call", "init"}

\* The session ends once.
EndInv == /\ drain # "off" \/ closed => dead
          /\ \A s \in Servers : spc[s] = "gone" => dead

\* Which threads have a ticket, and what they do with it.
PtrInv ==
    /\ \A r \in Requesters :
          /\ tick[r] = NoTicket <=> \/ pc[r] \in {"idle", "initsync"}
                                    \/ pc[r] = "fetch" /\ ~intr[r]
          /\ itick[r] = NoTicket <=> ~intr[r] \/ pc[r] = "fetch"
          /\ intr[r] => pc[r] \in {"fetch", "alloc", "insert_msg", "push_ms"}
          /\ Waiting(r) \/ Done(r) \/ pc[r] = "abandon" => op[r] \in Wanted
          /\ pc[r] \in {"insert_cb", "push_aw"} => op[r] # "forget"
    /\ \A s \in Servers :
          stick[s] = NoTicket <=> spc[s] \in {"user", "asleep", "woken", "gone"}

\* No queue has a ticket twice, and nobody is about to change that.
QueueInv ==
    /\ QueuedOnce
    /\ \A r \in Requesters :
          /\ pc[r] = "push_aw" => tick[r] \notin ToSet(aw)
          /\ pc[r] = "push_ms" => Current(r) \notin ToSet(ms)
    /\ \A r, q \in Requesters : r # q /\ pc[r] = pc[q] =>
          /\ pc[r] = "push_aw" => tick[r] # tick[q]
          /\ pc[r] = "push_ms" => Current(r) # Current(q)

\* No flag is set that a fresh ticket must not have.
Clean(t) == tk_flag[t] \intersect {"ANSW", "INVAL", "DIRTY"} = {}

\* The free list.
FreeInv ==
    /\ IsInjective(free) /\ ~free_loop /\ freeticket_counter = Len(free)
    /\ \A t \in ToSet(free) :
          /\ tk_life[t] = "live" /\ Clean(t)
          /\ t \notin ToSet(ms) /\ t \notin ToSet(aw)
          /\ ~Held(t) /\ ~Interrupts(t) /\ ~InHand(t)

\* Whatever is used is allocated.
LiveInv == \A t \in Tickets :
    /\ t \in ToSet(ms) \union ToSet(aw) => tk_life[t] = "live"
    /\ Held(t) \/ Interrupts(t) \/ InHand(t) => tk_life[t] = "live"
    /\ tk_life[t] = "unborn" => Clean(t)

\* No two threads of a kind have the same ticket.
OwnInv == \A t \in Tickets :
    /\ \A r, q \in Requesters :
          /\ Holds(r, t) /\ Holds(q, t) => r = q
          /\ itick[r] = t /\ itick[q] = t => r = q
    /\ ~(Held(t) /\ Interrupts(t))
    /\ \A s, z \in Servers : stick[s] = t /\ stick[z] = t => s = z

\* A ticket whose message is not out yet.
Fresh(r, t) ==
    /\ tick[r] = t /\ Filling(r) =>
          /\ Clean(t) /\ ~InHand(t)
          /\ t \notin ToSet(ms) /\ t \notin ToSet(aw)
    /\ tick[r] = t /\ pc[r] = "push_aw" => tk_aw_handler[t] = HandlerOf(op[r])
    /\ tick[r] = t /\ Sending(r) =>
          /\ t \notin ToSet(ms) /\ ~InHand(t) /\ ~fticket_answered(t)
          /\ "DIRTY" \in tk_flag[t] <=> pc[r] = "push_ms"
          /\ "INVAL" \in tk_flag[t] <=> op[r] = "forget"
          /\ t \in ToSet(aw) <=> op[r] # "forget"
          /\ op[r] # "forget" => tk_aw_handler[t] = HandlerOf(op[r])
    /\ itick[r] = t =>
          /\ t \notin ToSet(ms) /\ t \notin ToSet(aw) /\ ~InHand(t)
          /\ ~fticket_answered(t)
          /\ "DIRTY" \in tk_flag[t] <=> pc[r] = "push_ms"
          /\ "INVAL" \in tk_flag[t] <=> pc[r] # "alloc"
FreshInv == \A r \in Requesters, t \in Tickets : Fresh(r, t)

\* The ticket has its own answer, and nobody else has anything to do with it.
Answered(t) ==
    /\ t \notin ToSet(ms) /\ t \notin ToSet(aw) /\ ~InHand(t)
    /\ tk_aw_ohead[t].req = Request(t)
\* The answer, when it comes, will find the ticket.
Answerable(t) ==
    \/ t \in ToSet(aw)
    \/ \E s \in Servers : spc[s] \in {"handler", "answer"} /\ stick[s] = t

\* A ticket that awaits its answer, or has it.
Sent(r, t) == tick[r] = t =>
    /\ Waiting(r) \/ Done(r) =>
          /\ "DIRTY" \in tk_flag[t] /\ "INVAL" \notin tk_flag[t]
          /\ tk_aw_handler[t] = "standard"
          /\ fticket_answered(t) => Answered(t)
          /\ ~fticket_answered(t) => Answerable(t)
    /\ pc[r] = "woken" \/ Done(r) => fticket_answered(t)
    /\ pc[r] = "waited" /\ err[r] = "0" => fticket_answered(t)
    /\ pc[r] = "asleep" => ~fticket_answered(t)
SentInv == \A r \in Requesters, t \in Tickets : Sent(r, t)

\* A message on its way to the daemon: one that wants no answer is nobody's.
Outgoing(t) ==
    /\ "DIRTY" \in tk_flag[t]
    /\ "INVAL" \in tk_flag[t] => t \notin ToSet(aw) /\ ~Held(t) /\ ~Interrupts(t)
    /\ "INVAL" \notin tk_flag[t] => t \in ToSet(aw)
MsInv == \A t \in ToSet(ms) : ~InHand(t) /\ Outgoing(t)

\* A ticket that waits for a reply.  It has lost its caller if the caller says
\* so, and only then, unless the caller never meant to wait.
AwInv == \A t \in ToSet(aw) :
    /\ "INVAL" \notin tk_flag[t] /\ ~Interrupts(t)
    /\ fticket_answered(t) => ~Held(t)
    /\ tk_aw_handler[t] = "standard" /\ ~fticket_answered(t) => Held(t)
    /\ tk_aw_handler[t] # "standard" =>
          \A r \in Requesters : Holds(r, t) => Sending(r)

\* The tickets in the hands of the daemon's threads.
Hand(s, t) == stick[s] = t =>
    /\ t \notin ToSet(ms)
    /\ spc[s] \in {"popped", "finish"} => Outgoing(t)
    /\ spc[s] \in {"handler", "answer", "drop", "push"} =>
          t \notin ToSet(aw) /\ ~Interrupts(t)
    /\ spc[s] \in {"handler", "answer"} =>
          /\ "INVAL" \notin tk_flag[t]
          /\ fticket_answered(t) => ~Held(t)
    /\ spc[s] = "handler" =>
          /\ sreply[s].req = Request(t)
          /\ tk_aw_handler[t] = "standard" /\ ~fticket_answered(t) => Held(t)
          /\ tk_aw_handler[t] # "standard" => ~Held(t)
    /\ spc[s] = "answer" =>
          /\ tk_aw_ohead[t].req = Request(t)
          /\ ~fticket_answered(t) => Held(t)
    /\ spc[s] \in {"drop", "push"} => ~Held(t)
HandInv == \A s \in Servers, t \in Tickets : Hand(s, t)

\* The daemon has read the message of ticket t and can answer it.
Read(m, t) ==
    /\ tk_unique[t] = m.unique /\ m.req = Request(t)
    /\ t \notin ToSet(ms) /\ ~InHand(t)
    /\ \A r \in Requesters : Holds(r, t) => Waiting(r)
InboxInv == \A m \in inbox : \E t \in ToSet(aw) : Read(m, t)

\* The ticketer numbers every ticket once.
Numbering == \E r \in Requesters : pc[r] = "alloc"
UniqueInv ==
    /\ \A r, q \in Requesters : pc[r] = "alloc" /\ pc[q] = "alloc" => r = q
    /\ \A r \in Requesters : pc[r] = "alloc" => tk_unique[Current(r)] = ticketer
    /\ \A t \in Tickets : tk_life[t] = "live" =>
          /\ tk_unique[t] <= ticketer
          /\ tk_unique[t] = ticketer => Numbering
    /\ \A t, u \in Tickets :
          tk_life[t] = "live" /\ tk_life[u] = "live" /\ tk_unique[t] = tk_unique[u]
              => t = u

\* A ticket that has been abandoned is older when somebody else gets it.
AgeInv == \A r \in Requesters, t \in Tickets : pc[r] = "abandon" /\ tick[r] = t =>
    /\ tk_life[t] # "unborn" /\ age[r] <= tk_age[t]
    /\ age[r] = tk_age[t] => ~Held(t) /\ ~Interrupts(t) /\ t \notin ToSet(free)

\* All of this as long as the session lives.
Alive == /\ FreeInv /\ LiveInv /\ OwnInv /\ FreshInv /\ SentInv /\ MsInv
         /\ AwInv /\ HandInv /\ InboxInv /\ UniqueInv /\ AgeInv

\* The inductive invariant.
IInv == TypeOK /\ EndInv /\ PtrInv /\ QueueInv /\ (~dead => Alive)

-----------------------------------------------------------------------------
\* A queue with one more ticket.
LEMMA AppendSet ==
    ASSUME NEW S, NEW q \in Seq(S), NEW x \in S
    PROVE  /\ ToSet(Append(q, x)) = ToSet(q) \union {x}
           /\ IsInjective(q) /\ x \notin ToSet(q) => IsInjective(Append(q, x))
<1>1. /\ Len(Append(q, x)) = Len(q) + 1 /\ DOMAIN Append(q, x) = 1 .. Len(q) + 1
      /\ \A i \in 1 .. Len(q) : Append(q, x)[i] = q[i]
      /\ Append(q, x)[Len(q) + 1] = x /\ DOMAIN q = 1 .. Len(q) /\ Len(q) \in Nat
  BY AppendProperties
<1>2. ToSet(Append(q, x)) = ToSet(q) \union {x}
  BY <1>1 DEF ToSet
<1>3. ASSUME IsInjective(q), x \notin ToSet(q) PROVE IsInjective(Append(q, x))
  BY <1>1, <1>3 DEF ToSet, IsInjective
<1>. QED BY <1>2, <1>3

\* A queue without its first ticket.
LEMMA TailSet ==
    ASSUME NEW S, NEW q \in Seq(S), q # <<>>, IsInjective(q)
    PROVE  /\ Head(q) \in ToSet(q) /\ ToSet(Tail(q)) = ToSet(q) \ {Head(q)}
           /\ IsInjective(Tail(q)) /\ Len(Tail(q)) = Len(q) - 1
<1>1. /\ Len(q) \in Nat /\ Len(q) > 0 /\ DOMAIN q = 1 .. Len(q) /\ Head(q) = q[1]
      /\ Len(Tail(q)) = Len(q) - 1 /\ DOMAIN Tail(q) = 1 .. Len(q) - 1
      /\ \A i \in 1 .. Len(q) - 1 : Tail(q)[i] = q[i + 1]
  BY HeadTailProperties, EmptySeq
<1>2. Head(q) \in ToSet(q)
  BY <1>1 DEF ToSet
<1>3. IsInjective(Tail(q))
  BY <1>1 DEF IsInjective
<1>4. ASSUME NEW y PROVE y \in ToSet(Tail(q)) <=> y \in ToSet(q) \ {Head(q)}
  <2>1. ASSUME y \in ToSet(Tail(q)) PROVE y \in ToSet(q) \ {Head(q)}
    <3>1. PICK i \in 1 .. Len(q) - 1 : y = q[i + 1] BY <1>1, <2>1 DEF ToSet
    <3>. QED BY <1>1, <3>1 DEF ToSet, IsInjective
  <2>2. ASSUME y \in ToSet(q), y # Head(q) PROVE y \in ToSet(Tail(q))
    <3>1. PICK i \in 1 .. Len(q) : y = q[i] BY <1>1, <2>2 DEF ToSet
    <3>2. i # 1 /\ i - 1 \in 1 .. Len(q) - 1 /\ q[(i - 1) + 1] = y BY <1>1, <2>2, <3>1
    <3>3. Tail(q)[i - 1] = y BY <1>1, <3>2
    <3>. QED BY <1>1, <3>2, <3>3 DEF ToSet
  <2>. QED BY <2>1, <2>2
<1>. QED BY <1>1, <1>2, <1>3, <1>4

\* A queue from which one ticket is taken.
LEMMA RemoveAtSet ==
    ASSUME NEW S, NEW q \in Seq(S), NEW i \in DOMAIN q, IsInjective(q)
    PROVE  /\ q[i] \in ToSet(q) /\ ToSet(RemoveAt(q, i)) = ToSet(q) \ {q[i]}
           /\ IsInjective(RemoveAt(q, i))
<1>1. i \in 1 .. Len(q) /\ Len(q) \in Nat /\ DOMAIN q = 1 .. Len(q)
  OBVIOUS
<1>. DEFINE a == SubSeq(q, 1, i - 1)
            b == SubSeq(q, i + 1, Len(q))
            c == RemoveAt(q, i)
<1>2. /\ a \in Seq(S) /\ Len(a) = i - 1 /\ \A k \in 1 .. i - 1 : a[k] = q[k]
      /\ b \in Seq(S) /\ Len(b) = Len(q) - i
      /\ \A k \in 1 .. Len(q) - i : b[k] = q[i + k]
  <2>1. 1 \in 1 .. Len(q) + 1 /\ i - 1 \in 1 - 1 .. Len(q)
        /\ i + 1 \in 1 .. Len(q) + 1 /\ Len(q) \in (i + 1) - 1 .. Len(q)
    BY <1>1
  <2>2. a \in Seq(S) /\ Len(a) = i - 1 /\ \A k \in 1 .. i - 1 : a[k] = q[1 + k - 1]
    BY <1>1, <2>1, SubSeqProperties
  <2>3. /\ b \in Seq(S) /\ Len(b) = Len(q) - (i + 1) + 1
        /\ \A k \in 1 .. Len(q) - (i + 1) + 1 : b[k] = q[i + 1 + k - 1]
    BY <1>1, <2>1, SubSeqProperties
  <2>5. Len(q) - (i + 1) + 1 = Len(q) - i BY <1>1
  <2>6. \A k \in 1 .. Len(q) - i : b[k] = q[i + k]
    <3>. TAKE k \in 1 .. Len(q) - i
    <3>1. i + 1 + k - 1 = i + k BY <1>1
    <3>. QED BY <2>3, <2>5, <3>1
  <2>7. \A k \in 1 .. i - 1 : a[k] = q[k]
    <3>. TAKE k \in 1 .. i - 1
    <3>1. 1 + k - 1 = k BY <1>1
    <3>. QED BY <2>2, <3>1
  <2>. QED BY <2>2, <2>3, <2>5, <2>6, <2>7
<1>. HIDE DEF a, b
<1>3. c = a \o b
  BY DEF RemoveAt, a, b
<1>4. /\ DOMAIN c = 1 .. Len(q) - 1
      /\ \A k \in 1 .. Len(q) - 1 : c[k] = IF k < i THEN q[k] ELSE q[k + 1]
  <2>1. /\ Len(c) = Len(q) - 1 /\ c \in Seq(S)
        /\ \A k \in 1 .. Len(q) - 1 : c[k] = IF k <= i - 1 THEN a[k] ELSE b[k - (i - 1)]
    <3>1. /\ c \in Seq(S) /\ Len(c) = Len(a) + Len(b)
          /\ \A k \in 1 .. Len(a) + Len(b) :
                c[k] = IF k <= Len(a) THEN a[k] ELSE b[k - Len(a)]
      BY <1>2, <1>3, ConcatProperties
    <3>2. Len(a) = i - 1 /\ Len(a) + Len(b) = Len(q) - 1 BY <1>1, <1>2
    <3>. QED BY <3>1, <3>2
  <2>2. \A k \in 1 .. Len(q) - 1 : k >= i => b[k - (i - 1)] = q[k + 1]
    <3>. TAKE k \in 1 .. Len(q) - 1
    <3>. HAVE k >= i
    <3>1. k - (i - 1) \in 1 .. Len(q) - i BY <1>1
    <3>2. b[k - (i - 1)] = q[i + (k - (i - 1))] BY <1>2, <3>1
    <3>. QED BY <1>1, <3>2
  <2>. QED BY <1>1, <1>2, <2>1, <2>2
<1>. HIDE DEF c
<1>5. IsInjective(c)
  <2>. SUFFICES ASSUME NEW k \in 1 .. Len(q) - 1, NEW l \in 1 .. Len(q) - 1, c[k] = c[l]
                PROVE  k = l
    BY <1>4 DEF IsInjective
  <2>. DEFINE f(n) == IF n < i THEN n ELSE n + 1
  <2>1. f(k) \in 1 .. Len(q) /\ f(l) \in 1 .. Len(q) /\ (f(k) = f(l) => k = l) BY <1>1
  <2>2. c[k] = q[f(k)] /\ c[l] = q[f(l)] BY <1>4
  <2>. HIDE DEF f
  <2>. QED BY <1>1, <2>1, <2>2 DEF IsInjective
<1>6. ASSUME NEW y PROVE y \in ToSet(c) <=> y \in ToSet(q) \ {q[i]}
  <2>1. ASSUME y \in ToSet(c) PROVE y \in ToSet(q) \ {q[i]}
    <3>1. PICK k \in 1 .. Len(q) - 1 : y = c[k] BY <1>4, <2>1 DEF ToSet
    <3>. QED BY <1>1, <1>4, <3>1 DEF ToSet, IsInjective
  <2>2. ASSUME y \in ToSet(q), y # q[i] PROVE y \in ToSet(c)
    <3>1. PICK k \in 1 .. Len(q) : y = q[k] BY <1>1, <2>2 DEF ToSet
    <3>2. CASE k < i
      <4>1. k \in 1 .. Len(q) - 1 /\ c[k] = y BY <1>1, <1>4, <3>1, <3>2
      <4>. QED BY <1>4, <4>1 DEF ToSet
    <3>3. CASE k > i
      <4>1. k - 1 \in 1 .. Len(q) - 1 /\ ~(k - 1 < i) /\ (k - 1) + 1 = k BY <1>1, <3>1, <3>3
      <4>2. c[k - 1] = y BY <1>4, <3>1, <4>1
      <4>. QED BY <1>4, <4>1, <4>2 DEF ToSet
    <3>. QED BY <1>1, <2>2, <3>1, <3>2, <3>3
  <2>. QED BY <2>1, <2>2
<1>. QED BY <1>1, <1>5, <1>6 DEF c, ToSet


\* The null pointer points to no ticket.
LEMMA NullIsNoTicket == NoTicket \notin Tickets
  BY Zenon, IpcAssumption

\* The queues hold tickets.
LEMMA QueuesHoldTickets ==
    ASSUME TypeOK
    PROVE  ToSet(ms) \subseteq Tickets /\ ToSet(aw) \subseteq Tickets
           /\ ToSet(free) \subseteq Tickets
<1>1. ms \in Seq(Tickets) /\ aw \in Seq(Tickets) /\ free \in Seq(Tickets)
  BY DEF TypeOK, QueueType
<1>. QED BY <1>1 DEF ToSet

-----------------------------------------------------------------------------
\* A step leaves a caller, a daemon thread or a ticket as it is.
CallerStays(q) ==
    /\ pc'[q] = pc[q] /\ op'[q] = op[q] /\ tick'[q] = tick[q] /\ itick'[q] = itick[q]
    /\ intr'[q] <=> intr[q]
    /\ err'[q] = err[q] /\ age'[q] = age[q]
ServerStays(s) ==
    spc'[s] = spc[s] /\ stick'[s] = stick[s] /\ sreply'[s] = sreply[s]
TicketStays(t) ==
    /\ tk_life'[t] = tk_life[t] /\ tk_unique'[t] = tk_unique[t] /\ tk_flag'[t] = tk_flag[t]
    /\ tk_age'[t] = tk_age[t] /\ tk_aw_handler'[t] = tk_aw_handler[t]
    /\ tk_aw_ohead'[t] = tk_aw_ohead[t]

\* The steps in which a caller works on a ticket it has not sent, or has given
\* up.
Unsent == {"alloc", "insert_cb", "push_aw", "insert_msg", "push_ms", "abandon"}

\* What a ticket's flags and fields say of it.
LEMMA TicketSays ==
    ASSUME NEW t \in Tickets, TicketStays(t)
    PROVE  /\ Clean(t)' <=> Clean(t)
           /\ fticket_answered(t)' <=> fticket_answered(t)
           /\ Request(t)' = Request(t)
  BY DEF TicketStays, Clean, fticket_answered, Request

\* A caller that is not working on its ticket goes from one point to another:
\* nothing changes for anybody else.
LEMMA CallerMoves ==
    ASSUME TypeOK, Alive, NEW r \in Requesters,
           \A q \in Requesters : q # r => CallerStays(q),
           UNCHANGED <<queues, pool, tk_flag, tk_age, tk_aw_handler, answers, daemon>>,
           tick' = tick, itick' = itick, itick[r] = NoTicket,
           pc[r] \notin Unsent, pc'[r] \notin Unsent,
           Waiting(r)' => Waiting(r), Done(r)' => Waiting(r) \/ Done(r),
           Waiting(r) => Waiting(r)' \/ Done(r)',
           \A t \in Tickets : tick[r] = t =>
              /\ pc'[r] = "woken" \/ Done(r)' => fticket_answered(t)
              /\ pc'[r] = "waited" /\ err'[r] = "0" => fticket_answered(t)
              /\ pc'[r] = "asleep" => ~fticket_answered(t)
    PROVE  Alive'
<1>. USE NullIsNoTicket, QueuesHoldTickets DEF queues, pool, answers, daemon
<1>1. \A t \in Tickets : TicketStays(t)
  BY DEF TicketStays
<1>2. \A t \in Tickets : /\ Clean(t)' <=> Clean(t)
                         /\ fticket_answered(t)' <=> fticket_answered(t)
                         /\ Request(t)' = Request(t)
  BY <1>1, TicketSays
<1>3. \A q \in Requesters, t \in Tickets : Holds(q, t)' <=> Holds(q, t)
  BY DEF Holds, CallerStays, Unsent
<1>4. \A t \in Tickets : /\ Held(t)' <=> Held(t)
                         /\ Interrupts(t)' <=> Interrupts(t)
                         /\ InHand(t)' <=> InHand(t)
  BY <1>3 DEF Held, Interrupts, InHand
<1>5. \A t \in Tickets : /\ Answered(t)' <=> Answered(t)
                         /\ Answerable(t)' <=> Answerable(t)
                         /\ Outgoing(t)' <=> Outgoing(t)
  BY <1>2, <1>4 DEF Answered, Answerable, Outgoing
<1>6. \A q \in Requesters : q # r => /\ Filling(q)' <=> Filling(q)
                                     /\ Sending(q)' <=> Sending(q)
                                     /\ Waiting(q)' <=> Waiting(q)
                                     /\ Done(q)' <=> Done(q)
  BY DEF CallerStays, Filling, Sending, Waiting, Done
<1>7. ~Filling(r) /\ ~Sending(r) /\ ~Filling(r)' /\ ~Sending(r)'
  BY DEF Filling, Sending, Unsent
<1>8. FreeInv'
  BY <1>2, <1>4 DEF Alive, FreeInv
<1>9. LiveInv'
  BY <1>2, <1>4 DEF Alive, LiveInv
<1>10. OwnInv'
  BY <1>3, <1>4 DEF Alive, OwnInv
<1>11. FreshInv'
  BY <1>2, <1>4, <1>6, <1>7 DEF Alive, FreshInv, Fresh, CallerStays, Unsent
<1>12. SentInv'
  <2>. SUFFICES ASSUME NEW q \in Requesters, NEW t \in Tickets PROVE Sent(q, t)'
    BY DEF SentInv
  <2>. Sent(q, t)
    BY DEF Alive, SentInv
  <2>1. CASE q = r
    BY <1>2, <1>5, <2>1 DEF Sent
  <2>2. CASE q # r
    BY <1>2, <1>5, <1>6, <2>2 DEF Sent, CallerStays
  <2>. QED BY <2>1, <2>2
<1>13. MsInv'
  BY <1>4, <1>5 DEF Alive, MsInv
<1>14. AwInv'
  BY <1>2, <1>3, <1>4, <1>6, <1>7 DEF Alive, AwInv
<1>15. HandInv'
  BY <1>2, <1>4, <1>5 DEF Alive, HandInv, Hand
<1>16. InboxInv'
  <2>. SUFFICES ASSUME NEW m \in inbox PROVE \E t \in ToSet(aw) : Read(m, t)'
    BY DEF InboxInv
  <2>1. PICK t \in ToSet(aw) : Read(m, t)
    BY DEF Alive, InboxInv
  <2>2. ASSUME Holds(r, t) PROVE Waiting(r)'
    <3>1. t \in Tickets /\ tick[r] = t /\ Waiting(r)
      BY <2>1, <2>2 DEF Read, Holds
    <3>2. ~(fticket_answered(t) /\ Answered(t))
      BY <2>1 DEF Answered
    <3>3. fticket_answered(t) => Answered(t)
      BY <3>1 DEF Alive, SentInv, Sent
    <3>. QED BY <3>1, <3>2, <3>3
  <2>. QED BY <2>1, <2>2, <1>2, <1>3, <1>4, <1>6 DEF Read
<1>17. UniqueInv'
  <2>1. Numbering' <=> Numbering
    BY DEF Numbering, CallerStays, Unsent
  <2>2. \A q \in Requesters : /\ pc[q] = "alloc" <=> pc'[q] = "alloc"
                              /\ pc[q] = "alloc" => Current(q)' = Current(q)
    BY DEF CallerStays, Unsent, Current
  <2>. QED BY <2>1, <2>2 DEF Alive, UniqueInv
<1>18. AgeInv'
  BY <1>4 DEF Alive, AgeInv, CallerStays, Unsent
<1>. QED
  BY <1>8, <1>9, <1>10, <1>11, <1>12, <1>13, <1>14, <1>15, <1>16, <1>17, <1>18 DEF Alive

\* A daemon thread goes from one point to another with the ticket it has, or
\* with none.
LEMMA ServerMoves ==
    ASSUME TypeOK, Alive, NEW s \in Servers,
           \A z \in Servers : z # s => ServerStays(z),
           UNCHANGED <<queues, pool, tk_flag, tk_age, tk_aw_handler, answers, callers, inbox>>,
           stick' = stick,
           \/ stick[s] = NoTicket
           \/ spc[s] = "popped" /\ spc'[s] = "finish"
           \/ spc[s] = "drop" /\ spc'[s] = "push"
           \/ spc[s] = "finish" /\ spc'[s] = "drop" /\ "INVAL" \in tk_flag[stick[s]]
           \/ spc[s] = "answer" /\ spc'[s] = "drop" /\ "ANSW" \in tk_flag[stick[s]]
    PROVE  Alive'
<1>. USE NullIsNoTicket, QueuesHoldTickets DEF queues, pool, answers, callers
<1>1. \A t \in Tickets : /\ Clean(t)' <=> Clean(t)
                         /\ fticket_answered(t)' <=> fticket_answered(t)
                         /\ Request(t)' = Request(t)
  BY DEF Clean, fticket_answered, Request
<1>2. \A q \in Requesters, t \in Tickets : Holds(q, t)' <=> Holds(q, t)
  BY DEF Holds
<1>3. \A t \in Tickets : /\ Held(t)' <=> Held(t)
                         /\ Interrupts(t)' <=> Interrupts(t)
                         /\ InHand(t)' <=> InHand(t)
  BY <1>2 DEF Held, Interrupts, InHand
<1>4. \A t \in Tickets : /\ Answered(t)' <=> Answered(t)
                         /\ Outgoing(t)' <=> Outgoing(t)
                         /\ Answerable(t) /\ ~fticket_answered(t) => Answerable(t)'
  BY <1>1, <1>3 DEF Answered, Answerable, Outgoing, ServerStays, fticket_answered
<1>5. \A q \in Requesters : /\ Filling(q)' <=> Filling(q)
                            /\ Sending(q)' <=> Sending(q)
                            /\ Waiting(q)' <=> Waiting(q)
                            /\ Done(q)' <=> Done(q)
  BY DEF Filling, Sending, Waiting, Done
<1>6. FreeInv' /\ LiveInv'
  BY <1>1, <1>3 DEF Alive, FreeInv, LiveInv
<1>7. OwnInv'
  BY <1>2, <1>3 DEF Alive, OwnInv
<1>8. FreshInv'
  BY <1>1, <1>3, <1>5 DEF Alive, FreshInv, Fresh
<1>9. SentInv'
  BY <1>1, <1>4, <1>5 DEF Alive, SentInv, Sent
<1>10. MsInv'
  BY <1>3, <1>4 DEF Alive, MsInv
<1>11. AwInv'
  BY <1>1, <1>2, <1>3, <1>5 DEF Alive, AwInv
<1>12. HandInv'
  <2>. SUFFICES ASSUME NEW z \in Servers, NEW t \in Tickets PROVE Hand(z, t)'
    BY DEF HandInv
  <2>. Hand(z, t)
    BY DEF Alive, HandInv
  <2>1. CASE z # s
    BY <1>1, <1>3, <1>4, <2>1 DEF Hand, ServerStays
  <2>2. CASE z = s
    BY <1>1, <1>3, <1>4, <2>2 DEF Hand, Outgoing, fticket_answered
  <2>. QED BY <2>1, <2>2
<1>13. InboxInv'
  <2>. SUFFICES ASSUME NEW m \in inbox PROVE \E t \in ToSet(aw) : Read(m, t)'
    BY DEF InboxInv
  <2>1. PICK t \in ToSet(aw) : Read(m, t)
    BY DEF Alive, InboxInv
  <2>. QED BY <2>1, <1>1, <1>2, <1>3, <1>5 DEF Read
<1>14. UniqueInv'
  BY DEF Alive, UniqueInv, Numbering, Current
<1>15. AgeInv'
  BY <1>3 DEF Alive, AgeInv
<1>. QED
  BY <1>6, <1>7, <1>8, <1>9, <1>10, <1>11, <1>12, <1>13, <1>14, <1>15 DEF Alive

\* A caller that needs a ticket gets one that nobody has.
LEMMA CallerGets ==
    ASSUME TypeOK, PtrInv, Alive, NEW r \in Requesters, NEW t \in Tickets,
           \A q \in Requesters : q # r => CallerStays(q),
           \A u \in Tickets : u # t => TicketStays(u),
           UNCHANGED <<queues, daemon, op, intr, err, age>>,
           pc[r] = "fetch", t \notin ToSet(ms), t \notin ToSet(aw),
           ~Held(t), ~Interrupts(t), ~InHand(t),
           \A q \in Requesters : pc[q] = "abandon" /\ tick[q] = t =>
              age[q] <= tk_age[t] /\ age[q] # tk_age[t] /\ tk_life[t] # "unborn",
           intr[r] => itick'[r] = t /\ tick'[r] = tick[r] /\ pc'[r] \in {"alloc", "insert_msg"},
           ~intr[r] => /\ tick'[r] = t /\ itick'[r] = itick[r]
                       /\ pc'[r] \in {"alloc", "insert_cb", "insert_msg"}
                       /\ pc'[r] = "insert_msg" <=> op[r] = "forget" /\ pc'[r] # "alloc",
           ~fticket_answered(t)', "DIRTY" \notin tk_flag'[t],
           "INVAL" \in tk_flag'[t] <=> pc'[r] = "insert_msg",
           tk_life'[t] = "live", tk_age'[t] = tk_age[t],
           \A u \in Tickets : u \in ToSet(free') => u \in ToSet(free) /\ u # t
    PROVE  /\ LiveInv' /\ OwnInv' /\ FreshInv' /\ SentInv' /\ MsInv' /\ AwInv' /\ HandInv'
           /\ InboxInv' /\ AgeInv'
           /\ \A u \in Tickets : u # t =>
                 /\ Held(u)' <=> Held(u)
                 /\ Interrupts(u)' <=> Interrupts(u)
                 /\ InHand(u)' <=> InHand(u)
                 /\ Clean(u)' <=> Clean(u)
<1>. USE NullIsNoTicket, QueuesHoldTickets DEF queues, daemon
<1>1. \A u \in Tickets : u # t => /\ Clean(u)' <=> Clean(u)
                                  /\ fticket_answered(u)' <=> fticket_answered(u)
                                  /\ Request(u)' = Request(u)
  BY TicketSays
<1>2. tick[r] = NoTicket <=> ~intr[r]
  BY DEF PtrInv
<1>3. itick[r] = NoTicket
  BY DEF PtrInv
<1>4. \A q \in Requesters, u \in Tickets :
         Holds(q, u)' <=> Holds(q, u) \/ (q = r /\ ~intr[r] /\ u = t)
  BY <1>2 DEF Holds, CallerStays
<1>5. \A u \in Tickets : /\ Held(u)' <=> Held(u) \/ (~intr[r] /\ u = t)
                         /\ InHand(u)' <=> InHand(u)
  BY <1>4 DEF Held, InHand
<1>6. \A u \in Tickets : Interrupts(u)' <=> Interrupts(u) \/ (intr[r] /\ u = t)
  BY <1>3 DEF Interrupts, CallerStays
<1>7. \A u \in Tickets : u # t =>
         /\ Answered(u)' <=> Answered(u)
         /\ Answerable(u)' <=> Answerable(u)
         /\ Outgoing(u)' <=> Outgoing(u)
  BY <1>1, <1>5, <1>6 DEF Answered, Answerable, Outgoing, TicketStays
<1>8. \A q \in Requesters : q # r => /\ Filling(q)' <=> Filling(q)
                                     /\ Sending(q)' <=> Sending(q)
                                     /\ Waiting(q)' <=> Waiting(q)
                                     /\ Done(q)' <=> Done(q)
  BY DEF CallerStays, Filling, Sending, Waiting, Done
<1>9. ~Done(r)' /\ (Waiting(r)' <=> Waiting(r)) /\ (Waiting(r) <=> intr[r])
  BY DEF Done, Waiting
<1>10. LiveInv'
  BY <1>1, <1>5, <1>6 DEF Alive, LiveInv, TicketStays
<1>11. OwnInv'
  <2>1. \A u \in Tickets : ~(Held(u)' /\ Interrupts(u)')
    BY <1>5, <1>6 DEF Alive, OwnInv
  <2>2. \A u \in Tickets, p, q \in Requesters : Holds(p, u)' /\ Holds(q, u)' => p = q
    BY <1>4 DEF Alive, OwnInv, Held
  <2>3. \A u \in Tickets, p, q \in Requesters : itick'[p] = u /\ itick'[q] = u => p = q
    BY <1>3 DEF Alive, OwnInv, Interrupts, CallerStays
  <2>. QED BY <2>1, <2>2, <2>3 DEF Alive, OwnInv
<1>12. FreshInv'
  <2>1. \A q \in Requesters : q # r => tick'[q] # t \/ pc'[q] = "abandon"
    BY DEF CallerStays, Held, Holds
  <2>2. \A q \in Requesters : q # r => itick'[q] # t
    BY DEF CallerStays, Interrupts
  <2>3. Clean(t)' \/ pc'[r] = "insert_msg"
    BY DEF Clean, fticket_answered
  <2>. SUFFICES ASSUME NEW q \in Requesters, NEW u \in Tickets PROVE Fresh(q, u)'
    BY DEF FreshInv
  <2>. Fresh(q, u)
    BY DEF Alive, FreshInv
  <2>4. CASE q = r
    BY <1>2, <1>3, <1>5, <2>3, <2>4 DEF Fresh, Filling, Sending
  <2>5. CASE q # r /\ u # t
    BY <1>1, <1>5, <1>8, <2>5 DEF Fresh, CallerStays, TicketStays
  <2>6. CASE q # r /\ u = t
    BY <2>1, <2>2, <2>6 DEF Fresh, Filling, Sending, CallerStays, PtrInv
  <2>. QED BY <2>4, <2>5, <2>6
<1>13. SentInv'
  <2>. SUFFICES ASSUME NEW q \in Requesters, NEW u \in Tickets, tick'[q] = u
                PROVE  Sent(q, u)'
    BY DEF SentInv, Sent
  <2>. Sent(q, u)
    BY DEF Alive, SentInv
  <2>1. CASE u # t
    BY <1>1, <1>7, <1>8, <1>9, <2>1 DEF Sent, CallerStays, TicketStays
  <2>2. CASE u = t /\ q = r
    <3>1. ~intr[r]
      BY <2>2, <1>2 DEF Held, Holds
    <3>. QED BY <1>9, <2>2, <3>1 DEF Sent
  <2>3. CASE u = t /\ q # r
    <3>1. pc[q] = "abandon" /\ ~intr[q]
      BY <2>3 DEF CallerStays, Held, Holds, PtrInv
    <3>. QED BY <2>3, <3>1 DEF Sent, CallerStays, Waiting, Done
  <2>. QED BY <2>1, <2>2, <2>3
<1>14. MsInv'
  BY <1>5, <1>7 DEF Alive, MsInv
<1>15. AwInv'
  <2>1. ~Sending(r)
    BY DEF Sending
  <2>. QED BY <1>1, <1>4, <1>5, <1>6, <1>8, <2>1 DEF Alive, AwInv, TicketStays
<1>16. HandInv'
  <2>1. \A z \in Servers : stick[z] # t
    BY DEF InHand
  <2>. QED BY <1>1, <1>5, <1>6, <1>7, <2>1 DEF Alive, HandInv, Hand, TicketStays
<1>17. InboxInv'
  <2>. SUFFICES ASSUME NEW m \in inbox PROVE \E u \in ToSet(aw) : Read(m, u)'
    BY DEF InboxInv
  <2>1. PICK u \in ToSet(aw) : Read(m, u)
    BY DEF Alive, InboxInv
  <2>2. u # t /\ u \in Tickets /\ TicketStays(u)
    OBVIOUS
  <2>. QED BY <2>1, <2>2, <1>1, <1>4, <1>5, <1>8, <1>9 DEF Read, TicketStays
<1>18. AgeInv'
  BY <1>5, <1>6 DEF Alive, AgeInv, CallerStays, TicketStays
<1>. QED
  BY <1>1, <1>5, <1>6, <1>10, <1>11, <1>12, <1>13, <1>14, <1>15, <1>16, <1>17, <1>18

\* A caller goes on with a ticket that it has not sent.
LEMMA CallerPrepares ==
    ASSUME TypeOK, PtrInv, Alive, NEW r \in Requesters, NEW t \in Tickets, Current(r) = t,
           \A q \in Requesters : q # r => CallerStays(q),
           \A u \in Tickets : u # t => TicketStays(u),
           UNCHANGED <<queues, free, free_loop, freeticket_counter, tk_life, tk_unique, tk_age,
                       answers, daemon, op, tick, intr, itick, err, age>>,
           pc[r] \in {"alloc", "insert_cb", "push_aw", "insert_msg", "push_ms"},
           pc'[r] \in {"insert_cb", "push_aw", "insert_msg", "push_ms"},
           intr[r] => pc'[r] \in {"insert_msg", "push_ms"},
           ~fticket_answered(t)',
           t \in ToSet(aw) => /\ tk_aw_handler'[t] = tk_aw_handler[t]
                              /\ "INVAL" \notin tk_flag'[t] /\ Sending(r)'
    PROVE  /\ FreeInv' /\ LiveInv' /\ OwnInv' /\ SentInv' /\ MsInv' /\ AwInv' /\ HandInv'
           /\ InboxInv' /\ AgeInv'
           /\ \A q \in Requesters, u \in Tickets : u # t => Fresh(q, u)'
<1>. USE NullIsNoTicket, QueuesHoldTickets DEF queues, answers, daemon
<1>1. \A u \in Tickets : u # t => /\ Clean(u)' <=> Clean(u)
                                  /\ fticket_answered(u)' <=> fticket_answered(u)
                                  /\ Request(u)' = Request(u)
  BY TicketSays
<1>2. Request(t)' = Request(t)
  BY DEF Request
<1>3. \A q \in Requesters, u \in Tickets : Holds(q, u)' <=> Holds(q, u)
  BY DEF Holds, CallerStays
<1>4. \A u \in Tickets : /\ Held(u)' <=> Held(u)
                         /\ Interrupts(u)' <=> Interrupts(u)
                         /\ InHand(u)' <=> InHand(u)
  BY <1>3 DEF Held, Interrupts, InHand
<1>5. \A u \in Tickets : u # t =>
         /\ Answered(u)' <=> Answered(u)
         /\ Answerable(u)' <=> Answerable(u)
         /\ Outgoing(u)' <=> Outgoing(u)
  BY <1>1, <1>4 DEF Answered, Answerable, Outgoing, TicketStays
<1>6. \A q \in Requesters : q # r => /\ Filling(q)' <=> Filling(q)
                                     /\ Sending(q)' <=> Sending(q)
                                     /\ Waiting(q)' <=> Waiting(q)
                                     /\ Done(q)' <=> Done(q)
  BY DEF CallerStays, Filling, Sending, Waiting, Done
<1>7. ~Done(r)' /\ ~Done(r) /\ (Waiting(r)' <=> intr[r]) /\ (Waiting(r) <=> intr[r])
  BY DEF Done, Waiting
<1>8. (intr[r] /\ itick[r] = t) \/ (~intr[r] /\ tick[r] = t /\ Holds(r, t))
  BY DEF Current, Holds
<1>9. t \notin ToSet(ms) /\ ~InHand(t) /\ (intr[r] => t \notin ToSet(aw))
  BY <1>8 DEF Alive, FreshInv, Fresh, Filling, Sending
<1>10. t \notin ToSet(free) /\ tk_life[t] = "live"
  BY <1>8 DEF Alive, FreeInv, LiveInv, Held, Interrupts
<1>11. \A q \in Requesters : q # r => (tick[q] # t \/ pc[q] = "abandon") /\ itick[q] # t
  BY <1>8 DEF Alive, OwnInv, Held, Interrupts, Holds
<1>12. FreeInv'
  BY <1>1, <1>4, <1>10 DEF Alive, FreeInv
<1>13. LiveInv'
  BY <1>1, <1>4, <1>10 DEF Alive, LiveInv
<1>14. OwnInv'
  BY <1>3, <1>4 DEF Alive, OwnInv
<1>15. SentInv'
  <2>. SUFFICES ASSUME NEW q \in Requesters, NEW u \in Tickets, tick[q] = u
                PROVE  Sent(q, u)'
    BY DEF SentInv, Sent
  <2>. Sent(q, u)
    BY DEF Alive, SentInv
  <2>1. CASE u # t
    BY <1>1, <1>5, <1>6, <1>7, <2>1 DEF Sent, CallerStays, TicketStays
  <2>2. CASE u = t /\ q = r
    <3>1. ~intr[r]
      BY <2>2, <1>8 DEF Alive, OwnInv, Held, Interrupts, Holds
    <3>. QED BY <1>7, <2>2, <3>1 DEF Sent
  <2>3. CASE u = t /\ q # r
    <3>1. pc[q] = "abandon" /\ ~intr[q]
      BY <1>11, <2>3 DEF PtrInv
    <3>. QED BY <2>3, <3>1 DEF Sent, CallerStays, Waiting, Done
  <2>. QED BY <2>1, <2>2, <2>3
<1>16. MsInv'
  BY <1>4, <1>5, <1>9 DEF Alive, MsInv
<1>17. AwInv'
  <2>. SUFFICES ASSUME NEW u \in ToSet(aw)
                PROVE  (/\ "INVAL" \notin tk_flag[u] /\ ~Interrupts(u)
                        /\ fticket_answered(u) => ~Held(u)
                        /\ tk_aw_handler[u] = "standard" /\ ~fticket_answered(u) => Held(u)
                        /\ tk_aw_handler[u] # "standard" =>
                              \A q \in Requesters : Holds(q, u) => Sending(q))'
    BY DEF AwInv
  <2>1. CASE u # t
    <3>1. ~Holds(r, u) \/ intr[r]
      BY <1>8, <2>1 DEF Holds
    <3>2. ~Sending(r) \/ ~intr[r]
      BY DEF Sending
    <3>. QED BY <1>1, <1>3, <1>4, <1>6, <2>1, <3>1, <3>2 DEF Alive, AwInv, TicketStays
  <2>2. CASE u = t
    <3>1. ~intr[r] /\ Held(t)
      BY <1>8, <1>9, <2>2 DEF Held
    <3>2. \A q \in Requesters : Holds(q, t) => q = r
      BY <1>11 DEF Holds
    <3>. QED BY <1>3, <1>4, <2>2, <3>1, <3>2 DEF Alive, AwInv
  <2>. QED BY <2>1, <2>2
<1>18. HandInv'
  <2>1. \A z \in Servers : stick[z] # t
    BY <1>9 DEF InHand
  <2>. QED BY <1>1, <1>4, <1>5, <2>1 DEF Alive, HandInv, Hand, TicketStays
<1>19. InboxInv'
  <2>. SUFFICES ASSUME NEW m \in inbox PROVE \E u \in ToSet(aw) : Read(m, u)'
    BY DEF InboxInv
  <2>1. PICK u \in ToSet(aw) : Read(m, u)
    BY DEF Alive, InboxInv
  <2>2. u # t
    BY <1>7, <1>8, <1>9, <2>1 DEF Read
  <2>. QED BY <2>1, <2>2, <1>1, <1>3, <1>4, <1>6, <1>7 DEF Read, TicketStays
<1>20. AgeInv'
  BY <1>4 DEF Alive, AgeInv, CallerStays
<1>21. ASSUME NEW q \in Requesters, NEW u \in Tickets, u # t PROVE Fresh(q, u)'
  <2>. Fresh(q, u)
    BY DEF Alive, FreshInv
  <2>1. CASE q # r
    BY <1>1, <1>4, <1>6, <1>21, <2>1 DEF Fresh, CallerStays, TicketStays
  <2>2. CASE q = r
    <3>1. itick[r] # u /\ (tick[r] # u \/ intr[r])
      BY <1>8, <1>21 DEF PtrInv
    <3>. QED BY <2>2, <3>1 DEF Fresh, Filling, Sending, PtrInv
  <2>. QED BY <2>1, <2>2
<1>. QED
  BY <1>12, <1>13, <1>14, <1>15, <1>16, <1>17, <1>18, <1>19, <1>20, <1>21

\* Nobody has anything to do with a ticket any more.
LEMMA TicketGoes ==
    ASSUME TypeOK, PtrInv, Alive, NEW t \in Tickets,
           \A u \in Tickets : u # t => TicketStays(u),
           \A q \in Requesters : ~Holds(q, t) => CallerStays(q),
           \A q \in Requesters : Holds(q, t) =>
              /\ tick'[q] = NoTicket /\ itick'[q] = NoTicket /\ ~intr[q] /\ ~intr'[q]
              /\ pc[q] # "alloc" /\ pc'[q] \in {"idle", "initsync", "fetch"},
           \A z \in Servers : stick[z] # t => ServerStays(z),
           \A z \in Servers : stick[z] = t => stick'[z] = NoTicket,
           UNCHANGED <<queues, ticketer, inbox>>,
           t \notin ToSet(ms), t \notin ToSet(aw), ~Interrupts(t),
           tk_unique'[t] = tk_unique[t], tk_life'[t] # "unborn",
           tk_life'[t] = "live" => tk_life[t] = "live",
           tk_age[t] \in Nat, tk_age'[t] \in {tk_age[t], tk_age[t] + 1},
           t \in ToSet(free') => t \in ToSet(free) \/ tk_age'[t] = tk_age[t] + 1,
           \A u \in Tickets : u # t => (u \in ToSet(free') <=> u \in ToSet(free))
    PROVE  /\ LiveInv' /\ OwnInv' /\ FreshInv' /\ SentInv' /\ MsInv' /\ AwInv' /\ HandInv'
           /\ InboxInv' /\ UniqueInv' /\ AgeInv'
           /\ ~Held(t)' /\ ~Interrupts(t)' /\ ~InHand(t)'
           /\ \A u \in Tickets : u # t =>
                 /\ Held(u)' <=> Held(u)
                 /\ Interrupts(u)' <=> Interrupts(u)
                 /\ InHand(u)' <=> InHand(u)
                 /\ Clean(u)' <=> Clean(u)
<1>. USE NullIsNoTicket, QueuesHoldTickets DEF queues
<1>1. \A u \in Tickets : u # t => /\ Clean(u)' <=> Clean(u)
                                  /\ fticket_answered(u)' <=> fticket_answered(u)
                                  /\ Request(u)' = Request(u)
  BY TicketSays
<1>2. \A q \in Requesters, u \in Tickets : Holds(q, u)' <=> Holds(q, u) /\ u # t
  BY DEF Holds, CallerStays
<1>3. \A u \in Tickets : Held(u)' <=> Held(u) /\ u # t
  BY <1>2 DEF Held
<1>4. \A q \in Requesters : Holds(q, t) => ~intr[q] /\ itick[q] = NoTicket
  BY DEF PtrInv
<1>5. \A u \in Tickets : Interrupts(u)' <=> Interrupts(u)
  BY <1>4 DEF Interrupts, CallerStays
<1>6. \A u \in Tickets : InHand(u)' <=> InHand(u) /\ u # t
  BY DEF InHand, ServerStays
<1>7. \A u \in Tickets : u # t =>
         /\ Answered(u)' <=> Answered(u)
         /\ Outgoing(u)' <=> Outgoing(u)
         /\ Answerable(u)' <=> Answerable(u)
  BY <1>1, <1>3, <1>5, <1>6 DEF Answered, Answerable, Outgoing, TicketStays, ServerStays
<1>8. \A q \in Requesters : ~Holds(q, t) => /\ Filling(q)' <=> Filling(q)
                                            /\ Sending(q)' <=> Sending(q)
                                            /\ Waiting(q)' <=> Waiting(q)
                                            /\ Done(q)' <=> Done(q)
  BY DEF CallerStays, Filling, Sending, Waiting, Done
<1>9. LiveInv'
  BY <1>1, <1>3, <1>5, <1>6 DEF Alive, LiveInv, TicketStays
<1>10. OwnInv'
  <2>1. \A u \in Tickets, p, q \in Requesters : itick'[p] = u /\ itick'[q] = u => p = q
    BY <1>4 DEF Alive, OwnInv, CallerStays
  <2>2. \A u \in Tickets, z, y \in Servers : stick'[z] = u /\ stick'[y] = u => z = y
    BY DEF Alive, OwnInv, ServerStays
  <2>. QED BY <1>2, <1>3, <1>5, <2>1, <2>2 DEF Alive, OwnInv
<1>11. FreshInv'
  <2>. SUFFICES ASSUME NEW q \in Requesters, NEW u \in Tickets PROVE Fresh(q, u)'
    BY DEF FreshInv
  <2>. Fresh(q, u)
    BY DEF Alive, FreshInv
  <2>1. CASE Holds(q, t)
    BY <2>1 DEF Fresh
  <2>2. CASE ~Holds(q, t) /\ u # t
    BY <1>1, <1>6, <1>8, <2>2 DEF Fresh, CallerStays, TicketStays
  <2>3. CASE ~Holds(q, t) /\ u = t
    <3>1. itick[q] # t /\ (tick[q] # t \/ pc[q] = "abandon")
      BY <2>3 DEF Interrupts, Holds
    <3>. QED BY <2>3, <3>1 DEF Fresh, CallerStays, Filling, Sending
  <2>. QED BY <2>1, <2>2, <2>3
<1>12. SentInv'
  <2>. SUFFICES ASSUME NEW q \in Requesters, NEW u \in Tickets PROVE Sent(q, u)'
    BY DEF SentInv
  <2>. Sent(q, u)
    BY DEF Alive, SentInv
  <2>1. CASE Holds(q, t)
    BY <2>1 DEF Sent
  <2>2. CASE ~Holds(q, t) /\ u # t
    BY <1>1, <1>7, <1>8, <2>2 DEF Sent, CallerStays, TicketStays
  <2>3. CASE ~Holds(q, t) /\ u = t
    <3>1. tick[q] # t \/ (pc[q] = "abandon" /\ ~intr[q])
      BY <2>3 DEF Holds, PtrInv
    <3>. QED BY <2>3, <3>1 DEF Sent, CallerStays, Waiting, Done
  <2>. QED BY <2>1, <2>2, <2>3
<1>13. MsInv'
  BY <1>6, <1>7 DEF Alive, MsInv
<1>14. AwInv'
  <2>1. \A u \in ToSet(aw), q \in Requesters : Holds(q, u) => ~Holds(q, t)
    BY DEF Holds
  <2>. QED BY <1>1, <1>2, <1>3, <1>5, <1>8, <2>1 DEF Alive, AwInv, TicketStays
<1>15. HandInv'
  <2>. SUFFICES ASSUME NEW z \in Servers, NEW u \in Tickets PROVE Hand(z, u)'
    BY DEF HandInv
  <2>. Hand(z, u)
    BY DEF Alive, HandInv
  <2>1. CASE stick[z] = t
    BY <2>1 DEF Hand
  <2>2. CASE stick[z] # t
    BY <1>1, <1>3, <1>5, <1>7, <2>2 DEF Hand, ServerStays, TicketStays
  <2>. QED BY <2>1, <2>2
<1>16. InboxInv'
  <2>. SUFFICES ASSUME NEW m \in inbox PROVE \E u \in ToSet(aw) : Read(m, u)'
    BY DEF InboxInv
  <2>1. PICK u \in ToSet(aw) : Read(m, u)
    BY DEF Alive, InboxInv
  <2>2. u # t /\ u \in Tickets /\ \A q \in Requesters : Holds(q, u) => ~Holds(q, t)
    BY DEF Holds
  <2>. QED BY <2>1, <2>2, <1>1, <1>2, <1>6, <1>8 DEF Read, TicketStays
<1>17. UniqueInv'
  <2>1. \A q \in Requesters : /\ pc[q] = "alloc" <=> pc'[q] = "alloc"
                              /\ pc[q] = "alloc" => Current(q)' = Current(q)
                                   /\ Current(q) \in Tickets
    BY DEF CallerStays, Current, TypeOK, CallerDerefs
  <2>2. Numbering' <=> Numbering
    BY <2>1 DEF Numbering
  <2>3. \A u \in Tickets : /\ tk_unique'[u] = tk_unique[u]
                           /\ tk_life'[u] = "live" => tk_life[u] = "live"
    BY DEF TicketStays
  <2>. QED BY <2>1, <2>2, <2>3 DEF Alive, UniqueInv
<1>18. AgeInv'
  <2>. SUFFICES ASSUME NEW q \in Requesters, NEW u \in Tickets, pc'[q] = "abandon", tick'[q] = u
                PROVE  (/\ tk_life[u] # "unborn" /\ age[q] <= tk_age[u]
                        /\ age[q] = tk_age[u] => ~Held(u) /\ ~Interrupts(u)
                             /\ u \notin ToSet(free))'
    BY DEF AgeInv
  <2>1. CallerStays(q) /\ pc[q] = "abandon" /\ tick[q] = u /\ age[q] \in Nat
    BY DEF CallerStays, TypeOK, CallerType
  <2>2. CASE u # t
    BY <1>3, <1>5, <2>1, <2>2 DEF Alive, AgeInv, CallerStays, TicketStays
  <2>3. CASE u = t
    <3>1. age[q] <= tk_age[t] /\ (age[q] = tk_age[t] => t \notin ToSet(free))
      BY <2>1, <2>3 DEF Alive, AgeInv
    <3>2. age'[q] = age[q] BY <2>1 DEF CallerStays
    <3>3. ~Held(t)' /\ ~Interrupts(t)' BY <1>3, <1>5
    <3>. QED BY <2>1, <2>3, <3>1, <3>2, <3>3
  <2>. QED BY <2>2, <2>3
<1>. QED
  BY <1>1, <1>3, <1>5, <1>6, <1>9, <1>10, <1>11, <1>12, <1>13, <1>14, <1>15, <1>16, <1>17, <1>18

\* A daemon thread takes a message off its queue.
LEMMA ServerPops ==
    ASSUME TypeOK, PtrInv, Alive, NEW s \in Servers, NEW t \in ToSet(ms),
           \A z \in Servers : z # s => ServerStays(z),
           UNCHANGED <<aw, pool, tk_flag, tk_age, tk_aw_handler, answers, callers, inbox>>,
           ToSet(ms') = ToSet(ms) \ {t},
           stick[s] = NoTicket, stick'[s] = t, spc'[s] = "popped"
    PROVE  Alive'
<1>. USE NullIsNoTicket, QueuesHoldTickets DEF pool, answers, callers
<1>1. \A u \in Tickets : /\ Clean(u)' <=> Clean(u)
                         /\ fticket_answered(u)' <=> fticket_answered(u)
                         /\ Request(u)' = Request(u)
  BY DEF Clean, fticket_answered, Request
<1>2. \A q \in Requesters, u \in Tickets : Holds(q, u)' <=> Holds(q, u)
  BY DEF Holds
<1>3. \A u \in Tickets : /\ Held(u)' <=> Held(u)
                         /\ Interrupts(u)' <=> Interrupts(u)
                         /\ InHand(u)' <=> InHand(u) \/ u = t
  BY <1>2 DEF Held, Interrupts, InHand, ServerStays
<1>4. \A u \in Tickets : /\ Outgoing(u)' <=> Outgoing(u)
                         /\ Answerable(u) => Answerable(u)'
                         /\ Answered(u) => Answered(u)'
  BY <1>1, <1>3 DEF Answered, Answerable, Outgoing, ServerStays
<1>5. \A q \in Requesters : /\ Filling(q)' <=> Filling(q)
                            /\ Sending(q)' <=> Sending(q)
                            /\ Waiting(q)' <=> Waiting(q)
                            /\ Done(q)' <=> Done(q)
  BY DEF Filling, Sending, Waiting, Done
<1>6. ~InHand(t) /\ Outgoing(t)
  BY DEF Alive, MsInv
<1>7. FreeInv' /\ LiveInv'
  BY <1>1, <1>3 DEF Alive, FreeInv, LiveInv
<1>8. OwnInv'
  <2>1. \A u \in Tickets, z, y \in Servers : stick'[z] = u /\ stick'[y] = u => z = y
    BY <1>6 DEF Alive, OwnInv, ServerStays, InHand
  <2>. QED BY <1>2, <1>3, <2>1 DEF Alive, OwnInv
<1>9. FreshInv'
  BY <1>1, <1>3, <1>5 DEF Alive, FreshInv, Fresh
<1>10. SentInv'
  BY <1>1, <1>4, <1>5 DEF Alive, SentInv, Sent
<1>11. MsInv'
  BY <1>3, <1>4 DEF Alive, MsInv
<1>12. AwInv'
  BY <1>1, <1>2, <1>3, <1>5 DEF Alive, AwInv
<1>13. HandInv'
  <2>. SUFFICES ASSUME NEW z \in Servers, NEW u \in Tickets PROVE Hand(z, u)'
    BY DEF HandInv
  <2>. Hand(z, u)
    BY DEF Alive, HandInv
  <2>1. CASE z # s
    BY <1>1, <1>3, <1>4, <2>1 DEF Hand, ServerStays
  <2>2. CASE z = s
    BY <1>4, <1>6, <2>2 DEF Hand
  <2>. QED BY <2>1, <2>2
<1>14. InboxInv'
  <2>. SUFFICES ASSUME NEW m \in inbox PROVE \E u \in ToSet(aw) : Read(m, u)'
    BY DEF InboxInv
  <2>1. PICK u \in ToSet(aw) : Read(m, u)
    BY DEF Alive, InboxInv
  <2>. QED BY <2>1, <1>1, <1>2, <1>3, <1>5 DEF Read
<1>15. UniqueInv'
  BY DEF Alive, UniqueInv, Numbering, Current
<1>16. AgeInv'
  BY <1>3 DEF Alive, AgeInv
<1>. QED
  BY <1>7, <1>8, <1>9, <1>10, <1>11, <1>12, <1>13, <1>14, <1>15, <1>16 DEF Alive

\* A message is queued for the daemon, and its caller waits for the answer,
\* goes back from an INTERRUPT or returns.
LEMMA CallerSends ==
    ASSUME TypeOK, PtrInv, Alive, NEW r \in Requesters, NEW t \in Tickets, Current(r) = t,
           pc[r] = "push_ms",
           \A q \in Requesters : q # r => CallerStays(q),
           \A z \in Servers : \/ spc'[z] = spc[z]
                              \/ spc[z] = "asleep" /\ spc'[z] = "woken",
           UNCHANGED <<aw, pool, tk_flag, tk_age, tk_aw_handler, answers, stick, sreply, inbox>>,
           ToSet(ms') = ToSet(ms) \union {t},
           ~intr'[r], itick'[r] = NoTicket,
           intr[r] => tick'[r] = tick[r] /\ pc'[r] = "waited" /\ err'[r] = "EINTR",
           ~intr[r] /\ op[r] \in Wanted => tick'[r] = tick[r] /\ pc'[r] = "wait",
           ~intr[r] /\ op[r] \notin Wanted => tick'[r] = NoTicket /\ pc'[r] = "idle"
    PROVE  Alive'
<1>. USE NullIsNoTicket, QueuesHoldTickets DEF pool, answers
<1>1. \A u \in Tickets : /\ Clean(u)' <=> Clean(u)
                         /\ fticket_answered(u)' <=> fticket_answered(u)
                         /\ Request(u)' = Request(u)
  BY DEF Clean, fticket_answered, Request
<1>2. \/ intr[r] /\ itick[r] = t /\ tick[r] # t /\ pc'[r] = "waited"
      \/ ~intr[r] /\ tick[r] = t /\ itick[r] = NoTicket /\ op[r] \in Wanted /\ pc'[r] = "wait"
      \/ ~intr[r] /\ tick[r] = t /\ itick[r] = NoTicket /\ op[r] \notin Wanted /\ pc'[r] = "idle"
  BY DEF Current, PtrInv, Alive, OwnInv, Held, Interrupts, Holds
<1>3. /\ t \notin ToSet(ms) /\ ~InHand(t) /\ ~fticket_answered(t) /\ "DIRTY" \in tk_flag[t]
      /\ intr[r] => t \notin ToSet(aw) /\ "INVAL" \in tk_flag[t]
      /\ ~intr[r] /\ op[r] = "forget" => t \notin ToSet(aw) /\ "INVAL" \in tk_flag[t]
      /\ ~intr[r] /\ op[r] # "forget" => /\ t \in ToSet(aw) /\ "INVAL" \notin tk_flag[t]
                                         /\ tk_aw_handler[t] = HandlerOf(op[r])
  BY <1>2 DEF Alive, FreshInv, Fresh, Sending
<1>4. op[r] \in Wanted => op[r] # "forget" /\ HandlerOf(op[r]) = "standard"
  BY DEF Wanted, HandlerOf
<1>5. op[r] \notin Wanted /\ op[r] # "forget" => HandlerOf(op[r]) # "standard"
  BY DEF Wanted, HandlerOf, TypeOK, CallerType, AllOps
<1>6. \A q \in Requesters, u \in Tickets :
         Holds(q, u)' <=> Holds(q, u) /\ ~(q = r /\ ~intr[r] /\ op[r] \notin Wanted)
  BY <1>2 DEF Holds, CallerStays
<1>7. \A q \in Requesters, u \in Tickets : itick'[q] = u <=> itick[q] = u /\ q # r
  BY DEF CallerStays
<1>8. \A q \in Requesters : q # r => itick[q] # t /\ ~Holds(q, t)
  BY <1>2 DEF Alive, OwnInv, Held, Interrupts, Holds
<1>9. \A u \in Tickets : u # t => /\ Held(u)' <=> Held(u)
                                  /\ Interrupts(u)' <=> Interrupts(u)
  BY <1>2, <1>6, <1>7 DEF Held, Interrupts, Holds
<1>10. /\ ~Interrupts(t)'
       /\ intr[r] \/ op[r] \notin Wanted => ~Held(t)'
       /\ ~intr[r] /\ op[r] \in Wanted => Held(t)'
  BY <1>2, <1>6, <1>7, <1>8 DEF Held, Interrupts, Holds
<1>11. \A u \in Tickets : InHand(u)' <=> InHand(u)
  BY DEF InHand
<1>12. \A u \in Tickets : Answerable(u)' <=> Answerable(u)
  BY DEF Answerable
<1>13. \A u \in Tickets : u # t => /\ Answered(u)' <=> Answered(u)
                                   /\ Outgoing(u)' <=> Outgoing(u)
  BY <1>1, <1>9, <1>11 DEF Answered, Outgoing
<1>14. Outgoing(t)'
  BY <1>2, <1>3, <1>4, <1>10 DEF Outgoing
<1>15. \A q \in Requesters : q # r => /\ Filling(q)' <=> Filling(q)
                                      /\ Sending(q)' <=> Sending(q)
                                      /\ Waiting(q)' <=> Waiting(q)
                                      /\ Done(q)' <=> Done(q)
  BY DEF CallerStays, Filling, Sending, Waiting, Done
<1>16. /\ ~Filling(r)' /\ ~Sending(r)' /\ ~Done(r)' /\ (Waiting(r) <=> intr[r])
       /\ Waiting(r)' <=> intr[r] \/ op[r] \in Wanted
       /\ Sending(r) <=> ~intr[r]
  BY <1>2 DEF Filling, Sending, Waiting, Done
<1>17. FreeInv'
  <2>1. t \notin ToSet(free)
    BY <1>2 DEF Alive, FreeInv, Held, Interrupts, Holds
  <2>. QED BY <1>1, <1>9, <1>11, <2>1 DEF Alive, FreeInv
<1>18. LiveInv'
  <2>1. tk_life[t] = "live"
    BY <1>2 DEF Alive, LiveInv, Held, Interrupts, Holds
  <2>. QED BY <1>1, <1>9, <1>11, <2>1 DEF Alive, LiveInv
<1>19. OwnInv'
  <2>1. \A u \in Tickets : Held(u)' => Held(u)
    BY <1>6 DEF Held
  <2>2. \A u \in Tickets : Interrupts(u)' => Interrupts(u)
    BY <1>7 DEF Interrupts
  <2>. QED BY <1>6, <1>7, <2>1, <2>2 DEF Alive, OwnInv
<1>20. FreshInv'
  <2>. SUFFICES ASSUME NEW q \in Requesters, NEW u \in Tickets PROVE Fresh(q, u)'
    BY DEF FreshInv
  <2>. Fresh(q, u)
    BY DEF Alive, FreshInv
  <2>1. CASE q = r
    BY <1>2, <1>16, <2>1 DEF Fresh
  <2>2. CASE q # r
    <3>1. tick[q] # t \/ pc[q] = "abandon"
      BY <1>8, <2>2 DEF Holds
    <3>. QED BY <1>1, <1>8, <1>11, <1>15, <2>2, <3>1 DEF Fresh, CallerStays, Filling, Sending
  <2>. QED BY <2>1, <2>2
<1>21. SentInv'
  <2>. SUFFICES ASSUME NEW q \in Requesters, NEW u \in Tickets, tick'[q] = u
                PROVE  Sent(q, u)'
    BY DEF SentInv, Sent
  <2>. Sent(q, u)
    BY DEF Alive, SentInv
  <2>1. CASE q # r /\ u # t
    BY <1>1, <1>12, <1>13, <1>15, <2>1 DEF Sent, CallerStays
  <2>2. CASE q # r /\ u = t
    <3>1. pc[q] = "abandon" /\ ~intr[q]
      BY <1>8, <2>2 DEF Holds, PtrInv, CallerStays
    <3>. QED BY <2>2, <3>1 DEF Sent, CallerStays, Waiting, Done
  <2>3. CASE q = r /\ intr[r]
    BY <1>1, <1>2, <1>12, <1>13, <1>16, <2>3 DEF Sent
  <2>4. CASE q = r /\ ~intr[r]
    BY <1>1, <1>2, <1>3, <1>4, <1>16, <2>4 DEF Sent, Answerable
  <2>. QED BY <2>1, <2>2, <2>3, <2>4
<1>22. MsInv'
  BY <1>3, <1>11, <1>13, <1>14 DEF Alive, MsInv
<1>23. AwInv'
  <2>. SUFFICES ASSUME NEW u \in ToSet(aw)
                PROVE  (/\ "INVAL" \notin tk_flag[u] /\ ~Interrupts(u)
                        /\ fticket_answered(u) => ~Held(u)
                        /\ tk_aw_handler[u] = "standard" /\ ~fticket_answered(u) => Held(u)
                        /\ tk_aw_handler[u] # "standard" =>
                              \A q \in Requesters : Holds(q, u) => Sending(q))'
    BY DEF AwInv
  <2>1. CASE u # t
    <3>1. Holds(r, u) => intr[r]
      BY <1>2, <2>1 DEF Holds
    <3>. QED BY <1>1, <1>6, <1>9, <1>15, <1>16, <2>1, <3>1 DEF Alive, AwInv
  <2>2. CASE u = t
    <3>1. ~intr[r] /\ op[r] # "forget"
      BY <1>3, <2>2
    <3>. QED BY <1>1, <1>3, <1>4, <1>5, <1>6, <1>8, <1>10, <2>2, <3>1 DEF Alive, AwInv
  <2>. QED BY <2>1, <2>2
<1>24. HandInv'
  <2>. SUFFICES ASSUME NEW z \in Servers, NEW u \in Tickets PROVE Hand(z, u)'
    BY DEF HandInv
  <2>. Hand(z, u)
    BY DEF Alive, HandInv
  <2>1. CASE u # t
    BY <1>1, <1>9, <1>13, <2>1 DEF Hand
  <2>2. CASE u = t
    BY <1>3, <2>2 DEF Hand, InHand
  <2>. QED BY <2>1, <2>2
<1>25. InboxInv'
  <2>. SUFFICES ASSUME NEW m \in inbox PROVE \E u \in ToSet(aw) : Read(m, u)'
    BY DEF InboxInv
  <2>1. PICK u \in ToSet(aw) : Read(m, u)
    BY DEF Alive, InboxInv
  <2>2. u # t
    BY <1>2, <1>3, <1>16, <2>1 DEF Read, Holds
  <2>. QED BY <2>1, <2>2, <1>1, <1>6, <1>11, <1>15, <1>16 DEF Read
<1>26. UniqueInv'
  <2>1. \A q \in Requesters : /\ pc[q] = "alloc" <=> pc'[q] = "alloc"
                              /\ pc[q] = "alloc" => Current(q)' = Current(q)
    BY <1>2 DEF CallerStays, Current
  <2>2. Numbering' <=> Numbering
    BY <2>1 DEF Numbering
  <2>. QED BY <2>1, <2>2 DEF Alive, UniqueInv
<1>27. AgeInv'
  <2>1. \A u \in Tickets : ~Held(u) => ~Held(u)'
    BY <1>6 DEF Held
  <2>2. \A u \in Tickets : ~Interrupts(u) => ~Interrupts(u)'
    BY <1>7 DEF Interrupts
  <2>. QED BY <1>2, <2>1, <2>2 DEF Alive, AgeInv, CallerStays
<1>. QED
  BY <1>17, <1>18, <1>19, <1>20, <1>21, <1>22, <1>23, <1>24, <1>25, <1>26, <1>27 DEF Alive

\* A ticket is queued for its answer.
LEMMA CallerQueues ==
    ASSUME TypeOK, PtrInv, Alive, NEW r \in Requesters, NEW t \in Tickets, tick[r] = t,
           \A q \in Requesters : q # r => CallerStays(q),
           UNCHANGED <<ms, pool, tk_flag, tk_age, tk_aw_handler, answers, daemon, op, tick, intr,
                       itick, err, age>>,
           ToSet(aw') = ToSet(aw) \union {t},
           pc[r] = "push_aw", pc'[r] = "insert_msg"
    PROVE  Alive'
<1>. USE NullIsNoTicket, QueuesHoldTickets DEF pool, answers, daemon
<1>1. \A u \in Tickets : /\ Clean(u)' <=> Clean(u)
                         /\ fticket_answered(u)' <=> fticket_answered(u)
                         /\ Request(u)' = Request(u)
  BY DEF Clean, fticket_answered, Request
<1>2. \A q \in Requesters, u \in Tickets : Holds(q, u)' <=> Holds(q, u)
  BY DEF Holds, CallerStays
<1>3. \A u \in Tickets : /\ Held(u)' <=> Held(u)
                         /\ Interrupts(u)' <=> Interrupts(u)
                         /\ InHand(u)' <=> InHand(u)
  BY <1>2 DEF Held, Interrupts, InHand
<1>4. ~intr[r] /\ op[r] # "forget"
  BY DEF PtrInv
<1>5. /\ Clean(t) /\ ~InHand(t) /\ t \notin ToSet(ms) /\ t \notin ToSet(aw)
      /\ tk_aw_handler[t] = HandlerOf(op[r])
  BY <1>4 DEF Alive, FreshInv, Fresh, Filling
<1>6. "INVAL" \notin tk_flag[t] /\ "DIRTY" \notin tk_flag[t] /\ ~fticket_answered(t)
  BY <1>5 DEF Clean, fticket_answered
<1>7. Held(t) /\ ~Interrupts(t) /\ \A q \in Requesters : Holds(q, t) => q = r
  BY DEF Alive, OwnInv, Held, Holds
<1>8. t \notin ToSet(free) /\ tk_life[t] = "live"
  BY <1>7 DEF Alive, FreeInv, LiveInv
<1>9. \A u \in Tickets : /\ u # t => (Answered(u)' <=> Answered(u))
                         /\ u # t => (Outgoing(u)' <=> Outgoing(u))
                         /\ Answerable(u) => Answerable(u)'
  BY <1>1, <1>3 DEF Answered, Answerable, Outgoing
<1>10. \A q \in Requesters : q # r => /\ Filling(q)' <=> Filling(q)
                                      /\ Sending(q)' <=> Sending(q)
                                      /\ Waiting(q)' <=> Waiting(q)
                                      /\ Done(q)' <=> Done(q)
  BY DEF CallerStays, Filling, Sending, Waiting, Done
<1>11. ~Filling(r)' /\ Sending(r)' /\ ~Waiting(r) /\ ~Waiting(r)' /\ ~Done(r)' /\ ~Sending(r)
  BY <1>4 DEF Filling, Sending, Waiting, Done
<1>12. FreeInv'
  BY <1>1, <1>3, <1>8 DEF Alive, FreeInv
<1>13. LiveInv'
  BY <1>1, <1>3, <1>8 DEF Alive, LiveInv
<1>14. OwnInv'
  BY <1>2, <1>3 DEF Alive, OwnInv
<1>15. FreshInv'
  <2>. SUFFICES ASSUME NEW q \in Requesters, NEW u \in Tickets PROVE Fresh(q, u)'
    BY DEF FreshInv
  <2>. Fresh(q, u)
    BY DEF Alive, FreshInv
  <2>1. CASE q = r
    BY <1>1, <1>3, <1>4, <1>5, <1>6, <1>11, <2>1 DEF Fresh, PtrInv
  <2>2. CASE q # r
    <3>1. (tick[q] # t \/ pc[q] = "abandon") /\ itick[q] # t
      BY <1>7, <2>2 DEF Holds, Interrupts
    <3>. QED BY <1>1, <1>3, <1>10, <2>2, <3>1 DEF Fresh, CallerStays, Filling, Sending
  <2>. QED BY <2>1, <2>2
<1>16. SentInv'
  <2>. SUFFICES ASSUME NEW q \in Requesters, NEW u \in Tickets, tick[q] = u
                PROVE  Sent(q, u)'
    BY DEF SentInv, Sent
  <2>. Sent(q, u)
    BY DEF Alive, SentInv
  <2>1. CASE q = r
    BY <1>11, <2>1 DEF Sent
  <2>2. CASE q # r /\ u # t
    BY <1>1, <1>9, <1>10, <2>2 DEF Sent, CallerStays
  <2>3. CASE q # r /\ u = t
    <3>1. pc[q] = "abandon" /\ ~intr[q]
      BY <1>7, <2>3 DEF Holds, PtrInv
    <3>. QED BY <2>3, <3>1 DEF Sent, CallerStays, Waiting, Done
  <2>. QED BY <2>1, <2>2, <2>3
<1>17. MsInv'
  BY <1>3, <1>5, <1>9 DEF Alive, MsInv
<1>18. AwInv'
  <2>. SUFFICES ASSUME NEW u \in ToSet(aw')
                PROVE  (/\ "INVAL" \notin tk_flag[u] /\ ~Interrupts(u)
                        /\ fticket_answered(u) => ~Held(u)
                        /\ tk_aw_handler[u] = "standard" /\ ~fticket_answered(u) => Held(u)
                        /\ tk_aw_handler[u] # "standard" =>
                              \A q \in Requesters : Holds(q, u) => Sending(q))'
    BY DEF AwInv
  <2>1. CASE u # t
    BY <1>1, <1>2, <1>3, <1>10, <1>11, <2>1 DEF Alive, AwInv
  <2>2. CASE u = t
    BY <1>1, <1>2, <1>3, <1>6, <1>7, <1>11, <2>2
  <2>. QED BY <2>1, <2>2
<1>19. HandInv'
  <2>1. \A z \in Servers : stick[z] # t
    BY <1>5 DEF InHand
  <2>. QED BY <1>1, <1>3, <1>9, <2>1 DEF Alive, HandInv, Hand
<1>20. InboxInv'
  <2>. SUFFICES ASSUME NEW m \in inbox PROVE \E u \in ToSet(aw) : Read(m, u)'
    BY DEF InboxInv
  <2>1. PICK u \in ToSet(aw) : Read(m, u)
    BY DEF Alive, InboxInv
  <2>. QED BY <2>1, <1>1, <1>2, <1>3, <1>10, <1>11 DEF Read
<1>21. UniqueInv'
  <2>1. \A q \in Requesters : /\ pc[q] = "alloc" <=> pc'[q] = "alloc"
                              /\ pc[q] = "alloc" => Current(q)' = Current(q)
    BY DEF CallerStays, Current
  <2>2. Numbering' <=> Numbering
    BY <2>1 DEF Numbering
  <2>. QED BY <2>1, <2>2 DEF Alive, UniqueInv
<1>22. AgeInv'
  BY <1>3 DEF Alive, AgeInv, CallerStays
<1>. QED
  BY <1>12, <1>13, <1>14, <1>15, <1>16, <1>17, <1>18, <1>19, <1>20, <1>21, <1>22 DEF Alive

\* A caller whose wait failed gives its ticket up to whoever answers it.
LEMMA CallerGivesUp ==
    ASSUME TypeOK, PtrInv, Alive, NEW r \in Requesters, NEW t \in Tickets, tick[r] = t,
           \A q \in Requesters : q # r => CallerStays(q),
           \A u \in Tickets : u # t => TicketStays(u),
           UNCHANGED <<queues, pool, tk_age, tk_aw_handler, answers, daemon, op, tick, intr,
                       itick>>,
           pc[r] = "waited", pc'[r] = "abandon", age'[r] = tk_age[t],
           ~fticket_answered(t), tk_flag'[t] = tk_flag[t] \union {"ANSW"}
    PROVE  Alive'
<1>. USE NullIsNoTicket, QueuesHoldTickets DEF queues, pool, answers, daemon
<1>1. \A u \in Tickets : u # t => /\ Clean(u)' <=> Clean(u)
                                  /\ fticket_answered(u)' <=> fticket_answered(u)
  BY TicketSays
<1>2. \A u \in Tickets : Request(u)' = Request(u)
  BY DEF Request
<1>3. \A q \in Requesters, u \in Tickets : Holds(q, u)' <=> Holds(q, u) /\ q # r
  BY DEF Holds, CallerStays
<1>4. Held(t) /\ ~Interrupts(t) /\ \A q \in Requesters : Holds(q, t) => q = r
  BY DEF Alive, OwnInv, Held, Holds
<1>5. /\ \A u \in Tickets : u # t => (Held(u)' <=> Held(u))
      /\ ~Held(t)'
  BY <1>3, <1>4 DEF Held, Holds
<1>6. \A u \in Tickets : /\ Interrupts(u)' <=> Interrupts(u)
                         /\ InHand(u)' <=> InHand(u)
  BY DEF Interrupts, InHand
<1>7. ~intr[r] /\ itick[r] = NoTicket
  BY DEF PtrInv
<1>8. /\ "DIRTY" \in tk_flag[t] /\ "INVAL" \notin tk_flag[t] /\ tk_aw_handler[t] = "standard"
      /\ Answerable(t)
  BY DEF Alive, SentInv, Sent, Waiting
<1>9. fticket_answered(t)' /\ ("DIRTY" \in tk_flag'[t]) /\ ("INVAL" \notin tk_flag'[t])
  BY <1>8 DEF fticket_answered
<1>10. \A u \in Tickets : /\ Answerable(u)' <=> Answerable(u)
                          /\ u # t => (Answered(u)' <=> Answered(u))
                          /\ Outgoing(u) => Outgoing(u)'
  BY <1>1, <1>2, <1>5, <1>6, <1>8, <1>9 DEF Answered, Answerable, Outgoing, TicketStays
<1>11. \A q \in Requesters : q # r => /\ Filling(q)' <=> Filling(q)
                                      /\ Sending(q)' <=> Sending(q)
                                      /\ Waiting(q)' <=> Waiting(q)
                                      /\ Done(q)' <=> Done(q)
  BY DEF CallerStays, Filling, Sending, Waiting, Done
<1>12. ~Filling(r)' /\ ~Sending(r)' /\ ~Waiting(r)' /\ ~Done(r)' /\ ~Sending(r)
  BY <1>7 DEF Filling, Sending, Waiting, Done
<1>13. t \notin ToSet(free) /\ tk_life[t] = "live"
  BY <1>4 DEF Alive, FreeInv, LiveInv
<1>14. FreeInv'
  BY <1>1, <1>5, <1>6, <1>13 DEF Alive, FreeInv
<1>15. LiveInv'
  BY <1>1, <1>5, <1>6, <1>13 DEF Alive, LiveInv
<1>16. OwnInv'
  BY <1>3, <1>5, <1>6 DEF Alive, OwnInv
<1>17. FreshInv'
  <2>. SUFFICES ASSUME NEW q \in Requesters, NEW u \in Tickets PROVE Fresh(q, u)'
    BY DEF FreshInv
  <2>. Fresh(q, u)
    BY DEF Alive, FreshInv
  <2>1. CASE q = r
    BY <1>7, <1>12, <2>1 DEF Fresh
  <2>2. CASE q # r
    <3>1. (tick[q] # t \/ pc[q] = "abandon") /\ itick[q] # t
      BY <1>4, <2>2 DEF Holds, Interrupts
    <3>. QED BY <1>1, <1>6, <1>11, <2>2, <3>1 DEF Fresh, CallerStays, TicketStays, Filling,
      Sending
  <2>. QED BY <2>1, <2>2
<1>18. SentInv'
  <2>. SUFFICES ASSUME NEW q \in Requesters, NEW u \in Tickets, tick[q] = u
                PROVE  Sent(q, u)'
    BY DEF SentInv, Sent
  <2>. Sent(q, u)
    BY DEF Alive, SentInv
  <2>1. CASE q = r
    BY <1>12, <2>1 DEF Sent
  <2>2. CASE q # r /\ u # t
    BY <1>1, <1>10, <1>11, <2>2 DEF Sent, CallerStays, TicketStays
  <2>3. CASE q # r /\ u = t
    <3>1. pc[q] = "abandon" /\ ~intr[q]
      BY <1>4, <2>3 DEF Holds, PtrInv
    <3>. QED BY <2>3, <3>1 DEF Sent, CallerStays, Waiting, Done
  <2>. QED BY <2>1, <2>2, <2>3
<1>19. MsInv'
  BY <1>6, <1>10 DEF Alive, MsInv
<1>20. AwInv'
  BY <1>1, <1>3, <1>4, <1>5, <1>6, <1>8, <1>9, <1>11, <1>12 DEF Alive, AwInv, TicketStays
<1>21. HandInv'
  <2>. SUFFICES ASSUME NEW z \in Servers, NEW u \in Tickets PROVE Hand(z, u)'
    BY DEF HandInv
  <2>. Hand(z, u)
    BY DEF Alive, HandInv
  <2>1. CASE u # t
    BY <1>1, <1>2, <1>5, <1>6, <1>10, <2>1 DEF Hand, TicketStays
  <2>2. CASE u = t
    BY <1>2, <1>5, <1>6, <1>8, <1>9, <1>10, <2>2 DEF Hand
  <2>. QED BY <2>1, <2>2
<1>22. InboxInv'
  <2>. SUFFICES ASSUME NEW m \in inbox PROVE \E u \in ToSet(aw) : Read(m, u)'
    BY DEF InboxInv
  <2>1. PICK u \in ToSet(aw) : Read(m, u)
    BY DEF Alive, InboxInv
  <2>. QED BY <2>1, <1>2, <1>3, <1>6, <1>11 DEF Read
<1>23. UniqueInv'
  <2>1. \A q \in Requesters : /\ pc[q] = "alloc" <=> pc'[q] = "alloc"
                              /\ pc[q] = "alloc" => Current(q)' = Current(q)
    BY DEF CallerStays, Current
  <2>2. Numbering' <=> Numbering
    BY <2>1 DEF Numbering
  <2>. QED BY <2>1, <2>2 DEF Alive, UniqueInv
<1>24. AgeInv'
  <2>. SUFFICES ASSUME NEW q \in Requesters, NEW u \in Tickets, pc'[q] = "abandon", tick[q] = u
                PROVE  (/\ tk_life[u] # "unborn" /\ age[q] <= tk_age[u]
                        /\ age[q] = tk_age[u] => ~Held(u) /\ ~Interrupts(u)
                             /\ u \notin ToSet(free))'
    BY DEF AgeInv
  <2>1. CASE q = r
    <3>1. tk_age[t] \in Nat
      BY DEF TypeOK, TicketType
    <3>. QED BY <1>4, <1>5, <1>6, <1>13, <2>1, <3>1
  <2>2. CASE q # r
    BY <1>5, <1>6, <2>2 DEF Alive, AgeInv, CallerStays
  <2>. QED BY <2>1, <2>2
<1>. QED
  BY <1>14, <1>15, <1>16, <1>17, <1>18, <1>19, <1>20, <1>21, <1>22, <1>23, <1>24 DEF Alive

\* A caller that has given its ticket up returns, and unhooks the handler if
\* the ticket still awaits the answer.
LEMMA CallerLetsGo ==
    ASSUME TypeOK, PtrInv, Alive, NEW r \in Requesters, NEW t \in Tickets, tick[r] = t,
           \A q \in Requesters : q # r => CallerStays(q),
           UNCHANGED <<queues, pool, tk_flag, tk_age, answers, daemon, op, intr, itick>>,
           \A u \in Tickets : tk_aw_handler'[u] # tk_aw_handler[u] =>
              u = t /\ StillMine(r) /\ tk_aw_handler'[u] # "standard",
           pc[r] = "abandon", pc'[r] = "idle", tick'[r] = NoTicket
    PROVE  Alive'
<1>. USE NullIsNoTicket, QueuesHoldTickets DEF queues, pool, answers, daemon
<1>1. \A u \in Tickets : /\ Clean(u)' <=> Clean(u)
                         /\ fticket_answered(u)' <=> fticket_answered(u)
                         /\ Request(u)' = Request(u)
  BY DEF Clean, fticket_answered, Request
<1>2. \A q \in Requesters, u \in Tickets : Holds(q, u)' <=> Holds(q, u)
  BY DEF Holds, CallerStays
<1>3. \A u \in Tickets : /\ Held(u)' <=> Held(u)
                         /\ Interrupts(u)' <=> Interrupts(u)
                         /\ InHand(u)' <=> InHand(u)
  BY <1>2 DEF Held, Interrupts, InHand
<1>4. ~intr[r] /\ itick[r] = NoTicket
  BY DEF PtrInv
<1>5. \A u \in Tickets : tk_aw_handler'[u] # tk_aw_handler[u] =>
         ~Held(u) /\ ~Interrupts(u) /\ u \in ToSet(aw)
  BY DEF StillMine, Alive, AgeInv
<1>6. \A u \in Tickets : /\ Answered(u)' <=> Answered(u)
                         /\ Answerable(u)' <=> Answerable(u)
                         /\ Outgoing(u)' <=> Outgoing(u)
  BY <1>1, <1>3 DEF Answered, Answerable, Outgoing
<1>7. \A q \in Requesters : q # r => /\ Filling(q)' <=> Filling(q)
                                     /\ Sending(q)' <=> Sending(q)
                                     /\ Waiting(q)' <=> Waiting(q)
                                     /\ Done(q)' <=> Done(q)
  BY DEF CallerStays, Filling, Sending, Waiting, Done
<1>8. ~Waiting(r) /\ ~Sending(r)
  BY <1>4 DEF Waiting, Sending
<1>9. FreeInv' /\ LiveInv'
  BY <1>1, <1>3 DEF Alive, FreeInv, LiveInv
<1>10. OwnInv'
  BY <1>2, <1>3 DEF Alive, OwnInv
<1>11. FreshInv'
  <2>. SUFFICES ASSUME NEW q \in Requesters, NEW u \in Tickets PROVE Fresh(q, u)'
    BY DEF FreshInv
  <2>. Fresh(q, u)
    BY DEF Alive, FreshInv
  <2>1. CASE q = r
    BY <1>4, <2>1 DEF Fresh
  <2>2. CASE q # r
    <3>1. tick[q] = u => pc[q] = "abandon" \/ tk_aw_handler'[u] = tk_aw_handler[u]
      BY <1>5 DEF Held, Holds
    <3>. QED BY <1>1, <1>3, <1>7, <2>2, <3>1 DEF Fresh, CallerStays, Filling, Sending
  <2>. QED BY <2>1, <2>2
<1>12. SentInv'
  <2>. SUFFICES ASSUME NEW q \in Requesters, NEW u \in Tickets, tick'[q] = u
                PROVE  Sent(q, u)'
    BY DEF SentInv, Sent
  <2>. Sent(q, u)
    BY DEF Alive, SentInv
  <2>1. q # r /\ tick[q] = u
    BY DEF CallerStays
  <2>2. Waiting(q) \/ Done(q) => tk_aw_handler'[u] = tk_aw_handler[u]
    BY <1>5, <2>1 DEF Held, Holds, Waiting, Done, PtrInv
  <2>. QED BY <1>1, <1>6, <1>7, <2>1, <2>2 DEF Sent, CallerStays
<1>13. MsInv'
  BY <1>3, <1>6 DEF Alive, MsInv
<1>14. AwInv'
  BY <1>1, <1>2, <1>3, <1>5, <1>7, <1>8 DEF Alive, AwInv, Held
<1>15. HandInv'
  <2>. SUFFICES ASSUME NEW z \in Servers, NEW u \in Tickets PROVE Hand(z, u)'
    BY DEF HandInv
  <2>. Hand(z, u)
    BY DEF Alive, HandInv
  <2>. QED BY <1>1, <1>3, <1>5, <1>6 DEF Hand
<1>16. InboxInv'
  <2>. SUFFICES ASSUME NEW m \in inbox PROVE \E u \in ToSet(aw) : Read(m, u)'
    BY DEF InboxInv
  <2>1. PICK u \in ToSet(aw) : Read(m, u)
    BY DEF Alive, InboxInv
  <2>. QED BY <2>1, <1>1, <1>2, <1>3, <1>7, <1>8 DEF Read
<1>17. UniqueInv'
  <2>1. \A q \in Requesters : /\ pc[q] = "alloc" <=> pc'[q] = "alloc"
                              /\ pc[q] = "alloc" => Current(q)' = Current(q)
    BY DEF CallerStays, Current
  <2>2. Numbering' <=> Numbering
    BY <2>1 DEF Numbering
  <2>. QED BY <2>1, <2>2 DEF Alive, UniqueInv
<1>18. AgeInv'
  BY <1>3 DEF Alive, AgeInv, CallerStays
<1>. QED
  BY <1>9, <1>10, <1>11, <1>12, <1>13, <1>14, <1>15, <1>16, <1>17, <1>18 DEF Alive

\* A caller that has its answer refreshes the ticket for its next message.
LEMMA CallerReuses ==
    ASSUME TypeOK, PtrInv, Alive, NEW r \in Requesters, NEW t \in Tickets, tick[r] = t,
           \A q \in Requesters : q # r => CallerStays(q),
           \A u \in Tickets : u # t => TicketStays(u),
           UNCHANGED <<queues, pool, daemon, op, tick, intr, itick, err, age>>,
           pc[r] = "have", pc'[r] = "insert_cb",
           tk_flag'[t] = {}, tk_age'[t] = tk_age[t] + 1
    PROVE  Alive'
<1>. USE NullIsNoTicket, QueuesHoldTickets DEF queues, pool, daemon
<1>1. \A u \in Tickets : u # t => /\ Clean(u)' <=> Clean(u)
                                  /\ fticket_answered(u)' <=> fticket_answered(u)
                                  /\ Request(u)' = Request(u)
  BY TicketSays
<1>2. \A q \in Requesters, u \in Tickets : Holds(q, u)' <=> Holds(q, u)
  BY DEF Holds, CallerStays
<1>3. \A u \in Tickets : /\ Held(u)' <=> Held(u)
                         /\ Interrupts(u)' <=> Interrupts(u)
                         /\ InHand(u)' <=> InHand(u)
  BY <1>2 DEF Held, Interrupts, InHand
<1>4. Held(t) /\ ~Interrupts(t) /\ \A q \in Requesters : Holds(q, t) => q = r
  BY DEF Alive, OwnInv, Held, Holds
<1>5. ~intr[r] /\ itick[r] = NoTicket
  BY DEF PtrInv
<1>6. t \notin ToSet(ms) /\ t \notin ToSet(aw) /\ ~InHand(t)
  BY DEF Alive, SentInv, Sent, Done, Answered
<1>7. Clean(t)'
  BY DEF Clean
<1>8. \A u \in Tickets : u # t =>
         /\ Answered(u)' <=> Answered(u)
         /\ Answerable(u)' <=> Answerable(u)
         /\ Outgoing(u)' <=> Outgoing(u)
  BY <1>1, <1>3 DEF Answered, Answerable, Outgoing, TicketStays
<1>9. \A q \in Requesters : q # r => /\ Filling(q)' <=> Filling(q)
                                     /\ Sending(q)' <=> Sending(q)
                                     /\ Waiting(q)' <=> Waiting(q)
                                     /\ Done(q)' <=> Done(q)
  BY DEF CallerStays, Filling, Sending, Waiting, Done
<1>10. ~Sending(r)' /\ ~Waiting(r)' /\ ~Done(r)' /\ ~Sending(r) /\ ~Waiting(r)
  BY <1>5 DEF Sending, Waiting, Done
<1>11. t \notin ToSet(free) /\ tk_life[t] = "live"
  BY <1>4 DEF Alive, FreeInv, LiveInv
<1>12. FreeInv' /\ LiveInv'
  BY <1>1, <1>3, <1>11 DEF Alive, FreeInv, LiveInv
<1>13. OwnInv'
  BY <1>2, <1>3 DEF Alive, OwnInv
<1>14. FreshInv'
  <2>. SUFFICES ASSUME NEW q \in Requesters, NEW u \in Tickets PROVE Fresh(q, u)'
    BY DEF FreshInv
  <2>. Fresh(q, u)
    BY DEF Alive, FreshInv
  <2>1. CASE q = r
    BY <1>3, <1>5, <1>6, <1>7, <1>10, <2>1 DEF Fresh
  <2>2. CASE q # r
    <3>1. (tick[q] # t \/ pc[q] = "abandon") /\ itick[q] # t
      BY <1>4, <2>2 DEF Holds, Interrupts
    <3>. QED BY <1>1, <1>3, <1>9, <2>2, <3>1 DEF Fresh, CallerStays, TicketStays, Filling, Sending
  <2>. QED BY <2>1, <2>2
<1>15. SentInv'
  <2>. SUFFICES ASSUME NEW q \in Requesters, NEW u \in Tickets, tick[q] = u
                PROVE  Sent(q, u)'
    BY DEF SentInv, Sent
  <2>. Sent(q, u)
    BY DEF Alive, SentInv
  <2>1. CASE q = r
    BY <1>10, <2>1 DEF Sent
  <2>2. CASE q # r /\ u # t
    BY <1>1, <1>8, <1>9, <2>2 DEF Sent, CallerStays, TicketStays
  <2>3. CASE q # r /\ u = t
    <3>1. pc[q] = "abandon" /\ ~intr[q]
      BY <1>4, <2>3 DEF Holds, PtrInv
    <3>. QED BY <2>3, <3>1 DEF Sent, CallerStays, Waiting, Done
  <2>. QED BY <2>1, <2>2, <2>3
<1>16. MsInv'
  BY <1>3, <1>6, <1>8 DEF Alive, MsInv
<1>17. AwInv'
  BY <1>1, <1>2, <1>3, <1>6, <1>9, <1>10 DEF Alive, AwInv, TicketStays
<1>18. HandInv'
  <2>1. \A z \in Servers : stick[z] # t
    BY <1>6 DEF InHand
  <2>. QED BY <1>1, <1>3, <1>8, <2>1 DEF Alive, HandInv, Hand, TicketStays
<1>19. InboxInv'
  <2>. SUFFICES ASSUME NEW m \in inbox PROVE \E u \in ToSet(aw) : Read(m, u)'
    BY DEF InboxInv
  <2>1. PICK u \in ToSet(aw) : Read(m, u)
    BY DEF Alive, InboxInv
  <2>2. u # t
    BY <1>6
  <2>. QED BY <2>1, <2>2, <1>1, <1>2, <1>3, <1>9, <1>10 DEF Read
<1>20. UniqueInv'
  <2>1. \A q \in Requesters : /\ pc[q] = "alloc" <=> pc'[q] = "alloc"
                              /\ pc[q] = "alloc" => Current(q)' = Current(q)
    BY DEF CallerStays, Current
  <2>2. Numbering' <=> Numbering
    BY <2>1 DEF Numbering
  <2>. QED BY <2>1, <2>2 DEF Alive, UniqueInv
<1>21. AgeInv'
  <2>. SUFFICES ASSUME NEW q \in Requesters, NEW u \in Tickets, pc'[q] = "abandon", tick[q] = u
                PROVE  (/\ tk_life[u] # "unborn" /\ age[q] <= tk_age[u]
                        /\ age[q] = tk_age[u] => ~Held(u) /\ ~Interrupts(u)
                             /\ u \notin ToSet(free))'
    BY DEF AgeInv
  <2>1. q # r /\ pc[q] = "abandon" /\ age[q] <= tk_age[u] /\ age[q] \in Nat /\ tk_age[u] \in Nat
    BY DEF CallerStays, Alive, AgeInv, TypeOK, CallerType, TicketType
  <2>2. CASE u # t
    BY <1>3, <2>1, <2>2 DEF Alive, AgeInv, TicketStays
  <2>3. CASE u = t
    BY <1>11, <2>1, <2>3
  <2>. QED BY <2>2, <2>3
<1>. QED
  BY <1>12, <1>13, <1>14, <1>15, <1>16, <1>17, <1>18, <1>19, <1>20, <1>21 DEF Alive

\* The daemon has read a message that wants an answer.
LEMMA ServerDelivers ==
    ASSUME TypeOK, PtrInv, Alive, NEW s \in Servers, NEW t \in Tickets, stick[s] = t,
           \A z \in Servers : z # s => ServerStays(z),
           UNCHANGED <<queues, pool, tk_flag, tk_age, tk_aw_handler, answers, callers>>,
           spc[s] = "finish", stick'[s] = NoTicket, "INVAL" \notin tk_flag[t],
           \A m \in inbox' : \/ m \in inbox
                             \/ /\ ~fticket_answered(t)
                                /\ m.unique = tk_unique[t] /\ m.req = Request(t)
    PROVE  Alive'
<1>. USE NullIsNoTicket, QueuesHoldTickets DEF queues, pool, answers, callers
<1>1. \A u \in Tickets : /\ Clean(u)' <=> Clean(u)
                         /\ fticket_answered(u)' <=> fticket_answered(u)
                         /\ Request(u)' = Request(u)
  BY DEF Clean, fticket_answered, Request
<1>2. \A q \in Requesters, u \in Tickets : Holds(q, u)' <=> Holds(q, u)
  BY DEF Holds
<1>3. \A u \in Tickets : /\ Held(u)' <=> Held(u)
                         /\ Interrupts(u)' <=> Interrupts(u)
  BY <1>2 DEF Held, Interrupts
<1>4. \A u \in Tickets : InHand(u)' <=> InHand(u) /\ u # t
  BY DEF InHand, ServerStays, Alive, OwnInv
<1>5. t \notin ToSet(ms) /\ t \in ToSet(aw)
  BY DEF Alive, HandInv, Hand, Outgoing
<1>6. \A u \in Tickets : /\ Answered(u) => Answered(u)'
                         /\ Outgoing(u)' <=> Outgoing(u)
                         /\ Answerable(u) => Answerable(u)'
  BY <1>1, <1>3, <1>4 DEF Answered, Answerable, Outgoing, ServerStays
<1>7. \A q \in Requesters : /\ Filling(q)' <=> Filling(q)
                            /\ Sending(q)' <=> Sending(q)
                            /\ Waiting(q)' <=> Waiting(q)
                            /\ Done(q)' <=> Done(q)
  BY DEF Filling, Sending, Waiting, Done
<1>8. FreeInv' /\ LiveInv'
  BY <1>1, <1>3, <1>4 DEF Alive, FreeInv, LiveInv
<1>9. OwnInv'
  <2>1. \A u \in Tickets, z, y \in Servers : stick'[z] = u /\ stick'[y] = u => z = y
    BY DEF Alive, OwnInv, ServerStays
  <2>. QED BY <1>2, <1>3, <2>1 DEF Alive, OwnInv
<1>10. FreshInv'
  BY <1>1, <1>4, <1>7 DEF Alive, FreshInv, Fresh
<1>11. SentInv'
  BY <1>1, <1>6, <1>7 DEF Alive, SentInv, Sent
<1>12. MsInv'
  BY <1>4, <1>6 DEF Alive, MsInv
<1>13. AwInv'
  BY <1>1, <1>2, <1>3, <1>7 DEF Alive, AwInv
<1>14. HandInv'
  BY <1>1, <1>3, <1>6 DEF Alive, HandInv, Hand, ServerStays
<1>15. InboxInv'
  <2>. SUFFICES ASSUME NEW m \in inbox' PROVE \E u \in ToSet(aw) : Read(m, u)'
    BY DEF InboxInv
  <2>1. CASE m \in inbox
    <3>1. PICK u \in ToSet(aw) : Read(m, u)
      BY <2>1 DEF Alive, InboxInv
    <3>. QED BY <3>1, <1>1, <1>2, <1>4, <1>7 DEF Read
  <2>2. CASE ~fticket_answered(t) /\ m.unique = tk_unique[t] /\ m.req = Request(t)
    <3>. SUFFICES ASSUME NEW q \in Requesters, Holds(q, t) PROVE Waiting(q)
      BY <1>1, <1>2, <1>4, <1>5, <1>7, <2>2 DEF Read
    <3>1. Fresh(q, t) /\ Sent(q, t) /\ InHand(t)
      BY DEF Alive, FreshInv, SentInv, InHand
    <3>2. ~Filling(q) /\ ~Sending(q) /\ ~Done(q)
      BY <1>5, <2>2, <3>1 DEF Holds, Fresh, Sent
    <3>. QED BY <3>2 DEF Filling, Sending, Done, Waiting, Holds, PtrInv, TypeOK, CallerType,
      RequesterPCs
  <2>. QED BY <2>1, <2>2
<1>16. UniqueInv'
  BY DEF Alive, UniqueInv, Numbering, Current
<1>17. AgeInv'
  BY <1>3 DEF Alive, AgeInv
<1>. QED
  BY <1>8, <1>9, <1>10, <1>11, <1>12, <1>13, <1>14, <1>15, <1>16, <1>17 DEF Alive

\* A daemon thread takes the ticket that its reply answers.
LEMMA ServerTakes ==
    ASSUME TypeOK, PtrInv, Alive, NEW s \in Servers, NEW t \in ToSet(aw), NEW m \in inbox,
           \A z \in Servers : z # s => ServerStays(z),
           UNCHANGED <<ms, pool, tk_flag, tk_age, tk_aw_handler, answers, callers>>,
           ToSet(aw') = ToSet(aw) \ {t}, inbox' = inbox \ {m}, tk_unique[t] = m.unique,
           stick[s] = NoTicket, stick'[s] = t, spc'[s] = "handler", sreply'[s].req = m.req
    PROVE  Alive'
<1>. USE NullIsNoTicket, QueuesHoldTickets DEF pool, answers, callers
<1>1. \A u \in Tickets : /\ Clean(u)' <=> Clean(u)
                         /\ fticket_answered(u)' <=> fticket_answered(u)
                         /\ Request(u)' = Request(u)
  BY DEF Clean, fticket_answered, Request
<1>2. \A q \in Requesters, u \in Tickets : Holds(q, u)' <=> Holds(q, u)
  BY DEF Holds
<1>3. \A u \in Tickets : /\ Held(u)' <=> Held(u)
                         /\ Interrupts(u)' <=> Interrupts(u)
                         /\ InHand(u)' <=> InHand(u) \/ u = t
  BY <1>2 DEF Held, Interrupts, InHand, ServerStays
<1>4. Read(m, t)
  <2>1. PICK u \in ToSet(aw) : Read(m, u)
    BY DEF Alive, InboxInv
  <2>2. tk_life[t] = "live" /\ tk_life[u] = "live"
    BY DEF Alive, LiveInv
  <2>3. u = t
    BY <2>1, <2>2 DEF Alive, UniqueInv, Read
  <2>. QED BY <2>1, <2>3
<1>5. /\ t \notin ToSet(ms) /\ ~InHand(t) /\ m.req = Request(t)
      /\ \A q \in Requesters : Holds(q, t) => Waiting(q)
  BY <1>4 DEF Read
<1>6. \A q \in Requesters : ~(Sending(q) /\ Waiting(q)) /\ ~(Filling(q) /\ Waiting(q))
  BY DEF Sending, Waiting, Filling
<1>7. \A u \in Tickets : /\ u # t => (Outgoing(u)' <=> Outgoing(u))
                         /\ Answerable(u) => Answerable(u)'
                         /\ Answered(u) => Answered(u)'
  BY <1>1, <1>3 DEF Answered, Answerable, Outgoing, ServerStays
<1>8. \A q \in Requesters : /\ Filling(q)' <=> Filling(q)
                            /\ Sending(q)' <=> Sending(q)
                            /\ Waiting(q)' <=> Waiting(q)
                            /\ Done(q)' <=> Done(q)
  BY DEF Filling, Sending, Waiting, Done
<1>9. FreeInv' /\ LiveInv'
  BY <1>1, <1>3 DEF Alive, FreeInv, LiveInv
<1>10. OwnInv'
  <2>1. \A u \in Tickets, z, y \in Servers : stick'[z] = u /\ stick'[y] = u => z = y
    BY <1>5 DEF Alive, OwnInv, ServerStays, InHand
  <2>. QED BY <1>2, <1>3, <2>1 DEF Alive, OwnInv
<1>11. FreshInv'
  <2>. SUFFICES ASSUME NEW q \in Requesters, NEW u \in Tickets PROVE Fresh(q, u)'
    BY DEF FreshInv
  <2>. Fresh(q, u)
    BY DEF Alive, FreshInv
  <2>1. CASE u # t
    BY <1>1, <1>3, <1>8, <2>1 DEF Fresh
  <2>2. CASE u = t
    <3>1. itick[q] # t
      BY DEF Alive, AwInv, Interrupts
    <3>2. tick[q] = t => ~Filling(q) /\ ~Sending(q) /\ pc[q] # "push_aw"
      BY <1>5, <1>6 DEF Holds, Filling, Sending, Waiting, PtrInv
    <3>. QED BY <1>8, <2>2, <3>1, <3>2 DEF Fresh
  <2>. QED BY <2>1, <2>2
<1>12. SentInv'
  BY <1>1, <1>7, <1>8 DEF Alive, SentInv, Sent
<1>13. MsInv'
  BY <1>3, <1>5, <1>7 DEF Alive, MsInv
<1>14. AwInv'
  BY <1>1, <1>2, <1>3, <1>8 DEF Alive, AwInv
<1>15. HandInv'
  <2>. SUFFICES ASSUME NEW z \in Servers, NEW u \in Tickets PROVE Hand(z, u)'
    BY DEF HandInv
  <2>. Hand(z, u)
    BY DEF Alive, HandInv
  <2>1. CASE z # s
    <3>1. stick[z] # t
      BY <1>5 DEF InHand
    <3>. QED BY <1>1, <1>3, <1>7, <2>1, <3>1 DEF Hand, ServerStays
  <2>2. CASE z = s
    <3>1. /\ "INVAL" \notin tk_flag[t] /\ ~Interrupts(t)
          /\ fticket_answered(t) => ~Held(t)
          /\ tk_aw_handler[t] = "standard" /\ ~fticket_answered(t) => Held(t)
      BY DEF Alive, AwInv
    <3>2. tk_aw_handler[t] # "standard" => ~Held(t)
      BY <1>5, <1>6 DEF Alive, AwInv, Held
    <3>. QED BY <1>1, <1>3, <1>5, <2>2, <3>1, <3>2 DEF Hand
  <2>. QED BY <2>1, <2>2
<1>16. InboxInv'
  <2>. SUFFICES ASSUME NEW n \in inbox, n # m PROVE \E u \in ToSet(aw') : Read(n, u)'
    BY DEF InboxInv
  <2>1. PICK u \in ToSet(aw) : Read(n, u)
    BY DEF Alive, InboxInv
  <2>2. u # t
    <3>1. n \in [unique : Nat, req : Requests] /\ m \in [unique : Nat, req : Requests]
      BY DEF TypeOK, DaemonType
    <3>2. n.unique # m.unique \/ n.req # m.req
      BY <3>1
    <3>. QED BY <1>4, <2>1, <3>2 DEF Read
  <2>. QED BY <2>1, <2>2, <1>1, <1>2, <1>3, <1>8 DEF Read
<1>17. UniqueInv'
  BY DEF Alive, UniqueInv, Numbering, Current
<1>18. AgeInv'
  BY <1>3 DEF Alive, AgeInv
<1>. QED
  BY <1>9, <1>10, <1>11, <1>12, <1>13, <1>14, <1>15, <1>16, <1>17, <1>18 DEF Alive

\* A daemon thread copies a reply in: into the ticket of somebody who waits for
\* it, or for nobody.
LEMMA ServerCopies ==
    ASSUME TypeOK, PtrInv, Alive, NEW s \in Servers, NEW t \in Tickets, stick[s] = t,
           \A z \in Servers : z # s => ServerStays(z),
           \A u \in Tickets : u # t => TicketStays(u),
           UNCHANGED <<queues, pool, tk_age, tk_aw_handler, callers, stick, inbox>>,
           spc[s] = "handler",
           tk_flag'[t] \in {tk_flag[t], tk_flag[t] \union {"KILLL"}},
           tk_aw_handler[t] = "standard" =>
              spc'[s] = "answer" /\ tk_aw_ohead'[t].req = sreply[s].req,
           tk_aw_handler[t] # "standard" => spc'[s] = "drop"
    PROVE  Alive'
<1>. USE NullIsNoTicket, QueuesHoldTickets DEF queues, pool, callers
<1>1. \A u \in Tickets : /\ Clean(u)' <=> Clean(u)
                         /\ fticket_answered(u)' <=> fticket_answered(u)
                         /\ Request(u)' = Request(u)
                         /\ "DIRTY" \in tk_flag'[u] <=> "DIRTY" \in tk_flag[u]
                         /\ "INVAL" \in tk_flag'[u] <=> "INVAL" \in tk_flag[u]
  <2>1. \A u \in Tickets : tk_flag'[u] \in {tk_flag[u], tk_flag[u] \union {"KILLL"}}
    BY DEF TicketStays
  <2>. QED BY <2>1 DEF Clean, fticket_answered, Request
<1>2. \A q \in Requesters, u \in Tickets : Holds(q, u)' <=> Holds(q, u)
  BY DEF Holds
<1>3. \A u \in Tickets : /\ Held(u)' <=> Held(u)
                         /\ Interrupts(u)' <=> Interrupts(u)
                         /\ InHand(u)' <=> InHand(u)
  BY <1>2 DEF Held, Interrupts, InHand
<1>4. InHand(t) /\ Hand(s, t)
  BY DEF InHand, Alive, HandInv
<1>5. \A u \in Tickets : /\ Outgoing(u)' <=> Outgoing(u)
                         /\ Answered(u) => Answered(u)'
                         /\ Answerable(u) => Answerable(u)' \/ u = t
  BY <1>1, <1>3, <1>4 DEF Answered, Answerable, Outgoing, ServerStays, TicketStays
<1>6. tk_aw_handler[t] = "standard" => Answerable(t)'
  BY DEF Answerable
<1>7. \A q \in Requesters : /\ Filling(q)' <=> Filling(q)
                            /\ Sending(q)' <=> Sending(q)
                            /\ Waiting(q)' <=> Waiting(q)
                            /\ Done(q)' <=> Done(q)
  BY DEF Filling, Sending, Waiting, Done
<1>8. FreeInv' /\ LiveInv'
  BY <1>1, <1>3 DEF Alive, FreeInv, LiveInv
<1>9. OwnInv'
  BY <1>2, <1>3 DEF Alive, OwnInv
<1>10. FreshInv'
  BY <1>1, <1>3, <1>7 DEF Alive, FreshInv, Fresh
<1>11. SentInv'
  <2>. SUFFICES ASSUME NEW q \in Requesters, NEW u \in Tickets PROVE Sent(q, u)'
    BY DEF SentInv
  <2>. Sent(q, u)
    BY DEF Alive, SentInv
  <2>. QED BY <1>1, <1>5, <1>6, <1>7 DEF Sent
<1>12. MsInv'
  BY <1>3, <1>5 DEF Alive, MsInv
<1>13. AwInv'
  BY <1>1, <1>2, <1>3, <1>7 DEF Alive, AwInv
<1>14. HandInv'
  <2>. SUFFICES ASSUME NEW z \in Servers, NEW u \in Tickets PROVE Hand(z, u)'
    BY DEF HandInv
  <2>. Hand(z, u)
    BY DEF Alive, HandInv
  <2>1. CASE z # s
    <3>1. stick[z] = u => u # t
      BY <2>1 DEF Alive, OwnInv
    <3>. QED BY <1>1, <1>3, <1>5, <2>1, <3>1 DEF Hand, ServerStays, TicketStays
  <2>2. CASE z = s
    BY <1>1, <1>3, <1>4, <2>2 DEF Hand
  <2>. QED BY <2>1, <2>2
<1>15. InboxInv'
  <2>. SUFFICES ASSUME NEW m \in inbox PROVE \E u \in ToSet(aw) : Read(m, u)'
    BY DEF InboxInv
  <2>1. PICK u \in ToSet(aw) : Read(m, u)
    BY DEF Alive, InboxInv
  <2>. QED BY <2>1, <1>1, <1>2, <1>3, <1>7 DEF Read
<1>16. UniqueInv'
  BY DEF Alive, UniqueInv, Numbering, Current
<1>17. AgeInv'
  BY <1>3 DEF Alive, AgeInv
<1>. QED
  BY <1>8, <1>9, <1>10, <1>11, <1>12, <1>13, <1>14, <1>15, <1>16, <1>17 DEF Alive

\* A daemon thread hands a reply to the caller that waits for it.
LEMMA ServerAnswers ==
    ASSUME TypeOK, PtrInv, Alive, NEW s \in Servers, NEW t \in Tickets, stick[s] = t,
           \A z \in Servers : z # s => ServerStays(z),
           \A u \in Tickets : u # t => TicketStays(u),
           UNCHANGED <<queues, pool, tk_age, tk_aw_handler, tk_aw_ohead, op, tick, intr, itick,
                       err, age, inbox>>,
           \A q \in Requesters :
              pc'[q] = IF pc[q] = "asleep" /\ tick[q] = t THEN "woken" ELSE pc[q],
           spc[s] = "answer", stick'[s] = NoTicket, ~fticket_answered(t),
           tk_flag'[t] = tk_flag[t] \union {"ANSW"}
    PROVE  Alive'
<1>. USE NullIsNoTicket, QueuesHoldTickets DEF queues, pool
<1>1. \A u \in Tickets : /\ u # t => (Clean(u)' <=> Clean(u))
                         /\ fticket_answered(u)' <=> fticket_answered(u) \/ u = t
                         /\ Request(u)' = Request(u)
                         /\ "DIRTY" \in tk_flag'[u] <=> "DIRTY" \in tk_flag[u]
                         /\ "INVAL" \in tk_flag'[u] <=> "INVAL" \in tk_flag[u]
  BY DEF Clean, fticket_answered, Request, TicketStays
<1>2. \A q \in Requesters, u \in Tickets : Holds(q, u)' <=> Holds(q, u)
  BY DEF Holds
<1>3. \A u \in Tickets : /\ Held(u)' <=> Held(u)
                         /\ Interrupts(u)' <=> Interrupts(u)
  BY <1>2 DEF Held, Interrupts
<1>4. \A u \in Tickets : InHand(u)' <=> InHand(u) /\ u # t
  BY DEF InHand, ServerStays, Alive, OwnInv
<1>5. InHand(t) /\ Hand(s, t)
  BY DEF InHand, Alive, HandInv
<1>6. /\ t \notin ToSet(ms) /\ t \notin ToSet(aw) /\ Held(t)
      /\ t \notin ToSet(free) /\ tk_life[t] = "live" /\ ~Interrupts(t)
      /\ tk_aw_ohead[t].req = Request(t)
  BY <1>5 DEF Hand, Alive, FreeInv, LiveInv
<1>7. Answered(t)'
  BY <1>1, <1>4, <1>6 DEF Answered
<1>8. \A u \in Tickets : /\ u # t => (Outgoing(u)' <=> Outgoing(u))
                         /\ Answered(u) => Answered(u)'
                         /\ Answerable(u) => Answerable(u)' \/ u = t
  BY <1>1, <1>3, <1>4, <1>5 DEF Answered, Answerable, Outgoing, ServerStays
<1>9. \A q \in Requesters : /\ Filling(q)' <=> Filling(q)
                            /\ Sending(q)' <=> Sending(q)
                            /\ Waiting(q)' <=> Waiting(q)
                            /\ Done(q)' <=> Done(q)
                            /\ pc'[q] # pc[q] => pc'[q] = "woken" /\ tick[q] = t
  BY DEF Filling, Sending, Waiting, Done
<1>10. FreeInv'
  BY <1>1, <1>3, <1>4, <1>6 DEF Alive, FreeInv
<1>11. LiveInv'
  BY <1>1, <1>3, <1>4, <1>6 DEF Alive, LiveInv
<1>12. OwnInv'
  <2>1. \A u \in Tickets, z, y \in Servers : stick'[z] = u /\ stick'[y] = u => z = y
    BY DEF Alive, OwnInv, ServerStays
  <2>. QED BY <1>2, <1>3, <2>1 DEF Alive, OwnInv
<1>13. FreshInv'
  <2>. SUFFICES ASSUME NEW q \in Requesters, NEW u \in Tickets PROVE Fresh(q, u)'
    BY DEF FreshInv
  <2>. Fresh(q, u)
    BY DEF Alive, FreshInv
  <2>1. CASE u # t
    BY <1>1, <1>4, <1>9, <2>1 DEF Fresh
  <2>2. CASE u = t
    <3>1. itick[q] # t
      BY <1>6 DEF Interrupts
    <3>2. tick[q] = t => ~Filling(q) /\ ~Sending(q)
      BY <1>5, <2>2 DEF Fresh
    <3>3. tick[q] = t => pc[q] # "push_aw"
      BY <3>2 DEF Filling, PtrInv
    <3>. QED BY <1>9, <2>2, <3>1, <3>2, <3>3 DEF Fresh
  <2>. QED BY <2>1, <2>2
<1>14. SentInv'
  <2>. SUFFICES ASSUME NEW q \in Requesters, NEW u \in Tickets, tick[q] = u PROVE Sent(q, u)'
    BY DEF SentInv, Sent
  <2>. Sent(q, u)
    BY DEF Alive, SentInv
  <2>1. CASE u # t
    BY <1>1, <1>8, <1>9, <2>1 DEF Sent
  <2>2. CASE u = t
    BY <1>1, <1>7, <1>9, <2>2 DEF Sent
  <2>. QED BY <2>1, <2>2
<1>15. MsInv'
  BY <1>4, <1>6, <1>8 DEF Alive, MsInv
<1>16. AwInv'
  BY <1>1, <1>2, <1>3, <1>6, <1>9 DEF Alive, AwInv
<1>17. HandInv'
  <2>. SUFFICES ASSUME NEW z \in Servers, NEW u \in Tickets PROVE Hand(z, u)'
    BY DEF HandInv
  <2>. Hand(z, u)
    BY DEF Alive, HandInv
  <2>1. CASE z # s
    <3>1. stick[z] = u => u # t
      BY <2>1 DEF Alive, OwnInv
    <3>. QED BY <1>1, <1>3, <1>8, <2>1, <3>1 DEF Hand, ServerStays
  <2>2. CASE z = s
    BY <2>2 DEF Hand
  <2>. QED BY <2>1, <2>2
<1>18. InboxInv'
  <2>. SUFFICES ASSUME NEW m \in inbox PROVE \E u \in ToSet(aw) : Read(m, u)'
    BY DEF InboxInv
  <2>1. PICK u \in ToSet(aw) : Read(m, u)
    BY DEF Alive, InboxInv
  <2>. QED BY <2>1, <1>1, <1>2, <1>4, <1>9 DEF Read
<1>19. UniqueInv'
  <2>1. \A q \in Requesters : /\ pc'[q] = "alloc" <=> pc[q] = "alloc"
                              /\ Current(q)' = Current(q)
    BY DEF Current
  <2>2. Numbering' <=> Numbering
    BY <2>1 DEF Numbering
  <2>. QED BY <2>1, <2>2 DEF Alive, UniqueInv
<1>20. AgeInv'
  BY <1>3, <1>9 DEF Alive, AgeInv
<1>. QED
  BY <1>10, <1>11, <1>12, <1>13, <1>14, <1>15, <1>16, <1>17, <1>18, <1>19, <1>20 DEF Alive

-----------------------------------------------------------------------------
\* The queues lose tickets at most, and nobody comes to the point of pushing.
LEMMA QueuesStay ==
    ASSUME QueueInv, IsInjective(ms'), IsInjective(aw'),
           ToSet(ms') \subseteq ToSet(ms), ToSet(aw') \subseteq ToSet(aw),
           \A q \in Requesters : pc'[q] \in {"push_aw", "push_ms"} => CallerStays(q)
    PROVE  QueueInv'
<1>1. \A q \in Requesters : pc'[q] \in {"push_aw", "push_ms"} =>
         pc[q] = pc'[q] /\ tick'[q] = tick[q] /\ Current(q)' = Current(q)
  BY DEF CallerStays, Current
<1>. QED BY <1>1 DEF QueueInv, QueuedOnce

\* A caller comes to the point of pushing a ticket that nobody else has.
LEMMA CallerWillPush ==
    ASSUME QueueInv, NEW r \in Requesters, ms' = ms, aw' = aw,
           \A q \in Requesters : q # r => CallerStays(q),
           pc'[r] \in {"push_aw", "push_ms"},
           pc'[r] = "push_aw" =>
              /\ tick'[r] \notin ToSet(aw)
              /\ \A q \in Requesters : q # r /\ pc[q] = "push_aw" => tick[q] # tick'[r],
           pc'[r] = "push_ms" =>
              /\ Current(r)' \notin ToSet(ms)
              /\ \A q \in Requesters : q # r /\ pc[q] = "push_ms" => Current(q) # Current(r)'
    PROVE  QueueInv'
<1>1. \A q \in Requesters : q # r =>
         pc[q] = pc'[q] /\ tick'[q] = tick[q] /\ Current(q)' = Current(q)
  BY DEF CallerStays, Current
<1>. QED BY <1>1 DEF QueueInv, QueuedOnce

\* One caller goes on, and readers wake up at most.
LEMMA CallerPoints ==
    ASSUME PtrInv, NEW r \in Requesters,
           \A q \in Requesters : q # r => CallerStays(q),
           stick' = stick,
           \A z \in Servers : spc'[z] = spc[z] \/ (spc[z] = "asleep" /\ spc'[z] = "woken"),
           tick'[r] = NoTicket <=> \/ pc'[r] \in {"idle", "initsync"}
                                   \/ pc'[r] = "fetch" /\ ~intr'[r],
           itick'[r] = NoTicket <=> ~intr'[r] \/ pc'[r] = "fetch",
           intr'[r] => pc'[r] \in {"fetch", "alloc", "insert_msg", "push_ms"},
           Waiting(r)' \/ Done(r)' \/ pc'[r] = "abandon" => op'[r] \in Wanted,
           pc'[r] \in {"insert_cb", "push_aw"} => op'[r] # "forget"
    PROVE  PtrInv'
<1>1. \A q \in Requesters : q # r => /\ Waiting(q)' <=> Waiting(q)
                                     /\ Done(q)' <=> Done(q)
  BY DEF CallerStays, Waiting, Done
<1>2. ASSUME NEW q \in Requesters
      PROVE  (/\ tick[q] = NoTicket <=> \/ pc[q] \in {"idle", "initsync"}
                                        \/ pc[q] = "fetch" /\ ~intr[q]
              /\ itick[q] = NoTicket <=> ~intr[q] \/ pc[q] = "fetch"
              /\ intr[q] => pc[q] \in {"fetch", "alloc", "insert_msg", "push_ms"}
              /\ Waiting(q) \/ Done(q) \/ pc[q] = "abandon" => op[q] \in Wanted
              /\ pc[q] \in {"insert_cb", "push_aw"} => op[q] # "forget")'
  <2>1. CASE q = r
    BY <2>1 DEF Wanted
  <2>2. CASE q # r
    BY <1>1, <2>2 DEF PtrInv, CallerStays, Wanted
  <2>. QED BY <2>1, <2>2
<1>3. \A z \in Servers : stick'[z] = NoTicket <=> spc'[z] \in {"user", "asleep", "woken", "gone"}
  BY DEF PtrInv
<1>. QED BY <1>2, <1>3 DEF PtrInv

\* A daemon thread goes on.
LEMMA ServerPoints ==
    ASSUME PtrInv, NEW s \in Servers, UNCHANGED callers,
           \A z \in Servers : z # s => ServerStays(z),
           stick'[s] = NoTicket <=> spc'[s] \in {"user", "asleep", "woken", "gone"}
    PROVE  PtrInv'
<1>1. \A z \in Servers : stick'[z] = NoTicket <=> spc'[z] \in {"user", "asleep", "woken", "gone"}
  BY DEF PtrInv, ServerStays
<1>. QED BY <1>1 DEF PtrInv, callers, Waiting, Done, Wanted

\* A session that has ended stays so.
LEMMA EndStays ==
    ASSUME EndInv, dead => dead',
           drain' # drain => dead', closed' => closed \/ dead',
           \A z \in Servers : spc'[z] = "gone" => spc[z] = "gone" \/ dead'
    PROVE  EndInv'
  BY DEF EndInv

\* Where a caller goes once its message is out, or need not go out.
LEMMA AfterSendMoves ==
    ASSUME CallerType, PtrInv, NEW r \in Requesters, AfterSend(r),
           pc[r] \in {"insert_msg", "push_ms"}
    PROVE  /\ \A q \in Requesters : q # r => CallerStays(q)
           /\ op'[r] = op[r] /\ ~intr'[r] /\ itick'[r] = NoTicket
           /\ intr[r] => tick'[r] = tick[r] /\ pc'[r] = "waited" /\ err'[r] = "EINTR"
           /\ ~intr[r] /\ op[r] \in Wanted => tick'[r] = tick[r] /\ pc'[r] = "wait"
           /\ ~intr[r] /\ op[r] \notin Wanted => tick'[r] = NoTicket /\ pc'[r] = "idle"
<1>1. CASE intr[r]
  <2>1. /\ pc' = [pc EXCEPT ![r] = "waited"] /\ itick' = [itick EXCEPT ![r] = NoTicket]
        /\ err' = [err EXCEPT ![r] = "EINTR"] /\ UNCHANGED <<op, tick, age>>
    BY <1>1 DEF AfterSend, Goto
  <2>2. ~intr'[r] /\ \A q \in Requesters : q # r => (intr'[q] <=> intr[q])
    BY <1>1 DEF AfterSend, CallerType
  <2>. QED BY <1>1, <2>1, <2>2 DEF CallerStays, CallerType
<1>2. CASE ~intr[r] /\ op[r] \in Wanted
  BY <1>2 DEF AfterSend, Goto, Wanted, CallerStays, CallerType, PtrInv
<1>3. CASE ~intr[r] /\ op[r] \notin Wanted
  BY <1>3 DEF AfterSend, Return, Wanted, CallerStays, CallerType, PtrInv
<1>. QED BY <1>1, <1>2, <1>3

\* Where a caller goes once its ticket is dropped.
LEMMA AfterDropMoves ==
    ASSUME CallerType, NEW r \in Requesters, AfterDrop(r)
    PROVE  /\ \A q \in Requesters : q # r => CallerStays(q)
           /\ pc'[r] \in {"idle", "initsync"} /\ tick'[r] = NoTicket
           /\ UNCHANGED <<op, intr, itick>>
<1>1. CASE op[r] = "init" /\ err[r] \in {"0", "EPROTO"}
  BY <1>1 DEF AfterDrop, Goto, CallerStays, CallerType
<1>2. CASE ~(op[r] = "init" /\ err[r] \in {"0", "EPROTO"})
  BY <1>2 DEF AfterDrop, Return, CallerStays, CallerType
<1>. QED BY <1>1, <1>2

\* A ticket that is not free is put on the free list.
LEMMA PushedFree ==
    ASSUME TypeOK, NEW t \in Tickets, fuse_push_freeticks(t), t \notin ToSet(free), FreeInv
    PROVE  /\ ToSet(free') = ToSet(free) \union {t} /\ IsInjective(free')
           /\ Len(free') = Len(free) + 1 /\ ~free_loop'
           /\ freeticket_counter' = Len(free')
<1>1. free' = Append(free, t) /\ free_loop' = FALSE
      /\ freeticket_counter' = freeticket_counter + 1
  BY DEF fuse_push_freeticks
<1>2. free \in Seq(Tickets) /\ IsInjective(free) /\ freeticket_counter = Len(free)
  BY DEF TypeOK, QueueType, FreeInv
<1>3. Len(free') = Len(free) + 1
  BY <1>1, <1>2, AppendProperties
<1>. QED BY <1>1, <1>2, <1>3, AppendSet

\* A call begins.
LEMMA Start_Inv ==
    ASSUME IInv, NEW r \in Requesters, NEW o \in Ops \union {"init"}, Start(r, o)
    PROVE  IInv'
<1>. USE NullIsNoTicket DEF session, queues, pool, answers, callers, daemon, control, ticketv
<1>1. TypeOK'
  BY Start_Type DEF IInv
<1>2. \A q \in Requesters : q # r => CallerStays(q)
  BY DEF IInv, TypeOK, CallerType, CallerStays, Start, Goto
<1>3. /\ UNCHANGED <<tk_flag, queues, pool, tk_age, tk_aw_handler, answers, stick, sreply, inbox,
                     dead, spc, drain, closed>>
      /\ tick' = tick /\ itick' = itick
  BY DEF Start, Goto
<1>4. pc[r] = "idle" /\ pc'[r] = "fetch" /\ (intr'[r] <=> intr[r])
  BY DEF IInv, TypeOK, CallerType, Start, Goto
<1>5. EndInv'
  BY <1>3, EndStays DEF IInv
<1>6. PtrInv'
  BY <1>2, <1>3, <1>4, CallerPoints DEF IInv, PtrInv, Waiting, Done, Wanted
<1>7. QueueInv'
  BY <1>2, <1>3, <1>4, QueuesStay DEF IInv, QueueInv, QueuedOnce
<1>8. ASSUME ~dead' PROVE Alive'
  <2>1. ~dead /\ Alive
    BY <1>8, <1>3, <1>4 DEF IInv
  <2>2. /\ itick[r] = NoTicket /\ pc[r] \notin Unsent /\ pc'[r] \notin Unsent
        /\ Waiting(r)' => Waiting(r)
        /\ Done(r)' => Waiting(r) \/ Done(r)
        /\ Waiting(r) => Waiting(r)' \/ Done(r)'
    BY <1>4 DEF IInv, PtrInv, Waiting, Done, Unsent
  <2>3. \A u \in Tickets : tick[r] = u =>
           /\ pc'[r] = "woken" \/ Done(r)' => fticket_answered(u)
           /\ pc'[r] = "waited" /\ err'[r] = "0" => fticket_answered(u)
           /\ pc'[r] = "asleep" => ~fticket_answered(u)
    BY <2>1, <1>4 DEF IInv, PtrInv, Alive, SentInv, Sent, Done, Waiting
  <2>. QED
    BY <1>1, <1>2, <1>3, <2>1, <2>2, <2>3, CallerMoves DEF IInv
<1>. QED
  BY <1>1, <1>5, <1>6, <1>7, <1>8 DEF IInv

\* A caller looks for its answer and goes to sleep.
LEMMA fticket_wait_answer_Inv ==
    ASSUME IInv, NEW r \in Requesters, fticket_wait_answer(r)
    PROVE  IInv'
<1>. USE NullIsNoTicket DEF session, queues, pool, answers, callers, daemon, control, ticketv
<1>1. TypeOK'
  BY fticket_wait_answer_Type DEF IInv
<1>2. \A q \in Requesters : q # r => CallerStays(q)
  BY DEF IInv, TypeOK, CallerType, CallerStays, fticket_wait_answer, Goto
<1>3. /\ UNCHANGED <<queues, pool, tk_age, tk_aw_handler, answers, stick, sreply, inbox, dead,
                     spc, drain, closed>>
      /\ tick' = tick /\ itick' = itick
  BY DEF fticket_wait_answer, Goto
<1>4. /\ pc[r] = "wait" /\ pc'[r] \in {"waited", "asleep"} /\ (intr'[r] <=> intr[r]) /\ op' = op
      /\ pc'[r] = "waited" => dead \/ fticket_answered(tick[r])
      /\ pc'[r] = "asleep" => ~fticket_answered(tick[r])
  BY DEF IInv, TypeOK, CallerType, fticket_wait_answer, Goto, WaitSeesDead
<1>5. EndInv'
  BY <1>3, EndStays DEF IInv
<1>6. PtrInv'
  BY <1>2, <1>3, <1>4, CallerPoints DEF IInv, PtrInv, Waiting, Done, Wanted
<1>7. QueueInv'
  BY <1>2, <1>3, <1>4, QueuesStay DEF IInv, QueueInv, QueuedOnce
<1>8. ASSUME ~dead' PROVE Alive'
  <2>1. ~dead /\ Alive
    BY <1>8, <1>3, <1>4 DEF IInv
  <2>2. tk_flag' = tk_flag
    BY <2>1 DEF fticket_wait_answer, WaitSeesDead
  <2>3. /\ itick[r] = NoTicket /\ pc[r] \notin Unsent /\ pc'[r] \notin Unsent
        /\ Waiting(r)' => Waiting(r)
        /\ Done(r)' => Waiting(r) \/ Done(r)
        /\ Waiting(r) => Waiting(r)' \/ Done(r)'
    BY <1>4 DEF IInv, PtrInv, Waiting, Done, Unsent
  <2>4. \A u \in Tickets : tick[r] = u =>
           /\ pc'[r] = "woken" \/ Done(r)' => fticket_answered(u)
           /\ pc'[r] = "waited" /\ err'[r] = "0" => fticket_answered(u)
           /\ pc'[r] = "asleep" => ~fticket_answered(u)
    BY <2>1, <1>4 DEF IInv, PtrInv, Alive, SentInv, Sent, Done, Waiting
  <2>. QED
    BY <1>1, <1>2, <1>3, <2>1, <2>3, <2>4, <2>2, CallerMoves DEF IInv
<1>. QED
  BY <1>1, <1>5, <1>6, <1>7, <1>8 DEF IInv

\* A caller wakes up.
LEMMA WakesUp_Inv ==
    ASSUME IInv, NEW r \in Requesters, WakesUp(r)
    PROVE  IInv'
<1>. USE NullIsNoTicket DEF session, queues, pool, answers, callers, daemon, control, ticketv
<1>1. TypeOK'
  BY WakesUp_Type DEF IInv
<1>2. \A q \in Requesters : q # r => CallerStays(q)
  BY DEF IInv, TypeOK, CallerType, CallerStays, WakesUp, Goto
<1>3. /\ UNCHANGED <<tk_flag, queues, pool, tk_age, tk_aw_handler, answers, stick, sreply, inbox,
                     dead, spc, drain, closed>>
      /\ tick' = tick /\ itick' = itick
  BY DEF WakesUp, Goto
<1>4. pc[r] = "woken" /\ pc'[r] = "waited" /\ (intr'[r] <=> intr[r]) /\ op' = op
  BY DEF IInv, TypeOK, CallerType, WakesUp, Goto
<1>5. EndInv'
  BY <1>3, EndStays DEF IInv
<1>6. PtrInv'
  BY <1>2, <1>3, <1>4, CallerPoints DEF IInv, PtrInv, Waiting, Done, Wanted
<1>7. QueueInv'
  BY <1>2, <1>3, <1>4, QueuesStay DEF IInv, QueueInv, QueuedOnce
<1>8. ASSUME ~dead' PROVE Alive'
  <2>1. ~dead /\ Alive
    BY <1>8, <1>3, <1>4 DEF IInv
  <2>2. /\ itick[r] = NoTicket /\ pc[r] \notin Unsent /\ pc'[r] \notin Unsent
        /\ Waiting(r)' => Waiting(r)
        /\ Done(r)' => Waiting(r) \/ Done(r)
        /\ Waiting(r) => Waiting(r)' \/ Done(r)'
    BY <1>4 DEF IInv, PtrInv, Waiting, Done, Unsent
  <2>3. \A u \in Tickets : tick[r] = u =>
           /\ pc'[r] = "woken" \/ Done(r)' => fticket_answered(u)
           /\ pc'[r] = "waited" /\ err'[r] = "0" => fticket_answered(u)
           /\ pc'[r] = "asleep" => ~fticket_answered(u)
    BY <2>1, <1>4 DEF IInv, PtrInv, Alive, SentInv, Sent, Done, Waiting
  <2>. QED
    BY <1>1, <1>2, <1>3, <2>1, <2>2, <2>3, CallerMoves DEF IInv
<1>. QED
  BY <1>1, <1>5, <1>6, <1>7, <1>8 DEF IInv

\* The wait for an answer times out.
LEMMA TimesOut_Inv ==
    ASSUME IInv, NEW r \in Requesters, TimesOut(r)
    PROVE  IInv'
<1>. USE NullIsNoTicket DEF session, queues, pool, answers, callers, daemon, control, ticketv
<1>1. TypeOK'
  BY TimesOut_Type DEF IInv
<1>2. \A q \in Requesters : q # r => CallerStays(q)
  BY DEF IInv, TypeOK, CallerType, CallerStays, TimesOut, Goto
<1>3. /\ UNCHANGED <<tk_flag, queues, pool, tk_age, tk_aw_handler, answers, stick, sreply, inbox,
                     dead, spc, drain, closed>>
      /\ tick' = tick /\ itick' = itick
  BY DEF TimesOut, Goto
<1>4. pc[r] = "asleep" /\ pc'[r] = "eject" /\ (intr'[r] <=> intr[r]) /\ op' = op
  BY DEF IInv, TypeOK, CallerType, TimesOut, Goto
<1>5. EndInv'
  BY <1>3, EndStays DEF IInv
<1>6. PtrInv'
  BY <1>2, <1>3, <1>4, CallerPoints DEF IInv, PtrInv, Waiting, Done, Wanted
<1>7. QueueInv'
  BY <1>2, <1>3, <1>4, QueuesStay DEF IInv, QueueInv, QueuedOnce
<1>8. ASSUME ~dead' PROVE Alive'
  <2>1. ~dead /\ Alive
    BY <1>8, <1>3, <1>4 DEF IInv
  <2>2. /\ itick[r] = NoTicket /\ pc[r] \notin Unsent /\ pc'[r] \notin Unsent
        /\ Waiting(r)' => Waiting(r)
        /\ Done(r)' => Waiting(r) \/ Done(r)
        /\ Waiting(r) => Waiting(r)' \/ Done(r)'
    BY <1>4 DEF IInv, PtrInv, Waiting, Done, Unsent
  <2>3. \A u \in Tickets : tick[r] = u =>
           /\ pc'[r] = "woken" \/ Done(r)' => fticket_answered(u)
           /\ pc'[r] = "waited" /\ err'[r] = "0" => fticket_answered(u)
           /\ pc'[r] = "asleep" => ~fticket_answered(u)
    BY <2>1, <1>4 DEF IInv, PtrInv, Alive, SentInv, Sent, Done, Waiting
  <2>. QED
    BY <1>1, <1>2, <1>3, <2>1, <2>2, <2>3, CallerMoves DEF IInv
<1>. QED
  BY <1>1, <1>5, <1>6, <1>7, <1>8 DEF IInv

\* A waiting caller gets a signal.
LEMMA Signalled_Inv ==
    ASSUME IInv, NEW r \in Requesters, Signalled(r)
    PROVE  IInv'
<1>. USE NullIsNoTicket DEF session, queues, pool, answers, callers, daemon, control, ticketv
<1>1. TypeOK'
  BY Signalled_Type DEF IInv
<1>2. \A q \in Requesters : q # r => CallerStays(q)
  BY DEF IInv, TypeOK, CallerType, CallerStays, Signalled, Goto
<1>3. /\ UNCHANGED <<tk_flag, queues, pool, tk_age, tk_aw_handler, answers, stick, sreply, inbox,
                     dead, spc, drain, closed>>
      /\ tick' = tick /\ itick' = itick
  BY DEF Signalled, Goto
<1>4. /\ pc[r] \in {"asleep", "woken"} /\ op' = op
      /\ \/ pc'[r] = "fetch" /\ intr'[r]
         \/ pc'[r] = "waited" /\ (intr'[r] <=> intr[r]) /\ err'[r] # "0"
  BY DEF IInv, TypeOK, CallerType, Signalled, Goto
<1>5. EndInv'
  BY <1>3, EndStays DEF IInv
<1>6. PtrInv'
  BY <1>2, <1>3, <1>4, CallerPoints DEF IInv, PtrInv, Waiting, Done, Wanted
<1>7. QueueInv'
  BY <1>2, <1>3, <1>4, QueuesStay DEF IInv, QueueInv, QueuedOnce
<1>8. ASSUME ~dead' PROVE Alive'
  <2>1. ~dead /\ Alive
    BY <1>8, <1>3, <1>4 DEF IInv
  <2>2. /\ itick[r] = NoTicket /\ pc[r] \notin Unsent /\ pc'[r] \notin Unsent
        /\ Waiting(r)' => Waiting(r)
        /\ Done(r)' => Waiting(r) \/ Done(r)
        /\ Waiting(r) => Waiting(r)' \/ Done(r)'
    BY <1>4 DEF IInv, PtrInv, Waiting, Done, Unsent
  <2>3. \A u \in Tickets : tick[r] = u =>
           /\ pc'[r] = "woken" \/ Done(r)' => fticket_answered(u)
           /\ pc'[r] = "waited" /\ err'[r] = "0" => fticket_answered(u)
           /\ pc'[r] = "asleep" => ~fticket_answered(u)
    BY <2>1, <1>4 DEF IInv, PtrInv, Alive, SentInv, Sent, Done, Waiting
  <2>. QED
    BY <1>1, <1>2, <1>3, <2>1, <2>2, <2>3, CallerMoves DEF IInv
<1>. QED
  BY <1>1, <1>5, <1>6, <1>7, <1>8 DEF IInv

\* The wait ended without an error.
LEMMA WaitedOk_Inv ==
    ASSUME IInv, NEW r \in Requesters, WaitedOk(r)
    PROVE  IInv'
<1>. USE NullIsNoTicket DEF session, queues, pool, answers, callers, daemon, control, ticketv
<1>1. TypeOK'
  BY WaitedOk_Type DEF IInv
<1>2. \A q \in Requesters : q # r => CallerStays(q)
  BY DEF IInv, TypeOK, CallerType, CallerStays, WaitedOk, Goto
<1>3. /\ UNCHANGED <<tk_flag, queues, pool, tk_age, tk_aw_handler, answers, stick, sreply, inbox,
                     dead, spc, drain, closed>>
      /\ tick' = tick /\ itick' = itick
  BY DEF WaitedOk, Goto
<1>4. /\ pc[r] = "waited" /\ err[r] = "0" /\ pc'[r] \in {"waited", "have", "drop"}
      /\ (intr'[r] <=> intr[r]) /\ op' = op
  BY DEF IInv, TypeOK, CallerType, WaitedOk, Goto
<1>5. EndInv'
  BY <1>3, EndStays DEF IInv
<1>6. PtrInv'
  BY <1>2, <1>3, <1>4, CallerPoints DEF IInv, PtrInv, Waiting, Done, Wanted
<1>7. QueueInv'
  BY <1>2, <1>3, <1>4, QueuesStay DEF IInv, QueueInv, QueuedOnce
<1>8. ASSUME ~dead' PROVE Alive'
  <2>1. ~dead /\ Alive
    BY <1>8, <1>3, <1>4 DEF IInv
  <2>2. /\ itick[r] = NoTicket /\ pc[r] \notin Unsent /\ pc'[r] \notin Unsent
        /\ Waiting(r)' => Waiting(r)
        /\ Done(r)' => Waiting(r) \/ Done(r)
        /\ Waiting(r) => Waiting(r)' \/ Done(r)'
    BY <1>4 DEF IInv, PtrInv, Waiting, Done, Unsent
  <2>3. \A u \in Tickets : tick[r] = u =>
           /\ pc'[r] = "woken" \/ Done(r)' => fticket_answered(u)
           /\ pc'[r] = "waited" /\ err'[r] = "0" => fticket_answered(u)
           /\ pc'[r] = "asleep" => ~fticket_answered(u)
    BY <2>1, <1>4 DEF IInv, PtrInv, Alive, SentInv, Sent, Done, Waiting
  <2>. QED
    BY <1>1, <1>2, <1>3, <2>1, <2>2, <2>3, CallerMoves DEF IInv
<1>. QED
  BY <1>1, <1>5, <1>6, <1>7, <1>8 DEF IInv

\* A caller is done with its answer.
LEMMA Consume_Inv ==
    ASSUME IInv, NEW r \in Requesters, Consume(r)
    PROVE  IInv'
<1>. USE NullIsNoTicket DEF session, queues, pool, answers, callers, daemon, control, ticketv
<1>1. TypeOK'
  BY Consume_Type DEF IInv
<1>2. \A q \in Requesters : q # r => CallerStays(q)
  BY DEF IInv, TypeOK, CallerType, CallerStays, Consume, Goto
<1>3. /\ UNCHANGED <<tk_flag, queues, pool, tk_age, tk_aw_handler, answers, stick, sreply, inbox,
                     dead, spc, drain, closed>>
      /\ tick' = tick /\ itick' = itick
  BY DEF Consume, Goto
<1>4. /\ pc[r] = "have" /\ pc'[r] = "drop"
      /\ (intr'[r] <=> intr[r]) /\ op' = op
  BY DEF IInv, TypeOK, CallerType, Consume, Goto
<1>5. EndInv'
  BY <1>3, EndStays DEF IInv
<1>6. PtrInv'
  BY <1>2, <1>3, <1>4, CallerPoints DEF IInv, PtrInv, Waiting, Done, Wanted
<1>7. QueueInv'
  BY <1>2, <1>3, <1>4, QueuesStay DEF IInv, QueueInv, QueuedOnce
<1>8. ASSUME ~dead' PROVE Alive'
  <2>1. ~dead /\ Alive
    BY <1>8, <1>3, <1>4 DEF IInv
  <2>2. /\ itick[r] = NoTicket /\ pc[r] \notin Unsent /\ pc'[r] \notin Unsent
        /\ Waiting(r)' => Waiting(r)
        /\ Done(r)' => Waiting(r) \/ Done(r)
        /\ Waiting(r) => Waiting(r)' \/ Done(r)'
    BY <1>4 DEF IInv, PtrInv, Waiting, Done, Unsent
  <2>3. \A u \in Tickets : tick[r] = u =>
           /\ pc'[r] = "woken" \/ Done(r)' => fticket_answered(u)
           /\ pc'[r] = "waited" /\ err'[r] = "0" => fticket_answered(u)
           /\ pc'[r] = "asleep" => ~fticket_answered(u)
    BY <2>1, <1>4 DEF IInv, PtrInv, Alive, SentInv, Sent, Done, Waiting
  <2>. QED
    BY <1>1, <1>2, <1>3, <2>1, <2>2, <2>3, CallerMoves DEF IInv
<1>. QED
  BY <1>1, <1>5, <1>6, <1>7, <1>8 DEF IInv

\* The timeout ends the session.
LEMMA Eject_Inv ==
    ASSUME IInv, NEW r \in Requesters, Eject(r)
    PROVE  IInv'
<1>. USE NullIsNoTicket DEF session, queues, pool, answers, callers, daemon, control, ticketv
<1>1. TypeOK'
  BY Eject_Type DEF IInv
<1>2. \A q \in Requesters : q # r => CallerStays(q)
  BY DEF IInv, TypeOK, CallerType, CallerStays, Eject, Goto
<1>3. /\ UNCHANGED <<queues, stick, drain, closed>> /\ tick' = tick /\ itick' = itick /\ op' = op
      /\ dead' /\ pc[r] = "eject" /\ pc'[r] = "waited" /\ (intr'[r] <=> intr[r])
  BY DEF IInv, TypeOK, CallerType, Eject, Goto, fdata_set_dead
<1>4. \A z \in Servers : spc'[z] = spc[z] \/ (spc[z] = "asleep" /\ spc'[z] = "woken")
  BY DEF Eject, fdata_set_dead, WakeupOneReader, IInv, TypeOK, DaemonType
<1>5. EndInv'
  BY <1>3, <1>4, EndStays DEF IInv
<1>6. PtrInv'
  BY <1>2, <1>3, <1>4, CallerPoints DEF IInv, PtrInv, Waiting, Done, Wanted
<1>7. QueueInv'
  BY <1>2, <1>3, QueuesStay DEF IInv, QueueInv, QueuedOnce
<1>8. dead'
  BY <1>3
<1>. QED
  BY <1>1, <1>5, <1>6, <1>7, <1>8 DEF IInv

\* The wait ended with an error: the ticket is dropped or abandoned.
LEMMA WaitedErr_Inv ==
    ASSUME IInv, NEW r \in Requesters, WaitedErr(r)
    PROVE  IInv'
<1>. USE NullIsNoTicket DEF session, queues, pool, answers, callers, daemon, control, ticketv
<1>1. TypeOK'
  BY WaitedErr_Type DEF IInv
<1>2. \A q \in Requesters : q # r => CallerStays(q)
  BY DEF IInv, TypeOK, CallerType, CallerStays, WaitedErr, Goto
<1>3. /\ UNCHANGED <<queues, pool, tk_age, tk_aw_handler, answers, daemon, dead, drain, closed,
                     op, tick, intr, itick, err>>
  BY DEF WaitedErr
<1>4. /\ pc[r] = "waited" /\ tick[r] \in Tickets
      /\ \/ fticket_answered(tick[r]) /\ pc'[r] = "drop" /\ tk_flag' = tk_flag
         \/ /\ ~fticket_answered(tick[r]) /\ pc'[r] = "abandon" /\ age'[r] = tk_age[tick[r]]
            /\ tk_flag' = [tk_flag EXCEPT ![tick[r]] = @ \union {"ANSW"}]
  BY DEF IInv, TypeOK, CallerType, CallerDerefs, Current, WaitedErr, CallerDrops,
     SetAnswered, Goto
<1>5. EndInv'
  BY <1>3, EndStays DEF IInv
<1>6. PtrInv'
  BY <1>2, <1>3, <1>4, CallerPoints DEF IInv, PtrInv, Waiting, Done, Wanted
<1>7. QueueInv'
  BY <1>2, <1>3, <1>4, QueuesStay DEF IInv, QueueInv, QueuedOnce
<1>8. ASSUME ~dead' PROVE Alive'
  <2>1. ~dead /\ Alive
    BY <1>8, <1>3 DEF IInv
  <2>2. CASE fticket_answered(tick[r])
    <3>1. tk_flag' = tk_flag /\ pc'[r] = "drop"
      BY <1>4, <2>2
    <3>2. /\ itick[r] = NoTicket /\ pc[r] \notin Unsent /\ pc'[r] \notin Unsent
          /\ Waiting(r)' => Waiting(r)
          /\ Done(r)' => Waiting(r) \/ Done(r)
          /\ Waiting(r) => Waiting(r)' \/ Done(r)'
      BY <1>4, <3>1 DEF IInv, PtrInv, Waiting, Done, Unsent
    <3>3. \A u \in Tickets : tick[r] = u =>
             /\ pc'[r] = "woken" \/ Done(r)' => fticket_answered(u)
             /\ pc'[r] = "waited" /\ err'[r] = "0" => fticket_answered(u)
             /\ pc'[r] = "asleep" => ~fticket_answered(u)
      BY <2>1, <1>4, <2>2, <3>1 DEF IInv, PtrInv, Alive, SentInv, Sent, Done, Waiting
    <3>. QED
      BY <1>2, <1>3, <2>1, <3>1, <3>2, <3>3, CallerMoves DEF IInv
  <2>3. CASE ~fticket_answered(tick[r])
    <3>1. /\ pc'[r] = "abandon" /\ age'[r] = tk_age[tick[r]]
          /\ tk_flag' = [tk_flag EXCEPT ![tick[r]] = @ \union {"ANSW"}]
      BY <1>4, <2>3
    <3>2. /\ tk_flag'[tick[r]] = tk_flag[tick[r]] \union {"ANSW"}
          /\ \A u \in Tickets : u # tick[r] => TicketStays(u)
      BY <1>3, <1>4, <3>1 DEF IInv, TypeOK, TicketType, TicketStays
    <3>. QED
      BY <1>2, <1>3, <1>4, <2>1, <2>3, <3>1, <3>2, CallerGivesUp DEF IInv
  <2>. QED
    BY <2>2, <2>3
<1>. QED
  BY <1>1, <1>5, <1>6, <1>7, <1>8 DEF IInv

\* The mount is over.
LEMMA InitSync_Inv ==
    ASSUME IInv, NEW r \in Requesters, InitSync(r)
    PROVE  IInv'
<1>. USE NullIsNoTicket DEF session, queues, pool, answers, callers, daemon, control, ticketv
<1>1. TypeOK'
  BY InitSync_Type DEF IInv
<1>2. \A q \in Requesters : q # r => CallerStays(q)
  BY DEF IInv, TypeOK, CallerType, CallerStays, InitSync, Return
<1>3. /\ UNCHANGED <<queues, pool, tk_flag, tk_age, tk_aw_handler, answers, stick, sreply, inbox,
                     drain, closed, intr, itick>>
  BY DEF InitSync, Return
<1>4. /\ ~dead' => ~dead /\ spc' = spc
      /\ \A z \in Servers : spc'[z] = spc[z] \/ (spc[z] = "asleep" /\ spc'[z] = "woken")
  BY DEF InitSync, fdata_set_dead, WakeupOneReader, IInv, TypeOK, DaemonType
<1>5. /\ pc[r] = "initsync" /\ pc'[r] = "idle" /\ tick' = tick
  BY DEF IInv, TypeOK, CallerType, PtrInv, InitSync, Return
<1>6. EndInv'
  BY <1>3, <1>4, EndStays DEF IInv, TypeOK, BitType
<1>7. PtrInv'
  BY <1>2, <1>3, <1>4, <1>5, CallerPoints DEF IInv, PtrInv, Waiting, Done, Wanted
<1>8. QueueInv'
  BY <1>2, <1>3, <1>5, QueuesStay DEF IInv, QueueInv, QueuedOnce
<1>9. ASSUME ~dead' PROVE Alive'
  <2>1. ~dead /\ Alive
    BY <1>9, <1>4 DEF IInv
  <2>2. /\ itick[r] = NoTicket /\ pc[r] \notin Unsent /\ pc'[r] \notin Unsent
        /\ Waiting(r)' => Waiting(r)
        /\ Done(r)' => Waiting(r) \/ Done(r)
        /\ Waiting(r) => Waiting(r)' \/ Done(r)'
    BY <1>5, <1>3 DEF IInv, PtrInv, Waiting, Done, Unsent
  <2>3. \A u \in Tickets : tick[r] = u =>
           /\ pc'[r] = "woken" \/ Done(r)' => fticket_answered(u)
           /\ pc'[r] = "waited" /\ err'[r] = "0" => fticket_answered(u)
           /\ pc'[r] = "asleep" => ~fticket_answered(u)
    BY <2>1, <1>5, <1>3 DEF IInv, PtrInv, Alive, SentInv, Sent, Done, Waiting
  <2>. QED
    BY <1>9, <1>2, <1>3, <1>4, <1>5, <2>1, <2>2, <2>3, CallerMoves DEF IInv
<1>. QED
  BY <1>1, <1>6, <1>7, <1>8, <1>9 DEF IInv

\* A ticket is refreshed for the next message of its caller.
LEMMA Reuse_Inv ==
    ASSUME IInv, NEW r \in Requesters, Reuse(r)
    PROVE  IInv'
<1>. USE NullIsNoTicket DEF session, queues, pool, answers, callers, daemon, control, ticketv
<1>1. TypeOK'
  BY Reuse_Type DEF IInv
<1>2. \A q \in Requesters : q # r => CallerStays(q)
  BY DEF IInv, TypeOK, CallerType, CallerStays, Reuse, Goto
<1>3. UNCHANGED <<queues, pool, daemon, tk_aw_handler, dead, drain, closed, op, tick, intr,
                  itick, err, age>>
  BY DEF Reuse
<1>4. pc[r] = "have" /\ op[r] = "call" /\ pc'[r] = "insert_cb" /\ tick[r] \in Tickets
  BY DEF IInv, TypeOK, CallerType, CallerDerefs, Current, Reuse, Goto
<1>5. /\ tk_flag'[tick[r]] = {} /\ tk_age'[tick[r]] = tk_age[tick[r]] + 1
      /\ \A u \in Tickets : u # tick[r] => TicketStays(u)
  BY <1>3, <1>4 DEF IInv, TypeOK, TicketType, TicketStays, Reuse, fticket_refresh
<1>6. EndInv'
  BY <1>3, EndStays DEF IInv
<1>7. PtrInv'
  BY <1>2, <1>3, <1>4, CallerPoints DEF IInv, PtrInv, Waiting, Done, Wanted
<1>8. QueueInv'
  BY <1>2, <1>3, <1>4, QueuesStay DEF IInv, QueueInv, QueuedOnce
<1>9. ASSUME ~dead' PROVE Alive'
  BY <1>9, <1>2, <1>3, <1>4, <1>5, CallerReuses DEF IInv
<1>. QED
  BY <1>1, <1>6, <1>7, <1>8, <1>9 DEF IInv

\* An abandoned ticket loses its handler.
LEMMA Abandon_Inv ==
    ASSUME IInv, NEW r \in Requesters, Abandon(r)
    PROVE  IInv'
<1>. USE NullIsNoTicket DEF session, queues, pool, answers, callers, daemon, control, ticketv
<1>1. TypeOK'
  BY Abandon_Type DEF IInv
<1>2. \A q \in Requesters : q # r => CallerStays(q)
  BY DEF IInv, TypeOK, CallerType, CallerStays, Abandon, Return
<1>3. UNCHANGED <<queues, pool, tk_flag, tk_age, answers, daemon, dead, drain, closed, op, intr,
                  itick>>
  BY DEF Abandon, Return
<1>4. /\ pc[r] = "abandon" /\ pc'[r] = "idle" /\ tick'[r] = NoTicket /\ tick[r] \in Tickets
  BY DEF IInv, TypeOK, CallerType, CallerDerefs, Current, PtrInv, TicketOrNone, Abandon,
     Return
<1>5. \A u \in Tickets : tk_aw_handler'[u] # tk_aw_handler[u] =>
          u = tick[r] /\ StillMine(r) /\ tk_aw_handler'[u] # "standard"
  BY DEF IInv, TypeOK, TicketType, Abandon
<1>6. EndInv'
  BY <1>3, EndStays DEF IInv
<1>7. PtrInv'
  BY <1>2, <1>3, <1>4, CallerPoints DEF IInv, PtrInv, Waiting, Done, Wanted
<1>8. QueueInv'
  BY <1>2, <1>3, <1>4, QueuesStay DEF IInv, QueueInv, QueuedOnce
<1>9. ASSUME ~dead' PROVE Alive'
  BY <1>9, <1>2, <1>3, <1>4, <1>5, CallerLetsGo DEF IInv
<1>. QED
  BY <1>1, <1>6, <1>7, <1>8, <1>9 DEF IInv

\* A ticket is queued for its answer.
LEMMA fuse_aw_push_Inv ==
    ASSUME IInv, NEW r \in Requesters, fuse_aw_push(r)
    PROVE  IInv'
<1>. USE NullIsNoTicket DEF session, queues, pool, answers, callers, daemon, control, ticketv
<1>1. TypeOK'
  BY fuse_aw_push_Type DEF IInv
<1>2. \A q \in Requesters : q # r => CallerStays(q)
  BY DEF IInv, TypeOK, CallerType, CallerStays, fuse_aw_push, Goto
<1>3. UNCHANGED <<ms, pool, tk_flag, tk_age, tk_aw_handler, answers, daemon, dead, drain, closed,
                  op, tick, intr, itick, err, age>>
  BY DEF fuse_aw_push
<1>4. /\ pc[r] = "push_aw" /\ pc'[r] = "insert_msg" /\ tick[r] \in Tickets
      /\ tick[r] \notin ToSet(aw)
  BY DEF IInv, TypeOK, CallerType, CallerDerefs, Current, PtrInv, TicketOrNone, QueueInv,
     fuse_aw_push, Goto
<1>5. ToSet(aw') = ToSet(aw) \union {tick[r]} /\ IsInjective(aw')
  BY <1>4, AppendSet DEF IInv, TypeOK, QueueType, QueueInv, QueuedOnce, fuse_aw_push
<1>6. EndInv'
  BY <1>3, EndStays DEF IInv
<1>7. PtrInv'
  BY <1>2, <1>3, <1>4, CallerPoints DEF IInv, PtrInv, Waiting, Done, Wanted
<1>8. QueueInv'
  <2>1. \A q \in Requesters : pc'[q] \in {"push_aw", "push_ms"} =>
           q # r /\ pc[q] = pc'[q] /\ Current(q)' = Current(q)
    BY <1>2, <1>4 DEF CallerStays, Current
  <2>. QED
    BY <1>3, <1>4, <1>5, <2>1 DEF IInv, QueueInv, QueuedOnce
<1>9. ASSUME ~dead' PROVE Alive'
  BY <1>9, <1>2, <1>3, <1>4, <1>5, CallerQueues DEF IInv
<1>. QED
  BY <1>1, <1>6, <1>7, <1>8, <1>9 DEF IInv

\* A ticket is taken from the free list.
LEMMA FetchFree_Inv ==
    ASSUME IInv, NEW r \in Requesters, FetchFree(r)
    PROVE  IInv'
<1>. USE NullIsNoTicket DEF session, queues, pool, answers, callers, daemon, control, ticketv
<1>1. TypeOK'
  BY FetchFree_Type DEF IInv
<1>2. \A q \in Requesters : q # r => CallerStays(q)
  BY DEF IInv, TypeOK, CallerType, CallerStays, FetchFree, Fetched, Goto
<1>3. UNCHANGED <<queues, free_loop, ticketer, tk_life, tk_unique, tk_age, tk_aw_handler,
                  answers, op, intr, err, age, stick, sreply, inbox, drain, closed>>
  BY DEF FetchFree
<1>4. /\ ~dead' => ~dead /\ spc' = spc
      /\ \A z \in Servers : spc'[z] = spc[z] \/ (spc[z] = "asleep" /\ spc'[z] = "woken")
  BY DEF FetchFree, Admit, fdata_set_dead, WakeupOneReader, IInv, TypeOK, DaemonType
<1>5. free = <<>> => UNCHANGED <<pc, tick, itick>>
  BY DEF FetchFree
<1>6. free # <<>> => Head(free) \in Tickets
  BY PopType DEF IInv, TypeOK, QueueType
<1>7. free # <<>> =>
      /\ pc[r] = "fetch" /\ pc'[r] \in {"insert_cb", "insert_msg"}
      /\ pc'[r] = "insert_msg" <=> intr[r] \/ op[r] = "forget"
      /\ intr[r] => itick'[r] = Head(free) /\ tick'[r] = tick[r]
      /\ ~intr[r] => tick'[r] = Head(free) /\ itick'[r] = itick[r]
  BY DEF IInv, TypeOK, CallerType, FetchFree, Fetched, Goto
<1>8. EndInv'
  BY <1>3, <1>4, EndStays DEF IInv, TypeOK, BitType
<1>9. PtrInv'
  <2>1. CASE free = <<>>
    BY <2>1, <1>2, <1>3, <1>4, <1>5, CallerPoints DEF IInv, PtrInv, Waiting, Done
  <2>2. CASE free # <<>>
    BY <2>2, <1>2, <1>3, <1>4, <1>6, <1>7, CallerPoints DEF IInv, PtrInv, Waiting, Done,
       Wanted
  <2>. QED
    BY <2>1, <2>2
<1>10. QueueInv'
  <2>1. pc[r] = "fetch"
    BY DEF FetchFree
  <2>. QED
    BY <2>1, <1>2, <1>3, <1>5, <1>7, QueuesStay DEF IInv, QueueInv, QueuedOnce
<1>11. ASSUME ~dead' PROVE Alive'
  <2>1. ~dead /\ Alive /\ spc' = spc
    BY <1>11, <1>4 DEF IInv
  <2>2. free # <<>> /\ free \in Seq(Tickets) /\ IsInjective(free) /\ ~free_loop
    BY <2>1 DEF FetchFree, Alive, FreeInv, IInv, TypeOK, QueueType
  <2>3. /\ Head(free) \in ToSet(free) /\ ToSet(Tail(free)) = ToSet(free) \ {Head(free)}
        /\ IsInjective(Tail(free)) /\ Len(Tail(free)) = Len(free) - 1
    BY <2>2, TailSet
  <2>4. free' = Tail(free) /\ freeticket_counter' = freeticket_counter - 1
    BY <2>2 DEF FetchFree
  <2>5. PICK t \in Tickets : t = Head(free)
    BY <1>6, <2>2
  <2>6. /\ t \in Tickets /\ t \in ToSet(free) /\ ToSet(free') = ToSet(free) \ {t}
        /\ IsInjective(free') /\ Len(free') = Len(free) - 1
    BY <2>5, <2>2, <2>3, <2>4
  <2>7. tk_flag' = [tk_flag EXCEPT ![t] =
                       IF intr[r] \/ op[r] = "forget" THEN @ \union {"INVAL"} ELSE @]
    BY <2>5, <2>2 DEF FetchFree, Fetched, IInv, TypeOK, TicketType
  <2>8. /\ pc[r] = "fetch" /\ pc'[r] \in {"insert_cb", "insert_msg"}
        /\ pc'[r] = "insert_msg" <=> intr[r] \/ op[r] = "forget"
        /\ intr[r] => itick'[r] = t /\ tick'[r] = tick[r]
        /\ ~intr[r] => tick'[r] = t /\ itick'[r] = itick[r]
    BY <2>5, <2>2, <1>7
  <2>9. /\ t \notin ToSet(ms) /\ t \notin ToSet(aw) /\ tk_life[t] = "live" /\ Clean(t)
        /\ ~Held(t) /\ ~Interrupts(t) /\ ~InHand(t)
    BY <2>6, <2>1 DEF Alive, FreeInv
  <2>10. \A u \in Tickets : u # t => TicketStays(u)
    BY <1>3, <2>6, <2>7 DEF TicketStays, IInv, TypeOK, TicketType
  <2>11. /\ ~fticket_answered(t)' /\ "DIRTY" \notin tk_flag'[t]
         /\ "INVAL" \in tk_flag'[t] <=> pc'[r] = "insert_msg"
    BY <2>6, <2>7, <2>8, <2>9 DEF Clean, fticket_answered, IInv, TypeOK, TicketType
  <2>12. \A q \in Requesters : pc[q] = "abandon" /\ tick[q] = t =>
             age[q] <= tk_age[t] /\ age[q] # tk_age[t] /\ tk_life[t] # "unborn"
    BY <2>6, <2>1 DEF Alive, AgeInv
  <2>13. /\ LiveInv' /\ OwnInv' /\ FreshInv' /\ SentInv' /\ MsInv' /\ AwInv' /\ HandInv'
         /\ InboxInv' /\ AgeInv'
         /\ \A u \in Tickets : u # t =>
               /\ Held(u)' <=> Held(u)
               /\ Interrupts(u)' <=> Interrupts(u)
               /\ InHand(u)' <=> InHand(u)
               /\ Clean(u)' <=> Clean(u)
    BY <1>2, <1>3, <2>1, <2>6, <2>8, <2>9, <2>10, <2>11, <2>12, CallerGets DEF IInv
  <2>14. FreeInv'
    <3>1. \A u \in ToSet(free') : u \in ToSet(free) /\ u # t /\ u \in Tickets
      BY <2>6, QueuesHoldTickets DEF IInv
    <3>. QED
      BY <3>1, <1>3, <2>1, <2>4, <2>6, <2>13 DEF Alive, FreeInv
  <2>15. UniqueInv'
    <3>1. \A q \in Requesters : /\ pc'[q] = "alloc" <=> pc[q] = "alloc"
                                /\ pc[q] = "alloc" => Current(q)' = Current(q)
      BY <1>2, <2>8 DEF CallerStays, Current
    <3>2. Numbering' <=> Numbering
      BY <3>1 DEF Numbering
    <3>. QED
      BY <3>1, <3>2, <1>3, <2>1 DEF Alive, UniqueInv
  <2>. QED
    BY <2>13, <2>14, <2>15 DEF Alive
<1>. QED
  BY <1>1, <1>8, <1>9, <1>10, <1>11 DEF IInv

\* A ticket is made.
LEMMA fticket_alloc_Inv ==
    ASSUME IInv, NEW r \in Requesters, fticket_alloc(r), AtomicTicketer
    PROVE  IInv'
<1>. USE NullIsNoTicket DEF session, queues, pool, answers, callers, daemon, control, ticketv
<1>1. TypeOK'
  BY fticket_alloc_Type DEF IInv
<1>2. \A q \in Requesters : q # r => CallerStays(q)
  BY DEF IInv, TypeOK, CallerType, CallerStays, fticket_alloc, Goto
<1>3. UNCHANGED <<queues, free, free_loop, freeticket_counter, ticketer, tk_flag, dead, spc,
                  tk_age, tk_aw_handler, answers, op, intr, err, age, stick, sreply, inbox,
                  drain, closed>>
  BY DEF fticket_alloc
<1>4. PICK t \in Tickets : /\ tk_life[t] = "unborn" /\ tk_life' = [tk_life EXCEPT ![t] = "live"]
                            /\ tk_unique' = [tk_unique EXCEPT ![t] = ticketer]
                            /\ IF intr[r] THEN itick' = [itick EXCEPT ![r] = t] /\ tick' = tick
                                         ELSE tick' = [tick EXCEPT ![r] = t] /\ itick' = itick
  BY DEF fticket_alloc
<1>5. /\ pc[r] = "fetch" /\ pc'[r] = "alloc" /\ \A q \in Requesters : pc[q] # "alloc"
      /\ intr[r] => itick'[r] = t /\ tick'[r] = tick[r]
      /\ ~intr[r] => tick'[r] = t /\ itick'[r] = itick[r]
  BY <1>4 DEF IInv, TypeOK, CallerType, fticket_alloc, Goto
<1>6. EndInv'
  BY <1>3, EndStays DEF IInv
<1>7. PtrInv'
  BY <1>2, <1>3, <1>5, CallerPoints DEF IInv, PtrInv, Waiting, Done, Wanted
<1>8. QueueInv'
  BY <1>2, <1>3, <1>5, QueuesStay DEF IInv, QueueInv, QueuedOnce
<1>9. ASSUME ~dead' PROVE Alive'
  <2>1. ~dead /\ Alive
    BY <1>9, <1>3 DEF IInv
  <2>2. /\ t \notin ToSet(ms) /\ t \notin ToSet(aw) /\ t \notin ToSet(free) /\ Clean(t)
        /\ ~Held(t) /\ ~Interrupts(t) /\ ~InHand(t)
    BY <1>4, <2>1 DEF Alive, FreeInv, LiveInv
  <2>3. /\ \A u \in Tickets : u # t => TicketStays(u)
        /\ tk_life'[t] = "live" /\ tk_unique'[t] = ticketer
    BY <1>3, <1>4 DEF TicketStays, IInv, TypeOK, TicketType
  <2>4. ~fticket_answered(t)' /\ "DIRTY" \notin tk_flag'[t] /\ "INVAL" \notin tk_flag'[t]
    BY <1>3, <2>2 DEF Clean, fticket_answered
  <2>5. \A q \in Requesters : ~(pc[q] = "abandon" /\ tick[q] = t)
    BY <1>4, <2>1 DEF Alive, AgeInv
  <2>6. /\ LiveInv' /\ OwnInv' /\ FreshInv' /\ SentInv' /\ MsInv' /\ AwInv' /\ HandInv'
        /\ InboxInv' /\ AgeInv'
        /\ \A u \in Tickets : u # t =>
              /\ Held(u)' <=> Held(u)
              /\ Interrupts(u)' <=> Interrupts(u)
              /\ InHand(u)' <=> InHand(u)
              /\ Clean(u)' <=> Clean(u)
    BY <1>2, <1>3, <1>5, <2>1, <2>2, <2>3, <2>4, <2>5, CallerGets DEF IInv
  <2>7. FreeInv'
    <3>1. \A u \in ToSet(free) : u # t /\ u \in Tickets
      BY <2>2, QueuesHoldTickets DEF IInv
    <3>. QED
      BY <3>1, <1>3, <2>1, <2>3, <2>6 DEF Alive, FreeInv, TicketStays
  <2>8. UniqueInv'
    <3>1. \A q \in Requesters : pc'[q] = "alloc" => q = r
      BY <1>2, <1>5 DEF CallerStays
    <3>2. Numbering' /\ Current(r)' = t
      BY <1>5, <1>3 DEF Numbering, Current
    <3>3. \A u \in Tickets : u # t /\ tk_life'[u] = "live" =>
             /\ tk_life[u] = "live" /\ tk_unique'[u] = tk_unique[u]
             /\ tk_unique[u] <= ticketer /\ tk_unique[u] # ticketer
      BY <2>1, <1>5, <2>3 DEF TicketStays, Alive, UniqueInv, Numbering
    <3>4. ticketer \in Nat /\ ticketer' = ticketer
      BY <1>3 DEF IInv, TypeOK, QueueType
    <3>. QED
      BY <3>1, <3>2, <3>3, <3>4, <2>1, <2>3 DEF Alive, UniqueInv
  <2>. QED
    BY <2>6, <2>7, <2>8 DEF Alive
<1>. QED
  BY <1>1, <1>6, <1>7, <1>8, <1>9 DEF IInv

\* The new ticket is filled in.
LEMMA FetchAllocated_Inv ==
    ASSUME IInv, NEW r \in Requesters, FetchAllocated(r)
    PROVE  IInv'
<1>. USE NullIsNoTicket DEF session, queues, pool, answers, callers, daemon, control, ticketv
<1>1. TypeOK'
  BY FetchAllocated_Type DEF IInv
<1>2. PICK t \in Tickets : t = Current(r)
  BY DEF FetchAllocated, IInv, TypeOK, CallerDerefs
<1>3. \A q \in Requesters : q # r => CallerStays(q)
  BY DEF IInv, TypeOK, CallerType, CallerStays, FetchAllocated, Fetched, Goto
<1>4. UNCHANGED <<queues, free, free_loop, freeticket_counter, tk_life, tk_unique, tk_age,
                  answers, tk_aw_handler, op, tick, intr, itick, err, age, stick, sreply, inbox,
                  drain, closed>>
  BY DEF FetchAllocated, Fetched, Current, IInv, TypeOK, CallerType
<1>5. /\ ~dead' => ~dead /\ spc' = spc
      /\ \A z \in Servers : spc'[z] = spc[z] \/ (spc[z] = "asleep" /\ spc'[z] = "woken")
  BY DEF FetchAllocated, Admit, fdata_set_dead, WakeupOneReader, IInv, TypeOK, DaemonType
<1>6. /\ pc[r] = "alloc" /\ pc'[r] \in {"insert_cb", "insert_msg"}
      /\ pc'[r] = "insert_msg" <=> intr[r] \/ op[r] = "forget"
      /\ ticketer' = tk_unique[t] + 1
  BY <1>2 DEF IInv, TypeOK, CallerType, FetchAllocated, Fetched, Goto
<1>7. tk_flag' = [tk_flag EXCEPT ![t] =
                     IF intr[r] \/ op[r] = "forget" THEN @ \union {"INVAL"} ELSE @]
  BY <1>2 DEF FetchAllocated, Fetched, IInv, TypeOK, TicketType
<1>8. EndInv'
  BY <1>4, <1>5, EndStays DEF IInv, TypeOK, BitType
<1>9. PtrInv'
  BY <1>3, <1>4, <1>5, <1>6, CallerPoints DEF IInv, PtrInv, Waiting, Done, Wanted
<1>10. QueueInv'
  BY <1>3, <1>4, <1>6, QueuesStay DEF IInv, QueueInv, QueuedOnce
<1>11. ASSUME ~dead' PROVE Alive'
  <2>1. ~dead /\ Alive /\ spc' = spc
    BY <1>11, <1>5 DEF IInv
  <2>2. \A u \in Tickets : u # t => TicketStays(u)
    BY <1>4, <1>7 DEF TicketStays, IInv, TypeOK, TicketType
  <2>3. /\ t \notin ToSet(ms) /\ t \notin ToSet(aw) /\ ~InHand(t)
        /\ ~fticket_answered(t) /\ "DIRTY" \notin tk_flag[t] /\ "INVAL" \notin tk_flag[t]
    BY <1>2, <1>6, <2>1 DEF Current, Alive, FreshInv, Fresh, Filling, Clean,
       fticket_answered
  <2>4. /\ ~fticket_answered(t)' /\ "DIRTY" \notin tk_flag'[t]
        /\ "INVAL" \in tk_flag'[t] <=> intr[r] \/ op[r] = "forget"
    BY <1>7, <2>3 DEF fticket_answered, IInv, TypeOK, TicketType
  <2>5. /\ FreeInv' /\ LiveInv' /\ OwnInv' /\ SentInv' /\ MsInv' /\ AwInv' /\ HandInv'
        /\ InboxInv' /\ AgeInv'
        /\ \A q \in Requesters, u \in Tickets : u # t => Fresh(q, u)'
    BY <1>2, <1>3, <1>4, <1>6, <2>1, <2>2, <2>3, <2>4, CallerPrepares DEF IInv
  <2>6. \A q \in Requesters : q # r => (tick[q] # t \/ pc[q] = "abandon") /\ itick[q] # t
    BY <1>2, <1>6, <2>1 DEF Current, Alive, OwnInv, Held, Interrupts, Holds
  <2>7. InHand(t)' <=> InHand(t)
    BY <1>4 DEF InHand
  <2>8. FreshInv'
    <3>. SUFFICES ASSUME NEW q \in Requesters PROVE Fresh(q, t)'
      BY <2>5 DEF FreshInv
    <3>1. CASE q = r
      BY <3>1, <1>2, <2>7, <1>4, <1>6, <2>3, <2>4, <2>1 DEF Fresh, Filling, Sending, Clean,
         fticket_answered, Current, IInv, PtrInv, Alive, OwnInv, Held, Holds, Interrupts
    <3>2. CASE q # r
      BY <3>2, <2>6, <2>1, <1>3, <1>4 DEF Fresh, Filling, Sending, CallerStays, IInv, PtrInv
    <3>. QED
      BY <3>1, <3>2
  <2>9. UniqueInv'
    <3>1. \A q \in Requesters : pc'[q] # "alloc"
      BY <1>3, <1>6, <2>1 DEF CallerStays, Alive, UniqueInv
    <3>2. tk_unique[t] = ticketer /\ ticketer \in Nat
      BY <1>2, <1>6, <2>1 DEF Alive, UniqueInv, IInv, TypeOK, QueueType
    <3>3. \A u \in Tickets : tk_life[u] = "live" => tk_unique[u] <= ticketer
            /\ tk_unique[u] \in Nat
      BY <2>1 DEF Alive, UniqueInv, IInv, TypeOK, TicketType
    <3>. QED
      BY <3>1, <3>2, <3>3, <1>4, <1>6, <2>1 DEF Alive, UniqueInv
  <2>. QED
    BY <2>5, <2>8, <2>9 DEF Alive
<1>. QED
  BY <1>1, <1>8, <1>9, <1>10, <1>11 DEF IInv

\* A ticket gets its handler, unless the session is dead.
LEMMA fuse_insert_callback_Inv ==
    ASSUME IInv, NEW r \in Requesters, fuse_insert_callback(r)
    PROVE  IInv'
<1>. USE NullIsNoTicket DEF session, queues, pool, answers, callers, daemon, control, ticketv
<1>1. TypeOK'
  BY fuse_insert_callback_Type DEF IInv
<1>2. PICK t \in Tickets : t = tick[r]
  BY DEF fuse_insert_callback, IInv, TypeOK, CallerDerefs, Current, PtrInv
<1>3. \A q \in Requesters : q # r => CallerStays(q)
  BY DEF IInv, TypeOK, CallerType, CallerStays, fuse_insert_callback, Goto
<1>4. UNCHANGED <<queues, free, free_loop, freeticket_counter, tk_life, tk_unique, tk_age,
                  answers, tk_flag, ticketer, op, tick, intr, itick, err, age, dead, spc, stick,
                  sreply, inbox, drain, closed>>
  BY DEF fuse_insert_callback
<1>5. /\ pc[r] = "insert_cb"
      /\ dead => pc'[r] = "insert_msg"
      /\ ~dead => pc'[r] = "push_aw"
           /\ tk_aw_handler' = [tk_aw_handler EXCEPT ![t] = HandlerOf(op[r])]
  BY <1>2 DEF IInv, TypeOK, CallerType, fuse_insert_callback, InsertSeesDead, Goto
<1>6. EndInv'
  BY <1>4, EndStays DEF IInv
<1>7. PtrInv'
  BY <1>3, <1>4, <1>5, CallerPoints DEF IInv, PtrInv, Waiting, Done, Wanted
<1>8. ASSUME ~dead
      PROVE  /\ t \notin ToSet(ms) /\ t \notin ToSet(aw) /\ ~InHand(t) /\ Clean(t) /\ ~intr[r]
                        /\ \A q \in Requesters : q # r => (tick[q] # t \/ pc[q] = "abandon")
                             /\ itick[q] # t
  <2>1. Alive /\ ~intr[r]
    BY <1>8, <1>5 DEF IInv, PtrInv
  <2>2. Filling(r) /\ Holds(r, t)
    BY <2>1, <1>5, <1>2 DEF Filling, Holds
  <2>. QED
    BY <2>1, <2>2, <1>2 DEF Alive, FreshInv, Fresh, OwnInv, Held, Holds, Interrupts
<1>9. QueueInv'
  <2>1. CASE dead
    BY <2>1, <1>3, <1>4, <1>5, QueuesStay DEF IInv, QueueInv, QueuedOnce
  <2>2. CASE ~dead
    BY <2>2, <1>2, <1>3, <1>4, <1>5, <1>8, CallerWillPush DEF IInv
  <2>. QED
    BY <2>1, <2>2
<1>10. ASSUME ~dead' PROVE Alive'
  <2>1. ~dead /\ Alive
    BY <1>10, <1>4 DEF IInv
  <2>2. pc'[r] = "push_aw" /\ tk_aw_handler' = [tk_aw_handler EXCEPT ![t] = HandlerOf(op[r])]
    BY <1>5, <2>1
  <2>3. (\A u \in Tickets : u # t => TicketStays(u)) /\ tk_aw_handler'[t] = HandlerOf(op[r])
    BY <1>4, <2>2 DEF TicketStays, IInv, TypeOK, TicketType
  <2>4. ~fticket_answered(t)' /\ Clean(t)'
    BY <1>4, <1>8, <2>1 DEF fticket_answered, Clean
  <2>5. Current(r) = t
    BY <1>2, <1>8, <2>1 DEF Current
  <2>6. /\ FreeInv' /\ LiveInv' /\ OwnInv' /\ SentInv' /\ MsInv' /\ AwInv' /\ HandInv'
        /\ InboxInv' /\ AgeInv'
        /\ \A q \in Requesters, u \in Tickets : u # t => Fresh(q, u)'
    BY <2>5, <1>3, <1>4, <1>5, <2>1, <2>2, <2>3, <1>8, <2>4, CallerPrepares DEF IInv
  <2>7. InHand(t)' <=> InHand(t)
    BY <1>4 DEF InHand
  <2>8. itick[r] = NoTicket
    BY <1>8, <2>1 DEF IInv, PtrInv
  <2>9. FreshInv'
    <3>. SUFFICES ASSUME NEW q \in Requesters PROVE Fresh(q, t)'
      BY <2>6 DEF FreshInv
    <3>1. CASE q = r
      BY <3>1, <2>8, <2>7, <1>4, <2>2, <1>8, <2>4, <2>1, <2>3 DEF Fresh, Filling, Sending
    <3>2. CASE q # r
      BY <3>2, <1>8, <2>1, <1>3, <1>4 DEF Fresh, Filling, Sending, CallerStays, IInv, PtrInv
    <3>. QED
      BY <3>1, <3>2
  <2>10. UniqueInv'
    <3>1. \A q \in Requesters : /\ pc'[q] = "alloc" <=> pc[q] = "alloc"
                                /\ pc[q] = "alloc" => Current(q)' = Current(q)
      BY <1>3, <1>5, <1>4 DEF CallerStays, Current
    <3>2. Numbering' <=> Numbering
      BY <3>1 DEF Numbering
    <3>. QED
      BY <3>1, <3>2, <1>4, <2>1 DEF Alive, UniqueInv
  <2>. QED
    BY <2>6, <2>9, <2>10 DEF Alive
<1>. QED
  BY <1>1, <1>6, <1>7, <1>9, <1>10 DEF IInv

\* A message is marked as sent.
LEMMA fuse_insert_message_Inv ==
    ASSUME IInv, NEW r \in Requesters, fuse_insert_message(r)
    PROVE  IInv'
<1>. USE NullIsNoTicket DEF session, queues, pool, answers, callers, daemon, control, ticketv
<1>1. TypeOK'
  BY fuse_insert_message_Type DEF IInv
<1>2. PICK t \in Tickets : t = Current(r)
  BY DEF fuse_insert_message, IInv, TypeOK, CallerDerefs
<1>3. /\ UNCHANGED <<queues, free, free_loop, freeticket_counter, ticketer, tk_life, tk_unique,
                     tk_age, tk_aw_handler, answers, daemon, dead, drain, closed>>
      /\ pc[r] = "insert_msg"
  BY DEF fuse_insert_message
<1>4. EndInv'
  BY <1>3, EndStays DEF IInv
<1>5. ASSUME "DIRTY" \in tk_flag[t] PROVE UNCHANGED callers
  BY <1>5, <1>2 DEF fuse_insert_message
<1>6. ASSUME "DIRTY" \notin tk_flag[t], dead PROVE AfterSend(r)
  BY <1>6, <1>2 DEF fuse_insert_message
<1>7. ASSUME "DIRTY" \notin tk_flag[t], ~dead
      PROVE  /\ \A q \in Requesters : q # r => CallerStays(q)
             /\ pc'[r] = "push_ms" /\ UNCHANGED <<op, tick, intr, itick, err, age>>
             /\ tk_flag' = [tk_flag EXCEPT ![t] = @ \union {"DIRTY"}]
  BY <1>7, <1>2 DEF fuse_insert_message, Goto, CallerStays, IInv, TypeOK, CallerType
<1>8. ASSUME ~dead
      PROVE  /\ t \notin ToSet(ms) /\ ~InHand(t) /\ ~fticket_answered(t)
             /\ "DIRTY" \notin tk_flag[t]
             /\ t \in ToSet(aw) => "INVAL" \notin tk_flag[t] /\ ~intr[r]
             /\ \A q \in Requesters : q # r => (tick[q] # t \/ pc[q] = "abandon") /\ itick[q] # t
  <2>1. Alive
    BY <1>8 DEF IInv
  <2>2. Fresh(r, t)
    BY <2>1 DEF Alive, FreshInv
  <2>3. (intr[r] /\ itick[r] = t) \/ (~intr[r] /\ tick[r] = t /\ Holds(r, t) /\ Sending(r))
    BY <1>2, <1>3 DEF Current, Sending, Holds
  <2>4. \A q \in Requesters : q # r => (tick[q] # t \/ pc[q] = "abandon") /\ itick[q] # t
    BY <2>1, <2>3 DEF Alive, OwnInv, Held, Interrupts, Holds
  <2>. QED
    BY <2>2, <2>3, <2>4, <1>3 DEF Fresh
<1>9. PtrInv'
  <2>1. CASE "DIRTY" \in tk_flag[t]
    BY <2>1, <1>5, <1>3 DEF IInv, PtrInv, Waiting, Done
  <2>2. CASE "DIRTY" \notin tk_flag[t] /\ dead
    BY <2>2, <1>6, <1>3, AfterSendMoves, CallerPoints DEF IInv, TypeOK, PtrInv, Waiting,
       Done, Wanted
  <2>3. CASE "DIRTY" \notin tk_flag[t] /\ ~dead
    BY <2>3, <1>7, <1>3, CallerPoints DEF IInv, PtrInv, Waiting, Done, Wanted
  <2>. QED
    BY <2>1, <2>2, <2>3
<1>10. QueueInv'
  <2>1. CASE "DIRTY" \in tk_flag[t]
    BY <2>1, <1>5, <1>3 DEF IInv, QueueInv, QueuedOnce, Current
  <2>2. CASE "DIRTY" \notin tk_flag[t] /\ dead
    BY <2>2, <1>6, <1>3, AfterSendMoves, QueuesStay DEF IInv, TypeOK, QueueInv, QueuedOnce
  <2>3. CASE "DIRTY" \notin tk_flag[t] /\ ~dead
    <3>1. Current(r)' = t
      BY <2>3, <1>7, <1>2 DEF Current
    <3>2. \A q \in Requesters : q # r /\ pc[q] = "push_ms" => Current(q) # t
      BY <2>3, <1>8 DEF Current
    <3>. QED
      BY <2>3, <1>7, <3>1, <3>2, <1>8, <1>3, CallerWillPush DEF IInv
  <2>. QED
    BY <2>1, <2>2, <2>3
<1>11. ASSUME ~dead' PROVE Alive'
  <2>1. ~dead /\ Alive
    BY <1>11, <1>3 DEF IInv
  <2>2. /\ t \notin ToSet(ms) /\ ~InHand(t) /\ ~fticket_answered(t) /\ "DIRTY" \notin tk_flag[t]
        /\ t \in ToSet(aw) => "INVAL" \notin tk_flag[t] /\ ~intr[r]
    BY <1>8, <2>1
  <2>3. \A q \in Requesters : q # r => (tick[q] # t \/ pc[q] = "abandon") /\ itick[q] # t
    BY <1>8, <2>1
  <2>4. /\ \A q \in Requesters : q # r => CallerStays(q)
        /\ pc'[r] = "push_ms" /\ UNCHANGED <<op, tick, intr, itick, err, age>>
        /\ tk_flag' = [tk_flag EXCEPT ![t] = @ \union {"DIRTY"}]
    BY <1>7, <2>2, <2>1
  <2>5. \A u \in Tickets : u # t => TicketStays(u)
    BY <1>3, <2>4 DEF TicketStays, IInv, TypeOK, TicketType
  <2>6. /\ ~fticket_answered(t)' /\ "DIRTY" \in tk_flag'[t]
        /\ "INVAL" \in tk_flag'[t] <=> "INVAL" \in tk_flag[t]
    BY <2>4, <2>2 DEF fticket_answered, IInv, TypeOK, TicketType
  <2>7. ~intr[r] => Sending(r)'
    BY <2>4 DEF Sending
  <2>8. /\ FreeInv' /\ LiveInv' /\ OwnInv' /\ SentInv' /\ MsInv' /\ AwInv' /\ HandInv'
        /\ InboxInv' /\ AgeInv'
        /\ \A q \in Requesters, u \in Tickets : u # t => Fresh(q, u)'
    BY <1>2, <2>4, <1>3, <2>1, <2>2, <2>5, <2>6, <2>7, CallerPrepares DEF IInv
  <2>9. InHand(t)' <=> InHand(t)
    BY <1>3 DEF InHand
  <2>10. FreshInv'
    <3>. SUFFICES ASSUME NEW q \in Requesters PROVE Fresh(q, t)'
      BY <2>8 DEF FreshInv
    <3>1. CASE q = r
      <4>1. Fresh(r, t) /\ ~Filling(r)'
        BY <2>1, <2>4 DEF Alive, FreshInv, Filling
      <4>2. ~intr[r] => Sending(r)
        BY <1>3 DEF Sending
      <4>3. tick[r] = t => ~intr[r]
        BY <1>2, <2>1, <1>3 DEF Current, Alive, OwnInv, Held, Holds, Interrupts
      <4>4. itick[r] = t => intr[r]
        BY DEF IInv, PtrInv
      <4>5. Sending(r)' => ~intr[r]
        BY <2>4 DEF Sending
      <4>. QED
        BY <3>1, <4>1, <4>2, <4>3, <4>4, <4>5, <2>9, <2>4, <1>3, <2>2, <2>6 DEF Fresh
    <3>2. CASE q # r
      BY <3>2, <2>3, <2>4, <1>3 DEF Fresh, Filling, Sending, CallerStays, IInv, PtrInv
    <3>. QED
      BY <3>1, <3>2
  <2>11. UniqueInv'
    <3>1. \A q \in Requesters : /\ pc'[q] = "alloc" <=> pc[q] = "alloc"
                                /\ pc[q] = "alloc" => Current(q)' = Current(q)
      BY <2>4, <1>3 DEF CallerStays, Current
    <3>2. Numbering' <=> Numbering
      BY <3>1 DEF Numbering
    <3>. QED
      BY <3>1, <3>2, <1>3, <2>1 DEF Alive, UniqueInv
  <2>. QED
    BY <2>8, <2>10, <2>11 DEF Alive
<1>. QED
  BY <1>1, <1>4, <1>9, <1>10, <1>11 DEF IInv

\* A message is queued for the daemon.
LEMMA fuse_ms_push_Inv ==
    ASSUME IInv, NEW r \in Requesters, fuse_ms_push(r)
    PROVE  IInv'
<1>. USE NullIsNoTicket DEF session, queues, pool, answers, callers, daemon, control, ticketv
<1>1. TypeOK'
  BY fuse_ms_push_Type DEF IInv
<1>2. PICK t \in Tickets : t = Current(r)
  BY DEF fuse_ms_push, IInv, TypeOK, CallerDerefs
<1>3. /\ UNCHANGED <<aw, pool, tk_flag, tk_age, tk_aw_handler, answers, stick, sreply, inbox,
                     dead, drain, closed>>
      /\ pc[r] = "push_ms"
  BY DEF fuse_ms_push
<1>4. /\ \A q \in Requesters : q # r => CallerStays(q)
      /\ op'[r] = op[r] /\ ~intr'[r] /\ itick'[r] = NoTicket
      /\ intr[r] => tick'[r] = tick[r] /\ pc'[r] = "waited" /\ err'[r] = "EINTR"
      /\ ~intr[r] /\ op[r] \in Wanted => tick'[r] = tick[r] /\ pc'[r] = "wait"
      /\ ~intr[r] /\ op[r] \notin Wanted => tick'[r] = NoTicket /\ pc'[r] = "idle"
  BY <1>3, AfterSendMoves DEF fuse_ms_push, IInv, TypeOK
<1>5. \A z \in Servers : spc'[z] = spc[z] \/ (spc[z] = "asleep" /\ spc'[z] = "woken")
  BY DEF fuse_ms_push, WakeupOneReader, IInv, TypeOK, DaemonType
<1>6. ToSet(ms') = ToSet(ms) \union {t} /\ IsInjective(ms') /\ t \notin ToSet(ms)
  BY <1>2, AppendSet DEF IInv, TypeOK, QueueType, QueueInv, QueuedOnce, fuse_ms_push
<1>7. EndInv'
  BY <1>3, <1>5, EndStays DEF IInv
<1>8. PtrInv'
  BY <1>4, <1>3, <1>5, CallerPoints DEF IInv, PtrInv, Waiting, Done, Wanted
<1>9. QueueInv'
  <2>1. \A q \in Requesters : pc'[q] \in {"push_aw", "push_ms"} =>
           q # r /\ pc[q] = pc'[q] /\ Current(q)' = Current(q) /\ tick'[q] = tick[q]
    BY <1>4 DEF CallerStays, Current
  <2>. QED
    BY <1>2, <1>3, <1>6, <2>1 DEF IInv, QueueInv, QueuedOnce
<1>10. ASSUME ~dead' PROVE Alive'
  BY <1>10, <1>2, <1>4, <1>3, <1>5, <1>6, CallerSends DEF IInv
<1>. QED
  BY <1>1, <1>7, <1>8, <1>9, <1>10 DEF IInv

\* A ticket is destroyed before it is sent.
LEMMA MakeFails_Inv ==
    ASSUME IInv, NEW r \in Requesters, MakeFails(r)
    PROVE  IInv'
<1>. USE NullIsNoTicket DEF session, queues, pool, answers, callers, daemon, control, ticketv
<1>1. TypeOK'
  BY MakeFails_Type DEF IInv
<1>2. pc[r] = "insert_cb" /\ pc'[r] = "idle" /\ tick'[r] = NoTicket /\ ~intr[r]
      /\ itick[r] = NoTicket
  BY DEF IInv, TypeOK, CallerType, MakeFails, Return, PtrInv
<1>3. PICK t \in Tickets : t = tick[r]
  BY <1>2 DEF IInv, TypeOK, CallerDerefs, Current
<1>4. \A q \in Requesters : q # r => CallerStays(q)
  BY DEF IInv, TypeOK, CallerType, CallerStays, MakeFails, Return
<1>5. UNCHANGED <<queues, ticketer, tk_unique, free, free_loop, freeticket_counter, ticketv,
                  daemon, dead, drain, closed, intr, itick>>
  BY DEF MakeFails, Return
<1>6. tk_life' = [tk_life EXCEPT ![t] = "freed"]
  BY <1>3 DEF MakeFails
<1>7. EndInv'
  BY <1>5, EndStays DEF IInv
<1>8. PtrInv'
  BY <1>4, <1>5, <1>2, CallerPoints DEF IInv, PtrInv, Waiting, Done, Wanted
<1>9. QueueInv'
  BY <1>4, <1>5, <1>2, QueuesStay DEF IInv, QueueInv, QueuedOnce
<1>10. ASSUME ~dead' PROVE Alive'
  <2>1. ~dead /\ Alive
    BY <1>10, <1>5 DEF IInv
  <2>2. Holds(r, t) /\ ~Interrupts(t) /\ Held(t)
    BY <1>3, <1>2, <2>1 DEF Alive, OwnInv, Held, Holds
  <2>3. /\ t \notin ToSet(ms) /\ t \notin ToSet(aw) /\ ~InHand(t)
    BY <1>3, <1>2, <2>1 DEF IInv, PtrInv, Alive, SentInv, Sent, Done, Answered, FreshInv,
       Fresh, Filling
  <2>4. t \notin ToSet(free) /\ tk_life[t] = "live"
    BY <2>2, <2>1 DEF Alive, FreeInv, LiveInv
  <2>5. /\ \A q \in Requesters : ~Holds(q, t) => CallerStays(q)
        /\ \A q \in Requesters : Holds(q, t) =>
              /\ tick'[q] = NoTicket /\ itick'[q] = NoTicket /\ ~intr[q] /\ ~intr'[q]
              /\ pc[q] # "alloc" /\ pc'[q] \in {"idle", "initsync", "fetch"}
    BY <1>3, <1>4, <1>5, <1>2, <2>1 DEF Alive, OwnInv, Holds, IInv, PtrInv
  <2>6. /\ \A u \in Tickets : u # t => TicketStays(u)
        /\ tk_life'[t] = "freed" /\ tk_age'[t] = tk_age[t]
    BY <1>3, <1>5, <1>6 DEF TicketStays, IInv, TypeOK, TicketType
  <2>7. \A z \in Servers : stick[z] # t /\ ServerStays(z)
    BY <2>3, <1>5 DEF InHand, ServerStays
  <2>8. tk_age[t] \in Nat
    BY DEF IInv, TypeOK, TicketType
  <2>9. /\ LiveInv' /\ OwnInv' /\ FreshInv' /\ SentInv' /\ MsInv' /\ AwInv' /\ HandInv'
        /\ InboxInv' /\ UniqueInv' /\ AgeInv'
        /\ ~Held(t)' /\ ~Interrupts(t)' /\ ~InHand(t)'
        /\ \A u \in Tickets : u # t =>
              /\ Held(u)' <=> Held(u)
              /\ Interrupts(u)' <=> Interrupts(u)
              /\ InHand(u)' <=> InHand(u)
              /\ Clean(u)' <=> Clean(u)
    BY <2>1, <2>2, <2>3, <2>4, <2>5, <2>6, <2>7, <2>8, <1>5, TicketGoes DEF IInv
  <2>10. FreeInv'
    <3>1. \A u \in ToSet(free) : u # t /\ u \in Tickets
      BY <2>4, QueuesHoldTickets DEF IInv
    <3>. QED
      BY <3>1, <1>5, <2>1, <2>6, <2>9 DEF Alive, FreeInv, TicketStays
  <2>. QED
    BY <2>9, <2>10 DEF Alive
<1>. QED
  BY <1>1, <1>7, <1>8, <1>9, <1>10 DEF IInv

\* An answered ticket is forgotten.
LEMMA VgetFails_Inv ==
    ASSUME IInv, NEW r \in Requesters, VgetFails(r)
    PROVE  IInv'
<1>. USE NullIsNoTicket DEF session, queues, pool, answers, callers, daemon, control, ticketv
<1>1. TypeOK'
  BY VgetFails_Type DEF IInv
<1>2. pc[r] = "have" /\ pc'[r] = "fetch" /\ tick'[r] = NoTicket /\ ~intr[r] /\ itick[r] = NoTicket
  BY DEF IInv, TypeOK, CallerType, VgetFails, Goto, PtrInv
<1>3. PICK t \in Tickets : t = tick[r]
  BY <1>2 DEF IInv, TypeOK, CallerDerefs, Current
<1>4. \A q \in Requesters : q # r => CallerStays(q)
  BY DEF IInv, TypeOK, CallerType, CallerStays, VgetFails, Goto
<1>5. UNCHANGED <<queues, ticketer, tk_unique, free, free_loop, freeticket_counter, tk_life,
                  ticketv, daemon, dead, drain, closed, intr, itick>>
  BY DEF VgetFails
<1>6. EndInv'
  BY <1>5, EndStays DEF IInv
<1>7. PtrInv'
  BY <1>4, <1>5, <1>2, CallerPoints DEF IInv, PtrInv, Waiting, Done, Wanted
<1>8. QueueInv'
  BY <1>4, <1>5, <1>2, QueuesStay DEF IInv, QueueInv, QueuedOnce
<1>9. ASSUME ~dead' PROVE Alive'
  <2>1. ~dead /\ Alive
    BY <1>9, <1>5 DEF IInv
  <2>2. Holds(r, t) /\ ~Interrupts(t) /\ Held(t)
    BY <1>3, <1>2, <2>1 DEF Alive, OwnInv, Held, Holds
  <2>3. /\ t \notin ToSet(ms) /\ t \notin ToSet(aw) /\ ~InHand(t)
    BY <1>3, <1>2, <2>1 DEF IInv, PtrInv, Alive, SentInv, Sent, Done, Answered, FreshInv,
       Fresh, Filling
  <2>4. t \notin ToSet(free) /\ tk_life[t] = "live"
    BY <2>2, <2>1 DEF Alive, FreeInv, LiveInv
  <2>5. /\ \A q \in Requesters : ~Holds(q, t) => CallerStays(q)
        /\ \A q \in Requesters : Holds(q, t) =>
              /\ tick'[q] = NoTicket /\ itick'[q] = NoTicket /\ ~intr[q] /\ ~intr'[q]
              /\ pc[q] # "alloc" /\ pc'[q] \in {"idle", "initsync", "fetch"}
    BY <1>3, <1>4, <1>5, <1>2, <2>1 DEF Alive, OwnInv, Holds, IInv, PtrInv
  <2>6. \A u \in Tickets : TicketStays(u)
    BY <1>5 DEF TicketStays
  <2>7. \A z \in Servers : stick[z] # t /\ ServerStays(z)
    BY <2>3, <1>5 DEF InHand, ServerStays
  <2>8. tk_age[t] \in Nat
    BY DEF IInv, TypeOK, TicketType
  <2>9. /\ LiveInv' /\ OwnInv' /\ FreshInv' /\ SentInv' /\ MsInv' /\ AwInv' /\ HandInv'
        /\ InboxInv' /\ UniqueInv' /\ AgeInv'
        /\ ~Held(t)' /\ ~Interrupts(t)' /\ ~InHand(t)'
        /\ \A u \in Tickets : u # t =>
              /\ Held(u)' <=> Held(u)
              /\ Interrupts(u)' <=> Interrupts(u)
              /\ InHand(u)' <=> InHand(u)
              /\ Clean(u)' <=> Clean(u)
    BY <2>1, <2>2, <2>3, <2>4, <2>5, <2>6, <2>7, <2>8, <1>5, TicketGoes DEF IInv
  <2>10. FreeInv'
    <3>1. \A u \in ToSet(free) : u # t /\ u \in Tickets
      BY <2>4, QueuesHoldTickets DEF IInv
    <3>. QED
      BY <3>1, <1>5, <2>1, <2>6, <2>9 DEF Alive, FreeInv, TicketStays
  <2>. QED
    BY <2>9, <2>10 DEF Alive
<1>. QED
  BY <1>1, <1>6, <1>7, <1>8, <1>9 DEF IInv

\* A caller drops its ticket: it dies, or will be put back.
LEMMA fuse_ticket_drop_lock_Inv ==
    ASSUME IInv, NEW r \in Requesters, fuse_ticket_drop_lock(r)
    PROVE  IInv'
<1>. USE NullIsNoTicket DEF session, queues, pool, answers, callers, daemon, control, ticketv
<1>1. TypeOK'
  BY fuse_ticket_drop_lock_Type DEF IInv
<1>2. pc[r] = "drop" /\ ~intr[r] /\ itick[r] = NoTicket
  BY DEF IInv, PtrInv, fuse_ticket_drop_lock
<1>3. PICK t \in Tickets : t = tick[r]
  BY <1>2 DEF IInv, TypeOK, CallerDerefs, Current
<1>4. /\ UNCHANGED <<queues, ticketer, tk_unique, free, free_loop, freeticket_counter, ticketv,
                     daemon, dead, drain, closed, op, intr, itick>>
  BY AfterDropMoves DEF fuse_ticket_drop_lock, IInv, TypeOK
<1>5. TicketDies(t) => AfterDrop(r) /\ tk_life' = [tk_life EXCEPT ![t] = "freed"]
  BY <1>3 DEF fuse_ticket_drop_lock
<1>6. ~TicketDies(t) => /\ pc' = [pc EXCEPT ![r] = "push"]
                        /\ UNCHANGED <<tk_life, op, tick, intr, itick, err, age>>
  BY <1>3 DEF fuse_ticket_drop_lock, Goto
<1>7. \A q \in Requesters : q # r => CallerStays(q)
  <2>1. CASE TicketDies(t)
    BY <2>1, <1>5, AfterDropMoves DEF IInv, TypeOK
  <2>2. CASE ~TicketDies(t)
    BY <2>2, <1>6 DEF CallerStays, IInv, TypeOK, CallerType
  <2>. QED
    BY <2>1, <2>2
<1>8. \/ TicketDies(t) /\ pc'[r] \in {"idle", "initsync"} /\ tick'[r] = NoTicket
      \/ ~TicketDies(t) /\ pc'[r] = "push" /\ tick' = tick
  <2>1. CASE TicketDies(t)
    BY <2>1, <1>5, AfterDropMoves DEF IInv, TypeOK
  <2>2. CASE ~TicketDies(t)
    BY <2>2, <1>6 DEF IInv, TypeOK, CallerType
  <2>. QED
    BY <2>1, <2>2
<1>9. EndInv'
  BY <1>4, EndStays DEF IInv
<1>10. PtrInv'
  BY <1>7, <1>4, <1>2, <1>8, <1>3, CallerPoints DEF IInv, PtrInv, Waiting, Done, Wanted
<1>11. QueueInv'
  BY <1>7, <1>4, <1>8, QueuesStay DEF IInv, QueueInv, QueuedOnce
<1>12. ASSUME ~dead' PROVE Alive'
  <2>1. CASE ~TicketDies(t)
    <3>1. ~dead /\ Alive
      BY <1>12, <1>4 DEF IInv
    <3>2. pc[r] = "drop" /\ pc'[r] = "push" /\ tick' = tick /\ tk_life' = tk_life /\ ~intr[r]
          /\ ~intr'[r]
      BY <2>1, <1>2, <1>8, <1>6, <1>4
    <3>3. /\ itick[r] = NoTicket /\ pc[r] \notin Unsent /\ pc'[r] \notin Unsent
          /\ Waiting(r)' => Waiting(r)
          /\ Done(r)' => Waiting(r) \/ Done(r)
          /\ Waiting(r) => Waiting(r)' \/ Done(r)'
      BY <3>2 DEF IInv, PtrInv, Waiting, Done, Unsent
    <3>4. \A u \in Tickets : tick[r] = u =>
             /\ pc'[r] = "woken" \/ Done(r)' => fticket_answered(u)
             /\ pc'[r] = "waited" /\ err'[r] = "0" => fticket_answered(u)
             /\ pc'[r] = "asleep" => ~fticket_answered(u)
      BY <3>1, <3>2 DEF IInv, PtrInv, Alive, SentInv, Sent, Done, Waiting
    <3>. QED
      BY <1>7, <1>4, <3>2, <3>1, <3>3, <3>4, CallerMoves DEF IInv
  <2>2. CASE TicketDies(t)
    <3>1. tk_life' = [tk_life EXCEPT ![t] = "freed"]
      BY <2>2, <1>5
    <3>2. pc[r] = "drop" /\ pc'[r] \in {"idle", "initsync"} /\ tick'[r] = NoTicket /\ ~intr[r]
          /\ itick[r] = NoTicket
      BY <2>2, <1>2, <1>8
    <3>3. ~dead /\ Alive
      BY <1>12, <1>4 DEF IInv
    <3>4. Holds(r, t) /\ ~Interrupts(t) /\ Held(t)
      BY <1>3, <3>2, <3>3 DEF Alive, OwnInv, Held, Holds
    <3>5. /\ t \notin ToSet(ms) /\ t \notin ToSet(aw) /\ ~InHand(t)
      BY <1>3, <3>2, <3>3 DEF IInv, PtrInv, Alive, SentInv, Sent, Done, Answered, FreshInv,
         Fresh, Filling
    <3>6. t \notin ToSet(free) /\ tk_life[t] = "live"
      BY <3>4, <3>3 DEF Alive, FreeInv, LiveInv
    <3>7. /\ \A q \in Requesters : ~Holds(q, t) => CallerStays(q)
          /\ \A q \in Requesters : Holds(q, t) =>
                /\ tick'[q] = NoTicket /\ itick'[q] = NoTicket /\ ~intr[q] /\ ~intr'[q]
                /\ pc[q] # "alloc" /\ pc'[q] \in {"idle", "initsync", "fetch"}
      BY <1>3, <1>7, <1>4, <3>2, <3>3 DEF Alive, OwnInv, Holds, IInv, PtrInv
    <3>8. /\ \A u \in Tickets : u # t => TicketStays(u)
          /\ tk_life'[t] = "freed" /\ tk_age'[t] = tk_age[t]
      BY <1>3, <1>4, <3>1 DEF TicketStays, IInv, TypeOK, TicketType
    <3>9. \A z \in Servers : stick[z] # t /\ ServerStays(z)
      BY <3>5, <1>4 DEF InHand, ServerStays
    <3>10. tk_age[t] \in Nat
      BY DEF IInv, TypeOK, TicketType
    <3>11. /\ LiveInv' /\ OwnInv' /\ FreshInv' /\ SentInv' /\ MsInv' /\ AwInv' /\ HandInv'
           /\ InboxInv' /\ UniqueInv' /\ AgeInv'
           /\ ~Held(t)' /\ ~Interrupts(t)' /\ ~InHand(t)'
           /\ \A u \in Tickets : u # t =>
                 /\ Held(u)' <=> Held(u)
                 /\ Interrupts(u)' <=> Interrupts(u)
                 /\ InHand(u)' <=> InHand(u)
                 /\ Clean(u)' <=> Clean(u)
      BY <3>3, <3>4, <3>5, <3>6, <3>7, <3>8, <3>9, <3>10, <1>4, TicketGoes DEF IInv
    <3>12. FreeInv'
      <4>1. \A u \in ToSet(free) : u # t /\ u \in Tickets
        BY <3>6, QueuesHoldTickets DEF IInv
      <4>. QED
        BY <4>1, <1>4, <3>3, <3>8, <3>11 DEF Alive, FreeInv, TicketStays
    <3>. QED
      BY <3>11, <3>12 DEF Alive
  <2>. QED
    BY <2>1, <2>2
<1>. QED
  BY <1>1, <1>9, <1>10, <1>11, <1>12 DEF IInv

\* A caller puts its ticket on the free list.
LEMMA fuse_ticket_drop_push_Inv ==
    ASSUME IInv, NEW r \in Requesters, fuse_ticket_drop_push(r)
    PROVE  IInv'
<1>. USE NullIsNoTicket DEF session, queues, pool, answers, callers, daemon, control, ticketv
<1>1. TypeOK'
  BY fuse_ticket_drop_push_Type DEF IInv
<1>2. /\ \A q \in Requesters : q # r => CallerStays(q)
      /\ pc'[r] \in {"idle", "initsync"} /\ tick'[r] = NoTicket
      /\ UNCHANGED <<op, intr, itick>>
  BY AfterDropMoves DEF fuse_ticket_drop_push, IInv, TypeOK
<1>3. pc[r] = "push" /\ ~intr[r] /\ itick[r] = NoTicket
  BY DEF IInv, PtrInv, fuse_ticket_drop_push
<1>4. PICK t \in Tickets : t = tick[r]
  BY <1>3 DEF IInv, TypeOK, CallerDerefs, Current
<1>5. UNCHANGED <<queues, ticketer, tk_life, tk_unique, tk_aw_handler, daemon, dead, drain,
                  closed>>
  BY DEF fuse_ticket_drop_push
<1>6. fticket_refresh(t) /\ fuse_push_freeticks(t)
  BY <1>4 DEF fuse_ticket_drop_push
<1>7. EndInv'
  BY <1>5, EndStays DEF IInv
<1>8. PtrInv'
  BY <1>2, <1>5, <1>3, CallerPoints DEF IInv, PtrInv, Waiting, Done, Wanted
<1>9. QueueInv'
  BY <1>2, <1>5, <1>3, QueuesStay DEF IInv, QueueInv, QueuedOnce
<1>10. ASSUME ~dead' PROVE Alive'
  <2>1. ~dead /\ Alive
    BY <1>10, <1>5 DEF IInv
  <2>2. Holds(r, t) /\ ~Interrupts(t) /\ Held(t)
    BY <1>4, <1>3, <2>1 DEF Alive, OwnInv, Held, Holds
  <2>3. /\ t \notin ToSet(ms) /\ t \notin ToSet(aw) /\ ~InHand(t)
    BY <1>4, <1>3, <2>1 DEF IInv, PtrInv, Alive, SentInv, Sent, Done, Answered, FreshInv,
       Fresh, Filling
  <2>4. t \notin ToSet(free) /\ tk_life[t] = "live"
    BY <2>2, <2>1 DEF Alive, FreeInv, LiveInv
  <2>5. /\ \A q \in Requesters : ~Holds(q, t) => CallerStays(q)
        /\ \A q \in Requesters : Holds(q, t) =>
              /\ tick'[q] = NoTicket /\ itick'[q] = NoTicket /\ ~intr[q] /\ ~intr'[q]
              /\ pc[q] # "alloc" /\ pc'[q] \in {"idle", "initsync", "fetch"}
    BY <1>4, <1>2, <1>5, <1>3, <2>1 DEF Alive, OwnInv, Holds, IInv, PtrInv
  <2>6. /\ \A u \in Tickets : u # t => TicketStays(u)
        /\ tk_life' = tk_life /\ tk_flag'[t] = {} /\ tk_age'[t] = tk_age[t] + 1
    BY <1>5, <1>6 DEF fticket_refresh, TicketStays, IInv, TypeOK, TicketType
  <2>7. /\ ToSet(free') = ToSet(free) \union {t} /\ IsInjective(free')
        /\ ~free_loop' /\ freeticket_counter' = Len(free')
    BY <1>6, <2>4, <2>1, PushedFree DEF IInv, Alive
  <2>8. \A z \in Servers : stick[z] # t /\ ServerStays(z)
    BY <2>3, <1>5 DEF InHand, ServerStays
  <2>9. tk_age[t] \in Nat
    BY DEF IInv, TypeOK, TicketType
  <2>10. /\ LiveInv' /\ OwnInv' /\ FreshInv' /\ SentInv' /\ MsInv' /\ AwInv' /\ HandInv'
         /\ InboxInv' /\ UniqueInv' /\ AgeInv'
         /\ ~Held(t)' /\ ~Interrupts(t)' /\ ~InHand(t)'
         /\ \A u \in Tickets : u # t =>
               /\ Held(u)' <=> Held(u)
               /\ Interrupts(u)' <=> Interrupts(u)
               /\ InHand(u)' <=> InHand(u)
               /\ Clean(u)' <=> Clean(u)
    BY <2>1, <2>2, <2>3, <2>4, <2>5, <2>6, <2>8, <2>9, <1>5, <2>7, TicketGoes DEF IInv
  <2>11. FreeInv'
    <3>1. \A u \in ToSet(free) : u # t /\ u \in Tickets
      BY <2>4, QueuesHoldTickets DEF IInv
    <3>2. Clean(t)'
      BY <2>6 DEF Clean
    <3>3. \A u \in ToSet(free) : /\ tk_life[u] = "live" /\ Clean(u)
                                  /\ u \notin ToSet(ms) /\ u \notin ToSet(aw)
                                  /\ ~Held(u) /\ ~Interrupts(u) /\ ~InHand(u)
      BY <2>1 DEF Alive, FreeInv
    <3>. QED
      BY <3>1, <3>2, <3>3, <1>5, <2>7, <2>4, <2>3, <2>6, <2>10 DEF FreeInv
  <2>. QED
    BY <2>10, <2>11 DEF Alive
<1>. QED
  BY <1>1, <1>7, <1>8, <1>9, <1>10 DEF IInv

\* A daemon thread takes a message or goes to sleep.
LEMMA fuse_device_read_Inv ==
    ASSUME IInv, NEW s \in Servers, fuse_device_read(s)
    PROVE  IInv'
<1>. USE NullIsNoTicket DEF session, queues, pool, answers, callers, daemon, control, ticketv
<1>1. TypeOK'
  BY fuse_device_read_Type DEF IInv
<1>2. \A z \in Servers : z # s => ServerStays(z)
  BY DEF IInv, TypeOK, DaemonType, ServerStays, fuse_device_read, SGoto
<1>3. UNCHANGED <<aw, pool, tk_flag, tk_age, tk_aw_handler, answers, callers, inbox, dead,
                  sreply, drain, closed>>
  BY DEF fuse_device_read
<1>4. spc[s] = "user" /\ stick[s] = NoTicket
  BY DEF IInv, PtrInv, fuse_device_read
<1>5. ms = <<>> => ms' = ms /\ stick' = stick /\ spc'[s] \in {"user", "asleep"}
  BY DEF IInv, TypeOK, DaemonType, fuse_device_read, SGoto
<1>6. ASSUME ms # <<>>
      PROVE  /\ stick'[s] = Head(ms) /\ spc'[s] = "popped" /\ Head(ms) \in Tickets
             /\ Head(ms) \in ToSet(ms)
             /\ ToSet(ms') = ToSet(ms) \ {Head(ms)} /\ IsInjective(ms')
  <2>1. ms \in Seq(Tickets) /\ IsInjective(ms) /\ ms' = Tail(ms)
    BY <1>6 DEF IInv, TypeOK, QueueType, QueueInv, QueuedOnce, fuse_device_read
  <2>2. stick'[s] = Head(ms) /\ spc'[s] = "popped"
    BY <1>6 DEF IInv, TypeOK, DaemonType, fuse_device_read, SGoto
  <2>. QED
    BY <1>6, <2>1, <2>2, TailSet, PopType
<1>7. stick'[s] = NoTicket <=> spc'[s] \in {"user", "asleep", "woken", "gone"}
  BY <1>4, <1>5, <1>6
<1>8. spc'[s] # "gone"
  BY <1>5, <1>6
<1>9. EndInv'
  BY <1>2, <1>3, <1>8, EndStays DEF IInv, ServerStays
<1>10. PtrInv'
  BY <1>2, <1>3, <1>7, ServerPoints DEF IInv, PtrInv
<1>11. QueueInv'
  <2>1. IsInjective(ms') /\ ToSet(ms') \subseteq ToSet(ms)
    BY <1>5, <1>6 DEF IInv, QueueInv, QueuedOnce
  <2>. QED
    BY <2>1, <1>3, QueuesStay DEF IInv, QueueInv, QueuedOnce, CallerStays
<1>12. ASSUME ~dead' PROVE Alive'
  <2>1. ~dead /\ Alive
    BY <1>12, <1>3 DEF IInv
  <2>2. CASE ms = <<>>
    BY <2>2, <1>2, <1>3, <1>4, <1>5, <2>1, ServerMoves DEF IInv
  <2>3. CASE ms # <<>>
    <3>1. PICK t \in ToSet(ms) : t = Head(ms)
      BY <2>3, <1>6
    <3>2. ToSet(ms') = ToSet(ms) \ {t} /\ stick'[s] = t /\ spc'[s] = "popped"
      BY <2>3, <1>6, <3>1
    <3>. QED
      BY <3>2, <1>2, <1>3, <1>4, <2>1, ServerPops DEF IInv
  <2>. QED
    BY <2>2, <2>3
<1>. QED
  BY <1>1, <1>9, <1>10, <1>11, <1>12 DEF IInv

\* A reader wakes up.
LEMMA ReaderWakes_Inv ==
    ASSUME IInv, NEW s \in Servers, ReaderWakes(s)
    PROVE  IInv'
<1>. USE NullIsNoTicket DEF session, queues, pool, answers, callers, daemon, control, ticketv
<1>1. TypeOK'
  BY ReaderWakes_Type DEF IInv
<1>2. \A z \in Servers : z # s => ServerStays(z)
  BY DEF IInv, TypeOK, DaemonType, ServerStays, ReaderWakes, SGoto
<1>3. UNCHANGED <<aw, pool, tk_flag, tk_age, tk_aw_handler, answers, callers, inbox, dead,
                  sreply, drain, closed>>
  BY DEF ReaderWakes
<1>4. spc[s] = "woken" /\ stick[s] = NoTicket
  BY DEF IInv, PtrInv, ReaderWakes
<1>5. ms = <<>> => ms' = ms /\ stick' = stick /\ spc'[s] \in {"user", "asleep"}
  BY DEF IInv, TypeOK, DaemonType, ReaderWakes, SGoto
<1>6. ASSUME ms # <<>>
      PROVE  /\ stick'[s] = Head(ms) /\ spc'[s] = "popped" /\ Head(ms) \in Tickets
             /\ Head(ms) \in ToSet(ms)
             /\ ToSet(ms') = ToSet(ms) \ {Head(ms)} /\ IsInjective(ms')
  <2>1. ms \in Seq(Tickets) /\ IsInjective(ms) /\ ms' = Tail(ms)
    BY <1>6 DEF IInv, TypeOK, QueueType, QueueInv, QueuedOnce, ReaderWakes
  <2>2. stick'[s] = Head(ms) /\ spc'[s] = "popped"
    BY <1>6 DEF IInv, TypeOK, DaemonType, ReaderWakes, SGoto
  <2>. QED
    BY <1>6, <2>1, <2>2, TailSet, PopType
<1>7. stick'[s] = NoTicket <=> spc'[s] \in {"user", "asleep", "woken", "gone"}
  BY <1>4, <1>5, <1>6
<1>8. spc'[s] # "gone"
  BY <1>5, <1>6
<1>9. EndInv'
  BY <1>2, <1>3, <1>8, EndStays DEF IInv, ServerStays
<1>10. PtrInv'
  BY <1>2, <1>3, <1>7, ServerPoints DEF IInv, PtrInv
<1>11. QueueInv'
  <2>1. IsInjective(ms') /\ ToSet(ms') \subseteq ToSet(ms)
    BY <1>5, <1>6 DEF IInv, QueueInv, QueuedOnce
  <2>. QED
    BY <2>1, <1>3, QueuesStay DEF IInv, QueueInv, QueuedOnce, CallerStays
<1>12. ASSUME ~dead' PROVE Alive'
  <2>1. ~dead /\ Alive
    BY <1>12, <1>3 DEF IInv
  <2>2. CASE ms = <<>>
    BY <2>2, <1>2, <1>3, <1>4, <1>5, <2>1, ServerMoves DEF IInv
  <2>3. CASE ms # <<>>
    <3>1. PICK t \in ToSet(ms) : t = Head(ms)
      BY <2>3, <1>6
    <3>2. ToSet(ms') = ToSet(ms) \ {t} /\ stick'[s] = t /\ spc'[s] = "popped"
      BY <2>3, <1>6, <3>1
    <3>. QED
      BY <3>2, <1>2, <1>3, <1>4, <2>1, ServerPops DEF IInv
  <2>. QED
    BY <2>2, <2>3
<1>. QED
  BY <1>1, <1>9, <1>10, <1>11, <1>12 DEF IInv

\* A reader gets a signal.
LEMMA ReaderSignalled_Inv ==
    ASSUME IInv, NEW s \in Servers, ReaderSignalled(s)
    PROVE  IInv'
<1>. USE NullIsNoTicket DEF session, queues, pool, answers, callers, daemon, control, ticketv
<1>1. TypeOK'
  BY ReaderSignalled_Type DEF IInv
<1>2. \A z \in Servers : z # s => ServerStays(z)
  BY DEF IInv, TypeOK, DaemonType, ServerStays, ReaderSignalled, SGoto
<1>3. UNCHANGED <<queues, pool, tk_flag, tk_age, tk_aw_handler, answers, callers, inbox, dead,
                  stick, sreply, drain, closed>>
  BY DEF ReaderSignalled
<1>4. spc'[s] = "user" /\ stick[s] = NoTicket
  BY DEF IInv, TypeOK, DaemonType, PtrInv, ReaderSignalled, SGoto
<1>5. EndInv'
  BY <1>2, <1>3, <1>4, EndStays DEF IInv, ServerStays
<1>6. PtrInv'
  BY <1>2, <1>3, <1>4, ServerPoints DEF IInv, PtrInv
<1>7. QueueInv'
  BY <1>3, QueuesStay DEF IInv, QueueInv, QueuedOnce, CallerStays
<1>8. ASSUME ~dead' PROVE Alive'
  BY <1>8, <1>2, <1>3, <1>4, ServerMoves DEF IInv
<1>. QED
  BY <1>1, <1>5, <1>6, <1>7, <1>8 DEF IInv

\* A reader looks whether the session is dead.
LEMMA ReadChecksDead_Inv ==
    ASSUME IInv, NEW s \in Servers, ReadChecksDead(s)
    PROVE  IInv'
<1>. USE NullIsNoTicket DEF session, queues, pool, answers, callers, daemon, control, ticketv
<1>1. TypeOK'
  BY ReadChecksDead_Type DEF IInv
<1>2. \A z \in Servers : z # s => ServerStays(z)
  BY DEF IInv, TypeOK, DaemonType, ServerStays, ReadChecksDead, DropInvalid, SGoto
<1>3. UNCHANGED <<queues, pool, tk_flag, tk_age, tk_aw_handler, answers, callers, inbox, dead,
                  sreply, drain, closed>>
  BY DEF ReadChecksDead
<1>4. spc[s] = "popped" /\ stick[s] # NoTicket
  BY DEF IInv, PtrInv, ReadChecksDead
<1>5. /\ stick'[s] = NoTicket <=> spc'[s] \in {"user", "asleep", "woken", "gone"}
      /\ spc'[s] # "gone" /\ (~dead => stick' = stick /\ spc'[s] = "finish")
  BY <1>4 DEF IInv, TypeOK, DaemonType, ReadChecksDead, DropInvalid, SGoto
<1>6. EndInv'
  BY <1>2, <1>3, <1>5, EndStays DEF IInv, ServerStays
<1>7. PtrInv'
  BY <1>2, <1>3, <1>5, ServerPoints DEF IInv, PtrInv
<1>8. QueueInv'
  BY <1>3, QueuesStay DEF IInv, QueueInv, QueuedOnce, CallerStays
<1>9. ASSUME ~dead' PROVE Alive'
  BY <1>9, <1>2, <1>3, <1>4, <1>5, ServerMoves DEF IInv
<1>. QED
  BY <1>1, <1>6, <1>7, <1>8, <1>9 DEF IInv

\* A message is copied out to the daemon.
LEMMA ReadFinishes_Inv ==
    ASSUME IInv, NEW s \in Servers, ReadFinishes(s)
    PROVE  IInv'
<1>. USE NullIsNoTicket DEF session, queues, pool, answers, callers, daemon, control, ticketv
<1>1. TypeOK'
  BY ReadFinishes_Type DEF IInv
<1>2. \A z \in Servers : z # s => ServerStays(z)
  BY DEF IInv, TypeOK, DaemonType, ServerStays, ReadFinishes, DropInvalid, SGoto
<1>3. UNCHANGED <<queues, pool, tk_flag, tk_age, tk_aw_handler, answers, callers, sreply, drain,
                  closed>>
  BY DEF ReadFinishes
<1>4. spc[s] = "finish" /\ stick[s] # NoTicket
  BY DEF IInv, PtrInv, ReadFinishes
<1>5. PICK t \in Tickets : t = stick[s]
  BY <1>4 DEF IInv, TypeOK, ServerDerefs
<1>6. /\ stick'[s] = NoTicket <=> spc'[s] \in {"user", "asleep", "woken", "gone"}
      /\ spc'[s] # "gone"
      /\ "INVAL" \in tk_flag[t] => stick' = stick /\ spc'[s] = "drop"
      /\ "INVAL" \notin tk_flag[t] => stick'[s] = NoTicket
  BY <1>5, <1>4 DEF IInv, TypeOK, DaemonType, ReadFinishes, DropInvalid, SGoto
<1>7. /\ dead => dead'
      /\ ~dead' => inbox' = inbox \union (IF fticket_answered(t) \/ "INVAL" \in tk_flag[t] THEN {}
                                         ELSE {[unique |-> tk_unique[t], req |-> Request(t)]})
  BY <1>5 DEF ReadFinishes
<1>8. EndInv'
  BY <1>2, <1>3, <1>6, <1>7, EndStays DEF IInv, ServerStays
<1>9. PtrInv'
  BY <1>2, <1>3, <1>6, ServerPoints DEF IInv, PtrInv
<1>10. QueueInv'
  BY <1>3, QueuesStay DEF IInv, QueueInv, QueuedOnce, CallerStays
<1>11. ASSUME ~dead' PROVE Alive'
  <2>1. ~dead /\ Alive
    BY <1>11, <1>7 DEF IInv
  <2>2. CASE "INVAL" \in tk_flag[t]
    <3>1. inbox' = inbox
      BY <2>2, <1>11, <1>7
    <3>. QED
      BY <2>2, <3>1, <1>5, <1>2, <1>3, <1>4, <1>6, <2>1, ServerMoves DEF IInv
  <2>3. CASE "INVAL" \notin tk_flag[t]
    <3>1. \A m \in inbox' : \/ m \in inbox
                            \/ /\ ~fticket_answered(t)
                               /\ m.unique = tk_unique[t] /\ m.req = Request(t)
      BY <2>3, <1>11, <1>7
    <3>. QED
      BY <2>3, <3>1, <1>5, <1>2, <1>3, <1>4, <1>6, <2>1, ServerDelivers DEF IInv
  <2>. QED
    BY <2>2, <2>3
<1>. QED
  BY <1>1, <1>8, <1>9, <1>10, <1>11 DEF IInv

\* The daemon writes a reply.
LEMMA fuse_device_write_Inv ==
    ASSUME IInv, NEW s \in Servers, NEW m \in inbox, NEW k \in ReplyKinds,
           fuse_device_write(s, m, k)
    PROVE  IInv'
<1>. USE NullIsNoTicket DEF session, queues, pool, answers, callers, daemon, control, ticketv
<1>1. TypeOK'
  BY fuse_device_write_Type DEF IInv
<1>2. \A z \in Servers : z # s => ServerStays(z)
  BY DEF IInv, TypeOK, DaemonType, ServerStays, fuse_device_write, SGoto
<1>3. UNCHANGED <<ms, pool, tk_flag, tk_age, tk_aw_handler, answers, callers, dead, drain,
                  closed>> /\ inbox' = inbox \ {m}
  BY DEF fuse_device_write
<1>4. spc[s] = "user" /\ stick[s] = NoTicket
  BY DEF IInv, PtrInv, fuse_device_write
<1>5. \/ \E t \in ToSet(aw) : /\ t \in Tickets /\ ToSet(aw') = ToSet(aw) \ {t} /\ IsInjective(aw')
                              /\ tk_unique[t] = m.unique /\ stick'[s] = t
                              /\ spc'[s] = "handler" /\ sreply'[s].req = m.req
      \/ (\A t \in ToSet(aw) : tk_unique[t] # m.unique) /\ UNCHANGED <<aw, spc, stick, sreply>>
  <2>1. CASE \E i \in DOMAIN aw : AnsweredAt(i, m.unique) /\ aw' = RemoveAt(aw, i)
    <3>1. PICK i \in DOMAIN aw : /\ AnsweredAt(i, m.unique) /\ aw' = RemoveAt(aw, i)
                                 /\ stick' = [stick EXCEPT ![s] = aw[i]]
                                 /\ sreply' = [sreply EXCEPT ![s] = [req |-> m.req, kind |-> k]]
                                 /\ spc' = [spc EXCEPT ![s] = "handler"]
      BY <2>1 DEF fuse_device_write, SGoto, AnsweredAt, ToSet
    <3>2. aw \in Seq(Tickets) /\ IsInjective(aw)
      BY DEF IInv, TypeOK, QueueType, QueueInv, QueuedOnce
    <3>3. /\ aw[i] \in ToSet(aw) /\ aw[i] \in Tickets
          /\ ToSet(aw') = ToSet(aw) \ {aw[i]} /\ IsInjective(aw')
      BY <3>1, <3>2, RemoveAtSet
    <3>4. tk_unique[aw[i]] = m.unique
      BY <3>1 DEF AnsweredAt
    <3>5. stick'[s] = aw[i] /\ spc'[s] = "handler" /\ sreply'[s].req = m.req
      BY <3>1 DEF IInv, TypeOK, DaemonType
    <3>. QED
      BY <3>3, <3>4, <3>5
  <2>2. CASE ~\E i \in DOMAIN aw : AnsweredAt(i, m.unique) /\ aw' = RemoveAt(aw, i)
    BY <2>2 DEF fuse_device_write
  <2>. QED
    BY <2>1, <2>2
<1>6. /\ stick'[s] = NoTicket <=> spc'[s] \in {"user", "asleep", "woken", "gone"}
      /\ spc'[s] # "gone" /\ IsInjective(aw') /\ ToSet(aw') \subseteq ToSet(aw)
  BY <1>5, <1>4 DEF IInv, QueueInv, QueuedOnce
<1>7. EndInv'
  BY <1>2, <1>3, <1>6, EndStays DEF IInv, ServerStays
<1>8. PtrInv'
  BY <1>2, <1>3, <1>6, ServerPoints DEF IInv, PtrInv
<1>9. QueueInv'
  BY <1>6, <1>3, QueuesStay DEF IInv, QueueInv, QueuedOnce, CallerStays
<1>10. ASSUME ~dead' PROVE Alive'
  <2>1. ~dead /\ Alive
    BY <1>10, <1>3 DEF IInv
  <2>2. \E t \in ToSet(aw) : tk_unique[t] = m.unique
    BY <2>1 DEF Alive, InboxInv, Read
  <2>3. PICK t \in ToSet(aw) : /\ t \in Tickets /\ ToSet(aw') = ToSet(aw) \ {t}
                               /\ tk_unique[t] = m.unique /\ stick'[s] = t
                               /\ spc'[s] = "handler" /\ sreply'[s].req = m.req
    BY <1>5, <2>2
  <2>. QED
    BY <2>3, <1>2, <1>3, <1>4, <2>1, ServerTakes DEF IInv
<1>. QED
  BY <1>1, <1>7, <1>8, <1>9, <1>10 DEF IInv

\* The reply is copied in.
LEMMA RunHandler_Inv ==
    ASSUME IInv, NEW s \in Servers, RunHandler(s)
    PROVE  IInv'
<1>. USE NullIsNoTicket DEF session, queues, pool, answers, callers, daemon, control, ticketv
<1>1. TypeOK'
  BY RunHandler_Type DEF IInv
<1>2. \A z \in Servers : z # s => ServerStays(z)
  BY DEF IInv, TypeOK, DaemonType, ServerStays, RunHandler, SGoto
<1>3. UNCHANGED <<queues, pool, tk_age, tk_aw_handler, callers, stick, inbox, dead, drain,
                  closed>>
  BY DEF RunHandler
<1>4. spc[s] = "handler" /\ stick[s] # NoTicket
  BY DEF IInv, PtrInv, RunHandler
<1>5. PICK t \in Tickets : t = stick[s]
  BY <1>4 DEF IInv, TypeOK, ServerDerefs
<1>6. /\ spc'[s] = (IF tk_aw_handler[t] = "standard" THEN "answer" ELSE "drop")
           /\ stick'[s] # NoTicket
  BY <1>5, <1>4, <1>3 DEF IInv, TypeOK, DaemonType, RunHandler, SGoto
<1>7. tk_flag' \in {tk_flag, [tk_flag EXCEPT ![t] = @ \union {"KILLL"}]}
  BY <1>5 DEF RunHandler
<1>8. tk_aw_ohead' = IF tk_aw_handler[t] = "null" THEN tk_aw_ohead
                     ELSE [tk_aw_ohead EXCEPT ![t] = sreply[s]]
  BY <1>5 DEF RunHandler
<1>9. EndInv'
  BY <1>2, <1>3, <1>6, EndStays DEF IInv, ServerStays
<1>10. PtrInv'
  BY <1>2, <1>3, <1>6, ServerPoints DEF IInv, PtrInv
<1>11. QueueInv'
  BY <1>3, QueuesStay DEF IInv, QueueInv, QueuedOnce, CallerStays
<1>12. ASSUME ~dead' PROVE Alive'
  <2>1. \A u \in Tickets : u # t => TicketStays(u)
    BY <1>3, <1>7, <1>8 DEF TicketStays, IInv, TypeOK, TicketType
  <2>2. tk_flag'[t] \in {tk_flag[t], tk_flag[t] \union {"KILLL"}}
    BY <1>7 DEF IInv, TypeOK, TicketType
  <2>3. tk_aw_handler[t] = "standard" => tk_aw_ohead'[t].req = sreply[s].req
    BY <1>8 DEF IInv, TypeOK, TicketType
  <2>. QED
    BY <1>12, <2>1, <2>2, <2>3, <1>5, <1>2, <1>3, <1>4, <1>6, ServerCopies DEF IInv
<1>. QED
  BY <1>1, <1>9, <1>10, <1>11, <1>12 DEF IInv

\* The reply is handed to its caller.
LEMMA fuse_standard_handler_Inv ==
    ASSUME IInv, NEW s \in Servers, fuse_standard_handler(s)
    PROVE  IInv'
<1>. USE NullIsNoTicket DEF session, queues, pool, answers, callers, daemon, control, ticketv
<1>1. TypeOK'
  BY fuse_standard_handler_Type DEF IInv
<1>2. \A z \in Servers : z # s => ServerStays(z)
  BY DEF IInv, TypeOK, DaemonType, ServerStays, fuse_standard_handler, SGoto
<1>3. UNCHANGED <<queues, pool, tk_age, tk_aw_handler, tk_aw_ohead, op, tick, intr, itick, err,
                  age, inbox, dead, drain, closed>>
  BY DEF fuse_standard_handler
<1>4. spc[s] = "answer" /\ stick[s] # NoTicket
  BY DEF IInv, PtrInv, fuse_standard_handler
<1>5. PICK t \in Tickets : t = stick[s]
  BY <1>4 DEF IInv, TypeOK, ServerDerefs
<1>6. fticket_answered(t) => spc'[s] = "drop" /\ UNCHANGED <<tk_flag, tk_aw_errno, pc, stick>>
  BY <1>5 DEF IInv, TypeOK, DaemonType, fuse_standard_handler, SGoto
<1>7. ~fticket_answered(t) => /\ spc'[s] = "user" /\ stick'[s] = NoTicket
                              /\ tk_flag' = [tk_flag EXCEPT ![t] = @ \union {"ANSW"}]
                              /\ Wakeup(t)
  BY <1>5 DEF IInv, TypeOK, DaemonType, fuse_standard_handler, SetAnswered, SGoto
<1>8. \A q \in Requesters : \/ pc'[q] = pc[q]
                            \/ pc[q] = "asleep" /\ pc'[q] = "woken"
  BY <1>6, <1>7 DEF Wakeup
<1>9. EndInv'
  BY <1>2, <1>3, <1>6, <1>7, EndStays DEF IInv, ServerStays
<1>10. PtrInv'
  <2>1. \A z \in Servers : stick'[z] = NoTicket
          <=> spc'[z] \in {"user", "asleep", "woken", "gone"}
    BY <1>2, <1>4, <1>6, <1>7 DEF IInv, PtrInv, ServerStays
  <2>2. \A q \in Requesters : /\ Waiting(q)' <=> Waiting(q)
                              /\ Done(q)' <=> Done(q)
    BY <1>3, <1>8 DEF Waiting, Done
  <2>. QED
    BY <2>1, <2>2, <1>3, <1>8 DEF IInv, PtrInv, Wanted
<1>11. QueueInv'
  BY <1>3, <1>8, QueuesStay DEF IInv, QueueInv, QueuedOnce, CallerStays
<1>12. ASSUME ~dead' PROVE Alive'
  <2>1. ~dead /\ Alive
    BY <1>12, <1>3 DEF IInv
  <2>2. CASE fticket_answered(t)
    BY <2>2, <1>5, <1>6, <1>2, <1>3, <1>4, <2>1, ServerMoves DEF IInv, fticket_answered
  <2>3. CASE ~fticket_answered(t)
    <3>1. /\ tk_flag'[t] = tk_flag[t] \union {"ANSW"}
          /\ \A u \in Tickets : u # t => TicketStays(u)
      BY <2>3, <1>7, <1>3 DEF TicketStays, IInv, TypeOK, TicketType
    <3>2. \A q \in Requesters : pc'[q] = IF pc[q] = "asleep"
            /\ tick[q] = t THEN "woken" ELSE pc[q]
      BY <2>3, <1>7 DEF Wakeup
    <3>. QED
      BY <2>3, <3>1, <3>2, <1>5, <1>7, <1>2, <1>3, <1>4, <2>1, ServerAnswers DEF IInv
  <2>. QED
    BY <2>2, <2>3
<1>. QED
  BY <1>1, <1>9, <1>10, <1>11, <1>12 DEF IInv

\* A daemon thread drops a ticket: it dies, or will be put back.
LEMMA ServerDropLock_Inv ==
    ASSUME IInv, NEW s \in Servers, ServerDropLock(s)
    PROVE  IInv'
<1>. USE NullIsNoTicket DEF session, queues, pool, answers, callers, daemon, control, ticketv
<1>1. TypeOK'
  BY ServerDropLock_Type DEF IInv
<1>2. \A z \in Servers : z # s => ServerStays(z)
  BY DEF IInv, TypeOK, DaemonType, ServerStays, ServerDropLock, SGoto
<1>3. UNCHANGED <<queues, free, free_loop, freeticket_counter, ticketer, tk_unique, ticketv,
                  callers, inbox, sreply, dead, drain, closed>>
  BY DEF ServerDropLock
<1>4. spc[s] = "drop" /\ stick[s] # NoTicket
  BY DEF IInv, PtrInv, ServerDropLock
<1>5. PICK t \in Tickets : t = stick[s]
  BY <1>4 DEF IInv, TypeOK, ServerDerefs
<1>6. \/ /\ TicketDies(t) /\ stick'[s] = NoTicket /\ spc'[s] = "user"
         /\ tk_life' = [tk_life EXCEPT ![t] = "freed"]
      \/ ~TicketDies(t) /\ spc'[s] = "push" /\ stick' = stick /\ tk_life' = tk_life
  BY <1>5 DEF IInv, TypeOK, DaemonType, ServerDropLock, SGoto
<1>7. /\ stick'[s] = NoTicket <=> spc'[s] \in {"user", "asleep", "woken", "gone"}
      /\ spc'[s] # "gone"
  BY <1>6, <1>4
<1>8. EndInv'
  BY <1>2, <1>3, <1>7, EndStays DEF IInv, ServerStays
<1>9. PtrInv'
  BY <1>2, <1>3, <1>7, ServerPoints DEF IInv, PtrInv
<1>10. QueueInv'
  BY <1>3, QueuesStay DEF IInv, QueueInv, QueuedOnce, CallerStays
<1>11. ASSUME ~dead' PROVE Alive'
  <2>1. ~dead /\ Alive
    BY <1>11, <1>3 DEF IInv
  <2>2. CASE ~TicketDies(t)
    BY <2>2, <1>6, <1>2, <1>3, <1>4, <2>1, ServerMoves DEF IInv
  <2>3. CASE TicketDies(t)
    <3>1. stick'[s] = NoTicket /\ spc'[s] = "user"
      BY <2>3, <1>6
    <3>2. tk_life' = [tk_life EXCEPT ![t] = "freed"]
      BY <2>3, <1>6
    <3>3. /\ InHand(t) /\ t \notin ToSet(ms) /\ t \notin ToSet(aw) /\ ~Interrupts(t) /\ ~Held(t)
      BY <1>5, <1>4, <2>1 DEF InHand, Alive, HandInv, Hand
    <3>4. t \notin ToSet(free) /\ tk_life[t] = "live"
      BY <3>3, <2>1 DEF Alive, FreeInv, LiveInv
    <3>5. /\ \A q \in Requesters : CallerStays(q) /\ ~Holds(q, t)
          /\ \A z \in Servers : stick[z] # t => ServerStays(z)
          /\ \A z \in Servers : stick[z] = t => stick'[z] = NoTicket
      BY <3>3, <1>5, <1>2, <1>3, <3>1, <2>1 DEF CallerStays, Held, Alive, OwnInv
    <3>6. /\ \A u \in Tickets : u # t => TicketStays(u)
          /\ tk_life'[t] = "freed" /\ tk_age'[t] = tk_age[t]
      BY <1>5, <1>3, <3>2 DEF TicketStays, IInv, TypeOK, TicketType
    <3>7. tk_age[t] \in Nat
      BY DEF IInv, TypeOK, TicketType
    <3>8. /\ LiveInv' /\ OwnInv' /\ FreshInv' /\ SentInv' /\ MsInv' /\ AwInv' /\ HandInv'
          /\ InboxInv' /\ UniqueInv' /\ AgeInv'
          /\ ~Held(t)' /\ ~Interrupts(t)' /\ ~InHand(t)'
          /\ \A u \in Tickets : u # t =>
                /\ Held(u)' <=> Held(u)
                /\ Interrupts(u)' <=> Interrupts(u)
                /\ InHand(u)' <=> InHand(u)
                /\ Clean(u)' <=> Clean(u)
      BY <2>1, <3>3, <3>4, <3>5, <3>6, <3>7, <1>3, TicketGoes DEF IInv
    <3>9. FreeInv'
      <4>1. \A u \in ToSet(free) : u # t /\ u \in Tickets
        BY <3>4, QueuesHoldTickets DEF IInv
      <4>. QED
        BY <4>1, <1>3, <2>1, <3>6, <3>8 DEF Alive, FreeInv, TicketStays
    <3>. QED
      BY <3>8, <3>9 DEF Alive
  <2>. QED
    BY <2>2, <2>3
<1>. QED
  BY <1>1, <1>8, <1>9, <1>10, <1>11 DEF IInv

\* A daemon thread puts a ticket on the free list.
LEMMA ServerDropPush_Inv ==
    ASSUME IInv, NEW s \in Servers, ServerDropPush(s)
    PROVE  IInv'
<1>. USE NullIsNoTicket DEF session, queues, pool, answers, callers, daemon, control, ticketv
<1>1. TypeOK'
  BY ServerDropPush_Type DEF IInv
<1>2. \A z \in Servers : z # s => ServerStays(z)
  BY DEF IInv, TypeOK, DaemonType, ServerStays, ServerDropPush, SGoto
<1>3. UNCHANGED <<queues, ticketer, tk_life, tk_unique, tk_aw_handler, callers, sreply, inbox,
                  dead, drain, closed>>
  BY DEF ServerDropPush
<1>4. spc[s] = "push" /\ stick[s] # NoTicket
  BY DEF IInv, PtrInv, ServerDropPush
<1>5. PICK t \in Tickets : t = stick[s]
  BY <1>4 DEF IInv, TypeOK, ServerDerefs
<1>6. fticket_refresh(t) /\ fuse_push_freeticks(t)
  BY <1>5 DEF ServerDropPush
<1>7. stick'[s] = NoTicket /\ spc'[s] = "user"
  BY DEF IInv, TypeOK, DaemonType, ServerDropPush, SGoto
<1>8. EndInv'
  BY <1>2, <1>3, <1>7, EndStays DEF IInv, ServerStays
<1>9. PtrInv'
  BY <1>2, <1>3, <1>7, ServerPoints DEF IInv, PtrInv
<1>10. QueueInv'
  BY <1>3, QueuesStay DEF IInv, QueueInv, QueuedOnce, CallerStays
<1>11. ASSUME ~dead' PROVE Alive'
  <2>1. ~dead /\ Alive
    BY <1>11, <1>3 DEF IInv
  <2>2. /\ InHand(t) /\ t \notin ToSet(ms) /\ t \notin ToSet(aw) /\ ~Interrupts(t) /\ ~Held(t)
    BY <1>5, <1>4, <2>1 DEF InHand, Alive, HandInv, Hand
  <2>3. t \notin ToSet(free) /\ tk_life[t] = "live"
    BY <2>2, <2>1 DEF Alive, FreeInv, LiveInv
  <2>4. /\ \A q \in Requesters : CallerStays(q) /\ ~Holds(q, t)
        /\ \A z \in Servers : stick[z] # t => ServerStays(z)
        /\ \A z \in Servers : stick[z] = t => stick'[z] = NoTicket
    BY <2>2, <1>5, <1>2, <1>3, <1>7, <2>1 DEF CallerStays, Held, Alive, OwnInv
  <2>5. /\ \A u \in Tickets : u # t => TicketStays(u)
        /\ tk_life' = tk_life /\ tk_flag'[t] = {} /\ tk_age'[t] = tk_age[t] + 1
    BY <1>3, <1>6 DEF fticket_refresh, TicketStays, IInv, TypeOK, TicketType
  <2>6. /\ ToSet(free') = ToSet(free) \union {t} /\ IsInjective(free')
        /\ ~free_loop' /\ freeticket_counter' = Len(free')
    BY <1>6, <2>3, <2>1, PushedFree DEF IInv, Alive
  <2>7. tk_age[t] \in Nat
    BY DEF IInv, TypeOK, TicketType
  <2>8. /\ LiveInv' /\ OwnInv' /\ FreshInv' /\ SentInv' /\ MsInv' /\ AwInv' /\ HandInv'
        /\ InboxInv' /\ UniqueInv' /\ AgeInv'
        /\ ~Held(t)' /\ ~Interrupts(t)' /\ ~InHand(t)'
        /\ \A u \in Tickets : u # t =>
              /\ Held(u)' <=> Held(u)
              /\ Interrupts(u)' <=> Interrupts(u)
              /\ InHand(u)' <=> InHand(u)
              /\ Clean(u)' <=> Clean(u)
    BY <2>1, <2>2, <2>3, <2>4, <2>5, <2>7, <1>3, <2>6, TicketGoes DEF IInv
  <2>9. FreeInv'
    <3>1. \A u \in ToSet(free) : u # t /\ u \in Tickets
      BY <2>3, QueuesHoldTickets DEF IInv
    <3>2. Clean(t)'
      BY <2>5 DEF Clean
    <3>3. \A u \in ToSet(free) : /\ tk_life[u] = "live" /\ Clean(u)
                                  /\ u \notin ToSet(ms) /\ u \notin ToSet(aw)
                                  /\ ~Held(u) /\ ~Interrupts(u) /\ ~InHand(u)
      BY <2>1 DEF Alive, FreeInv
    <3>. QED
      BY <3>1, <3>2, <3>3, <1>3, <2>6, <2>3, <2>2, <2>5, <2>8 DEF FreeInv
  <2>. QED
    BY <2>8, <2>9 DEF Alive
<1>. QED
  BY <1>1, <1>8, <1>9, <1>10, <1>11 DEF IInv

\* The device is closed.
LEMMA fuse_device_close_Inv ==
    ASSUME IInv, fuse_device_close
    PROVE  IInv'
<1>. USE NullIsNoTicket DEF session, queues, pool, answers, callers, daemon, control, ticketv
<1>1. TypeOK'
  BY fuse_device_close_Type DEF IInv
<1>2. UNCHANGED <<queues, callers, stick>> /\ dead'
  BY DEF fuse_device_close, IInv, EndInv
<1>3. \A z \in Servers : spc'[z] = spc[z] \/ (spc[z] \in {"user", "asleep"}
        /\ spc'[z] \in {"woken", "gone"})
  BY DEF fuse_device_close, IInv, TypeOK, DaemonType, EndInv
<1>4. EndInv'
  BY <1>2 DEF EndInv
<1>5. PtrInv'
  <2>1. \A z \in Servers : stick'[z] = NoTicket
          <=> spc'[z] \in {"user", "asleep", "woken", "gone"}
    BY <1>3, <1>2 DEF IInv, PtrInv
  <2>. QED
    BY <2>1, <1>2 DEF IInv, PtrInv, Waiting, Done, Wanted
<1>6. QueueInv'
  BY <1>2, QueuesStay DEF IInv, QueueInv, QueuedOnce, CallerStays
<1>7. dead'
  BY <1>2
<1>. QED
  BY <1>1, <1>4, <1>5, <1>6, <1>7 DEF IInv

\* The device is killed.
LEMMA fuse_device_kill_Inv ==
    ASSUME IInv, fuse_device_kill
    PROVE  IInv'
<1>. USE NullIsNoTicket DEF session, queues, pool, answers, callers, daemon, control, ticketv
<1>1. TypeOK'
  BY fuse_device_kill_Type DEF IInv
<1>2. UNCHANGED <<queues, callers, stick>> /\ dead'
  BY DEF fuse_device_kill, fdata_set_dead, WakeupOneReader, IInv, EndInv
<1>3. \A z \in Servers : spc'[z] = spc[z] \/ (spc[z] \in {"user", "asleep"}
        /\ spc'[z] \in {"woken", "gone"})
  BY DEF fuse_device_kill, fdata_set_dead, WakeupOneReader, IInv, TypeOK, DaemonType, EndInv
<1>4. EndInv'
  BY <1>2 DEF EndInv
<1>5. PtrInv'
  <2>1. \A z \in Servers : stick'[z] = NoTicket
          <=> spc'[z] \in {"user", "asleep", "woken", "gone"}
    BY <1>3, <1>2 DEF IInv, PtrInv
  <2>. QED
    BY <2>1, <1>2 DEF IInv, PtrInv, Waiting, Done, Wanted
<1>6. QueueInv'
  BY <1>2, QueuesStay DEF IInv, QueueInv, QueuedOnce, CallerStays
<1>7. dead'
  BY <1>2
<1>. QED
  BY <1>1, <1>4, <1>5, <1>6, <1>7 DEF IInv

\* close and kill take aw_mtx.
LEMMA DrainStarts_Inv ==
    ASSUME IInv, DrainStarts
    PROVE  IInv'
<1>. USE NullIsNoTicket DEF session, queues, pool, answers, callers, daemon, control, ticketv
<1>1. TypeOK'
  BY DrainStarts_Type DEF IInv
<1>2. UNCHANGED <<queues, callers, stick>> /\ dead'
  BY DEF DrainStarts, IInv, EndInv
<1>3. \A z \in Servers : spc'[z] = spc[z] \/ (spc[z] \in {"user", "asleep"}
        /\ spc'[z] \in {"woken", "gone"})
  BY DEF DrainStarts, IInv, TypeOK, DaemonType, EndInv
<1>4. EndInv'
  BY <1>2 DEF EndInv
<1>5. PtrInv'
  <2>1. \A z \in Servers : stick'[z] = NoTicket
          <=> spc'[z] \in {"user", "asleep", "woken", "gone"}
    BY <1>3, <1>2 DEF IInv, PtrInv
  <2>. QED
    BY <2>1, <1>2 DEF IInv, PtrInv, Waiting, Done, Wanted
<1>6. QueueInv'
  BY <1>2, QueuesStay DEF IInv, QueueInv, QueuedOnce, CallerStays
<1>7. dead'
  BY <1>2
<1>. QED
  BY <1>1, <1>4, <1>5, <1>6, <1>7 DEF IInv

\* A waiting ticket is taken off.
LEMMA DrainOne_Inv ==
    ASSUME IInv, DrainOne
    PROVE  IInv'
<1>. USE NullIsNoTicket DEF session, queues, pool, answers, callers, daemon, control, ticketv
<1>1. TypeOK'
  BY DrainOne_Type DEF IInv
<1>2. UNCHANGED <<ms, op, tick, intr, itick, err, age, spc, stick>> /\ dead'
  BY DEF DrainOne, IInv, EndInv
<1>3. \A q \in Requesters : \/ pc'[q] = pc[q]
                            \/ pc[q] = "asleep" /\ pc'[q] = "woken"
  BY DEF DrainOne, Wakeup
<1>4. IsInjective(aw') /\ ToSet(aw') \subseteq ToSet(aw)
  <2>1. aw \in Seq(Tickets) /\ IsInjective(aw) /\ aw # <<>> /\ aw' = Tail(aw)
    BY DEF DrainOne, IInv, TypeOK, QueueType, QueueInv, QueuedOnce
  <2>. QED
    BY <2>1, TailSet
<1>5. EndInv'
  BY <1>2 DEF EndInv
<1>6. PtrInv'
  <2>1. \A q \in Requesters : /\ Waiting(q)' <=> Waiting(q)
                              /\ Done(q)' <=> Done(q)
    BY <1>2, <1>3 DEF Waiting, Done
  <2>. QED
    BY <2>1, <1>2, <1>3 DEF IInv, PtrInv, Wanted
<1>7. QueueInv'
  BY <1>2, <1>3, <1>4, QueuesStay DEF IInv, QueueInv, QueuedOnce, CallerStays
<1>8. dead'
  BY <1>2
<1>. QED
  BY <1>1, <1>5, <1>6, <1>7, <1>8 DEF IInv

\* aw_mtx is released.
LEMMA DrainEnds_Inv ==
    ASSUME IInv, DrainEnds
    PROVE  IInv'
<1>. USE NullIsNoTicket DEF session, queues, pool, answers, callers, daemon, control, ticketv
<1>1. TypeOK'
  BY DrainEnds_Type DEF IInv
<1>2. UNCHANGED <<queues, callers, stick>> /\ dead'
  BY DEF DrainEnds, IInv, EndInv
<1>3. \A z \in Servers : spc'[z] = spc[z] \/ (spc[z] \in {"user", "asleep"}
        /\ spc'[z] \in {"woken", "gone"})
  BY DEF DrainEnds, IInv, TypeOK, DaemonType, EndInv
<1>4. EndInv'
  BY <1>2 DEF EndInv
<1>5. PtrInv'
  <2>1. \A z \in Servers : stick'[z] = NoTicket
          <=> spc'[z] \in {"user", "asleep", "woken", "gone"}
    BY <1>3, <1>2 DEF IInv, PtrInv
  <2>. QED
    BY <2>1, <1>2 DEF IInv, PtrInv, Waiting, Done, Wanted
<1>6. QueueInv'
  BY <1>2, QueuesStay DEF IInv, QueueInv, QueuedOnce, CallerStays
<1>7. dead'
  BY <1>2
<1>. QED
  BY <1>1, <1>4, <1>5, <1>6, <1>7 DEF IInv

\* The daemon is declared dead.
LEMMA SetDaemonDead_Inv ==
    ASSUME IInv, SetDaemonDead
    PROVE  IInv'
<1>. USE NullIsNoTicket DEF session, queues, pool, answers, callers, daemon, control, ticketv
<1>1. TypeOK'
  BY SetDaemonDead_Type DEF IInv
<1>2. UNCHANGED <<queues, callers, stick>> /\ dead'
  BY DEF SetDaemonDead, fdata_set_dead, WakeupOneReader, IInv, EndInv
<1>3. \A z \in Servers : spc'[z] = spc[z] \/ (spc[z] \in {"user", "asleep"}
        /\ spc'[z] \in {"woken", "gone"})
  BY DEF SetDaemonDead, fdata_set_dead, WakeupOneReader, IInv, TypeOK, DaemonType, EndInv
<1>4. EndInv'
  BY <1>2 DEF EndInv
<1>5. PtrInv'
  <2>1. \A z \in Servers : stick'[z] = NoTicket
          <=> spc'[z] \in {"user", "asleep", "woken", "gone"}
    BY <1>3, <1>2 DEF IInv, PtrInv
  <2>. QED
    BY <2>1, <1>2 DEF IInv, PtrInv, Waiting, Done, Wanted
<1>6. QueueInv'
  BY <1>2, QueuesStay DEF IInv, QueueInv, QueuedOnce, CallerStays
<1>7. dead'
  BY <1>2
<1>. QED
  BY <1>1, <1>4, <1>5, <1>6, <1>7 DEF IInv

-----------------------------------------------------------------------------
\* Before the first call there is no ticket.
LEMMA InitInv == Init => IInv
<1>. SUFFICES ASSUME Init PROVE IInv
  OBVIOUS
<1>. USE NullIsNoTicket
<1>1. TypeOK
  BY InitType
<1>2. ToSet(<<>>) = {} /\ Len(<<>>) = 0 /\ IsInjective(<<>>)
  BY DEF ToSet, IsInjective
<1>3. EndInv /\ PtrInv
  BY DEF Init, EndInv, PtrInv, Waiting, Done
<1>4. QueueInv
  BY <1>2 DEF Init, QueueInv, QueuedOnce
<1>5. \A t \in Tickets : ~Held(t) /\ ~Interrupts(t) /\ ~InHand(t) /\ Clean(t)
  BY DEF Init, Held, Holds, Interrupts, InHand, Clean
<1>6. FreeInv /\ LiveInv /\ MsInv /\ AwInv /\ InboxInv
  BY <1>2, <1>5 DEF Init, FreeInv, LiveInv, MsInv, AwInv, InboxInv
<1>7. OwnInv
  BY <1>5 DEF Init, OwnInv, Held, Holds
<1>8. FreshInv /\ SentInv /\ HandInv /\ UniqueInv /\ AgeInv
  BY DEF Init, FreshInv, Fresh, SentInv, Sent, HandInv, Hand, UniqueInv, AgeInv
<1>. QED BY <1>1, <1>3, <1>4, <1>6, <1>7, <1>8 DEF IInv, Alive

\* Every step of the channel keeps the invariant, provided that no two threads
\* are in fticket_alloc at once.
LEMMA NextInv ==
    ASSUME AtomicTicketer, IInv, [Next]_vars
    PROVE  IInv'
<1>1. ASSUME NEW r \in Requesters, CallerStep(r) PROVE IInv'
  BY <1>1, FetchFree_Inv, fticket_alloc_Inv, FetchAllocated_Inv, fuse_insert_callback_Inv,
     fuse_aw_push_Inv, fuse_insert_message_Inv, fuse_ms_push_Inv, fticket_wait_answer_Inv,
     WakesUp_Inv, TimesOut_Inv, Eject_Inv, WaitedOk_Inv, WaitedErr_Inv, Abandon_Inv, Consume_Inv,
     InitSync_Inv, fuse_ticket_drop_lock_Inv, fuse_ticket_drop_push_Inv DEF CallerStep
<1>2. ASSUME NEW r \in Requesters, CallerChoice(r) PROVE IInv'
  BY <1>2, Start_Inv, MakeFails_Inv, Signalled_Inv, Reuse_Inv, VgetFails_Inv DEF CallerChoice
<1>3. ASSUME NEW s \in Servers, ServerStep(s) PROVE IInv'
  BY <1>3, ReaderWakes_Inv, ReadChecksDead_Inv, ReadFinishes_Inv, RunHandler_Inv,
     fuse_standard_handler_Inv, ServerDropLock_Inv, ServerDropPush_Inv DEF ServerStep
<1>4. ASSUME NEW s \in Servers, ServerChoice(s) PROVE IInv'
  BY <1>4, fuse_device_read_Inv, ReaderSignalled_Inv, fuse_device_write_Inv DEF ServerChoice
<1>5. CASE DrainStep
  BY <1>5, DrainStarts_Inv, DrainOne_Inv, DrainEnds_Inv DEF DrainStep
<1>6. CASE SessionEnd
  BY <1>6, fuse_device_close_Inv, fuse_device_kill_Inv, SetDaemonDead_Inv DEF SessionEnd
<1>7. CASE UNCHANGED vars
  <2>. USE <1>7 DEF vars, session, queues, pool, ticketv, answers, callers, daemon, control
  <2>1. TypeOK'
    BY NextType DEF IInv
  <2>2. EndInv' /\ PtrInv' /\ QueueInv'
    BY DEF IInv, EndInv, PtrInv, QueueInv, QueuedOnce, Waiting, Done, Current
  <2>3. ASSUME ~dead' PROVE Alive'
    <3>1. /\ Alive
          /\ UNCHANGED <<queues, pool, tk_flag, tk_age, tk_aw_handler, answers, daemon, callers>>
      BY <2>3 DEF IInv
    <3>2. \A t \in Tickets : /\ Clean(t)' <=> Clean(t)
                             /\ fticket_answered(t)' <=> fticket_answered(t)
                             /\ Request(t)' = Request(t)
      BY DEF Clean, fticket_answered, Request
    <3>3. \A q \in Requesters, t \in Tickets : Holds(q, t)' <=> Holds(q, t)
      BY DEF Holds
    <3>4. \A t \in Tickets : /\ Held(t)' <=> Held(t)
                             /\ Interrupts(t)' <=> Interrupts(t)
                             /\ InHand(t)' <=> InHand(t)
      BY <3>3 DEF Held, Interrupts, InHand
    <3>5. \A t \in Tickets : /\ Answered(t)' <=> Answered(t)
                             /\ Answerable(t)' <=> Answerable(t)
                             /\ Outgoing(t)' <=> Outgoing(t)
      BY <3>2, <3>4 DEF Answered, Answerable, Outgoing
    <3>6. \A q \in Requesters : /\ Filling(q)' <=> Filling(q)
                                /\ Sending(q)' <=> Sending(q)
                                /\ Waiting(q)' <=> Waiting(q)
                                /\ Done(q)' <=> Done(q)
      BY DEF Filling, Sending, Waiting, Done
    <3>7. ToSet(ms) \subseteq Tickets /\ ToSet(aw) \subseteq Tickets
          /\ ToSet(free) \subseteq Tickets
      BY QueuesHoldTickets DEF IInv
    <3>8. FreeInv' /\ LiveInv' /\ OwnInv' /\ MsInv'
      BY <3>1, <3>2, <3>3, <3>4, <3>5, <3>7 DEF Alive, FreeInv, LiveInv, OwnInv, MsInv
    <3>9. FreshInv' /\ SentInv'
      BY <3>1, <3>2, <3>4, <3>5, <3>6 DEF Alive, FreshInv, Fresh, SentInv, Sent
    <3>10. AwInv' /\ HandInv'
      BY <3>1, <3>2, <3>3, <3>4, <3>5, <3>6, <3>7 DEF Alive, AwInv, HandInv, Hand
    <3>11. InboxInv'
      <4>. SUFFICES ASSUME NEW m \in inbox PROVE \E t \in ToSet(aw) : Read(m, t)'
        BY DEF InboxInv
      <4>1. PICK t \in ToSet(aw) : Read(m, t)
        BY <3>1 DEF Alive, InboxInv
      <4>. QED BY <4>1, <3>2, <3>3, <3>4, <3>6, <3>7 DEF Read
    <3>12. UniqueInv' /\ AgeInv'
      BY <3>1, <3>4 DEF Alive, UniqueInv, Numbering, Current, AgeInv
    <3>. QED BY <3>8, <3>9, <3>10, <3>11, <3>12 DEF Alive
  <2>. QED BY <2>1, <2>2, <2>3 DEF IInv
<1>. QED
  BY <1>1, <1>2, <1>3, <1>4, <1>5, <1>6, <1>7 DEF Next

\* Who works with a ticket, in the words of the invariant.
LEMMA ReferencedMeans ==
    ASSUME IInv, NEW t \in Tickets
    PROVE  t \in Referenced <=> \/ t \in ToSet(ms) \/ t \in ToSet(aw)
                                \/ Held(t) \/ Interrupts(t) \/ InHand(t)
<1>1. \A r \in Requesters : t \in CallerRefs(r) <=> Holds(r, t) \/ itick[r] = t
  BY NullIsNoTicket DEF CallerRefs, Holds, IInv, PtrInv
<1>2. (\E r \in Requesters : t \in CallerRefs(r)) <=> Held(t) \/ Interrupts(t)
  BY <1>1 DEF Held, Interrupts
<1>. DEFINE C == UNION {CallerRefs(r) : r \in Requesters}
            D == {stick[s] : s \in Servers} \ {NoTicket}
<1>3. t \in C <=> \E r \in Requesters : t \in CallerRefs(r)
  OBVIOUS
<1>4. t \in D <=> InHand(t)
  BY NullIsNoTicket DEF InHand
<1>5. Referenced = ToSet(ms) \union ToSet(aw) \union C \union D
  BY DEF Referenced
<1>. HIDE DEF C, D
<1>. QED BY <1>2, <1>3, <1>4, <1>5

\* Everything that works with a ticket works with one of the tickets.
LEMMA ReferencedTickets ==
    ASSUME IInv
    PROVE  Referenced \subseteq Tickets /\ \A r \in Requesters : CallerRefs(r) \subseteq Tickets
<1>1. \A r \in Requesters : CallerRefs(r) \subseteq Tickets
  BY DEF IInv, TypeOK, CallerType, TicketOrNone, CallerRefs
<1>. DEFINE C == UNION {CallerRefs(r) : r \in Requesters}
            D == {stick[s] : s \in Servers} \ {NoTicket}
<1>2. C \subseteq Tickets
  BY <1>1
<1>3. D \subseteq Tickets
  BY DEF IInv, TypeOK, DaemonType, TicketOrNone
<1>4. Referenced = ToSet(ms) \union ToSet(aw) \union C \union D
  BY DEF Referenced
<1>. HIDE DEF C, D
<1>. QED BY <1>1, <1>2, <1>3, <1>4, QueuesHoldTickets DEF IInv

\* The invariant gives each ticket one owner.
LEMMA OwnersFollow == IInv => TicketsHaveOneOwner
<1>. SUFFICES ASSUME IInv, ~dead PROVE
        /\ ToSet(free) \intersect Referenced = {}
        /\ \A t \in Referenced \union ToSet(free) : tk_life[t] = "live"
        /\ \A r, q \in Requesters : r # q => CallerRefs(r) \intersect CallerRefs(q) = {}
        /\ IsInjective(free) /\ ~free_loop /\ freeticket_counter = Len(free)
  BY DEF TicketsHaveOneOwner
<1>1. Alive /\ ToSet(free) \subseteq Tickets
  BY QueuesHoldTickets DEF IInv
<1>2. ToSet(free) \intersect Referenced = {}
  BY <1>1, ReferencedMeans DEF Alive, FreeInv
<1>3. \A t \in Referenced \union ToSet(free) : tk_life[t] = "live"
  BY <1>1, ReferencedMeans, ReferencedTickets DEF Alive, FreeInv, LiveInv
<1>4. ASSUME NEW r \in Requesters, NEW q \in Requesters, r # q,
             NEW t \in CallerRefs(r), t \in CallerRefs(q)
      PROVE  FALSE
  <2>1. t \in Tickets
    BY ReferencedTickets
  <2>2. (Holds(r, t) \/ itick[r] = t) /\ (Holds(q, t) \/ itick[q] = t)
    BY <1>4 DEF CallerRefs, Holds
  <2>. QED BY <1>1, <1>4, <2>1, <2>2 DEF Alive, OwnInv, Held, Interrupts
<1>. QED BY <1>1, <1>2, <1>3, <1>4 DEF Alive, FreeInv

\* The invariant gives every answer to its own request.
LEMMA AnswersFollow == IInv => AnswerIsMine
<1>. SUFFICES ASSUME IInv, ~dead, NEW r \in Requesters, pc[r] = "have"
              PROVE  tk_aw_ohead[tick[r]].req = Request(tick[r])
  BY DEF AnswerIsMine
<1>1. Alive /\ tick[r] \in Tickets /\ Done(r)
  BY DEF IInv, PtrInv, TypeOK, CallerDerefs, Current, Done
<1>. QED BY <1>1 DEF Alive, SentInv, Sent, Answered

\* The invariant gives every sleeper the one who will wake it.
LEMMA WakersFollow == IInv => SleeperHasWaker
<1>. SUFFICES ASSUME IInv, ~dead, NEW r \in Requesters, pc[r] = "asleep"
              PROVE  /\ tk_aw_handler[tick[r]] = "standard"
                     /\ ~fticket_answered(tick[r])
                     /\ Answerable(tick[r])
  BY DEF SleeperHasWaker, Answerable
<1>1. Alive /\ tick[r] \in Tickets /\ Waiting(r)
  BY DEF IInv, PtrInv, TypeOK, CallerDerefs, Current, Waiting
<1>. QED BY <1>1 DEF Alive, SentInv, Sent

-----------------------------------------------------------------------------
\* The inductive invariant holds for any number of callers, daemon threads and
\* tickets.  It takes that fticket_alloc is not run by two threads at once, as
\* under the big lock: data->ticketer++ would give two tickets one number.
THEOREM Invariance ==
    ASSUME AtomicTicketer
    PROVE  Spec => []IInv
<1>1. IInv /\ [Next]_vars => IInv'
  BY NextInv
<1>. QED BY InitInv, <1>1, PTL DEF Spec

\* While the session lives, fuse_ticket_drop has put no ticket back that anybody
\* still works with, no two calls have the same ticket, and the free list agrees
\* with its counter.
THEOREM OneOwner ==
    ASSUME AtomicTicketer
    PROVE  Spec => []TicketsHaveOneOwner
  BY Invariance, OwnersFollow, PTL

\* While the session lives, a call that has its answer has the answer to its own
\* request, whatever became of the earlier users of its ticket.
THEOREM OwnAnswers ==
    ASSUME AtomicTicketer
    PROVE  Spec => []AnswerIsMine
  BY Invariance, AnswersFollow, PTL

\* While the session lives, the reply finds the ticket of a caller that sleeps in
\* fticket_wait_answer, and wakes it.
THEOREM SleepersWake ==
    ASSUME AtomicTicketer
    PROVE  Spec => []SleeperHasWaker
  BY Invariance, WakersFollow, PTL

\* fuse_ms_push and fuse_aw_push link no ticket twice, also when the session is
\* dead.
THEOREM LinkedOnce ==
    ASSUME AtomicTicketer
    PROVE  Spec => []QueuedOnce
<1>1. IInv => QueuedOnce
  BY DEF IInv, QueueInv
<1>. QED BY Invariance, <1>1, PTL

-----------------------------------------------------------------------------
\* FSESS_DEAD is never taken back.
LEMMA DeadForGood ==
    ASSUME [Next]_vars, dead
    PROVE  dead'
<1>. USE DEF session, fdata_set_dead
<1>1. ASSUME NEW r \in Requesters, CallerStep(r) PROVE dead'
  BY <1>1 DEF CallerStep, FetchFree, Admit, fticket_alloc, FetchAllocated, fuse_insert_callback,
     fuse_aw_push, fuse_insert_message, fuse_ms_push, fticket_wait_answer, WakesUp, TimesOut,
     Eject, WaitedOk, WaitedErr, Abandon, Consume, InitSync, fuse_ticket_drop_lock,
     fuse_ticket_drop_push
<1>2. ASSUME NEW r \in Requesters, CallerChoice(r) PROVE dead'
  BY <1>2 DEF CallerChoice, Start, Signalled, MakeFails, Reuse, VgetFails
<1>3. ASSUME NEW s \in Servers, ServerStep(s) PROVE dead'
  BY <1>3 DEF ServerStep, ReaderWakes, ReadChecksDead, ReadFinishes, RunHandler,
     fuse_standard_handler, ServerDropLock, ServerDropPush
<1>4. ASSUME NEW s \in Servers, ServerChoice(s) PROVE dead'
  BY <1>4 DEF ServerChoice, fuse_device_read, ReaderSignalled, fuse_device_write
<1>5. CASE DrainStep
  BY <1>5 DEF DrainStep, DrainStarts, DrainOne, DrainEnds
<1>6. CASE SessionEnd
  BY <1>6 DEF SessionEnd, fuse_device_close, fuse_device_kill, SetDaemonDead
<1>7. CASE UNCHANGED vars
  BY <1>7 DEF vars
<1>. QED BY <1>1, <1>2, <1>3, <1>4, <1>5, <1>6, <1>7 DEF Next

\* Somebody knows of the ticket.
Known(t) == \/ t \in ToSet(free) \/ t \in ToSet(ms) \/ t \in ToSet(aw)
            \/ Held(t) \/ Interrupts(t) \/ InHand(t)
\* Every ticket in existence is known.
KeptInv == ~dead => \A t \in Tickets : tk_life[t] = "live" => Known(t)

\* A step of a caller takes no ticket from the queues, and what it lets go is
\* queued, freed or in other hands.
LEMMA CallerKeeps ==
    ASSUME \A t \in Tickets : tk_life[t] = "live" => Known(t),
           NEW r \in Requesters, \A q \in Requesters : q # r => CallerStays(q),
           ToSet(ms) \subseteq ToSet(ms'), ToSet(aw) \subseteq ToSet(aw'), stick' = stick,
           \A t \in Tickets : tk_life'[t] = "live" => tk_life[t] = "live" \/ Known(t)',
           \A t \in ToSet(free) : Known(t)',
           \A t \in Tickets : Holds(r, t) \/ itick[r] = t => Known(t)' \/ tk_life'[t] # "live"
    PROVE  \A t \in Tickets : tk_life'[t] = "live" => Known(t)'
<1>. SUFFICES ASSUME NEW t \in Tickets, tk_life'[t] = "live", ~Known(t)' PROVE FALSE
  OBVIOUS
<1>1. Known(t) /\ ~Holds(r, t) /\ itick[r] # t /\ t \notin ToSet(free)
  OBVIOUS
<1>2. \A q \in Requesters : q # r => (Holds(q, t) => Holds(q, t)') /\ itick'[q] = itick[q]
  BY DEF CallerStays, Holds
<1>3. Held(t) => Held(t)'
  BY <1>1, <1>2 DEF Held
<1>4. Interrupts(t) => Interrupts(t)'
  BY <1>1, <1>2 DEF Interrupts
<1>5. InHand(t) => InHand(t)'
  BY DEF InHand
<1>. QED BY <1>1, <1>3, <1>4, <1>5 DEF Known

\* A caller goes on with the tickets it has.
LEMMA CallerKeepsOwn ==
    ASSUME \A t \in Tickets : tk_life[t] = "live" => Known(t), TypeOK,
           NEW r \in Requesters, \A q \in Requesters : q # r => CallerStays(q),
           UNCHANGED <<pool, ms, stick, tick, itick>>, ToSet(aw) \subseteq ToSet(aw'),
           pc'[r] = "abandon" => pc[r] = "abandon" \/ Known(tick[r])'
    PROVE  \A t \in Tickets : tk_life'[t] = "live" => Known(t)'
<1>. USE DEF pool
<1>1. \A t \in ToSet(free) : Known(t)'
  BY DEF Known
<1>2. \A t \in Tickets : itick[r] = t => Known(t)'
  BY DEF Known, Interrupts
<1>3. ASSUME NEW t \in Tickets, Holds(r, t) PROVE Known(t)'
  <2>1. CASE pc'[r] = "abandon"
    BY <1>3, <2>1 DEF Holds
  <2>2. CASE pc'[r] # "abandon"
    BY <1>3, <2>2 DEF Holds, Held, Known
  <2>. QED BY <2>1, <2>2
<1>. QED BY <1>1, <1>2, <1>3, CallerKeeps

\* A step of a daemon thread: the ticket it lets go is known to others.
LEMMA ServerKeeps ==
    ASSUME \A t \in Tickets : tk_life[t] = "live" => Known(t), TypeOK,
           NEW s \in Servers, \A z \in Servers : z # s => stick'[z] = stick[z],
           \A r \in Requesters : /\ tick'[r] = tick[r] /\ itick'[r] = itick[r]
                                 /\ pc'[r] = "abandon" => pc[r] = "abandon",
           \A t \in Tickets : tk_life'[t] = "live" => tk_life[t] = "live",
           ToSet(free) \subseteq ToSet(free'),
           \A t \in ToSet(ms) \union ToSet(aw) : Known(t)',
           \A t \in Tickets : stick[s] = t => Known(t)' \/ tk_life'[t] # "live"
    PROVE  \A t \in Tickets : tk_life'[t] = "live" => Known(t)'
<1>. SUFFICES ASSUME NEW t \in Tickets, tk_life'[t] = "live", ~Known(t)' PROVE FALSE
  OBVIOUS
<1>1. Known(t) /\ stick[s] # t /\ t \notin ToSet(ms) /\ t \notin ToSet(aw)
  OBVIOUS
<1>2. Held(t) => Held(t)'
  BY DEF Held, Holds
<1>3. Interrupts(t) => Interrupts(t)'
  BY DEF Interrupts
<1>4. InHand(t) => InHand(t)'
  BY <1>1 DEF InHand
<1>. QED BY <1>1, <1>2, <1>3, <1>4 DEF Known

\* No step loses a ticket, unless fuse_vget fails: fuse_internal_forget_send
\* then takes the dispatcher over, and its answered ticket is forgotten.
LEMMA NextKept ==
    ASSUME IInv, KeptInv, [Next]_vars, "vgetfails" \notin Faults
    PROVE  KeptInv'
<1>. SUFFICES ASSUME ~dead' PROVE \A t \in Tickets : tk_life'[t] = "live" => Known(t)'
  BY DEF KeptInv
<1>. USE NullIsNoTicket
<1>1. ~dead /\ Alive /\ TypeOK /\ \A t \in Tickets : tk_life[t] = "live" => Known(t)
  BY DeadForGood DEF IInv, KeptInv
<1>. DEFINE Kept == \A t \in Tickets : tk_life'[t] = "live" => Known(t)'
<1>2. ASSUME NEW r \in Requesters, CallerStep(r) \/ CallerChoice(r) PROVE Kept
  <2>. USE DEF session, queues, pool, answers, callers, daemon, control, ticketv
  <2>1. ASSUME \/ fticket_wait_answer(r) \/ WakesUp(r) \/ TimesOut(r) \/ WaitedOk(r) \/ Consume(r)
               \/ Signalled(r) \/ Reuse(r) \/ fuse_insert_callback(r)
                    \/ \E o \in Ops \union {"init"} : Start(r, o)
        PROVE  Kept
    <3>1. \A q \in Requesters : q # r => CallerStays(q)
      BY <1>1, <2>1 DEF TypeOK, CallerType, CallerStays, fticket_wait_answer, WakesUp, TimesOut,
          WaitedOk,
         Consume, Signalled, Reuse, fuse_insert_callback, Start, Goto
    <3>2. UNCHANGED <<pool, queues, stick, tick, itick>> /\ pc'[r] # "abandon"
      BY <1>1, <2>1 DEF TypeOK, CallerType, fticket_wait_answer, WakesUp, TimesOut, WaitedOk,
         Consume, Signalled, Reuse, fuse_insert_callback, Start, Goto
    <3>. QED BY <1>1, <3>1, <3>2, CallerKeepsOwn
  <2>2. CASE fuse_aw_push(r)
    <3>1. /\ \A q \in Requesters : q # r => CallerStays(q)
          /\ UNCHANGED <<pool, ms, stick, tick, itick>> /\ pc'[r] = "insert_msg"
      BY <1>1, <2>2 DEF TypeOK, CallerType, CallerStays, fuse_aw_push, Goto
    <3>2. tick[r] \in Tickets
      BY <2>2 DEF IInv, PtrInv, TypeOK, CallerType, TicketOrNone, fuse_aw_push
    <3>3. ToSet(aw) \subseteq ToSet(aw')
      BY <1>1, <2>2, <3>2, AppendSet DEF TypeOK, QueueType, fuse_aw_push
    <3>. QED BY <1>1, <3>1, <3>3, CallerKeepsOwn
  <2>3. CASE WaitedErr(r)
    <3>1. /\ \A q \in Requesters : q # r => CallerStays(q)
          /\ UNCHANGED <<pool, queues, daemon, tick, itick>> /\ tick[r] \in Tickets
          /\ pc'[r] = "abandon" => ~fticket_answered(tick[r]) /\ Waiting(r)
      BY <1>1, <2>3 DEF TypeOK, CallerType, CallerDerefs, Current, CallerStays, WaitedErr,
          CallerDrops, Goto,
         Waiting, IInv, PtrInv
    <3>2. pc'[r] = "abandon" => Answerable(tick[r])
      BY <1>1, <3>1 DEF Alive, SentInv, Sent
    <3>3. pc'[r] = "abandon" => Known(tick[r])'
      BY <3>1, <3>2 DEF Answerable, Known, InHand
    <3>. QED BY <1>1, <3>1, <3>3, CallerKeepsOwn
  <2>4. CASE Eject(r)
    BY <2>4 DEF Eject, fdata_set_dead
  <2>5. ASSUME Abandon(r) \/ InitSync(r) PROVE Kept
    <3>1. /\ \A q \in Requesters : q # r => CallerStays(q)
          /\ UNCHANGED <<pool, queues, stick, itick>>
      BY <1>1, <2>5 DEF TypeOK, CallerType, CallerStays, Abandon, InitSync, Return
    <3>2. \A t \in Tickets : ~Holds(r, t) /\ itick[r] # t
      BY <2>5 DEF IInv, PtrInv, Holds, Abandon, InitSync
    <3>. QED BY <1>1, <3>1, <3>2, CallerKeeps DEF Known
  <2>6. CASE fuse_insert_message(r)
    <3>1. /\ UNCHANGED <<pool, queues, stick>>
          /\ \/ UNCHANGED callers
             \/ pc' = [pc EXCEPT ![r] = "push_ms"]
                  /\ UNCHANGED <<op, tick, intr, itick, err, age>>
      BY <1>1, <2>6 DEF fuse_insert_message, Goto
    <3>2. \A q \in Requesters : q # r => CallerStays(q)
      BY <1>1, <3>1 DEF TypeOK, CallerType, CallerStays
    <3>3. pc'[r] = "abandon" => pc[r] = "abandon"
      BY <1>1, <3>1 DEF TypeOK, CallerType
    <3>. QED BY <1>1, <3>1, <3>2, <3>3, CallerKeepsOwn
  <2>7. CASE fuse_ms_push(r)
    <3>1. UNCHANGED <<pool, aw, stick>> /\ pc[r] = "push_ms" /\ AfterSend(r)
      BY <2>7 DEF fuse_ms_push
    <3>2. Current(r) \in Tickets
      BY <1>1, <3>1 DEF TypeOK, CallerDerefs
    <3>3. ToSet(ms') = ToSet(ms) \union {Current(r)}
      BY <1>1, <2>7, <3>2, AppendSet DEF TypeOK, QueueType, fuse_ms_push
    <3>4. /\ \A q \in Requesters : q # r => CallerStays(q)
          /\ intr[r] => tick'[r] = tick[r] /\ pc'[r] = "waited"
      BY <1>1, <3>1, AfterSendMoves DEF TypeOK, IInv
    <3>5. \A t \in Tickets : itick[r] = t => intr[r]
      BY DEF IInv, PtrInv
    <3>6. \A t \in Tickets : t = Current(r) => Known(t)'
      BY <3>3 DEF Known
    <3>7. \A t \in Tickets : Holds(r, t) \/ itick[r] = t => Known(t)'
      <4>1. CASE intr[r]
        BY <3>4, <3>6, <4>1 DEF Current, Holds, Held, Known
      <4>2. CASE ~intr[r]
        BY <3>5, <3>6, <4>2 DEF Current, Holds
      <4>. QED BY <4>1, <4>2
    <3>. QED BY <1>1, <3>1, <3>3, <3>4, <3>7, CallerKeeps DEF Known
  <2>8. CASE FetchFree(r)
    <3>1. /\ free # <<>> /\ free' = Tail(free) /\ UNCHANGED <<queues, stick, tk_life>>
          /\ pc[r] = "fetch"
      BY <1>1, <2>8 DEF FetchFree, Alive, FreeInv
    <3>2. Head(free) \in ToSet(free) /\ ToSet(free') = ToSet(free) \ {Head(free)}
      BY <1>1, <3>1, TailSet DEF Alive, FreeInv, TypeOK, QueueType
    <3>3. PICK h \in Tickets : h = Head(free)
      BY <1>1, <3>2, QueuesHoldTickets
    <3>4. /\ \A q \in Requesters : q # r => CallerStays(q)
          /\ intr[r] => itick'[r] = h /\ tick'[r] = tick[r]
      BY <1>1, <2>8, <3>1, <3>3 DEF FetchFree, Fetched, Goto, TypeOK, CallerType, CallerStays
    <3>5. ~intr[r] => tick'[r] = h /\ itick'[r] = itick[r]
      BY <1>1, <2>8, <3>1, <3>3 DEF FetchFree, Fetched, TypeOK, CallerType
    <3>6. pc'[r] # "abandon"
      BY <1>1, <2>8, <3>1 DEF FetchFree, Fetched, Goto, TypeOK, CallerType
    <3>7. Known(h)'
      <4>1. CASE intr[r]
        BY <3>4, <3>6, <4>1 DEF Known, Interrupts
      <4>2. CASE ~intr[r]
        BY <3>5, <3>6, <4>2 DEF Known, Held, Holds
      <4>. QED BY <4>1, <4>2
    <3>8. \A t \in ToSet(free) : Known(t)'
      BY <3>2, <3>3, <3>7 DEF Known
    <3>9. \A t \in Tickets : Holds(r, t) \/ itick[r] = t => Known(t)'
      <4>1. CASE intr[r]
        BY <3>1, <3>4, <3>6, <4>1 DEF Known, Held, Holds, IInv, PtrInv
      <4>2. CASE ~intr[r]
        BY <3>1, <4>2 DEF Holds, IInv, PtrInv
      <4>. QED BY <4>1, <4>2
    <3>. QED BY <1>1, <3>1, <3>4, <3>8, <3>9, CallerKeeps
  <2>9. CASE fticket_alloc(r)
    <3>1. PICK u \in Tickets : /\ tk_life' = [tk_life EXCEPT ![u] = "live"]
                               /\ IF intr[r] THEN itick' = [itick EXCEPT ![r] = u] /\ tick' = tick
                                            ELSE tick' = [tick EXCEPT ![r] = u] /\ itick' = itick
      BY <2>9 DEF fticket_alloc
    <3>2. /\ \A q \in Requesters : q # r => CallerStays(q)
          /\ pc'[r] = "alloc" /\ pc[r] = "fetch" /\ UNCHANGED <<queues, free, stick>>
      BY <1>1, <2>9, <3>1 DEF fticket_alloc, Goto, TypeOK, CallerType, CallerStays
    <3>3. /\ intr[r] => itick'[r] = u /\ tick'[r] = tick[r]
          /\ ~intr[r] => tick'[r] = u /\ itick'[r] = itick[r]
      BY <1>1, <3>1 DEF TypeOK, CallerType
    <3>4. Known(u)'
      BY <3>2, <3>3 DEF Known, Interrupts, Held, Holds
    <3>5. \A t \in Tickets : tk_life'[t] = "live" => tk_life[t] = "live" \/ Known(t)'
      BY <1>1, <3>1, <3>4 DEF TypeOK, TicketType
    <3>6. \A t \in Tickets : Holds(r, t) \/ itick[r] = t => Known(t)'
      <4>1. CASE intr[r]
        BY <3>2, <3>3, <4>1 DEF Known, Held, Holds, IInv, PtrInv
      <4>2. CASE ~intr[r]
        BY <3>2, <4>2 DEF Holds, IInv, PtrInv
      <4>. QED BY <4>1, <4>2
    <3>. QED BY <1>1, <3>2, <3>5, <3>6, CallerKeeps DEF Known
  <2>10. CASE FetchAllocated(r)
    <3>1. pc[r] = "alloc" /\ UNCHANGED <<queues, free, tk_life, stick>> /\ Fetched(r, Current(r))
          /\ UNCHANGED <<op, intr, err, age>>
      BY <2>10 DEF FetchAllocated
    <3>2. tick' = tick /\ itick' = itick
      BY <1>1, <3>1 DEF Fetched, Current, TypeOK, CallerType
    <3>3. pc'[r] # "abandon" /\ \A q \in Requesters : q # r => CallerStays(q)
      BY <1>1, <3>1, <3>2 DEF Fetched, Goto, TypeOK, CallerType, CallerStays
    <3>4. \A t \in Tickets : Holds(r, t) \/ itick[r] = t => Known(t)'
      BY <3>2, <3>3 DEF Known, Held, Holds, Interrupts
    <3>. QED BY <1>1, <3>1, <3>2, <3>3, <3>4, CallerKeeps DEF Known
  <2>11. CASE MakeFails(r)
    <3>1. /\ \A q \in Requesters : q # r => CallerStays(q)
          /\ UNCHANGED <<queues, free, stick, itick>> /\ pc[r] = "insert_cb"
          /\ tk_life' = [tk_life EXCEPT ![tick[r]] = "freed"]
      BY <1>1, <2>11 DEF MakeFails, Return, TypeOK, CallerType, CallerStays
    <3>2. \A t \in Tickets : tk_life'[t] = "live" => tk_life[t] = "live" /\ tick[r] # t
      BY <1>1, <3>1 DEF TypeOK, TicketType
    <3>3. \A t \in Tickets : itick[r] = t => Known(t)'
      BY <3>1 DEF Known, Interrupts
    <3>. QED BY <1>1, <3>1, <3>2, <3>3, CallerKeeps DEF Known, Holds
  <2>12. CASE fuse_ticket_drop_lock(r)
    <3>1. UNCHANGED <<queues, free, stick>> /\ pc[r] = "drop"
      BY <2>12 DEF fuse_ticket_drop_lock
    <3>2. CASE TicketDies(tick[r])
      <4>1. tk_life' = [tk_life EXCEPT ![tick[r]] = "freed"] /\ AfterDrop(r)
        BY <2>12, <3>2 DEF fuse_ticket_drop_lock
      <4>2. /\ \A q \in Requesters : q # r => CallerStays(q)
            /\ itick' = itick
        BY <1>1, <4>1, AfterDropMoves DEF TypeOK
      <4>3. \A t \in Tickets : tk_life'[t] = "live" => tk_life[t] = "live" /\ tick[r] # t
        BY <1>1, <4>1 DEF TypeOK, TicketType
      <4>4. \A t \in Tickets : itick[r] = t => Known(t)'
        BY <4>2 DEF Known, Interrupts
      <4>. QED BY <1>1, <3>1, <4>2, <4>3, <4>4, CallerKeeps DEF Known, Holds
    <3>3. CASE ~TicketDies(tick[r])
      <4>1. UNCHANGED <<tk_life, op, tick, intr, itick, err, age>>
            /\ pc' = [pc EXCEPT ![r] = "push"]
        BY <2>12, <3>3 DEF fuse_ticket_drop_lock, Goto
      <4>2. pc'[r] # "abandon" /\ \A q \in Requesters : q # r => CallerStays(q)
        BY <1>1, <4>1 DEF TypeOK, CallerType, CallerStays
      <4>3. \A t \in Tickets : Holds(r, t) \/ itick[r] = t => Known(t)'
        BY <4>1, <4>2 DEF Known, Held, Holds, Interrupts
      <4>. QED BY <1>1, <3>1, <4>1, <4>2, <4>3, CallerKeeps DEF Known
    <3>. QED BY <3>2, <3>3
  <2>13. CASE fuse_ticket_drop_push(r)
    <3>1. /\ UNCHANGED <<queues, tk_life, stick>> /\ pc[r] = "push" /\ AfterDrop(r)
          /\ fuse_push_freeticks(tick[r])
      BY <2>13 DEF fuse_ticket_drop_push
    <3>2. tick[r] \in Tickets /\ tick[r] \notin ToSet(free)
      BY <1>1, <3>1 DEF TypeOK, CallerDerefs, Current, Alive, FreeInv, Held, Holds, IInv, PtrInv
    <3>3. ToSet(free') = ToSet(free) \union {tick[r]}
      BY <1>1, <3>1, <3>2, PushedFree DEF Alive
    <3>4. /\ \A q \in Requesters : q # r => CallerStays(q)
          /\ itick' = itick
      BY <1>1, <3>1, AfterDropMoves DEF TypeOK
    <3>5. \A t \in Tickets : Holds(r, t) \/ itick[r] = t => Known(t)'
      BY <3>3, <3>4 DEF Known, Holds, Interrupts
    <3>. QED BY <1>1, <3>1, <3>3, <3>4, <3>5, CallerKeeps DEF Known
  <2>14. ~VgetFails(r)
    BY DEF VgetFails
  <2>. QED
    BY <1>2, <2>1, <2>2, <2>3, <2>4, <2>5, <2>6, <2>7, <2>8, <2>9, <2>10, <2>11, <2>12, <2>13,
        <2>14
    DEF CallerStep, CallerChoice
<1>3. ASSUME NEW s \in Servers, ServerStep(s) \/ ServerChoice(s) PROVE Kept
  <2>. USE DEF session, queues, pool, answers, callers, daemon, control, ticketv
  <2>1. ASSUME ReaderSignalled(s) \/ ReadChecksDead(s) \/ RunHandler(s) PROVE Kept
    <3>1. UNCHANGED <<pool, queues, stick, callers>>
      BY <1>1, <2>1 DEF ReaderSignalled, ReadChecksDead, RunHandler
    <3>. QED BY <1>1, <3>1, ServerKeeps DEF Known, InHand
  <2>2. ASSUME fuse_device_read(s) \/ ReaderWakes(s) PROVE Kept
    <3>1. UNCHANGED <<pool, aw, callers>> /\ stick[s] = NoTicket
      BY <2>2 DEF fuse_device_read, ReaderWakes, IInv, PtrInv
    <3>2. CASE UNCHANGED <<ms, stick>>
      BY <1>1, <3>1, <3>2, ServerKeeps DEF Known, InHand
    <3>3. CASE ms # <<>> /\ ms' = Tail(ms) /\ stick' = [stick EXCEPT ![s] = Head(ms)]
      <4>1. Head(ms) \in ToSet(ms) /\ ToSet(ms') = ToSet(ms) \ {Head(ms)}
        BY <1>1, <3>3, TailSet DEF TypeOK, QueueType, IInv, QueueInv, QueuedOnce
      <4>2. stick'[s] = Head(ms) /\ \A z \in Servers : z # s => stick'[z] = stick[z]
        BY <1>1, <3>3 DEF TypeOK, DaemonType
      <4>3. \A t \in ToSet(ms) \union ToSet(aw) : Known(t)'
        BY <3>1, <4>1, <4>2 DEF Known, InHand
      <4>. QED BY <1>1, <3>1, <4>2, <4>3, ServerKeeps
    <3>. QED BY <2>2, <3>2, <3>3 DEF fuse_device_read, ReaderWakes
  <2>3. CASE ReadFinishes(s)
    <3>1. UNCHANGED <<pool, queues, callers>> /\ spc[s] = "finish" /\ DropInvalid(s)
      BY <2>3 DEF ReadFinishes
    <3>2. PICK u \in Tickets : u = stick[s]
      BY <1>1, <3>1 DEF TypeOK, ServerDerefs
    <3>3. Outgoing(u)
      BY <1>1, <3>1, <3>2 DEF Alive, HandInv, Hand
    <3>4. /\ \A z \in Servers : z # s => stick'[z] = stick[z]
          /\ "INVAL" \in tk_flag[u] => stick'[s] = u
      BY <1>1, <3>1, <3>2 DEF DropInvalid, TypeOK, DaemonType
    <3>5. Known(u)'
      BY <3>1, <3>3, <3>4 DEF Known, Outgoing, InHand
    <3>. QED BY <1>1, <3>1, <3>2, <3>4, <3>5, ServerKeeps DEF Known
  <2>4. ASSUME NEW m \in inbox, NEW k \in ReplyKinds, fuse_device_write(s, m, k) PROVE Kept
    <3>1. UNCHANGED <<pool, ms, callers>> /\ stick[s] = NoTicket
      BY <2>4 DEF fuse_device_write, IInv, PtrInv
    <3>2. CASE UNCHANGED <<aw, stick>>
      BY <1>1, <3>1, <3>2, ServerKeeps DEF Known, InHand
    <3>3. CASE \E i \in DOMAIN aw : aw' = RemoveAt(aw, i) /\ stick' = [stick EXCEPT ![s] = aw[i]]
      <4>1. PICK i \in DOMAIN aw : aw' = RemoveAt(aw, i) /\ stick' = [stick EXCEPT ![s] = aw[i]]
        BY <3>3
      <4>2. ToSet(aw') = ToSet(aw) \ {aw[i]}
        BY <1>1, <4>1, RemoveAtSet DEF TypeOK, QueueType, IInv, QueueInv, QueuedOnce
      <4>3. stick'[s] = aw[i] /\ \A z \in Servers : z # s => stick'[z] = stick[z]
        BY <1>1, <4>1 DEF TypeOK, DaemonType
      <4>4. \A t \in ToSet(ms) \union ToSet(aw) : Known(t)'
        BY <3>1, <4>2, <4>3 DEF Known, InHand
      <4>. QED BY <1>1, <3>1, <4>3, <4>4, ServerKeeps
    <3>. QED BY <2>4, <3>2, <3>3 DEF fuse_device_write
  <2>5. CASE fuse_standard_handler(s)
    <3>1. /\ UNCHANGED <<pool, queues, tick, itick>> /\ spc[s] = "answer"
          /\ \/ UNCHANGED <<pc, stick>>
             \/ /\ ~fticket_answered(stick[s]) /\ Wakeup(stick[s])
                /\ stick' = [stick EXCEPT ![s] = NoTicket]
      BY <2>5 DEF fuse_standard_handler
    <3>2. PICK u \in Tickets : u = stick[s]
      BY <1>1, <3>1 DEF TypeOK, ServerDerefs
    <3>3. \A r \in Requesters : pc'[r] = "abandon" <=> pc[r] = "abandon"
      BY <3>1 DEF Wakeup
    <3>4. \A z \in Servers : z # s => stick'[z] = stick[z]
      BY <1>1, <3>1 DEF TypeOK, DaemonType
    <3>5. ~fticket_answered(u) => Held(u)
      BY <1>1, <3>1, <3>2 DEF Alive, HandInv, Hand
    <3>6. Known(u)'
      BY <3>1, <3>2, <3>3, <3>5 DEF Known, InHand, Held, Holds
    <3>. QED BY <1>1, <3>1, <3>2, <3>3, <3>4, <3>6, ServerKeeps DEF Known
  <2>6. CASE ServerDropLock(s)
    <3>1. UNCHANGED <<queues, free, callers>>
      BY <2>6 DEF ServerDropLock
    <3>2. CASE UNCHANGED <<tk_life, stick>>
      BY <1>1, <3>1, <3>2, ServerKeeps DEF Known, InHand
    <3>3. CASE /\ tk_life' = [tk_life EXCEPT ![stick[s]] = "freed"]
               /\ stick' = [stick EXCEPT ![s] = NoTicket]
      <4>1. \A z \in Servers : z # s => stick'[z] = stick[z]
        BY <1>1, <3>3 DEF TypeOK, DaemonType
      <4>2. \A t \in Tickets : tk_life'[t] = "live" => tk_life[t] = "live" /\ stick[s] # t
        BY <1>1, <3>3 DEF TypeOK, TicketType
      <4>. QED BY <1>1, <3>1, <4>1, <4>2, ServerKeeps DEF Known
    <3>. QED BY <2>6, <3>2, <3>3 DEF ServerDropLock
  <2>7. CASE ServerDropPush(s)
    <3>1. /\ UNCHANGED <<queues, tk_life, callers>> /\ spc[s] = "push"
          /\ fuse_push_freeticks(stick[s]) /\ stick' = [stick EXCEPT ![s] = NoTicket]
      BY <2>7 DEF ServerDropPush
    <3>2. PICK u \in Tickets : u = stick[s]
      BY <1>1, <3>1 DEF TypeOK, ServerDerefs
    <3>3. u \notin ToSet(free)
      BY <1>1, <3>2 DEF Alive, FreeInv, InHand
    <3>4. ToSet(free') = ToSet(free) \union {u}
      BY <1>1, <3>1, <3>2, <3>3, PushedFree DEF Alive
    <3>5. \A z \in Servers : z # s => stick'[z] = stick[z]
      BY <1>1, <3>1 DEF TypeOK, DaemonType
    <3>6. Known(u)'
      BY <3>4 DEF Known
    <3>. QED BY <1>1, <3>1, <3>2, <3>4, <3>5, <3>6, ServerKeeps DEF Known
  <2>. QED
    BY <1>3, <2>1, <2>2, <2>3, <2>4, <2>5, <2>6, <2>7 DEF ServerStep, ServerChoice
<1>4. ~DrainStep
  BY <1>1 DEF DrainStep, DrainStarts, DrainOne, DrainEnds, IInv, EndInv
<1>5. ~SessionEnd
  BY DEF SessionEnd, fuse_device_close, fuse_device_kill, SetDaemonDead, fdata_set_dead
<1>6. CASE UNCHANGED vars
  BY <1>1, <1>6 DEF vars, queues, pool, callers, daemon, Known, Held, Holds, Interrupts, InHand
<1>. QED BY <1>2, <1>3, <1>4, <1>5, <1>6 DEF Next

\* What is known is free or referenced.
LEMMA KeptFollows == IInv /\ KeptInv => NoTicketLost
  BY ReferencedMeans DEF KeptInv, Known, NoTicketLost

\* While the session lives, no ticket is lost: every one that was allocated is
\* free, queued, with a call or with a daemon thread, also after its caller has
\* abandoned it.  The exception is a lookup or create whose vnode cannot be
\* made: without that failure.
THEOREM TicketsAreKept ==
    ASSUME AtomicTicketer, "vgetfails" \notin Faults
    PROVE  Spec => []NoTicketLost
<1>1. Init => KeptInv
  BY DEF Init, KeptInv
<1>2. IInv /\ KeptInv /\ [Next]_vars => KeptInv'
  BY NextKept
<1>. QED BY <1>1, <1>2, Invariance, KeptFollows, PTL DEF Spec

-----------------------------------------------------------------------------
\* A message and a sleeping reader: every step leaves the queue empty or a
\* daemon thread awake.
LEMMA NextNotStranded ==
    ASSUME TypeOK, NoStrandedMessage, [Next]_vars
    PROVE  NoStrandedMessage'
<1>. SUFFICES ASSUME ~dead', ms' # <<>> PROVE \E s \in Servers : spc'[s] # "asleep"
  BY DEF NoStrandedMessage
<1>1. ~dead
  BY DeadForGood
<1>. DEFINE Awake == \E s \in Servers : spc'[s] # "asleep"
<1>2. (\A s \in Servers : spc[s] # "asleep" => spc'[s] # "asleep") /\ ms' = ms => Awake
  BY <1>1 DEF NoStrandedMessage
<1>3. WakeupOneReader => Awake
  <2>1. CASE \E s \in Servers : spc[s] = "asleep"
    BY <2>1 DEF WakeupOneReader, TypeOK, DaemonType
  <2>2. CASE ~\E s \in Servers : spc[s] = "asleep"
    BY <2>2, IpcAssumption DEF WakeupOneReader
  <2>. QED BY <2>1, <2>2
<1>4. ASSUME NEW r \in Requesters, CallerStep(r) PROVE Awake
  <2>1. fuse_ms_push(r) \/ (ms' = ms /\ (spc' = spc \/ dead'))
    BY <1>4 DEF CallerStep, FetchFree, Admit, fdata_set_dead, fticket_alloc, FetchAllocated,
       fuse_insert_callback, fuse_aw_push, fuse_insert_message, fticket_wait_answer,
       WakesUp, TimesOut, Eject, WaitedOk, WaitedErr, Abandon, Consume, InitSync,
       fuse_ticket_drop_lock, fuse_ticket_drop_push, queues, daemon
  <2>. QED BY <1>2, <1>3, <2>1 DEF fuse_ms_push
<1>5. ASSUME NEW r \in Requesters, CallerChoice(r) PROVE Awake
  BY <1>2, <1>5 DEF CallerChoice, Start, Signalled, MakeFails, Reuse, VgetFails, queues, daemon
<1>6. ASSUME NEW s \in Servers, ServerStep(s) \/ ServerChoice(s) PROVE Awake
  <2>1. spc \in [Servers -> ServerPCs]
    BY DEF TypeOK, DaemonType
  <2>2. CASE ReadChecksDead(s) \/ ReadFinishes(s) \/ RunHandler(s) \/ fuse_standard_handler(s)
    BY <2>1, <2>2 DEF ReadChecksDead, ReadFinishes, DropInvalid, RunHandler,
        fuse_standard_handler, SGoto
  <2>3. CASE ServerDropLock(s) \/ ServerDropPush(s) \/ ReaderSignalled(s)
    BY <2>1, <2>3 DEF ServerDropLock, ServerDropPush, ReaderSignalled, SGoto
  <2>4. CASE ReaderWakes(s) \/ fuse_device_read(s)
    BY <2>1, <2>4 DEF ReaderWakes, fuse_device_read, SGoto
  <2>5. ASSUME NEW m \in inbox, NEW k \in ReplyKinds, fuse_device_write(s, m, k) PROVE Awake
    BY <2>1, <2>5 DEF fuse_device_write, SGoto
  <2>. QED BY <1>6, <2>2, <2>3, <2>4, <2>5 DEF ServerStep, ServerChoice
<1>7. CASE DrainStep \/ SessionEnd
  BY <1>2, <1>7 DEF DrainStep, DrainStarts, DrainOne, DrainEnds, SessionEnd, fuse_device_close,
     fuse_device_kill, SetDaemonDead, fdata_set_dead, queues, daemon
<1>8. CASE UNCHANGED vars
  BY <1>2, <1>8 DEF vars, queues, daemon
<1>. QED BY <1>4, <1>5, <1>6, <1>7, <1>8 DEF Next

\* No wakeup_one is lost: while the session lives and a message waits on
\* ms_head, some thread of the daemon is not asleep in fuse_device_read.  This
\* needs no assumption on fticket_alloc.
THEOREM ReadersAreWoken == Spec => []NoStrandedMessage
<1>1. Init => NoStrandedMessage
  BY DEF Init, NoStrandedMessage
<1>2. TypeOK /\ NoStrandedMessage /\ [Next]_vars => NoStrandedMessage'
  BY NextNotStranded
<1>. QED BY <1>1, <1>2, TypeCorrect, PTL DEF Spec

=============================================================================
