----------------------------- MODULE RemoteCall -----------------------------
(***************************************************************************)
(* What the message channel promises to a file system call, with no        *)
(* tickets, no queues and no locks: a request reaches the daemon at most   *)
(* once, its answer comes back at most once, to the caller that waits for  *)
(* it and to nobody else, and is thrown away only if nobody does.  A       *)
(* caller may give up as long as its answer has not come.  The promise     *)
(* ends with the session.                                                  *)
(***************************************************************************)
CONSTANTS
    Callers,    \* threads that make calls
    None        \* no request

VARIABLES
    wait,       \* the request whose answer a caller waits for, or None
    answered,   \* the callers whose answer is there
    pending,    \* requests sent and not yet read
    reading,    \* requests the daemon has read and not answered
    replies,    \* the daemon's answers on their way back
    over        \* the session has died

callVars == <<wait, answered, pending, reading, replies, over>>

Init ==
    /\ wait = [c \in Callers |-> None]
    /\ answered = {} /\ pending = {} /\ reading = {} /\ replies = {}
    /\ over = FALSE

\* No trace of the request anywhere.
New(q) ==
    /\ q \notin pending \union reading \union replies
    /\ \A c \in Callers : wait[c] # q

\* A request with a caller that waits, or one without (RELEASE, FSYNC).
Send(q) ==
    /\ New(q)
    /\ pending' = pending \union {q}
    /\ \/ UNCHANGED wait
       \/ \E c \in Callers : wait[c] = None /\ wait' = [wait EXCEPT ![c] = q]
    /\ UNCHANGED <<answered, reading, replies>>

Read(q) ==
    /\ pending' = pending \ {q} /\ reading' = reading \union {q}
    /\ UNCHANGED <<wait, answered, replies>>

\* The daemon need not see what its caller has given up.
Withdraw(q) ==
    /\ \A c \in Callers : wait[c] # q
    /\ pending' = pending \ {q}
    /\ UNCHANGED <<wait, answered, reading, replies>>

Answer(q) ==
    /\ reading' = reading \ {q} /\ replies' = replies \union {q}
    /\ UNCHANGED <<wait, answered, pending>>

Deliver(c) ==
    /\ wait[c] \in replies /\ c \notin answered
    /\ replies' = replies \ {wait[c]}
    /\ answered' = answered \union {c}
    /\ UNCHANGED <<wait, pending, reading>>

Discard(q) ==
    /\ \A c \in Callers : wait[c] # q
    /\ replies' = replies \ {q}
    /\ UNCHANGED <<wait, answered, pending, reading>>

\* With the answer, or giving up without it.
Leave(c) ==
    /\ wait[c] # None
    /\ wait' = [wait EXCEPT ![c] = None]
    /\ answered' = answered \ {c}
    /\ UNCHANGED <<pending, reading, replies>>

Next ==
    \/ /\ ~over /\ UNCHANGED over
       /\ \/ \E q \in pending' \ pending : Send(q)
          \/ \E q \in pending : Read(q) \/ Withdraw(q)
          \/ \E q \in reading : Answer(q)
          \/ \E q \in replies : Discard(q)
          \/ \E c \in Callers : Deliver(c) \/ Leave(c)
    \/ over'

Spec == Init /\ [][Next]_callVars
=============================================================================
