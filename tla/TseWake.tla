------------------------------- MODULE TseWake -------------------------------
(***************************************************************************)
(* The sleep and wake-up handshake of erl_process_lock.c, between threads  *)
(* waiting in wait_for_locks() and threads handing locks over in           *)
(* transfer_locks().  Lock words and lock numbers are ProcLock's part;      *)
(* here a waiter is queued or not, and the state is what the handshake     *)
(* shares: each thread's event object (erts_tse_t) with its next field,     *)
(* its uaflgs and its event, the wait queues as a set, the pix lock, and    *)
(* each releaser's wake list.                                              *)
(*                                                                         *)
(* next is one field used twice: as the queue link (enqueue_waiter) and as *)
(* the wake-list link (transfer_locks).  A woken thread returns its event  *)
(* object, and the same object is fetched again at its next wait, so its  *)
(* next field may be rewritten as soon as uaflgs is 0.  The event itself   *)
(* (erts_tse_set, erts_tse_reset, erts_tse_wait) lives in the ethread      *)
(* library: set stays set until reset, and a wait returns when it is set   *)
(* or spuriously.                                                          *)
(***************************************************************************)
EXTENDS Naturals, FiniteSets

CONSTANTS
  Sleepers,   \* threads that block in wait_for_locks()
  Wakers,     \* threads that release locks with waiters
  Nil         \* NULL

ASSUME Nil \notin Sleepers \cup Wakers /\ Sleepers \cap Wakers = {}

VARIABLES
  pc,       \* where each thread is
  next,     \* wtr->next of each sleeper's event object
  uaflgs,   \* wtr->uaflgs: 1 while the sleeper must sleep
  ev,       \* the event of each sleeper's event object is set
  queued,   \* sleepers in some lock's wait queue
  pix,      \* holder of the pix lock, or Nil
  wake,     \* the local wake list head of transfer_locks()
  tmp       \* the local tmp of its wake loop

vars == <<pc, next, uaflgs, ev, queued, pix, wake, tmp>>

Asleep == {"reset", "check", "wait"}

Init ==
  /\ pc = [t \in Sleepers \cup Wakers |-> "run"]
  /\ next = [t \in Sleepers |-> Nil]
  /\ uaflgs = [t \in Sleepers |-> 0]
  /\ ev \in [Sleepers -> BOOLEAN]
  /\ queued = {}
  /\ pix = Nil
  /\ wake = [w \in Wakers |-> Nil]
  /\ tmp = [w \in Wakers |-> Nil]

\* enqueue_waiter(): t starts an empty queue (next = itself), or joins a
\* queue behind its tail y, linking to its head h.
EnqueueWaiter(t) ==
  \/ next' = [next EXCEPT ![t] = t]
  \/ \E h, y \in queued \ {t} : next' = [next EXCEPT ![t] = h, ![y] = t]

\* wait_for_locks(): under the pix lock try_aquire() fails and queues the
\* thread, uaflgs is set to 1, and the pix lock is released.
Park(t) ==
  /\ pc[t] = "run"
  /\ pix = Nil
  /\ EnqueueWaiter(t)
  /\ queued' = queued \cup {t}
  /\ uaflgs' = [uaflgs EXCEPT ![t] = 1]
  /\ pc' = [pc EXCEPT ![t] = "reset"]
  /\ UNCHANGED <<ev, pix, wake, tmp>>

\* The sleep loop with its check before the reset: a plausible reordering.
SleepLoopCheckFirst(t) ==
  /\ \/ /\ pc[t] = "reset"
        /\ pc' = [pc EXCEPT ![t] = IF uaflgs[t] = 0 THEN "run" ELSE "check"]
        /\ UNCHANGED ev
     \/ /\ pc[t] = "check"
        /\ ev' = [ev EXCEPT ![t] = FALSE]
        /\ pc' = [pc EXCEPT ![t] = "wait"]
     \/ /\ pc[t] = "wait"
        /\ ev[t]
        /\ pc' = [pc EXCEPT ![t] = "reset"]
        /\ UNCHANGED ev
  /\ UNCHANGED <<next, uaflgs, queued, pix, wake, tmp>>

\* The sleep loop: reset the event, then read uaflgs; leave when it is 0
\* (and return the event object), else wait for the event.
SleepLoop(t) ==
  /\ \/ /\ pc[t] = "reset"
        /\ ev' = [ev EXCEPT ![t] = FALSE]
        /\ pc' = [pc EXCEPT ![t] = "check"]
     \/ /\ pc[t] = "check"
        /\ pc' = [pc EXCEPT ![t] = IF uaflgs[t] = 0 THEN "run" ELSE "wait"]
        /\ UNCHANGED ev
     \/ /\ pc[t] = "wait"
        /\ ev[t]
        /\ pc' = [pc EXCEPT ![t] = "reset"]
        /\ UNCHANGED ev
  /\ UNCHANGED <<next, uaflgs, queued, pix, wake, tmp>>

\* erts_tse_wait() returning without the event set.
SpuriousWakeup(t) ==
  /\ pc[t] = "wait"
  /\ pc' = [pc EXCEPT ![t] = "reset"]
  /\ UNCHANGED <<next, uaflgs, ev, queued, pix, wake, tmp>>

\* Taking the pix lock to transfer, if not yet held.
TakePix(w) ==
  \/ pc[w] = "run" /\ pix = Nil /\ pix' = w
  \/ pc[w] = "transfer" /\ UNCHANGED pix

\* transfer_locks(), one lock: dequeue the head waiter t; if try_aquire()
\* gets it everything, push it on the wake list through its next field.
TransferLock(w, t) ==
  /\ t \in queued
  /\ TakePix(w)
  /\ queued' = queued \ {t}
  /\ next' = [next EXCEPT ![t] = wake[w]]
  /\ wake' = [wake EXCEPT ![w] = t]
  /\ pc' = [pc EXCEPT ![w] = "transfer"]
  /\ UNCHANGED <<uaflgs, ev, tmp>>

\* transfer_locks(), one lock whose waiter t still misses a higher lock:
\* try_aquire() queues it again there.
TransferRequeue(w, t) ==
  /\ t \in queued
  /\ TakePix(w)
  /\ EnqueueWaiter(t)
  /\ pc' = [pc EXCEPT ![w] = "transfer"]
  /\ UNCHANGED <<uaflgs, ev, queued, wake, tmp>>

\* The transfers are done: release the pix lock, and wake if anyone.
EndTransfer(w) ==
  /\ pc[w] = "transfer"
  /\ pix' = Nil
  /\ pc' = [pc EXCEPT ![w] = IF wake[w] = Nil THEN "run" ELSE "wake_next"]
  /\ UNCHANGED <<next, uaflgs, ev, queued, wake, tmp>>

\* The wake loop clearing uaflgs before it reads next: a plausible swap.
WakeLoopClearFirst(w) ==
  /\ \/ /\ pc[w] = "wake_next"
        /\ tmp' = [tmp EXCEPT ![w] = wake[w]]
        /\ uaflgs' = [uaflgs EXCEPT ![wake[w]] = 0]
        /\ pc' = [pc EXCEPT ![w] = "wake_clear"]
        /\ UNCHANGED <<ev, wake>>
     \/ /\ pc[w] = "wake_clear"
        /\ wake' = [wake EXCEPT ![w] = next[tmp[w]]]
        /\ pc' = [pc EXCEPT ![w] = "wake_set"]
        /\ UNCHANGED <<uaflgs, ev, tmp>>
     \/ /\ pc[w] = "wake_set"
        /\ ev' = [ev EXCEPT ![tmp[w]] = TRUE]
        /\ pc' = [pc EXCEPT ![w] = IF wake[w] = Nil THEN "run" ELSE "wake_next"]
        /\ UNCHANGED <<uaflgs, wake, tmp>>
  /\ UNCHANGED <<next, queued, pix>>

\* The wake loop: tmp = wake; wake = wake->next; tmp->uaflgs = 0;
\* erts_tse_set(tmp); until the list is empty.
WakeLoop(w) ==
  /\ \/ /\ pc[w] = "wake_next"
        /\ tmp' = [tmp EXCEPT ![w] = wake[w]]
        /\ wake' = [wake EXCEPT ![w] = next[wake[w]]]
        /\ pc' = [pc EXCEPT ![w] = "wake_clear"]
        /\ UNCHANGED <<uaflgs, ev>>
     \/ /\ pc[w] = "wake_clear"
        /\ uaflgs' = [uaflgs EXCEPT ![tmp[w]] = 0]
        /\ pc' = [pc EXCEPT ![w] = "wake_set"]
        /\ UNCHANGED <<ev, wake, tmp>>
     \/ /\ pc[w] = "wake_set"
        /\ ev' = [ev EXCEPT ![tmp[w]] = TRUE]
        /\ pc' = [pc EXCEPT ![w] = IF wake[w] = Nil THEN "run" ELSE "wake_next"]
        /\ UNCHANGED <<uaflgs, wake, tmp>>
  /\ UNCHANGED <<next, queued, pix>>

Next ==
  \/ \E t \in Sleepers : Park(t) \/ SleepLoop(t) \/ SpuriousWakeup(t)
  \/ \E w \in Wakers :
       \/ \E t \in Sleepers : TransferLock(w, t) \/ TransferRequeue(w, t)
       \/ EndTransfer(w)
       \/ WakeLoop(w)

(* Threads keep running their code (WF).  A queued waiter is eventually   *)
(* handed all its locks (SF: the hand-over is enabled only while some      *)
(* releaser holds the pix lock); that is LockReturns of ProcLock.  Taking  *)
(* a lock and spurious wakeups are never owed.                             *)
FairSpec ==
  /\ Init /\ [][Next]_vars
  /\ \A t \in Sleepers : WF_vars(SleepLoop(t))
  /\ \A t \in Sleepers : SF_vars(\E w \in Wakers : TransferLock(w, t))
  /\ \A w \in Wakers : WF_vars(EndTransfer(w)) /\ WF_vars(WakeLoop(w))

-----------------------------------------------------------------------------
TypeOK ==
  /\ pc \in [Sleepers \cup Wakers -> {"run", "transfer", "wake_next",
                                      "wake_clear", "wake_set"} \cup Asleep]
  /\ next \in [Sleepers -> Sleepers \cup {Nil}]
  /\ uaflgs \in [Sleepers -> {0, 1}]
  /\ ev \in [Sleepers -> BOOLEAN]
  /\ queued \subseteq Sleepers
  /\ pix \in Wakers \cup {Nil}
  /\ wake \in [Wakers -> Sleepers \cup {Nil}]
  /\ tmp \in [Wakers -> Sleepers \cup {Nil}]

\* The sleepers reachable from x through next, in at most n links.
RECURSIVE Chain(_, _)
Chain(x, n) == IF x = Nil \/ n = 0 THEN {} ELSE {x} \cup Chain(next[x], n - 1)

\* The sleepers a releaser w still has to wake: the rest of its wake list,
\* and tmp until its uaflgs is cleared.
Pending(w) ==
  Chain(wake[w], Cardinality(Sleepers))
    \cup (IF pc[w] = "wake_clear" THEN {tmp[w]} ELSE {})

\* How many queues and wake lists hold t.
Claims(t) ==
  (IF t \in queued THEN 1 ELSE 0) + Cardinality({w \in Wakers : t \in Pending(w)})

(* No early or lost wake-up (the wake loop of transfer_locks() reading    *)
(* wake->next before it clears uaflgs): a sleeper with uaflgs 1 is asleep  *)
(* and held by exactly one queue or one wake list, and a thread with       *)
(* uaflgs 0 is held by none, so no releaser ever clears the uaflgs of a    *)
(* thread that waits in a queue, and no wake list loses a member.           *)
WakeAccounted ==
  \A t \in Sleepers :
    /\ Claims(t) = uaflgs[t]
    /\ uaflgs[t] = 1 => pc[t] \in Asleep

(* Every thread that goes to sleep in wait_for_locks() returns from it    *)
(* (the event is reset before uaflgs is read, so a wake-up between the    *)
(* read and the wait is not lost).                                         *)
WokenUp ==
  \A t \in Sleepers : pc[t] \in Asleep ~> pc[t] = "run"
=============================================================================
