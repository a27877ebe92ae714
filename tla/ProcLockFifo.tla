---------------------------- MODULE ProcLockFifo ----------------------------
(***************************************************************************)
(* What the process locks promise, without lock words, pix locks, spinning *)
(* or sleep events: every lock of every process has one owner or none, and *)
(* a FIFO queue of threads waiting for it.  A thread takes free locks and   *)
(* may join the queue of one taken lock; it releases a lock to nobody only  *)
(* when nobody waits for it; otherwise the lock goes straight to the first  *)
(* waiter, which may at once take more free locks and queue for another.   *)
(* No lock is ever free while threads wait for it, and waiters are served  *)
(* in the order they queued.                                               *)
(***************************************************************************)
EXTENDS Sequences, SequencesExt

CONSTANTS Threads, Procs, Facets, Creator, NoThread

VARIABLES owner, waitq
vars == <<owner, waitq>>

Queued(t) == \E p \in Procs, b \in Facets : t \in ToSet(waitq[p][b])

\* Under the ownership own and queues q, the locks G of p are free.
Free(own, q, p, G) == \A b \in G : own[p][b] = NoThread /\ q[p][b] = <<>>

\* No queue, or the queue of one lock.
Places == {{}} \cup {{b} : b \in Facets}

\* From own and q, t takes free locks of p and may join the queue of one
\* lock that someone else owns.  The locks taken (G) and the queue joined
\* (E) are those the step changes.
TakeAndQueue(t, p, own, q) ==
  LET G == {b \in Facets : owner'[p][b] = t /\ own[p][b] # t}
      E == {b \in Facets : waitq'[p][b] # q[p][b]}
  IN  /\ Free(own, q, p, G)
      /\ E \in Places
      /\ \A e \in E : own[p][e] \notin {NoThread, t} /\ e \notin G
      /\ owner' = [own EXCEPT ![p] = [b \in Facets |-> IF b \in G THEN t ELSE @[b]]]
      /\ waitq' = [q EXCEPT ![p] = [b \in Facets |-> IF b \in E THEN Append(@[b], t) ELSE @[b]]]

Init ==
  /\ owner = [p \in Procs |-> [b \in Facets |-> Creator]]
  /\ waitq = [p \in Procs |-> [b \in Facets |-> <<>>]]

\* A thread that is not waiting takes free locks and maybe queues.
Take(t, p) ==
  /\ ~Queued(t)
  /\ TakeAndQueue(t, p, owner, waitq)

\* Locks of t that nobody waits for go back to nobody (S: those the step
\* frees).
Release(t, p) ==
  LET S == {b \in Facets : owner[p][b] = t /\ owner'[p][b] = NoThread}
  IN  /\ S # {}
      /\ \A b \in S : waitq[p][b] = <<>>
      /\ owner' = [owner EXCEPT ![p] = [b \in Facets |-> IF b \in S THEN NoThread ELSE @[b]]]
      /\ UNCHANGED waitq

\* A waited-for lock goes to the first waiter, which may take more.
Handover(t, p, b) ==
  /\ owner[p][b] = t
  /\ waitq[p][b] # <<>>
  /\ LET w == Head(waitq[p][b])
     IN TakeAndQueue(w, p, [owner EXCEPT ![p][b] = w],
                     [waitq EXCEPT ![p][b] = Tail(@)])

Next ==
  \E t \in Threads, p \in Procs :
    \/ Take(t, p)
    \/ Release(t, p)
    \/ \E b \in Facets : Handover(t, p, b)

Spec == Init /\ [][Next]_vars
=============================================================================
