----------------------------- MODULE ThreadList -----------------------------
(***************************************************************************)
(* The linked lists behind the run queue (kernel/proc/sched.c) and the     *)
(* wait queues (kernel/proc/waitqueue.c).  All of them are threaded        *)
(* through the one field Thread.next, so a thread linked twice corrupts    *)
(* both lists.  s is the record of next, of the run queue's [head, tail]   *)
(* and of each wait queue's.                                               *)
(***************************************************************************)
EXTENDS Naturals, Sequences, FiniteSets, Functions

CONSTANTS Thread, WaitQueue, NULL

Empty == [head |-> NULL, tail |-> NULL]
NoLists ==
    [next |-> [t \in Thread |-> NULL], run |-> Empty, wq |-> [q \in WaitQueue |-> Empty]]

\* One pointer further.
Walk(next, c) == IF c[Len(c)] = NULL THEN c ELSE Append(c, next[c[Len(c)]])

\* The threads reached from h through the next pointers; more than there are
\* threads when the list has become a ring.
Chain(next, h) ==
    LET F[k \in 0 .. Cardinality(Thread)] == IF k = 0 THEN <<h>> ELSE Walk(next, F[k - 1])
        Cut(c) == IF c[Len(c)] = NULL THEN SubSeq(c, 1, Len(c) - 1) ELSE c
    IN Cut(F[Cardinality(Thread)])

-----------------------------------------------------------------------------
(* queue_push, and the same code in wq_sleep: link t at the tail of l.     *)

link(n, l, t) ==
    IF l.tail # NULL
    THEN [next |-> [n EXCEPT ![t] = NULL, ![l.tail] = t], list |-> [l EXCEPT !.tail = t]]
    ELSE [next |-> [n EXCEPT ![t] = NULL], list |-> [head |-> t, tail |-> t]]

(* queue_pop, and the same code in wq_wake: unlink the head of l.          *)

unlink(n, l) ==
    [next |-> [n EXCEPT ![l.head] = NULL],
     list |-> [head |-> n[l.head], tail |-> IF n[l.head] = NULL THEN NULL ELSE l.tail]]

InRun(s, r) == [s EXCEPT !.next = r.next, !.run = r.list]
InWait(s, q, r) == [s EXCEPT !.next = r.next, !.wq[q] = r.list]

queue_push(s, t) == InRun(s, link(s.next, s.run, t))
queue_pop(s) == IF s.run.head = NULL THEN s ELSE InRun(s, unlink(s.next, s.run))

\* sched_remove_thread: prev is the thread before t in the run queue.
sched_remove_thread(s, t) ==
    LET At(c, i) ==
            IF i = 1 THEN [s EXCEPT !.next[t] = NULL, !.run.head = s.next[t],
                                    !.run.tail = IF t = @ THEN NULL ELSE @]
            ELSE [s EXCEPT !.next = [@ EXCEPT ![c[i - 1]] = s.next[t], ![t] = NULL],
                           !.run.tail = IF t = @ THEN c[i - 1] ELSE @]
        In(c) == IF t \in Range(c) THEN At(c, CHOOSE i \in DOMAIN c : c[i] = t) ELSE s
    IN In(Chain(s.next, s.run.head))

wq_sleep(s, q, t) == InWait(s, q, link(s.next, s.wq[q], t))

\* The woken thread goes to the run queue.
wq_wake(s, q) ==
    IF s.wq[q].head = NULL THEN s
    ELSE queue_push(InWait(s, q, unlink(s.next, s.wq[q])), s.wq[q].head)

\* Mutant: the next waiter is read after sched_add_thread has cleared it.
drain_read_late(d) ==
    LET Out(r) == [next |-> r.next, list |-> r.list, h |-> r.next[d.h]]
    IN IF d.h = NULL THEN d ELSE Out(link([d.next EXCEPT ![d.h] = NULL], d.list, d.h))

\* One turn of the loop of wq_wake_all, with d.h at hand: the next waiter is
\* read, then the thread is pushed on the run queue.
drain(d) ==
    LET Out(r) == [next |-> r.next, list |-> r.list, h |-> d.next[d.h]]
    IN IF d.h = NULL THEN d ELSE Out(link([d.next EXCEPT ![d.h] = NULL], d.list, d.h))

wq_wake_all(s, q) ==
    LET F[k \in 0 .. Cardinality(Thread)] ==
            IF k = 0 THEN [next |-> s.next, list |-> s.run, h |-> s.wq[q].head] ELSE drain(F[k - 1])
    IN InRun([s EXCEPT !.wq[q] = Empty], F[Cardinality(Thread)])
=============================================================================
