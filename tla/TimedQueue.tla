----------------------------- MODULE TimedQueue -----------------------------
(***************************************************************************)
(* control/timed_queue.py: payloads held until their moment on the O2      *)
(* clock.  A queue is the sequence of its items in release order.  An item *)
(* keeps `left`, how long it still has to wait, instead of its time: the   *)
(* code clamps a time already past to "now", so `left` stops at zero.      *)
(***************************************************************************)
EXTENDS Naturals, Sequences, FiniteSets

\* How many payloads of a queue are due by time t: the queue is in release
\* order, so they are its first ones.
DueBy(q, t) == Cardinality({i \in DOMAIN q : q[i].left <= t})

\* TimedQueue.push, of several payloads for one moment one after the other: they go
\* behind all that wait no longer, as equal times keep the order of insertion (the
\* sequence number).
PushAll(q, left, loads) ==
    SubSeq(q, 1, DueBy(q, left))
        \o [i \in DOMAIN loads |-> [left |-> left, load |-> loads[i]]]
        \o SubSeq(q, DueBy(q, left) + 1, Len(q))

\* One payload.  The one-element set has TLC evaluate a queue built of many pushes
\* once and not at each of its uses.
Push(q, left, load) == CHOOSE longer \in {PushAll(s, left, <<load>>) : s \in {q}} : TRUE

\* TimedQueue.due: every payload whose time has come, in time order ...
Due(q) == [i \in 1 .. DueBy(q, 0) |-> q[i].load]

\* ... and what stays queued.
Rest(q) == SubSeq(q, DueBy(q, 0) + 1, Len(q))

\* TimedQueue.purge, of the payloads its predicate is true of: the others stay, in
\* the order they had.
Purge(q, dropped) ==
    LET kept == {i \in DOMAIN q : q[i].load \notin dropped}
        place(i) == Cardinality({j \in kept : j <= i})
    IN  [n \in 1 .. Cardinality(kept) |-> q[CHOOSE i \in kept : place(i) = n]]

\* TimedQueue.next_due; the caller has looked that there is one.
NextDue(q) == Head(q).left

\* One unit of time passes.
Elapse(q) == [i \in DOMAIN q |->
                 [q[i] EXCEPT !.left = IF @ = 0 THEN 0 ELSE @ - 1]]

=============================================================================
