---------------------------- MODULE BoundedQueue ----------------------------
(***************************************************************************)
(* BoundedQueue<T>: a ring of capacity_ cells with two indexes and a flag  *)
(* that tells an empty ring from a full one, since head_ = tail_ in both.  *)
(* The operators take the ring and return it; who calls them, and when, is *)
(* the business of TaskQueue.                                              *)
(***************************************************************************)
EXTENDS Naturals, Sequences

CONSTANTS
  Capacity,     \* capacity_
  Values,       \* what T ranges over
  Garbage       \* what a cell of new T[capacity_] holds before the first push

\* A capacity of 0 (the flag task_queue_length) would divide by zero in push.
ASSUME CapacityAssumption == Capacity \in Nat \ {0}

\* The constructor.
EmptyRing ==
  [data |-> [i \in 0 .. Capacity - 1 |-> Garbage],
   head |-> 0, tail |-> 0, isEmpty |-> TRUE]

Rings == [data : [0 .. Capacity - 1 -> Values \cup {Garbage}],
          head : 0 .. Capacity - 1, tail : 0 .. Capacity - 1, isEmpty : BOOLEAN]

\* empty, full and front
Empty(r) == r.isEmpty
Full(r) == r.tail = r.head /\ ~r.isEmpty
Front(r) == r.data[r.head]

\* Mutant of Push: full() is not asked.
BugPushOverwrites(r, v) ==
  [r EXCEPT !.data[r.tail] = v,
            !.tail = (@ + 1) % Capacity,
            !.isEmpty = FALSE]

\* push: a full ring stays as it is, and the caller is told (Full).
Push(r, v) ==
  IF Full(r) THEN r
  ELSE [r EXCEPT !.data[r.tail] = v,
                 !.tail = (@ + 1) % Capacity,
                 !.isEmpty = FALSE]

\* Mutant of Pop: the index is not taken modulo capacity_.
BugPopWithoutWrap(r) ==
  [r EXCEPT !.head = @ + 1, !.isEmpty = @ \/ r.tail = r.head + 1]

\* pop, without a test for an empty ring.
Pop(r) ==
  LET next == (r.head + 1) % Capacity
  IN  [r EXCEPT !.head = next, !.isEmpty = @ \/ r.tail = next]

\* What the ring holds, oldest first.
Count(r) ==
  IF r.isEmpty THEN 0
  ELSE IF r.tail > r.head THEN r.tail - r.head ELSE Capacity + r.tail - r.head

Items(r) == [i \in 1 .. Count(r) |-> r.data[(r.head + i - 1) % Capacity]]

=============================================================================
