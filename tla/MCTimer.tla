------------------------------- MODULE MCTimer -------------------------------
(* Instances of Timer for TLC. *)
EXTENDS Timer, TLC

Tv(s, u) == [sec |-> s, usec |-> u]

\* Below a second, from nothing on.
ShortDurations == {Tv(0, 0), Tv(0, 500000)}

\* A full second.
LongDurations == {Tv(1, 0)}

\* Within the clock's range and beyond it.
LaterPoints == {Tv(1, 0), Tv(2, 500000)}

Symmetry == Permutations(Timers)

=============================================================================
