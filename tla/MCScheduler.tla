---------------------------- MODULE MCScheduler ----------------------------
(* Instances of Scheduler for TLC. *)
EXTENDS Scheduler, TLC

\* Workers and coroutines are interchangeable in every safety property.
Symmetry == Permutations(Workers) \cup Permutations(Coros)

=============================================================================
