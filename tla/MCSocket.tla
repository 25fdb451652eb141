------------------------------ MODULE MCSocket ------------------------------
(* An instance of Socket for TLC. *)
EXTENDS Socket, TLC

CONSTANT h1

\* A dotted address, one with colons, and a text that is no address.
SomeTexts ==
  {[dot |-> TRUE, colon |-> FALSE, is |-> "Ipv4", host |-> h1],
   [dot |-> FALSE, colon |-> TRUE, is |-> "Ipv6", host |-> h1],
   [dot |-> TRUE, colon |-> TRUE, is |-> "Ipv6", host |-> h1]}

\* Descriptors are interchangeable.
FdSymmetry == Permutations(Fds)

=============================================================================
