------------------------------ MODULE MCReactor ------------------------------
(* Instances of Reactor for TLC. *)
EXTENDS Reactor, TLC

CONSTANTS o1, o2, o3, f1, f2, c1, c2

OfEach(first, second, third) ==
  [o \in Ops |-> IF o = o1 THEN first ELSE IF o = o2 THEN second ELSE third]

\* One coroutine connects, writes and reads on one descriptor, in any order.
OneFd == OfEach(f1, f1, f1)
OneCoro == OfEach(c1, c1, c1)
ClientKinds == OfEach("connect", "write", "read")

\* Two coroutines on two descriptors.
OwnFds == OfEach(f1, f2, f1)
TwoCoros == OfEach(c1, c2, c1)
ServerKinds == OfEach("accept", "read_until", "read")

\* Bytes for the transfers among them.
ClientBytes == OfEach(0, 1, 2)
ServerBytes == OfEach(0, 2, 0)

=============================================================================
