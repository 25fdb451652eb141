----------------------------- MODULE MCReadUntil -----------------------------
(* Instances of ReadUntil for TLC. *)
EXTENDS ReadUntil

CONSTANTS a, b

\* The empty delimiter, one byte, and delimiters that overlap themselves.
SomeDelims == {<<>>, <<a>>, <<a, b>>, <<a, a, b>>, <<a, b, a>>, <<b, b, b>>}

=============================================================================
