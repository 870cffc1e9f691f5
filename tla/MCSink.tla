------------------------------- MODULE MCSink -------------------------------
(* Small instances of Sink. *)
EXTENDS Sink, TLC

\* Requests are interchangeable, and so are UIDs: neither is ever ordered.
Symmetry == Permutations(Request) \cup Permutations(Uid)
=============================================================================
