------------------------- MODULE MCSinkFilterWatch -------------------------
(* Small instances of SinkFilterWatch. *)
EXTENDS SinkFilterWatch, TLC

\* Workers are interchangeable.
Symmetry == Permutations(Worker)

\* One filter.
MCOneFilter == {[deleteWhen |-> {}, archiveWhen |-> Obj, archiveOnDelete |-> Obj]}
=============================================================================
