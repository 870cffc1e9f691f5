------------------------- MODULE MCConfigReconcile -------------------------
(* Small instances of ConfigReconcile. *)
EXTENDS ConfigReconcile, TLC

\* Namespaces are interchangeable.
Symmetry == Permutations(Ns)

MCNoChildren == <<>>
MCRoles == <<"sinkRole", "vacuumAccount", "vacuumRole", "vacuumBinding">>
=============================================================================
