---------------------------- MODULE MCApiAuth ----------------------------
EXTENDS ApiAuth, TLC

CONSTANTS h1, h2

MCHandler == {h1, h2}
Handlers == Permutations(MCHandler)
MCUser == {"ann", "bot"}
MCOwnerOf == [t \in {"t"} |->
    [name |-> "ann", groups |-> {"dev"}, uid |-> "u1", extra |-> {}]]
MCNamespaceOf == [u \in MCUser |-> IF u = "bot" THEN "ns" ELSE None]

(* "pods" is a resource of v1 only: the other group version has none.      *)
MCKindOf == [x \in {"v1", "apps/v1"} \X {"pods"} |->
                IF x[1] = "v1" THEN "Pod" ELSE None]

Plain == [token |-> "t", user |-> None, groups |-> <<>>, uid |-> None,
          extras |-> {}, gv |-> "v1", resource |-> "pods", name |-> None,
          log |-> FALSE]

(* A list; the log of a pod for a service account with the groups of its   *)
(* namespace; the same object for a user with an extra; a group version    *)
(* without pods; two malformed requests.                                   *)
MCRequest ==
    {Plain,
     [Plain EXCEPT !.user = "bot", !.uid = "u1", !.name = "p", !.log = TRUE],
     [Plain EXCEPT !.user = "ann", !.groups = <<"dev">>, !.extras = {"x"}],
     [Plain EXCEPT !.gv = "apps/v1"],
     [Plain EXCEPT !.token = None],
     [Plain EXCEPT !.extras = {"x"}]}
==========================================================================
