--------------------------- MODULE MCLogRetrieval ---------------------------
(***************************************************************************)
(* A small instance of LogRetrieval.  Either the lookup varies, with a log  *)
(* that stays empty, or the configuration and the backend, with one Pod.    *)
(***************************************************************************)
EXTENDS LogRetrieval

MCShape == {<<TRUE>>, <<TRUE, TRUE>>, <<FALSE, TRUE>>}

Plain == [provider |-> "direct", query |-> TRUE, tail |-> -1,
          endpoints |-> {"full", "tail"}, reverse |-> FALSE, paged |-> FALSE,
          increment |-> 0, cursors |-> TRUE, inclusive |-> TRUE, perLine |-> 1]

MCConfig ==
    {[Plain EXCEPT !.provider = p, !.query = q, !.tail = t, !.endpoints = e] :
        p \in {"direct", "base", "unknown", "nohost"}, q \in BOOLEAN,
        t \in {-1, 2}, e \in {{"full", "tail"}, {"full"}}}
    \cup {[Plain EXCEPT !.tail = t, !.reverse = r, !.perLine = n] :
            t \in {-1, 0, 1, 2, 3}, r \in BOOLEAN, n \in {1, 2}}
    \cup {[Plain EXCEPT !.paged = TRUE, !.increment = i, !.cursors = c,
                        !.inclusive = b] :
            i \in {0, 1}, c \in BOOLEAN, b \in BOOLEAN}

OnePod == /\ created = [u \in Uid |-> 1] /\ owners = [u \in Uid |-> {}]
          /\ target = [uids |-> {3}, container |-> None] /\ archived = {3}
          /\ preferred = [p \in Pod |-> CHOOSE c \in Container : TRUE]
          /\ urls = [p \in Pod |-> IF p = 3 THEN Container ELSE {}]

Owners == /\ conf = Plain
          /\ target \in [uids : {{1}, {2}, {1, 2}, {3}, {3, 4}}, container : {None}]
          /\ preferred \in {[p \in Pod |-> c] : c \in Container \cup {None}}
          /\ target.uids = {3} \/ preferred[3] # None
          /\ created \in {[u \in Uid |-> IF u \in S THEN 2 ELSE 1] : S \in SUBSET Pod}
          /\ \E a \in {{}, {1}}, b \in {{}, {1}, {2}}, c \in {{1}, {2}} :
                owners = [u \in Uid |-> CASE u = 1 -> {} [] u = 2 -> a
                                          [] u = 3 -> b [] u = 4 -> c]
          /\ archived \in {S \in SUBSET Uid : Cardinality(S) > 1}
          /\ urls = [p \in Pod |-> IF p \in archived THEN Container ELSE {}]

MCInit == (OnePod \/ Owners) /\ Init

\* Where the lookup varies the log stays empty; where the backend varies the
\* Pod is not written again.  Entries differ in what the case is about.
MCNext ==
    /\ Next
    /\ OnePod => commits' = commits
    /\ log' # log => LET e == log'[Len(log')]
                     IN /\ OnePod /\ step \in {"idle", "end"}
                        /\ IF conf.paged THEN e.shape = <<TRUE>> ELSE e.at = 9

MCSpec == MCInit /\ [][MCNext]_vars /\ WF_vars(LookupSteps /\ UNCHANGED retrieval)
          /\ WF_vars(Handler)
=============================================================================
