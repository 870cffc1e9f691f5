--------------------------- MODULE MCVacuumRules ---------------------------
(***************************************************************************)
(* Two namespaces besides KubeArchive's, two kinds, one of them in a group *)
(* with a hyphen.  The text "bad" does not compile.  Every check of the    *)
(* webhooks has inputs that pass and inputs that only it refuses.          *)
(***************************************************************************)
EXTENDS VacuumRules

\* Written once with two blanks inside, once with one in front.
Spaced == {"x  && y", " x && y"}

MCText == {"", "x && y", "z", "bad"} \cup Spaced
MCNormal == [t \in MCText |-> IF t \in Spaced THEN "x && y" ELSE t]
MCTrimmed == [t \in MCText |-> IF t = " x && y" THEN "x && y" ELSE t]
MCSound == {"x && y", "z"} \cup Spaced

Rule(name, when, count) == [name |-> name, when |-> when, count |-> count]
Cluster(k, when, rules) == [kind |-> k, when |-> when, rules |-> rules]
Local(k, when, keep, override) ==
    [kind |-> k, when |-> when, keep |-> keep, override |-> override]

MCCkacs ==
    {<<Cluster("job", "", <<Rule("r", "x && y", 2)>>)>>,
     <<Cluster("job", "", <<Rule("r", "x  && y", 1)>>)>>,
     <<Cluster("job", "z", <<Rule("r", "z", 2), Rule("s", "x && y", 1)>>),
       Cluster("app", "z", <<>>)>>,
     <<Cluster("job", "", <<Rule("r", "x && y", 2)>>),
       Cluster("job", "", <<Rule("s", "z", 1)>>)>>,
     (* refused *)
     <<Cluster("job", "bad", <<>>)>>,
     <<Cluster("job", "", <<Rule("r", "bad", 1)>>)>>,
     <<Cluster("job", "", <<Rule("r", "", 1)>>)>>,
     <<Cluster("job", "", <<Rule("", "x && y", 1)>>)>>,
     <<Cluster("job", "", <<Rule("r", "x && y", 1), Rule("r", "z", 1)>>)>>,
     <<Cluster("job", "", <<Rule("r", "x && y", 1),
                            Rule("s", "x  && y", 1)>>)>>,
     <<Cluster("job", "", <<Rule("r", "x && y", -1)>>)>>}

MCKacs ==
    {<<Local("job", "z", <<>>, <<>>), Local("app", "z", <<>>, <<>>)>>,
     <<Local("job", "", <<Rule("", " x && y", 1)>>, <<>>)>>,
     <<Local("job", "", <<Rule("", "z", 1)>>, <<Rule("r", "", 1)>>)>>,
     <<Local("job", "", <<>>, <<Rule("r", "", 2), Rule("r", "", 1)>>)>>,
     <<Local("job", "", <<>>, <<Rule("r", "", 2)>>)>>,
     <<Local("job", "", <<Rule("", "x  && y", 2)>>, <<>>)>>,
     <<Local("job", "", <<>>, <<Rule("s", "", 0)>>)>>,
     (* refused *)
     <<Local("job", "bad", <<>>, <<>>)>>,
     <<Local("job", "", <<Rule("", "x && y", 1), Rule("", "x  && y", 1)>>,
             <<>>)>>,
     <<Local("job", "", <<Rule("", "x && y", -1)>>, <<>>)>>,
     <<Local("job", "", <<>>, <<Rule("", "", 0)>>)>>,
     <<Local("job", "", <<>>, <<Rule("r", "", -1)>>)>>}

MCCvcs ==
    {<<>>, [n \in {"n1"} |-> {}], [n \in {"n1"} |-> {"job"}],
     [n \in {"n1", "___all"} |-> IF n = "n1" THEN {"job"} ELSE {}],
     [n \in {"___all"} |-> {"app"}]}
=============================================================================
