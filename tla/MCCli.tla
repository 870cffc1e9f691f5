------------------------------- MODULE MCCli -------------------------------
(* A small instance of the command line: its settings (CliConfig) and the  *)
(* command get (Get).  Once connected, get uses the settings for nothing   *)
(* but sending its requests, so a behaviour is about either one.           *)
EXTENDS Get, CliConfig

CONSTANTS a, b, c

MCObject == {a, b, c}

\* b and c had the same name, one after the other.
MCNameOf == [o \in MCObject |-> IF o = a THEN 2 ELSE 1]

\* Times distinct; a and b of one second; b and c not told apart.
MCAges ==
    {[o \in MCObject |-> IF o = a THEN 3 ELSE IF o = b THEN 1 ELSE 4],
     [o \in MCObject |-> IF o = c THEN 1 ELSE 3],
     [o \in MCObject |-> IF o = a THEN 1 ELSE 3]}

Plain == [name |-> None, selector |-> FALSE, inCluster |-> "default",
          archived |-> "default", limit |-> 2, after |-> None, before |-> None]

\* Lists with and without bounds, the sources chosen by flags, one object by
\* its name, and a refused command line.
MCOptions ==
    {Plain, [Plain EXCEPT !.limit = 1],
     [Plain EXCEPT !.after = 2],
     [Plain EXCEPT !.archived = "true", !.limit = 1],
     [Plain EXCEPT !.inCluster = "true", !.archived = "true"],
     [Plain EXCEPT !.inCluster = "true"],
     [Plain EXCEPT !.name = 1],
     [Plain EXCEPT !.limit = 0]}

\* Two clusters whose URLs differ in the port only.
MCServer == {"k1:6443", "k1:7443"}
MCBaseName == [s \in MCServer |-> "k1"]

\* Nothing set; a host; a host with a certificate and a token.
MCEnvironment ==
    {[host |-> Unset, insecure |-> FALSE, cert |-> Unset, token |-> Unset],
     [host |-> "h1", insecure |-> TRUE, cert |-> Unset, token |-> Unset],
     [host |-> "h1", insecure |-> FALSE, cert |-> "c1", token |-> "t1"]}

\* A resource two groups have, one of them in two versions and another in
\* a version that is not preferred.
MCDiscovery ==
    <<[names |-> {"runs", "run"}, group |-> "g1", version |-> "v1beta1"],
      [names |-> {"runs", "run"}, group |-> "g1", version |-> "v1"],
      [names |-> {"runs"}, group |-> "g2", version |-> "v1beta1"],
      [names |-> {"jobs"}, group |-> "g2", version |-> "v1alpha1"],
      [names |-> {"jobs"}, group |-> "g2", version |-> "v1beta1"]>>
MCPreferredVersion == [g \in {"g1", "g2"} |-> "v1"]
MCResourceSpec ==
    {[name |-> "runs", version |-> Unset, group |-> Unset],
     [name |-> "run", version |-> "v1beta1", group |-> Unset],
     [name |-> "runs", version |-> Unset, group |-> "g2"],
     [name |-> "jobs", version |-> Unset, group |-> Unset]}

MCInit == Init /\ ConfigInit

\* The one state of Get beside which the settings are explored.
AtRest ==
    /\ pc = "shell" /\ lost = {} /\ cluster = {a} /\ archive = <<b, c>>
    /\ created = CHOOSE f \in Ages : TRUE

MCNext ==
    \/ AtRest /\ ConfigNext /\ UNCHANGED vars
    \/ server = Unset /\ Next /\ UNCHANGED configVars

MCSpec == MCInit /\ [][MCNext]_<<vars, configVars>>
=============================================================================
