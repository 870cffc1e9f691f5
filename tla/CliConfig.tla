----------------------------- MODULE CliConfig -----------------------------
(***************************************************************************)
(* How kubectl ka finds KubeArchive: the configuration file, which has an  *)
(* entry per cluster, the commands that edit it (config set, unset, remove *)
(* and setup), and CompleteRetriever, which get and logs begin with.       *)
(* Commands run one at a time.  Every edit is tried against the server     *)
(* first, so the outcome of each depends on a network and on a server that *)
(* come and go, and on the user's answers.                                 *)
(***************************************************************************)
EXTENDS Integers, FiniteSets, Sequences

CONSTANTS
    Server,     \* URLs of Kubernetes API servers a kubeconfig may name
    BaseName,   \* BaseName[s]: the name generated for s, without "-alt"s
    Host,       \* URLs of KubeArchive
    Cert,       \* certificate files
    Bearer,     \* bearer tokens
    KubeToken,  \* the token of the kubeconfig, or Unset
    Environment,\* settings of environment and flags (see Setting)
    Discovery,  \* what discovery lists (see ResourceInfo), in its order
    PreferredVersion, \* of each group, Unset when discovery does not tell
    ResourceSpec,     \* resource arguments (see ResolveResourceSpec)
    MaxEdits,   \* bound: commands that edit the file
    MaxAlt,     \* bound: "-alt"s of a name
    Unset

Setting == [host : Host \cup {Unset}, insecure : BOOLEAN,
            cert : Cert \cup {Unset}, token : Bearer \cup {Unset}]
EntryName == {BaseName[s] : s \in Server} \X (0..MaxAlt)
ClusterConfig == [server : Server, host : Host \cup {Unset}, insecure : BOOLEAN,
                  cert : Cert \cup {Unset}, token : Bearer \cup {Unset}]
RetrieverOptions ==
    [host : Host \cup {Unset}, insecure : BOOLEAN, cert : Cert \cup {Unset},
     token : Bearer \cup {Unset}, ca : Cert \cup {Unset}]

(* A resource of a group version, with all the names that match it; what a *)
(* user asks for: resource, resource.group, resource.version[.group]       *)
ResourceInfo == [names : SUBSET STRING, group : STRING, version : STRING]
SpecOf == [name : STRING, version : STRING \cup {Unset},
           group : STRING \cup {Unset}]

ASSUME CliConfigAssumption ==
    /\ Discovery \in Seq(ResourceInfo) /\ ResourceSpec \subseteq SpecOf
    /\ \A i \in DOMAIN Discovery :
         Discovery[i].group \in DOMAIN PreferredVersion
    /\ IsFiniteSet(Server) /\ Environment \subseteq Setting
    /\ KubeToken \in Bearer \cup {Unset}
    /\ Unset \notin ClusterConfig \cup RetrieverOptions \cup STRING
    /\ MaxEdits \in Nat /\ MaxAlt \in Nat /\ MaxAlt >= Cardinality(Server)

VARIABLES
    file,       \* the configuration file: entry name -> ClusterConfig;
                \* only these commands write it, so it can be parsed
    edits,      \* number of commands that edited it
    step,       \* "prompt" or position of CompleteRetriever
    server,     \* the cluster of the kubeconfig the command runs with
    opts,       \* KARetrieverOptions, with ca the certificate data loaded
    tested,     \* history: arguments of the last connectivity test passed
    env,        \* history: what CompleteRetriever tested first
    resolved,   \* <<spec, info>>: what the resource argument stands for
    fellBack,   \* history: the entry the file's settings were taken from
    named       \* history: entries the last edit's user named
configVars == <<file, edits, step, server, opts, tested, env, resolved, fellBack,
               named>>

----------------------------------------------------------------------------
(* The file *)

(* LoadConfig and GetCurrentClusterConfig: an entry of the server, any of  *)
(* them if there are several                                               *)
Current(s) == {n \in DOMAIN file : file[n].server = s}

(* Fault: a name in use is not avoided.                                    *)
GenerateClusterName_InUse(s, f) == <<BaseName[s], 0>>

GenerateClusterName(s, f) ==
    LET k == CHOOSE i \in 0..MaxAlt :
                 /\ <<BaseName[s], i>> \notin DOMAIN f
                 /\ \A j \in 0..(i - 1) : <<BaseName[s], j>> \in DOMAIN f
    IN  <<BaseName[s], k>>

With(f, n, c) == [m \in DOMAIN f \cup {n} |-> IF m = n THEN c ELSE f[m]]
Without(f, n) == [m \in DOMAIN f \ {n} |-> f[m]]

(* What client-go makes of TLS settings: no client has both                *)
Consistent(insecure, ca) == ~(insecure /\ ca # Unset)

(* A command that edits the file starts and ends at the prompt             *)
AtPrompt == step \in {"prompt", "ready", "resolved", "failed"}
Edit(s) ==
    /\ AtPrompt /\ edits < MaxEdits
    /\ edits' = edits + 1 /\ server' = s /\ step' = "prompt"
    /\ opts' = Unset /\ tested' = Unset /\ env' = Unset /\ fellBack' = Unset
    /\ resolved' = Unset

(* Saving writes the whole configuration that was loaded and changed       *)
Save(n, c) == file' = With(file, n, c)

----------------------------------------------------------------------------
(* kubectl ka config *)

(* set host: the host answers on /livez.  A cluster without an entry gets  *)
(* one.                                                                    *)
SetHost(s, h) ==
    /\ Edit(s) /\ named' = {}
    /\ \/ \E n \in Current(s) : Save(n, [file[n] EXCEPT !.host = h])
       \/ /\ Current(s) = {}
          /\ Save(GenerateClusterName(s, file),
                  [server |-> s, host |-> h, insecure |-> FALSE, cert |-> Unset,
                   token |-> Unset])

(* Fault: TLS verification stays off.                                      *)
SetCertificateAuthority_KeepsInsecure(s, c) ==
    /\ Edit(s) /\ named' = {}
    /\ \E n \in Current(s) : Save(n, [file[n] EXCEPT !.cert = c])

(* set ca: the file can be read and the host answers with it               *)
SetCertificateAuthority(s, c) ==
    /\ Edit(s) /\ named' = {}
    /\ \E n \in Current(s) :
         Save(n, [file[n] EXCEPT !.cert = c, !.insecure = FALSE])

(* set insecure: tried together with the certificate of the entry          *)
SetInsecure(s, b) ==
    /\ Edit(s) /\ named' = {}
    /\ \E n \in Current(s) :
         /\ b => Consistent(b, file[n].cert)
         /\ Save(n, [file[n] EXCEPT !.insecure = b])

SetToken(s, t) ==
    /\ Edit(s) /\ named' = {}
    /\ \E n \in Current(s) : Save(n, [file[n] EXCEPT !.token = t])

Unsetting(s) ==
    /\ Edit(s) /\ named' = {}
    /\ \E n \in Current(s) :
         \/ Save(n, [file[n] EXCEPT !.cert = Unset])
         \/ Save(n, [file[n] EXCEPT !.token = Unset])

(* remove: the entry named, or the current one, once the user confirms     *)
RemoveEntry(s) ==
    \E n \in DOMAIN file :
        /\ Edit(s)
        /\ \/ named' = {n}
           \/ n \in Current(s) /\ named' = {}
        /\ file' = Without(file, n)

(* A command that a test, a read or the user's answer ends changes nothing *)
Refuse(s) == Edit(s) /\ named' = {} /\ UNCHANGED file

(* The configurations RunSetup can arrive at: TLS verified as it is, with  *)
(* a certificate or not at all; the kubeconfig's token if KubeArchive      *)
(* takes it, or one made for a service account.                            *)
Discovered(s) ==
    {c \in ClusterConfig :
        /\ c.server = s /\ c.host # Unset
        /\ Consistent(c.insecure, c.cert)}

(* RunSetup: the entry of the cluster is replaced, under the default name  *)
(* or one the user gives                                                   *)
SetUp(s, f) ==
    \E c \in Discovered(s), k \in 0..MaxAlt :
        LET n == <<BaseName[s], k>>
            rest == IF Current(s) = {} THEN f
                    ELSE Without(f, CHOOSE m \in Current(s) : TRUE)
        IN  /\ file' = With(rest, n, c)
            /\ named' = IF n = GenerateClusterName(s, rest) THEN {} ELSE {n}

Setup(s) == Edit(s) /\ SetUp(s, file)

----------------------------------------------------------------------------
(* CompleteRetriever *)

(* The settings a command starts with, its token from the first of: flags  *)
(* and environment, the file, the kubeconfig                               *)
StartToken(s, e) ==
    IF e.token # Unset THEN {e.token}
    ELSE IF \E n \in Current(s) : file[n].token # Unset
         THEN {file[n].token : n \in Current(s)} \ {Unset}
         ELSE {KubeToken}

Begin(s, e) ==
    /\ AtPrompt /\ server' = s
    /\ \E t \in StartToken(s, e) :
         opts' = [host |-> e.host, insecure |-> e.insecure, cert |-> e.cert,
                  token |-> t, ca |-> e.cert]
    /\ env' = opts' /\ tested' = Unset /\ fellBack' = Unset /\ named' = {}
    /\ resolved' = Unset
    /\ step' = "firstTest"
    /\ UNCHANGED <<file, edits>>

(* testConnectivity needs a host, a token and TLS settings a client can be *)
(* made of; then the server decides.                                       *)
Test(passed, failed) ==
    \/ /\ opts.host # Unset /\ opts.token # Unset
       /\ Consistent(opts.insecure, opts.ca)
       /\ tested' = opts /\ step' = passed
    \/ tested' = Unset /\ step' = failed

FirstTest ==
    /\ step = "firstTest" /\ Test("lastTest", "load")
    /\ UNCHANGED <<file, edits, server, opts, env, resolved, fellBack,
                   named>>

(* The settings of an entry replace those of the command.  Certificate     *)
(* data stays as it was when the entry has none, or none that can be read. *)
Taken(n, loaded) ==
    [host |-> file[n].host, insecure |-> file[n].insecure, cert |-> file[n].cert,
     token |-> IF file[n].token # Unset THEN file[n].token ELSE KubeToken,
     ca |-> IF file[n].cert # Unset /\ loaded THEN file[n].cert ELSE opts.ca]

LoadPersistentConfig(next, failed) ==
    \/ \E n \in Current(server), loaded \in BOOLEAN :
         /\ loaded \/ file[n].cert # Unset
         /\ opts' = Taken(n, loaded) /\ fellBack' = file[n]
         /\ step' = IF loaded THEN next ELSE failed
    \/ Current(server) = {} /\ UNCHANGED <<opts, fellBack>> /\ step' = failed

(* A failure to load is only printed                                       *)
Load ==
    /\ step = "load" /\ LoadPersistentConfig("secondTest", "secondTest")
    /\ UNCHANGED <<file, edits, server, tested, env, resolved, named>>

SecondTest ==
    /\ step = "secondTest" /\ Test("lastTest", "setup")
    /\ UNCHANGED <<file, edits, server, opts, env, resolved, fellBack,
                   named>>

(* The user declines, or goes through the setup                            *)
OfferSetup ==
    /\ step = "setup"
    /\ \/ step' = "failed" /\ UNCHANGED <<file, edits, named>>
       \/ /\ edits < MaxEdits /\ edits' = edits + 1
          /\ SetUp(server, file) /\ step' = "reload"
    /\ UNCHANGED <<server, opts, tested, env, resolved, fellBack>>

Reload ==
    /\ step = "reload" /\ LoadPersistentConfig("lastTest", "failed")
    /\ UNCHANGED <<file, edits, server, tested, env, resolved, named>>

(* Fault: what passed a test once is not tested again.                     *)
LastTest_Skipped ==
    /\ step = "lastTest" /\ step' = "ready"
    /\ UNCHANGED <<file, edits, server, opts, tested, env, resolved,
                   fellBack, named>>

LastTest ==
    /\ step = "lastTest" /\ Test("ready", "failed")
    /\ UNCHANGED <<file, edits, server, opts, env, resolved, fellBack,
                   named>>

(* setK9eRESTConfig: what requests are sent with                           *)
K9eRESTConfig ==
    [host |-> opts.host, token |-> opts.token, ca |-> opts.ca,
     insecure |-> opts.insecure /\ opts.ca = Unset]

(* findResourceInfo: the places in discovery of what the argument may mean *)
Candidates(spec) ==
    {i \in DOMAIN Discovery :
        /\ spec.name \in Discovery[i].names
        /\ spec.group # Unset => Discovery[i].group = spec.group
        /\ spec.version # Unset => Discovery[i].version = spec.version}

First(places) == Discovery[CHOOSE i \in places : \A j \in places : i <= j]

(* Fault: the first version of a group is taken.                           *)
PickInGroup_First(cs, g) == {First({i \in cs : Discovery[i].group = g})}

(* What selectPreferredResource takes of group g, if anything              *)
PickInGroup(cs, g) ==
    LET own == {i \in cs : Discovery[i].group = g}
        preferred == {i \in own : Discovery[i].version = PreferredVersion[g]}
    IN  IF Cardinality(own) = 1 \/ PreferredVersion[g] = Unset THEN {First(own)}
        ELSE IF preferred # {} THEN {First(preferred)} ELSE {}

(* It ranges over a map of groups, so any that has something may be first  *)
SelectPreferredResource(cs) ==
    LET picks == UNION {PickInGroup(cs, Discovery[i].group) : i \in cs}
    IN  IF picks = {} THEN {First(cs)} ELSE picks

ResolveResourceSpec(spec) ==
    /\ step = "ready" /\ Candidates(spec) # {}
    /\ \E info \in SelectPreferredResource(Candidates(spec)) :
         resolved' = <<spec, info>>
    /\ step' = "resolved"
    /\ opts' = Unset /\ tested' = Unset /\ env' = Unset /\ fellBack' = Unset
    /\ UNCHANGED <<file, edits, server, named>>

CompleteRetriever ==
    FirstTest \/ Load \/ SecondTest \/ OfferSetup \/ Reload \/ LastTest

----------------------------------------------------------------------------

ConfigInit ==
    /\ file = [n \in {} |-> Unset] /\ edits = 0 /\ step = "prompt"
    /\ server = Unset /\ opts = Unset /\ tested = Unset
    /\ env = Unset /\ fellBack = Unset /\ named = {} /\ resolved = Unset

ConfigNext ==
    \/ \E s \in Server :
         \/ \E h \in Host : SetHost(s, h)
         \/ \E c \in Cert : SetCertificateAuthority(s, c)
         \/ \E b \in BOOLEAN : SetInsecure(s, b)
         \/ \E t \in Bearer : SetToken(s, t)
         \/ Unsetting(s) \/ RemoveEntry(s) \/ Setup(s) \/ Refuse(s)
         \/ \E e \in Environment : Begin(s, e)
    \/ CompleteRetriever
    \/ \E spec \in ResourceSpec : ResolveResourceSpec(spec)

ConfigSpec == ConfigInit /\ [][ConfigNext]_configVars

----------------------------------------------------------------------------
(* Correctness *)

(* The file stays usable whatever commands made it: no two entries are for *)
(* the same cluster, so that what is loaded does not depend on the order   *)
(* of a map, and none has a certificate and turns verification off, which  *)
(* no client could be made of.                                             *)
FileIsUsable ==
    /\ DOMAIN file \subseteq EntryName
    /\ \A n \in DOMAIN file :
         /\ file[n] \in ClusterConfig
         /\ Consistent(file[n].insecure, file[n].cert)
    /\ \A n, m \in DOMAIN file : file[n].server = file[m].server => n = m

(* A command changes the entry of another cluster only if the user named   *)
(* that entry.                                                             *)
OthersUntouched ==
    [][\A n \in DOMAIN file :
         file[n].server # server' /\ n \notin named'
            => n \in DOMAIN file' /\ file'[n] = file[n]]_configVars

(* Requests go out with exactly the settings of a test that passed, and    *)
(* settings are not mixed: those used are the command's own, which passed  *)
(* the first test, or host, verification and token are one entry's of the  *)
(* file.  Only certificate data may be left from settings that were tried  *)
(* before, when the entry has no certificate.                              *)
ReadyWasTested ==
    step = "ready" =>
        /\ tested # Unset
        /\ K9eRESTConfig = [host |-> tested.host, token |-> tested.token,
                            ca |-> tested.ca, insecure |-> tested.insecure]
        /\ \/ fellBack = Unset /\ opts = env
           \/ /\ fellBack # Unset
              /\ opts.host = fellBack.host /\ opts.insecure = fellBack.insecure
              /\ opts.token \in {fellBack.token, KubeToken} \ {Unset}

(* A resource argument stands for a resource of that name, of the group    *)
(* and version it asks for; when it leaves the version open, for the       *)
(* group's preferred version wherever that one has the resource.           *)
ResolvedAsAsked ==
    step = "resolved" =>
        LET spec == resolved[1]
            info == resolved[2]
        IN  /\ spec.name \in info.names
            /\ spec.group \in {Unset, info.group}
            /\ spec.version \in {Unset, info.version}
            /\ spec.version = Unset /\ info.version # PreferredVersion[info.group]
                 => \A i \in DOMAIN Discovery :
                      ~ /\ spec.name \in Discovery[i].names
                        /\ Discovery[i].group = info.group
                        /\ Discovery[i].version = PreferredVersion[info.group]
=============================================================================
