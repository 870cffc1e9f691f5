---------------------------- MODULE VacuumRules ----------------------------
(***************************************************************************)
(* How keepLastWhen rules reach a vacuum.  Administrators edit the         *)
(* ClusterKubeArchiveConfig (CKAC), users the KubeArchiveConfigs (KACs) of *)
(* their namespaces and the vacuum configurations; the admission webhooks  *)
(* refuse what contradicts the other configurations as they are at that    *)
(* moment, and nothing is checked again when those change.  The operator   *)
(* copies both into the SinkFilter, some time later, and a vacuum          *)
(* unifies what it reads there: clusterVacuum and namespaceVacuum, the     *)
(* functions of pkg/filters, SendByNamespace and unifyRules.  What a pass  *)
(* does with the rules is the module Vacuum.                               *)
(***************************************************************************)
EXTENDS Integers, Sequences, FiniteSets, Functions

CONSTANTS
    Ns,          \* namespaces, among them the one KubeArchive runs in
    Home,        \* constants.KubeArchiveNamespace
    Kind,        \* selectors: kinds with their API versions
    Hyphened,    \* those with a hyphen, other than the separator, in the key
    Text,        \* texts of CEL expressions
    Empty,       \* the text that is empty after normalizeString
    Normal,      \* Normal[t]: normalizeString(t)
    Trimmed,     \* Trimmed[t]: strings.TrimSpace(t)
    Sound,       \* texts that compile and whose durations can be parsed
    NoName,      \* the empty name of a rule
    AllNs,       \* the key ___all-namespaces___
    None,        \* an object that does not exist, an entry that is missing
    Ckacs,       \* lists of resources administrators give the CKAC
    Kacs,        \* lists of resources users give a KAC
    Cvcs,        \* namespaces of ClusterVacuumConfigs, with their kinds
    MaxEdits,    \* bound: changes of the CKAC and the KACs
    MaxVacuums   \* bound: changes of vacuum configurations

\* The rules of the configurations: ClusterKeepLastRule; KeepLastKeepRule,
\* whose name is empty; and KeepLastOverrideRule, whose text is.
KeepLastRule == [name : STRING, when : Text, count : Int]

ClusterKubeArchiveConfigResource ==
    [kind : Kind, when : Text, rules : Seq(KeepLastRule)]

KubeArchiveConfigResource ==
    [kind : Kind, when : Text,
     keep : Seq(KeepLastRule), override : Seq(KeepLastRule)]

\* The SinkFilter: a namespace without resources is not in it.
SinkFilters == [cluster : Ckacs \cup {<<>>}, ns : [Ns -> Kacs \cup {None}]]

ASSUME RulesAssumption ==
    /\ Home \in Ns /\ AllNs \notin Ns
    /\ Hyphened \subseteq Kind
    /\ Empty \in Text /\ Sound \subseteq Text
    /\ Normal \in [Text -> Text] /\ Trimmed \in [Text -> Text]
    /\ \A t \in Text : Normal[Trimmed[t]] = Normal[t]
    /\ Ckacs \subseteq Seq(ClusterKubeArchiveConfigResource)
    /\ Kacs \subseteq Seq(KubeArchiveConfigResource)
    /\ \A c \in Cvcs : /\ DOMAIN c \subseteq Ns \cup {AllNs}
                      /\ \A n \in DOMAIN c : c[n] \subseteq Kind
    /\ None \notin SinkFilters \cup ClusterKubeArchiveConfigResource
    /\ MaxEdits \in Nat /\ MaxVacuums \in Nat

VARIABLES
    ckac,     \* the CKAC's resources
    kac,      \* kac[n]: those of the KAC of n
    nvc,      \* nvc[n]: kinds of the NamespaceVacuumConfig of n
    cvc,      \* the ClusterVacuumConfig
    seen,     \* the CKAC in the cache the webhooks' client reads from
    against,  \* history: the CKAC the KAC of n was admitted against
    sf,       \* the SinkFilter: fields cluster and ns
    edits,    \* changes so far
    vacuums,  \* changes of vacuum configurations so far
    pc,       \* where the vacuum is
    mode,     \* AllNs for clusterVacuum, else the NAMESPACE of namespaceVacuum
    read,     \* the SinkFilter its publisher was made from
    plan,     \* the vacuum configuration it works on
    always,   \* history: namespaces in the SinkFilter since the first read
    visits    \* the calls of sendByAPIVersionKind

configs == <<ckac, kac, nvc, cvc, seen, against, edits, vacuums>>
vacuum == <<pc, mode, read, plan, always, visits>>
rulesVars == <<ckac, kac, nvc, cvc, seen, against, sf, edits, vacuums,
               pc, mode, read, plan, always, visits>>

-----------------------------------------------------------------------------
(* The webhooks.                                                           *)

Entries(list, k) == {i \in 1..Len(list) : list[i].kind = k}
FirstEntry(list, k) == list[CHOOSE i \in Entries(list, k) :
                                \A j \in Entries(list, k) : i <= j]

\* The expressions of a resource that are not keepLastWhen rules: an absent
\* one is the empty text.
ExpressionsSound(res) == res.when \in {Empty} \cup Sound

DistinctNames(rules) ==
    \A i, j \in 1..Len(rules) : rules[i].name = rules[j].name => i = j

DistinctWhens(rules) ==
    \A i, j \in 1..Len(rules) :
        Normal[rules[i].when] = Normal[rules[j].when] => i = j

CountsValid(rules) == \A i \in 1..Len(rules) : rules[i].count >= 0

\* Required, compiled in its normalized form, with valid durations.
WhensSound(rules) ==
    \A i \in 1..Len(rules) : Normal[rules[i].when] \in Sound \ {Empty}

\* ClusterKubeArchiveConfigCustomValidator.validateKAC
CkacValid(list) ==
    \A e \in Range(list) :
        /\ ExpressionsSound(e)
        /\ \A i \in 1..Len(e.rules) : e.rules[i].name # NoName
        /\ DistinctNames(e.rules)
        /\ WhensSound(e.rules)
        /\ DistinctWhens(e.rules)
        /\ CountsValid(e.rules)

\* Fault: rules are not compared with those of the CKAC.
UnlikeCluster_Unchecked(e, c) == TRUE

\* No keep rule has the expression of a cluster rule: the rules of the first
\* entry the CKAC has for the kind.
UnlikeCluster(e, c) ==
    c # None /\ Entries(c, e.kind) # {} =>
        \A r \in Range(FirstEntry(c, e.kind).rules), q \in Range(e.keep) :
            Normal[r.when] # Normal[q.when]

\* An override names a rule of that entry and does not raise its count.
OverridesValid(e, c) ==
    e.override # <<>> =>
        /\ c # None
        /\ Entries(c, e.kind) # {}
        /\ \A o \in Range(e.override) :
               /\ o.name # NoName /\ o.count >= 0
               /\ \E r \in Range(FirstEntry(c, e.kind).rules) :
                      r.name = o.name /\ o.count <= r.count

\* KubeArchiveConfigCustomValidator.validateKAC, when its client reads c.
KacValid(n, list, c) ==
    /\ n # Home
    /\ \A e \in Range(list) :
           /\ ExpressionsSound(e)
           /\ WhensSound(e.keep)
           /\ DistinctWhens(e.keep)
           /\ CountsValid(e.keep)
           /\ UnlikeCluster(e, c)
           /\ OverridesValid(e, c)

KindsOf(list) == IF list = None THEN {} ELSE {e.kind : e \in Range(list)}

\* validateResources: the KAC of the namespace must exist, the CKAC need not.
ResourcesValid(n, kinds) ==
    /\ kac[n] # None
    /\ kinds \subseteq KindsOf(ckac) \cup KindsOf(kac[n])

-----------------------------------------------------------------------------
(* Users, administrators and the operator.                                 *)

EditCkac(list) ==
    /\ edits < MaxEdits /\ list # ckac
    /\ list # None => CkacValid(list)
    /\ ckac' = list
    /\ edits' = edits + 1
    /\ UNCHANGED <<kac, nvc, cvc, seen, against, sf, vacuums, vacuum>>

EditKac(n, list) ==
    /\ edits < MaxEdits /\ list # kac[n]
    /\ list # None => KacValid(n, list, seen)
    /\ kac' = [kac EXCEPT ![n] = list]
    /\ against' = [against EXCEPT ![n] = seen]
    /\ edits' = edits + 1
    /\ UNCHANGED <<ckac, nvc, cvc, seen, sf, vacuums, vacuum>>

\* validateNamespaceVacuumConfig
EditNvc(n, kinds) ==
    /\ vacuums < MaxVacuums /\ kinds # nvc[n]
    /\ ResourcesValid(n, kinds)
    /\ nvc' = [nvc EXCEPT ![n] = kinds]
    /\ vacuums' = vacuums + 1
    /\ UNCHANGED <<ckac, kac, cvc, seen, against, sf, edits, vacuum>>

\* validateClusterVacuumConfig: the kinds of all namespaces are not checked.
EditCvc(c) ==
    /\ vacuums < MaxVacuums /\ c # cvc
    /\ \A n \in DOMAIN c \ {AllNs} : ResourcesValid(n, c[n])
    /\ cvc' = c
    /\ vacuums' = vacuums + 1
    /\ UNCHANGED <<ckac, kac, nvc, seen, against, sf, edits, vacuum>>

\* The informer of the webhooks' client catches up.
SyncCkac ==
    /\ seen # ckac
    /\ seen' = ckac
    /\ UNCHANGED <<ckac, kac, nvc, cvc, against, sf, edits, vacuums, vacuum>>

NoFilter == [cluster |-> <<>>, ns |-> [n \in Ns |-> None]]

\* updateSinkFilterCluster and updateSinkFilterNamespace; how they come to
\* be called, and fail, is the module ConfigReconcile.
FilterWritten(f) ==
    /\ f # sf
    /\ sf' = f
    /\ always' = {n \in always : f.ns[n] # None}
    /\ UNCHANGED <<configs, pc, mode, read, plan, visits>>

UpdateSinkFilterCluster ==
    FilterWritten([(IF sf = None THEN NoFilter ELSE sf) EXCEPT
                       !.cluster = IF ckac = None THEN <<>> ELSE ckac])

UpdateSinkFilterNamespace(n) ==
    FilterWritten([(IF sf = None THEN NoFilter ELSE sf) EXCEPT
                       !.ns[n] = kac[n]])

-----------------------------------------------------------------------------
(* The filters a publisher is made from, and the rules of a visit.         *)

\* Of several entries of one kind the last is put in the map.
LastEntry(list, k) ==
    IF list = None \/ Entries(list, k) = {} THEN None
    ELSE list[CHOOSE i \in Entries(list, k) :
                  \A j \in Entries(list, k) : j <= i]

\* ExtractClusterCELExpressionsByKind
ClusterCel(f, k) == LastEntry(f.cluster, k)

\* extractNamespacesByKindsList, then the lookup by kind and by namespace
NamespaceCel(f, n, k) == LastEntry(f.ns[n], k)

\* compileKeepLastWhenRules and compileClusterKeepLastWhenRules: WhenText,
\* and the compiled When, a nil program when the text does not compile.
Compiled(r) ==
    [text |-> Trimmed[r.when], compiles |-> r.when \in Sound,
     count |-> r.count]

\* Fault: an override replaces the count whatever it was.
Lowered_Always(count, overrides, name) ==
    LET cs == {o.count : o \in {q \in Range(overrides) : q.name = name}}
    IN IF cs = {} THEN count ELSE CHOOSE c \in cs : \A d \in cs : c <= d

\* The overrides of a cluster rule, each of which can only lower its count.
Lowered(count, overrides, name) ==
    LET cs == {count} \cup
              {o.count : o \in {q \in Range(overrides) : q.name = name}}
    IN CHOOSE c \in cs : \A d \in cs : c <= d

RulesOf(e) == IF e = None THEN <<>> ELSE e.rules
KeepOf(e) == IF e = None THEN <<>> ELSE e.keep
OverrideOf(e) == IF e = None THEN <<>> ELSE e.override

\* The keep rules that join: those whose WhenText no cluster rule and no
\* earlier keep rule has.
Joining(c, e) ==
    {j \in 1..Len(KeepOf(e)) :
        LET text == Trimmed[e.keep[j].when] IN
        /\ \A i \in 1..Len(RulesOf(c)) : Trimmed[c.rules[i].when] # text
        /\ \A i \in 1..(j - 1) : Trimmed[e.keep[i].when] # text}

\* unifyRules, for the entries the two filters have for the kind: the rules
\* of the cluster in their places, then the keep rules that join, in places
\* that leave a gap for every other one.
UnifyRules(c, e) ==
    LET n == Len(RulesOf(c)) IN
    [i \in (1..n) \cup {n + j : j \in Joining(c, e)} |->
        IF i <= n
        THEN [Compiled(c.rules[i]) EXCEPT
                 !.count = Lowered(@, OverrideOf(e), c.rules[i].name)]
        ELSE Compiled(e.keep[i - n])]

VisitOf(n, k) ==
    [ns |-> n, kind |-> k,
     rules |-> UnifyRules(ClusterCel(read, k), NamespaceCel(read, n, k))]

\* SendByNamespace: the kinds of all the publisher's filters whose key has
\* the two parts it is split into.  A namespace vacuum has but its own.
KindsOfPublisher ==
    (KindsOf(read.cluster)
        \cup UNION {KindsOf(read.ns[n]) : n \in
                        IF mode = AllNs THEN Ns ELSE {mode}})
    \ Hyphened

KindsToSend(kinds) == IF kinds = {} THEN KindsOfPublisher ELSE kinds

-----------------------------------------------------------------------------
(* A vacuum.                                                               *)

InFilter(f) == {n \in Ns : f.ns[n] # None}

\* GetSinkFilter and the Extract functions, which do not expect that there
\* is no SinkFilter: the vacuum panics.
Start(m) ==
    /\ pc = "idle"
    /\ mode' = m
    /\ IF sf = None THEN pc' = "panicked" /\ UNCHANGED <<read, always>>
       ELSE pc' = "config" /\ read' = sf /\ always' = InFilter(sf)
    /\ UNCHANGED <<configs, sf, plan, visits>>

\* The vacuum configuration is read.
ReadConfig ==
    /\ pc = "config"
    /\ plan' = IF mode = AllNs THEN cvc ELSE nvc[mode]
    /\ pc' = IF plan' = None THEN "failed" ELSE "publish"
    /\ UNCHANGED <<configs, sf, mode, read, always, visits>>

\* namespaceVacuum's last part
PublishNamespace ==
    /\ pc = "publish" /\ mode # AllNs
    /\ visits' = {VisitOf(mode, k) : k \in KindsToSend(plan)}
    /\ pc' = "done"
    /\ UNCHANGED <<configs, sf, mode, read, plan, always>>

\* Fault: the listed namespaces are all that is visited.
Namespaces_Listed ==
    IF DOMAIN plan \ {AllNs} = {} THEN InFilter(sf) ELSE DOMAIN plan \ {AllNs}

\* The listed namespaces; or those of the SinkFilter, read once more, when
\* none is listed or all are asked for.
Namespaces ==
    LET listed == DOMAIN plan \ {AllNs} IN
    IF listed = {} \/ AllNs \in DOMAIN plan THEN InFilter(sf) ELSE listed

\* clusterVacuum's last part.  A namespace that is not listed is there
\* because of ___all-namespaces___, or because nothing is listed.
PublishCluster ==
    /\ pc = "publish" /\ mode = AllNs
    /\ visits' = UNION {
           {VisitOf(n, k) : k \in KindsToSend(
                IF n \in DOMAIN plan THEN plan[n]
                ELSE IF AllNs \in DOMAIN plan THEN plan[AllNs] ELSE {})} :
           n \in Namespaces}
    /\ pc' = "done"
    /\ UNCHANGED <<configs, sf, mode, read, plan, always>>

\* A call to the API server fails, which ends the vacuum.
CallFails ==
    /\ pc \in {"idle", "config", "publish"}
    /\ pc' = "failed"
    /\ UNCHANGED <<configs, sf, mode, read, plan, always, visits>>

RulesInit ==
    /\ ckac = None
    /\ kac = [n \in Ns |-> None]
    /\ nvc = [n \in Ns |-> None]
    /\ cvc = None
    /\ seen = None
    /\ against = [n \in Ns |-> None]
    /\ sf = None
    /\ edits = 0 /\ vacuums = 0
    /\ pc = "idle" /\ mode = AllNs /\ read = None /\ plan = None
    /\ always = {} /\ visits = {}

RulesNext ==
    \/ \E list \in Ckacs \cup {None} : EditCkac(list)
    \/ \E n \in Ns, list \in Kacs \cup {None} : EditKac(n, list)
    \/ \E n \in Ns, kinds \in SUBSET Kind : EditNvc(n, kinds)
    \/ \E c \in Cvcs : EditCvc(c)
    \/ SyncCkac
    \/ UpdateSinkFilterCluster
    \/ \E n \in Ns : UpdateSinkFilterNamespace(n)
    \/ \E m \in Ns \cup {AllNs} : Start(m)
    \/ ReadConfig
    \/ PublishNamespace
    \/ PublishCluster
    \/ CallFails

RulesSpec == RulesInit /\ [][RulesNext]_rulesVars

-----------------------------------------------------------------------------
(* Properties                                                              *)

\* A keeper's array has room for its rule's count and one more: no rule with
\* a negative count comes through (createKeepers would panic).
RulesTypeOK ==
    /\ pc \in {"idle", "config", "publish", "done", "failed", "panicked"}
    /\ ckac \in Ckacs \cup {None} /\ seen \in Ckacs \cup {None}
    /\ kac \in [Ns -> Kacs \cup {None}]
    /\ against \in [Ns -> Ckacs \cup {None}]
    /\ nvc \in [Ns -> (SUBSET Kind) \cup {None}] /\ cvc \in Cvcs \cup {None}
    /\ always \subseteq Ns /\ edits \in 0..MaxEdits
    /\ vacuums \in 0..MaxVacuums
    /\ \A v \in visits :
           /\ v.ns \in Ns /\ v.kind \in Kind
           /\ \A r \in Range(v.rules) : r.text \in Text /\ r.count \in Nat

\* Whatever the order in which the configurations were changed and copied, a
\* namespace can neither drop a rule of the cluster nor keep more under it
\* than the cluster allows (unifyRules; the webhook checked this against a
\* CKAC that may since have changed); and all rules of a visit are those of
\* the cluster or the namespace's own, no two with the same text.  (Checked
\* together with the types.)
ClusterRulesBind ==
    /\ RulesTypeOK
    /\ \A v \in visits :
        /\ \A r \in Range(RulesOf(ClusterCel(read, v.kind))) :
               \E u \in Range(v.rules) :
                   u.text = Trimmed[r.when] /\ u.count <= r.count
        /\ \A u \in Range(v.rules) :
               \E r \in Range(RulesOf(ClusterCel(read, v.kind)))
                        \cup Range(KeepOf(NamespaceCel(read, v.ns, v.kind))) :
                   Trimmed[r.when] = u.text
        /\ \A i, j \in DOMAIN v.rules :
               v.rules[i].text = v.rules[j].text => i = j

\* What the webhook admitted takes effect: while the SinkFilter has the KAC
\* and the CKAC it was admitted against, every keep rule is applied with its
\* count and every override gives its rule the count it names, or a lower
\* one.  Of a kind the CKAC lists more than once the webhook looks at the
\* first entry and the vacuum at the last, so these are left out.
AdmittedTakesEffect ==
    sf # None =>
    \A n \in Ns, k \in Kind :
        LET c == ClusterCel(sf, k)
            e == NamespaceCel(sf, n, k)
            rules == UnifyRules(c, e)
        IN  /\ e # None /\ sf.ns[n] = kac[n]
            /\ sf.cluster = IF against[n] = None THEN <<>> ELSE against[n]
            /\ Cardinality(Entries(sf.cluster, k)) <= 1
            =>
            /\ \A q \in Range(e.keep) :
                   \E u \in Range(rules) :
                       u.text = Trimmed[q.when] /\ u.count = q.count
            /\ \A o \in Range(e.override) :
                   \E i \in 1..Len(RulesOf(c)) :
                       c.rules[i].name = o.name /\ rules[i].count <= o.count

\* A cluster vacuum for all namespaces leaves out none that was configured
\* all the time it ran, and one without a list of kinds none of the kinds
\* configured for the namespace; listed namespaces are visited in any case
\* (clusterVacuum, getNamespacesFromSinkFilter, SendByNamespace).  A kind in
\* a group with a hyphen is never sent by SendByNamespace.
NothingIsLeftOut ==
    pc = "done" /\ mode = AllNs =>
        LET all == DOMAIN plan = {} \/ AllNs \in DOMAIN plan IN
        \A n \in IF all THEN always ELSE DOMAIN plan :
            LET kinds == IF n \in DOMAIN plan THEN plan[n]
                         ELSE IF AllNs \in DOMAIN plan THEN plan[AllNs]
                         ELSE {}
            IN  \A k \in IF kinds # {} THEN kinds
                         ELSE (KindsOf(read.ns[n]) \cup KindsOf(read.cluster))
                              \ Hyphened :
                    \E v \in visits : v.ns = n /\ v.kind = k

=============================================================================
