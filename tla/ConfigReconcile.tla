-------------------------- MODULE ConfigReconcile --------------------------
(***************************************************************************)
(* The two controllers that turn configurations into the SinkFilter and    *)
(* the objects the sink and the vacuums need: KubeArchiveConfigReconciler, *)
(* one worker for the KubeArchiveConfigs (KACs) of all namespaces, and     *)
(* ClusterKubeArchiveConfigReconciler, one worker for the single           *)
(* ClusterKubeArchiveConfig (CKAC).  They share the SinkFilter.            *)
(*                                                                         *)
(* A controller reads from informer caches, which lag behind the API       *)
(* server, and writes to the API server, which refuses an Update made from *)
(* a copy that is no longer the current one and a Create of what exists.   *)
(* Any call may fail, also after it took effect, and the operator may die  *)
(* between any two calls.                                                  *)
(***************************************************************************)
EXTENDS Naturals, Sequences, FiniteSets

CONSTANTS
    Ns,           \* namespaces
    Kind,         \* kinds of objects
    Known,        \* kinds the RESTMapper knows
    Children,     \* what a KAC reconcile creates in the namespace, in order
    ReadErrors,   \* whether reading the CKAC for the sink's Role may fail
    None,         \* an object that does not exist, an entry that is missing
    MaxEdits,     \* bound: changes users make to the configurations
    MaxFailures,  \* bound: calls that fail though they were not refused
    MaxRestarts   \* bound: restarts of the operator

\* Children of each sort.
Roles == {"sinkRole", "vacuumRole"}
Bindings == {"sinkBinding", "vacuumBinding"}
Child == {Children[i] : i \in 1..Len(Children)}

\* The fields of a KAC or CKAC and of the SinkFilter that the controllers use.
Config == [uid : Nat, res : SUBSET Kind, del : BOOLEAN, fin : BOOLEAN]
Filters == [cluster : SUBSET Kind, ns : [Ns -> (SUBSET Kind) \cup {None}],
            legacy : BOOLEAN]

ASSUME ConfigAssumption ==
    /\ Known \subseteq Kind
    /\ Children \in Seq(Roles \cup Bindings \cup {"vacuumAccount"})
    /\ ReadErrors \in BOOLEAN
    /\ \A S \in SUBSET Kind : S # None
    /\ None \notin Config \cup Filters
    /\ MaxEdits \in Nat /\ MaxFailures \in Nat /\ MaxRestarts \in Nat

(***************************************************************************)
(* An object is a history: the sequence of its states from the one in the  *)
(* operator's cache to the one the API server has.                         *)
(***************************************************************************)
VARIABLES
    kac,       \* kac[n]: the KAC of namespace n
    ckac,      \* the CKAC
    sf,        \* the SinkFilter
    vb,        \* subjects of RoleBinding kubearchive-vacuum in the namespace
               \* kubearchive: namespaces of vacuums, and the cluster vacuum
    child,     \* child[n][c]: the child c of the KAC of n
    edits, failures, restarts,
    (* KubeArchiveConfigReconciler                                         *)
    kqueue,    \* namespaces in its queue
    kpc,       \* where Reconcile is
    kns,       \* namespace it reconciles
    kcopy,     \* kaconfig, the copy of the KAC it works on
    kchild,    \* index of the next child
    (* ClusterKubeArchiveConfigReconciler                                  *)
    cqueue,    \* whether the CKAC is in its queue
    cpc,       \* where Reconcile is
    ccopy      \* ckaconfig

objects == <<kac, ckac, sf, vb, child>>
bounds == <<edits, failures, restarts>>
kvars == <<kqueue, kpc, kns, kcopy, kchild>>
cvars == <<cqueue, cpc, ccopy>>
vars == <<kac, ckac, sf, vb, child, edits, failures, restarts,
          kqueue, kpc, kns, kcopy, kchild, cqueue, cpc, ccopy>>

Cached(h) == h[1]
Current(h) == h[Len(h)]

\* A write of v: an Update that changes nothing makes no new state.
Written(h, v) == IF v = Current(h) THEN h ELSE Append(h, v)

\* An Update may store a list in another order: policy rules and subjects
\* are put together from Go maps.
Reordered(h, v) == {Written(h, v), Append(h, v)}

\* The API server takes what was made from the cached state: a Create when
\* there is no such object, an Update when the cache has its last state.
Accepts(h) ==
    IF Cached(h) = None THEN Current(h) = None ELSE Len(h) = 1

(***************************************************************************)
(* Users, the API server and its garbage collector.                        *)
(***************************************************************************)
\* The histories after a user created, changed or deleted a configuration.
\* One with the finalizer is only marked for deletion.
UserChanges(h) ==
    LET c == Current(h) IN
    IF c = None
    THEN {Append(h, [uid |-> edits + 1, res |-> r, del |-> FALSE,
                     fin |-> FALSE]) : r \in SUBSET Kind}
    ELSE {Append(h, [c EXCEPT !.res = r]) : r \in (SUBSET Kind) \ {c.res}}
         \cup (IF ~c.fin THEN {Append(h, None)}
               ELSE IF ~c.del THEN {Append(h, [c EXCEPT !.del = TRUE])}
               ELSE {})

EditKac(n) ==
    /\ edits < MaxEdits
    /\ \E h \in UserChanges(kac[n]) : kac' = [kac EXCEPT ![n] = h]
    /\ edits' = edits + 1
    /\ UNCHANGED <<ckac, sf, vb, child, failures, restarts, kvars, cvars>>

EditCkac ==
    /\ edits < MaxEdits
    /\ ckac' \in UserChanges(ckac)
    /\ edits' = edits + 1
    /\ UNCHANGED <<kac, sf, vb, child, failures, restarts, kvars, cvars>>

\* The garbage collector removes a child whose owner is gone.
Collect(n, c) ==
    LET o == Current(child[n][c]) IN
    /\ o # None
    /\ Current(kac[n]) # None => Current(kac[n]).uid # o.owner
    /\ child' = [child EXCEPT ![n][c] = Append(@, None)]
    /\ UNCHANGED <<kac, ckac, sf, vb, bounds, kvars, cvars>>

(***************************************************************************)
(* The informers.  A new state in the cache triggers what                  *)
(* SetupWithManager asked for: a KAC its own reconciliation, the CKAC its  *)
(* own and that of all KACs, a RoleBinding that of its owner's name.       *)
(***************************************************************************)
SyncKac(n) ==
    /\ Len(kac[n]) > 1
    /\ kac' = [kac EXCEPT ![n] = Tail(@)]
    /\ kqueue' = kqueue \cup {n}
    /\ UNCHANGED <<ckac, sf, vb, child, bounds, kpc, kns, kcopy, kchild, cvars>>

\* Fault: a change of the CKAC does not trigger the KACs.
SyncCkac_NoKacs ==
    /\ Len(ckac) > 1
    /\ ckac' = Tail(ckac)
    /\ cqueue' = TRUE
    /\ UNCHANGED <<kac, sf, vb, child, bounds, kqueue, kpc, kns, kcopy, kchild,
                   cpc, ccopy>>

SyncCkac ==
    /\ Len(ckac) > 1
    /\ ckac' = Tail(ckac)
    /\ cqueue' = TRUE
    /\ kqueue' = kqueue \cup {n \in Ns : Cached(kac[n]) # None}
    /\ UNCHANGED <<kac, sf, vb, child, bounds, kpc, kns, kcopy, kchild, cpc,
                   ccopy>>

SyncOther ==
    /\ \/ Len(sf) > 1 /\ sf' = Tail(sf) /\ UNCHANGED vb
       \/ Len(vb) > 1 /\ vb' = Tail(vb) /\ UNCHANGED sf
    /\ UNCHANGED <<kac, ckac, child, bounds, kvars, cvars>>

SyncChild(n, c) ==
    /\ Len(child[n][c]) > 1
    /\ child' = [child EXCEPT ![n][c] = Tail(@)]
    /\ kqueue' = IF c \in Bindings THEN kqueue \cup {n} ELSE kqueue
    /\ UNCHANGED <<kac, ckac, sf, vb, bounds, kpc, kns, kcopy, kchild, cvars>>

(***************************************************************************)
(* The SinkFilter.  desiredSinkFilter... starts from the cached one, or    *)
(* from an empty one if there is none.                                     *)
(***************************************************************************)
NoFilters == [cluster |-> {}, ns |-> [n \in Ns |-> None], legacy |-> FALSE]
Found(s) == IF s = None THEN NoFilters ELSE s

\* Fault: the SinkFilter is replaced without regard to its resource version.
UpdateSinkFilterNamespace_Replace(n, r) ==
    sf' = Written(sf, [Found(Cached(sf)) EXCEPT !.ns[n] = r])

\* updateSinkFilterNamespace: r are the resources, None for nil.
UpdateSinkFilterNamespace(n, r) ==
    /\ Accepts(sf)
    /\ sf' = Written(sf, [Found(Cached(sf)) EXCEPT !.ns[n] = r])

\* updateSinkFilterCluster, which also drops what an older release stored
\* under the name of a global namespace.
UpdateSinkFilterCluster(r) ==
    /\ Accepts(sf)
    /\ sf' = Written(sf, [Found(Cached(sf)) EXCEPT !.cluster = r,
                                                  !.legacy = FALSE])

(***************************************************************************)
(* The children, and the RoleBinding in the namespace kubearchive.         *)
(***************************************************************************)
Resources(c) == IF c = None THEN {} ELSE c.res

\* createPolicyRules: a kind the mapper does not know is only logged.
CreatePolicyRules(kinds) == Known \cap kinds

\* Kinds the rules of a Role name.  The sink's is written without the kinds
\* of the CKAC if reading that fails; the vacuum's reconciliation fails then.
RuleKinds(c) ==
    {CreatePolicyRules(kcopy.res \cup Resources(o)) :
        o \in {Cached(ckac)} \cup
              (IF ReadErrors /\ c = "sinkRole" THEN {None} ELSE {})}

\* The child with these rules: a missing one is created with the KAC as its
\* owner, one that is there keeps the owner it has.
Desired(n, c, r) ==
    LET old == Cached(child[n][c]) IN
    [owner |-> IF old = None THEN kcopy.uid ELSE old.owner, kinds |-> r]

ReconcileRole(n, c) ==
    /\ c \in Roles
    /\ Accepts(child[n][c])
    /\ \E r \in RuleKinds(c) :
         \E h \in Reordered(child[n][c], Desired(n, c, r)) :
            child' = [child EXCEPT ![n][c] = h]

\* The RoleBindings of the namespace always get the same subjects, the sink's
\* one and the vacuum's two.
ReconcileRoleBinding(n, c) ==
    /\ c \in Bindings
    /\ Accepts(child[n][c])
    /\ \E h \in IF c = "vacuumBinding"
                THEN Reordered(child[n][c], Desired(n, c, {}))
                ELSE {Written(child[n][c], Desired(n, c, {}))} :
         child' = [child EXCEPT ![n][c] = h]

\* A service account that is there is left alone.
ReconcileServiceAccount(n, c) ==
    /\ c = "vacuumAccount"
    /\ \/ Cached(child[n][c]) # None /\ UNCHANGED child
       \/ /\ Cached(child[n][c]) = None
          /\ Accepts(child[n][c])
          /\ child' = [child EXCEPT ![n][c] = Append(@, Desired(n, c, {}))]

ReconcileChild(n, c) ==
    \/ ReconcileRole(n, c)
    \/ ReconcileRoleBinding(n, c)
    \/ ReconcileServiceAccount(n, c)

ClusterVacuum == "clusterVacuum"

\* Fault: the subjects are always merged in.
ReconcileVacuumBinding_Merge(n, add) ==
    /\ Accepts(vb)
    /\ vb' = Written(vb, {n, ClusterVacuum} \cup
                         (IF Cached(vb) = None THEN {} ELSE Cached(vb)))

\* reconcileKubeArchiveVacuumRoleBinding: the RoleBinding is created or gets
\* the subjects merged in, or removed, which keeps the order of the others.
ReconcileVacuumBinding(n, add) ==
    LET subjects == {n} \cup (IF add THEN {ClusterVacuum} ELSE {})
        old == Cached(vb)
    IN /\ Accepts(vb)
       /\ vb' \in IF old = None THEN {Append(vb, subjects)}
                  ELSE IF add THEN Reordered(vb, old \cup subjects)
                  ELSE {Written(vb, old \ subjects)}

(***************************************************************************)
(* KubeArchiveConfigReconciler.Reconcile.                                  *)
(***************************************************************************)
\* Reconcile returns.
KReturn == kpc' = "idle" /\ kns' = None /\ kcopy' = None /\ kchild' = 1

\* Where Reconcile begins, given the configuration it has read.
FirstStep(c) ==
    IF c = None \/ (c.del /\ ~c.fin) THEN "idle"
    ELSE IF c.del THEN "unfilter"
    ELSE IF c.fin THEN "filter" ELSE "addFinalizer"

\* Reconcile reads the KAC.
KGet(n) ==
    LET c == Cached(kac[n]) IN
    /\ kpc = "idle" /\ n \in kqueue
    /\ kqueue' = kqueue \ {n}
    /\ IF FirstStep(c) = "idle"
       THEN KReturn
       ELSE kpc' = FirstStep(c) /\ kns' = n /\ kcopy' = c /\ kchild' = 1
    /\ UNCHANGED <<objects, bounds, cvars>>

\* The write Reconcile makes where it is, if the API server accepts it.
KWrite ==
    \/ /\ kpc = "addFinalizer"
       /\ Current(kac[kns]) = kcopy
       /\ kac' = [kac EXCEPT ![kns] = Append(@, [kcopy EXCEPT !.fin = TRUE])]
       /\ UNCHANGED <<ckac, sf, vb, child>>
    \/ /\ kpc = "filter"
       /\ UpdateSinkFilterNamespace(kns, kcopy.res)
       /\ UNCHANGED <<kac, ckac, vb, child>>
    \/ /\ kpc = "child"
       /\ ReconcileChild(kns, Children[kchild])
       /\ UNCHANGED <<kac, ckac, sf, vb>>
    \/ /\ kpc \in {"subjects", "unsubject"}
       /\ ReconcileVacuumBinding(kns, kpc = "subjects")
       /\ UNCHANGED <<kac, ckac, sf, child>>
    \/ /\ kpc = "unfilter"
       /\ UpdateSinkFilterNamespace(kns, None)
       /\ UNCHANGED <<kac, ckac, vb, child>>
    \/ /\ kpc = "removeFinalizer"
       /\ Current(kac[kns]) = kcopy
       /\ kac' = [kac EXCEPT ![kns] = Append(@, None)]
       /\ UNCHANGED <<ckac, sf, vb, child>>

KSteps == {"addFinalizer", "filter", "child", "subjects", "unfilter",
           "unsubject", "removeFinalizer"}

\* What Reconcile does after a write.
KNext ==
    CASE kpc = "addFinalizer" -> "filter"
      [] kpc = "filter" -> IF Children = <<>> THEN "subjects" ELSE "child"
      [] kpc = "child" -> IF kchild = Len(Children) THEN "subjects" ELSE "child"
      [] kpc = "unfilter" -> "unsubject"
      [] kpc = "unsubject" -> "removeFinalizer"
      [] OTHER -> "idle"

KStep ==
    /\ kpc # "idle"
    /\ KWrite
    /\ IF KNext = "idle"
       THEN KReturn
       ELSE /\ kpc' = KNext
            /\ kcopy' = IF kpc = "addFinalizer"
                        THEN [kcopy EXCEPT !.fin = TRUE] ELSE kcopy
            /\ kchild' = IF kpc = "child" THEN kchild + 1 ELSE kchild
            /\ UNCHANGED kns
    /\ UNCHANGED <<bounds, kqueue, cvars>>

\* Fault: the error is logged and not returned.
KRetry_Swallowed == KReturn /\ UNCHANGED kqueue /\ UNCHANGED cvars

\* Reconcile returns an error: it is tried again later.
KRetry == KReturn /\ kqueue' = kqueue \cup {kns} /\ UNCHANGED cvars

\* The API server refuses the write.
KRefused ==
    /\ \/ kpc \in {"addFinalizer", "removeFinalizer"} /\ Current(kac[kns]) # kcopy
       \/ kpc \in {"filter", "unfilter"} /\ ~Accepts(sf)
       \/ /\ kpc = "child"
          /\ ~Accepts(child[kns][Children[kchild]])
          /\ Children[kchild] = "vacuumAccount" =>
                Cached(child[kns][Children[kchild]]) = None
       \/ kpc \in {"subjects", "unsubject"} /\ ~Accepts(vb)
    /\ KRetry
    /\ UNCHANGED <<objects, bounds>>

\* The call fails, or it takes effect and its answer is lost.
KFails ==
    /\ kpc # "idle"
    /\ failures < MaxFailures
    /\ failures' = failures + 1
    /\ UNCHANGED objects \/ KWrite
    /\ KRetry
    /\ UNCHANGED <<edits, restarts>>

(***************************************************************************)
(* ClusterKubeArchiveConfigReconciler.Reconcile.                           *)
(***************************************************************************)
CGet ==
    LET c == Cached(ckac) IN
    /\ cpc = "idle" /\ cqueue
    /\ cqueue' = FALSE
    /\ cpc' = FirstStep(c)
    /\ ccopy' = IF cpc' = "idle" THEN None ELSE c
    /\ UNCHANGED <<objects, bounds, kvars>>

CWrite ==
    \/ /\ cpc = "addFinalizer"
       /\ Current(ckac) = ccopy
       /\ ckac' = Append(ckac, [ccopy EXCEPT !.fin = TRUE])
       /\ UNCHANGED <<kac, sf, vb, child>>
    \/ /\ cpc = "filter"
       /\ UpdateSinkFilterCluster(ccopy.res)
       /\ UNCHANGED <<kac, ckac, vb, child>>
    \/ /\ cpc = "unfilter"
       /\ UpdateSinkFilterCluster({})
       /\ UNCHANGED <<kac, ckac, vb, child>>
    \/ /\ cpc = "removeFinalizer"
       /\ Current(ckac) = ccopy
       /\ ckac' = Append(ckac, None)
       /\ UNCHANGED <<kac, sf, vb, child>>

CSteps == {"addFinalizer", "filter", "unfilter", "removeFinalizer"}

\* Fault: the filters of the cluster are followed by the vacuum's subjects.
CNext_LikeKac ==
    CASE cpc = "addFinalizer" -> "filter"
      [] cpc = "filter" -> "subjects"
      [] cpc = "unfilter" -> "removeFinalizer"
      [] OTHER -> "idle"

CNext ==
    CASE cpc = "addFinalizer" -> "filter"
      [] cpc = "unfilter" -> "removeFinalizer"
      [] OTHER -> "idle"

CStep ==
    /\ cpc # "idle"
    /\ CWrite
    /\ cpc' = CNext
    /\ ccopy' = IF cpc = "addFinalizer" THEN [ccopy EXCEPT !.fin = TRUE]
                ELSE IF cpc' = "idle" THEN None ELSE ccopy
    /\ UNCHANGED <<bounds, cqueue, kvars>>

CRetry == cpc' = "idle" /\ ccopy' = None /\ cqueue' = TRUE /\ UNCHANGED kvars

CRefused ==
    /\ \/ cpc \in {"addFinalizer", "removeFinalizer"} /\ Current(ckac) # ccopy
       \/ cpc \in {"filter", "unfilter"} /\ ~Accepts(sf)
    /\ CRetry
    /\ UNCHANGED <<objects, bounds>>

CFails ==
    /\ cpc # "idle"
    /\ failures < MaxFailures
    /\ failures' = failures + 1
    /\ UNCHANGED objects \/ CWrite
    /\ CRetry
    /\ UNCHANGED <<edits, restarts>>

-----------------------------------------------------------------------------
\* The operator dies and is started again: its caches are filled anew, and
\* every configuration is queued.
Restart ==
    /\ restarts < MaxRestarts
    /\ restarts' = restarts + 1
    /\ kac' = [n \in Ns |-> <<Current(kac[n])>>]
    /\ ckac' = <<Current(ckac)>>
    /\ sf' = <<Current(sf)>>
    /\ vb' = <<Current(vb)>>
    /\ child' = [n \in Ns |-> [c \in Child |-> <<Current(child[n][c])>>]]
    /\ kqueue' = {n \in Ns : Current(kac[n]) # None}
    /\ cqueue' = (Current(ckac) # None)
    /\ KReturn
    /\ cpc' = "idle" /\ ccopy' = None
    /\ UNCHANGED <<edits, failures>>

\* A fresh installation, or one with a SinkFilter an older release left.
Init ==
    /\ kac = [n \in Ns |-> <<None>>]
    /\ ckac = <<None>>
    /\ sf \in {<<None>>, <<[NoFilters EXCEPT !.legacy = TRUE]>>}
    /\ vb = <<{ClusterVacuum}>>
    /\ child = [n \in Ns |-> [c \in Child |-> <<None>>]]
    /\ edits = 0 /\ failures = 0 /\ restarts = 0
    /\ kqueue = {} /\ kpc = "idle" /\ kns = None /\ kcopy = None /\ kchild = 1
    /\ cqueue = FALSE /\ cpc = "idle" /\ ccopy = None

KWorker == (\E n \in Ns : KGet(n)) \/ KStep \/ KRefused
CWorker == CGet \/ CStep \/ CRefused

Next ==
    \/ EditCkac \/ SyncCkac \/ SyncOther \/ Restart
    \/ \E n \in Ns : EditKac(n) \/ SyncKac(n)
    \/ \E n \in Ns, c \in Child : Collect(n, c) \/ SyncChild(n, c)
    \/ KWorker \/ KFails \/ CWorker \/ CFails

\* Watch events arrive, the garbage collector runs, and each controller's
\* worker goes on, taking every KAC that is queued in its turn.
Fairness ==
    /\ WF_vars(SyncCkac) /\ WF_vars(SyncOther)
    /\ \A n \in Ns :
         /\ WF_vars(SyncKac(n)) /\ SF_vars(KGet(n))
         /\ \A c \in Child : WF_vars(SyncChild(n, c)) /\ WF_vars(Collect(n, c))
    /\ WF_vars(KWorker) /\ WF_vars(CWorker)

Spec == Init /\ [][Next]_vars

FairSpec == Spec /\ Fairness

-----------------------------------------------------------------------------
\* Caches, children and the SinkFilter have the values the declarations say.
TypeOK ==
    /\ kac \in [Ns -> Seq(Config \cup {None})] /\ ckac \in Seq(Config \cup {None})
    /\ sf \in Seq(Filters \cup {None})
    /\ vb \in Seq((SUBSET (Ns \cup {ClusterVacuum})) \cup {None})
    /\ child \in [Ns -> [Child ->
                     Seq([owner : Nat, kinds : SUBSET Kind] \cup {None})]]
    /\ \A n \in Ns : kac[n] # <<>> /\ \A c \in Child : child[n][c] # <<>>
    /\ ckac # <<>> /\ sf # <<>> /\ vb # <<>>
    /\ edits \in Nat /\ failures \in Nat /\ restarts \in Nat
    /\ kqueue \subseteq Ns /\ kns \in Ns \cup {None}
    /\ kpc \in KSteps \cup {"idle"} /\ cpc \in CSteps \cup {"idle"}
    /\ kcopy \in Config \cup {None} /\ ccopy \in Config \cup {None}
    /\ kchild \in 1..Len(Children) + 1
    /\ cqueue \in BOOLEAN

\* The SinkFilter only ever has filters of configurations that exist and bear
\* the finalizer, whatever is deleted and created again while a reconcile is
\* under way, however stale the caches, and wherever a call failed or the
\* operator died: no filter is left behind that archives or deletes objects
\* and that no configuration can remove.
NoOrphanFilters ==
    LET s == Found(Current(sf))
        Finalized(c) == c # None /\ c.fin
    IN /\ \A n \in Ns : s.ns[n] # None => Finalized(Current(kac[n]))
       /\ s.cluster # {} => Finalized(Current(ckac))

\* The SinkFilter says what the configurations say, and none is waiting for
\* its deletion.
SinkFilterFollows ==
    LET s == Found(Current(sf))
        Settled(c) == c # None => ~c.del
    IN /\ \A n \in Ns :
            LET c == Current(kac[n]) IN
            s.ns[n] = (IF c = None THEN None ELSE c.res) /\ Settled(c)
       /\ s.cluster = Resources(Current(ckac)) /\ Settled(Current(ckac))

\* Once users stop changing configurations the SinkFilter takes over what
\* they left, all deletions complete, and it stays so: the two controllers,
\* which write the same object, neither undo each other's work for good nor
\* keep each other from finishing.
ConfigsTakeEffect == <>[]SinkFilterFollows

\* At last just the vacuums of the namespaces that have a configuration, and
\* the cluster vacuum, are bound to the Role in the namespace kubearchive.
VacuumsFollowConfigs ==
    <>[](Current(vb) = {ClusterVacuum} \cup {n \in Ns : Current(kac[n]) # None})

\* At last the Roles there are name the known kinds of both configurations,
\* the one of the namespace and the one of the cluster, no matter which of
\* the two was changed last; after an error the sink's may lack the latter.
RolesFollowConfigs ==
    <>[](\A n \in Ns, c \in Child \cap Roles :
            /\ Current(kac[n]) # None
            /\ Current(child[n][c]) # None
            => \E o \in {Current(ckac)} \cup
                        (IF ReadErrors /\ c = "sinkRole" THEN {None} ELSE {}) :
                  Current(child[n][c]).kinds =
                     Known \cap (Resources(Current(kac[n])) \cup Resources(o)))

=============================================================================
