----------------------------- MODULE LogLookup -----------------------------
(***************************************************************************)
(* GetLogURL of the API server with queryLogURL of the database: find the  *)
(* Pod whose log stands for a resource, and the log record of one of its   *)
(* containers.  For a resource that is no Pod, the resources it owns are   *)
(* searched level by level.  Every query sees what is committed by then;   *)
(* the sink goes on writing meanwhile.                                     *)
(***************************************************************************)
EXTENDS Integers, FiniteSets

CONSTANTS
    Uid,         \* archived objects, by the id of their row (a number)
    Pod,         \* those of kind Pod
    Container,   \* names of containers
    MaxTime,     \* bound: creation timestamps are seconds 1..MaxTime
    MaxCommits,  \* bound: transactions of the sink
    None         \* no object, no container

ASSUME LogLookupAssumption ==
    /\ Uid \subseteq Nat /\ IsFiniteSet(Uid) /\ Pod \subseteq Uid
    /\ MaxTime \in Nat /\ MaxCommits \in Nat
    /\ None \notin Uid \cup Container

VARIABLES
    (* Objects, which nothing here changes                                 *)
    created,    \* creation timestamps
    owners,     \* uids in metadata.ownerReferences of an object
    preferred,  \* container of the default-container annotation, else the
                \* first one; None for a Pod without containers
    (* The database                                                        *)
    archived,   \* objects that have a row
    urls,       \* urls[p]: containers of p with a row in log_url
    commits,    \* number of transactions so far
    (* The request                                                         *)
    step,       \* position of queryLogURL
    target,     \* [uids |-> objects the name or UID fits, container |-> ...]
    ownersUuids, podUuids,  \* arguments of getOwnedPodsUuids
    pod,        \* the Pod selected, None before
    found,      \* status: 0 searching, 200 a log record, 404, 500
    (* Histories                                                           *)
    atStart     \* what was archived when the request came

objects == <<created, owners, preferred>>
lookupVars == <<created, owners, preferred, archived, urls, commits, step,
                target, ownersUuids, podUuids, pod, found, atStart>>

\* CreationTSAndIDSorter: newest first, then the highest id.
Newer(u, w) == created[u] > created[w] \/ (created[u] = created[w] /\ u > w)

\* Fault: the oldest comes first.
Newest_Oldest(S) == CHOOSE u \in S : \A w \in S \ {u} : Newer(w, u)

\* The first row of the query.
Newest(S) == CHOOSE u \in S : \A w \in S \ {u} : Newer(u, w)

\* OwnerFilter: archived objects with one of the owners.
OwnedBy(S) == {u \in archived : owners[u] \cap S # {}}

\* ownerReferences name objects created before, so no object owns itself; the
\* code takes this for granted.
NoCycles == \A u \in Uid : \A w \in owners[u] : w < u

LookupInit ==
    /\ created \in [Uid -> 1..MaxTime]
    /\ owners \in [Uid -> SUBSET Uid] /\ NoCycles
    /\ \A p \in Pod, u \in Uid : p \notin owners[u]
    /\ preferred \in [Pod -> Container \cup {None}]
    /\ archived \in SUBSET Uid /\ commits = 0
    /\ urls \in [Pod -> SUBSET Container]
    /\ \A p \in Pod \ archived : urls[p] = {}
    /\ step = "idle"
    /\ target \in [uids : {S \in SUBSET Uid : S \subseteq Pod \/ S \cap Pod = {}},
                   container : Container \cup {None}]
    /\ ownersUuids = {} /\ podUuids = {} /\ pod = None /\ found = 0
    /\ atStart = {}

(* WriteResource commits: a row, and for a Pod its log URLs replaced.      *)
Commit(u, cs) ==
    /\ commits < MaxCommits /\ commits' = commits + 1
    /\ archived' = archived \cup {u}
    /\ IF u \in Pod THEN urls' = [urls EXCEPT ![u] = cs]
                    ELSE cs = {} /\ urls' = urls
    /\ UNCHANGED <<objects, step, target, ownersUuids, podUuids, pod, found, atStart>>

Lookup(next, status) ==
    /\ step' = next /\ found' = status
    /\ UNCHANGED <<objects, archived, urls, commits, target>>

Begin ==
    /\ step = "idle"
    /\ Lookup("find", 0)
    /\ atStart' = archived
    /\ UNCHANGED <<ownersUuids, podUuids, pod>>

\* The newest Pod of the name, or the newest owner of the name; the kind of
\* the request says which.
FindPod ==
    /\ step = "find" /\ target.uids \cap Pod # {}
    /\ LET rows == target.uids \cap archived
       IN IF rows = {} THEN Lookup("end", 404) /\ pod' = pod
                       ELSE Lookup("urls", 0) /\ pod' = Newest(rows)
    /\ UNCHANGED <<ownersUuids, podUuids, atStart>>

FindOwner ==
    /\ step = "find" /\ target.uids \cap Pod = {}
    /\ LET rows == target.uids \cap archived
       IN IF rows = {}
          THEN Lookup("end", 404) /\ ownersUuids' = ownersUuids
          ELSE Lookup("owned", 0) /\ ownersUuids' = {Newest(rows)}
    /\ UNCHANGED <<podUuids, pod, atStart>>

\* Fault: the search goes on from the same owners.
OwnedPods_SameOwners ==
    /\ step = "owned" /\ ownersUuids # {}
    /\ podUuids' = podUuids \cup (OwnedBy(ownersUuids) \cap Pod)
    /\ ownersUuids' = ownersUuids
    /\ Lookup("owned", 0)
    /\ UNCHANGED <<pod, atStart>>
\* One level of getOwnedPodsUuids.
OwnedPods ==
    /\ step = "owned" /\ ownersUuids # {}
    /\ podUuids' = podUuids \cup (OwnedBy(ownersUuids) \cap Pod)
    /\ ownersUuids' = OwnedBy(ownersUuids) \ Pod
    /\ Lookup("owned", 0)
    /\ UNCHANGED <<pod, atStart>>

\* The Pods are sorted by date, latest first; the sort is not stable.
PickPod ==
    /\ step = "owned" /\ ownersUuids = {}
    /\ \/ /\ podUuids = {}
          /\ Lookup("end", 404) /\ pod' = pod
       \/ \E p \in podUuids :
             /\ \A q \in podUuids : created[q] <= created[p]
             /\ Lookup("urls", 0) /\ pod' = p
    /\ UNCHANGED <<ownersUuids, podUuids, atStart>>

\* getLogsForPodSelector: choose the container and read its log record.
ReadUrl ==
    /\ step = "urls"
    /\ LET c == IF target.container # None THEN target.container
                ELSE preferred[pod]
       IN Lookup("end", IF c = None THEN 500
                        ELSE IF c \in urls[pod] THEN 200 ELSE 404)
    /\ UNCHANGED <<ownersUuids, podUuids, pod, atStart>>

LookupFails ==
    /\ step \in {"find", "owned", "urls"}
    /\ Lookup("end", 500)
    /\ UNCHANGED <<ownersUuids, podUuids, pod, atStart>>

LookupSteps ==
    Begin \/ FindPod \/ FindOwner \/ OwnedPods \/ PickPod \/ ReadUrl

LookupNext ==
    \/ \E u \in Uid, cs \in SUBSET Container : Commit(u, cs)
    \/ LookupSteps
    \/ LookupFails

-----------------------------------------------------------------------------
\* Variables have the values the declarations say.
LookupTypeOK ==
    /\ archived \subseteq Uid /\ urls \in [Pod -> SUBSET Container]
    /\ commits \in 0..MaxCommits
    /\ step \in {"idle", "find", "owned", "urls", "end"}
    /\ ownersUuids \subseteq Uid \ Pod /\ podUuids \subseteq Pod
    /\ pod \in Pod \cup {None} /\ found \in {0, 200, 404, 500}
    /\ atStart \subseteq archived

\* A set that has, with an object, every object of S that it owns.
Closed(C, S) == \A w \in S : owners[w] \cap C # {} => w \in C

\* p is u, or u owns it over objects of S: it is in every closed set u is in.
Descends(u, p, S) == \A C \in SUBSET Uid : u \in C /\ Closed(C, S) => p \in C

\* The log served is that of a Pod of the resource asked for, and no Pod of
\* the resource that was archived when the request came, with what lies
\* between them, is newer.  Of several resources of the name the newest counts.
NewestPodServed ==
    found = 200 /\ step = "end" =>
        /\ \E u \in target.uids \cap archived : Descends(u, pod, archived)
        /\ LET known == target.uids \cap atStart
           IN known # {} /\ (\A u \in target.uids : Newer(u, Newest(known)) =>
                                 u \notin archived) =>
                /\ Descends(Newest(known), pod, archived)
                /\ \A p \in Pod : Descends(Newest(known), p, atStart)
                                    => created[p] <= created[pod]
=============================================================================
