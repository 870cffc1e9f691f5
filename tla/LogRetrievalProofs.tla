------------------------- MODULE LogRetrievalProofs -------------------------
(***************************************************************************)
(* Proofs about the log endpoint: the Pod that is found (LogLookup) and the *)
(* lines and the status that are sent (LogRetrieval), for any objects, any  *)
(* log and any configuration.                                               *)
(***************************************************************************)
EXTENDS LogRetrieval, FiniteSetTheorems, SequenceTheorems, WellFoundedInduction, TLAPS

-----------------------------------------------------------------------------
(* The search for a Pod *)

ObjectsOK ==
    /\ created \in [Uid -> 1..MaxTime] /\ owners \in [Uid -> SUBSET Uid]
    /\ \A p \in Pod, u \in Uid : p \notin owners[u]
    /\ target \in [uids : {S \in SUBSET Uid : S \subseteq Pod \/ S \cap Pod = {}},
                   container : Container \cup {None}]
    /\ preferred \in [Pod -> Container \cup {None}]

\* No object of the name that was archived when the request came is newer.
Chosen(o) ==
    /\ o \in target.uids \cap archived
    /\ \A u \in target.uids \cap atStart : u = o \/ Newer(o, u)

\* What was found descends from o, and what descended from o at the start was
\* found or is still to be.
SearchedFrom(o) ==
    /\ \A w \in podUuids \cup ownersUuids : Descends(o, w, archived)
    /\ \A p \in Pod : Descends(o, p, atStart) =>
          p \in podUuids \/ \E w \in ownersUuids : Descends(w, p, atStart)

\* The Pod selected is the newest that descends from o.
PickedFrom(o) ==
    /\ pod \in Pod /\ Descends(o, pod, archived)
    /\ \A p \in Pod : Descends(o, p, atStart) => created[p] <= created[pod]

LookupInv ==
    /\ LookupTypeOK /\ ObjectsOK
    /\ step \in {"idle", "find"} => podUuids = {} /\ ownersUuids = {}
    /\ step = "owned" => /\ target.uids \cap Pod = {}
                         /\ \E o \in Uid : Chosen(o) /\ SearchedFrom(o)
    /\ step = "urls" \/ (step = "end" /\ found = 200) =>
          \E o \in Uid : Chosen(o) /\ PickedFrom(o)
    /\ step # "end" => found = 0

\* A set of numbers with a member has a least one.
LEMMA Least ==
    ASSUME NEW S \in SUBSET Nat, NEW x \in S
    PROVE  \E i \in S : \A j \in S : i <= j
<1> DEFINE R == OpToRel(<, Nat)
<1>1. IsWellFoundedOn(R, Nat)
  BY NatLessThanWellFounded
<1>2. PICK i \in S : \A j \in S : <<j, i>> \notin R
  BY <1>1, WFMin
<1>0. R = {ss \in Nat \X Nat : ss[1] < ss[2]}
  BY DEF OpToRel
<1> HIDE DEF R
<1>3. \A j \in S : ~(j < i)
  BY <1>0, <1>2
<1> QED
  BY <1>2, <1>3

\* Newer orders all objects, so Newest is the newest of a set.
LEMMA NewestIsNewest ==
    ASSUME ObjectsOK, NEW S \in SUBSET Uid, S # {}
    PROVE  Newest(S) \in S /\ \A w \in S \ {Newest(S)} : Newer(Newest(S), w)
<1> DEFINE Above(u) == {w \in S : Newer(w, u)}
           N == {Cardinality(Above(u)) : u \in S}
<1>0. \A u \in Uid : u \in Nat /\ created[u] \in Nat
  BY LogLookupAssumption DEF ObjectsOK
<1>1. IsFiniteSet(S)
  BY LogLookupAssumption, FS_Subset
<1>2. \A u \in S : IsFiniteSet(Above(u)) /\ Cardinality(Above(u)) \in Nat
  BY <1>1, FS_Subset, FS_CardinalityType
<1>3. N \in SUBSET Nat /\ N # {}
  BY <1>2
<1>4. PICK n \in N : \A m \in N : n <= m
  <2> HIDE DEF N
  <2> QED
    BY <1>3, Least
<1>5. PICK u \in S : n = Cardinality(Above(u))
  BY <1>4
<1>6. ASSUME NEW w \in S \ {u} PROVE Newer(u, w)
  <2> SUFFICES ASSUME ~Newer(u, w) PROVE FALSE
    OBVIOUS
  <2>1. Newer(w, u)
    BY <1>0 DEF Newer
  <2>2. Above(w) \subseteq Above(u)
    BY <1>0, <2>1 DEF Newer
  <2>3. w \in Above(u) /\ w \notin Above(w)
    BY <1>0, <2>1 DEF Newer
  <2>4. Cardinality(Above(w)) < Cardinality(Above(u))
    <3> HIDE DEF Above
    <3>1. Cardinality(Above(w)) <= Cardinality(Above(u))
      BY <1>2, <2>2, FS_Subset
    <3>2. Cardinality(Above(w)) # Cardinality(Above(u))
      BY <1>2, <2>2, <2>3, FS_Subset
    <3> QED
      BY <1>2, <3>1, <3>2
  <2>5. n <= Cardinality(Above(w))
    BY <1>4
  <2>6. Cardinality(Above(w)) \in Nat /\ Cardinality(Above(u)) \in Nat
    BY <1>2
  <2> HIDE DEF Above, N
  <2> QED
    BY <1>5, <2>4, <2>5, <2>6
<1> QED
  BY <1>6 DEF Newest

\* The steps of a path of ownership: none, one more, and over more objects.
LEMMA DescendsFacts ==
    ASSUME ObjectsOK, NEW S \in SUBSET Uid, NEW T \in SUBSET Uid, S \subseteq T
    PROVE  /\ \A u \in Uid : Descends(u, u, S)
           /\ \A u, w \in Uid, p \in S :
                 Descends(u, w, S) /\ w \in owners[p] => Descends(u, p, S)
           /\ \A u, p \in Uid : Descends(u, p, S) => Descends(u, p, T)
<1>1. \A u \in Uid : Descends(u, u, S)
  BY DEF Descends
<1>2. ASSUME NEW u \in Uid, NEW w \in Uid, NEW p \in S, Descends(u, w, S), w \in owners[p]
      PROVE  Descends(u, p, S)
  BY <1>2 DEF Descends, Closed
<1>3. ASSUME NEW u \in Uid, NEW p \in Uid, Descends(u, p, S) PROVE Descends(u, p, T)
  <2>1. \A C \in SUBSET Uid : Closed(C, T) => Closed(C, S)
    BY DEF Closed
  <2> QED
    BY <1>3, <2>1 DEF Descends
<1> QED
  BY <1>1, <1>2, <1>3

\* Nothing but the Pod itself descends from a Pod.
LEMMA PodOwnsNothing ==
    ASSUME ObjectsOK, NEW S \in SUBSET Uid, NEW p \in Pod, NEW q, Descends(p, q, S)
    PROVE  q = p
<1>1. {p} \in SUBSET Uid
  BY LogLookupAssumption
<1>2. Closed({p}, S)
  BY DEF Closed, ObjectsOK
<1> QED
  BY <1>1, <1>2 DEF Descends

\* What descends from an object is the object, or descends from one it owns.
LEMMA DescendsUnfold ==
    ASSUME ObjectsOK, NEW S \in SUBSET Uid, NEW w \in Uid, NEW p \in Uid,
           Descends(w, p, S), p # w
    PROVE  \E y \in S : w \in owners[y] /\ Descends(y, p, S)
<1> DEFINE C == {w} \cup {x \in Uid : \E y \in S : w \in owners[y] /\ Descends(y, x, S)}
<1>1. C \in SUBSET Uid /\ w \in C
  OBVIOUS
<1>2. ASSUME NEW z \in S, NEW x \in owners[z] \cap C PROVE z \in C
  <2>1. CASE x = w
    BY <2>1, DescendsFacts
  <2>2. CASE x # w
    <3>1. PICK y \in S : w \in owners[y] /\ Descends(y, x, S)
      BY <2>2
    <3>2. x \in Uid /\ x \in owners[z]
      BY <1>1
    <3>3. Descends(y, z, S)
      BY <3>1, <3>2, DescendsFacts
    <3> QED
      BY <3>1, <3>3
  <2> QED
    BY <2>1, <2>2
<1>3. Closed(C, S)
  BY <1>2 DEF Closed
<1>4. p \in C
  <2> HIDE DEF C
  <2> QED
    BY <1>1, <1>3 DEF Descends
<1> QED
  BY <1>4

\* The lookup's invariant holds at the start.
LEMMA InitLookupInv == LookupInit => LookupInv
<1> SUFFICES ASSUME LookupInit PROVE LookupInv
  OBVIOUS
<1>1. LookupTypeOK /\ ObjectsOK
  BY LogLookupAssumption DEF LookupInit, LookupTypeOK, ObjectsOK
<1> QED
  BY <1>1 DEF LookupInit, LookupInv

\* A commit adds objects; what was found stays found.
LEMMA CommitLookupInv ==
    ASSUME LookupInv, NEW u \in Uid, NEW cs \in SUBSET Container, Commit(u, cs)
    PROVE  LookupInv'
<1> USE DEF LookupInv
<1>1. LookupTypeOK' /\ ObjectsOK'
  BY LogLookupAssumption DEF Commit, LookupTypeOK, ObjectsOK, objects
<1>2. /\ UNCHANGED <<created, owners, preferred, step, target, ownersUuids,
                    podUuids, pod, found, atStart>>
      /\ archived \subseteq archived' /\ archived' \subseteq Uid /\ atStart \subseteq Uid
  BY <1>1 DEF Commit, objects, LookupTypeOK
<1>3. \A o \in Uid : Chosen(o) => Chosen(o)'
  BY <1>2 DEF Chosen, Newer
<1>4. \A o, p \in Uid : /\ Descends(o, p, archived) => Descends(o, p, archived)'
                        /\ Descends(o, p, atStart)' <=> Descends(o, p, atStart)
  <2>1. \A o, p \in Uid : Descends(o, p, archived) => Descends(o, p, archived')
    BY <1>2, DescendsFacts DEF LookupTypeOK
  <2> QED
    BY <1>2, <2>1 DEF Descends, Closed
<1>5. podUuids \cup ownersUuids \subseteq Uid /\ Pod \subseteq Uid
  BY LogLookupAssumption DEF LookupTypeOK
<1>6. \A o \in Uid : SearchedFrom(o) => SearchedFrom(o)'
  BY <1>2, <1>4, <1>5 DEF SearchedFrom
<1>7. \A o \in Uid : PickedFrom(o) => PickedFrom(o)'
  BY <1>2, <1>4, <1>5 DEF PickedFrom
<1> QED
  BY <1>1, <1>2, <1>3, <1>6, <1>7

\* The steps of the request leave the objects and the database alone.
LEMMA LookupLeaves ==
    ASSUME LookupInv, NEW next, NEW status_, Lookup(next, status_), UNCHANGED atStart
    PROVE  /\ ObjectsOK'
           /\ UNCHANGED <<created, owners, preferred, archived, urls, commits, target, atStart>>
           /\ \A o \in Uid : Chosen(o) => Chosen(o)'
           /\ \A o, p, S : Descends(o, p, S)' <=> Descends(o, p, S)
<1>1. UNCHANGED <<created, owners, preferred, archived, urls, commits, target, atStart>>
  BY DEF Lookup, objects
<1>2. ObjectsOK' /\ \A o \in Uid : Chosen(o) => Chosen(o)'
  BY <1>1 DEF LookupInv, ObjectsOK, Chosen, Newer
<1> QED
  BY <1>1, <1>2 DEF Descends, Closed

\* Of the rows found, the newest counts; rows of the start are among them.
LEMMA NewestIsChosen ==
    ASSUME LookupInv, target.uids \cap archived # {}
    PROVE  LET o == Newest(target.uids \cap archived)
           IN o \in Uid /\ o \in target.uids /\ Chosen(o)
<1> DEFINE rows == target.uids \cap archived
<1>1. rows \in SUBSET Uid /\ atStart \subseteq archived /\ rows # {}
  BY DEF LookupInv, LookupTypeOK
<1>2. Newest(rows) \in rows /\ \A w \in rows \ {Newest(rows)} : Newer(Newest(rows), w)
  <2> HIDE DEF rows
  <2> QED
    BY <1>1, NewestIsNewest DEF LookupInv
<1> QED
  BY <1>1, <1>2 DEF Chosen

\* A request for a log keeps it.
LEMMA BeginLookupInv == ASSUME LookupInv, Begin PROVE LookupInv'
<1>1. ObjectsOK'
  BY DEF LookupInv, ObjectsOK, Begin, Lookup, objects
<1> QED
  BY <1>1 DEF LookupInv, LookupTypeOK, Begin, Lookup, objects

\* Finding a Pod by its name keeps it.
LEMMA FindPodLookupInv == ASSUME LookupInv, FindPod PROVE LookupInv'
<1> DEFINE rows == target.uids \cap archived
<1>0. ObjectsOK /\ LookupTypeOK /\ Pod \subseteq Uid
  BY LogLookupAssumption DEF LookupInv
<1>1. CASE rows = {}
  <2>1. Lookup("end", 404) /\ pod' = pod /\ UNCHANGED <<ownersUuids, podUuids, atStart>>
    BY <1>1 DEF FindPod
  <2>2. ObjectsOK'
    BY <2>1, LookupLeaves
  <2>3. LookupTypeOK'
    BY <1>0, <2>1 DEF LookupTypeOK, Lookup, objects
  <2> QED
    BY <2>1, <2>2, <2>3 DEF LookupInv, Lookup
<1>2. CASE rows # {}
  <2>1. /\ Lookup("urls", 0) /\ pod' = Newest(rows) /\ UNCHANGED <<ownersUuids, podUuids, atStart>>
        /\ step = "find"
    BY <1>2 DEF FindPod
  <2>2. PICK o \in Uid : o = Newest(rows) /\ o \in target.uids /\ Chosen(o)
    BY <1>2, NewestIsChosen
  <2>3. o \in Pod
    <3>1. target.uids \subseteq Pod
      BY <1>0 DEF FindPod, ObjectsOK
    <3> QED
      BY <2>2, <3>1
  <2>4. ObjectsOK' /\ Chosen(o)'
    BY <2>1, <2>2, LookupLeaves
  <2>5. LookupTypeOK'
    BY <1>0, <2>1, <2>2, <2>3 DEF LookupTypeOK, Lookup, objects
  <2>6. Descends(o, o, archived) /\ \A p \in Pod : Descends(o, p, atStart) => p = o
    <3>1. archived \in SUBSET Uid /\ atStart \in SUBSET Uid
      BY <1>0 DEF LookupTypeOK
    <3> QED
      BY <1>0, <2>2, <2>3, <3>1, DescendsFacts, PodOwnsNothing
  <2>7. PickedFrom(o)'
    <3>1. created[o] <= created[o]
      BY <1>0, <2>2 DEF ObjectsOK
    <3>2. \A p, S : Descends(o, p, S)' <=> Descends(o, p, S)
      BY <2>1, <2>2, LookupLeaves
    <3>3. UNCHANGED <<created, archived, atStart>>
      BY <2>1 DEF Lookup, objects
    <3> QED
      BY <2>1, <2>2, <2>3, <2>6, <3>1, <3>2, <3>3 DEF PickedFrom
  <2> QED
    BY <2>1, <2>2, <2>4, <2>5, <2>7 DEF LookupInv, Lookup
<1> QED
  BY <1>1, <1>2

\* Finding the owner the search begins with keeps it.
LEMMA FindOwnerLookupInv == ASSUME LookupInv, FindOwner PROVE LookupInv'
<1> DEFINE rows == target.uids \cap archived
<1>0. ObjectsOK /\ LookupTypeOK /\ Pod \subseteq Uid /\ podUuids = {} /\ target.uids \cap Pod = {}
  BY LogLookupAssumption DEF LookupInv, FindOwner
<1>1. CASE rows = {}
  <2>1. Lookup("end", 404) /\ UNCHANGED <<pod, ownersUuids, podUuids, atStart>>
    BY <1>1 DEF FindOwner
  <2>2. ObjectsOK'
    BY <2>1, LookupLeaves
  <2>3. LookupTypeOK'
    BY <1>0, <2>1 DEF LookupTypeOK, Lookup, objects
  <2> QED
    BY <2>1, <2>2, <2>3 DEF LookupInv, Lookup
<1>2. CASE rows # {}
  <2>1. Lookup("owned", 0) /\ ownersUuids' = {Newest(rows)} /\ UNCHANGED <<podUuids, pod, atStart>>
    BY <1>2 DEF FindOwner
  <2>2. PICK o \in Uid : o = Newest(rows) /\ o \in target.uids /\ Chosen(o)
    BY <1>2, NewestIsChosen
  <2>3. o \in Uid \ Pod
    BY <1>0, <2>2
  <2>4. ObjectsOK' /\ Chosen(o)'
    BY <2>1, <2>2, LookupLeaves
  <2>5. LookupTypeOK'
    BY <1>0, <2>1, <2>2, <2>3 DEF LookupTypeOK, Lookup, objects
  <2>6. Descends(o, o, archived)
    BY <1>0, <2>2, DescendsFacts DEF LookupTypeOK
  <2>7. SearchedFrom(o)'
    <3>1. \A u, p, S : Descends(u, p, S)' <=> Descends(u, p, S)
      BY <2>1, LookupLeaves
    <3>2. UNCHANGED <<archived, atStart>>
      BY <2>1 DEF Lookup, objects
    <3> QED
      BY <1>0, <2>1, <2>2, <2>6, <3>1, <3>2 DEF SearchedFrom
  <2> QED
    BY <1>0, <2>1, <2>2, <2>4, <2>5, <2>7 DEF LookupInv, Lookup
<1> QED
  BY <1>1, <1>2

\* A level of the search: what is owned by the owners of before is found, as a
\* Pod or as an owner to go on from.
LEMMA OwnedPodsLookupInv == ASSUME LookupInv, OwnedPods PROVE LookupInv'
<1>0. ObjectsOK /\ LookupTypeOK /\ Pod \subseteq Uid /\ target.uids \cap Pod = {}
  BY LogLookupAssumption DEF LookupInv, OwnedPods
<1>1. PICK o \in Uid : Chosen(o) /\ SearchedFrom(o)
  BY DEF LookupInv, OwnedPods
<1>2. /\ podUuids' = podUuids \cup (OwnedBy(ownersUuids) \cap Pod)
      /\ ownersUuids' = OwnedBy(ownersUuids) \ Pod
      /\ Lookup("owned", 0) /\ UNCHANGED <<pod, atStart>>
  BY DEF OwnedPods
<1>3. ObjectsOK' /\ Chosen(o)' /\ UNCHANGED <<archived, atStart>>
  BY <1>1, <1>2, LookupLeaves
<1>4. \A u, p, S : Descends(u, p, S)' <=> Descends(u, p, S)
  BY <1>2, LookupLeaves
<1>5. /\ archived \in SUBSET Uid /\ atStart \in SUBSET Uid /\ atStart \subseteq archived
      /\ ownersUuids \in SUBSET (Uid \ Pod) /\ podUuids \in SUBSET Pod
  BY <1>0 DEF LookupTypeOK
<1>6. LookupTypeOK'
  BY <1>0, <1>2 DEF LookupTypeOK, Lookup, objects, OwnedBy
<1>7. ASSUME NEW w \in OwnedBy(ownersUuids) PROVE Descends(o, w, archived)
  <2>1. PICK x \in ownersUuids : x \in owners[w]
    BY <1>7 DEF OwnedBy
  <2>2. w \in archived /\ x \in Uid /\ Descends(o, x, archived)
    BY <1>1, <1>5, <1>7 DEF OwnedBy, SearchedFrom
  <2> QED
    BY <1>0, <1>5, <2>1, <2>2, DescendsFacts
<1>8. ASSUME NEW p \in Pod, Descends(o, p, atStart)
      PROVE  p \in podUuids' \/ \E w \in ownersUuids' : Descends(w, p, atStart)
  <2>1. CASE p \in podUuids
    BY <1>2, <2>1
  <2>2. ASSUME NEW w \in ownersUuids, Descends(w, p, atStart)
        PROVE  p \in podUuids' \/ \E y \in ownersUuids' : Descends(y, p, atStart)
    <3>1. w \in Uid /\ p \in Uid /\ p # w
      BY <1>0, <1>5
    <3>2. PICK y \in atStart : w \in owners[y] /\ Descends(y, p, atStart)
      BY <1>0, <1>5, <2>2, <3>1, DescendsUnfold
    <3>3. y \in OwnedBy(ownersUuids)
      BY <1>5, <3>2 DEF OwnedBy
    <3>4. CASE y \in Pod
      <4>1. p = y
        BY <1>0, <1>5, <3>2, <3>4, PodOwnsNothing
      <4> QED
        BY <1>2, <3>3, <3>4, <4>1
    <3> QED
      BY <1>2, <3>2, <3>3, <3>4
  <2> QED
    BY <1>1, <1>8, <2>1, <2>2 DEF SearchedFrom
<1>9. SearchedFrom(o)'
  <2>1. \A w \in podUuids' \cup ownersUuids' : Descends(o, w, archived)
    BY <1>1, <1>2, <1>7 DEF SearchedFrom
  <2> QED
    BY <1>3, <1>4, <1>8, <2>1 DEF SearchedFrom
<1> QED
  BY <1>0, <1>2, <1>3, <1>6, <1>9 DEF LookupInv, Lookup

\* Choosing the newest of the pods found keeps it.
LEMMA PickPodLookupInv == ASSUME LookupInv, PickPod PROVE LookupInv'
<1>0. ObjectsOK /\ LookupTypeOK /\ Pod \subseteq Uid
  BY LogLookupAssumption DEF LookupInv
<1>1. PICK o \in Uid : Chosen(o) /\ SearchedFrom(o)
  BY DEF LookupInv, PickPod
<1>2. CASE Lookup("end", 404) /\ UNCHANGED <<pod, ownersUuids, podUuids, atStart>>
  <2>1. ObjectsOK'
    BY <1>2, LookupLeaves
  <2>2. LookupTypeOK'
    BY <1>0, <1>2 DEF LookupTypeOK, Lookup, objects
  <2> QED
    BY <1>2, <2>1, <2>2 DEF LookupInv, Lookup
<1>3. ASSUME NEW p \in podUuids, \A q \in podUuids : created[q] <= created[p],
             Lookup("urls", 0), pod' = p, UNCHANGED <<ownersUuids, podUuids, atStart>>
      PROVE  LookupInv'
  <2>1. ObjectsOK' /\ Chosen(o)' /\ UNCHANGED <<created, archived, atStart>>
    BY <1>1, <1>3, LookupLeaves
  <2>2. p \in Pod /\ LookupTypeOK'
    BY <1>0, <1>3 DEF LookupTypeOK, Lookup, objects
  <2>3. \A u, q, S : Descends(u, q, S)' <=> Descends(u, q, S)
    BY <1>3, LookupLeaves
  <2>4. ownersUuids = {}
    BY DEF PickPod
  <2>5. PickedFrom(o)'
    BY <1>1, <1>3, <2>1, <2>2, <2>3, <2>4 DEF SearchedFrom, PickedFrom
  <2> QED
    BY <1>3, <2>1, <2>2, <2>5 DEF LookupInv, Lookup
<1> QED
  BY <1>2, <1>3 DEF PickPod

\* Reading the log URL, or failing, keeps it.
LEMMA ReadUrlLookupInv == ASSUME LookupInv, ReadUrl \/ LookupFails PROVE LookupInv'
<1>0. ObjectsOK /\ LookupTypeOK
  BY DEF LookupInv
<1>1. PICK code \in {200, 404, 500} : Lookup("end", code) /\ (code = 200 => step = "urls")
  BY DEF ReadUrl, LookupFails
<1>2. UNCHANGED <<ownersUuids, podUuids, pod, atStart>>
  BY DEF ReadUrl, LookupFails
<1>3. ObjectsOK' /\ UNCHANGED <<created, archived, atStart>> /\ \A o \in Uid : Chosen(o) => Chosen(o)'
  BY <1>1, <1>2, LookupLeaves
<1>4. LookupTypeOK'
  BY <1>0, <1>1, <1>2 DEF LookupTypeOK, Lookup, objects
<1>5. \A u, q, S : Descends(u, q, S)' <=> Descends(u, q, S)
  BY <1>1, <1>2, LookupLeaves
<1>6. \A o \in Uid : PickedFrom(o) => PickedFrom(o)'
  BY <1>2, <1>3, <1>5 DEF PickedFrom
<1> QED
  BY <1>1, <1>2, <1>3, <1>4, <1>6 DEF LookupInv, Lookup

\* Every step of the lookup keeps its invariant.
LEMMA LookupInductive ==
    ASSUME LookupInv, (LookupNext /\ UNCHANGED retrieval) \/ UNCHANGED lookupVars
    PROVE  LookupInv'
<1>1. CASE UNCHANGED lookupVars
  BY <1>1 DEF lookupVars, LookupInv, LookupTypeOK, ObjectsOK, Chosen, SearchedFrom,
              PickedFrom, Descends, Closed, Newer
<1> QED
  BY <1>1, CommitLookupInv, BeginLookupInv, FindPodLookupInv, FindOwnerLookupInv,
     OwnedPodsLookupInv, PickPodLookupInv, ReadUrlLookupInv DEF LookupNext, LookupSteps

\* The invariant has the property.
LEMMA LookupInvServes == LookupInv => NewestPodServed
<1> SUFFICES ASSUME LookupInv, found = 200, step = "end"
             PROVE  NewestPodServed
  BY DEF NewestPodServed
<1> DEFINE known == target.uids \cap atStart
<1>1. PICK o \in Uid : Chosen(o) /\ PickedFrom(o)
  BY DEF LookupInv
<1>2. known \in SUBSET Uid
  BY DEF LookupInv, LookupTypeOK
<1>3. ASSUME known # {},
             \A u \in target.uids : Newer(u, Newest(known)) => u \notin archived
      PROVE  Newest(known) = o
  <2>1. Newest(known) \in known
    <3> HIDE DEF known
    <3> QED
      BY <1>2, <1>3, NewestIsNewest DEF LookupInv
  <2> QED
    BY <1>1, <1>3, <2>1 DEF Chosen
<1> HIDE DEF known
<1> QED
  BY <1>1, <1>3 DEF NewestPodServed, Chosen, PickedFrom, known

-----------------------------------------------------------------------------
(* What FlattenSeq computes *)

\* f[i] joins the first i members of s.
Joins(f, s, T) ==
    /\ f \in [1..Len(s) -> Seq(T)]
    /\ \A i \in 1..Len(s) : f[i] = IF i = 1 THEN s[i] ELSE f[i - 1] \o s[i]

\* Joins determines f, one position after the other.
LEMMA JoinsUnique ==
    ASSUME NEW T, NEW s \in Seq(Seq(T)), NEW f, NEW g, Joins(f, s, T), Joins(g, s, T)
    PROVE  f = g
<1> DEFINE Bad == {i \in 1..Len(s) : f[i] # g[i]}
<1>1. ASSUME NEW x \in Bad PROVE FALSE
  <2>1. Len(s) \in Nat /\ Bad \in SUBSET Nat
    OBVIOUS
  <2>2. PICK i \in Bad : \A j \in Bad : i <= j
    <3> HIDE DEF Bad
    <3> QED
      BY <1>1, <2>1, Least
  <2>3. CASE i = 1
    BY <2>2, <2>3 DEF Joins
  <2>4. CASE i # 1
    <3>1. i - 1 \in 1..Len(s) /\ ~(i <= i - 1)
      BY <2>1, <2>4
    <3>2. f[i - 1] = g[i - 1]
      BY <2>2, <3>1
    <3>3. f[i] = f[i - 1] \o s[i] /\ g[i] = g[i - 1] \o s[i] /\ f[i] # g[i]
      BY <2>2, <2>4 DEF Joins
    <3> QED
      BY <3>2, <3>3
  <2> QED
    BY <2>3, <2>4
<1> QED
  BY <1>1 DEF Joins

\* A longer sequence is joined by joining its last member to the others.
LEMMA JoinsAppend ==
    ASSUME NEW T, NEW s \in Seq(Seq(T)), NEW x \in Seq(T), NEW f, Joins(f, s, T)
    PROVE  \E g : /\ Joins(g, Append(s, x), T)
                  /\ g[Len(s) + 1] = IF s = <<>> THEN x ELSE f[Len(s)] \o x
<1> DEFINE n == Len(s)
           last == IF n = 0 THEN x ELSE f[n] \o x
           g == [i \in 1..(n + 1) |-> IF i = n + 1 THEN last ELSE f[i]]
<1>0. n \in Nat /\ (n = 0 <=> s = <<>>)
  OBVIOUS
<1>1. last \in Seq(T)
  <2>1. CASE n = 0
    BY <2>1
  <2>2. CASE n # 0
    <3>1. n \in 1..Len(s)
      BY <1>0, <2>2
    <3>2. f[n] \in Seq(T)
      BY <3>1 DEF Joins
    <3>3. f[n] \o x \in Seq(T)
      BY <3>2, ConcatProperties
    <3> QED
      BY <2>2, <3>3
  <2> QED
    BY <2>1, <2>2
<1>2. /\ Append(s, x) \in Seq(Seq(T)) /\ Len(Append(s, x)) = n + 1
      /\ \A i \in 1..n : Append(s, x)[i] = s[i]
      /\ Append(s, x)[n + 1] = x
  OBVIOUS
<1>3. g \in [1..(n + 1) -> Seq(T)]
  BY <1>0, <1>1 DEF Joins
<1>4. ASSUME NEW i \in 1..(n + 1)
      PROVE  g[i] = IF i = 1 THEN Append(s, x)[i] ELSE g[i - 1] \o Append(s, x)[i]
  <2>1. CASE i = n + 1
    <3>1. CASE n = 0
      BY <1>0, <1>2, <2>1, <3>1
    <3>2. CASE n # 0
      <4>1. i # 1 /\ i - 1 = n /\ n \in 1..(n + 1) /\ n # n + 1
        BY <1>0, <2>1, <3>2
      <4>2. g[i] = f[n] \o x /\ g[n] = f[n]
        BY <2>1, <3>2, <4>1
      <4> QED
        BY <1>2, <2>1, <4>1, <4>2
    <3> QED
      BY <3>1, <3>2
  <2>2. CASE i # n + 1
    <3>1. i \in 1..n /\ (i # 1 => i - 1 \in 1..n)
      BY <1>0, <2>2
    <3>2. g[i] = f[i] /\ (i # 1 => g[i - 1] = f[i - 1])
      BY <1>0, <3>1
    <3> QED
      BY <1>2, <3>1, <3>2 DEF Joins
  <2> QED
    BY <2>1, <2>2
<1>5. g[n + 1] = last
  BY <1>0
<1> HIDE DEF g
<1> QED
  BY <1>0, <1>2, <1>3, <1>4, <1>5 DEF Joins

\* There is such a function for every sequence.
LEMMA JoinsExists ==
    ASSUME NEW T, NEW s \in Seq(Seq(T))
    PROVE  \E f : Joins(f, s, T)
<1> DEFINE Bad == {n \in 0..Len(s) : ~\E f : Joins(f, SubSeq(s, 1, n), T)}
<1>0. Len(s) \in Nat
  OBVIOUS
<1>1. ASSUME NEW x \in Bad PROVE FALSE
  <2>1. Bad \in SUBSET Nat
    BY <1>0
  <2>2. PICK n \in Bad : \A m \in Bad : n <= m
    <3> HIDE DEF Bad
    <3> QED
      BY <1>1, <2>1, Least
  <2>3. CASE n = 0
    <3>1. SubSeq(s, 1, n) = <<>> /\ Len(SubSeq(s, 1, n)) = 0
      BY <2>3
    <3> DEFINE e == [i \in 1..0 |-> <<>>]
    <3>3. e \in [1..0 -> Seq(T)] /\ 1..0 = {}
      OBVIOUS
    <3>2. Joins(e, SubSeq(s, 1, n), T)
      BY <3>1, <3>3 DEF Joins
    <3> QED
      BY <2>2, <3>2
  <2>4. CASE n # 0
    <3>1. n \in 1..Len(s) /\ n - 1 \in 0..Len(s) /\ ~(n <= n - 1)
      BY <1>0, <2>2, <2>4
    <3>2. PICK f : Joins(f, SubSeq(s, 1, n - 1), T)
      BY <2>2, <3>1
    <3>3. /\ SubSeq(s, 1, n - 1) \in Seq(Seq(T)) /\ s[n] \in Seq(T)
          /\ SubSeq(s, 1, n) = Append(SubSeq(s, 1, n - 1), s[n])
      BY <1>0, <3>1
    <3>4. \E g : Joins(g, Append(SubSeq(s, 1, n - 1), s[n]), T)
      BY <3>2, <3>3, JoinsAppend
    <3> QED
      BY <2>2, <3>3, <3>4
  <2> QED
    BY <2>3, <2>4
<1>2. Len(s) \in 0..Len(s) /\ SubSeq(s, 1, Len(s)) = s
  BY <1>0
<1> QED
  BY <1>1, <1>2

\* FlattenSeq is the last of the partial joins.
LEMMA FlattenIsJoins ==
    ASSUME NEW T, NEW s \in Seq(Seq(T)), NEW f, Joins(f, s, T), s # <<>>
    PROVE  FlattenSeq(s) = f[Len(s)]
<1> DEFINE Fits(g) == g = [i \in 1..Len(s) |-> IF i = 1 THEN s[i] ELSE g[i - 1] \o s[i]]
           h == CHOOSE g : Fits(g)
<1>0. Len(s) \in Nat /\ Len(s) # 0
  OBVIOUS
<1>1. FlattenSeq(s) = h[Len(s)]
  BY <1>0 DEF FlattenSeq
<1>2. Fits(f)
  BY DEF Joins
<1>3. Fits(h)
  <2> HIDE DEF Fits
  <2> QED
    BY <1>2
<1>4. DOMAIN h = 1..Len(s) /\ \A i \in 1..Len(s) : h[i] = IF i = 1 THEN s[i] ELSE h[i - 1] \o s[i]
  <2> HIDE DEF h
  <2> QED
    BY <1>3
<1> HIDE DEF h
<1> DEFINE Bad == {i \in 1..Len(s) : h[i] # f[i]}
<1>5. ASSUME NEW x \in Bad PROVE FALSE
  <2>1. Bad \in SUBSET Nat
    BY <1>0
  <2>2. PICK i \in Bad : \A j \in Bad : i <= j
    <3> HIDE DEF Bad
    <3> QED
      BY <1>5, <2>1, Least
  <2>3. CASE i = 1
    BY <1>4, <2>2, <2>3 DEF Joins
  <2>4. CASE i # 1
    <3>1. i - 1 \in 1..Len(s) /\ ~(i <= i - 1)
      BY <1>0, <2>4
    <3>2. f[i - 1] = h[i - 1]
      BY <2>2, <3>1
    <3>3. f[i] = f[i - 1] \o s[i] /\ h[i] = h[i - 1] \o s[i] /\ f[i] # h[i]
      BY <1>4, <2>2, <2>4 DEF Joins
    <3> QED
      BY <3>2, <3>3
  <2> QED
    BY <2>3, <2>4
<1> QED
  BY <1>0, <1>1, <1>5

\* The empty sequence, and one member more.
LEMMA FlattenFacts ==
    ASSUME NEW T, NEW s \in Seq(Seq(T)), NEW x \in Seq(T)
    PROVE  /\ FlattenSeq(<<>>) = <<>>
           /\ FlattenSeq(s) \in Seq(T)
           /\ FlattenSeq(Append(s, x)) = FlattenSeq(s) \o x
<1>1. FlattenSeq(<<>>) = <<>>
  BY DEF FlattenSeq
<1>2. PICK f : Joins(f, s, T)
  BY JoinsExists
<1>3. PICK g : /\ Joins(g, Append(s, x), T)
               /\ g[Len(s) + 1] = IF s = <<>> THEN x ELSE f[Len(s)] \o x
  BY <1>2, JoinsAppend
<1>4. FlattenSeq(s) \in Seq(T) /\ (s # <<>> => FlattenSeq(s) = f[Len(s)])
  <2>1. CASE s = <<>>
    <3>1. <<>> \in Seq(T)
      OBVIOUS
    <3> QED
      BY <1>1, <2>1, <3>1
  <2>2. CASE s # <<>>
    <3>1. FlattenSeq(s) = f[Len(s)]
      BY <1>2, <2>2, FlattenIsJoins
    <3>2. Len(s) \in 1..Len(s)
      BY <2>2
    <3> QED
      BY <1>2, <3>1, <3>2 DEF Joins
  <2> QED
    BY <2>1, <2>2
<1>5. /\ Append(s, x) \in Seq(Seq(T)) /\ Append(s, x) # <<>>
      /\ Len(Append(s, x)) = Len(s) + 1
  BY AppendProperties
<1>6. FlattenSeq(Append(s, x)) = g[Len(s) + 1]
  BY <1>3, <1>5, FlattenIsJoins
<1>7. CASE s = <<>>
  <2>1. <<>> \o x = x
    OBVIOUS
  <2> QED
    BY <1>1, <1>3, <1>4, <1>6, <1>7, <2>1
<1> QED
  BY <1>1, <1>3, <1>4, <1>6, <1>7

\* Joining two sequences; opaque where only its laws matter.
Cat(a, b) == a \o b

\* Concatenation: its type, and that it is associative.
LEMMA CatFacts ==
    ASSUME NEW D
    PROVE  /\ \A a, b \in Seq(D) : Cat(a, b) \in Seq(D)
           /\ \A a, b, c \in Seq(D) : Cat(Cat(a, b), c) = Cat(a, Cat(b, c))
           /\ \A a, b \in Seq(D), e \in D : Cat(a, Append(b, e)) = Append(Cat(a, b), e)
<1>1. ASSUME NEW a \in Seq(D), NEW b \in Seq(D)
      PROVE  Cat(a, b) \in Seq(D)
  BY ConcatProperties DEF Cat
<1>2. ASSUME NEW a \in Seq(D), NEW b \in Seq(D), NEW c \in Seq(D)
      PROVE  Cat(Cat(a, b), c) = Cat(a, Cat(b, c))
  BY ConcatAssociative DEF Cat
<1>3. ASSUME NEW a \in Seq(D), NEW b \in Seq(D), NEW e \in D
      PROVE  Cat(a, Append(b, e)) = Append(Cat(a, b), e)
  BY DEF Cat
<1> QED
  BY <1>1, <1>2, <1>3

\* One member more at the end of the second part.
LEMMA FlattenConcatStep ==
    ASSUME NEW T, NEW s \in Seq(Seq(T)), NEW r \in Seq(Seq(T)), NEW e \in Seq(T),
           FlattenSeq(Cat(s, r)) = Cat(FlattenSeq(s), FlattenSeq(r))
    PROVE  FlattenSeq(Cat(s, Append(r, e))) = Cat(FlattenSeq(s), FlattenSeq(Append(r, e)))
<1>1. Cat(s, Append(r, e)) = Append(Cat(s, r), e) /\ Cat(s, r) \in Seq(Seq(T))
  BY CatFacts
<1>2. FlattenSeq(Append(Cat(s, r), e)) = Cat(FlattenSeq(Cat(s, r)), e)
  BY <1>1, FlattenFacts DEF Cat
<1>3. FlattenSeq(Append(r, e)) = Cat(FlattenSeq(r), e)
  BY FlattenFacts DEF Cat
<1>4. FlattenSeq(s) \in Seq(T) /\ FlattenSeq(r) \in Seq(T)
  BY FlattenFacts
<1>5. Cat(Cat(FlattenSeq(s), FlattenSeq(r)), e) = Cat(FlattenSeq(s), Cat(FlattenSeq(r), e))
  BY <1>4, CatFacts
<1> QED
  BY <1>1, <1>2, <1>3, <1>5

\* The first n members of a sequence are the first n - 1 and the n-th.
LEMMA PrefixFacts ==
    ASSUME NEW S, NEW t \in Seq(S), NEW n \in 1..Len(t)
    PROVE  /\ SubSeq(t, 1, n - 1) \in Seq(S) /\ t[n] \in S
           /\ SubSeq(t, 1, n) = Append(SubSeq(t, 1, n - 1), t[n])
<1>1. n \in Int /\ n - 1 \in Int /\ 1 <= n /\ n <= Len(t) /\ t[n] \in S
  OBVIOUS
<1>2. \A i \in 1..(n - 1) : t[i] \in S
  BY <1>1
<1>3. PICK r : r = SubSeq(t, 1, n - 1)
  OBVIOUS
<1>4. r \in Seq(S)
  BY <1>1, <1>2, <1>3, SubSeqProperties
<1>5. SubSeq(t, 1, n) = r \o <<t[n]>>
  <2>1. 1 \in 1..Len(t) /\ n \in 1..Len(t)
    BY <1>1
  <2> QED
    BY <1>3, <2>1, SubSeqRecursiveSecond
<1>6. r \o <<t[n]>> = Append(r, t[n])
  BY <1>1, <1>4
<1> QED
  BY <1>1, <1>3, <1>4, <1>5, <1>6

\* The lines of two parts are the lines of the one and then the other's.
LEMMA FlattenConcat ==
    ASSUME NEW T, NEW s \in Seq(Seq(T)), NEW t \in Seq(Seq(T))
    PROVE  FlattenSeq(s \o t) = FlattenSeq(s) \o FlattenSeq(t)
<1> DEFINE P(n) == FlattenSeq(s \o SubSeq(t, 1, n)) = FlattenSeq(s) \o FlattenSeq(SubSeq(t, 1, n))
           Bad == {n \in 0..Len(t) : ~P(n)}
<1>0. Len(t) \in Nat /\ <<>> \in Seq(T)
  OBVIOUS
<1>1. ASSUME NEW x \in Bad PROVE FALSE
  <2>1. Bad \in SUBSET Nat
    BY <1>0
  <2>2. PICK n \in Bad : \A m \in Bad : n <= m
    <3> HIDE DEF Bad
    <3> QED
      BY <1>1, <2>1, Least
  <2>3. CASE n = 0
    <3>1. SubSeq(t, 1, n) = <<>>
      BY <2>3
    <3>2. s \o <<>> = s
      BY ConcatEmptySeq
    <3>3. FlattenSeq(s) \in Seq(T) /\ FlattenSeq(<<>>) = <<>>
      BY <1>0, FlattenFacts
    <3>4. FlattenSeq(s) \o <<>> = FlattenSeq(s)
      BY <3>3, ConcatEmptySeq
    <3>5. P(n)
      BY <3>1, <3>2, <3>3, <3>4
    <3> QED
      BY <2>2, <3>5
  <2>4. CASE n # 0
    <3>1. n \in 1..Len(t) /\ n - 1 \in 0..Len(t) /\ ~(n <= n - 1)
      BY <1>0, <2>2, <2>4
    <3> DEFINE r == SubSeq(t, 1, n - 1)
    <3>2. r \in Seq(Seq(T)) /\ t[n] \in Seq(T) /\ SubSeq(t, 1, n) = Append(r, t[n])
      BY <3>1, PrefixFacts
    <3>3. FlattenSeq(s \o r) = FlattenSeq(s) \o FlattenSeq(r)
      BY <2>2, <3>1
    <3> HIDE DEF r
    <3>4. FlattenSeq(Cat(s, Append(r, t[n]))) = Cat(FlattenSeq(s), FlattenSeq(Append(r, t[n])))
      BY <3>2, <3>3, FlattenConcatStep DEF Cat
    <3>10. P(n)
      BY <3>2, <3>4 DEF Cat
    <3> QED
      BY <2>2, <3>10
  <2> QED
    BY <2>3, <2>4
<1>2. Len(t) \in 0..Len(t) /\ SubSeq(t, 1, Len(t)) = t
  BY <1>0
<1>3. P(Len(t))
  BY <1>1, <1>2
<1> QED
  BY <1>2, <1>3

\* Members that are not empty leave as many lines at least.
LEMMA FlattenLength ==
    ASSUME NEW T, NEW s \in Seq(Seq(T)), \A i \in DOMAIN s : s[i] # <<>>
    PROVE  Len(FlattenSeq(s)) >= Len(s)
<1> DEFINE P(n) == Len(FlattenSeq(SubSeq(s, 1, n))) >= n
           Bad == {n \in 0..Len(s) : ~P(n)}
<1>0. Len(s) \in Nat /\ <<>> \in Seq(T)
  OBVIOUS
<1>1. ASSUME NEW x \in Bad PROVE FALSE
  <2>1. Bad \in SUBSET Nat
    BY <1>0
  <2>2. PICK n \in Bad : \A m \in Bad : n <= m
    <3> HIDE DEF Bad
    <3> QED
      BY <1>1, <2>1, Least
  <2>3. CASE n = 0
    <3>1. SubSeq(s, 1, n) = <<>>
      BY <2>3
    <3>2. FlattenSeq(<<>>) = <<>>
      BY <1>0, FlattenFacts
    <3>3. P(n)
      BY <2>3, <3>1, <3>2
    <3> QED
      BY <2>2, <3>3
  <2>4. CASE n # 0
    <3>1. n \in 1..Len(s) /\ n - 1 \in 0..Len(s) /\ ~(n <= n - 1)
      BY <1>0, <2>2, <2>4
    <3> DEFINE r == SubSeq(s, 1, n - 1)
    <3>2. r \in Seq(Seq(T)) /\ s[n] \in Seq(T) /\ SubSeq(s, 1, n) = Append(r, s[n])
      BY <1>0, <3>1
    <3>3. Len(FlattenSeq(r)) >= n - 1
      BY <2>2, <3>1
    <3> HIDE DEF r
    <3>4. FlattenSeq(Append(r, s[n])) = FlattenSeq(r) \o s[n] /\ FlattenSeq(r) \in Seq(T)
      BY <3>2, FlattenFacts
    <3>5. Len(s[n]) >= 1
      BY <3>1, <3>2
    <3>6. Len(FlattenSeq(r) \o s[n]) = Len(FlattenSeq(r)) + Len(s[n])
      BY <3>2, <3>4, ConcatProperties
    <3>7. Len(FlattenSeq(r)) \in Nat /\ Len(s[n]) \in Nat
      BY <3>2, <3>4
    <3>8. P(n)
      <4>1. FlattenSeq(SubSeq(s, 1, n)) = FlattenSeq(r) \o s[n]
        BY <3>2, <3>4
      <4>2. Len(FlattenSeq(SubSeq(s, 1, n))) = Len(FlattenSeq(r)) + Len(s[n])
        BY <3>6, <4>1
      <4>3. Len(FlattenSeq(r)) + Len(s[n]) >= n
        BY <3>1, <3>3, <3>5, <3>7
      <4> QED
        BY <4>2, <4>3
    <3> QED
      BY <2>2, <3>8
  <2> QED
    BY <2>3, <2>4
<1>2. Len(s) \in 0..Len(s) /\ SubSeq(s, 1, Len(s)) = s
  BY <1>0
<1>3. P(Len(s))
  BY <1>1, <1>2
<1> QED
  BY <1>2, <1>3

\* The number of lines does not depend on the direction.
LEMMA FlattenReverse ==
    ASSUME NEW T, NEW s \in Seq(Seq(T))
    PROVE  Len(FlattenSeq(Reverse(s))) = Len(FlattenSeq(s))
<1> DEFINE P(n) == Len(FlattenSeq(Reverse(SubSeq(s, 1, n)))) = Len(FlattenSeq(SubSeq(s, 1, n)))
           Bad == {n \in 0..Len(s) : ~P(n)}
<1>0. Len(s) \in Nat /\ <<>> \in Seq(T)
  OBVIOUS
<1>1. ASSUME NEW x \in Bad PROVE FALSE
  <2>1. Bad \in SUBSET Nat
    BY <1>0
  <2>2. PICK n \in Bad : \A m \in Bad : n <= m
    <3> HIDE DEF Bad
    <3> QED
      BY <1>1, <2>1, Least
  <2>3. CASE n = 0
    <3>1. SubSeq(s, 1, n) = <<>> /\ Reverse(<<>>) = <<>>
      BY <2>3 DEF Reverse
    <3>2. P(n)
      BY <3>1
    <3> QED
      BY <2>2, <3>2
  <2>4. CASE n # 0
    <3>1. n \in 1..Len(s) /\ n - 1 \in 0..Len(s) /\ ~(n <= n - 1)
      BY <1>0, <2>2, <2>4
    <3> DEFINE r == SubSeq(s, 1, n - 1)
    <3>2. r \in Seq(Seq(T)) /\ s[n] \in Seq(T) /\ SubSeq(s, 1, n) = Append(r, s[n])
      BY <1>0, <3>1
    <3>3. Len(FlattenSeq(Reverse(r))) = Len(FlattenSeq(r))
      BY <2>2, <3>1
    <3> HIDE DEF r
    <3>4. FlattenSeq(Append(r, s[n])) = FlattenSeq(r) \o s[n] /\ FlattenSeq(r) \in Seq(T)
      BY <3>2, FlattenFacts
    <3>5. Reverse(r) \in Seq(Seq(T)) /\ <<s[n]>> \in Seq(Seq(T))
      BY <3>2 DEF Reverse
    <3>6. Reverse(Append(r, s[n])) = <<s[n]>> \o Reverse(r)
      BY <3>2 DEF Reverse
    <3>7. FlattenSeq(<<s[n]>> \o Reverse(r)) = FlattenSeq(<<s[n]>>) \o FlattenSeq(Reverse(r))
      BY <3>5, FlattenConcat
    <3>8. FlattenSeq(<<s[n]>>) = s[n]
      <4>1. <<>> \in Seq(Seq(T)) /\ Append(<<>>, s[n]) = <<s[n]>>
        BY <3>2
      <4>2. FlattenSeq(Append(<<>>, s[n])) = FlattenSeq(<<>>) \o s[n] /\ FlattenSeq(<<>>) = <<>>
        BY <3>2, <4>1, FlattenFacts
      <4>3. <<>> \o s[n] = s[n]
        BY <3>2, ConcatEmptySeq
      <4> QED
        BY <4>1, <4>2, <4>3
    <3>9. FlattenSeq(Reverse(r)) \in Seq(T)
      BY <3>2, <3>5, FlattenFacts
    <3>10. P(n)
      <4>1. Len(s[n] \o FlattenSeq(Reverse(r))) = Len(s[n]) + Len(FlattenSeq(Reverse(r)))
        BY <3>2, <3>9, ConcatProperties
      <4>2. Len(FlattenSeq(r) \o s[n]) = Len(FlattenSeq(r)) + Len(s[n])
        BY <3>2, <3>4, ConcatProperties
      <4>3. Len(FlattenSeq(r)) \in Nat /\ Len(s[n]) \in Nat
        BY <3>2, <3>4
      <4>4. FlattenSeq(SubSeq(s, 1, n)) = FlattenSeq(r) \o s[n]
        BY <3>2, <3>4
      <4>5. FlattenSeq(Reverse(SubSeq(s, 1, n))) = s[n] \o FlattenSeq(Reverse(r))
        BY <3>2, <3>6, <3>7, <3>8
      <4>6. Len(s[n]) + Len(FlattenSeq(Reverse(r))) = Len(FlattenSeq(r)) + Len(s[n])
        BY <3>3, <4>3
      <4> QED
        BY <4>1, <4>2, <4>4, <4>5, <4>6
    <3> QED
      BY <2>2, <3>10
  <2> QED
    BY <2>3, <2>4
<1>2. Len(s) \in 0..Len(s) /\ SubSeq(s, 1, Len(s)) = s
  BY <1>0
<1>3. P(Len(s))
  BY <1>1, <1>2
<1> QED
  BY <1>2, <1>3

-----------------------------------------------------------------------------
(* The log that is sent *)

\* Entries a + 1 to b, and the same backwards.
Stretch(a, b) == [i \in 1..(b - a) |-> a + i]
Back(a, b) == [i \in 1..(b - a) |-> b + 1 - i]

Sorted == \A j, k \in 1..Len(log) : j < k => log[j].at <= log[k].at

\* Nothing is sent before the way of reading is known, nor from a buffer that
\* is still read; once an entry is sent the status is 200.
StatusInv ==
    /\ pc # "end" => outcome = "none" /\ status \in {0, 200} /\ (status = 200 <=> out # <<>>)
    /\ pc \in {"lookup", "request", "write"} \/ (pc = "read" /\ Buffered) => status = 0
    /\ pc \in {"lookup", "request"} => /\ response = <<>> /\ allEntries = <<>>
                                       /\ lineCount = 0 /\ lastCursor = 0
    /\ pc = "page" => Paged
    /\ pc \in {"request", "read", "write"} => ~Paged
    /\ pc = "write" => Buffered

\* A response that is streamed: what was sent and what is left of it.
StreamInv ==
    pc = "read" /\ ~Buffered =>
        \E m \in 0..present : /\ out = Lines(First(m)) /\ response = Stretch(m, present)
                              /\ m = 0 \/ m < present

\* Pages: the cursor stands behind the last entry sent.
PageInv ==
    pc = "page" /\ PagingFits =>
        \E m \in 0..Len(log) :
            /\ out = Lines(First(m))
            /\ lastCursor = IF m = 0 THEN 0 ELSE log[m].at + conf.increment

\* Entries the backend is asked for with tailLines.
Few == IF conf.tail < present THEN conf.tail ELSE present

\* A buffer of the last lines: what was read and what is left.
TailInv ==
    pc \in {"read", "write"} /\ conf.tail > 0 /\ conf.reverse =>
        \E m \in 0..Few :
            /\ allEntries = Back(present - m, present)
            /\ response = Back(present - Few, present - m)
            /\ lineCount = Len(Lines(allEntries))
            /\ pc = "write" => m = Few \/ lineCount >= conf.tail

EndStatus ==
    pc = "end" /\ (\A k \in DOMAIN log : FlatLines(k) # <<>>)
        => (status = 200 <=> out # <<>>)

(* The types, in parts that steps leave alone                              *)
LogOK == /\ log \in Seq(Entry) /\ Len(log) <= MaxLog /\ Sorted
         /\ present \in 0..Len(log)
BufferOK == /\ response \in Seq(1..Len(log)) /\ allEntries \in Seq(1..Len(log))
            /\ lineCount \in Nat /\ lastCursor \in Nat
AnswerOK == /\ pc \in {"lookup", "page", "request", "read", "write", "end"}
            /\ status \in {0, 200, 400, 404, 500}
            /\ outcome \in {"none", "complete", "cut"}
OutOK == out \in Seq(Nat \X Nat)
RetrievalOK == conf \in Config /\ LogOK /\ BufferOK /\ AnswerOK /\ OutOK

RetrievalInv ==
    /\ RetrievalOK /\ StatusInv /\ StreamInv /\ PageInv /\ TailInv
    /\ FullLogIsExact /\ TailIsSuffix /\ EndStatus

IInv == LookupInv /\ RetrievalInv

\* The lines of one entry: a sequence that is not empty, and its lines that
\* are not blank.
LEMMA EntryLines ==
    ASSUME log \in Seq(Entry), NEW k \in 1..Len(log)
    PROVE  /\ LinesOf(k) \in Seq(Nat \X Nat) /\ LinesOf(k) # <<>>
           /\ FlatLines(k) \in Seq(Nat \X Nat)
<1> DEFINE shape == log[k].shape
           T == Nat \X Nat
           piece == [j \in 1..Len(shape) |-> IF shape[j] THEN <<<<k, j>>>> ELSE <<>>]
<1>1. shape \in Seq(BOOLEAN) /\ shape # <<>> /\ k \in Nat
  <2>1. Shape \subseteq Seq(BOOLEAN) \ {<<>>, <<FALSE>>}
    BY LogRetrievalAssumption
  <2>2. log[k] \in Entry /\ k \in Nat
    OBVIOUS
  <2>3. shape \in Shape
    BY <2>2 DEF Entry
  <2> QED
    BY <2>1, <2>2, <2>3
<1>2. Len(shape) \in Nat /\ Len(shape) # 0
  BY <1>1
<1>3. LinesOf(k) \in Seq(T) /\ Len(LinesOf(k)) = Len(shape)
  <2>1. \A j \in 1..Len(shape) : <<k, j>> \in T
    BY <1>1, <1>2
  <2> HIDE DEF T
  <2>2. [j \in 1..Len(shape) |-> <<k, j>>] \in Seq(T)
    BY <1>2, <2>1
  <2> QED
    BY <1>2, <2>2 DEF LinesOf
<1>4. piece \in Seq(Seq(T))
  <2>1. ASSUME NEW j \in 1..Len(shape) PROVE <<<<k, j>>>> \in Seq(T) /\ <<>> \in Seq(T)
    <3>1. <<k, j>> \in T
      BY <1>1, <1>2
    <3> HIDE DEF T
    <3> QED
      BY <3>1
  <2> HIDE DEF T
  <2> QED
    BY <1>2, <2>1
<1>5. FlattenSeq(piece) \in Seq(T)
  <2>1. <<>> \in Seq(T)
    OBVIOUS
  <2> HIDE DEF piece, T
  <2> QED
    BY <1>4, <2>1, FlattenFacts
<1> QED
  BY <1>2, <1>3, <1>5 DEF FlatLines

\* The lines of a sequence of entries.
LEMMA LinesTypes ==
    ASSUME log \in Seq(Entry), NEW e \in Seq(1..Len(log))
    PROVE  /\ [n \in DOMAIN e |-> LinesOf(e[n])] \in Seq(Seq(Nat \X Nat))
           /\ [n \in DOMAIN e |-> FlatLines(e[n])] \in Seq(Seq(Nat \X Nat))
           /\ Lines(e) \in Seq(Nat \X Nat) /\ Flattened(e) \in Seq(Nat \X Nat)
<1> DEFINE T == Nat \X Nat
           ls == [n \in DOMAIN e |-> LinesOf(e[n])]
           fs == [n \in DOMAIN e |-> FlatLines(e[n])]
<1>1. DOMAIN e = 1..Len(e) /\ Len(e) \in Nat /\ \A n \in 1..Len(e) : e[n] \in 1..Len(log)
  OBVIOUS
<1>2. \A n \in 1..Len(e) : LinesOf(e[n]) \in Seq(T) /\ FlatLines(e[n]) \in Seq(T)
  BY <1>1, EntryLines
<1>3. ls \in Seq(Seq(T)) /\ fs \in Seq(Seq(T))
  <2> HIDE DEF T
  <2> QED
    BY <1>1, <1>2
<1>4. FlattenSeq(ls) \in Seq(T) /\ FlattenSeq(fs) \in Seq(T)
  <2>1. <<>> \in Seq(T)
    OBVIOUS
  <2> HIDE DEF ls, fs, T
  <2> QED
    BY <1>3, <2>1, FlattenFacts
<1> QED
  BY <1>3, <1>4 DEF Lines, Flattened

\* Taking the lines of each entry, before or after two parts are joined.
Maps(F, S, R) == F \in [S -> R]
Map(F, c) == [n \in DOMAIN c |-> F[c[n]]]

\* Mapping distributes over concatenation.
LEMMA MapOfConcat ==
    ASSUME NEW S, NEW R, NEW F, Maps(F, S, R), NEW d \in Seq(S), NEW e \in Seq(S)
    PROVE  Map(F, Cat(d, e)) = Cat(Map(F, d), Map(F, e))
<1> DEFINE md == [n \in DOMAIN d |-> F[d[n]]]
           me == [n \in DOMAIN e |-> F[e[n]]]
           m == [n \in DOMAIN (d \o e) |-> F[(d \o e)[n]]]
<1>0. F \in [S -> R]
  BY DEF Maps
<1>1. /\ d \o e \in Seq(S) /\ Len(d \o e) = Len(d) + Len(e)
      /\ \A i \in 1..(Len(d) + Len(e)) :
            (d \o e)[i] = IF i <= Len(d) THEN d[i] ELSE e[i - Len(d)]
  BY ConcatProperties
<1>2. md \in Seq(R) /\ me \in Seq(R) /\ Len(md) = Len(d) /\ Len(me) = Len(e)
  <2>1. md \in Seq(R) /\ Len(md) = Len(d)
    BY <1>0
  <2>2. me \in Seq(R) /\ Len(me) = Len(e)
    BY <1>0
  <2> QED
    BY <2>1, <2>2
<1>3. m \in Seq(R) /\ Len(m) = Len(d) + Len(e)
  <2> DEFINE c == d \o e
  <2>1. c \in Seq(S) /\ Len(c) = Len(d) + Len(e)
    BY <1>1
  <2>2. [n \in DOMAIN c |-> F[c[n]]] \in Seq(R) /\ Len([n \in DOMAIN c |-> F[c[n]]]) = Len(c)
    <3> HIDE DEF c
    <3> QED
      BY <1>0, <2>1
  <2> QED
    BY <2>1, <2>2
<1>4. /\ md \o me \in Seq(R) /\ Len(md \o me) = Len(d) + Len(e)
      /\ \A i \in 1..(Len(d) + Len(e)) :
            (md \o me)[i] = IF i <= Len(d) THEN md[i] ELSE me[i - Len(d)]
  <2> HIDE DEF md, me
  <2>1. /\ md \o me \in Seq(R) /\ Len(md \o me) = Len(md) + Len(me)
        /\ \A i \in 1..(Len(md) + Len(me)) :
              (md \o me)[i] = IF i <= Len(md) THEN md[i] ELSE me[i - Len(md)]
    BY <1>2, ConcatProperties
  <2> QED
    BY <1>2, <2>1
<1>5. ASSUME NEW i \in 1..(Len(d) + Len(e)) PROVE m[i] = (md \o me)[i]
  <2>1. m[i] = F[(d \o e)[i]]
    BY <1>1
  <2>2. Len(d) \in Nat /\ Len(e) \in Nat /\ DOMAIN d = 1..Len(d) /\ DOMAIN e = 1..Len(e)
    OBVIOUS
  <2>3. CASE i <= Len(d)
    BY <1>1, <1>4, <2>1, <2>2, <2>3
  <2>4. CASE ~(i <= Len(d))
    <3>1. i - Len(d) \in 1..Len(e)
      BY <2>2, <2>4
    <3> QED
      BY <1>1, <1>4, <2>1, <2>2, <2>4, <3>1
  <2> QED
    BY <2>3, <2>4
<1> DEFINE both == md \o me
<1>7. both \in Seq(R) /\ Len(m) = Len(both) /\ \A i \in 1..Len(m) : m[i] = both[i]
  BY <1>3, <1>4, <1>5
<1> HIDE DEF md, me, m, both
<1>6. m = both
  BY <1>3, <1>7, SeqEqual
<1> QED
  BY <1>6 DEF m, md, me, both, Map, Cat

\* Lines of entries that follow each other.
LEMMA LinesConcat ==
    ASSUME log \in Seq(Entry), NEW d \in Seq(1..Len(log)), NEW e \in Seq(1..Len(log))
    PROVE  Lines(d \o e) = Lines(d) \o Lines(e) /\ Flattened(d \o e) = Flattened(d) \o Flattened(e)
<1> DEFINE ld == [n \in DOMAIN d |-> LinesOf(d[n])]
           le == [n \in DOMAIN e |-> LinesOf(e[n])]
           fd == [n \in DOMAIN d |-> FlatLines(d[n])]
           fe == [n \in DOMAIN e |-> FlatLines(e[n])]
           T == Nat \X Nat
<1>1. ld \in Seq(Seq(T)) /\ le \in Seq(Seq(T)) /\ fd \in Seq(Seq(T)) /\ fe \in Seq(Seq(T))
  BY LinesTypes
<1> DEFINE L == [k \in 1..Len(log) |-> LinesOf(k)]
           F == [k \in 1..Len(log) |-> FlatLines(k)]
<1>6. d \o e \in Seq(1..Len(log))
  BY ConcatProperties
<1>7. \A c \in Seq(1..Len(log)) :
         /\ [n \in DOMAIN c |-> LinesOf(c[n])] = Map(L, c)
         /\ [n \in DOMAIN c |-> FlatLines(c[n])] = Map(F, c)
  BY DEF Map
<1>8. L \in [1..Len(log) -> Seq(T)] /\ F \in [1..Len(log) -> Seq(T)]
  BY EntryLines
<1>9. /\ Map(L, Cat(d, e)) = Cat(Map(L, d), Map(L, e))
      /\ Map(F, Cat(d, e)) = Cat(Map(F, d), Map(F, e))
  <2> DEFINE S == 1..Len(log)
             R == Seq(T)
  <2>1. d \in Seq(S) /\ e \in Seq(S) /\ Maps(L, S, R) /\ Maps(F, S, R)
    BY <1>8 DEF Maps
  <2> HIDE DEF L, F, S, R
  <2>2. Map(L, Cat(d, e)) = Cat(Map(L, d), Map(L, e))
    BY <2>1, MapOfConcat
  <2>3. Map(F, Cat(d, e)) = Cat(Map(F, d), Map(F, e))
    BY <2>1, MapOfConcat
  <2> QED
    BY <2>2, <2>3
<1>2. [n \in DOMAIN Cat(d, e) |-> LinesOf(Cat(d, e)[n])] = Cat(ld, le)
  <2>1. Cat(d, e) \in Seq(1..Len(log))
    BY <1>6 DEF Cat
  <2> HIDE DEF L, F
  <2> QED
    BY <1>7, <1>9, <2>1
<1>3. [n \in DOMAIN Cat(d, e) |-> FlatLines(Cat(d, e)[n])] = Cat(fd, fe)
  <2>1. Cat(d, e) \in Seq(1..Len(log))
    BY <1>6 DEF Cat
  <2> HIDE DEF L, F
  <2> QED
    BY <1>7, <1>9, <2>1
<1>4. FlattenSeq(ld \o le) = FlattenSeq(ld) \o FlattenSeq(le)
  <2> HIDE DEF ld, le, T
  <2> QED
    BY <1>1, FlattenConcat
<1>5. FlattenSeq(fd \o fe) = FlattenSeq(fd) \o FlattenSeq(fe)
  <2> HIDE DEF fd, fe, T
  <2> QED
    BY <1>1, FlattenConcat
<1> QED
  BY <1>2, <1>3, <1>4, <1>5 DEF Lines, Flattened, Cat

\* Every entry has a line, in either order of the entries.
LEMMA LinesLength ==
    ASSUME log \in Seq(Entry), NEW e \in Seq(1..Len(log))
    PROVE  /\ Len(Lines(e)) >= Len(e)
           /\ Len(Lines(Reverse(e))) = Len(Lines(e))
           /\ (\A k \in DOMAIN log : FlatLines(k) # <<>>) => Len(Flattened(e)) >= Len(e)
<1> DEFINE T == Nat \X Nat
           ls == [n \in DOMAIN e |-> LinesOf(e[n])]
           fs == [n \in DOMAIN e |-> FlatLines(e[n])]
<1>1. DOMAIN e = 1..Len(e) /\ Len(e) \in Nat /\ \A n \in 1..Len(e) : e[n] \in 1..Len(log)
  OBVIOUS
<1>2. ls \in Seq(Seq(T)) /\ fs \in Seq(Seq(T)) /\ Len(ls) = Len(e) /\ Len(fs) = Len(e)
  <2>1. ls \in Seq(Seq(T)) /\ fs \in Seq(Seq(T))
    BY LinesTypes
  <2> QED
    BY <1>1, <2>1
<1>3. \A n \in DOMAIN ls : ls[n] # <<>>
  BY <1>1, EntryLines
<1>4. (\A k \in DOMAIN log : FlatLines(k) # <<>>) => \A n \in DOMAIN fs : fs[n] # <<>>
  BY <1>1
<1>5. Len(FlattenSeq(ls)) >= Len(ls) /\ Len(FlattenSeq(Reverse(ls))) = Len(FlattenSeq(ls))
  <2> HIDE DEF ls, T
  <2> QED
    BY <1>2, <1>3, FlattenLength, FlattenReverse
<1>6. (\A k \in DOMAIN log : FlatLines(k) # <<>>) => Len(FlattenSeq(fs)) >= Len(fs)
  <2> HIDE DEF fs, T
  <2> QED
    BY <1>2, <1>4, FlattenLength
<1>7. [n \in DOMAIN Reverse(e) |-> LinesOf(Reverse(e)[n])] = Reverse(ls)
  BY <1>1, <1>2 DEF Reverse
<1> QED
  BY <1>2, <1>5, <1>6, <1>7 DEF Lines, Flattened

\* What the backend receives leaves the lines of earlier entries alone.
LogGrows ==
    /\ log' \in Seq(Entry) /\ Len(log) <= Len(log')
    /\ \A k \in 1..Len(log) : log'[k] = log[k]

\* Entries keep their lines when the log grows.
LEMMA LinesStay ==
    ASSUME log \in Seq(Entry), LogGrows
    PROVE  /\ \A k \in 1..Len(log) : LinesOf(k)' = LinesOf(k) /\ FlatLines(k)' = FlatLines(k)
           /\ \A e \in Seq(1..Len(log)) : Lines(e)' = Lines(e) /\ Flattened(e)' = Flattened(e)
<1>1. \A k \in 1..Len(log) : log'[k] = log[k]
  BY DEF LogGrows
<1>2. \A k \in 1..Len(log) : LinesOf(k)' = LinesOf(k) /\ FlatLines(k)' = FlatLines(k)
  BY <1>1 DEF LinesOf, FlatLines
<1>3. ASSUME NEW e \in Seq(1..Len(log))
      PROVE  Lines(e)' = Lines(e) /\ Flattened(e)' = Flattened(e)
  <2>1. /\ [n \in DOMAIN e |-> LinesOf(e[n])'] = [n \in DOMAIN e |-> LinesOf(e[n])]
        /\ [n \in DOMAIN e |-> FlatLines(e[n])'] = [n \in DOMAIN e |-> FlatLines(e[n])]
    BY <1>2
  <2> QED
    BY <2>1 DEF Lines, Flattened
<1> QED
  BY <1>2, <1>3

\* Stretches of the log, forwards and backwards, and parts of them.
Part(s, i, j) == SubSeq(s, i, j)

\* Stretches of entries, taken together and apart.
LEMMA StretchFacts ==
    ASSUME NEW a \in Nat, NEW b \in Nat, a <= b, NEW c \in Nat, b <= c
    PROVE  /\ Stretch(a, b) \in Seq(1..c) /\ Len(Stretch(a, b)) = b - a
           /\ Stretch(0, c) = First(c)
           /\ Cat(Stretch(a, b), Stretch(b, c)) = Stretch(a, c)
           /\ Part(Stretch(a, c), 1, b - a) = Stretch(a, b)
           /\ Part(Stretch(a, c), b - a + 1, c - a) = Stretch(b, c)
<1>1. Stretch(a, b) \in Seq(1..c) /\ Len(Stretch(a, b)) = b - a
  BY DEF Stretch
<1>2. Stretch(0, c) = First(c)
  BY DEF Stretch, First
<1>3. Cat(Stretch(a, b), Stretch(b, c)) = Stretch(a, c)
  BY DEF Stretch, Cat
<1>4. Part(Stretch(a, c), 1, b - a) = Stretch(a, b)
  BY DEF Part, Stretch
<1>5. Part(Stretch(a, c), b - a + 1, c - a) = Stretch(b, c)
  BY DEF Part, Stretch
<1> QED
  BY <1>1, <1>2, <1>3, <1>4, <1>5

\* The same for stretches backwards.
LEMMA BackFacts ==
    ASSUME NEW a \in Nat, NEW b \in Nat, a <= b, NEW c \in Nat, b <= c
    PROVE  /\ Back(a, b) \in Seq(1..c) /\ Len(Back(a, b)) = b - a
           /\ Reverse(Back(a, b)) = Stretch(a, b)
           /\ Cat(Back(b, c), Back(a, b)) = Back(a, c)
           /\ Part(Back(a, c), 1, c - b) = Back(b, c)
           /\ Part(Back(a, c), c - b + 1, c - a) = Back(a, b)
<1>1. Back(a, b) \in Seq(1..c) /\ Len(Back(a, b)) = b - a
  BY DEF Back
<1>2. Reverse(Back(a, b)) = Stretch(a, b)
  BY DEF Stretch, Back, Reverse
<1>3. Cat(Back(b, c), Back(a, b)) = Back(a, c)
  BY DEF Back, Cat
<1>4. Part(Back(a, c), 1, c - b) = Back(b, c)
  BY DEF Part, Back
<1>5. Part(Back(a, c), c - b + 1, c - a) = Back(a, b)
  BY DEF Part, Back
<1> QED
  BY <1>1, <1>2, <1>3, <1>4, <1>5

\* The lines of the first n entries are those of the first m and the rest's.
LEMMA LinesOfStretch ==
    ASSUME log \in Seq(Entry), NEW m \in Nat, NEW n \in Nat, m <= n, n <= Len(log)
    PROVE  /\ First(m) \in Seq(1..Len(log)) /\ Stretch(m, n) \in Seq(1..Len(log))
           /\ Lines(First(n)) = Cat(Lines(First(m)), Lines(Stretch(m, n)))
           /\ Flattened(First(n)) = Cat(Flattened(First(m)), Flattened(Stretch(m, n)))
           /\ Len(Stretch(m, n)) = n - m
           /\ Lines(First(0)) = <<>>
<1>0. Len(log) \in Nat
  OBVIOUS
<1>1. /\ First(m) \in Seq(1..Len(log)) /\ Stretch(m, n) \in Seq(1..Len(log))
      /\ Len(Stretch(m, n)) = n - m
  <2>1. First(m) \in Seq(1..Len(log))
    BY <1>0 DEF First
  <2>2. Stretch(m, n) \in Seq(1..Len(log)) /\ Len(Stretch(m, n)) = n - m
    BY <1>0, StretchFacts
  <2> QED
    BY <2>1, <2>2
<1>2. Cat(First(m), Stretch(m, n)) = First(n)
  <2>1. PICK z \in Nat : z = 0 /\ z <= m
    OBVIOUS
  <2>2. Cat(Stretch(z, m), Stretch(m, n)) = Stretch(z, n) /\ Stretch(z, n) = First(n)
    BY <2>1, StretchFacts
  <2>3. Stretch(z, m) = First(m)
    BY <2>1 DEF Stretch, First
  <2> QED
    BY <2>2, <2>3
<1>3. First(0) = <<>> /\ Lines(<<>>) = <<>>
  <2>1. FlattenSeq(<<>>) = <<>>
    BY DEF FlattenSeq
  <2>2. [k \in DOMAIN <<>> |-> LinesOf(<<>>[k])] = <<>>
    OBVIOUS
  <2> QED
    BY <2>1, <2>2 DEF First, Lines
<1> QED
  BY <1>1, <1>2, <1>3, LinesConcat DEF Cat

\* Configurations that fit a log fit its beginning.
LEMMA PagingFitsBefore ==
    ASSUME log \in Seq(Entry), LogGrows, UNCHANGED conf, PagingFits'
    PROVE  PagingFits
<1>1. DOMAIN log = 1..Len(log) /\ DOMAIN log' = 1..Len(log') /\ 1..Len(log) \subseteq 1..Len(log')
  BY DEF LogGrows
<1> QED
  BY <1>1 DEF PagingFits, LogGrows

\* The backend receives, or the lookup goes on: what is sent stays true.
LEMMA GrowthKeeps ==
    ASSUME RetrievalInv, LogGrows, Len(log') <= MaxLog, Sorted',
           UNCHANGED <<conf, pc, response, allEntries, lineCount, lastCursor,
                       status, out, outcome, present>>
    PROVE  RetrievalInv'
<1> USE DEF RetrievalInv
<1>0. /\ log \in Seq(Entry) /\ Len(log) \in Nat /\ Len(log') \in Nat /\ present \in 0..Len(log)
      /\ Len(log) <= Len(log') /\ DOMAIN log = 1..Len(log) /\ DOMAIN log' = 1..Len(log')
  <2>1. log \in Seq(Entry) /\ present \in 0..Len(log)
    BY DEF RetrievalOK, LogOK
  <2>2. log' \in Seq(Entry) /\ Len(log) <= Len(log')
    BY DEF LogGrows
  <2> QED
    BY <2>1, <2>2
<1>1. \A k \in 1..Len(log) : LinesOf(k)' = LinesOf(k) /\ FlatLines(k)' = FlatLines(k)
  BY <1>0, LinesStay
<1>2. \A e \in Seq(1..Len(log)) : Lines(e)' = Lines(e) /\ Flattened(e)' = Flattened(e)
  BY <1>0, LinesStay
<1>3. \A m \in 0..Len(log) : First(m) \in Seq(1..Len(log))
  BY <1>0 DEF First
<1>4. \A m \in 0..Len(log) : Lines(First(m))' = Lines(First(m)) /\ Flattened(First(m))' = Flattened(First(m))
  BY <1>2, <1>3
<1>5. Paged' = Paged /\ Buffered' = Buffered /\ Few' = Few
  BY DEF Paged, Buffered, Legacy, Few
<1>6. RetrievalOK'
  <2>1. \A s : s \in Seq(1..Len(log)) => s \in Seq(1..Len(log'))
    BY <1>0
  <2>2. BufferOK'
    BY <2>1 DEF RetrievalOK, BufferOK
  <2>3. LogOK'
    BY <1>0 DEF LogOK, LogGrows
  <2> QED
    BY <2>2, <2>3 DEF RetrievalOK, AnswerOK, OutOK
<1>7. StatusInv'
  BY <1>5 DEF StatusInv
<1>8. StreamInv'
  BY <1>0, <1>4, <1>5 DEF StreamInv, Stretch
<1>9. PageInv'
  <2> SUFFICES ASSUME pc' = "page", PagingFits' PROVE PageInv'
    BY DEF PageInv
  <2>1. PagingFits
    BY <1>0, PagingFitsBefore
  <2>2. PICK m \in 0..Len(log) :
          /\ out = Lines(First(m))
          /\ lastCursor = IF m = 0 THEN 0 ELSE log[m].at + conf.increment
    BY <2>1 DEF PageInv
  <2>3. m \in 0..Len(log') /\ (m # 0 => log'[m] = log[m])
    BY <1>0 DEF LogGrows
  <2> QED
    BY <1>4, <2>2, <2>3 DEF PageInv
<1>10. TailInv'
  <2>1. Lines(allEntries)' = Lines(allEntries)
    BY <1>2 DEF RetrievalOK, BufferOK, Lines
  <2> QED
    BY <1>5, <2>1 DEF TailInv, Back
<1>11. FullLogIsExact'
  <2> SUFFICES ASSUME (pc = "end" /\ outcome = "complete" /\ status = 200 /\ ~Buffered)',
                      (Paged => PagingFits)'
               PROVE  FullLogIsExact'
    BY DEF FullLogIsExact
  <2>1. Paged => PagingFits
    BY <1>0, <1>5, PagingFitsBefore
  <2>2. PICK n \in present..Len(log) : out = Lines(First(n))
    BY <1>5, <2>1 DEF FullLogIsExact
  <2>3. n \in 0..Len(log) /\ n \in present..Len(log')
    BY <1>0
  <2> QED
    BY <1>4, <2>2, <2>3 DEF FullLogIsExact
<1>12. TailIsSuffix'
  <2>1. Flattened(First(present))' = Flattened(First(present))
    BY <1>0, <1>4 DEF Flattened, First
  <2>2. \A k \in 1..present : FlatLines(k)' = FlatLines(k) /\ LinesOf(k)' = LinesOf(k)
    BY <1>0, <1>1
  <2> QED
    BY <2>1, <2>2 DEF TailIsSuffix
<1>13. EndStatus'
  BY <1>0, <1>1 DEF EndStatus
<1> QED
  BY <1>6, <1>7, <1>8, <1>9, <1>10, <1>11, <1>12, <1>13

\* The handler ends without having sent a whole log.
LEMMA StopKeeps ==
    ASSUME RetrievalInv, pc' = "end", status' \in {0, 200, 400, 404, 500},
           outcome' \in {"none", "complete", "cut"}, outcome' # "complete" \/ status' # 200,
           status' = 200 <=> out # <<>>, present' \in 0..Len(log),
           UNCHANGED <<conf, log, response, allEntries, lineCount, lastCursor, out>>
    PROVE  RetrievalInv'
<1>1. RetrievalOK'
  <2>1. LogOK'
    BY DEF RetrievalInv, RetrievalOK, LogOK, Sorted
  <2>2. BufferOK'
    BY DEF RetrievalInv, RetrievalOK, BufferOK
  <2> QED
    BY <2>1, <2>2 DEF RetrievalInv, RetrievalOK, AnswerOK, OutOK
<1>2. EndStatus'
  BY DEF EndStatus
<1>3. StatusInv' /\ StreamInv' /\ PageInv' /\ TailInv'
  BY DEF StatusInv, StreamInv, PageInv, TailInv
<1>4. FullLogIsExact' /\ TailIsSuffix'
  BY DEF FullLogIsExact, TailIsSuffix
<1> QED
  BY <1>1, <1>2, <1>3, <1>4 DEF RetrievalInv

\* The invariant holds at the start.
LEMMA InitRetrievalInv == Init => RetrievalInv
<1> SUFFICES ASSUME Init PROVE RetrievalInv
  OBVIOUS
<1> USE DEF Init
<1>1. RetrievalOK
  <2>1. LogOK
    BY LogRetrievalAssumption DEF LogOK, Sorted
  <2>2. BufferOK
    BY DEF BufferOK
  <2>3. OutOK
    BY DEF OutOK
  <2> QED
    BY <2>1, <2>2, <2>3 DEF RetrievalOK, AnswerOK
<1>2. StatusInv /\ StreamInv /\ PageInv /\ TailInv
  <2>1. pc = "lookup" /\ status = 0 /\ out = <<>> /\ response = <<>> /\ allEntries = <<>>
        /\ lineCount = 0 /\ lastCursor = 0 /\ outcome = "none"
    OBVIOUS
  <2> QED
    BY <2>1 DEF StatusInv, StreamInv, PageInv, TailInv
<1> QED
  BY <1>1, <1>2 DEF RetrievalInv, FullLogIsExact, TailIsSuffix, EndStatus

\* The time of an entry.
LEMMA EntryTime == ASSUME NEW e \in Entry PROVE e.at \in 1..99 /\ e.at \in Int /\ e.at >= 1
<1>1. Cursor \subseteq 1..99
  BY LogRetrievalAssumption
<1>2. e.at \in Cursor
  BY DEF Entry
<1>3. \A c \in 1..99 : c \in Int /\ c >= 1
  OBVIOUS
<1> QED
  BY <1>1, <1>2, <1>3

\* The backend may receive an entry at any time.
LEMMA ReceiveKeeps ==
    ASSUME RetrievalInv, NEW e \in Entry, Receive(e)
    PROVE  RetrievalInv'
<1>1. log \in Seq(Entry) /\ Len(log) \in Nat /\ Sorted
  BY DEF RetrievalInv, RetrievalOK, LogOK
<1>2. /\ log' = Append(log, e) /\ Len(log) < MaxLog
      /\ log # <<>> => e.at >= log[Len(log)].at
      /\ UNCHANGED <<conf, pc, response, allEntries, lineCount, lastCursor,
                     status, out, outcome, present>>
  BY DEF Receive
<1>3. /\ log' \in Seq(Entry) /\ Len(log') = Len(log) + 1
      /\ \A k \in 1..Len(log) : log'[k] = log[k]
      /\ log'[Len(log) + 1] = e
  BY <1>1, <1>2, AppendProperties
<1>4. LogGrows
  BY <1>1, <1>3 DEF LogGrows
<1>5. Len(log') <= MaxLog
  BY <1>1, <1>2, <1>3, LogRetrievalAssumption
<1>6. Sorted'
  <2> SUFFICES ASSUME NEW j \in 1..Len(log'), NEW k \in 1..Len(log'), j < k
               PROVE  log'[j].at <= log'[k].at
    BY DEF Sorted
  <2>1. \A i \in 1..Len(log) : log[i].at \in Int
    BY <1>1, EntryTime
  <2>2. e.at \in Int
    BY EntryTime
  <2>3. CASE k \in 1..Len(log)
    BY <1>1, <1>3, <2>3 DEF Sorted
  <2>4. CASE k = Len(log) + 1
    <3>1. j \in 1..Len(log) /\ Len(log) \in 1..Len(log) /\ log # <<>>
      BY <1>1, <1>3, <2>4
    <3>2. log[j].at <= log[Len(log)].at
      BY <1>1, <2>1, <3>1 DEF Sorted
    <3> QED
      BY <1>2, <1>3, <2>1, <2>2, <2>4, <3>1, <3>2
  <2> QED
    BY <1>1, <1>3, <2>3, <2>4
<1> QED
  BY <1>2, <1>4, <1>5, <1>6, GrowthKeeps

\* A failure, of a request or of the client, after the log has begun or before.
LEMMA FailKeeps ==
    ASSUME RetrievalInv, PageFails \/ RequestFails \/ ReadFails \/ ClientGone \/ StreamNothing
    PROVE  RetrievalInv'
<1>0. /\ pc # "end" /\ status \in {0, 200} /\ (status = 200 <=> out # <<>>)
      /\ present \in 0..Len(log)
  BY DEF PageFails, RequestFails, ReadFails, ClientGone, StreamNothing, RetrievalInv,
         StatusInv, RetrievalOK, LogOK
<1>1. CASE PageFails \/ RequestFails \/ ReadFails
  <2>1. PICK code \in {404, 500} : Fail(code)
    BY <1>1 DEF PageFails, RequestFails, ReadFails
  <2>2. /\ pc' = "end" /\ outcome' \in {"none", "cut"}
        /\ status' \in {200, 404, 500} /\ (status' = 200 <=> status = 200)
        /\ UNCHANGED <<conf, log, response, allEntries, lineCount, lastCursor, present, out>>
    BY <2>1 DEF Fail, End
  <2> QED
    BY <1>0, <2>2, StopKeeps
<1>2. CASE ClientGone
  <2>1. /\ pc' = "end" /\ outcome' = "cut" /\ status' = status /\ status = 200
        /\ UNCHANGED <<conf, log, response, allEntries, lineCount, lastCursor, present, out>>
    BY <1>2 DEF ClientGone, End
  <2> QED
    BY <1>0, <2>1, StopKeeps
<1>3. CASE StreamNothing
  <2>1. /\ pc' = "end" /\ outcome' = "complete" /\ status' = 404
        /\ UNCHANGED <<conf, log, response, allEntries, lineCount, lastCursor, present, out>>
    BY <1>3 DEF StreamNothing, End
  <2>2. out = <<>>
    <3>1. PICK m \in 0..present :
            out = Lines(First(m)) /\ response = Stretch(m, present) /\ (m = 0 \/ m < present)
      BY <1>3 DEF StreamNothing, RetrievalInv, StreamInv
    <3>2. response = <<>> /\ log \in Seq(Entry)
      BY <1>3 DEF StreamNothing, RetrievalInv, RetrievalOK, LogOK
    <3>3. Len(log) \in Nat /\ m \in Nat /\ present \in Nat /\ m <= present /\ present <= Len(log)
      BY <1>0, <3>2
    <3>4. Len(Stretch(m, present)) = present - m /\ Lines(First(0)) = <<>>
      BY <3>2, <3>3, LinesOfStretch
    <3>5. Len(Stretch(m, present)) = 0
      BY <3>1, <3>2
    <3>6. m = 0
      BY <3>1, <3>3, <3>4, <3>5
    <3> QED
      BY <3>1, <3>4, <3>6
  <2> QED
    BY <1>0, <2>1, <2>2, StopKeeps
<1> QED
  BY <1>1, <1>2, <1>3

\* The text order of cursors is that of the numbers when they have as many
\* digits.
LEMMA TextOrder ==
    ASSUME NEW a \in 1..99, NEW b \in 1..99, a < 10 <=> b < 10
    PROVE  TextLess(a, b) <=> a < b
<1>1. CASE a < 10
  BY <1>1 DEF TextLess
<1>2. CASE ~(a < 10)
  <2>1. (a < b => a \div 10 <= b \div 10) /\ (b < a => b \div 10 <= a \div 10)
    OBVIOUS
  <2>2. a \div 10 \in Int /\ b \div 10 \in Int
    OBVIOUS
  <2>3. TextLess(a, b) <=> \/ a \div 10 < b \div 10
                           \/ a \div 10 = b \div 10 /\ a < b
    BY <1>2 DEF TextLess
  <2>4. CASE a < b
    BY <2>1, <2>2, <2>3, <2>4
  <2>5. CASE a = b
    BY <2>2, <2>3, <2>5
  <2>6. CASE b < a
    BY <2>1, <2>2, <2>3, <2>6
  <2> QED
    BY <2>4, <2>5, <2>6
<1> QED
  BY <1>1, <1>2

\* A number for a cursor that falls as the text grows.
Digit(n) == IF n < 10 THEN n ELSE n \div 10
Rank(n) == 10000 - (100 * Digit(n) + n)

\* Comparing times as text is well founded.
LEMMA RankFalls ==
    /\ \A c \in 1..99 : Rank(c) \in Nat
    /\ \A c, d \in 1..99 : TextLess(c, d) => Rank(d) < Rank(c)
<1>1. \A c \in 1..99 : Digit(c) \in 0..99
  <2> SUFFICES ASSUME NEW c \in 1..99 PROVE Digit(c) \in 0..99
    OBVIOUS
  <2>1. c \div 10 <= 99 /\ 0 <= c \div 10 /\ c \div 10 \in Int
    OBVIOUS
  <2> QED
    BY <2>1 DEF Digit
<1>2. \A c \in 1..99 : Rank(c) \in Nat
  <2> SUFFICES ASSUME NEW c \in 1..99 PROVE Rank(c) \in Nat
    OBVIOUS
  <2>1. Digit(c) \in 0..99
    BY <1>1
  <2> QED
    BY <2>1 DEF Rank
<1>3. ASSUME NEW c \in 1..99, NEW d \in 1..99, TextLess(c, d) PROVE Rank(d) < Rank(c)
  <2>1. Digit(c) < Digit(d) \/ (Digit(c) = Digit(d) /\ c < d)
    BY <1>3 DEF TextLess, Digit
  <2>2. Digit(c) \in 0..99 /\ Digit(d) \in 0..99
    BY <1>1
  <2>3. PICK x \in 0..99 : x = Digit(c)
    BY <2>2
  <2>4. PICK y \in 0..99 : y = Digit(d)
    BY <2>2
  <2>5. 10000 - (100 * y + d) < 10000 - (100 * x + c)
    BY <2>1, <2>3, <2>4
  <2> QED
    BY <2>3, <2>4, <2>5 DEF Rank
<1> QED
  BY <1>2, <1>3

\* A page has a largest cursor.
LEMMA NextCursorIsLargest ==
    ASSUME log \in Seq(Entry), NEW page \in Seq(1..Len(log)), page # <<>>
    PROVE  /\ \E i \in DOMAIN page : NextCursor(page) = log[page[i]].at
           /\ \A i \in DOMAIN page : ~TextLess(NextCursor(page), log[page[i]].at)
           /\ NextCursor(page) \in 1..99
<1> DEFINE cs == {log[page[i]].at : i \in DOMAIN page}
           N == {Rank(c) : c \in cs}
<1>1. cs \subseteq 1..99 /\ cs # {}
  <2>1. \A i \in DOMAIN page : log[page[i]].at \in 1..99
    <3>1. \A i \in DOMAIN page : log[page[i]] \in Entry
      OBVIOUS
    <3> QED
      BY <3>1, EntryTime
  <2>2. 1 \in DOMAIN page
    <3>1. Len(page) \in Nat /\ Len(page) # 0 /\ DOMAIN page = 1..Len(page)
      OBVIOUS
    <3> QED
      BY <3>1
  <2> QED
    BY <2>1, <2>2
<1>4. PICK n \in N : \A m \in N : n <= m
  <2>1. N \in SUBSET Nat /\ N # {}
    BY <1>1, RankFalls
  <2> HIDE DEF N
  <2> QED
    BY <2>1, Least
<1>5. PICK c \in cs : n = Rank(c)
  BY <1>4
<1>6. \A d \in cs : ~TextLess(c, d)
  <2> SUFFICES ASSUME NEW d \in cs, TextLess(c, d) PROVE FALSE
    OBVIOUS
  <2>1. Rank(d) < Rank(c) /\ Rank(c) \in Nat /\ Rank(d) \in Nat
    BY <1>1, RankFalls
  <2>2. Rank(c) <= Rank(d)
    BY <1>4, <1>5
  <2> QED
    BY <2>1, <2>2
<1>7. NextCursor(page) = CHOOSE x \in cs : \A d \in cs : ~TextLess(x, d)
  BY DEF NextCursor
<1>8. NextCursor(page) \in cs /\ \A d \in cs : ~TextLess(NextCursor(page), d)
  <2> HIDE DEF cs
  <2> QED
    BY <1>6, <1>7
<1>9. NextCursor(page) \in 1..99
  <2> HIDE DEF cs
  <2> QED
    BY <1>1, <1>8
<1> QED
  BY <1>8, <1>9

\* The way of reading is chosen, or the request is refused.
LEMMA ResolveKeeps ==
    ASSUME LookupInv, RetrievalInv, Resolve
    PROVE  RetrievalInv'
<1>1. /\ pc = "lookup" /\ status = 0 /\ out = <<>> /\ outcome = "none"
      /\ response = <<>> /\ allEntries = <<>> /\ lineCount = 0 /\ lastCursor = 0
      /\ log \in Seq(Entry) /\ found \in {0, 200, 404, 500}
  BY DEF Resolve, LookupInv, LookupTypeOK, RetrievalInv, RetrievalOK, LogOK, StatusInv
<1>2. /\ present' = Len(log)
      /\ UNCHANGED <<conf, log, response, allEntries, lineCount, lastCursor, out, outcome>>
  BY DEF Resolve
<1>3. \/ pc' = "end" /\ status' \in {0, 400, 404, 500}
      \/ pc' = "page" /\ Paged /\ status' = status
      \/ pc' = "request" /\ ~Paged /\ status' = status
  BY <1>1 DEF Resolve
<1>4. Len(log) \in Nat /\ present' \in 0..Len(log)
  BY <1>1, <1>2
<1>5. CASE pc' = "end"
  <2>1. status' \in {0, 400, 404, 500} /\ outcome' = "none" /\ out = <<>>
    BY <1>1, <1>2, <1>3, <1>5
  <2> QED
    BY <1>2, <1>4, <1>5, <2>1, StopKeeps
<1>6. CASE pc' \in {"page", "request"}
  <2>0. status' = status /\ (pc' = "page" => Paged) /\ (pc' = "request" => ~Paged)
    BY <1>3, <1>6
  <2>1. RetrievalOK'
    <3>1. LogOK'
      BY <1>2, <1>4 DEF RetrievalInv, RetrievalOK, LogOK, Sorted
    <3>2. BufferOK'
      BY <1>2 DEF RetrievalInv, RetrievalOK, BufferOK
    <3> QED
      BY <1>2, <1>6, <2>0, <3>1, <3>2 DEF RetrievalInv, RetrievalOK, AnswerOK, OutOK
  <2>2. Paged' = Paged
    BY <1>2 DEF Paged, Legacy
  <2>3. StatusInv'
    BY <1>1, <1>2, <1>6, <2>0, <2>2 DEF StatusInv
  <2>4. PageInv'
    <3>1. Lines(First(0)) = <<>>
      BY <1>1, <1>4, LinesOfStretch
    <3>2. (Lines(First(0)))' = <<>>
      BY <3>1, <1>2 DEF Lines, First, LinesOf
    <3>3. 0 \in 0..Len(log)
      BY <1>4
    <3> QED
      BY <1>1, <1>2, <3>2, <3>3 DEF PageInv
  <2>5. StreamInv' /\ TailInv' /\ FullLogIsExact' /\ TailIsSuffix' /\ EndStatus'
    BY <1>6 DEF StreamInv, TailInv, FullLogIsExact, TailIsSuffix, EndStatus
  <2> QED
    BY <2>1, <2>3, <2>4, <2>5 DEF RetrievalInv
<1> QED
  BY <1>3, <1>5, <1>6

\* A page is made of entries of the log.
LEMMA PageType ==
    ASSUME log \in Seq(Entry), NEW cursor
    PROVE  Page(cursor) \in Seq(1..Len(log))
<1> DEFINE from == {k \in DOMAIN log : \/ cursor = 0
                                       \/ log[k].at > cursor
                                       \/ conf.inclusive /\ log[k].at = cursor}
           size == IF Cardinality(from) < PageSize THEN Cardinality(from) ELSE PageSize
<1>1. Len(log) \in Nat /\ DOMAIN log = 1..Len(log)
  OBVIOUS
<1>2. IsFiniteSet(1..Len(log)) /\ Cardinality(1..Len(log)) = Len(log)
  BY <1>1, FS_Interval
<1>3. from \in SUBSET (1..Len(log))
  BY <1>1
<1>4. Page(cursor) = [i \in 1..size |-> Len(log) - Cardinality(from) + i]
  BY DEF Page
<1> HIDE DEF from
<1>5. Cardinality(from) \in Nat /\ Cardinality(from) <= Len(log)
  BY <1>2, <1>3, FS_Subset, FS_CardinalityType
<1>6. size \in Nat /\ size <= Cardinality(from)
  BY <1>5, LogRetrievalAssumption
<1> HIDE DEF size
<1>7. [i \in 1..size |-> Len(log) - Cardinality(from) + i] \in Seq(1..Len(log))
  BY <1>1, <1>5, <1>6
<1> QED
  BY <1>4, <1>7

\* Where the configuration fits, timestamps grow along the log.
LEMMA TimesGrow ==
    ASSUME log \in Seq(Entry), Sorted, PagingFits
    PROVE  /\ \A k \in 1..Len(log) : log[k].at \in 1..99 /\ log[k].at \in Int /\ log[k].at >= 1
           /\ \A j, k \in 1..Len(log) : j < k => log[j].at < log[k].at
<1>1. DOMAIN log = 1..Len(log) /\ Len(log) \in Nat
  OBVIOUS
<1>2. \A k \in 1..Len(log) : log[k].at \in 1..99 /\ log[k].at \in Int /\ log[k].at >= 1
  BY EntryTime
<1>3. ASSUME NEW j \in 1..Len(log), NEW k \in 1..Len(log), j < k
      PROVE  log[j].at < log[k].at
  <2>1. log[j].at <= log[k].at
    BY <1>3 DEF Sorted
  <2>2. log[j].at # log[k].at
    BY <1>1, <1>3 DEF PagingFits
  <2>3. log[j].at \in Int /\ log[k].at \in Int
    BY <1>2
  <2> QED
    BY <2>1, <2>2, <2>3
<1> QED
  BY <1>2, <1>3

\* At most is less or equal.
LEMMA AtMost == \A a, b \in Nat : a <= b => a = b \/ a < b
OBVIOUS

\* The page behind entry m, and its largest cursor.
Upto(m) == IF Len(log) - m < PageSize THEN Len(log) ELSE m + PageSize

CursorBehind(m) == lastCursor = IF m = 0 THEN 0 ELSE log[m].at + conf.increment

\* Behind a cursor, the backend's page is the entries that come next.
LEMMA PageIsStretch ==
    ASSUME log \in Seq(Entry), Sorted, PagingFits, NEW m \in 0..Len(log), CursorBehind(m)
    PROVE  Page(lastCursor) = Stretch(m, Upto(m))
<1> DEFINE from == {k \in DOMAIN log : \/ lastCursor = 0
                                       \/ log[k].at > lastCursor
                                       \/ conf.inclusive /\ log[k].at = lastCursor}
           size == IF Cardinality(from) < PageSize THEN Cardinality(from) ELSE PageSize
<1>1. Len(log) \in Nat /\ DOMAIN log = 1..Len(log) /\ PageSize \in Nat /\ m \in Nat /\ m <= Len(log)
  BY LogRetrievalAssumption
<1>2. /\ \A k \in 1..Len(log) : log[k].at \in 1..99 /\ log[k].at \in Int /\ log[k].at >= 1
      /\ \A j, k \in 1..Len(log) : j < k => log[j].at < log[k].at
  BY TimesGrow
<1>3. from = (m + 1)..Len(log)
  <2>1. CASE m = 0
    BY <1>1, <2>1 DEF CursorBehind
  <2>2. CASE m # 0
    <3>1. m \in 1..Len(log) /\ log[m].at \in 1..99 /\ log[m].at \in Int /\ log[m].at >= 1
      BY <1>1, <1>2, <2>2
    <3>2. ASSUME NEW k \in 1..Len(log)
          PROVE  (\/ lastCursor = 0
                  \/ log[k].at > lastCursor
                  \/ conf.inclusive /\ log[k].at = lastCursor) <=> log[k].at > log[m].at
      <4>1. log[k].at \in Int
        BY <1>2
      <4>2. conf.increment = IF conf.inclusive THEN 1 ELSE 0
        BY DEF PagingFits
      <4>3. lastCursor = log[m].at + conf.increment /\ log[m].at >= 1 /\ lastCursor # 0
        <5>1. log[m].at >= 1
          BY <3>1
        <5>2. lastCursor = log[m].at + conf.increment
          BY <2>2 DEF CursorBehind
        <5>3. conf.increment \in {0, 1}
          BY <4>2
        <5> QED
          BY <3>1, <5>1, <5>2, <5>3
      <4>4. CASE conf.inclusive
        BY <3>1, <4>1, <4>2, <4>3, <4>4
      <4>5. CASE ~conf.inclusive
        BY <3>1, <4>1, <4>2, <4>3, <4>5
      <4> QED
        BY <4>4, <4>5
    <3>3. ASSUME NEW k \in 1..Len(log) PROVE log[k].at > log[m].at <=> k > m
      <4>1. log[k].at \in Int /\ k \in Nat
        BY <1>1, <1>2
      <4>2. (k < m => log[k].at < log[m].at) /\ (m < k => log[m].at < log[k].at)
        BY <1>2, <3>1
      <4> QED
        BY <1>1, <3>1, <4>1, <4>2
    <3>4. from = {k \in 1..Len(log) : k > m}
      BY <1>1, <3>2, <3>3
    <3>5. {k \in 1..Len(log) : k > m} = (m + 1)..Len(log)
      BY <1>1
    <3> QED
      BY <3>4, <3>5
  <2> QED
    BY <2>1, <2>2
<1>4. Page(lastCursor) = [i \in 1..size |-> Len(log) - Cardinality(from) + i]
  BY DEF Page
<1> HIDE DEF from
<1>5. Cardinality(from) = Len(log) - m
  <2> DEFINE next == m + 1
             last == Len(log)
  <2>1. next \in Int /\ last \in Int
    BY <1>1
  <2>2. from = next..last
    BY <1>3
  <2> HIDE DEF next, last
  <2>3. Cardinality(from) = IF next > last THEN 0 ELSE last - next + 1
    BY <2>1, <2>2, FS_Interval
  <2>4. next = m + 1 /\ last = Len(log)
    BY DEF next, last
  <2>5. CASE m = Len(log)
    <3>1. next > last /\ Len(log) - m = 0
      BY <1>1, <2>4, <2>5
    <3> QED
      BY <2>3, <3>1
  <2>6. CASE m < Len(log)
    <3>1. ~(next > last) /\ Len(log) - m = last - next + 1
      BY <1>1, <2>4, <2>6
    <3> QED
      BY <2>3, <3>1
  <2>7. m = Len(log) \/ m < Len(log)
    BY <1>1, AtMost
  <2> QED
    BY <2>5, <2>6, <2>7
<1>6. size = Upto(m) - m /\ Len(log) - Cardinality(from) = m
  BY <1>1, <1>5 DEF Upto
<1> HIDE DEF size
<1> QED
  BY <1>4, <1>6 DEF Stretch

\* The next cursor is the time of the page's last entry.
LEMMA StretchCursor ==
    ASSUME log \in Seq(Entry), Sorted, PagingFits, NEW m \in Nat, NEW u \in 1..Len(log), m < u
    PROVE  NextCursor(Stretch(m, u)) = log[u].at
<1> DEFINE page == Stretch(m, u)
           c == NextCursor(page)
<1>1. Len(log) \in Nat /\ DOMAIN log = 1..Len(log) /\ u \in Nat
  OBVIOUS
<1>2. page \in Seq(1..Len(log)) /\ page # <<>> /\ DOMAIN page = 1..(u - m) /\ u - m \in 1..(u - m)
  BY <1>1 DEF Stretch
<1>3. \A i \in 1..(u - m) : page[i] = m + i /\ page[i] \in 1..Len(log) /\ (page[i] = u \/ page[i] < u)
  BY <1>1 DEF Stretch
<1>4. page[u - m] = u
  BY <1>1, <1>2 DEF Stretch
<1>5. PICK i \in 1..(u - m) : c = log[page[i]].at
  <2> HIDE DEF page
  <2> QED
    BY <1>2, NextCursorIsLargest
<1>6. ~TextLess(c, log[u].at)
  <2>1. \A j \in DOMAIN page : ~TextLess(NextCursor(page), log[page[j]].at)
    <3> HIDE DEF page
    <3> QED
      BY <1>2, NextCursorIsLargest
  <2> QED
    BY <1>2, <1>4, <2>1
<1> HIDE DEF page
<1>7. PICK k \in 1..Len(log) : c = log[k].at /\ (k = u \/ k < u)
  BY <1>3, <1>5
<1>8. /\ log[k].at \in 1..99 /\ log[u].at \in 1..99 /\ (k < u => log[k].at < log[u].at)
      /\ (log[k].at < 10 <=> log[u].at < 10)
  BY <1>1, TimesGrow DEF PagingFits
<1>9. ~(log[k].at < log[u].at)
  <2>1. TextLess(log[k].at, log[u].at) <=> log[k].at < log[u].at
    BY <1>8, TextOrder
  <2> QED
    BY <1>6, <1>7, <2>1
<1>10. k = u
  BY <1>7, <1>8, <1>9
<1> QED
  BY <1>7, <1>10 DEF page

\* A page that does not move the cursor is the single last entry.
LEMMA CursorStandsAtEnd ==
    ASSUME log \in Seq(Entry), Sorted, PagingFits, NEW m \in 0..Len(log), CursorBehind(m),
           m < Upto(m), CursorStands(log[Upto(m)].at)
    PROVE  Upto(m) = Len(log)
<1> DEFINE u == Upto(m)
<1>1. Len(log) \in Nat /\ m \in Nat /\ m <= Len(log) /\ PageSize \in Nat /\ PageSize > 1
  BY LogRetrievalAssumption DEF PagingFits
<1>2. u \in 1..Len(log) /\ (u = Len(log) \/ m + 2 <= u)
  BY <1>1 DEF Upto
<1>3. \A k \in 1..Len(log) : log[k].at \in Int /\ log[k].at >= 1
  BY TimesGrow
<1>4. SUFFICES ASSUME m + 2 <= u PROVE FALSE
  BY <1>2
<1>5. log[u].at = lastCursor
  BY DEF CursorStands
<1>6. m # 0
  BY <1>2, <1>3, <1>5 DEF CursorBehind
<1>7. m \in 1..Len(log) /\ m + 1 \in 1..Len(log) /\ u \in Nat
  BY <1>1, <1>2, <1>4, <1>6
<1>8. log[m].at < log[m + 1].at /\ log[m + 1].at < log[u].at
  <2>1. \A j, k \in 1..Len(log) : j < k => log[j].at < log[k].at
    BY TimesGrow
  <2>2. m < m + 1 /\ m + 1 < u
    BY <1>1, <1>4, <1>7
  <2> HIDE DEF u
  <2> QED
    BY <1>2, <1>7, <2>1, <2>2
<1>9. conf.increment \in {0, 1}
  BY DEF PagingFits
<1>10. log[u].at = log[m].at + conf.increment
  BY <1>5, <1>6 DEF CursorBehind
<1>11. log[m].at \in Int /\ log[m + 1].at \in Int /\ log[u].at \in Int
  BY <1>2, <1>3, <1>7
<1> HIDE DEF u
<1> QED
  BY <1>8, <1>9, <1>10, <1>11

\* What a page adds, for configurations that fit.
LEMMA PageAdds ==
    ASSUME RetrievalInv, pc = "page", PagingFits
    PROVE  \E m \in 0..Len(log) :
              /\ CursorBehind(m) /\ out = Lines(First(m)) /\ Upto(m) \in m..Len(log)
              /\ Page(lastCursor) = <<>> => m = Len(log)
              /\ Page(lastCursor) # <<>> =>
                    /\ out \o Lines(Page(lastCursor)) = Lines(First(Upto(m)))
                    /\ NextCursor(Page(lastCursor)) = log[Upto(m)].at
                    /\ m < Upto(m)
<1>1. log \in Seq(Entry) /\ Sorted
  BY DEF RetrievalInv, RetrievalOK, LogOK
<1>2. PICK m \in 0..Len(log) : out = Lines(First(m)) /\ CursorBehind(m)
  BY DEF RetrievalInv, PageInv, CursorBehind
<1>3. /\ Len(log) \in Nat /\ m \in Nat /\ m <= Len(log) /\ PageSize \in Nat /\ PageSize > 1
      /\ Upto(m) \in Nat /\ m <= Upto(m) /\ Upto(m) <= Len(log)
      /\ (m = Upto(m) => m = Len(log))
  BY <1>1, LogRetrievalAssumption DEF PagingFits, Upto
<1>4. Page(lastCursor) = Stretch(m, Upto(m))
  BY <1>1, <1>2, PageIsStretch
<1>5. Len(Stretch(m, Upto(m))) = Upto(m) - m
  BY <1>3, StretchFacts
<1>6. Lines(First(Upto(m))) = Cat(Lines(First(m)), Lines(Stretch(m, Upto(m))))
  BY <1>1, <1>3, LinesOfStretch
<1>7. CASE Page(lastCursor) = <<>>
  <2>1. Upto(m) - m = 0
    BY <1>4, <1>5, <1>7
  <2>2. m = Len(log)
    BY <1>3, <2>1
  <2> QED
    BY <1>2, <1>3, <1>7, <2>2
<1>8. CASE Page(lastCursor) # <<>>
  <2>1. m < Upto(m)
    <3>1. CASE m = Upto(m)
      BY <1>3, <1>4, <1>8, <3>1 DEF Stretch
    <3> QED
      BY <1>3, <3>1, AtMost
  <2>2. Upto(m) \in 1..Len(log)
    BY <1>3, <2>1
  <2>3. NextCursor(Page(lastCursor)) = log[Upto(m)].at
    BY <1>1, <1>3, <1>4, <2>1, <2>2, StretchCursor
  <2>4. out \o Lines(Page(lastCursor)) = Lines(First(Upto(m)))
    BY <1>2, <1>4, <1>6 DEF Cat
  <2> QED
    BY <1>2, <1>3, <1>8, <2>1, <2>3, <2>4
<1> QED
  BY <1>7, <1>8

\* Lines are added to what was sent.
LEMMA OutGrows ==
    ASSUME log \in Seq(Entry), out \in Seq(Nat \X Nat), NEW e \in Seq(1..Len(log)), e # <<>>
    PROVE  out \o Lines(e) \in Seq(Nat \X Nat) /\ out \o Lines(e) # <<>>
<1> DEFINE T == Nat \X Nat
           l == Lines(e)
<1>1. l \in Seq(T) /\ Len(l) >= Len(e)
  BY LinesTypes, LinesLength
<1>2. Len(e) \in Nat /\ Len(e) # 0
  OBVIOUS
<1> HIDE DEF l, T
<1>3. Len(l) \in Nat /\ Len(l) # 0
  BY <1>1, <1>2
<1>4. out \in Seq(T)
  BY DEF T
<1>5. out \o l \in Seq(T) /\ Len(out \o l) = Len(out) + Len(l)
  BY <1>1, <1>4, ConcatProperties
<1>6. Len(out \o l) # 0
  BY <1>3, <1>4, <1>5
<1> QED
  BY <1>5, <1>6 DEF l, T

\* Fetching a page keeps the invariant.
LEMMA FetchPageKeeps ==
    ASSUME RetrievalInv, FetchPage
    PROVE  RetrievalInv'
<1>1. /\ pc = "page" /\ Paged /\ outcome = "none" /\ status \in {0, 200} /\ (status = 200 <=> out # <<>>)
      /\ log \in Seq(Entry) /\ out \in Seq(Nat \X Nat) /\ present \in 0..Len(log)
  BY DEF FetchPage, RetrievalInv, StatusInv, RetrievalOK, LogOK, OutOK
<1>2. Page(lastCursor) \in Seq(1..Len(log))
  BY <1>1, PageType
<1>3. conf' = conf /\ log' = log /\ present' = present /\ response' = response
      /\ allEntries' = allEntries /\ lineCount' = lineCount
  BY DEF FetchPage, End
<1>4. Paged' = Paged /\ PagingFits' = PagingFits /\ conf.tail <= 0 /\ ~conf.reverse
  BY <1>1, <1>3 DEF Paged, Legacy, PagingFits
<1>5. \A n \in 0..Len(log) : (Lines(First(n)))' = Lines(First(n))
  BY <1>3 DEF Lines, First, LinesOf
<1>6. Len(log) \in Nat /\ present \in Nat /\ present <= Len(log)
  BY <1>1
<1>7. LogOK'
  BY <1>3 DEF RetrievalInv, RetrievalOK, LogOK, Sorted
<1>8. ~(conf.tail > 0) /\ conf' \in Config
  <2>1. conf.tail \in Int
    BY LogRetrievalAssumption DEF RetrievalInv, RetrievalOK, LogConfig
  <2> QED
    BY <1>3, <1>4, <2>1 DEF RetrievalInv, RetrievalOK
<1>9. TailIsSuffix' /\ TailInv' /\ StreamInv'
  <2>1. pc' \in {"page", "end"}
    BY <1>1 DEF FetchPage, End
  <2> QED
    BY <1>3, <1>8, <2>1 DEF TailIsSuffix, TailInv, StreamInv
<1>10. CASE Page(lastCursor) = <<>>
  <2>1. /\ pc' = "end" /\ outcome' = "complete" /\ status' = IF status = 200 THEN 200 ELSE 404
        /\ out' = out /\ lastCursor' = lastCursor
    BY <1>10 DEF FetchPage, End
  <2>2. RetrievalOK'
    <3>1. BufferOK'
      BY <1>3, <2>1 DEF RetrievalInv, RetrievalOK, BufferOK
    <3> QED
      BY <1>7, <1>8, <2>1, <3>1 DEF RetrievalInv, RetrievalOK, AnswerOK, OutOK
  <2>3. StatusInv' /\ PageInv' /\ EndStatus'
    BY <1>1, <2>1 DEF StatusInv, PageInv, EndStatus
  <2>4. FullLogIsExact'
    <3> SUFFICES ASSUME PagingFits PROVE FullLogIsExact'
      BY <1>1, <1>4 DEF FullLogIsExact
    <3>1. out = Lines(First(Len(log)))
      BY <1>1, <1>10, PageAdds
    <3>2. Len(log) \in present..Len(log) /\ Len(log) \in 0..Len(log)
      BY <1>6
    <3> QED
      BY <1>3, <1>5, <2>1, <3>1, <3>2 DEF FullLogIsExact
  <2> QED
    BY <1>9, <2>2, <2>3, <2>4 DEF RetrievalInv
<1>11. CASE Page(lastCursor) # <<>>
  <2> DEFINE page == Page(lastCursor)
             cursor == NextCursor(page)
  <2>1. /\ out' = out \o Lines(page) /\ status' = 200
        /\ \/ /\ ~conf.cursors \/ CursorStands(cursor)
              /\ pc' = "end" /\ outcome' = "complete" /\ lastCursor' = lastCursor
           \/ lastCursor' = Advance(cursor) /\ pc' = pc /\ outcome' = outcome
    BY <1>11 DEF FetchPage
  <2>2. out' \in Seq(Nat \X Nat) /\ out' # <<>>
    BY <1>1, <1>2, <1>11, <2>1, OutGrows
  <2>3. cursor \in 1..99
    BY <1>1, <1>2, <1>11, NextCursorIsLargest
  <2>4. lastCursor' \in Nat
    <3>1. conf.increment \in Nat
      BY LogRetrievalAssumption DEF RetrievalInv, RetrievalOK, LogConfig
    <3>2. lastCursor \in Nat
      BY DEF RetrievalInv, RetrievalOK, BufferOK
    <3> HIDE DEF cursor
    <3> QED
      BY <2>1, <2>3, <3>1, <3>2 DEF Advance
  <2> HIDE DEF page, cursor
  <2>5. RetrievalOK'
    <3>1. BufferOK'
      BY <1>3, <2>4 DEF RetrievalInv, RetrievalOK, BufferOK
    <3> QED
      BY <1>1, <1>7, <1>8, <2>1, <2>2, <3>1 DEF RetrievalInv, RetrievalOK, AnswerOK, OutOK
  <2>6. StatusInv' /\ EndStatus'
    BY <1>1, <1>4, <2>1, <2>2 DEF StatusInv, EndStatus
  <2>7. PageInv' /\ FullLogIsExact'
    <3>1. CASE ~PagingFits
      BY <1>1, <1>4, <3>1 DEF PageInv, FullLogIsExact
    <3>2. CASE PagingFits
      <4>1. PICK m \in 0..Len(log) :
              /\ CursorBehind(m) /\ Upto(m) \in m..Len(log) /\ m < Upto(m)
              /\ out' = Lines(First(Upto(m))) /\ cursor = log[Upto(m)].at
        BY <1>1, <1>11, <2>1, <3>2, PageAdds DEF page, cursor
      <4>2. Upto(m) \in Nat /\ Upto(m) \in 0..Len(log) /\ Upto(m) # 0
        BY <1>6, <4>1
      <4>3. out' = (Lines(First(Upto(m))))' /\ Upto(m)' = Upto(m)
        BY <1>3, <1>5, <4>1, <4>2 DEF Upto
      <4>4. PICK u \in 0..Len(log) : u = Upto(m)
        BY <4>2
      <4>5. out' = Lines(First(u))'
        BY <1>5, <4>1, <4>4
      <4>6. CASE pc' = "end"
        <5>1. CursorStands(log[Upto(m)].at)
          BY <1>1, <2>1, <3>2, <4>1, <4>6 DEF PagingFits
        <5>2. u = Len(log)
          BY <1>1, <3>2, <4>1, <4>4, <5>1, CursorStandsAtEnd DEF RetrievalInv, RetrievalOK, LogOK
        <5>3. u \in present..Len(log)
          BY <1>6, <5>2
        <5> QED
          BY <1>3, <4>5, <4>6, <5>3 DEF PageInv, FullLogIsExact
      <4>7. CASE pc' # "end"
        <5>1. lastCursor' = log[u].at + conf.increment
          BY <2>1, <4>1, <4>4, <4>7 DEF Advance
        <5> QED
          BY <1>3, <4>2, <4>4, <4>5, <4>7, <5>1 DEF PageInv, FullLogIsExact
      <4> QED
        BY <4>6, <4>7
    <3> QED
      BY <3>1, <3>2
  <2> QED
    BY <1>9, <2>5, <2>6, <2>7 DEF RetrievalInv
<1> QED
  BY <1>10, <1>11

(* A single request *)
LEMMA ConfigTypes ==
    ASSUME RetrievalInv
    PROVE  /\ conf \in Config /\ conf.tail \in Int /\ conf.tail >= -1
           /\ conf.perLine \in Nat /\ conf.perLine # 0
BY LogRetrievalAssumption DEF RetrievalInv, RetrievalOK, LogConfig

\* What the one-request backends answer: all, or the last entries.
LEMMA RequestedTypes ==
    ASSUME NEW n \in Nat, NEW t \in Int, t >= -1, NEW r, NEW resp,
           resp = LET all == IF r THEN [k \in 1..n |-> n + 1 - k] ELSE [k \in 1..n |-> k]
                  IN  IF t > 0 /\ t < n
                      THEN IF r THEN SubSeq(all, 1, t) ELSE SubSeq(all, n - t + 1, n)
                      ELSE all
    PROVE  /\ resp \in Seq(1..n)
           /\ ~(t > 0) /\ ~r => resp = Stretch(0, n)
           /\ t > 0 /\ r => resp = Back(n - (IF t < n THEN t ELSE n), n)
<1> DEFINE up == [k \in 1..n |-> k]
           down == [k \in 1..n |-> n + 1 - k]
<1>1. up \in Seq(1..n) /\ down \in Seq(1..n) /\ Len(up) = n /\ Len(down) = n
  OBVIOUS
<1>2. up = Stretch(0, n) /\ down = Back(0, n)
  BY DEF Stretch, Back
<1>3. CASE t > 0 /\ t < n
  <2>1. t \in Nat /\ n - t \in Nat /\ n - t <= n
    BY <1>3
  <2>2. resp = IF r THEN SubSeq(down, 1, t) ELSE SubSeq(up, n - t + 1, n)
    BY <1>3
  <2>3. SubSeq(down, 1, t) = Back(n - t, n)
    BY <2>1 DEF Back
  <2>4. Back(n - t, n) \in Seq(1..n)
    BY <2>1, BackFacts
  <2>5. SubSeq(up, n - t + 1, n) \in Seq(1..n)
    <3> HIDE DEF up
    <3> QED
      BY <1>1, <2>1, SubSeqProperties
  <2> HIDE DEF up, down
  <2> QED
    BY <1>3, <2>2, <2>3, <2>4, <2>5
<1>4. CASE ~(t > 0 /\ t < n)
  <2>1. resp = IF r THEN down ELSE up
    BY <1>4
  <2>2. t > 0 => n - (IF t < n THEN t ELSE n) = 0
    BY <1>4
  <2> HIDE DEF up, down
  <2> QED
    BY <1>1, <1>2, <2>1, <2>2
<1> QED
  BY <1>3, <1>4

\* Sending the one request keeps the invariant.
LEMMA SendRequestKeeps ==
    ASSUME RetrievalInv, SendRequest
    PROVE  RetrievalInv'
<1>1. /\ pc = "request" /\ ~Paged /\ status = 0 /\ out = <<>> /\ outcome = "none"
      /\ allEntries = <<>> /\ lineCount = 0 /\ lastCursor = 0 /\ log \in Seq(Entry)
  BY DEF SendRequest, RetrievalInv, StatusInv, RetrievalOK, LogOK
<1>2. /\ pc' = "read" /\ present' = Len(log)
      /\ UNCHANGED <<conf, log, allEntries, lineCount, lastCursor, status, out, outcome>>
  BY DEF SendRequest
<1>3. Len(log) \in Nat
  BY <1>1
<1>4. /\ response' \in Seq(1..Len(log))
      /\ ~(conf.tail > 0) /\ ~conf.reverse => response' = Stretch(0, Len(log))
      /\ conf.tail > 0 /\ conf.reverse =>
            response' = Back(Len(log) - (IF conf.tail < Len(log) THEN conf.tail ELSE Len(log)), Len(log))
  <2> DEFINE n == Len(log)
             t == conf.tail
             r == conf.reverse
             resp == response'
  <2>1. resp = LET all == IF r THEN [k \in 1..n |-> n + 1 - k] ELSE [k \in 1..n |-> k]
               IN  IF t > 0 /\ t < n
                   THEN IF r THEN SubSeq(all, 1, t) ELSE SubSeq(all, n - t + 1, n)
                   ELSE all
    BY DEF SendRequest
  <2>2. n \in Nat /\ t \in Int /\ t >= -1
    BY <1>3, ConfigTypes
  <2> HIDE DEF n, t, r, resp
  <2>3. /\ resp \in Seq(1..n)
        /\ ~(t > 0) /\ ~r => resp = Stretch(0, n)
        /\ t > 0 /\ r => resp = Back(n - (IF t < n THEN t ELSE n), n)
    BY <2>1, <2>2, RequestedTypes
  <2> QED
    BY <2>3 DEF n, t, r, resp
<1>5. RetrievalOK'
  <2>1. LogOK'
    BY <1>2, <1>3 DEF RetrievalInv, RetrievalOK, LogOK, Sorted
  <2>2. BufferOK'
    BY <1>2, <1>4 DEF RetrievalInv, RetrievalOK, BufferOK
  <2> QED
    BY <1>2, <2>1, <2>2 DEF RetrievalInv, RetrievalOK, AnswerOK, OutOK
<1>6. Paged' = Paged /\ Buffered' = Buffered
  BY <1>2 DEF Paged, Legacy, Buffered
<1>7. Lines(<<>>)' = <<>> /\ (Lines(First(0)))' = <<>>
  <2>1. Lines(First(0)) = <<>> /\ First(0) = <<>>
    <3>1. Lines(First(0)) = <<>>
      BY <1>1, <1>3, LinesOfStretch
    <3>2. First(0) = <<>>
      BY DEF First
    <3> QED
      BY <3>1, <3>2
  <2> QED
    BY <1>2, <2>1 DEF Lines, First, LinesOf
<1>8. StatusInv'
  BY <1>1, <1>2, <1>6 DEF StatusInv
<1>9. StreamInv'
  <2> SUFFICES ASSUME ~Buffered PROVE StreamInv'
    BY <1>6 DEF StreamInv
  <2>1. response' = Stretch(0, Len(log)) /\ 0 \in 0..Len(log)
    BY <1>3, <1>4 DEF Buffered
  <2> QED
    BY <1>1, <1>2, <1>7, <2>1 DEF StreamInv
<1>10. TailInv'
  <2> SUFFICES ASSUME conf.tail > 0, conf.reverse PROVE TailInv'
    BY <1>2 DEF TailInv
  <2> DEFINE n == Len(log)
             few == IF conf.tail < n THEN conf.tail ELSE n
  <2>1. few \in Nat /\ 0 \in 0..few /\ n - 0 = n
    BY <1>3, ConfigTypes
  <2>2. Few' = few /\ response' = Back(n - few, n)
    BY <1>2, <1>4 DEF Few
  <2>3. Back(n, n) = <<>>
    BY <1>3 DEF Back
  <2>4. lineCount' = Len(Lines(allEntries))' /\ allEntries' = <<>>
    BY <1>1, <1>2, <1>7 DEF Lines, LinesOf
  <2> HIDE DEF few
  <2> QED
    BY <1>2, <2>1, <2>2, <2>3, <2>4 DEF TailInv
<1>11. PageInv' /\ FullLogIsExact' /\ TailIsSuffix' /\ EndStatus'
  BY <1>2 DEF PageInv, FullLogIsExact, TailIsSuffix, EndStatus
<1> QED
  BY <1>5, <1>8, <1>9, <1>10, <1>11 DEF RetrievalInv

\* A line of the response and what follows it.
LEMMA LineFacts ==
    ASSUME RetrievalInv
    PROVE  \E q \in 0..Len(response) :
              /\ NextLine = SubSeq(response, 1, q) /\ Rest = SubSeq(response, q + 1, Len(response))
              /\ NextLine \in Seq(1..Len(log)) /\ Rest \in Seq(1..Len(log))
              /\ Len(NextLine) = q /\ Len(Rest) = Len(response) - q
              /\ response # <<>> => q # 0
<1> DEFINE q == IF conf.perLine < Len(response) THEN conf.perLine ELSE Len(response)
           S == 1..Len(log)
<1>1. conf.perLine \in Nat /\ conf.perLine # 0 /\ response \in Seq(S)
  BY ConfigTypes DEF RetrievalInv, RetrievalOK, BufferOK
<1> HIDE DEF S
<1>2. Len(response) \in Nat /\ (response # <<>> => Len(response) # 0)
  BY <1>1
<1>3. q \in 0..Len(response) /\ (response # <<>> => q # 0)
  BY <1>1, <1>2
<1>4. NextLine = SubSeq(response, 1, q)
  BY DEF NextLine
<1> HIDE DEF q
<1>5. \A i \in 1..Len(response) : response[i] \in S
  BY <1>1
<1>6. SubSeq(response, 1, q) \in Seq(S) /\ Len(SubSeq(response, 1, q)) = q
  BY <1>1, <1>2, <1>3
<1>7. SubSeq(response, q + 1, Len(response)) \in Seq(S)
      /\ Len(SubSeq(response, q + 1, Len(response))) = Len(response) - q
  BY <1>1, <1>2, <1>3
<1>8. Rest = SubSeq(response, q + 1, Len(response))
  BY <1>4, <1>6 DEF Rest
<1> QED
  BY <1>3, <1>4, <1>6, <1>7, <1>8 DEF S

\* Passing a line on keeps the invariant.
LEMMA StreamLineKeeps ==
    ASSUME RetrievalInv, response # <<>>, StreamLine
    PROVE  RetrievalInv'
<1>1. /\ pc = "read" /\ ~Buffered /\ outcome = "none" /\ log \in Seq(Entry)
      /\ out \in Seq(Nat \X Nat) /\ present \in 0..Len(log) /\ ~Paged
  BY DEF StreamLine, RetrievalInv, StatusInv, RetrievalOK, LogOK, OutOK
<1>2. /\ out' = out \o Lines(NextLine) /\ response' = Rest
      /\ status' = IF NextLine # <<>> THEN 200 ELSE status
      /\ IF Rest # <<>> THEN UNCHANGED <<pc, outcome>> ELSE pc' = "end" /\ outcome' = "complete"
      /\ UNCHANGED <<conf, log, allEntries, lineCount, lastCursor, present>>
  BY DEF StreamLine
<1>3. PICK q \in 0..Len(response) :
         /\ NextLine = SubSeq(response, 1, q) /\ Rest = SubSeq(response, q + 1, Len(response))
         /\ NextLine \in Seq(1..Len(log)) /\ Rest \in Seq(1..Len(log))
         /\ Len(NextLine) = q /\ Len(Rest) = Len(response) - q /\ q # 0
  BY LineFacts
<1>4. NextLine # <<>>
  BY <1>3
<1>5. out' \in Seq(Nat \X Nat) /\ out' # <<>> /\ status' = 200
  BY <1>1, <1>2, <1>3, <1>4, OutGrows
<1>6. RetrievalOK'
  <2>1. LogOK'
    BY <1>2 DEF RetrievalInv, RetrievalOK, LogOK, Sorted
  <2>2. BufferOK'
    BY <1>2, <1>3 DEF RetrievalInv, RetrievalOK, BufferOK
  <2>3. AnswerOK' /\ OutOK'
    BY <1>1, <1>2, <1>5 DEF AnswerOK, OutOK
  <2>4. conf' \in Config
    BY <1>2 DEF RetrievalInv, RetrievalOK
  <2> QED
    BY <2>1, <2>2, <2>3, <2>4 DEF RetrievalOK
<1>7. Paged' = Paged /\ Buffered' = Buffered /\ pc' \in {"read", "end"}
  BY <1>1, <1>2 DEF Paged, Legacy, Buffered
<1>8. StatusInv' /\ EndStatus' /\ PageInv'
  BY <1>1, <1>2, <1>5, <1>7 DEF StatusInv, EndStatus, PageInv
<1>9. TailInv' /\ TailIsSuffix'
  BY <1>1, <1>2 DEF TailInv, TailIsSuffix, Buffered
<1>10. PICK m \in 0..present : out = Lines(First(m)) /\ response = Stretch(m, present)
  BY <1>1 DEF RetrievalInv, StreamInv
<1>11. /\ Len(log) \in Nat /\ present \in Nat /\ m \in Nat /\ m <= present /\ present <= Len(log)
       /\ q \in Nat
  BY <1>1, <1>3
<1>12. Len(response) = present - m /\ q <= present - m
  <2>1. Len(Stretch(m, present)) = present - m
    BY <1>11, StretchFacts
  <2> QED
    BY <1>3, <1>10, <2>1
<1>13. PICK u \in Nat : u = m + q /\ m <= u /\ u <= present /\ u - m = q
  BY <1>11, <1>12
<1>14. NextLine = Stretch(m, u) /\ Rest = Stretch(u, present)
  <2>0. m \in Nat /\ u \in Nat /\ present \in Nat /\ m <= u /\ u <= present
    BY <1>11, <1>13
  <2>1. Part(Stretch(m, present), 1, u - m) = Stretch(m, u)
        /\ Part(Stretch(m, present), u - m + 1, present - m) = Stretch(u, present)
    BY <2>0, StretchFacts
  <2> QED
    BY <1>3, <1>10, <1>12, <1>13, <2>1 DEF Part
<1>15. out' = Lines(First(u))
  <2>1. Lines(First(u)) = Cat(Lines(First(m)), Lines(Stretch(m, u)))
    BY <1>1, <1>11, <1>13, LinesOfStretch
  <2> QED
    BY <1>2, <1>10, <1>14, <2>1 DEF Cat
<1>16. out' = Lines(First(u))'
  BY <1>2, <1>15 DEF Lines, First, LinesOf
<1>17. u \in 0..present /\ (u = present \/ u < present)
  BY <1>11, <1>13, AtMost
<1>18. CASE Rest = <<>>
  <2>1. u = present
    <3>1. Len(Rest) = 0
      BY <1>18
    <3> QED
      BY <1>3, <1>11, <1>12, <1>13, <3>1
  <2>2. present \in present..Len(log)
    BY <1>11
  <2>3. FullLogIsExact' /\ StreamInv'
    BY <1>2, <1>16, <1>18, <2>1, <2>2 DEF FullLogIsExact, StreamInv
  <2> QED
    BY <1>6, <1>8, <1>9, <2>3 DEF RetrievalInv
<1>19. CASE Rest # <<>>
  <2>1. u # present
    <3>1. Len(Rest) # 0
      BY <1>3, <1>19
    <3> QED
      BY <1>3, <1>11, <1>12, <1>13, <3>1
  <2>2. StreamInv' /\ FullLogIsExact'
    BY <1>1, <1>2, <1>14, <1>16, <1>17, <1>19, <2>1 DEF FullLogIsExact, StreamInv
  <2> QED
    BY <1>6, <1>8, <1>9, <2>2 DEF RetrievalInv
<1> QED
  BY <1>18, <1>19

\* Keeping a line in the buffer keeps the invariant.
LEMMA BufferLineKeeps ==
    ASSUME RetrievalInv, BufferLine
    PROVE  RetrievalInv'
<1>1. /\ pc = "read" /\ Buffered /\ outcome = "none" /\ log \in Seq(Entry) /\ present \in 0..Len(log)
      /\ ~Paged /\ status = 0 /\ allEntries \in Seq(1..Len(log)) /\ lineCount \in Nat
  BY DEF BufferLine, RetrievalInv, StatusInv, RetrievalOK, LogOK, BufferOK
<1>2. /\ allEntries' = allEntries \o NextLine /\ lineCount' = lineCount + Len(Lines(NextLine))
      /\ response' = Rest
      /\ pc' = IF Rest = <<>> \/ (conf.tail > 0 /\ lineCount' >= conf.tail) THEN "write" ELSE "read"
      /\ UNCHANGED <<conf, log, lastCursor, status, out, outcome, present>>
  BY DEF BufferLine
<1>3. PICK q \in 0..Len(response) :
         /\ NextLine = SubSeq(response, 1, q) /\ Rest = SubSeq(response, q + 1, Len(response))
         /\ NextLine \in Seq(1..Len(log)) /\ Rest \in Seq(1..Len(log))
         /\ Len(NextLine) = q /\ Len(Rest) = Len(response) - q
  BY LineFacts
<1>4. /\ allEntries' \in Seq(1..Len(log)) /\ lineCount' \in Nat
  <2>1. Lines(NextLine) \in Seq(Nat \X Nat)
    BY <1>1, <1>3, LinesTypes
  <2>2. Len(Lines(NextLine)) \in Nat
    BY <2>1
  <2>3. allEntries \o NextLine \in Seq(1..Len(log))
    BY <1>1, <1>3, ConcatProperties
  <2> QED
    BY <1>1, <1>2, <2>2, <2>3
<1>5. pc' \in {"read", "write"} /\ Paged' = Paged /\ Buffered' = Buffered
  BY <1>2 DEF Paged, Legacy, Buffered
<1>6. RetrievalOK'
  <2>1. LogOK'
    BY <1>2 DEF RetrievalInv, RetrievalOK, LogOK, Sorted
  <2>2. BufferOK'
    BY <1>2, <1>3, <1>4 DEF RetrievalInv, RetrievalOK, BufferOK
  <2> QED
    BY <1>2, <1>5, <2>1, <2>2 DEF RetrievalInv, RetrievalOK, AnswerOK, OutOK
<1>7. StatusInv'
  BY <1>1, <1>2, <1>5 DEF RetrievalInv, StatusInv
<1>8. StreamInv' /\ PageInv' /\ FullLogIsExact' /\ TailIsSuffix' /\ EndStatus'
  BY <1>1, <1>5 DEF StreamInv, PageInv, FullLogIsExact, TailIsSuffix, EndStatus
<1>9. TailInv'
  <2> SUFFICES ASSUME conf.tail > 0, conf.reverse PROVE TailInv'
    BY <1>2 DEF TailInv
  <2>1. PICK m \in 0..Few : /\ allEntries = Back(present - m, present)
                            /\ response = Back(present - Few, present - m)
                            /\ lineCount = Len(Lines(allEntries))
    BY <1>1 DEF RetrievalInv, TailInv
  <2>2. /\ Few \in Nat /\ Few <= present /\ m \in Nat /\ m <= Few /\ present \in Nat
        /\ present <= Len(log) /\ Len(log) \in Nat
    <3>1. conf.tail \in Int /\ present \in Nat /\ Len(log) \in Nat /\ present <= Len(log)
      BY <1>1, ConfigTypes
    <3>2. Few \in Nat /\ Few <= present
      BY <3>1 DEF Few
    <3> QED
      BY <3>1, <3>2
  <2>3. PICK f \in Nat : f = present - Few
    BY <2>2
  <2>4. PICK s \in Nat : s = present - m /\ f <= s /\ s <= present
    BY <2>2, <2>3
  <2>5. Len(response) = s - f /\ q \in Nat /\ q <= s - f
    <3>0. s <= s /\ f <= s
      BY <2>4
    <3>1. Len(Back(f, s)) = s - f
      BY <3>0 DEF Back
    <3> QED
      BY <1>3, <2>1, <2>3, <2>4, <3>1
  <2>6. PICK r \in Nat : r = s - q /\ f <= r /\ r <= s /\ s - r = q
    BY <2>4, <2>5
  <2>7. NextLine = Back(r, s) /\ Rest = Back(f, r)
    <3>0. f <= r /\ r <= s
      BY <2>6
    <3>1. Part(Back(f, s), 1, s - r) = Back(r, s) /\ Part(Back(f, s), s - r + 1, s - f) = Back(f, r)
      BY <3>0, BackFacts
    <3> QED
      BY <1>3, <2>1, <2>3, <2>4, <2>5, <2>6, <3>1 DEF Part
  <2>8. allEntries' = Back(r, present)
    <3>1. Cat(Back(s, present), Back(r, s)) = Back(r, present)
      BY <2>2, <2>4, <2>6, BackFacts
    <3> QED
      BY <1>2, <2>1, <2>4, <2>7, <3>1 DEF Cat
  <2>9. lineCount' = Len(Lines(allEntries'))
    <3>1. Lines(allEntries \o NextLine) = Lines(allEntries) \o Lines(NextLine)
      BY <1>1, <1>3, LinesConcat
    <3> DEFINE T == Nat \X Nat
               a == Lines(allEntries)
               b == Lines(NextLine)
    <3>2. a \in Seq(T) /\ b \in Seq(T)
      BY <1>1, <1>3, LinesTypes
    <3> HIDE DEF T, a, b
    <3>3. Len(a \o b) = Len(a) + Len(b)
      BY <3>2, ConcatProperties
    <3> QED
      BY <1>2, <2>1, <3>1, <3>3 DEF a, b
  <2>10. lineCount' = Len(Lines(allEntries))'
    BY <1>2, <2>9 DEF Lines, LinesOf
  <2>11. PICK k \in 0..Few : k = present - r /\ present - k = r
    BY <2>2, <2>3, <2>4, <2>6
  <2>12. Rest = <<>> => k = Few
    <3> SUFFICES ASSUME Rest = <<>> PROVE k = Few
      OBVIOUS
    <3>1. Len(Rest) = 0
      OBVIOUS
    <3> QED
      BY <1>3, <2>2, <2>3, <2>4, <2>5, <2>6, <2>11, <3>1
  <2>13. Few' = Few
    BY <1>2 DEF Few
  <2>14. pc' = "write" => k = Few \/ lineCount' >= conf.tail
    BY <1>2, <2>12
  <2>15. response' = Back(present - Few, present - k)
    BY <1>2, <2>3, <2>7, <2>11
  <2>16. allEntries' = Back(present - k, present)
    BY <2>8, <2>11
  <2> QED
    BY <1>2, <2>10, <2>13, <2>14, <2>15, <2>16 DEF TailInv
<1> QED
  BY <1>6, <1>7, <1>8, <1>9 DEF RetrievalInv

\* The last elements of the end of a sequence are its own last elements.
LEMMA EndIsSuffix ==
    ASSUME NEW T, NEW a \in Seq(T), NEW s \in Seq(T), NEW i \in 1..(Len(s) + 1)
    PROVE  IsSuffix(Part(s, i, Len(s)), Cat(a, s))
<1> DEFINE n == Len(s)
           c == a \o s
           e == SubSeq(s, i, n)
<1>1. n \in Nat /\ Len(a) \in Nat /\ i \in Nat /\ i <= n + 1 /\ 1 <= i
  OBVIOUS
<1>2. /\ c \in Seq(T) /\ Len(c) = Len(a) + n
      /\ \A j \in 1..(Len(a) + n) : c[j] = IF j <= Len(a) THEN a[j] ELSE s[j - Len(a)]
  BY ConcatProperties
<1>3. e \in Seq(T) /\ Len(e) = n - i + 1 /\ \A j \in 1..(n - i + 1) : e[j] = s[i + j - 1]
  BY <1>1
<1> HIDE DEF c, e, n
<1> DEFINE l == n - i + 1
           m == Len(a) + n
<1>4. l \in Nat /\ m \in Nat /\ l <= m /\ Len(e) = l /\ Len(c) = m
  BY <1>1, <1>2, <1>3
<1>5. /\ Reverse(e) \in Seq(T) /\ Len(Reverse(e)) = l /\ Reverse(c) \in Seq(T) /\ Len(Reverse(c)) = m
      /\ \A j \in 1..l : Reverse(e)[j] = e[l - j + 1]
      /\ \A j \in 1..m : Reverse(c)[j] = c[m - j + 1]
  <2>1. \A x \in Seq(T) : /\ Reverse(x) \in Seq(T) /\ Len(Reverse(x)) = Len(x)
                          /\ \A j \in 1..Len(x) : Reverse(x)[j] = x[Len(x) - j + 1]
    BY DEF Reverse
  <2> HIDE DEF l, m
  <2> QED
    BY <1>2, <1>3, <1>4, <2>1
<1>6. ASSUME NEW j \in 1..l PROVE Reverse(e)[j] = Reverse(c)[j]
  <2>1. j \in 1..m /\ l - j + 1 \in 1..l /\ m - j + 1 \in 1..m /\ j \in Nat
    BY <1>1, <1>4
  <2>2. e[l - j + 1] = s[i + (l - j + 1) - 1]
    BY <1>3, <2>1
  <2>3. ~(m - j + 1 <= Len(a))
    BY <1>1, <2>1
  <2>4. c[m - j + 1] = s[(m - j + 1) - Len(a)]
    BY <1>2, <2>1, <2>3
  <2>5. i + (l - j + 1) - 1 = (m - j + 1) - Len(a)
    BY <1>1, <2>1
  <2> QED
    BY <1>5, <2>1, <2>2, <2>4, <2>5
<1> DEFINE re == Reverse(e)
           rc == Reverse(c)
<1>7. /\ re \in Seq(T) /\ rc \in Seq(T) /\ Len(re) = l /\ Len(rc) = m /\ l \in Nat /\ m \in Nat
      /\ l <= m /\ \A j \in 1..l : re[j] = rc[j]
  BY <1>4, <1>5, <1>6
<1> HIDE DEF l, m, re, rc
<1>8. SubSeq(re, 1, l) = SubSeq(rc, 1, l)
  BY <1>7
<1>9. IsPrefix(re, rc)
  BY <1>7, <1>8 DEF IsPrefix
<1> QED
  BY <1>9 DEF IsSuffix, re, rc, e, c, n, Part, Cat

\* What is kept of the lines.
LEMMA LastLinesFacts ==
    ASSUME RetrievalInv, NEW T, NEW s \in Seq(T)
    PROVE  /\ LastLines(s) \in Seq(T)
           /\ s # <<>> => LastLines(s) # <<>>
           /\ conf.tail > 0 => /\ Len(LastLines(s)) = IF conf.tail < Len(s) THEN conf.tail ELSE Len(s)
                               /\ Len(LastLines(s)) <= conf.tail
           /\ \A a \in Seq(T) : IsSuffix(LastLines(s), Cat(a, s))
<1>1. conf.tail \in Int /\ Len(s) \in Nat /\ (s # <<>> => Len(s) # 0)
  BY ConfigTypes
<1>2. CASE conf.tail > 0 /\ Len(s) > conf.tail
  <2> DEFINE i == Len(s) - conf.tail + 1
  <2>1. i \in 1..(Len(s) + 1) /\ i \in Nat /\ Len(s) - i + 1 = conf.tail
    BY <1>1, <1>2
  <2>2. LastLines(s) = Part(s, i, Len(s))
    BY <1>2 DEF LastLines, Part
  <2> HIDE DEF i
  <2>3. Part(s, i, Len(s)) \in Seq(T) /\ Len(Part(s, i, Len(s))) = Len(s) - i + 1
    BY <1>1, <2>1 DEF Part
  <2>4. \A a \in Seq(T) : IsSuffix(Part(s, i, Len(s)), Cat(a, s))
    BY <2>1, EndIsSuffix
  <2>5. Len(LastLines(s)) = conf.tail /\ conf.tail < Len(s) /\ conf.tail # 0
    BY <1>1, <1>2, <2>1, <2>2, <2>3
  <2>6. LastLines(s) # <<>>
    BY <1>2, <2>5
  <2> QED
    BY <1>1, <2>2, <2>3, <2>4, <2>5, <2>6
<1>3. CASE ~(conf.tail > 0 /\ Len(s) > conf.tail)
  <2>1. LastLines(s) = s
    BY <1>3 DEF LastLines
  <2>2. conf.tail > 0 => ~(conf.tail < Len(s)) /\ Len(s) <= conf.tail
    BY <1>1, <1>3
  <2>3. Part(s, 1, Len(s)) = s /\ 1 \in 1..(Len(s) + 1)
    BY <1>1 DEF Part
  <2>4. \A a \in Seq(T) : IsSuffix(Part(s, 1, Len(s)), Cat(a, s))
    BY <2>3, EndIsSuffix
  <2> QED
    BY <2>1, <2>2, <2>3, <2>4
<1> QED
  BY <1>2, <1>3

\* Without blank lines the two forms of lines are the same.
LEMMA NoBlanks ==
    ASSUME log \in Seq(Entry), NEW n \in 0..Len(log), NEW e \in Seq(1..n),
           \A k \in 1..n : FlatLines(k) = LinesOf(k)
    PROVE  Flattened(e) = Lines(e)
<1>1. \A j \in DOMAIN e : FlatLines(e[j]) = LinesOf(e[j])
  OBVIOUS
<1>2. [j \in DOMAIN e |-> FlatLines(e[j])] = [j \in DOMAIN e |-> LinesOf(e[j])]
  BY <1>1
<1> QED
  BY <1>2 DEF Flattened, Lines

\* Writing the buffer keeps the invariant.
LEMMA WriteBufferKeeps ==
    ASSUME RetrievalInv, WriteBuffer
    PROVE  RetrievalInv'
<1>1. /\ pc = "write" /\ Buffered /\ status = 0 /\ out = <<>> /\ log \in Seq(Entry)
      /\ allEntries \in Seq(1..Len(log)) /\ present \in 0..Len(log)
  BY DEF WriteBuffer, RetrievalInv, StatusInv, RetrievalOK, LogOK, BufferOK
<1>2. /\ pc' = "end" /\ outcome' = "complete"
      /\ UNCHANGED <<conf, log, response, allEntries, lineCount, lastCursor, present>>
  BY DEF WriteBuffer, End
<1>3. CASE allEntries = <<>>
  <2>1. status' = 404 /\ out' = out
    BY <1>3 DEF WriteBuffer, End
  <2> QED
    BY <1>1, <1>2, <2>1, StopKeeps
<1>4. CASE allEntries # <<>>
  <2> DEFINE ordered == IF conf.reverse THEN Reverse(allEntries) ELSE allEntries
             T == Nat \X Nat
             flat == Flattened(ordered)
  <2>1. status' = 200 /\ out' = LastLines(flat)
    BY <1>4 DEF WriteBuffer, End
  <2>2. ordered \in Seq(1..Len(log)) /\ Len(ordered) = Len(allEntries) /\ ordered # <<>>
    <3>1. Reverse(allEntries) \in Seq(1..Len(log)) /\ Len(Reverse(allEntries)) = Len(allEntries)
      BY <1>1 DEF Reverse
    <3>2. Len(allEntries) # 0 /\ Len(allEntries) \in Nat
      BY <1>1, <1>4
    <3>3. Reverse(allEntries) # <<>>
      BY <3>1, <3>2
    <3> QED
      BY <1>1, <1>4, <3>1, <3>3
  <2>3. flat \in Seq(T)
    <3> HIDE DEF ordered
    <3> QED
      BY <1>1, <2>2, LinesTypes
  <2>4. (\A k \in DOMAIN log : FlatLines(k) # <<>>) => flat # <<>>
    <3> HIDE DEF ordered
    <3>1. (\A k \in DOMAIN log : FlatLines(k) # <<>>) => Len(flat) >= Len(ordered)
      BY <1>1, <2>2, LinesLength
    <3>2. Len(ordered) \in Nat /\ Len(ordered) # 0
      BY <2>2
    <3>3. flat = <<>> => Len(flat) = 0
      OBVIOUS
    <3> HIDE DEF flat
    <3> QED
      BY <3>1, <3>2, <3>3
  <2> HIDE DEF flat, T
  <2>5. out' \in Seq(T) /\ (flat # <<>> => out' # <<>>)
    BY <2>1, <2>3, LastLinesFacts
  <2>6. RetrievalOK'
    <3>1. LogOK'
      BY <1>2 DEF RetrievalInv, RetrievalOK, LogOK, Sorted
    <3>2. BufferOK'
      BY <1>2 DEF RetrievalInv, RetrievalOK, BufferOK
    <3> QED
      BY <1>2, <2>1, <2>5, <3>1, <3>2 DEF T, RetrievalInv, RetrievalOK, AnswerOK, OutOK
  <2>7. StatusInv' /\ StreamInv' /\ PageInv' /\ TailInv'
    BY <1>2 DEF StatusInv, StreamInv, PageInv, TailInv
  <2>8. FullLogIsExact'
    BY <1>1, <1>2 DEF FullLogIsExact, Buffered
  <2>9. EndStatus'
    <3>1. \A k : FlatLines(k)' = FlatLines(k)
      BY <1>2 DEF FlatLines
    <3> QED
      BY <1>2, <2>1, <2>4, <2>5, <3>1 DEF EndStatus
  <2>10. TailIsSuffix'
    <3> SUFFICES ASSUME conf.tail > 0, conf.reverse PROVE TailIsSuffix'
      BY <1>2 DEF TailIsSuffix
    <3>1. PICK m \in 0..Few : /\ allEntries = Back(present - m, present)
                              /\ lineCount = Len(Lines(allEntries))
                              /\ m = Few \/ lineCount >= conf.tail
      BY <1>1 DEF RetrievalInv, TailInv
    <3>2. /\ Few \in Nat /\ Few <= present /\ m \in Nat /\ m <= Few /\ present \in Nat
          /\ present <= Len(log) /\ Len(log) \in Nat /\ conf.tail \in Nat
          /\ (Few = conf.tail \/ (Few = present /\ present <= conf.tail))
      <4>1. conf.tail \in Int /\ present \in Nat /\ Len(log) \in Nat /\ present <= Len(log)
        BY <1>1, ConfigTypes
      <4>2. Few \in Nat /\ Few <= present
            /\ (Few = conf.tail \/ (Few = present /\ present <= conf.tail))
        BY <4>1 DEF Few
      <4> QED
        BY <4>1, <4>2
    <3>3. PICK s \in Nat : s = present - m /\ s <= present
      BY <3>2
    <3>4. Reverse(Back(s, present)) = Stretch(s, present) /\ Stretch(s, present) \in Seq(1..present)
          /\ Len(Stretch(s, present)) = present - s /\ First(present) = Stretch(0, present)
      <4>0. s \in Nat /\ present \in Nat /\ s <= present /\ present <= present
        BY <3>2, <3>3
      <4>1. Reverse(Back(s, present)) = Stretch(s, present)
        BY <4>0, BackFacts
      <4>2. Stretch(s, present) \in Seq(1..present) /\ Len(Stretch(s, present)) = present - s
        BY <4>0, StretchFacts
      <4>3. First(present) = Stretch(0, present)
        BY <4>0 DEF First, Stretch
      <4> QED
        BY <4>1, <4>2, <4>3
    <3>5. ordered = Stretch(s, present)
      BY <3>1, <3>3, <3>4
    <3>6. Flattened(First(present)) = Cat(Flattened(First(s)), flat)
      <4>1. Flattened(First(present)) = Cat(Flattened(First(s)), Flattened(Stretch(s, present)))
        BY <1>1, <3>2, <3>3, LinesOfStretch
      <4> QED
        BY <3>5, <4>1 DEF flat
    <3>7. Flattened(First(s)) \in Seq(T)
      <4>1. First(s) \in Seq(1..Len(log))
        BY <1>1, <3>2, <3>3, LinesOfStretch
      <4> QED
        BY <1>1, <4>1, LinesTypes DEF T
    <3>8. IsSuffix(out', Flattened(First(present))) /\ Len(out') <= conf.tail
          /\ Len(out') = IF conf.tail < Len(flat) THEN conf.tail ELSE Len(flat)
      <4>1. IsSuffix(LastLines(flat), Cat(Flattened(First(s)), flat))
        BY <2>3, <3>7, LastLinesFacts
      <4> QED
        BY <2>1, <2>3, <3>6, <4>1, LastLinesFacts
    <3>9. ASSUME \A k \in 1..present : FlatLines(k) = LinesOf(k)
          PROVE  Len(out') = IF conf.tail < Len(Flattened(First(present))) THEN conf.tail
                                                  ELSE Len(Flattened(First(present)))
      <4> DEFINE head == Flattened(First(s))
                 full == Flattened(First(present))
      <4>1. Len(full) = Len(head) + Len(flat) /\ Len(head) \in Nat /\ Len(flat) \in Nat
        <5>1. head \in Seq(T) /\ full = Cat(head, flat)
          BY <3>6, <3>7
        <5> HIDE DEF head, full
        <5>2. Len(head \o flat) = Len(head) + Len(flat)
          BY <2>3, <5>1, ConcatProperties
        <5> QED
          BY <2>3, <5>1, <5>2 DEF Cat
      <4>2. flat = Lines(ordered)
        <5>1. ordered \in Seq(1..present)
          BY <3>4, <3>5
        <5> HIDE DEF ordered
        <5> QED
          BY <1>1, <3>9, <5>1, NoBlanks DEF flat
      <4>3. Len(flat) >= Len(ordered) /\ Len(ordered) = m
        <5>1. Len(Lines(ordered)) >= Len(ordered)
          <6> HIDE DEF ordered
          <6> QED
            BY <1>1, <2>2, LinesLength
        <5>2. Len(ordered) = m
          BY <3>2, <3>3, <3>4, <3>5
        <5> QED
          BY <4>2, <5>1, <5>2
      <4>4. Len(flat) = lineCount
        <5>1. Len(Lines(Reverse(allEntries))) = Len(Lines(allEntries))
          BY <1>1, LinesLength
        <5> QED
          BY <3>1, <4>2, <5>1
      <4> HIDE DEF ordered, full, head
      <4>5. CASE conf.tail <= Len(flat)
        BY <3>2, <3>8, <4>1, <4>5 DEF full
      <4>6. CASE ~(conf.tail <= Len(flat))
        <5>1. m = present /\ s = 0
          BY <3>1, <3>2, <3>3, <4>1, <4>3, <4>4, <4>6
        <5>2. full = flat
          BY <3>4, <3>5, <5>1 DEF full, flat
        <5> QED
          BY <3>8, <5>2 DEF full
      <4> QED
        BY <4>5, <4>6
    <3>10. \A k : FlatLines(k)' = FlatLines(k) /\ LinesOf(k)' = LinesOf(k)
      BY <1>2 DEF FlatLines, LinesOf
    <3>11. Flattened(First(present))' = Flattened(First(present))
      BY <1>2, <3>10 DEF Flattened, First
    <3> QED
      BY <1>2, <3>8, <3>9, <3>10, <3>11 DEF TailIsSuffix
  <2> QED
    BY <2>6, <2>7, <2>8, <2>9, <2>10 DEF RetrievalInv
<1> QED
  BY <1>3, <1>4

\* Every step keeps the invariant.
LEMMA Inductive ==
    ASSUME IInv, [Next]_vars
    PROVE  IInv'
<1>1. LookupInv /\ RetrievalInv
  BY DEF IInv
<1>2. CASE LookupNext /\ UNCHANGED retrieval
  <2>1. LogGrows /\ Len(log') <= MaxLog /\ Sorted'
    BY <1>1, <1>2 DEF retrieval, LogGrows, RetrievalInv, RetrievalOK, LogOK, Sorted
  <2>2. RetrievalInv'
    BY <1>1, <1>2, <2>1, GrowthKeeps DEF retrieval
  <2> QED
    BY <1>1, <1>2, <2>2, LookupInductive DEF IInv
<1>3. CASE UNCHANGED vars
  <2>1. LogGrows /\ Len(log') <= MaxLog /\ Sorted' /\ UNCHANGED retrieval /\ UNCHANGED lookupVars
    BY <1>1, <1>3 DEF vars, retrieval, lookupVars, LogGrows, RetrievalInv, RetrievalOK, LogOK, Sorted
  <2>2. RetrievalInv'
    BY <1>1, <2>1, GrowthKeeps DEF retrieval
  <2> QED
    BY <1>1, <2>1, <2>2, LookupInductive DEF IInv
<1>4. ASSUME (\E e \in Entry : Receive(e)) \/ Handler \/ PageFails \/ RequestFails \/ ReadFails \/ ClientGone
      PROVE  IInv'
  <2>1. UNCHANGED lookupVars
    BY <1>4 DEF Receive, Handler, Resolve, FetchPage, SendRequest, StreamLine, StreamNothing, BufferLine,
                WriteBuffer, PageFails, RequestFails, ReadFails, ClientGone, Fail, End
  <2>2. RetrievalInv'
    BY <1>1, <1>4, ReceiveKeeps, ResolveKeeps, FetchPageKeeps, SendRequestKeeps, StreamLineKeeps,
       BufferLineKeeps, WriteBufferKeeps, FailKeeps DEF Handler
  <2> QED
    BY <1>1, <2>1, <2>2, LookupInductive DEF IInv
<1> QED
  BY <1>2, <1>3, <1>4 DEF Next

\* The invariant holds in every behaviour.
LEMMA Always == Spec => []IInv
<1>1. Init => IInv
  BY InitLookupInv, InitRetrievalInv DEF Init, IInv
<1>2. IInv /\ [Next]_vars => IInv'
  BY Inductive
<1> QED
  BY <1>1, <1>2, PTL DEF Spec

\* getOwnedPodsUuids and queryLogURL: the log served is that of a Pod of the
\* resource asked for, and no Pod of it that was archived when the request
\* came is newer, whatever the sink commits meanwhile.
THEOREM ServesNewestPod == Spec => []NewestPodServed
<1>1. IInv => NewestPodServed
  BY LookupInvServes DEF IInv
<1> QED
  BY <1>1, Always, PTL

\* streamPaginatedLogs and streamLogs: a log passed on to its end has every
\* entry that was there at the start, each once and in order, for every size
\* of page, every log and every moment at which entries arrive.
THEOREM SendsFullLog == Spec => []FullLogIsExact
<1>1. IInv => FullLogIsExact
  BY DEF IInv, RetrievalInv
<1> QED
  BY <1>1, Always, PTL

\* writeBufferedLogs: tailLines=N on a reversed endpoint gives the last N
\* lines of the log.
THEOREM SendsTail == Spec => []TailIsSuffix
<1>1. IInv => TailIsSuffix
  BY DEF IInv, RetrievalInv
<1> QED
  BY <1>1, Always, PTL

\* LogRetrieval: the status is 200 just when lines of a log were sent; with
\* the types of all variables.
THEOREM StatusIsTrue == Spec => []StatusTellsLogs
<1>1. IInv => StatusTellsLogs
  <2> SUFFICES ASSUME IInv PROVE StatusTellsLogs
    OBVIOUS
  <2>1. LookupTypeOK /\ RetrievalOK /\ EndStatus
    BY DEF IInv, LookupInv, RetrievalInv
  <2>2. log \in Seq(Entry) /\ Len(log) <= MaxLog /\ present \in 0..Len(log)
    BY <2>1 DEF RetrievalOK, LogOK
  <2>3. response \in Seq(Nat) /\ allEntries \in Seq(Nat)
    <3>1. \A s : s \in Seq(1..Len(log)) => s \in Seq(Nat)
      OBVIOUS
    <3> QED
      BY <2>1, <3>1 DEF RetrievalOK, BufferOK
  <2>4. present \in 0..MaxLog
    <3>1. Len(log) \in Nat /\ MaxLog \in Nat
      BY <2>2, LogRetrievalAssumption
    <3> QED
      BY <2>2, <3>1
  <2>5. TypeOK
    BY <2>1, <2>2, <2>3, <2>4 DEF TypeOK, RetrievalOK, BufferOK, AnswerOK, OutOK
  <2> QED
    BY <2>1, <2>5 DEF StatusTellsLogs, EndStatus
<1> QED
  BY <1>1, Always, PTL
=============================================================================
