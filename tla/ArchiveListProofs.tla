------------------------- MODULE ArchiveListProofs -------------------------
(***************************************************************************)
(* Proofs about walks over the archive, for any number of rows, any        *)
(* selectors and any limit.  The rows a page writes are those right after  *)
(* the token in an order that no transaction changes, since the creation   *)
(* timestamp of a row stays; the lookups that precede the query miss       *)
(* nothing of a row that was there when they began.                        *)
(***************************************************************************)
EXTENDS ArchiveList, FiniteSetTheorems, WellFoundedInduction, TLAPS

----------------------------------------------------------------------------
(* The order of the list *)

(* A finite set that a relation orders strictly has a first element        *)
LEMMA HasFirst ==
    ASSUME NEW S, IsFiniteSet(S), NEW T \in SUBSET S, T # {}, NEW R,
           \A x \in S : <<x, x>> \notin R,
           \A x, y, z \in S : <<x, y>> \in R /\ <<y, z>> \in R => <<x, z>> \in R
    PROVE  \E x \in T : \A y \in T : <<y, x>> \notin R
<1> DEFINE Pred(x) == {y \in T : <<y, x>> \in R}
           F == {Pred(x) : x \in T}
<1>1. IsFiniteSet(T)
  BY FS_Subset
<1>2. FiniteSubsetsOf(T) = SUBSET T
  BY <1>1, FS_FiniteSubsetsOfFinite
<1>3. F \subseteq FiniteSubsetsOf(T) /\ F # {}
  <2>1. \A x \in T : Pred(x) \in F /\ Pred(x) \in SUBSET T
    OBVIOUS
  <2> HIDE DEF Pred
  <2> QED
    BY <1>2, <2>1
<1>4. IsWellFoundedOn(StrictSubsetOrdering(T), FiniteSubsetsOf(T))
  BY FS_StrictSubsetOrderingWellFounded
<1>5. PICK P \in F : \A Q \in F : <<Q, P>> \notin StrictSubsetOrdering(T)
  <2> HIDE DEF F
  <2> QED
    BY <1>3, <1>4, WFMin
<1>6. PICK x \in T : P = Pred(x)
  OBVIOUS
<1>7. ASSUME NEW y \in T, <<y, x>> \in R PROVE FALSE
  <2>1. Pred(y) \subseteq Pred(x) /\ y \in Pred(x) /\ y \notin Pred(y)
    BY <1>7
  <2>2. <<Pred(y), Pred(x)>> \in StrictSubsetOrdering(T)
    BY <2>1 DEF StrictSubsetOrdering
  <2>3. Pred(y) \in F
    OBVIOUS
  <2> QED
    BY <1>5, <1>6, <2>2, <2>3
<1> QED
  BY <1>7

Rows == row \in [Id -> Row \cup {None}]
Present == {i \in Id : row[i] # None}
Before(j, i) == Precedes(Position(j), Position(i))

(* Rows and tokens have a place in the order                               *)
LEMMA Places ==
    ASSUME Rows
    PROVE  /\ \A i \in Present : row[i].ts \in Int /\ i \in Int /\ Position(i) \in Token
           /\ \A t \in Token : t.ts \in Int /\ t.id \in Int /\ t # None
<1>1. Id \subseteq Nat /\ None \notin Token /\ Time \subseteq Nat
  BY ArchiveListAssumption DEF Time
<1>2. ASSUME NEW i \in Present
      PROVE  row[i].ts \in Time /\ i \in Id /\ Position(i) \in Token
  BY DEF Rows, Present, Row, Position, Token
<1>3. \A t \in Token : t.ts \in Time /\ t.id \in Id
  BY DEF Token
<1>4. \A t \in Token : t # None
  BY <1>1, Zenon
<1>5. \A t \in Time : t \in Int
  BY <1>1
<1>6. \A i \in Id : i \in Int
  BY <1>1
<1> QED
  BY <1>2, <1>3, <1>4, <1>5, <1>6, Zenon

(* Newest first, among equals the highest id first, is a strict total order *)
LEMMA StrictOrder ==
    ASSUME Rows
    PROVE  /\ \A x \in Present : ~Before(x, x)
           /\ \A x, y \in Present : x # y => Before(x, y) \/ Before(y, x)
           /\ \A x, y \in Present : ~(Before(x, y) /\ Before(y, x))
           /\ \A x, y, z \in Present : Before(x, y) /\ Before(y, z) => Before(x, z)
<1>1. \A x \in Present : row[x].ts \in Int /\ x \in Int
  BY Places
<1> QED
  BY <1>1 DEF Before, Precedes, Position

(* Sets of rows are finite                                                 *)
LEMMA PresentIsFinite == IsFiniteSet(Present) /\ \A S \in SUBSET Present : IsFiniteSet(S)
<1>1. IsFiniteSet(Id) /\ Present \subseteq Id
  BY ArchiveListAssumption DEF Present
<1> QED
  BY <1>1, FS_Subset

(* A set of rows has a first and a last                                    *)
LEMMA FirstAndLast ==
    ASSUME Rows, NEW S \in SUBSET Present, S # {}
    PROVE  /\ \E x \in S : \A y \in S : ~Before(y, x)
           /\ \E x \in S : \A y \in S \ {x} : Before(y, x)
<1> DEFINE R == {p \in Present \X Present : Before(p[1], p[2])}
           Q == {p \in Present \X Present : Before(p[2], p[1])}
<1>1. \A x, y \in Present : (<<x, y>> \in R <=> Before(x, y))
                           /\ (<<x, y>> \in Q <=> Before(y, x))
  OBVIOUS
<1> HIDE DEF R, Q
<1>2. \E x \in S : \A y \in S : <<y, x>> \notin R
  BY <1>1, StrictOrder, PresentIsFinite, HasFirst
<1>3. \E x \in S : \A y \in S : <<y, x>> \notin Q
  BY <1>1, StrictOrder, PresentIsFinite, HasFirst
<1> QED
  BY <1>1, <1>2, <1>3, StrictOrder

(* The rows before another one in a set of rows                            *)
Earlier(S, i) == {j \in S : Before(j, i)}

(* The first n of a set of rows, in terms of the rows before each          *)
LEMMA FirstOfEarlier ==
    ASSUME NEW S, NEW n
    PROVE  FirstOf(S, n) = {i \in S : Cardinality(Earlier(S, i)) < n}
  BY DEF FirstOf, Earlier, Before

(* They are finitely many                                                  *)
LEMMA EarlierIsFinite ==
    ASSUME NEW S \in SUBSET Present, NEW i
    PROVE  IsFiniteSet(Earlier(S, i)) /\ Cardinality(Earlier(S, i)) \in Nat
<1>1. Earlier(S, i) \in SUBSET Present
  BY DEF Earlier
<1> QED
  BY <1>1, PresentIsFinite, FS_CardinalityType

(* What comes before a row of a page is on the page                        *)
LEMMA PageIsPrefix ==
    ASSUME Rows, NEW S \in SUBSET Present, NEW n \in Nat,
           NEW w \in FirstOf(S, n), NEW i \in S, Before(i, w)
    PROVE  i \in FirstOf(S, n)
<1>1. Earlier(S, i) \subseteq Earlier(S, w)
  BY StrictOrder, FirstOfEarlier DEF Earlier
<1>2. Cardinality(Earlier(S, i)) <= Cardinality(Earlier(S, w))
  BY <1>1, EarlierIsFinite, FS_Subset
<1> QED
  BY <1>2, EarlierIsFinite, FirstOfEarlier

(* A page that leaves a row out is full                                    *)
LEMMA PageIsFull ==
    ASSUME Rows, NEW S \in SUBSET Present, NEW n \in Nat,
           NEW i \in S, i \notin FirstOf(S, n)
    PROVE  \E x \in S \ FirstOf(S, n) :
              Earlier(S, x) \subseteq FirstOf(S, n) /\ Cardinality(Earlier(S, x)) >= n
<1> DEFINE F == FirstOf(S, n)
<1>1. PICK x \in S \ F : \A y \in S \ F : ~Before(y, x)
  <2>1. S \ F \in SUBSET Present /\ S \ F # {}
    OBVIOUS
  <2> HIDE DEF F
  <2> QED
    BY <2>1, FirstAndLast
<1>2. Earlier(S, x) \subseteq F
  BY <1>1 DEF Earlier
<1>3. Cardinality(Earlier(S, x)) >= n
  BY <1>1, EarlierIsFinite, FirstOfEarlier
<1> QED
  BY <1>1, <1>2, <1>3

(* A page of a list that has rows is not empty                             *)
LEMMA PageIsNotEmpty ==
    ASSUME Rows, NEW S \in SUBSET Present, NEW n \in Nat \ {0}, S # {}
    PROVE  FirstOf(S, n) # {}
<1>1. PICK x \in S : \A y \in S : ~Before(y, x)
  BY FirstAndLast
<1>2. Earlier(S, x) = {}
  BY <1>1 DEF Earlier
<1>3. Cardinality(Earlier(S, x)) = 0
  BY <1>2, FS_EmptySet
<1> QED
  BY <1>3, FirstOfEarlier

(* The token is made of the row that comes last                            *)
LEMMA LastComesLast ==
    ASSUME Rows, NEW S \in SUBSET Present, S # {}
    PROVE  LastOf(S) \in S /\ \A j \in S \ {LastOf(S)} : Before(j, LastOf(S))
  BY FirstAndLast DEF LastOf, Before

----------------------------------------------------------------------------
(* A page: limit + 1 rows are fetched and limit of them written.  If there *)
(* were more, all others come after the last one written; if not, nothing  *)
(* is left.                                                                *)
LEMMA PageIsNext ==
    ASSUME Rows, NEW S \in SUBSET Present, NEW L \in Nat \ {0},
           NEW fetched, fetched = FirstOf(S, L + 1),
           NEW written, written = FirstOf(fetched, L)
    PROVE  /\ written \subseteq S
           /\ Cardinality(fetched) > L =>
                 /\ LastOf(written) \in written
                 /\ \A j \in written \ {LastOf(written)} : Before(j, LastOf(written))
                 /\ \A i \in S \ written : Before(LastOf(written), i)
           /\ ~(Cardinality(fetched) > L) => written = S
<1>1. fetched \subseteq S /\ written \subseteq fetched
  BY DEF FirstOf
<1>2. fetched \in SUBSET Present /\ IsFiniteSet(fetched) /\ Cardinality(fetched) \in Nat
  BY <1>1, PresentIsFinite, FS_CardinalityType
<1>3. ASSUME Cardinality(fetched) > L
      PROVE  /\ LastOf(written) \in written
             /\ \A j \in written \ {LastOf(written)} : Before(j, LastOf(written))
             /\ \A i \in S \ written : Before(LastOf(written), i)
  <2>1. fetched # {}
    BY <1>3, FS_EmptySet
  <2>2. written # {} /\ written \in SUBSET Present
    BY <1>1, <1>2, <2>1, PageIsNotEmpty
  <2>3. /\ LastOf(written) \in written
        /\ \A j \in written \ {LastOf(written)} : Before(j, LastOf(written))
    BY <2>2, LastComesLast
  <2> DEFINE w == LastOf(written)
  <2>4. ASSUME NEW i \in S, Before(i, w) PROVE i \in written
    <3>1. w \in fetched /\ w \in FirstOf(S, L + 1) /\ w \in FirstOf(fetched, L)
      BY <1>1, <2>3
    <3> HIDE DEF w
    <3>2. i \in FirstOf(S, L + 1)
      BY <2>4, <3>1, PageIsPrefix
    <3> QED
      BY <1>2, <2>4, <3>1, <3>2, PageIsPrefix
  <2> HIDE DEF w
  <2>5. ASSUME NEW i \in S \ written PROVE Before(w, i)
    BY <2>2, <2>3, <2>4, StrictOrder DEF w
  <2> QED
    BY <2>3, <2>5 DEF w
<1>4. ASSUME ~(Cardinality(fetched) > L) PROVE written = S
  <2>1. S \subseteq fetched
    <3> SUFFICES ASSUME NEW i \in S, i \notin fetched PROVE FALSE
      OBVIOUS
    <3>1. PICK x \in S \ fetched : /\ Earlier(S, x) \subseteq fetched
                                  /\ Cardinality(Earlier(S, x)) >= L + 1
      BY PageIsFull
    <3>2. Cardinality(Earlier(S, x)) <= Cardinality(fetched)
      BY <1>2, <3>1, FS_Subset
    <3> QED
      BY <1>2, <1>4, <3>1, <3>2, EarlierIsFinite
  <2>2. fetched \subseteq written
    <3> SUFFICES ASSUME NEW i \in fetched, i \notin written PROVE FALSE
      OBVIOUS
    <3>1. PICK x \in fetched \ written : /\ Earlier(fetched, x) \subseteq written
                                        /\ Cardinality(Earlier(fetched, x)) >= L
      BY <1>2, PageIsFull
    <3> DEFINE E == Earlier(fetched, x)
    <3>2. E \cup {x} \subseteq fetched /\ x \notin E /\ IsFiniteSet(E) /\ Cardinality(E) \in Nat
      BY <1>1, <1>2, <3>1, EarlierIsFinite
    <3>3. Cardinality(E) >= L
      BY <3>1
    <3> HIDE DEF E
    <3>4. Cardinality(E \cup {x}) = Cardinality(E) + 1
      BY <3>2, FS_AddElement
    <3>5. Cardinality(E \cup {x}) <= Cardinality(fetched)
      BY <1>2, <3>2, FS_Subset
    <3> QED
      BY <1>2, <1>4, <3>2, <3>3, <3>4, <3>5
  <2> QED
    BY <1>1, <2>1, <2>2
<1> QED
  BY <1>1, <1>3, <1>4

----------------------------------------------------------------------------
(* What the filters mean *)

(* What the three lookups look for                                         *)
LookedKeys == FilterKeys("exists") \cup FilterKeys("!") \cup FilterKeys("notin")
LookedLabels ==
    FilterLabels("!=") \cup {l \in FilterLabels("=") : l[1] \notin FilterKeys("!=")}
LookedMulti == FilterLabels("in") \cup FilterLabels("notin")

(* The lookups found everything that labels have of what they looked for   *)
KeysFound(labels) == KeysOf(labels) \cap LookedKeys \subseteq keyIDs
LabelsFound(labels) == labels \cap LookedLabels \subseteq labelIDs
MultiFound(labels) == labels \cap LookedMulti \subseteq multiLabelIDs

(* A requirement of the selector                                           *)
Asks(n, op, k) == req.selector[n].op = op /\ req.selector[n].key = k

(* The parts of a selector have their types                                *)
LEMMA SelectorType ==
    ASSUME req \in Request
    PROVE  /\ DOMAIN req.selector \subseteq Nat
           /\ \A n \in DOMAIN req.selector :
                 /\ req.selector[n].key \in Key
                 /\ req.selector[n].values \subseteq Value
<1> DEFINE Q == [op : Op \cup {"unsupported"}, key : Key, values : SUBSET Value]
<1>1. req.selector \in Seq(Q)
  BY ArchiveListAssumption DEF ListRequest
<1> HIDE DEF Q
<1>2. \A n \in DOMAIN req.selector : n \in Nat /\ req.selector[n] \in Q
  BY <1>1
<1> USE DEF Q
<1> QED
  BY <1>2

(* With no operator twice on one key nothing replaces a requirement        *)
LEMMA FiltersAreSelector ==
    ASSUME req \in Request, Expressible(req)
    PROVE  /\ \A op : \A k \in Key :
                 k \in FilterKeys(op) <=> \E n \in DOMAIN req.selector : Asks(n, op, k)
           /\ \A op : \A l \in Label :
                 l \in FilterLabels(op) <=>
                    \E n \in DOMAIN req.selector :
                       Asks(n, op, l[1]) /\ l[2] \in req.selector[n].values
           /\ \A op : FilterKeys(op) \subseteq Key /\ FilterLabels(op) \subseteq Label
<1> DEFINE D == DOMAIN req.selector
<1>1. D \subseteq Nat
  BY SelectorType
<1>2. ASSUME NEW n \in D, NEW op, NEW k, Asks(n, op, k)
      PROVE  Occurrences(req.selector, op, k) = {n}
  BY <1>2 DEF Expressible, Occurrences, Asks
<1>3. \A n \in Nat : Max({n}) = n
  BY DEF Max
<1>4. ASSUME NEW op, NEW k
      PROVE  Occurrences(req.selector, op, k) # {} <=> \E n \in D : Asks(n, op, k)
  BY DEF Occurrences, Asks
<1>5. ASSUME NEW op, NEW k \in Key
      PROVE  k \in FilterKeys(op) <=> \E n \in D : Asks(n, op, k)
  BY <1>4 DEF FilterKeys
<1>6. ASSUME NEW op PROVE FilterKeys(op) \subseteq Key /\ FilterLabels(op) \subseteq Label
  BY DEF FilterKeys, FilterLabels, Label
<1>7. ASSUME NEW op, NEW l \in Label
      PROVE  l \in FilterLabels(op) <=>
                \E n \in D : Asks(n, op, l[1]) /\ l[2] \in req.selector[n].values
  <2>1. l[1] \in Key /\ l[2] \in Value /\ l = <<l[1], l[2]>>
    BY DEF Label
  <2>2. l \in FilterLabels(op) <=>
          /\ l[1] \in FilterKeys(op)
          /\ l[2] \in req.selector[Max(Occurrences(req.selector, op, l[1]))].values
    BY <2>1 DEF FilterLabels
  <2>3. ASSUME NEW n \in D, Asks(n, op, l[1])
        PROVE  Max(Occurrences(req.selector, op, l[1])) = n
    BY <1>1, <1>2, <1>3, <2>3
  <2> QED
    BY <1>5, <2>1, <2>2, <2>3
<1> QED
  BY <1>5, <1>6, <1>7

(* Requirement by requirement, what labels have to have                    *)
LEMMA SatisfiesByOp ==
    ASSUME NEW q, NEW labels
    PROVE  /\ q.op = "exists" => (Satisfies(q, labels) <=> q.key \in KeysOf(labels))
           /\ q.op = "!" => (Satisfies(q, labels) <=> q.key \notin KeysOf(labels))
           /\ q.op \in {"=", "in"} =>
                (Satisfies(q, labels) <=> \E v \in q.values : <<q.key, v>> \in labels)
           /\ q.op = "!=" =>
                (Satisfies(q, labels) <=> \A v \in q.values : <<q.key, v>> \notin labels)
           /\ q.op = "notin" =>
                (Satisfies(q, labels) <=>
                    /\ q.key \in KeysOf(labels)
                    /\ \A v \in q.values : <<q.key, v>> \notin labels)
  BY DEF Satisfies

(* The condition of the query, once the lookups found what labels have, is *)
(* what the selector asks for.                                             *)
LEMMA MeetsSelector ==
    ASSUME req \in Request, Expressible(req), NEW labels \in SUBSET Label,
           KeysFound(labels), LabelsFound(labels), MultiFound(labels),
           \A n \in DOMAIN req.selector : Satisfies(req.selector[n], labels)
    PROVE  LabelCondition(labels)
<1> DEFINE D == DOMAIN req.selector
           q(n) == req.selector[n]
<1>1. FilterKeys("exists") \subseteq KeysOf(labels)
  BY FiltersAreSelector, SatisfiesByOp DEF Asks
<1>2. FilterKeys("!") \cap KeysOf(labels) = {}
  BY FiltersAreSelector, SatisfiesByOp DEF Asks
<1>3. FilterKeys("notin") \subseteq KeysOf(labels)
  BY FiltersAreSelector, SatisfiesByOp DEF Asks
<1>a. \A l \in Label : l = <<l[1], l[2]>>
  BY DEF Label
<1>4. ASSUME NEW l \in FilterLabels("=") PROVE l \in labels /\ l \in LookedLabels
  <2>1. PICK n \in D : Asks(n, "=", l[1]) /\ l[2] \in q(n).values
    BY FiltersAreSelector
  <2>2. PICK v \in Value : q(n).values = {v}
    BY <2>1, ArchiveListAssumption DEF Asks
  <2>3. <<q(n).key, v>> \in labels
    BY <2>1, <2>2, SatisfiesByOp DEF Asks
  <2>4. l \in labels
    BY <1>a, <2>1, <2>2, <2>3, FiltersAreSelector DEF Asks
  <2>5. l[1] \notin FilterKeys("!=")
    <3> SUFFICES ASSUME l[1] \in FilterKeys("!=") PROVE FALSE
      OBVIOUS
    <3>1. PICK m \in D : Asks(m, "!=", l[1])
      BY FiltersAreSelector
    <3> QED
      BY <2>1, <3>1 DEF Asks, Expressible
  <2> QED
    BY <2>4, <2>5 DEF LookedLabels
<1>5. ASSUME NEW k \in FilterKeys("in")
      PROVE  \E l \in FilterLabels("in") \cap multiLabelIDs : l[1] = k /\ l \in labels
  <2>1. PICK n \in D : Asks(n, "in", k)
    BY FiltersAreSelector
  <2>2. PICK v \in q(n).values : <<k, v>> \in labels
    BY <2>1, SatisfiesByOp DEF Asks
  <2>3. <<k, v>> \in FilterLabels("in")
    BY <2>1, <2>2, FiltersAreSelector
  <2> QED
    BY <2>2, <2>3 DEF MultiFound, LookedMulti
<1>6. ASSUME NEW l \in FilterLabels("!=") PROVE l \notin labels
  <2>1. PICK n \in D : Asks(n, "!=", l[1]) /\ l[2] \in q(n).values
    BY FiltersAreSelector
  <2> QED
    BY <1>a, <2>1, FiltersAreSelector, SatisfiesByOp DEF Asks
<1>7. ASSUME NEW l \in FilterLabels("notin") PROVE l \notin labels
  <2>1. PICK n \in D : Asks(n, "notin", l[1]) /\ l[2] \in q(n).values
    BY FiltersAreSelector
  <2> QED
    BY <1>a, <2>1, FiltersAreSelector, SatisfiesByOp DEF Asks
<1>8. ~ShortCircuit
  <2>1. FilterKeys("exists") \subseteq keyIDs /\ FilterKeys("notin") \subseteq keyIDs
    BY <1>1, <1>3 DEF KeysFound, LookedKeys
  <2>2. FilterLabels("=") \subseteq labelIDs
    BY <1>4 DEF LabelsFound
  <2> QED
    BY <1>5, <2>1, <2>2 DEF ShortCircuit
<1>9. KeysOf(labels) \cap FilterKeys("notin") = FilterKeys("notin")
  BY <1>3
<1> QED
  BY <1>1, <1>2, <1>4, <1>5, <1>6, <1>7, <1>8, <1>9 DEF LabelCondition

(* And conversely: what the query selects has what the selector asks for   *)
LEMMA SelectorIsMet ==
    ASSUME req \in Request, Expressible(req), Supported(req), NEW labels \in SUBSET Label,
           KeysFound(labels), LabelsFound(labels), MultiFound(labels),
           LabelCondition(labels), NEW n \in DOMAIN req.selector
    PROVE  Satisfies(req.selector[n], labels)
<1> DEFINE q == req.selector[n]
<1>1. q.op \in Op /\ q.key \in Key /\ q.values \subseteq Value
  BY SelectorType DEF Supported
<1>2. Asks(n, q.op, q.key)
  BY DEF Asks
<1>3. q.key \in FilterKeys(q.op)
  BY <1>1, <1>2, FiltersAreSelector
<1>4. \A v \in q.values : <<q.key, v>> \in FilterLabels(q.op)
  BY <1>1, <1>2, FiltersAreSelector DEF Label
<1> SUFFICES Satisfies(q, labels)
  OBVIOUS
<1> HIDE DEF q
<1>5. CASE q.op = "exists"
  BY <1>3, <1>5, SatisfiesByOp DEF LabelCondition
<1>6. CASE q.op = "!"
  <2>1. q.key \notin KeysOf(labels)
    BY <1>3, <1>6 DEF LabelCondition, KeysFound, LookedKeys
  <2> QED
    BY <1>6, <2>1, SatisfiesByOp
<1>7. CASE q.op = "="
  <2>1. PICK v \in Value : q.values = {v}
    BY <1>7, ArchiveListAssumption DEF q
  <2>2. <<q.key, v>> \in labels
    BY <1>4, <1>7, <2>1 DEF LabelCondition
  <2> QED
    BY <1>7, <2>1, <2>2, SatisfiesByOp
<1>8. CASE q.op = "in"
  <2>1. PICK l \in FilterLabels("in") : l[1] = q.key /\ l \in labels
    BY <1>3, <1>8 DEF LabelCondition
  <2>2. l \in Label /\ l = <<l[1], l[2]>>
    BY <2>1 DEF Label
  <2>3. PICK m \in DOMAIN req.selector :
           Asks(m, "in", l[1]) /\ l[2] \in req.selector[m].values
    BY <2>2, FiltersAreSelector
  <2>4. m = n
    BY <1>2, <1>8, <2>1, <2>3 DEF Asks, Expressible
  <2> QED
    BY <1>8, <2>1, <2>2, <2>3, <2>4, SatisfiesByOp DEF q
<1>9. CASE q.op = "!="
  <2>1. \A v \in q.values : <<q.key, v>> \notin labels
    BY <1>4, <1>9 DEF LabelCondition, LabelsFound, LookedLabels
  <2> QED
    BY <1>9, <2>1, SatisfiesByOp
<1>10. CASE q.op = "notin"
  <2>1. \A v \in q.values : <<q.key, v>> \notin labels
    BY <1>4, <1>10 DEF LabelCondition, MultiFound, LookedMulti
  <2>2. q.key \in KeysOf(labels)
    <3> DEFINE F == FilterKeys("notin")
               K == KeysOf(labels) \cap F
    <3>1. IsFiniteSet(F)
      BY FiltersAreSelector, FS_Subset, ArchiveListAssumption
    <3>2. Cardinality(K) = Cardinality(F)
      BY DEF LabelCondition
    <3>3. K \in SUBSET F
      OBVIOUS
    <3> HIDE DEF F, K
    <3>4. K = F
      BY <3>1, <3>2, <3>3, FS_Subset
    <3> QED
      BY <1>3, <1>10, <3>4 DEF F, K
  <2> QED
    BY <1>10, <2>1, <2>2, SatisfiesByOp
<1> QED
  BY <1>1, <1>5, <1>6, <1>7, <1>8, <1>9, <1>10 DEF Op

(* For bounds in UTC and in whole seconds the text of a bound is the bound *)
LEMMA TextIsBound ==
    ASSUME req \in Request, Expressible(req)
    PROVE  /\ req.after # None => Text(req.after) = req.after.at
           /\ req.before # None => Text(req.before) = req.before.at
<1>1. ASSUME NEW b \in Bound, b.zone = 0, b.at % 2 = 0 PROVE Text(b) = b.at
  <2>1. b.at \in Nat
    BY DEF Bound
  <2>2. 2 * (b.at \div 2) = b.at
    BY <1>1, <2>1
  <2> QED
    BY <1>1, <2>1, <2>2 DEF Text
<1>2. req.after \in Bound \cup {None} /\ req.before \in Bound \cup {None}
  BY ArchiveListAssumption DEF ListRequest
<1> QED
  BY <1>1, <1>2 DEF Expressible

(* The query of a list selects what comes after the token and fits         *)
LEMMA SelectedFits ==
    ASSUME Rows, req \in Request, Expressible(req), IsList, NEW i \in Present,
           KeysFound(row[i].labels), LabelsFound(row[i].labels), MultiFound(row[i].labels)
    PROVE  /\ Fits(req, i, row[i]) /\ AfterToken(i) => Selected(i)
           /\ Supported(req) /\ Selected(i) => Fits(req, i, row[i])
<1>1. row[i] \in Row /\ row[i].labels \in SUBSET Label
  <2>1. row[i] \in Row
    BY DEF Rows, Present
  <2>2. row[i].labels \in Labels
    BY <2>1 DEF Row
  <2> QED
    BY <2>1, <2>2, ArchiveListAssumption DEF Label
<1>2. (\A n \in DOMAIN req.selector : Satisfies(req.selector[n], row[i].labels))
        => LabelCondition(row[i].labels)
  BY <1>1, MeetsSelector
<1>3. Supported(req) /\ LabelCondition(row[i].labels)
        => \A n \in DOMAIN req.selector : Satisfies(req.selector[n], row[i].labels)
  BY <1>1, SelectorIsMet
<1> QED
  BY <1>2, <1>3, TextIsBound DEF Fits, Selected, Present

----------------------------------------------------------------------------
(* The invariant *)

Handling == pc \notin {"client", "end"}

(* The label tables have the labels of every row                           *)
Tables ==
    \A i \in Present : row[i].labels \subseteq labelPair /\ KeysOf(row[i].labels) \subseteq labelKey

(* The lookups made so far found the labels of every row that has not been *)
(* written since the request began                                         *)
Lookups ==
    IsList => \A i \in Present \ moved :
        /\ pc \in {"resolveLabelIDs", "resolveLabelIDsMulti", "query"} =>
             KeysFound(row[i].labels)
        /\ pc \in {"resolveLabelIDsMulti", "query"} => LabelsFound(row[i].labels)
        /\ pc = "query" => MultiFound(row[i].labels)

(* What the pages listed is what comes up to the token                     *)
Walk ==
    /\ Handling => LimitAllowed(req) /\ Supported(req)
    /\ pc # "end" =>
         /\ token = None => listed = {}
         /\ \A i \in listed : row[i] # None /\ ~Precedes(token, Position(i))

(* What fitted all along is still to come, or has been listed              *)
Waiting ==
    /\ \A i \in steady : Fits(req, i, row[i])
    /\ Handling => steady \cap moved = {}
    /\ pc # "end" /\ Expressible(req) =>
         \A i \in steady : i \in listed \/ token = None \/ Precedes(token, Position(i))

IInv == ListedOnce /\ Tables /\ Lookups /\ Walk /\ Waiting /\ WalkIsComplete

(* What depends on the request only                                        *)
LEMMA SameRequest ==
    ASSUME req' = req
    PROVE  /\ LookedKeys' = LookedKeys /\ LookedLabels' = LookedLabels
           /\ LookedMulti' = LookedMulti /\ IsList' = IsList
           /\ Expressible(req)' = Expressible(req) /\ LimitAllowed(req)' = LimitAllowed(req)
           /\ Supported(req)' = Supported(req)
  BY DEF LookedKeys, LookedLabels, LookedMulti, FilterKeys, FilterLabels, Occurrences, IsList,
         Expressible, LimitAllowed, Supported

(* The invariant holds before the first request                            *)
LEMMA InitInv == Init => IInv
<1> SUFFICES ASSUME Init PROVE IInv
  OBVIOUS
<1>1. TypeOK
  BY ArchiveListAssumption DEF Init, TypeOK
<1>2. Present = {}
  BY DEF Init, Present
<1> QED
  BY <1>1, <1>2 DEF Init, IInv, ListedOnce, Tables, Lookups, Walk, Waiting, WalkIsComplete,
     Handling

(* A transaction keeps the place of every row in the order                 *)
LEMMA PlacesStay ==
    ASSUME TypeOK, NEW i \in Id, NEW w \in Row, Commit(i, w)
    PROVE  /\ row' \in [Id -> Row \cup {None}]
           /\ row'[i] = w /\ \A j \in Id : j # i => row'[j] = row[j]
           /\ Present' = Present \cup {i}
           /\ \A j \in Present : Position(j)' = Position(j)
<1>1. w # None
  BY ArchiveListAssumption
<1>2. /\ row' \in [Id -> Row \cup {None}]
      /\ row'[i] = w /\ \A j \in Id : j # i => row'[j] = row[j]
      /\ row[i] # None => w.ts = row[i].ts
  BY DEF TypeOK, Commit
<1> QED
  BY <1>1, <1>2 DEF Present, Position

(* A transaction: the place of no row changes, the label tables grow with  *)
(* the row, and the row no longer counts as steady unless it still fits    *)
LEMMA CommitKeeps ==
    ASSUME IInv, NEW i \in Id, NEW w \in Row, Commit(i, w)
    PROVE  IInv'
<1>a. /\ row' \in [Id -> Row \cup {None}]
      /\ row'[i] = w /\ \A j \in Id : j # i => row'[j] = row[j]
      /\ Present' = Present \cup {i}
      /\ \A j \in Present : Position(j)' = Position(j)
  BY PlacesStay DEF IInv, ListedOnce
<1>b. /\ labelKey' = labelKey \cup KeysOf(w.labels) /\ labelPair' = labelPair \cup w.labels
      /\ steady' = {j \in steady : j = i => pc = "client" /\ Fits(req, i, w)}
      /\ moved' = moved \cup {i}
      /\ UNCHANGED <<pc, req, token, keyIDs, labelIDs, multiLabelIDs, answer, listed, again>>
  BY DEF Commit
<1>c. w.labels \subseteq Label /\ KeysOf(w.labels) \subseteq Key
  BY ArchiveListAssumption DEF Row, Label, KeysOf
<1>1. ListedOnce'
  <2>1. writes' \in 0..MaxWrites
    BY ArchiveListAssumption DEF Commit, IInv, ListedOnce, TypeOK
  <2> QED
    BY <1>a, <1>b, <1>c, <2>1 DEF IInv, ListedOnce, TypeOK
<1>2. Tables'
  <2>1. ASSUME NEW j \in Present'
        PROVE  row'[j].labels \subseteq labelPair' /\ KeysOf(row'[j].labels) \subseteq labelKey'
    <3>1. CASE j = i
      BY <1>a, <1>b, <3>1
    <3>2. CASE j # i
      <4>1. j \in Present /\ row'[j] = row[j]
        BY <1>a, <3>2 DEF Present
      <4> QED
        BY <1>b, <4>1 DEF IInv, Tables
    <3> QED
      BY <3>1, <3>2
  <2> QED
    BY <2>1 DEF Tables, KeysOf
<1>3. Lookups'
  <2>1. \A j \in (Present \ moved)' : j \in Present \ moved /\ row'[j] = row[j]
    BY <1>a, <1>b DEF Present
  <2> QED
    BY <1>b, <2>1, SameRequest DEF IInv, Lookups, KeysFound, LabelsFound, MultiFound, KeysOf
<1>4. Walk'
  <2>1. \A j \in listed : pc # "end" => row'[j] # None /\ Position(j)' = Position(j)
    BY <1>a DEF Present, IInv, ListedOnce, TypeOK, Walk
  <2> QED
    BY <1>b, <2>1, SameRequest DEF IInv, Walk, Handling
<1>5. Waiting'
  <2>1. \A j \in steady' : j \in steady /\ j \in Id /\ Fits(req, j, row'[j])
    BY <1>a, <1>b DEF IInv, Waiting, ListedOnce, TypeOK
  <2>2. \A j \in steady : j \in Present
    BY DEF IInv, Waiting, Fits, Present, ListedOnce, TypeOK
  <2>3. Handling' => steady' \cap moved' = {}
    BY <1>b DEF IInv, Waiting, Handling
  <2>4. (\A j \in steady : Fits(req, j, row[j]))' <=> \A j \in steady' : Fits(req', j, row'[j])
    BY DEF Fits, Satisfies, KeysOf
  <2> QED
    BY <1>a, <1>b, <2>1, <2>2, <2>3, <2>4, SameRequest DEF IInv, Waiting
<1>6. WalkIsComplete'
  BY <1>b, SameRequest DEF IInv, WalkIsComplete
<1> QED
  BY <1>1, <1>2, <1>3, <1>4, <1>5, <1>6 DEF IInv

(* Nothing of the archive or of what has been listed changes               *)
Reading == UNCHANGED <<row, labelKey, labelPair, writes, req, token, listed, again>>

(* What such a step leaves as it is                                        *)
LEMMA ReadingKeeps ==
    ASSUME IInv, Reading
    PROVE  /\ Tables' /\ Present' = Present /\ \A i : Position(i)' = Position(i)
           /\ (\A i \in steady : Fits(req, i, row[i]))'
                <=> \A i \in steady' : Fits(req, i, row[i])
           /\ \A labels : KeysOf(labels)' = KeysOf(labels)
  BY DEF Reading, IInv, Tables, Present, Position, KeysOf, Fits, Satisfies

(* A refused request ends the walk                                         *)
LEMMA RefuseKeeps == IInv /\ Refuse => IInv'
<1> SUFFICES ASSUME IInv, Refuse PROVE IInv'
  OBVIOUS
<1>1. /\ Reading /\ pc' = "end" /\ answer' = 400 /\ UNCHANGED <<ids, steady, moved>>
  BY DEF Refuse, Reading, db
<1>2. ListedOnce'
  BY <1>1 DEF IInv, ListedOnce, TypeOK, Reading, ids
<1> QED
  BY <1>1, <1>2, ReadingKeeps
     DEF IInv, Lookups, Walk, Waiting, WalkIsComplete, Handling, Reading

(* A page is asked for: every row counts as not written since              *)
LEMMA AcceptKeeps == IInv /\ Accept => IInv'
<1> SUFFICES ASSUME IInv, Accept PROVE IInv'
  OBVIOUS
<1>1. /\ Reading /\ pc = "client" /\ pc' \in {"resolveKeyIDs", "query"} /\ moved' = {}
      /\ keyIDs' = {} /\ labelIDs' = {} /\ multiLabelIDs' = {} /\ UNCHANGED answer
      /\ LimitAllowed(req) /\ Supported(req)
      /\ IsList => pc' = "resolveKeyIDs"
      /\ steady' = IF token = None THEN {i \in Id : Fits(req, i, row[i])} ELSE steady
  BY DEF Accept, Reading, db
<1>2. ListedOnce'
  BY <1>1 DEF IInv, ListedOnce, TypeOK, Reading
<1>3. Lookups'
  BY <1>1, SameRequest DEF Lookups, Reading
<1>4. Walk'
  BY <1>1, ReadingKeeps, SameRequest DEF IInv, Walk, Reading
<1>5. Waiting'
  BY <1>1, ReadingKeeps, SameRequest DEF IInv, Waiting, Reading
<1> QED
  BY <1>1, <1>2, <1>3, <1>4, <1>5, ReadingKeeps DEF IInv, WalkIsComplete

(* The first lookup finds the keys of every row that is there              *)
LEMMA ResolveKeyIDsKeeps == IInv /\ ResolveKeyIDs => IInv'
<1> SUFFICES ASSUME IInv, ResolveKeyIDs PROVE IInv'
  OBVIOUS
<1>1. /\ Reading /\ pc = "resolveKeyIDs" /\ pc' = "resolveLabelIDs"
      /\ keyIDs' = labelKey \cap LookedKeys
      /\ UNCHANGED <<labelIDs, multiLabelIDs, answer, steady, moved>>
  BY DEF ResolveKeyIDs, Reading, db, LookedKeys
<1>2. ListedOnce'
  BY <1>1 DEF IInv, ListedOnce, TypeOK, Reading
<1>3. Lookups'
  <2>1. \A i \in Present : KeysOf(row[i].labels) \cap LookedKeys \subseteq keyIDs'
    BY <1>1 DEF IInv, Tables
  <2> QED
    BY <1>1, <2>1, ReadingKeeps, SameRequest DEF Lookups, KeysFound, Reading, KeysOf
<1>4. Walk' /\ Waiting'
  BY <1>1, ReadingKeeps, SameRequest DEF IInv, Walk, Waiting, Handling, Reading
<1> QED
  BY <1>1, <1>2, <1>3, <1>4, ReadingKeeps DEF IInv, WalkIsComplete

(* The second lookup finds the labels of every row that is there           *)
LEMMA ResolveLabelIDsKeeps == IInv /\ ResolveLabelIDs => IInv'
<1> SUFFICES ASSUME IInv, ResolveLabelIDs PROVE IInv'
  OBVIOUS
<1>1. /\ Reading /\ pc = "resolveLabelIDs" /\ pc' = "resolveLabelIDsMulti"
      /\ labelIDs' = labelPair \cap LookedLabels
      /\ UNCHANGED <<keyIDs, multiLabelIDs, answer, steady, moved>>
  BY DEF ResolveLabelIDs, Reading, db, LookedLabels
<1>2. ListedOnce'
  BY <1>1 DEF IInv, ListedOnce, TypeOK, Reading
<1>3. Lookups'
  <2>1. \A i \in Present : row[i].labels \cap LookedLabels \subseteq labelIDs'
    BY <1>1 DEF IInv, Tables
  <2>2. IsList => \A i \in Present \ moved : KeysOf(row[i].labels) \cap LookedKeys \subseteq keyIDs
    BY <1>1 DEF IInv, Lookups, KeysFound
  <2> QED
    BY <1>1, <2>1, <2>2, ReadingKeeps, SameRequest
       DEF Lookups, KeysFound, LabelsFound, Reading, KeysOf
<1>4. Walk' /\ Waiting'
  BY <1>1, ReadingKeeps, SameRequest DEF IInv, Walk, Waiting, Handling, Reading
<1> QED
  BY <1>1, <1>2, <1>3, <1>4, ReadingKeeps DEF IInv, WalkIsComplete

(* The third lookup finds the labels of every row that is there            *)
LEMMA ResolveLabelIDsMultiKeeps == IInv /\ ResolveLabelIDsMulti => IInv'
<1> SUFFICES ASSUME IInv, ResolveLabelIDsMulti PROVE IInv'
  OBVIOUS
<1>1. /\ Reading /\ pc = "resolveLabelIDsMulti" /\ pc' = "query"
      /\ multiLabelIDs' = labelPair \cap LookedMulti
      /\ UNCHANGED <<keyIDs, labelIDs, answer, steady, moved>>
  BY DEF ResolveLabelIDsMulti, Reading, db, LookedMulti
<1>2. ListedOnce'
  BY <1>1 DEF IInv, ListedOnce, TypeOK, Reading
<1>3. Lookups'
  <2>1. \A i \in Present : row[i].labels \cap LookedMulti \subseteq multiLabelIDs'
    BY <1>1 DEF IInv, Tables
  <2>2. IsList => \A i \in Present \ moved :
           /\ KeysOf(row[i].labels) \cap LookedKeys \subseteq keyIDs
           /\ row[i].labels \cap LookedLabels \subseteq labelIDs
    BY <1>1 DEF IInv, Lookups, KeysFound, LabelsFound
  <2> QED
    BY <1>1, <2>1, <2>2, ReadingKeeps, SameRequest
       DEF Lookups, KeysFound, LabelsFound, MultiFound, Reading, KeysOf
<1>4. Walk' /\ Waiting'
  BY <1>1, ReadingKeeps, SameRequest DEF IInv, Walk, Waiting, Handling, Reading
<1> QED
  BY <1>1, <1>2, <1>3, <1>4, ReadingKeeps DEF IInv, WalkIsComplete

(* A page that failed is asked for again with the same token               *)
LEMMA QueryFailsKeeps == IInv /\ QueryFails => IInv'
<1> SUFFICES ASSUME IInv, QueryFails PROVE IInv'
  OBVIOUS
<1>1. /\ Reading /\ pc # "end" /\ pc' = "client" /\ answer' = 500
      /\ UNCHANGED <<ids, steady, moved>>
  BY DEF QueryFails, Reading, db
<1>2. ListedOnce'
  BY <1>1 DEF IInv, ListedOnce, TypeOK, Reading, ids
<1>3. Walk' /\ Waiting'
  BY <1>1, ReadingKeeps, SameRequest DEF IInv, Walk, Waiting, Handling, Reading
<1> QED
  BY <1>1, <1>2, <1>3, ReadingKeeps DEF IInv, Lookups, WalkIsComplete

(* An exact name makes no list                                             *)
LEMMA QueryByNameKeeps == IInv /\ QueryByName => IInv'
<1> SUFFICES ASSUME IInv, QueryByName PROVE IInv'
  OBVIOUS
<1> DEFINE found == {i \in Id : Selected(i)}
<1>1. /\ UNCHANGED <<row, labelKey, labelPair, writes, req, token, ids, again, steady, moved>>
      /\ pc' = "end" /\ ~IsList /\ answer' \in {200, 404, 500} /\ listed' \subseteq Id
  <2>1. found \subseteq Id
    OBVIOUS
  <2> HIDE DEF found
  <2>2. /\ pc = "query" /\ ~IsList /\ pc' = "end"
        /\ answer' = IF found = {} THEN 404
                      ELSE IF Cardinality(found) > 1 THEN 500 ELSE 200
        /\ listed' = IF Cardinality(found) = 1 THEN found ELSE {}
        /\ UNCHANGED <<db, req, token, ids, again, steady, moved>>
    BY DEF QueryByName, found
  <2> QED
    BY <2>1, <2>2 DEF db
<1>2. ListedOnce'
  BY <1>1 DEF IInv, ListedOnce, TypeOK, ids
<1>3. Tables'
  BY <1>1 DEF IInv, Tables, KeysOf, Present
<1>3a. Waiting'
  <2>0. row' = row /\ req' = req /\ steady' = steady /\ \A i \in steady : Fits(req, i, row[i])
    BY <1>1 DEF IInv, Waiting
  <2>1. (\A i \in steady : Fits(req, i, row[i]))'
    BY <2>0
  <2> QED
    BY <1>1, <2>1 DEF Waiting, Handling
<1>4. Lookups' /\ Walk'
  BY <1>1 DEF Lookups, Walk, Handling
<1>5. WalkIsComplete'
  BY <1>1, SameRequest DEF WalkIsComplete
<1> QED
  BY <1>2, <1>3, <1>3a, <1>4, <1>5 DEF IInv

(* A page: nothing is listed again, the token is past all that was listed, *)
(* and all that is not listed comes after it.                              *)
LEMMA StreamResourcesKeeps == IInv /\ StreamResources => IInv'
<1> SUFFICES ASSUME IInv, StreamResources PROVE IInv'
  OBVIOUS
<1> DEFINE S == {i \in Id : Selected(i)}
           L == req.limit
           fetched == FirstOf(S, L + 1)
           written == FirstOf(fetched, L)
           hasMore == Cardinality(fetched) > L
           last == LastOf(written)
<1>1. /\ pc = "query" /\ IsList /\ answer' = 200
      /\ listed' = listed \cup written /\ again' = again \cup (listed \cap written)
      /\ token' = IF hasMore THEN Position(last) ELSE None
      /\ pc' = IF hasMore THEN "client" ELSE "end"
      /\ UNCHANGED <<db, req, ids, steady, moved>>
  BY DEF StreamResources
<1>2. Rows /\ req \in Request /\ S \in SUBSET Present /\ S \subseteq Id
  BY DEF IInv, ListedOnce, TypeOK, Rows, Present, Selected
<1>3. L \in Nat \ {0}
  BY <1>1, ArchiveListAssumption DEF IInv, Walk, Handling, LimitAllowed
<1>4. \A i \in S : AfterToken(i)
  BY <1>1 DEF Selected
<1>5. ASSUME NEW i \in steady, Expressible(req) PROVE i \in listed \/ i \in S
  <2>1. i \in Id /\ i \in Present \ moved /\ Fits(req, i, row[i])
    BY <1>1, <1>5 DEF IInv, ListedOnce, TypeOK, Waiting, Handling, Fits, Present
  <2>2. KeysFound(row[i].labels) /\ LabelsFound(row[i].labels) /\ MultiFound(row[i].labels)
    BY <1>1, <2>1 DEF IInv, Lookups
  <2>3. i \in listed \/ AfterToken(i)
    BY <1>1, <1>5 DEF IInv, Waiting, AfterToken
  <2> QED
    BY <1>1, <1>2, <1>5, <2>1, <2>2, <2>3, SelectedFits
<1> HIDE DEF S, L
<1>6. /\ written \subseteq S
      /\ hasMore => /\ last \in written
                    /\ \A j \in written \ {last} : Before(j, last)
                    /\ \A i \in S \ written : Before(last, i)
      /\ ~hasMore => written = S
  BY <1>2, <1>3, PageIsNext
<1> HIDE DEF written, hasMore, last
<1>7. listed \cap written = {}
  BY <1>1, <1>4, <1>6 DEF IInv, Walk, AfterToken
<1>8. ListedOnce'
  <2>1. listed' \subseteq Id /\ again' = {} /\ answer' = 200 /\ pc' \in {"client", "end"}
    BY <1>1, <1>2, <1>6, <1>7 DEF IInv, ListedOnce, TypeOK
  <2>2. token' \in Token \cup {None}
    <3>1. hasMore => last \in Present /\ last \in Id
      BY <1>2, <1>6
    <3> QED
      BY <1>1, <1>2, <3>1, Places
  <2> QED
    BY <1>1, <2>1, <2>2 DEF IInv, ListedOnce, TypeOK, db, ids
<1>9. Present' = Present /\ (\A i : Position(i)' = Position(i)) /\ Tables'
  BY <1>1 DEF Present, Position, db, IInv, Tables, KeysOf
<1>10. Lookups'
  BY <1>1 DEF Lookups
<1>11. \A i \in Present : row[i].ts \in Int /\ i \in Int
  BY <1>2, Places
<1>12. Walk'
  <2>1. CASE ~hasMore
    BY <1>1, <2>1 DEF Walk, Handling
  <2>2. CASE hasMore
    <3>1. last \in S /\ last \in Present /\ token' = Position(last) /\ pc' = "client"
      BY <1>1, <1>2, <1>6, <2>2
    <3>2. token' # None
      BY <1>2, <3>1, Places
    <3>3. ASSUME NEW j \in written PROVE j \in Present /\ ~Precedes(Position(last), Position(j))
      BY <1>2, <1>6, <2>2, <3>1, StrictOrder DEF Before
    <3>4. ASSUME NEW j \in listed PROVE j \in Present /\ ~Precedes(Position(last), Position(j))
      <4>1. j \in Present /\ token # None /\ ~Precedes(token, Position(j)) /\ token \in Token
        BY <1>1 DEF IInv, Walk, Present, ListedOnce, TypeOK
      <4>2. Precedes(token, Position(last))
        BY <1>4, <3>1, <4>1 DEF AfterToken
      <4>3. token.ts \in Int /\ token.id \in Int
        BY <1>2, <4>1, Places
      <4> QED
        BY <1>11, <3>1, <4>1, <4>2, <4>3 DEF Precedes, Position
    <3> QED
      BY <1>1, <1>9, <3>1, <3>2, <3>3, <3>4 DEF Walk, Handling, Present
  <2> QED
    BY <2>1, <2>2
<1>13. Waiting' /\ WalkIsComplete'
  <2>1. (\A i \in steady : Fits(req, i, row[i]))'
    <3>1. row' = row /\ req' = req /\ steady' = steady /\ \A i \in steady : Fits(req, i, row[i])
      BY <1>1 DEF IInv, Waiting, db
    <3> QED
      BY <3>1
  <2>2. ~Handling'
    BY <1>1 DEF Handling
  <2>3. steady' = steady /\ (Expressible(req)' = Expressible(req))
    BY <1>1, SameRequest
  <2>4. CASE ~hasMore
    <3>1. Expressible(req) => steady \subseteq listed'
      BY <1>1, <1>5, <1>6, <2>4
    <3>2. pc' = "end"
      BY <1>1, <2>4
    <3> QED
      BY <2>1, <2>2, <2>3, <3>1, <3>2 DEF Waiting, WalkIsComplete
  <2>5. CASE hasMore
    <3>1. token' = Position(last) /\ pc' = "client"
      BY <1>1, <2>5
    <3>2. ASSUME NEW i \in steady, Expressible(req), i \notin listed'
          PROVE  Precedes(Position(last), Position(i))
      BY <1>1, <1>5, <1>6, <2>5, <3>2 DEF Before
    <3> QED
      BY <1>9, <2>1, <2>2, <2>3, <3>1, <3>2 DEF Waiting, WalkIsComplete
  <2> QED
    BY <2>4, <2>5
<1> QED
  BY <1>8, <1>9, <1>10, <1>12, <1>13 DEF IInv

(* Every step keeps the invariant                                          *)
LEMMA NextInv == IInv /\ [Next]_vars => IInv'
<1> SUFFICES ASSUME IInv, [Next]_vars PROVE IInv'
  OBVIOUS
<1>1. CASE UNCHANGED vars
  <2>1. Reading /\ UNCHANGED <<pc, keyIDs, labelIDs, multiLabelIDs, answer, steady, moved>>
    BY <1>1 DEF vars, Reading
  <2>2. ListedOnce'
    BY <2>1 DEF IInv, ListedOnce, TypeOK, Reading
  <2>3. Lookups'
    BY <2>1, ReadingKeeps, SameRequest
       DEF IInv, Lookups, KeysFound, LabelsFound, MultiFound, Reading, KeysOf
  <2>4. Walk' /\ Waiting'
    BY <2>1, ReadingKeeps, SameRequest DEF IInv, Walk, Waiting, Handling, Reading
  <2> QED
    BY <2>1, <2>2, <2>3, <2>4, ReadingKeeps, SameRequest DEF IInv, WalkIsComplete, Reading
<1> QED
  BY <1>1, CommitKeeps, RefuseKeeps, AcceptKeeps, ResolveKeyIDsKeeps, ResolveLabelIDsKeeps,
     ResolveLabelIDsMultiKeeps, StreamResourcesKeeps, QueryFailsKeeps, QueryByNameKeeps
     DEF Next

(* The inductive invariant holds                                           *)
LEMMA Invariance == Spec => []IInv
  BY InitInv, NextInv, PTL DEF Spec

----------------------------------------------------------------------------
(* The properties *)

(* No object is on two pages of a walk, whatever is written between the    *)
(* pages and however often a page is asked for again: the token of         *)
(* CreationTSAndIDFilter and the order of the query agree.                 *)
THEOREM ListedOnceHolds == Spec => []ListedOnce
<1>1. IInv => ListedOnce
  BY DEF IInv
<1> QED
  BY <1>1, Invariance, PTL

(* A walk whose last page has come has listed everything that fitted the   *)
(* request from the first page on and was not changed while a page was     *)
(* being made: neither the lookups of the label ids nor the limit of the   *)
(* query loses a row.                                                      *)
THEOREM WalkIsCompleteHolds == Spec => []WalkIsComplete
<1>1. IInv => WalkIsComplete
  BY DEF IInv
<1> QED
  BY <1>1, Invariance, PTL

(* A page lists nothing that does not fit the request, but for objects     *)
(* written while the request was handled.                                  *)
THEOREM ListedFitHolds == Spec => ListedFit
<1>1. IInv /\ StreamResources /\ Expressible(req)
        => \A i \in Id : Selected(i) /\ i \notin moved => Fits(req, i, row[i])
  <2> SUFFICES ASSUME IInv, StreamResources, Expressible(req), NEW i \in Id,
                      Selected(i), i \notin moved
               PROVE  Fits(req, i, row[i])
    OBVIOUS
  <2>1. pc = "query" /\ IsList /\ i \in Present \ moved
    BY DEF StreamResources, Selected, Present
  <2>2. KeysFound(row[i].labels) /\ LabelsFound(row[i].labels) /\ MultiFound(row[i].labels)
    BY <2>1 DEF IInv, Lookups
  <2>3. Rows /\ req \in Request /\ Supported(req)
    BY <2>1 DEF IInv, ListedOnce, TypeOK, Rows, Walk, Handling
  <2> QED
    BY <2>1, <2>2, <2>3, SelectedFits
<1> QED
  BY <1>1, Invariance, PTL DEF ListedFit
=============================================================================
