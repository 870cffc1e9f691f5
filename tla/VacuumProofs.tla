---------------------------- MODULE VacuumProofs ----------------------------
(***************************************************************************)
(* Proofs about a vacuum's pass, for any objects, any number of rules and  *)
(* any counts: the counters are exact, and an object is sent for deletion  *)
(* just when no keeper holds it.  Where the binary search puts an object   *)
(* does not matter for either, so they hold for every comparison, the one  *)
(* that is not transitive included.  Where the sort field ranks the objects*)
(* a keeper's array is sorted, and the keeper holds the last of them.      *)
(***************************************************************************)
EXTENDS Vacuum, VacuumRules, FiniteSetTheorems, WellFoundedInduction, TLAPS

\* The keepers that hold an object.
Holders(i) == {k \in Rule : i \in Kept(k)}

\* Where the pass is, and what it remembers of the keepers already visited.
Position ==
    /\ phase = "start" => todo = Item /\ cur = Nil
    /\ phase = "done" => cur = Nil
    /\ cur \notin todo
    /\ cur # Nil =>
          (matched <=> \E k \in Rule : k < idx /\ cur \in matches[k])

\* No keeper holds an object twice.
HeldOnce ==
    \A k \in Rule : \A c, d \in 1..count[k] :
        bucket[k][c] = bucket[k][d] /\ bucket[k][c] # Nil => c = d

\* A keeper holds only objects it has seen, and its rule matches them.
HeldWereSeen == \A k \in Rule : Kept(k) \subseteq SeenBy(k)

\* An object is not sent for deletion while the keepers visit it.
SentWereVisited == \A i \in Item : KeepLast(i) \in sent => i \in Visited

IInv ==
    /\ TypeOK
    /\ Position
    /\ HeldOnce
    /\ HeldWereSeen
    /\ CountersExact
    /\ SentWereVisited
    /\ DeletedIffUnkept

-----------------------------------------------------------------------------
\* The objects in the n cells of the array b.
Held(b, n) == {b[c] : c \in 1..n} \ {Nil}

\* No object is in two of them.
Once(b, n) == \A c, d \in 1..n : b[c] = b[d] /\ b[c] # Nil => c = d

\* Arrays of n cells, and what sortResources makes of one.
Cells(n) == [1..n -> Item \cup {Nil}]
Put(b, n, x, p) ==
    [c \in 1..n |-> IF c <= p THEN b[c] ELSE IF c = p + 1 THEN x ELSE b[c - 1]]

\* What a keeper holds is what is in its array, now and after a step.
LEMMA KeptIsHeld ==
    \A k \in Rule : /\ Kept(k) = Held(bucket[k], count[k])
                    /\ Kept(k)' = Held(bucket'[k], count'[k])
  BY DEF Kept, Held

\* There are finitely many rules.
LEMMA RuleIsFinite == IsFiniteSet(Rule)
  BY FS_Interval, VacuumAssumption DEF Rule

\* The counter of an object is its number of holders.
LEMMA CountersAreHolders ==
    CountersExact <=> \A i \in Item : all[i] = Cardinality(Holders(i))
  BY DEF CountersExact, Holders

\* There are finitely many holders, none just when their number is zero.
LEMMA NoHolders ==
    ASSUME NEW S \in SUBSET Rule
    PROVE  /\ IsFiniteSet(S)
           /\ Cardinality(S) \in Nat
           /\ Cardinality(S) = 0 <=> S = {}
  BY RuleIsFinite, FS_Subset, FS_CardinalityType, FS_EmptySet

\* sortResources on an array of n cells that hold no object twice and not x:
\* afterwards it holds x and what it held, except what was in its last cell,
\* and again no object twice.
LEMMA InsertOnce ==
    ASSUME NEW n \in Nat, NEW b \in Cells(n), NEW x \in Item, NEW p \in 0..n-1,
           Once(b, n), x \notin Held(b, n)
    PROVE  /\ Put(b, n, x, p) \in Cells(n)
           /\ Once(Put(b, n, x, p), n)
           /\ Held(Put(b, n, x, p), n) = (Held(b, n) \cup {x}) \ {b[n]}
<1> DEFINE b2 == Put(b, n, x, p)
<1> USE VacuumAssumption
<1>0. \A c \in 1..n : b[c] # x
  BY DEF Held
<1>1. b2 \in Cells(n)
  BY DEF Cells, Put
<1>2. Once(b2, n)
  BY <1>0 DEF Once, Cells, Put
<1> USE DEF Held, Once, Cells, Put
<1>3. ASSUME NEW e, e \in Held(b2, n)
      PROVE  e \in (Held(b, n) \cup {x}) \ {b[n]}
  <2>1. PICK c \in 1..n : b2[c] = e
    BY <1>3
  <2>2. CASE c <= p
    BY <2>1, <2>2, <1>3
  <2>3. CASE c = p + 1
    BY <2>1, <2>3, <1>3
  <2>4. CASE c > p + 1
    <3>1. e = b[c - 1] /\ c - 1 \in 1..n /\ c - 1 # n
      BY <2>1, <2>4
    <3> QED
      BY <3>1, <1>3
  <2> QED
    BY <2>2, <2>3, <2>4
<1>4. ASSUME NEW e, e \in (Held(b, n) \cup {x}) \ {b[n]}
      PROVE  e \in Held(b2, n)
  <2>0. x # Nil
    OBVIOUS
  <2>1. CASE e = x
    <3>1. p + 1 \in 1..n /\ b2[p + 1] = x
      OBVIOUS
    <3> QED
      BY <3>1, <2>1, <2>0
  <2>2. CASE e # x
    <3>1. PICK c \in 1..n : b[c] = e
      BY <1>4, <2>2
    <3>2. c # n /\ e # Nil
      BY <3>1, <1>4, <2>2
    <3>3. CASE c <= p
      <4>1. b2[c] = e
        BY <3>1, <3>3
      <4> QED
        BY <4>1, <3>2
    <3>4. CASE c > p
      <4>1. c + 1 \in 1..n /\ b2[c + 1] = e
        BY <3>1, <3>2, <3>4
      <4> QED
        BY <4>1, <3>2
    <3> QED
      BY <3>3, <3>4
  <2> QED
    BY <2>1, <2>2
<1> QED
  <2> HIDE DEF Held, Once, Cells, Put, b2
  <2>1. Held(b2, n) = (Held(b, n) \cup {x}) \ {b[n]}
    BY <1>3, <1>4
  <2> QED
    BY <1>1, <1>2, <2>1 DEF b2

-----------------------------------------------------------------------------
\* Before the list call nothing is kept, counted or sent.
LEMMA InitInv == Init => IInv
<1> SUFFICES ASSUME Init PROVE IInv
  OBVIOUS
<1> USE VacuumAssumption
<1>1. TypeOK
  <2>1. created \in [Item -> Nat] /\ field \in [Item -> Nat]
    BY DEF Init
  <2>2. count \in [Rule -> Nat] /\ idx \in 1..NumRules + 1
    BY DEF Init
  <2>3. all \in [Item -> Nat] /\ matched \in BOOLEAN
    BY DEF Init
  <2> QED
    BY <2>1, <2>2, <2>3 DEF Init, TypeOK
<1>2. \A k \in Rule : Kept(k) = {}
  BY DEF Init, Kept
<1>3. Position /\ HeldOnce /\ HeldWereSeen
  BY <1>2 DEF Init, Position, HeldOnce, HeldWereSeen
<1>4. CountersExact
  <2>1. \A i \in Item : Holders(i) = {}
    BY <1>2 DEF Holders
  <2> QED
    BY <2>1, FS_EmptySet, CountersAreHolders DEF Init
<1>5. SentWereVisited /\ DeletedIffUnkept
  BY DEF Init, SentWereVisited, DeletedIffUnkept, Visited
<1> QED
  BY <1>1, <1>3, <1>4, <1>5 DEF IInv

\* The list call empties the arrays, which nothing was in; or it fails.
LEMMA ListInv == ASSUME IInv, List \/ ListFails PROVE IInv'
<1> USE VacuumAssumption
<1>1. TypeOK'
  BY DEF IInv, TypeOK, List, ListFails, input
<1>2. \A k \in Rule : Kept(k) = {}
  BY DEF IInv, HeldWereSeen, SeenBy, Visited, Position, List, ListFails
<1>3. \A k \in Rule : Kept(k)' = {}
  <2>1. CASE List
    BY <2>1 DEF List, Kept, input
  <2>2. CASE ListFails
    BY <2>2, <1>2 DEF ListFails, Kept, input
  <2> QED
    BY <2>1, <2>2
<1>4. (\A k \in Rule : Kept(k)' = Kept(k)) /\ CountersExact'
  BY <1>2, <1>3 DEF IInv, CountersExact, List, ListFails
<1>5. Position'
  BY DEF IInv, Position, List, ListFails
<1>8. HeldOnce'
  <2>1. CASE List
    BY <2>1 DEF HeldOnce, List, input
  <2>2. CASE ListFails
    BY <2>2 DEF IInv, HeldOnce, ListFails, input
  <2> QED
    BY <2>1, <2>2
<1>6. HeldWereSeen'
  BY <1>2, <1>4 DEF HeldWereSeen
<1>7. SentWereVisited' /\ DeletedIffUnkept'
  <2>1. Visited' = Visited
    BY DEF List, ListFails, Visited
  <2> QED
    BY <2>1, <1>4 DEF IInv, SentWereVisited, DeletedIffUnkept, List, ListFails,
                      input, KeepLast
<1> QED
  BY <1>1, <1>4, <1>5, <1>6, <1>7, <1>8 DEF IInv

\* The end of the list changes the position only.
LEMMA FinishInv == ASSUME IInv, Finish PROVE IInv'
<1>1. TypeOK'
  BY DEF IInv, TypeOK, Finish, input
<1>2. (\A k \in Rule : Kept(k)' = Kept(k)) /\ CountersExact'
  <2>1. \A k \in Rule : Kept(k)' = Kept(k)
    BY DEF Finish, Kept, input
  <2> QED
    BY <2>1 DEF IInv, CountersExact, Finish
<1>3. Position' /\ HeldOnce'
  BY DEF IInv, Position, HeldOnce, Finish, input
<1>4. Visited' = Visited /\ \A k \in Rule : SeenBy(k)' = SeenBy(k)
  BY DEF Finish, Visited, SeenBy, input
<1>5. HeldWereSeen' /\ SentWereVisited' /\ DeletedIffUnkept'
  BY <1>2, <1>4 DEF IInv, HeldWereSeen, SentWereVisited, DeletedIffUnkept,
                    Finish, input, KeepLast
<1> QED
  BY <1>1, <1>2, <1>3, <1>5 DEF IInv

\* An object that is being visited was seen by no keeper.
LEMMA VisitInv == ASSUME IInv, NEW i \in Item, Visit(i) PROVE IInv'
<1> USE VacuumAssumption
<1>1. TypeOK'
  <2>1. idx' \in 1..NumRules + 1
    BY DEF Visit
  <2>2. matched' \in BOOLEAN
    BY DEF Visit
  <2> QED
    BY <2>1, <2>2 DEF IInv, TypeOK, Visit, input
<1>2. (\A k \in Rule : Kept(k)' = Kept(k)) /\ CountersExact'
  <2>1. \A k \in Rule : Kept(k)' = Kept(k)
    BY DEF Visit, Kept, input
  <2> QED
    BY <2>1 DEF IInv, CountersExact, Visit
<1>3. Position' /\ HeldOnce'
  BY DEF IInv, Position, HeldOnce, Visit, input, Rule
<1>4. Visited' = Visited
  BY DEF Visit, Visited
<1>5. \A k \in Rule : SeenBy(k)' = SeenBy(k)
  BY <1>4 DEF Visit, SeenBy, input, Rule
<1>6. HeldWereSeen' /\ SentWereVisited' /\ DeletedIffUnkept'
  BY <1>2, <1>4, <1>5 DEF IInv, HeldWereSeen, SentWereVisited,
                          DeletedIffUnkept, Visit, input, KeepLast
<1> QED
  BY <1>1, <1>2, <1>3, <1>6 DEF IInv

\* A keeper that does not keep the object changes no array and no counter.
LEMMA PassInv == ASSUME IInv, PassKeeper \/ RankedOut PROVE IInv'
<1> USE VacuumAssumption
<1>1. TypeOK'
  <2>1. idx' \in 1..NumRules + 1 
    BY DEF IInv, TypeOK, PassKeeper, RankedOut, Rule
  <2>2. matched' \in BOOLEAN
    BY DEF IInv, TypeOK, PassKeeper, RankedOut
  <2>3. CASE PassKeeper
    BY <2>1, <2>2, <2>3 DEF IInv, TypeOK, PassKeeper, input
  <2>4. CASE RankedOut
    BY <2>1, <2>2, <2>4 DEF IInv, TypeOK, RankedOut, input
  <2> QED
    BY <2>3, <2>4
<1>2. (\A k \in Rule : Kept(k)' = Kept(k)) /\ CountersExact'
  <2>1. \A k \in Rule : Kept(k)' = Kept(k)
    BY DEF PassKeeper, RankedOut, Kept, input
  <2> QED
    BY <2>1 DEF IInv, CountersExact, PassKeeper, RankedOut
<1>3. HeldOnce'
  BY DEF IInv, HeldOnce, PassKeeper, RankedOut, input
<1>4. Position'
  <2>1. CASE PassKeeper
    BY <2>1 DEF IInv, TypeOK, Position, PassKeeper, input, Rule
  <2>2. CASE RankedOut
    BY <2>2 DEF IInv, TypeOK, Position, RankedOut, input, Rule
  <2> QED
    BY <2>1, <2>2
<1>5. Visited' = Visited
  BY DEF PassKeeper, RankedOut, Visited
<1>6. \A k \in Rule : SeenBy(k) \subseteq SeenBy(k)'
  BY <1>5 DEF PassKeeper, RankedOut, SeenBy, input, Rule, IInv, TypeOK
<1>7. HeldWereSeen' /\ SentWereVisited' /\ DeletedIffUnkept'
  BY <1>2, <1>5, <1>6 DEF IInv, HeldWereSeen, SentWereVisited,
                DeletedIffUnkept, PassKeeper, RankedOut, input, KeepLast
<1> QED
  BY <1>1, <1>2, <1>3, <1>4, <1>7 DEF IInv

\* When all keepers have seen the object, its counter tells whether one of
\* them holds it, and matched whether a rule matches it.
LEMMA LeaveInv == ASSUME IInv, Leave PROVE IInv'
<1> USE VacuumAssumption
<1>0. cur \in Item /\ cur \notin todo
  BY DEF IInv, TypeOK, Position, Leave
<1>1. TypeOK'
  BY <1>0 DEF IInv, TypeOK, Leave, input, KeepLast, ArchiveWhen
<1>2. (\A k \in Rule : Kept(k)' = Kept(k))
  BY DEF Leave, Kept, input
<1>3. CountersExact'
  BY <1>2 DEF IInv, CountersExact, Leave
<1>4. Position' /\ HeldOnce'
  BY DEF IInv, TypeOK, Position, HeldOnce, Leave, input
<1>5. Visited' = Visited \cup {cur}
  BY <1>0 DEF Leave, Visited, IInv, TypeOK
<1>6. \A k \in Rule : SeenBy(k) \subseteq SeenBy(k)'
  BY <1>5, <1>0 DEF Leave, SeenBy, input
<1>7. HeldWereSeen'
  BY <1>2, <1>6 DEF IInv, HeldWereSeen
<1>8. \A i \in Item : i # cur => (KeepLast(i) \in sent' <=> KeepLast(i) \in sent)
  BY DEF Leave, KeepLast, ArchiveWhen
<1>9. SentWereVisited'
  BY <1>5, <1>8 DEF IInv, SentWereVisited, KeepLast
<1>10. KeepLast(cur) \in sent' <=> /\ \E k \in Rule : cur \in matches[k]
                                   /\ \A k \in Rule : cur \notin Kept(k)
  <2>1. KeepLast(cur) \notin sent
    BY <1>0 DEF IInv, SentWereVisited, Visited
  <2>2. matched <=> \E k \in Rule : cur \in matches[k]
    BY DEF IInv, Position, Leave, Rule
  <2>3. all[cur] = 0 <=> Holders(cur) = {}
    BY <1>0, NoHolders, CountersAreHolders DEF IInv, Holders
  <2>4. KeepLast(cur) \in sent' <=> matched /\ all[cur] = 0
    BY <2>1 DEF Leave, KeepLast, ArchiveWhen
  <2> QED
    BY <2>2, <2>3, <2>4 DEF Holders
<1>11. DeletedIffUnkept'
  <2> SUFFICES ASSUME NEW i \in Visited'
               PROVE  KeepLast(i) \in sent' <=>
                         /\ \E k \in Rule : i \in matches[k]
                         /\ \A k \in Rule : i \notin Kept(k)
    BY <1>2 DEF DeletedIffUnkept, Leave, input, KeepLast
  <2>1. CASE i = cur
    BY <2>1, <1>10
  <2>2. CASE i # cur
    BY <2>2, <1>5, <1>8 DEF IInv, DeletedIffUnkept, Visited
  <2> QED
    BY <2>1, <2>2
<1> QED
  BY <1>1, <1>3, <1>4, <1>7, <1>9, <1>11 DEF IInv

\* Keeping an object: the keeper idx holds it from now on, and no longer
\* what was in its last cell; the other keepers hold what they held.
LEMMA KeepStep ==
    ASSUME IInv, NEW p \in 0..MaxCount, Keep(p)
    PROVE  LET n == count[idx]
               drop == bucket[idx][n]
           IN  /\ cur \in Item /\ cur # Nil /\ idx \in Rule /\ cur \notin todo
               /\ cur \in matches[idx]
               /\ n \in Nat /\ p \in 0..n-1 /\ n \in 1..n
               /\ bucket[idx] \in Cells(n)
               /\ drop \in Item \cup {Nil}
               /\ cur \notin Visited /\ cur \notin Kept(idx)
               /\ bucket' = [bucket EXCEPT ![idx] = Inserted(idx, cur, p)]
               /\ bucket'[idx] = Put(bucket[idx], n, cur, p)
               /\ \A k \in Rule : k # idx => bucket'[k] = bucket[k]
               /\ DOMAIN bucket' = Rule
               /\ bucket'[idx] \in Cells(n) /\ Once(bucket'[idx], n)
               /\ \A k \in Rule :
                    Kept(k)' = IF k = idx THEN (Kept(k) \cup {cur}) \ {drop}
                                          ELSE Kept(k)
               /\ UNCHANGED <<input, phase, todo, cur>>
               /\ idx' = idx + 1 /\ matched' = TRUE
               /\ CountKept(cur, drop)
               /\ drop # Nil => /\ drop \in Item /\ drop \in Kept(idx)
                               /\ drop # cur /\ drop \in Visited
<1> USE VacuumAssumption
<1> DEFINE n == count[idx]
           drop == bucket[idx][n]
<1>1. /\ cur \in Item /\ cur # Nil /\ idx \in Rule /\ cur \notin todo
      /\ cur \in matches[idx]
  BY DEF IInv, TypeOK, Position, Keep
<1>2. /\ n \in Nat /\ p \in 0..n-1 /\ n \in 1..n
      /\ bucket[idx] \in [1..n -> Item \cup {Nil}]
      /\ drop \in Item \cup {Nil}
  <2>1. n \in Nat /\ p \in 0..n-1
    BY <1>1 DEF IInv, TypeOK, Keep
  <2>2. n \in 1..n
    BY <2>1
  <2>3. bucket[idx] \in [1..n -> Item \cup {Nil}]
    BY <1>1 DEF IInv, TypeOK
  <2> QED
    BY <2>1, <2>2, <2>3
<1>3. cur \notin Visited /\ cur \notin Kept(idx)
  BY <1>1 DEF IInv, HeldWereSeen, SeenBy, Visited, Rule
<1>4. bucket'[idx] = Put(bucket[idx], n, cur, p)
  BY <1>1 DEF Keep, IInv, TypeOK, Inserted, Put
<1>5. /\ bucket' = [bucket EXCEPT ![idx] = Inserted(idx, cur, p)]
      /\ bucket'[idx] = Inserted(idx, cur, p)
      /\ \A k \in Rule : k # idx => bucket'[k] = bucket[k]
      /\ DOMAIN bucket' = Rule
  BY <1>1 DEF Keep, IInv, TypeOK
<1>6. /\ bucket'[idx] \in Cells(n)
      /\ Once(bucket'[idx], n)
      /\ Held(bucket'[idx], n) = (Held(bucket[idx], n) \cup {cur}) \ {drop}
  <2>1. Once(bucket[idx], n) /\ bucket[idx] \in Cells(n)
    BY <1>1, <1>2 DEF IInv, HeldOnce, Once, Cells
  <2>2. cur \notin Held(bucket[idx], n)
    BY <1>1, <1>3, KeptIsHeld
  <2>3. bucket'[idx] = Put(bucket[idx], n, cur, p)
    BY <1>5 DEF Inserted, Put
  <2> HIDE DEF n
  <2>4. /\ Put(bucket[idx], n, cur, p) \in Cells(n)
        /\ Once(Put(bucket[idx], n, cur, p), n)
        /\ Held(Put(bucket[idx], n, cur, p), n) =
             (Held(bucket[idx], n) \cup {cur}) \ {bucket[idx][n]}
    BY <1>1, <1>2, <2>1, <2>2, InsertOnce
  <2> QED
    BY <2>3, <2>4
<1>7. \A k \in Rule : Kept(k)' = IF k = idx THEN (Kept(k) \cup {cur}) \ {drop}
                                           ELSE Kept(k)
  <2> TAKE k \in Rule
  <2>1. count' = count
    BY DEF Keep, input
  <2>2. CASE k = idx
    BY <2>1, <2>2, <1>6, KeptIsHeld
  <2>3. CASE k # idx
    BY <2>1, <2>3, <1>5, KeptIsHeld
  <2> QED
    BY <2>2, <2>3
<1>8. /\ UNCHANGED <<input, phase, todo, cur>>
      /\ idx' = idx + 1 /\ matched' = TRUE
      /\ CountKept(cur, drop)
  BY DEF Keep
<1>9. drop # Nil => /\ drop \in Item /\ drop \in Kept(idx) /\ drop # cur
                    /\ drop \in Visited
  <2>1. drop # Nil => drop \in Kept(idx)
    BY <1>1, <1>2 DEF Kept
  <2>2. Kept(idx) \subseteq Visited
    BY <1>1 DEF IInv, HeldWereSeen, SeenBy, Rule
  <2> QED
    BY <1>1, <1>2, <1>3, <2>1, <2>2
<1> QED
  BY <1>1, <1>2, <1>3, <1>4, <1>5, <1>6, <1>7, <1>8, <1>9 DEF Cells

\* A step that keeps an object preserves the invariant: the counters follow
\* the holders of the object that is kept and of the one that is dropped.
LEMMA KeepInv == ASSUME IInv, NEW p \in 0..MaxCount, Keep(p) PROVE IInv'
<1> USE VacuumAssumption
<1> DEFINE n == count[idx]
           drop == bucket[idx][n]
<1>1. /\ cur \in Item /\ cur # Nil /\ idx \in Rule /\ cur \notin todo
      /\ cur \in matches[idx]
  BY KeepStep
<1>3. cur \notin Visited /\ cur \notin Kept(idx)
  BY KeepStep
<1>5. /\ \A k \in Rule : k # idx => bucket'[k] = bucket[k]
      /\ DOMAIN bucket' = Rule
  BY KeepStep
<1>6. bucket'[idx] \in Cells(n) /\ Once(bucket'[idx], n)
  BY KeepStep
<1>7. \A k \in Rule : Kept(k)' = IF k = idx THEN (Kept(k) \cup {cur}) \ {drop}
                                           ELSE Kept(k)
  BY KeepStep
<1>8. /\ UNCHANGED <<input, phase, todo, cur>>
      /\ idx' = idx + 1 /\ matched' = TRUE
      /\ CountKept(cur, drop)
  BY KeepStep
<1>9. drop # Nil => /\ drop \in Item /\ drop \in Kept(idx) /\ drop # cur
                    /\ drop \in Visited
  BY KeepStep
<1> HIDE DEF drop, n
\* The holders of cur, of drop and of every other object afterwards.
<1>10. \A i \in Item :
          Holders(i)' = IF i = cur THEN Holders(i) \cup {idx}
                        ELSE IF i = drop THEN Holders(i) \ {idx}
                        ELSE Holders(i)
  BY <1>1, <1>7, <1>9 DEF Holders
<1>11. idx \notin Holders(cur) /\ (drop # Nil => idx \in Holders(drop))
  BY <1>1, <1>3, <1>9 DEF Holders
<1>12. \A i \in Item : all'[i] = IF i = cur THEN all[i] + 1
                                ELSE IF i = drop THEN all[i] - 1
                                ELSE all[i]
  BY <1>1, <1>8, <1>9 DEF CountKept, IInv, TypeOK
<1>13. \A i \in Item : all'[i] = Cardinality(Holders(i)')
  <2> TAKE i \in Item
  <2>1. all[i] = Cardinality(Holders(i)) /\ Cardinality(Holders(i)) \in Nat
    BY CountersAreHolders, NoHolders DEF IInv, Holders
  <2>2. IsFiniteSet(Holders(i))
    BY NoHolders DEF Holders
  <2>3. CASE i = cur
    BY <2>1, <2>2, <2>3, <1>10, <1>11, <1>12, FS_AddElement
  <2>4. CASE i # cur /\ i = drop
    <3>1. i # Nil
      OBVIOUS
    <3> QED
      BY <3>1, <2>1, <2>2, <2>4, <1>10, <1>11, <1>12, FS_RemoveElement
  <2>5. CASE i # cur /\ i # drop
    BY <2>1, <2>5, <1>10, <1>12
  <2> QED
    BY <2>3, <2>4, <2>5
<1>14. CountersExact'
  BY <1>13 DEF CountersExact, Holders
<1>15. \A i \in Item : KeepLast(i) \in sent' <=>
          KeepLast(i) \in sent \/ (i = drop /\ Holders(i)' = {})
  <2> TAKE i \in Item
  <2>1. CASE i # drop
    BY <2>1, <1>8 DEF CountKept, KeepLast
  <2>2. CASE i = drop
    <3>1. i # Nil /\ i # cur
      BY <2>2, <1>9
    <3>2. all[i] - 1 = Cardinality(Holders(i)')
      BY <3>1, <2>2, <1>12, <1>13
    <3>3. Holders(i)' \in SUBSET Rule
      BY DEF Holders
    <3>4. all[i] - 1 = 0 <=> Holders(i)' = {}
      BY <3>2, <3>3, NoHolders
    <3>5. KeepLast(i) \in sent' <=> KeepLast(i) \in sent \/ all[i] - 1 = 0
      BY <3>1, <2>2, <1>8 DEF CountKept
    <3> QED
      BY <2>2, <3>4, <3>5
  <2> QED
    BY <2>1, <2>2
<1>16. Visited' = Visited
  BY <1>8 DEF Visited
<1>17. TypeOK'
  <2>1. all' \in [Item -> Nat]
    <3>1. DOMAIN all' = Item /\ all' = [i \in Item |-> all'[i]]
      BY <1>8 DEF CountKept, IInv, TypeOK
    <3>2. \A i \in Item : Holders(i)' \in SUBSET Rule
      BY DEF Holders
    <3>3. \A i \in Item : all'[i] \in Nat
      BY <3>2, <1>13, NoHolders
    <3> QED
      BY <3>1, <3>3
  <2>2. sent' \subseteq {"keep-last-when-delete", "archive-when"} \X Item
    BY <1>8, <1>9 DEF CountKept, KeepLast, IInv, TypeOK
  <2>3. idx' \in 1..NumRules + 1 /\ matched' \in BOOLEAN
    BY <1>1, <1>8 DEF Rule
  <2>4. \A k \in Rule : bucket'[k] \in [1..count'[k] -> Item \cup {Nil}]
    <3> TAKE k \in Rule
    <3>1. count' = count
      BY <1>8 DEF input
    <3>2. CASE k = idx
      BY <3>1, <3>2, <1>6 DEF n, Cells
    <3>3. CASE k # idx
      BY <3>1, <3>3, <1>5 DEF IInv, TypeOK
    <3> QED
      BY <3>2, <3>3
  <2> QED
    BY <2>1, <2>2, <2>3, <2>4, <1>5, <1>8 DEF IInv, TypeOK, input
<1>18. Position'
  BY <1>1, <1>8 DEF IInv, Position, input, Rule
<1>19. HeldOnce'
  <2>1. count' = count
    BY <1>8 DEF input
  <2> SUFFICES ASSUME NEW k \in Rule, NEW c \in 1..count[k], NEW d \in 1..count[k],
                      bucket'[k][c] = bucket'[k][d], bucket'[k][c] # Nil
               PROVE  c = d
    BY <2>1 DEF HeldOnce
  <2>2. CASE k = idx
    BY <2>2, <1>6 DEF n, Once
  <2>3. CASE k # idx
    BY <2>3, <1>5 DEF IInv, HeldOnce
  <2> QED
    BY <2>2, <2>3
<1>20. HeldWereSeen'
  <2> SUFFICES ASSUME NEW k \in Rule, NEW e \in Kept(k)'
               PROVE  e \in SeenBy(k)'
    BY DEF HeldWereSeen
  <2>1. \A j \in Rule : SeenBy(j) \subseteq SeenBy(j)'
    BY <1>1, <1>8, <1>16 DEF SeenBy, input, Rule
  <2>2. CASE e \in Kept(k)
    BY <2>1, <2>2 DEF IInv, HeldWereSeen
  <2>3. CASE e \notin Kept(k)
    <3>1. k = idx /\ e = cur
      BY <2>3, <1>7
    <3> QED
      BY <3>1, <1>1, <1>8 DEF SeenBy, input, Rule
  <2> QED
    BY <2>2, <2>3
<1>21. SentWereVisited'
  <2> SUFFICES ASSUME NEW i \in Item, KeepLast(i) \in sent'
               PROVE  i \in Visited
    BY <1>16 DEF SentWereVisited, KeepLast
  <2>1. KeepLast(i) \in sent \/ i = drop
    BY <1>15
  <2>2. i # Nil
    OBVIOUS
  <2> QED
    BY <2>1, <2>2, <1>9 DEF IInv, SentWereVisited
<1>22. DeletedIffUnkept'
  <2> SUFFICES ASSUME NEW i \in Visited
               PROVE  KeepLast(i) \in sent' <=>
                         (\E k \in Rule : i \in matches[k]) /\ Holders(i)' = {}
    BY <1>8, <1>16 DEF DeletedIffUnkept, input, KeepLast, Holders
  <2>1. i \in Item /\ i # cur /\ i # Nil
    BY <1>3 DEF Visited
  <2>2. KeepLast(i) \in sent <=>
           (\E k \in Rule : i \in matches[k]) /\ Holders(i) = {}
    BY DEF IInv, DeletedIffUnkept, Holders
  <2>3. CASE i # drop
    BY <2>1, <2>2, <2>3, <1>10, <1>15
  <2>4. CASE i = drop
    <3>1. i \in matches[idx] /\ Holders(i) # {}
      BY <2>1, <2>4, <1>1, <1>9, <1>11 DEF IInv, HeldWereSeen, SeenBy
    <3> QED
      BY <3>1, <2>1, <2>2, <2>4, <1>1, <1>15
  <2> QED
    BY <2>3, <2>4
<1> QED
  BY <1>14, <1>17, <1>18, <1>19, <1>20, <1>21, <1>22 DEF IInv

\* The invariant depends on the variables of the pass only.
LEMMA StutterInv == ASSUME IInv, UNCHANGED vars PROVE IInv'
<1> USE DEF vars
<1>1. /\ \A k \in Rule : Kept(k)' = Kept(k) /\ SeenBy(k)' = SeenBy(k)
      /\ Visited' = Visited
  BY DEF Kept, SeenBy, Visited
<1>2. TypeOK'
  BY DEF IInv, TypeOK
<1>3. Position' /\ HeldOnce'
  BY DEF IInv, Position, HeldOnce
<1>4. HeldWereSeen' /\ CountersExact'
  BY <1>1 DEF IInv, HeldWereSeen, CountersExact
<1>5. SentWereVisited' /\ DeletedIffUnkept'
  BY <1>1 DEF IInv, SentWereVisited, DeletedIffUnkept, KeepLast
<1> QED
  BY <1>2, <1>3, <1>4, <1>5 DEF IInv

-----------------------------------------------------------------------------
\* Every state of a pass satisfies the inductive invariant.
THEOREM Invariance == Spec => []IInv
<1>1. ASSUME IInv, [Next]_vars PROVE IInv'
  BY <1>1, ListInv, FinishInv, VisitInv, PassInv, KeepInv, LeaveInv, StutterInv
     DEF Next
<1> QED
  BY InitInv, <1>1, PTL DEF Spec

\* The state of sendByAPIVersionKind is well-typed: in particular no counter
\* of the map "all" ever becomes negative.
THEOREM TypeCorrect == Spec => []TypeOK
  BY Invariance, PTL DEF IInv

\* The counter of an object is the number of keepers that hold it, for any
\* rules, counts, sort fields and order of the list.
THEOREM CountersAreExact == Spec => []CountersExact
  BY Invariance, PTL DEF IInv

\* A visited object is sent for deletion if and only if some rule matches it
\* and no keeper holds it, for any rules, counts, sort fields and list order.
THEOREM DeletesJustTheUnkept == Spec => []DeletedIffUnkept
  BY Invariance, PTL DEF IInv

-----------------------------------------------------------------------------
(* That a keeper holds the last objects needs one more invariant, which is *)
(* about the order of its array.                                           *)

\* What a rule that ranks all objects it matches compares.
Value(k) == IF sortBy[k] = "created" THEN created ELSE field

\* The cells of an array are filled from the first one on, in the order of v.
Ordered(b, n, v) ==
    \A c, d \in 1..n :
        c < d /\ b[d] # Nil => b[c] # Nil /\ v[b[d]] <= v[b[c]]

\* Arrays are in order, and an object that was left out met a full one in
\* which nothing ranks behind it.
Ranked ==
    \A k \in Rule : RanksAll(k) =>
        /\ Ordered(bucket[k], count[k], Value(k))
        /\ \A j \in SeenBy(k) \ Kept(k) : \A c \in 1..count[k] :
              bucket[k][c] # Nil /\ Value(k)[j] <= Value(k)[bucket[k][c]]

\* compareResources compares values where the rule ranks all objects.
LEMMA ComparesValues ==
    ASSUME TypeOK, NEW k \in Rule, RanksAll(k)
    PROVE  /\ Value(k) \in [Item -> Nat]
           /\ \A i, j \in matches[k] :
                Before(k, i, j) <=> Value(k)[i] > Value(k)[j]
  BY DEF TypeOK, RanksAll, Value, Before

\* sortResources at the index of the search keeps an array in order, and what
\* it moves out of the last cell ranks no higher than what it inserts.
LEMMA InsertOrdered ==
    ASSUME NEW n \in Nat, NEW b \in Cells(n), NEW v \in [Item -> Nat],
           NEW x \in Item, NEW p \in 0..n-1, Ordered(b, n, v),
           p > 0 => b[p] # Nil /\ v[b[p]] > v[x],
           b[p + 1] # Nil => v[b[p + 1]] <= v[x]
    PROVE  /\ Ordered(Put(b, n, x, p), n, v)
           /\ b[n] # Nil => v[b[n]] <= v[x]
<1> USE VacuumAssumption
<1>0. \A c \in 1..n : b[c] # Nil => v[b[c]] \in Nat
  BY DEF Cells
<1>1. \A c \in 1..p : b[c] # Nil /\ v[b[c]] >= v[x]
  <2> TAKE c \in 1..p
  <2>1. p \in 1..n /\ c \in 1..n /\ p > 0
    OBVIOUS
  <2>2. CASE c = p
    BY <2>1, <2>2, <1>0
  <2>3. CASE c < p
    <3>1. b[c] # Nil /\ v[b[p]] <= v[b[c]]
      BY <2>1, <2>3 DEF Ordered
    <3> QED
      BY <3>1, <2>1, <1>0
  <2> QED
    BY <2>2, <2>3
<1>2. \A c \in p+1..n : b[c] # Nil => v[b[c]] <= v[x]
  <2> SUFFICES ASSUME NEW c \in p+1..n, b[c] # Nil PROVE v[b[c]] <= v[x]
    OBVIOUS
  <2>1. p + 1 \in 1..n /\ c \in 1..n
    OBVIOUS
  <2>2. CASE c = p + 1
    BY <2>2
  <2>3. CASE c > p + 1
    <3>1. b[p + 1] # Nil /\ v[b[c]] <= v[b[p + 1]]
      BY <2>1, <2>3 DEF Ordered
    <3> QED
      BY <3>1, <2>1, <1>0
  <2> QED
    BY <2>2, <2>3
<1>3. Ordered(Put(b, n, x, p), n, v)
  <2> DEFINE b2 == Put(b, n, x, p)
  <2> SUFFICES ASSUME NEW c \in 1..n, NEW d \in 1..n, c < d, b2[d] # Nil
               PROVE  b2[c] # Nil /\ v[b2[d]] <= v[b2[c]]
    BY DEF Ordered
  <2>0. x # Nil
    OBVIOUS
  <2>1. CASE d <= p
    <3>1. b2[c] = b[c] /\ b2[d] = b[d]
      BY <2>1 DEF Put
    <3> QED
      BY <3>1 DEF Ordered
  <2>2. CASE d = p + 1
    <3>1. b2[c] = b[c] /\ b2[d] = x /\ c \in 1..p
      BY <2>2 DEF Put
    <3> QED
      BY <3>1, <1>1
  <2>3. CASE d > p + 1
    <3>1. b2[d] = b[d - 1] /\ d - 1 \in p+1..n /\ d - 1 \in 1..n
      BY <2>3 DEF Put
    <3>2. v[b[d - 1]] <= v[x]
      BY <3>1, <1>2
    <3>3. CASE c <= p
      <4>1. b2[c] = b[c] /\ c \in 1..p
        BY <3>3 DEF Put
      <4>2. b[c] # Nil /\ v[b[c]] >= v[x]
        BY <4>1, <1>1
      <4> QED
        BY <4>1, <4>2, <3>1, <3>2, <1>0
    <3>4. CASE c = p + 1
      <4>1. b2[c] = x
        BY <3>4 DEF Put
      <4> QED
        BY <4>1, <3>1, <3>2, <2>0
    <3>5. CASE c > p + 1
      <4>1. b2[c] = b[c - 1] /\ c - 1 \in 1..n /\ c - 1 < d - 1
        BY <3>5 DEF Put
      <4> QED
        BY <4>1, <3>1 DEF Ordered
    <3> QED
      BY <3>3, <3>4, <3>5
  <2> QED
    BY <2>1, <2>2, <2>3
<1> QED
  BY <1>2, <1>3

\* How many objects an array in order holds that holds none of them twice:
\* as many as it has cells if the last is filled, and fewer if it is not.
LEMMA HeldCardinality ==
    ASSUME NEW n \in Nat, NEW b \in Cells(n), Once(b, n)
    PROVE  /\ (\A c \in 1..n : b[c] # Nil) => Cardinality(Held(b, n)) = n
           /\ n > 0 /\ b[n] = Nil => Cardinality(Held(b, n)) < n
<1>1. ASSUME \A c \in 1..n : b[c] # Nil PROVE Cardinality(Held(b, n)) = n
  <2>1. b \in [1..n -> Held(b, n)]
    BY <1>1 DEF Held, Cells
  <2>2. b \in Injection(1..n, Held(b, n))
    BY <1>1, <2>1 DEF Once, Injection, IsInjective
  <2>3. b \in Surjection(1..n, Held(b, n))
    BY <2>1 DEF Held, Surjection
  <2>4. IsFiniteSet(1..n) /\ Cardinality(1..n) = n
    BY FS_Interval
  <2> QED
    BY <2>2, <2>3, <2>4, FS_Surjection
<1>2. ASSUME n > 0, b[n] = Nil PROVE Cardinality(Held(b, n)) < n
  <2> DEFINE F == {c \in 1..n : b[c] # Nil}
             g == [c \in F |-> b[c]]
  <2>1. g \in Surjection(F, Held(b, n))
    BY DEF Held, Surjection
  <2>2. IsFiniteSet(1..n-1) /\ Cardinality(1..n-1) = n - 1
    BY <1>2, FS_Interval
  <2>3. F \in SUBSET (1..n-1)
    BY <1>2
  <2> HIDE DEF F, g
  <2>4. IsFiniteSet(F) /\ Cardinality(F) <= n - 1
    BY <2>2, <2>3, FS_Subset
  <2>5. IsFiniteSet(Held(b, n)) /\ Cardinality(Held(b, n)) <= Cardinality(F)
    BY <2>1, <2>4, FS_Surjection
  <2>6. Cardinality(F) \in Nat /\ Cardinality(Held(b, n)) \in Nat
    BY <2>4, <2>5, FS_CardinalityType
  <2> QED
    BY <2>4, <2>5, <2>6
<1> QED
  BY <1>1, <1>2

\* In the beginning arrays are empty and no object has been seen.
LEMMA InitRanked == Init => Ranked
<1> SUFFICES ASSUME Init PROVE Ranked
  OBVIOUS
<1>1. \A k \in Rule : SeenBy(k) = {}
  BY DEF Init, SeenBy, Visited
<1>2. \A k \in Rule : \A c \in 1..count[k] : bucket[k][c] = Nil
  BY DEF Init
<1> QED
  BY <1>1, <1>2 DEF Ranked, Ordered

\* Steps that change neither the input, nor an array, nor what was seen.
LEMMA SameRanked ==
    ASSUME Ranked, UNCHANGED <<input, bucket>>,
           \A k \in Rule : SeenBy(k)' = SeenBy(k)
    PROVE  Ranked'
<1>1. \A k \in Rule : Kept(k)' = Kept(k)
  BY DEF Kept, input
<1>2. \A k \in Rule : RanksAll(k)' = RanksAll(k) /\ Value(k)' = Value(k)
  BY DEF RanksAll, Value, input
<1>3. SUFFICES ASSUME NEW k \in Rule, RanksAll(k)
               PROVE  /\ Ordered(bucket[k], count[k], Value(k))
                      /\ \A j \in SeenBy(k) \ Kept(k) : \A c \in 1..count[k] :
                           /\ bucket[k][c] # Nil
                           /\ Value(k)[j] <= Value(k)[bucket[k][c]]
  BY <1>1, <1>2 DEF Ranked, Ordered, input
<1> QED
  BY <1>3 DEF Ranked

\* The list call gives every keeper an empty array before it sees anything.
LEMMA ListRanked == ASSUME IInv, List PROVE Ranked'
<1>1. \A k \in Rule : SeenBy(k)' = {}
  BY DEF IInv, Position, List, SeenBy, Visited, input
<1>2. \A k \in Rule : \A c \in 1..count'[k] : bucket'[k][c] = Nil
  BY DEF List, input
<1> QED
  BY <1>1, <1>2 DEF Ranked, Ordered

\* What keepers have seen is the same after every step but the two with which
\* a keeper whose rule matches is done with the object.
LEMMA SameSeen ==
    ASSUME IInv, ListFails \/ Finish \/ (\E i \in Item : Visit(i))
                 \/ PassKeeper \/ Leave
    PROVE  UNCHANGED <<input, bucket>> /\ \A k \in Rule : SeenBy(k)' = SeenBy(k)
<1> USE VacuumAssumption
<1>0. \A k \in Rule : k \in 1..NumRules
  BY DEF Rule
<1>1. CASE ListFails
  BY <1>1 DEF ListFails, SeenBy, Visited, input
<1>2. CASE Finish
  BY <1>2 DEF Finish, SeenBy, Visited, input
<1>3. ASSUME NEW i \in Item, Visit(i)
      PROVE  UNCHANGED <<input, bucket>> /\ \A k \in Rule : SeenBy(k)' = SeenBy(k)
  <2>1. Visited' = Visited
    BY <1>3 DEF Visit, Visited
  <2> QED
    BY <1>0, <1>3, <2>1 DEF Visit, SeenBy, input
<1>4. CASE PassKeeper
  <2>1. Visited' = Visited
    BY <1>4 DEF PassKeeper, Visited
  <2> QED
    BY <1>0, <1>4, <2>1 DEF PassKeeper, SeenBy, input, IInv, TypeOK
<1>5. CASE Leave
  <2>1. cur \in Item /\ cur \notin todo
    BY <1>5 DEF IInv, TypeOK, Position, Leave
  <2>2. Visited' = Visited \cup {cur}
    BY <1>5, <2>1 DEF Leave, Visited, IInv, TypeOK
  <2> QED
    BY <1>0, <1>5, <2>1, <2>2 DEF Leave, SeenBy, input
<1> QED
  BY <1>1, <1>2, <1>3, <1>4, <1>5

\* When keeper idx is done with an object its rule matches, it has seen it.
LEMMA KeeperSees ==
    ASSUME IInv, cur # Nil, idx \in Rule, cur \in matches[idx], idx' = idx + 1,
           UNCHANGED <<input, todo, cur>>
    PROVE  \A k \in Rule :
              SeenBy(k)' = IF k = idx THEN SeenBy(k) \cup {cur} ELSE SeenBy(k)
<1>1. Visited' = Visited
  BY DEF Visited
<1> QED
  BY <1>1, VacuumAssumption DEF SeenBy, input, Rule, IInv, TypeOK

\* An object that ranks behind all Count objects of a keeper is left out.
LEMMA RankedOutRanked == ASSUME IInv, Ranked, RankedOut PROVE Ranked'
<1> USE VacuumAssumption
<1>1. /\ cur # Nil /\ idx \in Rule /\ cur \in matches[idx]
      /\ idx' = idx + 1 /\ UNCHANGED <<input, todo, cur, bucket>>
  BY DEF RankedOut
<1>2. \A k \in Rule :
         SeenBy(k)' = IF k = idx THEN SeenBy(k) \cup {cur} ELSE SeenBy(k)
  BY <1>1, KeeperSees
<1>3. \A k \in Rule : Kept(k)' = Kept(k)
  BY <1>1 DEF Kept, input
<1>4. \A k \in Rule : RanksAll(k)' = RanksAll(k) /\ Value(k)' = Value(k)
  BY <1>1 DEF RanksAll, Value, input
<1>5. SUFFICES ASSUME NEW k \in Rule, RanksAll(k)
               PROVE  /\ Ordered(bucket[k], count[k], Value(k))
                      /\ \A j \in SeenBy(k)' \ Kept(k) : \A c \in 1..count[k] :
                           /\ bucket[k][c] # Nil
                           /\ Value(k)[j] <= Value(k)[bucket[k][c]]
  BY <1>1, <1>3, <1>4 DEF Ranked, Ordered, input
<1>6. /\ Ordered(bucket[k], count[k], Value(k))
      /\ \A j \in SeenBy(k) \ Kept(k) : \A c \in 1..count[k] :
           /\ bucket[k][c] # Nil
           /\ Value(k)[j] <= Value(k)[bucket[k][c]]
  BY <1>5 DEF Ranked
<1>7. ASSUME k = idx, NEW c \in 1..count[k]
      PROVE  bucket[k][c] # Nil /\ Value(k)[cur] <= Value(k)[bucket[k][c]]
  <2> DEFINE n == count[k]
  <2>1. n \in Nat /\ n \in 1..n /\ n > 0
    BY DEF IInv, TypeOK
  <2>2. Value(k) \in [Item -> Nat] /\ \A i, j \in matches[k] :
           Before(k, i, j) <=> Value(k)[i] > Value(k)[j]
    BY <1>5, ComparesValues DEF IInv
  <2>3. /\ bucket[k][n] # Nil /\ Before(k, bucket[k][n], cur)
    BY <1>7, <2>1 DEF RankedOut, SearchResult, StaysBefore
  <2>4. \A d \in 1..n : bucket[k][d] # Nil =>
           bucket[k][d] \in matches[k] /\ bucket[k][d] \in Item
    BY DEF IInv, TypeOK, HeldWereSeen, Kept, SeenBy
  <2>5. Value(k)[bucket[k][n]] > Value(k)[cur] /\ cur \in Item
    BY <1>1, <1>7, <2>1, <2>2, <2>3, <2>4 DEF IInv, TypeOK
  <2>6. bucket[k][c] # Nil /\ Value(k)[bucket[k][n]] <= Value(k)[bucket[k][c]]
    <3>1. CASE c = n
      BY <3>1, <2>1, <2>2, <2>3, <2>4
    <3>2. CASE c < n
      BY <3>2, <2>1, <2>3, <1>6 DEF Ordered
    <3> QED
      BY <3>1, <3>2, <2>1
  <2> QED
    BY <2>1, <2>2, <2>3, <2>4, <2>5, <2>6
<1> QED
  BY <1>2, <1>6, <1>7

\* An object that is kept is inserted in order; the object that it pushes out
\* ranks behind all others, and so do those that were left out before.
LEMMA KeepRanked ==
    ASSUME IInv, Ranked, NEW p \in 0..MaxCount, Keep(p) PROVE Ranked'
<1> USE VacuumAssumption
<1> DEFINE m == count[idx]
           drop == bucket[idx][m]
<1>1. /\ cur \in Item /\ cur # Nil /\ idx \in Rule /\ cur \in matches[idx]
      /\ m \in Nat /\ p \in 0..m-1 /\ m \in 1..m
      /\ bucket[idx] \in Cells(m)
      /\ cur \notin Kept(idx)
  BY KeepStep
<1>2. /\ bucket'[idx] = Put(bucket[idx], m, cur, p)
      /\ \A k \in Rule : k # idx => bucket'[k] = bucket[k]
      /\ \A k \in Rule : Kept(k)' = IF k = idx THEN (Kept(k) \cup {cur}) \ {drop}
                                               ELSE Kept(k)
      /\ UNCHANGED <<input, phase, todo, cur>> /\ idx' = idx + 1
  BY KeepStep
<1>3. \A k \in Rule :
         SeenBy(k)' = IF k = idx THEN SeenBy(k) \cup {cur} ELSE SeenBy(k)
  BY <1>1, <1>2, KeeperSees
<1>4. \A k \in Rule : RanksAll(k)' = RanksAll(k) /\ Value(k)' = Value(k)
  BY <1>2 DEF RanksAll, Value, input
<1>5. SUFFICES ASSUME NEW k \in Rule, RanksAll(k)
               PROVE  /\ Ordered(bucket'[k], count[k], Value(k))
                      /\ \A j \in SeenBy(k)' \ Kept(k)' : \A c \in 1..count[k] :
                           /\ bucket'[k][c] # Nil
                           /\ Value(k)[j] <= Value(k)[bucket'[k][c]]
  BY <1>2, <1>4 DEF Ranked, Ordered, input
<1>6. /\ Ordered(bucket[k], count[k], Value(k))
      /\ \A j \in SeenBy(k) \ Kept(k) : \A c \in 1..count[k] :
           /\ bucket[k][c] # Nil
           /\ Value(k)[j] <= Value(k)[bucket[k][c]]
  BY <1>5 DEF Ranked
<1>7. CASE k # idx
  BY <1>2, <1>3, <1>6, <1>7
<1>8. CASE k = idx
  <2> DEFINE n == count[k]
             b == bucket[k]
             v == Value(k)
  <2>1. /\ n \in Nat /\ p \in 0..n-1 /\ n \in 1..n /\ b \in Cells(n)
        /\ bucket'[k] = Put(b, n, cur, p) /\ drop = b[n]
    BY <1>1, <1>2, <1>8
  <2>2. v \in [Item -> Nat] /\ \A i, j \in matches[k] :
           Before(k, i, j) <=> v[i] > v[j]
    BY <1>5, ComparesValues DEF IInv
  <2>3. \A d \in 1..n : b[d] # Nil => b[d] \in matches[k] /\ b[d] \in Item
    BY DEF IInv, TypeOK, HeldWereSeen, Kept, SeenBy
  <2>4. /\ p > 0 => b[p] # Nil /\ v[b[p]] > v[cur]
        /\ b[p + 1] # Nil => v[b[p + 1]] <= v[cur]
    <3>1. p > 0 => b[p] # Nil /\ Before(k, b[p], cur)
      BY <1>8, <2>1 DEF Keep, SearchResult, StaysBefore
    <3>2. b[p + 1] # Nil => ~ Before(k, b[p + 1], cur)
      BY <1>8, <2>1 DEF Keep, SearchResult, StaysBefore
    <3>3. (p > 0 => p \in 1..n) /\ p + 1 \in 1..n
      BY <2>1
    <3>4. cur \in matches[k]
      BY <1>1, <1>8
    <3>5. p > 0 => v[b[p]] > v[cur]
      BY <3>1, <3>3, <3>4, <2>2, <2>3
    <3>6. b[p + 1] # Nil => v[b[p + 1]] <= v[cur]
      <4> SUFFICES ASSUME b[p + 1] # Nil PROVE v[b[p + 1]] <= v[cur]
        OBVIOUS
      <4>1. b[p + 1] \in matches[k] /\ b[p + 1] \in Item
        BY <3>3, <2>3
      <4>2. ~ (v[b[p + 1]] > v[cur])
        BY <4>1, <3>2, <3>4, <2>2
      <4>3. v[b[p + 1]] \in Nat /\ v[cur] \in Nat
        BY <4>1, <2>2, <1>1
      <4> HIDE DEF v, b
      <4> QED
        BY <4>2, <4>3
    <3> QED
      BY <3>1, <3>5, <3>6
  <2>5. Ordered(b, n, v)
    BY <1>6
  <2>6. SeenBy(k)' = SeenBy(k) \cup {cur} /\ Kept(k)' = (Kept(k) \cup {cur}) \ {b[n]}
    BY <1>2, <1>3, <1>8, <2>1
  <2>7. /\ \A e \in 1..n : b[e] # Nil => b[e] \in Kept(k)
        /\ \A j \in SeenBy(k) : j \in Item
    BY DEF Kept, SeenBy, IInv, TypeOK
  <2>8. \A j \in SeenBy(k) \ Kept(k) : \A c \in 1..n : b[c] # Nil /\ v[j] <= v[b[c]]
    BY <1>6
  <2>9. cur \in Item
    BY <1>1
  <2> HIDE DEF n, b, v, drop, m
  <2>10. /\ Ordered(Put(b, n, cur, p), n, v)
         /\ b[n] # Nil => v[b[n]] <= v[cur]
    BY <2>1, <2>2, <2>4, <2>5, <2>9, InsertOrdered
  <2>11. ASSUME NEW j \in SeenBy(k)', j \notin Kept(k)', NEW c \in 1..n
         PROVE  /\ Put(b, n, cur, p)[c] # Nil
                /\ v[j] <= v[Put(b, n, cur, p)[c]]
    <3>0. b[n] # Nil => b[n] \in Item
      BY <2>1, <2>3
    <3>1. b[n] # Nil
      <4>1. CASE b[n] = Nil
        <5>1. (j \notin Kept(k) /\ j # cur) \/ j = Nil
          BY <4>1, <2>6, <2>11
        <5>2. j \in SeenBy(k) /\ j \notin Kept(k)
          BY <5>1, <2>6, <2>7, <2>9, <2>11
        <5> QED
          BY <5>2, <4>1, <2>8, <2>1
      <4> QED
        BY <4>1
    <3>2. v[j] <= v[b[n]] /\ j \in Item
      <4>1. CASE j = b[n]
        BY <4>1, <3>0, <3>1, <2>2
      <4>2. CASE j # b[n]
        <5>1. j \in SeenBy(k) /\ j \notin Kept(k)
          BY <4>2, <2>6, <2>11
        <5> QED
          BY <5>1, <2>8, <2>7, <2>1
      <4> QED
        BY <4>1, <4>2
    <3>3. \A d \in 1..n : b[d] # Nil /\ v[b[n]] <= v[b[d]]
      <4> TAKE d \in 1..n
      <4>1. CASE d = n
        BY <4>1, <3>0, <3>1, <2>2
      <4>2. CASE d < n
        BY <4>2, <3>1, <2>1, <2>5 DEF Ordered
      <4> QED
        BY <4>1, <4>2, <2>1
    <3>4. Put(b, n, cur, p)[c] = cur \/ \E d \in 1..n : Put(b, n, cur, p)[c] = b[d]
      <4>1. Put(b, n, cur, p)[c] = IF c <= p THEN b[c] ELSE
                                   IF c = p + 1 THEN cur ELSE b[c - 1]
        BY DEF Put
      <4>2. c > p + 1 => c - 1 \in 1..n
        BY <2>1
      <4> QED
        BY <4>1, <4>2, <2>1
    <3>5. /\ v[j] \in Nat /\ v[b[n]] \in Nat /\ v[cur] \in Nat
          /\ \A d \in 1..n : v[b[d]] \in Nat
      BY <3>0, <3>1, <3>2, <3>3, <2>2, <2>3, <2>9
    <3>6. CASE Put(b, n, cur, p)[c] = cur
      BY <3>6, <3>1, <3>2, <3>5, <2>9, <2>10
    <3>7. ASSUME NEW d \in 1..n, Put(b, n, cur, p)[c] = b[d]
          PROVE  /\ Put(b, n, cur, p)[c] # Nil
                 /\ v[j] <= v[Put(b, n, cur, p)[c]]
      BY <3>7, <3>2, <3>3, <3>5
    <3> QED
      BY <3>4, <3>6, <3>7
  <2> QED
    BY <2>1, <2>10, <2>11 DEF n, b, v
<1> QED
  BY <1>7, <1>8

\* An array that is in order and left nothing out before it was full holds
\* the last Count objects its keeper has seen.
LEMMA RankedHoldsTheLast == ASSUME IInv, Ranked PROVE KeepersHoldTheLast
<1> USE VacuumAssumption
<1> SUFFICES ASSUME NEW k \in Rule, RanksAll(k)
             PROVE  /\ Kept(k) \subseteq SeenBy(k)
                    /\ Cardinality(Kept(k)) =
                          IF Cardinality(SeenBy(k)) < count[k]
                          THEN Cardinality(SeenBy(k)) ELSE count[k]
                    /\ \A i \in Kept(k), j \in SeenBy(k) \ Kept(k) :
                          ~ Before(k, j, i)
  BY DEF KeepersHoldTheLast
<1> DEFINE n == count[k]
           b == bucket[k]
           v == Value(k)
<1>1. n \in Nat /\ b \in Cells(n) /\ Once(b, n) /\ Kept(k) = Held(b, n)
  BY KeptIsHeld DEF IInv, TypeOK, HeldOnce, Once, Cells
<1>2. Kept(k) \subseteq SeenBy(k) /\ SeenBy(k) \subseteq matches[k]
  BY DEF IInv, HeldWereSeen, SeenBy
<1>3. /\ Ordered(b, n, v)
      /\ \A j \in SeenBy(k) \ Kept(k) : \A c \in 1..n : b[c] # Nil /\ v[j] <= v[b[c]]
  BY DEF Ranked
<1>4. IsFiniteSet(SeenBy(k)) /\ Cardinality(SeenBy(k)) \in Nat
  <2>1. SeenBy(k) \in SUBSET Item
    BY <1>2 DEF IInv, TypeOK
  <2> QED
    BY <2>1, FS_Subset, FS_CardinalityType
<1>5. Cardinality(Kept(k)) = IF Cardinality(SeenBy(k)) < n
                             THEN Cardinality(SeenBy(k)) ELSE n
  <2> HIDE DEF n, b, v
  <2>1. CASE \A c \in 1..n : b[c] # Nil
    <3>1. Cardinality(Kept(k)) = n
      BY <2>1, <1>1, HeldCardinality
    <3>2. n <= Cardinality(SeenBy(k))
      BY <3>1, <1>2, <1>4, FS_Subset
    <3> QED
      BY <3>1, <3>2, <1>1, <1>4
  <2>2. ASSUME NEW c \in 1..n, b[c] = Nil
        PROVE  Cardinality(Kept(k)) = Cardinality(SeenBy(k))
               /\ Cardinality(SeenBy(k)) < n
    <3>1. SeenBy(k) = Kept(k)
      BY <2>2, <1>2, <1>3
    <3>2. n > 0 /\ n \in 1..n
      BY <2>2, <1>1
    <3>3. b[n] = Nil
      BY <2>2, <1>1, <1>3, <3>2 DEF Ordered
    <3> QED
      BY <3>1, <3>2, <3>3, <1>1, HeldCardinality
  <2> QED
    BY <2>1, <2>2
<1>6. ASSUME NEW i \in Kept(k), NEW j \in SeenBy(k) \ Kept(k)
      PROVE  ~ Before(k, j, i)
  <2>1. PICK c \in 1..n : b[c] = i
    BY DEF Kept
  <2>2. v[j] <= v[i]
    BY <2>1, <1>3
  <2>3. i \in matches[k] /\ j \in matches[k] /\ i \in Item /\ j \in Item
    BY <1>2 DEF IInv, TypeOK
  <2>4. v \in [Item -> Nat] /\ (Before(k, j, i) <=> v[j] > v[i])
    BY <2>3, ComparesValues DEF IInv
  <2>5. v[j] \in Nat /\ v[i] \in Nat
    BY <2>3, <2>4
  <2> HIDE DEF v
  <2> QED
    BY <2>2, <2>4, <2>5
<1> QED
  BY <1>2, <1>5, <1>6

\* For any rules, counts and list order, a keeper whose sort field ranks all
\* objects its rule matches holds, of those it has seen, the Count that rank
\* first, and all of them while there are fewer: keepLastWhen keeps the last.
THEOREM KeepersHoldTheLastHolds == Spec => []KeepersHoldTheLast
<1>1. ASSUME IInv, Ranked, [Next]_vars PROVE Ranked'
  <2>1. CASE List
    BY <1>1, <2>1, ListRanked
  <2>2. CASE ListFails \/ Finish \/ (\E i \in Item : Visit(i)) \/ PassKeeper \/ Leave
    BY <1>1, <2>2, SameSeen, SameRanked
  <2>3. CASE RankedOut
    BY <1>1, <2>3, RankedOutRanked
  <2>4. CASE \E p \in 0..MaxCount : Keep(p)
    BY <1>1, <2>4, KeepRanked
  <2>5. CASE UNCHANGED vars
    <3>1. UNCHANGED <<input, bucket>> /\ \A k \in Rule : SeenBy(k)' = SeenBy(k)
      BY <2>5 DEF vars, input, SeenBy, Visited
    <3> QED
      BY <1>1, <3>1, SameRanked
  <2> QED
    BY <1>1, <2>1, <2>2, <2>3, <2>4, <2>5 DEF Next
<1>2. IInv /\ Ranked => KeepersHoldTheLast
  BY RankedHoldsTheLast
<1> QED
  BY Invariance, InitRanked, <1>1, <1>2, PTL DEF Spec

-----------------------------------------------------------------------------
(***************************************************************************)
(* The rules a vacuum applies and what it visits (VacuumRules), for any    *)
(* namespaces, kinds, texts and configurations, and any number of changes  *)
(* of them.                                                                *)
(***************************************************************************)

\* RulesTypeOK without the visits.
Types ==
    /\ pc \in {"idle", "config", "publish", "done", "failed", "panicked"}
    /\ ckac \in Ckacs \cup {None} /\ seen \in Ckacs \cup {None}
    /\ kac \in [Ns -> Kacs \cup {None}]
    /\ against \in [Ns -> Ckacs \cup {None}]
    /\ nvc \in [Ns -> (SUBSET Kind) \cup {None}] /\ cvc \in Cvcs \cup {None}
    /\ always \subseteq Ns /\ edits \in 0..MaxEdits
    /\ vacuums \in 0..MaxVacuums

\* What an admitted KAC has whatever CKAC it was admitted against.
KeepsValid(e) ==
    /\ DistinctWhens(e.keep) /\ CountsValid(e.keep)
    /\ CountsValid(e.override)

\* A SinkFilter with nothing but what the webhooks admitted, at some time.
FilterValid(f) ==
    /\ f \in SinkFilters
    /\ CkacValid(f.cluster)
    /\ \A n \in Ns : f.ns[n] # None =>
           \A e \in Range(f.ns[n]) : KeepsValid(e)

\* The configurations were admitted; what each was checked against is kept.
Admitted ==
    /\ ckac # None => CkacValid(ckac)
    /\ seen # None => CkacValid(seen)
    /\ \A n \in Ns : against[n] # None => CkacValid(against[n])
    /\ \A n \in Ns : kac[n] # None => KacValid(n, kac[n], against[n])
    /\ sf # None => FilterValid(sf)

\* What the vacuum has read, and what stayed in the SinkFilter meanwhile.
Reading ==
    /\ mode \in Ns \cup {AllNs}
    /\ pc \in {"config", "publish", "done"} => sf # None /\ FilterValid(read)
    /\ pc \in {"config", "publish"} => always \subseteq InFilter(sf)
    /\ pc \in {"publish", "done"} =>
           plan \in IF mode = AllNs THEN Cvcs ELSE SUBSET Kind
    /\ pc # "done" => visits = {}

\* What ClusterRulesBind says of one visit.
VisitBound(v, f) ==
    /\ v.ns \in Ns /\ v.kind \in Kind
    /\ \A r \in Range(v.rules) : r.text \in Text /\ r.count \in Nat
    /\ \A r \in Range(RulesOf(ClusterCel(f, v.kind))) :
           \E u \in Range(v.rules) :
               u.text = Trimmed[r.when] /\ u.count <= r.count
    /\ \A u \in Range(v.rules) :
           \E r \in Range(RulesOf(ClusterCel(f, v.kind)))
                    \cup Range(KeepOf(NamespaceCel(f, v.ns, v.kind))) :
               Trimmed[r.when] = u.text
    /\ \A i, j \in DOMAIN v.rules : v.rules[i].text = v.rules[j].text => i = j

\* What NothingIsLeftOut says of a plan, the namespaces that were there all
\* the time, the SinkFilter and the visits.
Covered(p, present, f, vs) ==
    LET everywhere == DOMAIN p = {} \/ AllNs \in DOMAIN p IN
    \A n \in IF everywhere THEN present ELSE DOMAIN p :
        LET kinds == IF n \in DOMAIN p THEN p[n]
                     ELSE IF AllNs \in DOMAIN p THEN p[AllNs] ELSE {}
        IN  \A k \in IF kinds # {} THEN kinds
                     ELSE (KindsOf(f.ns[n]) \cup KindsOf(f.cluster)) \ Hyphened :
                \E v \in vs : v.ns = n /\ v.kind = k

Complete == pc = "done" /\ mode = AllNs => Covered(plan, always, read, visits)

VisitsBound == \A v \in visits : VisitBound(v, read)

RulesInv ==
    /\ Types
    /\ Admitted
    /\ Reading
    /\ VisitsBound
    /\ Complete

-----------------------------------------------------------------------------
(* A set of naturals that is not empty has a least member                  *)
LEMMA Least ==
    ASSUME NEW S \in SUBSET Nat, NEW x \in S
    PROVE  \E i \in S : \A j \in S : i <= j
<1> DEFINE R == OpToRel(<, Nat)
<1>1. IsWellFoundedOn(R, Nat)
  BY NatLessThanWellFounded
<1>2. PICK i \in S : \A j \in S : <<j, i>> \notin R
  BY <1>1, WFMin
<1>0. R = {ss \in Nat \X Nat : ss[1] < ss[2]}
  BY DEF OpToRel
<1> HIDE DEF R
<1>3. \A j \in S : ~(j < i)
  BY <1>0, <1>2
<1> QED
  BY <1>2, <1>3

(* and a greatest one when it is bounded                                   *)
LEMMA Greatest ==
    ASSUME NEW n \in Nat, NEW S \in SUBSET (1..n), NEW x \in S
    PROVE  \E i \in S : \A j \in S : j <= i
<1> DEFINE T == {k \in 0..n : n - k \in S}
<1>1. T \in SUBSET Nat /\ n - x \in T
  OBVIOUS
<1>2. PICK k \in T : \A l \in T : k <= l
  <2> HIDE DEF T
  <2> QED
    BY <1>1, Least
<1>3. ASSUME NEW j \in S PROVE j <= n - k
  <2>1. n - j \in T /\ j \in Nat
    OBVIOUS
  <2> HIDE DEF T
  <2>2. k <= n - j
    BY <1>2, <2>1
  <2>3. k \in Nat
    BY <1>1, <1>2
  <2> QED
    BY <2>1, <2>2, <2>3
<1> QED
  BY <1>2, <1>3

(* The map of the filters has the last of the entries for a kind           *)
LEMMA LastEntryIs ==
    ASSUME NEW R, NEW list \in Seq(R), NEW k
    PROVE  /\ Entries(list, k) = {} => LastEntry(list, k) = None
           /\ list # None /\ Entries(list, k) # {} =>
                \E i \in Entries(list, k) : LastEntry(list, k) = list[i]
           /\ LastEntry(list, k) # None =>
                /\ LastEntry(list, k) \in Range(list)
                /\ LastEntry(list, k) \in R
                /\ LastEntry(list, k).kind = k
<1> DEFINE S == Entries(list, k)
           Last(i) == \A j \in S : j <= i
           l == CHOOSE i \in S : Last(i)
<1>0. S \in SUBSET (1..Len(list)) /\ Len(list) \in Nat
  BY DEF Entries
<1>1. LastEntry(list, k) = IF list = None \/ S = {} THEN None ELSE list[l]
  BY DEF LastEntry
<1>2. ASSUME S # {} PROVE l \in S
  <2>1. PICK x \in S : TRUE
    BY <1>2
  <2>2. \E i \in S : Last(i)
    <3> HIDE DEF S
    <3> QED
      BY <1>0, <2>1, Greatest
  <2> HIDE DEF S, Last
  <2> QED
    BY <2>2
<1>3. ASSUME S # {} PROVE l \in DOMAIN list /\ list[l] \in R /\ list[l].kind = k
  <2> HIDE DEF l
  <2> QED
    BY <1>2, <1>3 DEF Entries
<1> HIDE DEF l, S
<1>4. ASSUME S # {} PROVE list[l] \in Range(list)
  BY <1>3, <1>4 DEF Range
<1>5. S = Entries(list, k)
  BY DEF S
<1>6. S = {} => LastEntry(list, k) = None
  BY <1>1
<1>7. ASSUME S # {}, list # None PROVE LastEntry(list, k) = list[l]
  BY <1>1, <1>7
<1>8. LastEntry(list, k) # None => S # {} /\ list # None
  BY <1>1
<1> QED
  BY <1>2, <1>3, <1>4, <1>5, <1>6, <1>7, <1>8

(* An override can only lower the count of its rule                        *)
LEMMA LoweredIs ==
    ASSUME NEW most \in Nat, NEW overrides \in Seq(KeepLastRule),
           CountsValid(overrides), NEW name
    PROVE  /\ Lowered(most, overrides, name) \in Nat
           /\ Lowered(most, overrides, name) <= most
           /\ \A o \in Range(overrides) : o.name = name =>
                Lowered(most, overrides, name) <= o.count
<1> DEFINE cs == {most} \cup
                 {o.count : o \in {q \in Range(overrides) : q.name = name}}
           Min(c) == \A d \in cs : c <= d
<1>1. ASSUME NEW o \in Range(overrides) PROVE o.count \in Nat
  <2>1. PICK i \in 1..Len(overrides) : o = overrides[i]
    BY DEF Range
  <2>2. o \in KeepLastRule
    BY <2>1
  <2>3. o.count \in Int
    BY <2>2 DEF KeepLastRule
  <2>4. o.count >= 0
    BY <2>1 DEF CountsValid
  <2> QED
    BY <2>3, <2>4
<1>2. cs \in SUBSET Nat /\ most \in cs
  BY <1>1
<1>3. Lowered(most, overrides, name) = CHOOSE c \in cs : Min(c)
  BY DEF Lowered
<1>4. \A o \in Range(overrides) : o.name = name => o.count \in cs
  OBVIOUS
<1>5. \E c \in cs : Min(c)
  <2> HIDE DEF cs
  <2> QED
    BY <1>2, Least
<1> HIDE DEF cs
<1>6. Lowered(most, overrides, name) \in cs /\ Min(Lowered(most, overrides, name))
  <2> HIDE DEF Min
  <2> QED
    BY <1>3, <1>5
<1> QED
  BY <1>2, <1>4, <1>6

\* What unifyRules needs of an entry of the cluster and of a namespace.
ClusterSide(c) ==
    c # None => /\ c \in ClusterKubeArchiveConfigResource
                /\ DistinctWhens(c.rules) /\ CountsValid(c.rules)

LocalSide(e) == e # None => e \in KubeArchiveConfigResource /\ KeepsValid(e)

(* The rules of the two sides are well-formed, those there are             *)
LEMMA Sides ==
    ASSUME NEW c, NEW e, ClusterSide(c), LocalSide(e)
    PROVE  /\ RulesOf(c) \in Seq(KeepLastRule) /\ CountsValid(RulesOf(c))
           /\ DistinctWhens(RulesOf(c))
           /\ KeepOf(e) \in Seq(KeepLastRule) /\ CountsValid(KeepOf(e))
           /\ DistinctWhens(KeepOf(e))
           /\ OverrideOf(e) \in Seq(KeepLastRule) /\ CountsValid(OverrideOf(e))
           /\ c = None => Len(RulesOf(c)) = 0
           /\ c # None => RulesOf(c) = c.rules
           /\ e = None => Len(KeepOf(e)) = 0
           /\ e # None => KeepOf(e) = e.keep /\ OverrideOf(e) = e.override
<1>1. /\ RulesOf(c) \in Seq(KeepLastRule) /\ CountsValid(RulesOf(c))
      /\ DistinctWhens(RulesOf(c))
      /\ c = None => Len(RulesOf(c)) = 0
      /\ c # None => RulesOf(c) = c.rules
  <2>1. CASE c = None
    BY <2>1 DEF RulesOf, DistinctWhens, CountsValid
  <2>2. CASE c # None
    BY <2>2 DEF RulesOf, ClusterSide, ClusterKubeArchiveConfigResource
  <2> QED
    BY <2>1, <2>2
<1>2. /\ KeepOf(e) \in Seq(KeepLastRule) /\ CountsValid(KeepOf(e))
      /\ DistinctWhens(KeepOf(e))
      /\ OverrideOf(e) \in Seq(KeepLastRule) /\ CountsValid(OverrideOf(e))
      /\ e = None => Len(KeepOf(e)) = 0
      /\ e # None => KeepOf(e) = e.keep /\ OverrideOf(e) = e.override
  <2>1. CASE e = None
    BY <2>1 DEF KeepOf, OverrideOf, DistinctWhens, CountsValid
  <2>2. CASE e # None
    BY <2>2 DEF KeepOf, OverrideOf, LocalSide, KeepsValid,
                KubeArchiveConfigResource
  <2> QED
    BY <2>1, <2>2
<1> QED
  BY <1>1, <1>2

(* What a rule of the configurations has                                   *)
LEMMA RuleAt ==
    ASSUME NEW s \in Seq(KeepLastRule), CountsValid(s), NEW i \in 1..Len(s)
    PROVE  s[i].when \in Text /\ s[i].count \in Nat /\ s[i] \in Range(s)
<1>1. s[i] \in KeepLastRule
  OBVIOUS
<1>2. s[i].when \in Text /\ s[i].count \in Int
  BY <1>1 DEF KeepLastRule
<1>3. s[i].count >= 0
  BY DEF CountsValid
<1>4. s[i] \in Range(s)
  BY DEF Range
<1> QED
  BY <1>2, <1>3, <1>4

(* Where the unified rules are                                             *)
LEMMA UnifyDomain ==
    ASSUME NEW c, NEW e, ClusterSide(c), LocalSide(e)
    PROVE  /\ Len(RulesOf(c)) \in Nat
           /\ DOMAIN UnifyRules(c, e) =
                (1..Len(RulesOf(c))) \cup
                {Len(RulesOf(c)) + j : j \in Joining(c, e)}
<1>1. Len(RulesOf(c)) \in Nat
  BY Sides
<1> QED
  BY <1>1 DEF UnifyRules

(* The rules of the cluster, their counts lowered by the overrides         *)
LEMMA UnifyCluster ==
    ASSUME NEW c, NEW e, ClusterSide(c), LocalSide(e),
           NEW i \in 1..Len(RulesOf(c))
    PROVE  LET u == UnifyRules(c, e)[i]
               r == RulesOf(c)[i]
           IN  /\ u.text = Trimmed[r.when]
               /\ u.count \in Nat /\ u.count <= r.count
               /\ \A o \in Range(OverrideOf(e)) :
                     o.name = r.name => u.count <= o.count
<1> DEFINE n == Len(RulesOf(c))
           u == UnifyRules(c, e)[i]
           r == RulesOf(c)[i]
<1>1. n \in Nat /\ c # None /\ r = c.rules[i] /\ i <= n
  BY Sides
<1>2. u = [Compiled(c.rules[i]) EXCEPT
              !.count = Lowered(@, OverrideOf(e), c.rules[i].name)]
  BY <1>1 DEF UnifyRules
<1>3. u.text = Trimmed[r.when] /\ u.count = Lowered(r.count, OverrideOf(e), r.name)
  <2> HIDE DEF u, r
  <2> QED
    BY <1>1, <1>2 DEF Compiled
<1>4. r.count \in Nat
  BY Sides, RuleAt
<1>5. OverrideOf(e) \in Seq(KeepLastRule) /\ CountsValid(OverrideOf(e))
  BY Sides
<1> HIDE DEF u, r, n
<1>6. /\ Lowered(r.count, OverrideOf(e), r.name) \in Nat
      /\ Lowered(r.count, OverrideOf(e), r.name) <= r.count
      /\ \A o \in Range(OverrideOf(e)) : o.name = r.name =>
            Lowered(r.count, OverrideOf(e), r.name) <= o.count
  BY <1>4, <1>5, LoweredIs
<1>7. /\ u.text = Trimmed[r.when]
      /\ u.count \in Nat /\ u.count <= r.count
      /\ \A o \in Range(OverrideOf(e)) : o.name = r.name => u.count <= o.count
  BY <1>3, <1>6
<1> QED
  BY <1>7 DEF u, r

(* The keep rules that join, as they are                                   *)
LEMMA UnifyKeep ==
    ASSUME NEW c, NEW e, ClusterSide(c), LocalSide(e), NEW j \in Joining(c, e)
    PROVE  /\ j \in 1..Len(KeepOf(e))
           /\ \A i \in 1..Len(RulesOf(c)) :
                 Trimmed[RulesOf(c)[i].when] # Trimmed[KeepOf(e)[j].when]
           /\ UnifyRules(c, e)[Len(RulesOf(c)) + j].text =
                 Trimmed[KeepOf(e)[j].when]
           /\ UnifyRules(c, e)[Len(RulesOf(c)) + j].count = KeepOf(e)[j].count
<1> DEFINE n == Len(RulesOf(c))
           u == UnifyRules(c, e)[n + j]
<1>1. j \in 1..Len(KeepOf(e))
  BY DEF Joining
<1>2. n \in Nat /\ KeepOf(e) = e.keep /\ j \in Nat /\ j > 0
  BY <1>1, Sides
<1>3. ~(n + j <= n) /\ (n + j) - n = j /\ n + j \notin 1..n
  BY <1>2
<1>4. u = Compiled(e.keep[(n + j) - n])
  <2> HIDE DEF n
  <2>1. UnifyRules(c, e) =
          [i \in (1..n) \cup {n + l : l \in Joining(c, e)} |->
             IF i <= n
             THEN [Compiled(c.rules[i]) EXCEPT
                      !.count = Lowered(@, OverrideOf(e), c.rules[i].name)]
             ELSE Compiled(e.keep[i - n])]
    BY DEF UnifyRules, n
  <2> QED
    BY <1>3, <2>1
<1>5. u.text = Trimmed[e.keep[j].when] /\ u.count = e.keep[j].count
  <2> HIDE DEF n, u
  <2> QED
    BY <1>3, <1>4 DEF Compiled
<1>6. ASSUME NEW i \in 1..Len(RulesOf(c))
      PROVE  Trimmed[RulesOf(c)[i].when] # Trimmed[KeepOf(e)[j].when]
  <2>1. RulesOf(c) = c.rules
    BY <1>2, Sides
  <2>2. Trimmed[c.rules[i].when] # Trimmed[e.keep[j].when]
    BY DEF Joining
  <2> QED
    BY <1>2, <2>1, <2>2
<1> QED
  BY <1>1, <1>2, <1>5, <1>6

(* Rules written with the same WhenText have the same normal form          *)
LEMMA TextsDistinct ==
    ASSUME NEW s \in Seq(KeepLastRule), CountsValid(s), DistinctWhens(s),
           NEW i \in 1..Len(s), NEW j \in 1..Len(s),
           Trimmed[s[i].when] = Trimmed[s[j].when]
    PROVE  i = j
<1>1. s[i].when \in Text /\ s[j].when \in Text
  BY RuleAt
<1>2. Normal[s[i].when] = Normal[s[j].when]
  BY <1>1, RulesAssumption
<1> QED
  BY <1>2 DEF DistinctWhens

(* The unified rules: the cluster's stay, none is anyone else's, and no    *)
(* two have the same text                                                  *)
LEMMA UnifyBinds ==
    ASSUME NEW c, NEW e, ClusterSide(c), LocalSide(e)
    PROVE  LET U == UnifyRules(c, e)
           IN  /\ \A r \in Range(U) : r.text \in Text /\ r.count \in Nat
               /\ \A r \in Range(RulesOf(c)) : \E u \in Range(U) :
                     u.text = Trimmed[r.when] /\ u.count <= r.count
               /\ \A u \in Range(U) :
                     \E r \in Range(RulesOf(c)) \cup Range(KeepOf(e)) :
                        Trimmed[r.when] = u.text
               /\ \A i, j \in DOMAIN U : U[i].text = U[j].text => i = j
<1> DEFINE n == Len(RulesOf(c))
           U == UnifyRules(c, e)
           J == Joining(c, e)
           R == RulesOf(c)
           K == KeepOf(e)
<1>1. /\ R \in Seq(KeepLastRule) /\ CountsValid(R) /\ DistinctWhens(R)
      /\ K \in Seq(KeepLastRule) /\ CountsValid(K) /\ DistinctWhens(K)
  BY Sides
<1>2. /\ n \in Nat /\ n = Len(R)
      /\ DOMAIN U = (1..n) \cup {n + j : j \in J}
      /\ \A i \in 1..n : /\ U[i].text = Trimmed[R[i].when]
                         /\ U[i].count \in Nat /\ U[i].count <= R[i].count
      /\ \A j \in J : /\ U[n + j].text = Trimmed[K[j].when]
                      /\ U[n + j].count = K[j].count
  <2>1. /\ n \in Nat /\ n = Len(R)
        /\ DOMAIN U = (1..n) \cup {n + j : j \in J}
    BY UnifyDomain
  <2>2. ASSUME NEW i \in 1..n
        PROVE  /\ U[i].text = Trimmed[R[i].when]
               /\ U[i].count \in Nat /\ U[i].count <= R[i].count
    BY UnifyCluster
  <2>3. ASSUME NEW j \in J
        PROVE  /\ U[n + j].text = Trimmed[K[j].when]
               /\ U[n + j].count = K[j].count
    BY UnifyKeep
  <2> HIDE DEF n, U, J, R, K
  <2> QED
    BY <2>1, <2>2, <2>3
<1>3. ASSUME NEW j \in J
      PROVE  /\ j \in 1..Len(K)
             /\ \A i \in 1..n : Trimmed[R[i].when] # Trimmed[K[j].when]
  BY UnifyKeep
<1>4. \A i \in 1..n : R[i].when \in Text /\ R[i].count \in Nat /\ R[i] \in Range(R)
  BY <1>1, <1>2, RuleAt
<1>5. \A j \in J : K[j].when \in Text /\ K[j].count \in Nat /\ K[j] \in Range(K)
  BY <1>1, <1>3, RuleAt
<1>6. Trimmed \in [Text -> Text]
  BY RulesAssumption
<1>7. \A i, j \in 1..n : Trimmed[R[i].when] = Trimmed[R[j].when] => i = j
  BY <1>1, <1>2, TextsDistinct
<1>8. \A i, j \in J : Trimmed[K[i].when] = Trimmed[K[j].when] => i = j
  BY <1>1, <1>3, TextsDistinct
<1> HIDE DEF n, U, J, R, K
<1>9. \A i \in DOMAIN U : i \in 1..n \/ \E j \in J : i = n + j
  BY <1>2
<1>10. ASSUME NEW r \in Range(U) PROVE r.text \in Text /\ r.count \in Nat
  <2>1. PICK i \in DOMAIN U : r = U[i]
    BY DEF Range
  <2>2. CASE i \in 1..n
    BY <1>2, <1>4, <1>6, <2>1, <2>2
  <2>3. ASSUME NEW j \in J, i = n + j PROVE r.text \in Text /\ r.count \in Nat
    BY <1>2, <1>5, <1>6, <2>1, <2>3
  <2> QED
    BY <1>9, <2>1, <2>2, <2>3
<1>11. ASSUME NEW r \in Range(R)
       PROVE  \E u \in Range(U) : u.text = Trimmed[r.when] /\ u.count <= r.count
  <2>1. PICK i \in 1..n : r = R[i]
    BY <1>1, <1>2 DEF Range
  <2>2. U[i] \in Range(U)
    BY <1>2 DEF Range
  <2> QED
    BY <1>2, <2>1, <2>2
<1>12. ASSUME NEW u \in Range(U)
       PROVE  \E r \in Range(R) \cup Range(K) : Trimmed[r.when] = u.text
  <2>1. PICK i \in DOMAIN U : u = U[i]
    BY DEF Range
  <2>2. CASE i \in 1..n
    BY <1>2, <1>4, <2>1, <2>2
  <2>3. ASSUME NEW j \in J, i = n + j
        PROVE  \E r \in Range(R) \cup Range(K) : Trimmed[r.when] = u.text
    BY <1>2, <1>5, <2>1, <2>3
  <2> QED
    BY <1>9, <2>1, <2>2, <2>3
<1>13. ASSUME NEW i \in DOMAIN U, NEW j \in DOMAIN U, U[i].text = U[j].text
       PROVE  i = j
  <2>1. CASE i \in 1..n /\ j \in 1..n
    BY <1>2, <1>7, <1>13, <2>1
  <2>2. ASSUME i \in 1..n, NEW l \in J, j = n + l PROVE FALSE
    BY <1>2, <1>3, <1>13, <2>2
  <2>3. ASSUME j \in 1..n, NEW l \in J, i = n + l PROVE FALSE
    BY <1>2, <1>3, <1>13, <2>3
  <2>4. ASSUME NEW k \in J, i = n + k, NEW l \in J, j = n + l PROVE i = j
    BY <1>2, <1>8, <1>13, <2>4
  <2> QED
    BY <1>9, <2>1, <2>2, <2>3, <2>4
<1> QED
  BY <1>10, <1>11, <1>12, <1>13 DEF U, R, K

(* What the SinkFilter has for the cluster is a list                       *)
LEMMA ClusterLists ==
    ASSUME NEW list \in Ckacs \cup {<<>>}
    PROVE  list \in Seq(ClusterKubeArchiveConfigResource)
<1> DEFINE R == ClusterKubeArchiveConfigResource
<1>1. Ckacs \subseteq Seq(R)
  BY RulesAssumption
<1> HIDE DEF R
<1>2. <<>> \in Seq(R)
  OBVIOUS
<1>3. list \in Seq(R)
  BY <1>1, <1>2
<1> QED
  BY <1>3 DEF R

(* The entries of a SinkFilter that was admitted can be unified            *)
LEMMA FilterSides ==
    ASSUME NEW f, FilterValid(f), NEW n \in Ns, NEW k
    PROVE  ClusterSide(ClusterCel(f, k)) /\ LocalSide(NamespaceCel(f, n, k))
<1>1. f.cluster \in Seq(ClusterKubeArchiveConfigResource)
  <2>1. f.cluster \in Ckacs \cup {<<>>}
    BY DEF FilterValid, SinkFilters
  <2> QED
    BY <2>1, ClusterLists
<1>2. ASSUME ClusterCel(f, k) # None
      PROVE  ClusterSide(ClusterCel(f, k))
  <2>1. /\ ClusterCel(f, k) \in Range(f.cluster)
        /\ ClusterCel(f, k) \in ClusterKubeArchiveConfigResource
    BY <1>1, <1>2, LastEntryIs DEF ClusterCel
  <2> QED
    BY <2>1 DEF ClusterSide, FilterValid, CkacValid
<1>3. ASSUME NamespaceCel(f, n, k) # None
      PROVE  LocalSide(NamespaceCel(f, n, k))
  <2>1. f.ns[n] # None
    BY <1>3 DEF NamespaceCel, LastEntry
  <2>2. f.ns[n] \in Seq(KubeArchiveConfigResource)
    <3>1. f.ns[n] \in Kacs \cup {None}
      BY DEF FilterValid, SinkFilters
    <3> QED
      BY <2>1, <3>1, RulesAssumption
  <2>3. /\ NamespaceCel(f, n, k) \in Range(f.ns[n])
        /\ NamespaceCel(f, n, k) \in KubeArchiveConfigResource
    BY <1>3, <2>2, LastEntryIs DEF NamespaceCel
  <2> QED
    BY <2>1, <2>3 DEF LocalSide, FilterValid
<1> QED
  BY <1>2, <1>3 DEF ClusterSide, LocalSide

(* A visit applies the rules it should                                     *)
LEMMA VisitIsBound ==
    ASSUME FilterValid(read), NEW n \in Ns, NEW k \in Kind
    PROVE  VisitBound(VisitOf(n, k), read)
<1> DEFINE c == ClusterCel(read, k)
           e == NamespaceCel(read, n, k)
           U == UnifyRules(c, e)
           v == VisitOf(n, k)
<1>1. ClusterSide(c) /\ LocalSide(e)
  BY FilterSides
<1>2. v.ns = n /\ v.kind = k /\ v.rules = U
  BY DEF VisitOf
<1>3. /\ \A r \in Range(U) : r.text \in Text /\ r.count \in Nat
      /\ \A r \in Range(RulesOf(c)) : \E u \in Range(U) :
            u.text = Trimmed[r.when] /\ u.count <= r.count
      /\ \A u \in Range(U) : \E r \in Range(RulesOf(c)) \cup Range(KeepOf(e)) :
            Trimmed[r.when] = u.text
      /\ \A i, j \in DOMAIN U : U[i].text = U[j].text => i = j
  <2> HIDE DEF c, e
  <2> QED
    BY <1>1, UnifyBinds
<1>4. /\ ClusterCel(read, v.kind) = c
      /\ NamespaceCel(read, v.ns, v.kind) = e
  BY <1>2
<1> HIDE DEF c, e, U, v
<1>5. VisitBound(v, read)
  BY <1>2, <1>3, <1>4, Zenon DEF VisitBound
<1> QED
  BY <1>5 DEF v

(* The kinds a vacuum sends are kinds                                      *)
LEMMA KindsAreKinds ==
    ASSUME FilterValid(read), mode \in Ns \cup {AllNs},
           NEW kinds \in SUBSET Kind
    PROVE  KindsToSend(kinds) \subseteq Kind
<1>1. \A list \in Ckacs \cup {<<>>} : KindsOf(list) \subseteq Kind
  <2>1. ASSUME NEW list \in Seq(ClusterKubeArchiveConfigResource),
               NEW e \in Range(list)
        PROVE  e.kind \in Kind
    <3>1. e \in ClusterKubeArchiveConfigResource
      BY DEF Range
    <3> QED
      BY <3>1 DEF ClusterKubeArchiveConfigResource
  <2>2. \A list \in Ckacs \cup {<<>>} : list \in Seq(ClusterKubeArchiveConfigResource)
    BY ClusterLists
  <2> QED
    BY <2>1, <2>2 DEF KindsOf
<1>2. \A list \in Kacs \cup {None} : KindsOf(list) \subseteq Kind
  <2>1. ASSUME NEW list \in Seq(KubeArchiveConfigResource),
               NEW e \in Range(list)
        PROVE  e.kind \in Kind
    <3>1. e \in KubeArchiveConfigResource
      BY DEF Range
    <3> QED
      BY <3>1 DEF KubeArchiveConfigResource
  <2>2. \A list \in Kacs : list \in Seq(KubeArchiveConfigResource)
    BY RulesAssumption
  <2> QED
    BY <2>1, <2>2 DEF KindsOf
<1>3. read.cluster \in Ckacs \cup {<<>>} /\ read.ns \in [Ns -> Kacs \cup {None}]
  BY DEF FilterValid, SinkFilters
<1>4. KindsOf(read.cluster) \subseteq Kind
  BY <1>1, <1>3
<1>5. \A n \in Ns : KindsOf(read.ns[n]) \subseteq Kind
  BY <1>2, <1>3
<1>6. \A n \in IF mode = AllNs THEN Ns ELSE {mode} : n \in Ns
  OBVIOUS
<1>7. KindsOfPublisher \subseteq Kind
  BY <1>4, <1>5, <1>6, Zenon DEF KindsOfPublisher
<1> QED
  BY <1>7 DEF KindsToSend

(* Where a kind is listed once, the first entry is that one                *)
LEMMA FirstEntryIs ==
    ASSUME NEW R, NEW list \in Seq(R), NEW k, NEW i \in Entries(list, k),
           Cardinality(Entries(list, k)) <= 1
    PROVE  FirstEntry(list, k) = list[i]
<1> DEFINE S == Entries(list, k)
           First(l) == \A j \in S : l <= j
<1>1. S \in SUBSET (1..Len(list)) /\ Len(list) \in Nat
  BY DEF Entries
<1>2. IsFiniteSet(S)
  <2>1. IsFiniteSet(1..Len(list))
    BY <1>1, FS_Interval
  <2> HIDE DEF S
  <2> QED
    BY <1>1, <2>1, FS_Subset
<1> HIDE DEF S
<1>3. i \in S /\ Cardinality(S) <= 1
  BY DEF S
<1>4. ASSUME NEW j \in S PROVE j = i
  <2> SUFFICES ASSUME j # i PROVE FALSE
    OBVIOUS
  <2>1. IsFiniteSet({i}) /\ Cardinality({i}) = 1
    BY FS_Singleton
  <2> DEFINE T == {i} \cup {j}
  <2>2. j \notin {i}
    OBVIOUS
  <2>3. Cardinality(T) = Cardinality({i}) + 1
    BY <2>1, <2>2, FS_AddElement
  <2>4. T \in SUBSET S
    BY <1>3
  <2> HIDE DEF T
  <2>5. Cardinality(T) <= Cardinality(S)
    BY <1>2, <2>4, FS_Subset
  <2>6. Cardinality(S) \in Nat
    BY <1>2, FS_CardinalityType
  <2>7. Cardinality(T) = 2
    BY <2>1, <2>3
  <2> QED
    BY <1>3, <2>5, <2>6, <2>7
<1>5. FirstEntry(list, k) = list[CHOOSE l \in S : First(l)]
  BY DEF FirstEntry, S
<1>6. First(i)
  BY <1>1, <1>3, <1>4
<1>7. (CHOOSE l \in S : First(l)) \in S
  <2> HIDE DEF First
  <2> QED
    BY <1>3, <1>6
<1> QED
  BY <1>4, <1>5, <1>7

(* What was admitted takes effect as long as it is what it was checked     *)
(* against that the SinkFilter has                                         *)
LEMMA AdmittedApplies ==
    ASSUME Admitted
    PROVE  AdmittedTakesEffect
<1> SUFFICES
      ASSUME sf # None, NEW n \in Ns, NEW k \in Kind,
             NamespaceCel(sf, n, k) # None, sf.ns[n] = kac[n],
             sf.cluster = IF against[n] = None THEN <<>> ELSE against[n],
             Cardinality(Entries(sf.cluster, k)) <= 1
      PROVE  LET c == ClusterCel(sf, k)
                 e == NamespaceCel(sf, n, k)
                 rules == UnifyRules(c, e)
             IN  /\ \A q \in Range(e.keep) : \E u \in Range(rules) :
                        u.text = Trimmed[q.when] /\ u.count = q.count
                 /\ \A o \in Range(e.override) : \E i \in 1..Len(RulesOf(c)) :
                        c.rules[i].name = o.name /\ rules[i].count <= o.count
  BY DEF AdmittedTakesEffect
<1> DEFINE a == against[n]
           list == sf.ns[n]
           c == ClusterCel(sf, k)
           e == NamespaceCel(sf, n, k)
           rules == UnifyRules(c, e)
           m == Len(RulesOf(c))
<1>1. FilterValid(sf)
  BY DEF Admitted
<1>2. ClusterSide(c) /\ LocalSide(e)
  BY <1>1, FilterSides
<1>3. list # None /\ KacValid(n, list, a)
  BY DEF NamespaceCel, LastEntry, Admitted
<1>4. e \in Range(list) /\ e.kind = k
  <2>1. list \in Kacs
    BY <1>1, <1>3 DEF FilterValid, SinkFilters
  <2>2. list \in Seq(KubeArchiveConfigResource)
    BY <2>1, RulesAssumption
  <2> QED
    BY <2>2, LastEntryIs DEF NamespaceCel
<1>5. UnlikeCluster(e, a) /\ OverridesValid(e, a)
  BY <1>3, <1>4 DEF KacValid
<1>6. sf.cluster \in Seq(ClusterKubeArchiveConfigResource)
  BY <1>1, ClusterLists DEF FilterValid, SinkFilters
<1>7. ASSUME Entries(sf.cluster, k) # {}
      PROVE  c # None /\ a # None /\ FirstEntry(a, k) = c /\ Entries(a, k) # {}
  <2>1. sf.cluster = a /\ a # None
    BY <1>7 DEF Entries
  <2>2. PICK i \in Entries(sf.cluster, k) : c = sf.cluster[i]
    BY <1>6, <1>7, <2>1, LastEntryIs DEF ClusterCel
  <2>3. FirstEntry(sf.cluster, k) = c
    BY <1>6, <2>2, FirstEntryIs
  <2>4. c \in ClusterKubeArchiveConfigResource
    BY <1>6, <2>2 DEF Entries
  <2>5. c # None
    BY <2>4, RulesAssumption
  <2> QED
    BY <1>7, <2>1, <2>3, <2>5
<1>8. ASSUME c # None PROVE Entries(sf.cluster, k) # {}
  BY <1>8 DEF ClusterCel, LastEntry
<1>9. /\ RulesOf(c) \in Seq(KeepLastRule) /\ CountsValid(RulesOf(c))
      /\ KeepOf(e) \in Seq(KeepLastRule) /\ CountsValid(KeepOf(e))
      /\ DistinctWhens(KeepOf(e))
      /\ KeepOf(e) = e.keep /\ OverrideOf(e) = e.override
      /\ OverrideOf(e) \in Seq(KeepLastRule)
      /\ c = None => m = 0
      /\ c # None => RulesOf(c) = c.rules
  BY <1>2, Sides
<1> HIDE DEF a, list, c, e, m
<1>10. ASSUME NEW j \in 1..Len(e.keep) PROVE j \in Joining(c, e)
  <2>0. j \in 1..Len(KeepOf(e)) /\ e.keep[j] \in Range(e.keep)
        /\ e.keep[j].when \in Text
    BY <1>9, RuleAt
  <2>1. ASSUME NEW i \in 1..m
        PROVE  Trimmed[c.rules[i].when] # Trimmed[e.keep[j].when]
    <3>1. c # None /\ RulesOf(c) = c.rules
      BY <1>9
    <3>2. a # None /\ Entries(a, e.kind) # {} /\ FirstEntry(a, e.kind) = c
      BY <1>4, <1>7, <1>8, <3>1
    <3>3. c.rules[i] \in Range(c.rules) /\ c.rules[i].when \in Text
      BY <1>9, <3>1, RuleAt DEF m
    <3>4. Normal[c.rules[i].when] # Normal[e.keep[j].when]
      BY <1>5, <2>0, <3>2, <3>3 DEF UnlikeCluster
    <3> QED
      BY <2>0, <3>3, <3>4, RulesAssumption
  <2>2. ASSUME NEW i \in 1..(j - 1)
        PROVE  Trimmed[e.keep[i].when] # Trimmed[e.keep[j].when]
    <3>1. i \in 1..Len(e.keep) /\ i # j
      BY <1>9
    <3> QED
      BY <1>9, <3>1, TextsDistinct
  <2> QED
    BY <1>9, <2>0, <2>1, <2>2 DEF Joining, m
<1>11. ASSUME NEW q \in Range(e.keep)
       PROVE  \E u \in Range(rules) : u.text = Trimmed[q.when] /\ u.count = q.count
  <2>1. PICK j \in 1..Len(e.keep) : q = e.keep[j]
    BY <1>9 DEF Range
  <2>2. j \in Joining(c, e)
    BY <1>10
  <2>3. rules[m + j].text = Trimmed[q.when] /\ rules[m + j].count = q.count
    BY <1>2, <1>9, <2>1, <2>2, UnifyKeep DEF m
  <2>4. m + j \in DOMAIN rules
    <3>1. m + j \in {m + l : l \in Joining(c, e)}
      BY <2>2
    <3>2. DOMAIN rules = (1..m) \cup {m + l : l \in Joining(c, e)}
      BY <1>2, UnifyDomain DEF m
    <3> QED
      BY <3>1, <3>2
  <2> QED
    BY <2>3, <2>4 DEF Range
<1>12. ASSUME NEW o \in Range(e.override)
       PROVE  \E i \in 1..m : c.rules[i].name = o.name /\ rules[i].count <= o.count
  <2>1. e.override # <<>>
    BY <1>9 DEF Range
  <2>2. /\ Entries(a, e.kind) # {} /\ a # None
        /\ \E r \in Range(FirstEntry(a, e.kind).rules) : r.name = o.name
    BY <1>5, <2>1 DEF OverridesValid
  <2>3. Entries(sf.cluster, k) # {}
    BY <1>4, <2>2 DEF a
  <2>4. c # None /\ FirstEntry(a, e.kind) = c
    BY <1>4, <1>7, <2>3
  <2>5. PICK r \in Range(c.rules) : r.name = o.name
    BY <2>2, <2>4
  <2>6. PICK i \in 1..m : r = c.rules[i]
    BY <1>9, <2>4, <2>5 DEF Range, m
  <2>7. rules[i].count <= o.count
    BY <1>2, <1>9, <2>4, <2>5, <2>6, UnifyCluster DEF m
  <2> QED
    BY <2>5, <2>6, <2>7
<1> QED
  BY <1>11, <1>12 DEF c, e, m

-----------------------------------------------------------------------------
(* The invariant                                                           *)

(* It is what the runs check, for rules that are well-formed               *)
LEMMA RulesInvImplies ==
    ASSUME RulesInv
    PROVE  ClusterRulesBind /\ AdmittedTakesEffect /\ NothingIsLeftOut
<1>1. AdmittedTakesEffect
  BY AdmittedApplies DEF RulesInv
<1>2. \A v \in visits : VisitBound(v, read)
  BY DEF RulesInv, VisitsBound
<1>3. RulesTypeOK
  BY <1>2, Zenon DEF RulesInv, Types, RulesTypeOK, VisitBound
<1>4. ClusterRulesBind
  BY <1>2, <1>3, Zenon DEF ClusterRulesBind, VisitBound
<1>5. NothingIsLeftOut
  BY DEF RulesInv, Complete, Covered, NothingIsLeftOut
<1> QED
  BY <1>1, <1>4, <1>5

(* Nothing is configured at first                                          *)
LEMMA InitRulesInv == RulesInit => RulesInv
<1> SUFFICES ASSUME RulesInit PROVE RulesInv
  OBVIOUS
<1>1. Types
  BY RulesAssumption DEF RulesInit, Types
<1>2. Admitted
  BY Zenon DEF RulesInit, Admitted
<1>3. Reading
  BY DEF RulesInit, Reading
<1>4. VisitsBound
  BY DEF RulesInit, VisitsBound
<1>5. Complete
  BY DEF RulesInit, Complete
<1> QED
  BY <1>1, <1>2, <1>3, <1>4, <1>5 DEF RulesInv

(* Users and administrators do not touch the SinkFilter or the vacuum      *)
LEMMA VacuumStays ==
    ASSUME RulesInv, UNCHANGED <<sf, vacuum>>
    PROVE  Reading' /\ VisitsBound' /\ Complete'
<1>0. UNCHANGED <<sf, pc, mode, read, plan, always, visits>>
  BY DEF vacuum
<1>1. Reading'
  BY <1>0, Zenon DEF RulesInv, Reading, FilterValid, InFilter
<1>2. VisitsBound'
  BY <1>0, Zenon DEF RulesInv, VisitsBound, VisitBound, ClusterCel, NamespaceCel
<1>3. Complete'
  BY <1>0, Zenon DEF RulesInv, Complete
<1> QED
  BY <1>1, <1>2, <1>3

(* A CKAC that is admitted is valid in itself                              *)
LEMMA EditCkacRulesInv ==
    ASSUME RulesInv, NEW list \in Ckacs \cup {None}, EditCkac(list)
    PROVE  RulesInv'
<1>1. UNCHANGED <<sf, vacuum>>
  BY DEF EditCkac
<1>2. Types'
  <2>1. MaxEdits \in Nat
    BY RulesAssumption
  <2> QED
    BY <2>1 DEF RulesInv, Types, EditCkac, vacuum
<1>3. Admitted'
  BY Zenon DEF RulesInv, Admitted, EditCkac
<1> QED
  BY <1>1, <1>2, <1>3, VacuumStays DEF RulesInv

(* A KAC that is admitted keeps the CKAC it was checked against            *)
LEMMA EditKacRulesInv ==
    ASSUME RulesInv, NEW n \in Ns, NEW list \in Kacs \cup {None}, EditKac(n, list)
    PROVE  RulesInv'
<1>1. UNCHANGED <<sf, vacuum>>
  BY DEF EditKac
<1>2. Types'
  <2>1. MaxEdits \in Nat
    BY RulesAssumption
  <2> QED
    BY <2>1 DEF RulesInv, Types, EditKac, vacuum
<1>3. Admitted'
  <2>1. /\ kac \in [Ns -> Kacs \cup {None}] /\ against \in [Ns -> Ckacs \cup {None}]
        /\ Admitted
    BY DEF RulesInv, Types
  <2>2. /\ kac' = [kac EXCEPT ![n] = list]
        /\ against' = [against EXCEPT ![n] = seen]
        /\ list # None => KacValid(n, list, seen)
        /\ UNCHANGED <<ckac, seen, sf>>
    BY DEF EditKac
  <2>3. ASSUME NEW m \in Ns, against'[m] # None PROVE CkacValid(against'[m])
    <3>1. against'[m] = IF m = n THEN seen ELSE against[m]
      BY <2>1, <2>2
    <3> QED
      BY <2>1, <2>3, <3>1 DEF Admitted
  <2>4. ASSUME NEW m \in Ns, kac'[m] # None
        PROVE  KacValid(m, kac'[m], against'[m])
    <3>1. CASE m = n
      <4>1. kac'[m] = list /\ against'[m] = seen
        BY <2>1, <2>2, <3>1
      <4> QED
        BY <2>2, <2>4, <3>1, <4>1
    <3>2. CASE m # n
      <4>1. kac'[m] = kac[m] /\ against'[m] = against[m]
        BY <2>1, <2>2, <3>2
      <4> QED
        BY <2>1, <2>4, <4>1 DEF Admitted
    <3> QED
      BY <3>1, <3>2
  <2> QED
    BY <2>1, <2>2, <2>3, <2>4, Zenon DEF Admitted
<1> QED
  BY <1>1, <1>2, <1>3, VacuumStays DEF RulesInv

(* Vacuum configurations                                                   *)
LEMMA EditVacuumRulesInv ==
    ASSUME RulesInv,
           \/ \E n \in Ns, kinds \in SUBSET Kind : EditNvc(n, kinds)
           \/ \E c \in Cvcs : EditCvc(c)
    PROVE  RulesInv'
<1>1. UNCHANGED <<sf, vacuum>> /\ UNCHANGED <<ckac, kac, seen, against, edits>>
  BY DEF EditNvc, EditCvc
<1>2. Types'
  BY RulesAssumption DEF RulesInv, Types, EditNvc, EditCvc, vacuum
<1>3. Admitted'
  BY <1>1, Zenon DEF RulesInv, Admitted
<1> QED
  BY <1>1, <1>2, <1>3, VacuumStays DEF RulesInv

(* The informer's cache has a CKAC that was admitted                       *)
LEMMA SyncCkacRulesInv ==
    ASSUME RulesInv, SyncCkac
    PROVE  RulesInv'
<1>1. UNCHANGED <<sf, vacuum>>
  BY DEF SyncCkac
<1>2. Types'
  BY DEF RulesInv, Types, SyncCkac, vacuum
<1>3. Admitted'
  BY Zenon DEF RulesInv, Admitted, SyncCkac
<1> QED
  BY <1>1, <1>2, <1>3, VacuumStays DEF RulesInv

(* A write of the SinkFilter: what it has was admitted, and what it lost   *)
(* was not there all the time                                              *)
LEMMA FilterWrittenRulesInv ==
    ASSUME RulesInv, NEW f, FilterWritten(f), f # None, FilterValid(f)
    PROVE  RulesInv'
<1>1. /\ sf' = f /\ always' = {n \in always : f.ns[n] # None}
      /\ UNCHANGED <<ckac, kac, nvc, cvc, seen, against, edits, vacuums>>
      /\ UNCHANGED <<pc, mode, read, plan, visits>>
  BY DEF FilterWritten, configs
<1>2. Types'
  BY <1>1 DEF RulesInv, Types
<1>3. Admitted'
  BY <1>1, Zenon DEF RulesInv, Admitted
<1>4. Reading'
  <2>1. always \subseteq Ns
    BY DEF RulesInv, Types
  <2>2. always' \subseteq InFilter(sf')
    BY <1>1, <2>1 DEF InFilter
  <2> QED
    BY <1>1, <2>2 DEF RulesInv, Reading
<1>5. VisitsBound'
  BY <1>1, Zenon DEF RulesInv, VisitsBound
<1>6. Complete'
  <2>1. SUFFICES ASSUME pc' = "done", mode' = AllNs
                 PROVE  Covered(plan', always', read', visits')
    BY DEF Complete
  <2>2. Covered(plan, always, read, visits)
    BY <1>1, <2>1 DEF RulesInv, Complete
  <2>3. always' \subseteq always
    BY <1>1
  <2>4. Covered(plan, always', read, visits)
    BY <2>2, <2>3, Zenon DEF Covered
  <2> QED
    BY <1>1, <2>4
<1> QED
  BY <1>2, <1>3, <1>4, <1>5, <1>6 DEF RulesInv

(* The SinkFilter that is written on                                       *)
LEMMA FilterBase ==
    ASSUME RulesInv
    PROVE  FilterValid(IF sf = None THEN NoFilter ELSE sf)
<1>1. FilterValid(NoFilter)
  <2>1. NoFilter \in SinkFilters
    BY DEF NoFilter, SinkFilters
  <2>2. CkacValid(NoFilter.cluster)
    BY DEF NoFilter, CkacValid, Range
  <2>3. \A n \in Ns : NoFilter.ns[n] = None
    BY DEF NoFilter
  <2> QED
    BY <2>1, <2>2, <2>3 DEF FilterValid
<1> QED
  BY <1>1 DEF RulesInv, Admitted

(* The CKAC is copied                                                      *)
LEMMA ClusterCopyRulesInv ==
    ASSUME RulesInv, UpdateSinkFilterCluster
    PROVE  RulesInv'
<1> DEFINE g == IF sf = None THEN NoFilter ELSE sf
           l == IF ckac = None THEN <<>> ELSE ckac
           f == [g EXCEPT !.cluster = l]
<1>1. FilterValid(g)
  BY FilterBase
<1>2. FilterWritten(f)
  BY DEF UpdateSinkFilterCluster
<1>3. l \in Ckacs \cup {<<>>} /\ CkacValid(l)
  <2>1. CASE ckac = None
    BY <2>1 DEF CkacValid, Range
  <2>2. CASE ckac # None
    BY <2>2 DEF RulesInv, Types, Admitted
  <2> QED
    BY <2>1, <2>2
<1> HIDE DEF g, l
<1>4. f \in SinkFilters /\ f.cluster = l /\ f.ns = g.ns
  BY <1>1, <1>3 DEF FilterValid, SinkFilters
<1> HIDE DEF f
<1>5. FilterValid(f)
  BY <1>1, <1>3, <1>4 DEF FilterValid
<1>6. f # None
  <2>1. None \notin SinkFilters
    BY RulesAssumption
  <2> QED
    BY <1>4, <2>1
<1> QED
  BY <1>2, <1>5, <1>6, FilterWrittenRulesInv

(* The KAC of a namespace is copied, or its absence                        *)
LEMMA NamespaceCopyRulesInv ==
    ASSUME RulesInv, NEW n \in Ns, UpdateSinkFilterNamespace(n)
    PROVE  RulesInv'
<1> DEFINE g == IF sf = None THEN NoFilter ELSE sf
           f == [g EXCEPT !.ns[n] = kac[n]]
<1>1. FilterValid(g)
  BY FilterBase
<1>2. FilterWritten(f)
  BY DEF UpdateSinkFilterNamespace
<1>3. kac[n] \in Kacs \cup {None}
  BY DEF RulesInv, Types
<1> HIDE DEF g
<1>4. /\ f \in SinkFilters /\ f.cluster = g.cluster
      /\ \A m \in Ns : f.ns[m] = IF m = n THEN kac[n] ELSE g.ns[m]
  BY <1>1, <1>3 DEF FilterValid, SinkFilters
<1> HIDE DEF f
<1>5. ASSUME kac[n] # None, NEW e \in Range(kac[n]) PROVE KeepsValid(e)
  <2> DEFINE a == against[n]
  <2>1. KacValid(n, kac[n], a) /\ (a # None => CkacValid(a))
    BY <1>5 DEF RulesInv, Admitted
  <2>2. DistinctWhens(e.keep) /\ CountsValid(e.keep) /\ OverridesValid(e, a)
    BY <1>5, <2>1 DEF KacValid
  <2>3. e.override \in Seq(KeepLastRule)
    <3>1. Kacs \subseteq Seq(KubeArchiveConfigResource)
      BY RulesAssumption
    <3>2. kac[n] \in Seq(KubeArchiveConfigResource)
      BY <1>3, <1>5, <3>1
    <3>3. e \in KubeArchiveConfigResource
      BY <1>5, <3>2 DEF Range
    <3> QED
      BY <3>3 DEF KubeArchiveConfigResource
  <2>4. CountsValid(e.override)
    <3> SUFFICES ASSUME NEW i \in 1..Len(e.override)
                 PROVE  e.override[i].count >= 0
      BY DEF CountsValid
    <3>1. e.override[i] \in Range(e.override) /\ e.override # <<>>
      BY <2>3 DEF Range
    <3> QED
      BY <2>2, <3>1 DEF OverridesValid
  <2> QED
    BY <2>2, <2>4 DEF KeepsValid
<1>6. FilterValid(f)
  <2>1. ASSUME NEW m \in Ns, f.ns[m] # None, NEW e \in Range(f.ns[m])
        PROVE  KeepsValid(e)
    <3>1. CASE m = n
      BY <1>4, <1>5, <2>1, <3>1
    <3>2. CASE m # n
      BY <1>1, <1>4, <2>1, <3>2 DEF FilterValid
    <3> QED
      BY <3>1, <3>2
  <2> QED
    BY <1>1, <1>4, <2>1, Zenon DEF FilterValid
<1>7. f # None
  <2>1. None \notin SinkFilters
    BY RulesAssumption
  <2> QED
    BY <1>4, <2>1
<1> QED
  BY <1>2, <1>6, <1>7, FilterWrittenRulesInv

(* The vacuum's steps leave the configurations and the SinkFilter alone    *)
LEMMA ConfigsStay ==
    ASSUME RulesInv, UNCHANGED <<configs, sf>>
    PROVE  /\ Admitted'
           /\ pc' \in {"idle", "config", "publish", "done", "failed", "panicked"}
              /\ always' \subseteq Ns => Types'
<1>1. UNCHANGED <<ckac, kac, nvc, cvc, seen, against, edits, vacuums, sf>>
  BY DEF configs
<1>2. Admitted'
  BY <1>1, Zenon DEF RulesInv, Admitted
<1>3. pc' \in {"idle", "config", "publish", "done", "failed", "panicked"}
      /\ always' \subseteq Ns => Types'
  BY <1>1 DEF RulesInv, Types
<1> QED
  BY <1>2, <1>3

(* The SinkFilter is read                                                  *)
LEMMA StartRulesInv ==
    ASSUME RulesInv, NEW m \in Ns \cup {AllNs}, Start(m)
    PROVE  RulesInv'
<1>1. /\ pc = "idle" /\ mode' = m /\ UNCHANGED <<configs, sf, plan, visits>>
      /\ \/ sf = None /\ pc' = "panicked" /\ UNCHANGED <<read, always>>
         \/ sf # None /\ pc' = "config" /\ read' = sf /\ always' = InFilter(sf)
  BY Zenon DEF Start
<1>2. Admitted' /\ Types'
  <2>1. always' \subseteq Ns
    BY <1>1 DEF RulesInv, Types, InFilter
  <2>2. pc' \in {"idle", "config", "publish", "done", "failed", "panicked"}
    BY <1>1
  <2> QED
    BY <1>1, <2>1, <2>2, ConfigsStay
<1>3. visits' = {}
  BY <1>1 DEF RulesInv, Reading
<1>4. Reading'
  <2>1. CASE pc' = "panicked"
    BY <1>1, <1>3, <2>1 DEF Reading
  <2>2. CASE pc' = "config"
    <3>1. sf' = sf /\ sf # None /\ read' = sf /\ always' = InFilter(sf)
      BY <1>1, <2>2
    <3>2. FilterValid(sf)
      BY <3>1 DEF RulesInv, Admitted
    <3> QED
      BY <1>1, <1>3, <2>2, <3>1, <3>2 DEF Reading
  <2> QED
    BY <1>1, <2>1, <2>2
<1>5. VisitsBound'
  BY <1>3 DEF VisitsBound
<1>6. Complete'
  BY <1>1 DEF Complete
<1> QED
  BY <1>2, <1>4, <1>5, <1>6 DEF RulesInv

(* The vacuum configuration is read                                        *)
LEMMA ReadConfigRulesInv ==
    ASSUME RulesInv, ReadConfig
    PROVE  RulesInv'
<1>1. /\ pc = "config" /\ UNCHANGED <<configs, sf, mode, read, always, visits>>
      /\ plan' = IF mode = AllNs THEN cvc ELSE nvc[mode]
      /\ pc' = IF plan' = None THEN "failed" ELSE "publish"
  BY DEF ReadConfig
<1>2. Admitted' /\ Types'
  <2>1. always' \subseteq Ns
    BY <1>1 DEF RulesInv, Types
  <2>2. pc' \in {"idle", "config", "publish", "done", "failed", "panicked"}
    BY <1>1
  <2> QED
    BY <1>1, <2>1, <2>2, ConfigsStay
<1>3. visits' = {}
  BY <1>1 DEF RulesInv, Reading
<1>4. Reading'
  <2>0. mode \in Ns \cup {AllNs} /\ sf # None /\ FilterValid(read)
        /\ always \subseteq InFilter(sf)
    BY <1>1 DEF RulesInv, Reading
  <2>1. pc' = "publish" =>
           plan' \in IF mode' = AllNs THEN Cvcs ELSE SUBSET Kind
    BY <1>1, <2>0 DEF RulesInv, Types
  <2>2. pc' # "done"
    BY <1>1
  <2> QED
    BY <1>1, <1>3, <2>0, <2>1, <2>2, Zenon DEF Reading
<1>5. VisitsBound'
  BY <1>3 DEF VisitsBound
<1>6. Complete'
  BY <1>1 DEF Complete
<1> QED
  BY <1>2, <1>4, <1>5, <1>6 DEF RulesInv

(* The vacuum ends                                                         *)
LEMMA PublishRulesInv ==
    ASSUME RulesInv, pc = "publish", pc' = "done",
           UNCHANGED <<configs, sf, mode, read, plan, always>>,
           \A v \in visits' : \E n \in Ns : \E k \in Kind : v = VisitOf(n, k),
           mode = AllNs => Covered(plan, always, read, visits')
    PROVE  RulesInv'
<1>2. Admitted' /\ Types'
  <2>1. always' \subseteq Ns
    BY DEF RulesInv, Types
  <2>2. pc' \in {"idle", "config", "publish", "done", "failed", "panicked"}
    OBVIOUS
  <2> QED
    BY <2>1, <2>2, ConfigsStay
<1>3. /\ mode \in Ns \cup {AllNs} /\ sf # None /\ FilterValid(read)
      /\ plan \in IF mode = AllNs THEN Cvcs ELSE SUBSET Kind
  BY DEF RulesInv, Reading
<1>4. Reading'
  BY <1>3, Zenon DEF Reading
<1>5. VisitsBound'
  <2>1. \A v \in visits' : VisitBound(v, read)
    BY <1>3, VisitIsBound
  <2> QED
    BY <2>1, Zenon DEF VisitsBound
<1>6. Complete'
  BY Zenon DEF Complete
<1> QED
  BY <1>2, <1>4, <1>5, <1>6 DEF RulesInv

(* A namespace vacuum visits its namespace                                 *)
LEMMA PublishNamespaceRulesInv ==
    ASSUME RulesInv, PublishNamespace
    PROVE  RulesInv'
<1>1. /\ pc = "publish" /\ pc' = "done" /\ mode # AllNs
      /\ UNCHANGED <<configs, sf, mode, read, plan, always>>
      /\ visits' = {VisitOf(mode, k) : k \in KindsToSend(plan)}
  BY DEF PublishNamespace
<1>2. /\ mode \in Ns /\ FilterValid(read) /\ plan \in SUBSET Kind
  BY <1>1 DEF RulesInv, Reading
<1>3. KindsToSend(plan) \subseteq Kind
  BY <1>2, KindsAreKinds
<1>4. \A v \in visits' : \E n \in Ns : \E k \in Kind : v = VisitOf(n, k)
  BY <1>1, <1>2, <1>3, Zenon
<1> QED
  BY <1>1, <1>4, PublishRulesInv

(* A cluster vacuum visits every namespace it has to, for every kind       *)
LEMMA PublishClusterRulesInv ==
    ASSUME RulesInv, PublishCluster
    PROVE  RulesInv'
<1> DEFINE KindsFor(n) == IF n \in DOMAIN plan THEN plan[n]
                          ELSE IF AllNs \in DOMAIN plan THEN plan[AllNs] ELSE {}
           everywhere == DOMAIN plan = {} \/ AllNs \in DOMAIN plan
<1>1. /\ pc = "publish" /\ pc' = "done" /\ mode = AllNs
      /\ UNCHANGED <<configs, sf, mode, read, plan, always>>
      /\ visits' = UNION {{VisitOf(n, k) : k \in KindsToSend(KindsFor(n))} :
                             n \in Namespaces}
  BY DEF PublishCluster
<1>2. FilterValid(read) /\ plan \in Cvcs /\ always \subseteq InFilter(sf)
  BY <1>1 DEF RulesInv, Reading
<1>3. /\ DOMAIN plan \subseteq Ns \cup {AllNs}
      /\ \A n \in DOMAIN plan : plan[n] \subseteq Kind
  BY <1>2, RulesAssumption
<1>4. \A n : KindsFor(n) \in SUBSET Kind
  BY <1>3
<1>5. Namespaces \subseteq Ns
  BY <1>3 DEF Namespaces, InFilter
<1> HIDE DEF KindsFor
<1>6. ASSUME NEW n \in Namespaces PROVE KindsToSend(KindsFor(n)) \subseteq Kind
  BY <1>1, <1>2, <1>4, KindsAreKinds
<1>7. \A v \in visits' : \E n \in Ns : \E k \in Kind : v = VisitOf(n, k)
  BY <1>1, <1>5, <1>6, Zenon
<1>8. Covered(plan, always, read, visits')
  <2>1. SUFFICES
          ASSUME NEW n \in IF everywhere THEN always ELSE DOMAIN plan,
                 NEW k \in IF KindsFor(n) # {} THEN KindsFor(n)
                           ELSE (KindsOf(read.ns[n]) \cup KindsOf(read.cluster))
                                \ Hyphened
          PROVE  \E v \in visits' : v.ns = n /\ v.kind = k
    BY Zenon DEF Covered, KindsFor
  <2>2. n \in Namespaces
    <3>1. CASE everywhere
      BY <1>2, <2>1, <3>1 DEF Namespaces
    <3>2. CASE ~everywhere
      BY <1>3, <2>1, <3>2 DEF Namespaces
    <3> QED
      BY <3>1, <3>2
  <2>3. k \in KindsToSend(KindsFor(n))
    <3>1. n \in Ns
      BY <1>5, <2>2
    <3>2. KindsOf(read.ns[n]) \cup KindsOf(read.cluster) \subseteq
             KindsOf(read.cluster) \cup UNION {KindsOf(read.ns[m]) : m \in Ns}
      BY <3>1, Zenon
    <3>3. KindsOfPublisher = (KindsOf(read.cluster)
             \cup UNION {KindsOf(read.ns[m]) : m \in Ns}) \ Hyphened
      BY <1>1 DEF KindsOfPublisher
    <3> QED
      BY <2>1, <3>2, <3>3 DEF KindsToSend
  <2>4. VisitOf(n, k) \in visits'
    <3> DEFINE Of(m) == {VisitOf(m, l) : l \in KindsToSend(KindsFor(m))}
    <3>1. VisitOf(n, k) \in Of(n)
      BY <2>3
    <3>2. visits' = UNION {Of(m) : m \in Namespaces}
      BY <1>1
    <3> HIDE DEF Of
    <3> QED
      BY <2>2, <3>1, <3>2
  <2>5. VisitOf(n, k).ns = n /\ VisitOf(n, k).kind = k
    BY DEF VisitOf
  <2> QED
    BY <2>4, <2>5
<1> QED
  BY <1>1, <1>7, <1>8, PublishRulesInv

(* A failed call leaves what was done                                      *)
LEMMA CallFailsRulesInv ==
    ASSUME RulesInv, CallFails
    PROVE  RulesInv'
<1>1. /\ pc \in {"idle", "config", "publish"} /\ pc' = "failed"
      /\ UNCHANGED <<configs, sf, mode, read, plan, always, visits>>
  BY DEF CallFails
<1>2. Admitted' /\ Types'
  <2>1. always' \subseteq Ns
    BY <1>1 DEF RulesInv, Types
  <2>2. pc' \in {"idle", "config", "publish", "done", "failed", "panicked"}
    BY <1>1
  <2> QED
    BY <1>1, <2>1, <2>2, ConfigsStay
<1>3. visits' = {}
  BY <1>1 DEF RulesInv, Reading
<1>4. Reading' /\ VisitsBound' /\ Complete'
  BY <1>1, <1>3 DEF RulesInv, Reading, VisitsBound, Complete
<1> QED
  BY <1>2, <1>4 DEF RulesInv

(* The invariant is kept by every step                                     *)
LEMMA NextRulesInv == RulesInv /\ [RulesNext]_rulesVars => RulesInv'
<1> SUFFICES ASSUME RulesInv, [RulesNext]_rulesVars PROVE RulesInv'
  OBVIOUS
<1>1. ASSUME NEW list \in Ckacs \cup {None}, EditCkac(list) PROVE RulesInv'
  BY <1>1, EditCkacRulesInv
<1>2. ASSUME NEW n \in Ns, NEW list \in Kacs \cup {None}, EditKac(n, list)
      PROVE  RulesInv'
  BY <1>2, EditKacRulesInv
<1>3. CASE \/ \E n \in Ns, kinds \in SUBSET Kind : EditNvc(n, kinds)
           \/ \E c \in Cvcs : EditCvc(c)
  BY <1>3, EditVacuumRulesInv
<1>4. CASE SyncCkac
  BY <1>4, SyncCkacRulesInv
<1>5. CASE UpdateSinkFilterCluster
  BY <1>5, ClusterCopyRulesInv
<1>6. ASSUME NEW n \in Ns, UpdateSinkFilterNamespace(n) PROVE RulesInv'
  BY <1>6, NamespaceCopyRulesInv
<1>7. ASSUME NEW m \in Ns \cup {AllNs}, Start(m) PROVE RulesInv'
  BY <1>7, StartRulesInv
<1>8. CASE ReadConfig
  BY <1>8, ReadConfigRulesInv
<1>9. CASE PublishNamespace
  BY <1>9, PublishNamespaceRulesInv
<1>10. CASE PublishCluster
  BY <1>10, PublishClusterRulesInv
<1>11. CASE CallFails
  BY <1>11, CallFailsRulesInv
<1>12. CASE UNCHANGED rulesVars
  <2>1. UNCHANGED <<sf, vacuum>> /\ UNCHANGED <<configs, sf>>
        /\ UNCHANGED <<pc, always>>
    BY <1>12 DEF rulesVars, vacuum, configs
  <2>2. Types' /\ Admitted'
    <3>1. pc' \in {"idle", "config", "publish", "done", "failed", "panicked"}
          /\ always' \subseteq Ns
      BY <2>1 DEF RulesInv, Types
    <3> QED
      BY <2>1, <3>1, ConfigsStay
  <2> QED
    BY <2>1, <2>2, VacuumStays DEF RulesInv
<1> QED
  BY <1>1, <1>2, <1>3, <1>4, <1>5, <1>6, <1>7, <1>8, <1>9, <1>10, <1>11,
     <1>12, Zenon DEF RulesNext

-----------------------------------------------------------------------------
(* Every reachable state satisfies it                                      *)
LEMMA RulesInductive == RulesSpec => []RulesInv
<1>1. RulesInit => RulesInv
  BY InitRulesInv
<1>2. RulesInv /\ [RulesNext]_rulesVars => RulesInv'
  BY NextRulesInv
<1> QED
  BY <1>1, <1>2, PTL DEF RulesSpec

(* In whatever order the configurations were changed, admitted and copied, *)
(* a namespace neither drops a rule of the cluster nor keeps more under    *)
(* it, and no two rules of a visit have the same text (unifyRules)         *)
THEOREM ClusterRulesBindHolds == RulesSpec => []ClusterRulesBind
<1>1. RulesInv => ClusterRulesBind
  BY RulesInvImplies
<1> QED
  BY <1>1, RulesInductive, PTL

(* While the SinkFilter has a KAC and the CKAC it was admitted against,    *)
(* every keep rule is applied with its count, and every override lowers    *)
(* the count of its rule (the webhook of the KAC, and unifyRules)          *)
THEOREM AdmittedTakesEffectHolds == RulesSpec => []AdmittedTakesEffect
<1>1. RulesInv => AdmittedTakesEffect
  BY RulesInvImplies
<1> QED
  BY <1>1, RulesInductive, PTL

(* A cluster vacuum leaves out no namespace that was configured all the    *)
(* time and no kind it was to send (clusterVacuum)                         *)
THEOREM NothingIsLeftOutHolds == RulesSpec => []NothingIsLeftOut
<1>1. RulesInv => NothingIsLeftOut
  BY RulesInvImplies
<1> QED
  BY <1>1, RulesInductive, PTL

=============================================================================
