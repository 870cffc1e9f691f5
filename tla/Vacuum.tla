------------------------------- MODULE Vacuum -------------------------------
(***************************************************************************)
(* One pass of a vacuum over the objects of one kind in one namespace:     *)
(* VacuumCloudEventPublisher.sendByAPIVersionKind.  The objects are listed *)
(* once and visited in the order of the list.  Every keepLastWhen rule has *)
(* a keeper, an array of the Count objects that rank highest so far; an    *)
(* object is sent for deletion when no keeper holds it any more, which the *)
(* counters of the map "all" decide.                                       *)
(***************************************************************************)
EXTENDS Integers, FiniteSets

CONSTANTS
    Item,        \* the objects the list call returns, by UID
    NumRules,    \* number of unified keepLastWhen rules
    MaxCount,    \* bound: largest count of a rule
    MaxTime,     \* bound: creation timestamps range over 1..MaxTime
    MaxField,    \* bound: values of the sort field, 0 when it is missing
    Nil          \* the nil pointer of an empty array cell

Rule == 1..NumRules

ASSUME VacuumAssumption ==
    /\ IsFiniteSet(Item)
    /\ NumRules \in Nat /\ MaxCount \in Nat
    /\ MaxTime \in Nat /\ MaxField \in Nat
    /\ Nil \notin Item

VARIABLES
    (* The input of the pass, which nothing changes                        *)
    created,   \* creation timestamp of an object
    field,     \* value of the field the "field" rules sort by
    sortBy,    \* what a rule sorts by: "created" or "field"
    count,     \* count of a rule
    matches,   \* objects the rule's CEL expression holds for
    archive,   \* objects archiveWhen holds for, in either configuration
    (* The state of the pass                                               *)
    phase,     \* "start", "run" or "done"
    todo,      \* objects not yet visited
    cur,       \* the object being visited, or Nil
    idx,       \* the next keeper to visit it
    matched,   \* whether a keeper's rule matched it (match in the code)
    bucket,    \* bucket[k]: keeper k's array without its spare last cell
    all,       \* all[i]: keepers holding i, 0 when the map has no entry
    sent       \* history: the CloudEvents sent, as <<type, object>> pairs

input == <<created, field, sortBy, count, matches, archive>>
vars == <<created, field, sortBy, count, matches, archive,
          phase, todo, cur, idx, matched, bucket, all, sent>>

KeepLast(i) == <<"keep-last-when-delete", i>>
ArchiveWhen(i) == <<"archive-when", i>>

\* compareResources for two objects: does i rank before j under rule k?
Before(k, i, j) ==
    IF sortBy[k] = "created" \/ field[i] = 0 \/ field[j] = 0
    THEN created[i] > created[j]
    ELSE field[i] > field[j]

\* Fault: the oldest objects rank first.
StaysBefore_Reversed(k, e, i) == e # Nil /\ Before(k, i, e)

\* The comparison function given to BinarySearchFunc is negative: the cell
\* e stays in front of the new object i.  Empty cells are never in front.
StaysBefore(k, e, i) == e # Nil /\ Before(k, e, i)

\* The index BinarySearchFunc returns, counted from 0: the cell before it
\* stays in front and the cell at it does not.  Unless the comparison is not
\* transitive there is just one such index.
SearchResult(k, i, p) ==
    /\ p > 0 => StaysBefore(k, bucket[k][p], i)
    /\ p < count[k] => ~ StaysBefore(k, bucket[k][p + 1], i)

\* sortResources: i is put at index p, the cells from there on move up one.
\* The last one moves to the spare cell: it is dropped.
Inserted(k, i, p) ==
    [c \in 1..count[k] |-> IF c <= p THEN bucket[k][c]
                           ELSE IF c = p + 1 THEN i
                           ELSE bucket[k][c - 1]]

-----------------------------------------------------------------------------
\* The kind is unknown to the API server, or the list call fails.
ListFails ==
    /\ phase = "start"
    /\ phase' = "done"
    /\ UNCHANGED <<input, todo, cur, idx, matched, bucket, all, sent>>

\* List, and createKeepers: empty arrays for every rule.
List ==
    /\ phase = "start"
    /\ phase' = "run"
    /\ bucket' = [k \in Rule |-> [c \in 1..count[k] |-> Nil]]
    /\ UNCHANGED <<input, todo, cur, idx, matched, all, sent>>

\* The next object of the list.
Visit(i) ==
    /\ phase = "run"
    /\ cur = Nil
    /\ i \in todo
    /\ cur' = i
    /\ todo' = todo \ {i}
    /\ idx' = 1
    /\ matched' = FALSE
    /\ UNCHANGED <<input, phase, bucket, all, sent>>

\* The keeper's rule does not match the object.
PassKeeper ==
    /\ cur # Nil /\ idx \in Rule
    /\ cur \notin matches[idx]
    /\ idx' = idx + 1
    /\ UNCHANGED <<input, phase, todo, cur, matched, bucket, all, sent>>

\* It does, but the object ranks behind all Count objects of the keeper.
RankedOut ==
    /\ cur # Nil /\ idx \in Rule
    /\ cur \in matches[idx]
    /\ SearchResult(idx, cur, count[idx])
    /\ idx' = idx + 1
    /\ matched' = TRUE
    /\ UNCHANGED <<input, phase, todo, cur, bucket, all, sent>>

\* Fault: a dropped object is sent for deletion though other keepers hold it.
CountKept_NoOthers(i, drop) ==
    LET counted == [all EXCEPT ![i] = @ + 1] IN
    /\ all' = IF drop = Nil THEN counted
                            ELSE [counted EXCEPT ![drop] = 0]
    /\ sent' = IF drop # Nil THEN sent \cup {KeepLast(drop)} ELSE sent

\* Fault: the counter of the object that was kept is not incremented.
CountKept_NoIncrement(i, drop) ==
    /\ all' = IF drop = Nil THEN all ELSE [all EXCEPT ![drop] = @ - 1]
    /\ sent' = IF drop # Nil /\ all[drop] - 1 = 0
               THEN sent \cup {KeepLast(drop)} ELSE sent

\* Fault: the counter of the dropped object is not decremented.
CountKept_NoDecrement(i, drop) ==
    /\ all' = [all EXCEPT ![i] = @ + 1]
    /\ sent' = IF drop # Nil /\ all[drop] = 0
               THEN sent \cup {KeepLast(drop)} ELSE sent

\* The counters after the object i was kept and drop, if any, was dropped;
\* an object no keeper holds any more is sent for deletion.
CountKept(i, drop) ==
    LET counted == [all EXCEPT ![i] = @ + 1] IN
    /\ all' = IF drop = Nil THEN counted
                            ELSE [counted EXCEPT ![drop] = @ - 1]
    /\ sent' = IF drop # Nil /\ all[drop] - 1 = 0
               THEN sent \cup {KeepLast(drop)} ELSE sent

\* It does, and the object is kept at index p.
Keep(p) ==
    /\ cur # Nil /\ idx \in Rule
    /\ cur \in matches[idx]
    /\ p \in 0..count[idx] - 1
    /\ SearchResult(idx, cur, p)
    /\ bucket' = [bucket EXCEPT ![idx] = Inserted(idx, cur, p)]
    /\ CountKept(cur, bucket[idx][count[idx]])
    /\ idx' = idx + 1
    /\ matched' = TRUE
    /\ UNCHANGED <<input, phase, todo, cur>>

\* All keepers have seen the object.  A match that no keeper holds is sent
\* for deletion; what no rule matched is archived if archiveWhen says so.
\* The result of sending is only logged.
Leave ==
    /\ cur # Nil /\ idx = NumRules + 1
    /\ sent' = IF matched
               THEN IF all[cur] = 0 THEN sent \cup {KeepLast(cur)} ELSE sent
               ELSE IF cur \in archive THEN sent \cup {ArchiveWhen(cur)}
                                       ELSE sent
    /\ cur' = Nil
    /\ UNCHANGED <<input, phase, todo, idx, matched, bucket, all>>

Finish ==
    /\ phase = "run" /\ cur = Nil /\ todo = {}
    /\ phase' = "done"
    /\ UNCHANGED <<input, todo, cur, idx, matched, bucket, all, sent>>

Init ==
    /\ created \in [Item -> 1..MaxTime]
    /\ field \in [Item -> 0..MaxField]
    /\ sortBy \in [Rule -> {"created", "field"}]
    /\ count \in [Rule -> 0..MaxCount]
    /\ matches \in [Rule -> SUBSET Item]
    /\ archive \in SUBSET Item
    /\ phase = "start"
    /\ todo = Item
    /\ cur = Nil
    /\ idx = 1
    /\ matched = FALSE
    /\ bucket = [k \in Rule |-> [c \in 1..count[k] |-> Nil]]
    /\ all = [i \in Item |-> 0]
    /\ sent = {}

Next ==
    \/ ListFails \/ List \/ Finish
    \/ \E i \in Item : Visit(i)
    \/ PassKeeper \/ RankedOut \/ Leave
    \/ \E p \in 0..MaxCount : Keep(p)

Spec == Init /\ [][Next]_vars

-----------------------------------------------------------------------------
\* Variables have the values the declarations say.
TypeOK ==
    /\ created \in [Item -> Nat] /\ field \in [Item -> Nat]
    /\ sortBy \in [Rule -> {"created", "field"}]
    /\ count \in [Rule -> Nat]
    /\ matches \in [Rule -> SUBSET Item] /\ archive \subseteq Item
    /\ phase \in {"start", "run", "done"}
    /\ todo \subseteq Item
    /\ cur \in Item \cup {Nil}
    /\ idx \in 1..NumRules + 1
    /\ matched \in BOOLEAN
    /\ DOMAIN bucket = Rule
    /\ \A k \in Rule : bucket[k] \in [1..count[k] -> Item \cup {Nil}]
    /\ all \in [Item -> Nat]
    /\ sent \subseteq {"keep-last-when-delete", "archive-when"} \X Item

\* The objects a keeper holds.
Kept(k) == {bucket[k][c] : c \in 1..count[k]} \ {Nil}

\* The objects all keepers, and those that keeper k, have finished with.
Visited == Item \ (todo \cup {cur})
SeenBy(k) ==
    matches[k] \cap (Visited \cup IF idx > k THEN {cur} \ {Nil} ELSE {})

\* The map "all" counts the keepers that hold an object, at every point of
\* the pass: whether an object may be deleted is decided from it alone.
CountersExact ==
    \A i \in Item : all[i] = Cardinality({k \in Rule : i \in Kept(k)})

\* A visited object is sent for deletion if and only if some rule matches it
\* and no keeper holds it: an object that any rule keeps is not deleted, and
\* one that all matching rules rank out is not forgotten, although it may be
\* dropped by one keeper long before it is dropped by the last.
DeletedIffUnkept ==
    \A i \in Visited :
        KeepLast(i) \in sent <=>
            /\ \E k \in Rule : i \in matches[k]
            /\ \A k \in Rule : i \notin Kept(k)

\* The sort field of a rule ranks all objects it matches, so that comparing
\* is transitive: creation timestamps do, and a field none of them lacks.
RanksAll(k) ==
    sortBy[k] = "created" \/ \A i \in matches[k] : field[i] # 0

\* A keeper holds the last N of the objects it has seen: as many as its
\* count allows, and none of those left out ranks before one it holds.
KeepersHoldTheLast ==
    \A k \in Rule : RanksAll(k) =>
        /\ Kept(k) \subseteq SeenBy(k)
        /\ Cardinality(Kept(k)) =
               IF Cardinality(SeenBy(k)) < count[k]
               THEN Cardinality(SeenBy(k)) ELSE count[k]
        /\ \A i \in Kept(k), j \in SeenBy(k) \ Kept(k) : ~ Before(k, j, i)

=============================================================================
