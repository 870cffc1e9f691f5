---------------------------- MODULE ArchiveList ----------------------------
(***************************************************************************)
(* Listing the archive page by page: GetResources of the API server, its   *)
(* pagination middleware, and the queries it makes of PostgreSQL.  A page  *)
(* of a list with a label selector is not one query but up to four: three  *)
(* look up the ids of the selector's keys and labels, the last selects the *)
(* rows.  Other transactions commit between any two of them, and between   *)
(* two pages of one walk.                                                  *)
(***************************************************************************)
EXTENDS Integers, FiniteSets, FiniteSetsExt, Sequences

CONSTANTS
    Id,         \* ids of the rows, numbers
    Name,       \* names of objects
    NameOf,     \* NameOf[i]: the name of the object of row i
    Key, Value, \* of labels
    Labels,     \* sets of labels objects have, as sets of pairs
    Request,    \* requests a client may make (see ListRequest)
    MaxTime,    \* bound: creation timestamps are seconds 1..MaxTime
    MaxWrites,  \* bound: transactions that change the archive
    MaxAllowedLimit, \* maxAllowedLimit
    None        \* no row, no token, no time bound

Op == {"exists", "!", "=", "!=", "in", "notin"}
Time == 1..MaxTime

(* Time bounds are in half seconds with an offset from UTC in seconds      *)
Bound == [at : Nat, zone : Int]
ListRequest ==
    [name : [kind : {"any", "pattern", "exact"}, names : SUBSET Name],
     selector : Seq([op : Op \cup {"unsupported"}, key : Key,
                     values : SUBSET Value]),
     after : Bound \cup {None}, before : Bound \cup {None},
     limit : Int]

Label == Key \X Value
Row == [ts : Time, labels : Labels]
Token == [ts : Time, id : Id]

ASSUME ArchiveListAssumption ==
    /\ IsFiniteSet(Id) /\ Id \subseteq Nat
    /\ IsFiniteSet(Key) /\ IsFiniteSet(Value)
    /\ NameOf \in [Id -> Name]
    /\ Labels \subseteq SUBSET (Key \X Value)
    /\ \A S \in Labels : \A l, m \in S : l[1] = m[1] => l = m
    /\ MaxTime \in Nat /\ MaxWrites \in Nat /\ MaxAllowedLimit \in Nat
    /\ Request \subseteq ListRequest
    /\ \A r \in Request : \A n \in DOMAIN r.selector :
          r.selector[n].op = "=" => \E v \in Value : r.selector[n].values = {v}
    /\ None \notin Id \cup Token \cup Bound \cup Row

VARIABLES
    (* The database                                                        *)
    row,        \* row[i]: what table resource has under id i
    labelKey,   \* keys in table label_key
    labelPair,  \* pairs in table label_key_value; both only grow
    writes,     \* number of transactions so far
    (* The request being handled, and the client's walk                    *)
    pc,         \* position of GetResources, or "client" between requests
    req,        \* the client's request, the same for every page
    token,      \* the continue token it comes with
    keyIDs, labelIDs, multiLabelIDs,  \* what the lookups found
    answer,     \* status of the last answer, 0 before the first
    (* Histories                                                           *)
    listed,     \* ids the pages of the walk listed
    again,      \* ids that were listed more than once
    steady,     \* ids that fit the request since the walk began, and were
                \* not changed while a page was being made
    moved       \* ids written since the request being handled began

db == <<row, labelKey, labelPair, writes>>
ids == <<keyIDs, labelIDs, multiLabelIDs>>
vars == <<row, labelKey, labelPair, writes, pc, req, token,
          keyIDs, labelIDs, multiLabelIDs, answer,
          listed, again, steady, moved>>

(***************************************************************************)
(* The request                                                             *)
(***************************************************************************)
Occurrences(s, op, k) ==
    {n \in DOMAIN s : s[n].op = op /\ s[n].key = k}

\* The filters as NewLabelFilters leaves them: of several requirements with
\* one operator and one key the last replaces the others.
FilterKeys(op) == {k \in Key : Occurrences(req.selector, op, k) # {}}
FilterLabels(op) ==
    {l \in FilterKeys(op) \X Value :
        l[2] \in req.selector[Max(Occurrences(req.selector, op, l[1]))].values}

Supported(r) == \A n \in DOMAIN r.selector : r.selector[n].op \in Op

\* The text of a time bound as the query compares it with the text of a
\* creationTimestamp, at two units a second: Format(time.RFC3339) drops the
\* fraction of a second and keeps the offset, whose sign sorts before "Z".
Text(b) == 2 * ((b.at \div 2) + b.zone) - (IF b.zone = 0 THEN 0 ELSE 1)

\* creationTimestampBefore must be later than creationTimestampAfter.
BoundsInOrder(r) ==
    r.after # None /\ r.before # None => r.before.at > r.after.at

\* limitInteger within the limits of the pagination middleware.
LimitAllowed(r) == r.limit \in 1..MaxAllowedLimit

IsList == req.name.kind # "exact"

(***************************************************************************)
(* The query                                                               *)
(***************************************************************************)
KeysOf(labels) == {l[1] : l \in labels}

(* A positive filter with a key or label the database does not know makes  *)
(* the condition "1=0", as does notin with an unknown key.                 *)
ShortCircuit ==
    \/ ~(FilterKeys("exists") \subseteq keyIDs)
    \/ ~(FilterLabels("=") \subseteq labelIDs)
    \/ \E k \in FilterKeys("in") :
          \A l \in FilterLabels("in") : l[1] = k => l \notin multiLabelIDs
    \/ ~(FilterKeys("notin") \subseteq keyIDs)

\* Fault: notin forgets to exclude the labels.
LabelCondition_NotInAsksForKey(labels) ==
    /\ ~ShortCircuit
    /\ FilterKeys("exists") \subseteq KeysOf(labels)
    /\ FilterLabels("=") \subseteq labels
    /\ \A k \in FilterKeys("in") :
          \E l \in FilterLabels("in") \cap multiLabelIDs : l[1] = k /\ l \in labels
    /\ KeysOf(labels) \cap (FilterKeys("!") \cap keyIDs) = {}
    /\ labels \cap (FilterLabels("!=") \cap labelIDs) = {}
    /\ Cardinality(KeysOf(labels) \cap FilterKeys("notin"))
           = Cardinality(FilterKeys("notin"))

\* ApplyLabelFilters: EXISTS and NOT EXISTS conditions on the labels of a row,
\* in terms of the ids the lookups found.
LabelCondition(labels) ==
    /\ ~ShortCircuit
    /\ FilterKeys("exists") \subseteq KeysOf(labels)
    /\ FilterLabels("=") \subseteq labels
    /\ \A k \in FilterKeys("in") :
          \E l \in FilterLabels("in") \cap multiLabelIDs : l[1] = k /\ l \in labels
    /\ KeysOf(labels) \cap (FilterKeys("!") \cap keyIDs) = {}
    /\ labels \cap (FilterLabels("!=") \cap labelIDs) = {}
    /\ Cardinality(KeysOf(labels) \cap FilterKeys("notin"))
           = Cardinality(FilterKeys("notin"))
    /\ labels \cap (FilterLabels("notin") \cap multiLabelIDs) = {}

\* Order of the list: newest first, among equals the highest id first.
Precedes(a, b) == a.ts > b.ts \/ (a.ts = b.ts /\ a.id > b.id)
Position(i) == [ts |-> row[i].ts, id |-> i]

\* Fault: rows with the timestamp of the token are compared by it alone.
AfterToken_TimestampOnly(i) == token # None => row[i].ts < token.ts
\* Fault: the row of the token itself comes again.
AfterToken_Inclusive(i) ==
    token # None => ~Precedes(Position(i), token)

\* CreationTSAndIDFilter
AfterToken(i) == token # None => Precedes(token, Position(i))

\* buildResourceListQuery: the rows the WHERE clause selects.  An exact name
\* is not combined with any other filter.
Selected(i) ==
    /\ row[i] # None
    /\ req.name.kind # "any" => NameOf[i] \in req.name.names
    /\ IsList =>
        /\ AfterToken(i)
        /\ req.after # None => 2 * row[i].ts > Text(req.after)
        /\ req.before # None => 2 * row[i].ts < Text(req.before)
        /\ LabelCondition(row[i].labels)

\* ORDER BY ... LIMIT n: the first n of a set of rows.
FirstOf(S, n) ==
    {i \in S :
        Cardinality({j \in S : Precedes(Position(j), Position(i))}) < n}

\* The row the last page wrote last.
LastOf(S) ==
    CHOOSE i \in S : \A j \in S \ {i} : Precedes(Position(j), Position(i))

(***************************************************************************)
(* What a request asks for, without the detour over ids.  As the design    *)
(* document says, notin asks for the key to be there.                      *)
(***************************************************************************)
Satisfies(q, labels) ==
    CASE q.op = "exists" -> q.key \in KeysOf(labels)
      [] q.op = "!"      -> q.key \notin KeysOf(labels)
      [] q.op \in {"=", "in"} -> \E v \in q.values : <<q.key, v>> \in labels
      [] q.op = "!="     -> \A v \in q.values : <<q.key, v>> \notin labels
      [] q.op = "notin"  -> /\ q.key \in KeysOf(labels)
                            /\ \A v \in q.values : <<q.key, v>> \notin labels

Fits(r, i, w) ==
    /\ w # None
    /\ r.name.kind # "any" => NameOf[i] \in r.name.names
    /\ r.after # None => 2 * w.ts > r.after.at
    /\ r.before # None => 2 * w.ts < r.before.at
    /\ \A n \in DOMAIN r.selector : Satisfies(r.selector[n], w.labels)

\* Requests the filters can express: no operator twice on one key, "=" and
\* "!=" not on the same key (the lookup keeps one label of it), bounds in UTC
\* and in whole seconds.
Expressible(r) ==
    /\ \A m, n \in DOMAIN r.selector :
          /\ m # n
          /\ r.selector[m].key = r.selector[n].key
          => /\ r.selector[m].op # r.selector[n].op
             /\ {r.selector[m].op, r.selector[n].op} # {"=", "!="}
    /\ \A b \in {r.after, r.before} \ {None} : b.zone = 0 /\ b.at % 2 = 0

-----------------------------------------------------------------------------
Init ==
    /\ row = [i \in Id |-> None]
    /\ labelKey = {} /\ labelPair = {} /\ writes = 0
    /\ pc = "client" /\ req \in Request /\ token = None
    /\ keyIDs = {} /\ labelIDs = {} /\ multiLabelIDs = {}
    /\ answer = 0
    /\ listed = {} /\ again = {} /\ steady = {} /\ moved = {}

(* A transaction of the sink commits: a new row, or new data of a row whose *)
(* creation timestamp stays.  Ids come from a sequence, but transactions   *)
(* may commit in another order.  A trigger of the database keeps the label  *)
(* tables.                                                                  *)
Commit(i, w) ==
    /\ writes < MaxWrites
    /\ row[i] # None => w.ts = row[i].ts
    /\ w # row[i]
    /\ row' = [row EXCEPT ![i] = w]
    /\ labelKey' = labelKey \cup KeysOf(w.labels)
    /\ labelPair' = labelPair \cup w.labels
    /\ writes' = writes + 1
    /\ steady' = {j \in steady : j = i => pc = "client" /\ Fits(req, i, w)}
    /\ moved' = moved \cup {i}
    /\ UNCHANGED <<pc, req, token, keyIDs, labelIDs, multiLabelIDs, answer,
                   listed, again>>

\* Parameters are checked first; a selector with an operator the filters do
\* not know is answered 400 as well (the handler goes on with nil for the
\* filters, which changes neither the database nor the status).
Refuse ==
    /\ pc = "client" /\ answer = 0
    /\ \/ ~LimitAllowed(req) \/ ~BoundsInOrder(req) \/ ~Supported(req)
    /\ pc' = "end" /\ answer' = 400
    /\ UNCHANGED <<db, req, token, ids, listed, again, steady, moved>>

\* The next page is asked for: the middleware passes limit and token, and the
\* handler comes to its first query.
Accept ==
    /\ pc = "client"
    /\ LimitAllowed(req) /\ BoundsInOrder(req) /\ Supported(req)
    /\ pc' = IF IsList THEN "resolveKeyIDs" ELSE "query"
    /\ keyIDs' = {} /\ labelIDs' = {} /\ multiLabelIDs' = {}
    /\ steady' = IF token = None THEN {i \in Id : Fits(req, i, row[i])} ELSE steady
    /\ moved' = {}
    /\ UNCHANGED <<db, req, token, answer, listed, again>>

\* Ids of the keys of exists, notexists and notin filters.
ResolveKeyIDs ==
    /\ pc = "resolveKeyIDs"
    /\ keyIDs' = labelKey
         \cap (FilterKeys("exists") \cup FilterKeys("!") \cup FilterKeys("notin"))
    /\ pc' = "resolveLabelIDs"
    /\ UNCHANGED <<db, req, token, labelIDs, multiLabelIDs, answer,
                   listed, again, steady, moved>>

\* Ids of the labels of equals and notequals filters, which share a map: for
\* a key that both have, the label of notequals.
ResolveLabelIDs ==
    /\ pc = "resolveLabelIDs"
    /\ labelIDs' = labelPair
         \cap (FilterLabels("!=")
               \cup {l \in FilterLabels("=") : l[1] \notin FilterKeys("!=")})
    /\ pc' = "resolveLabelIDsMulti"
    /\ UNCHANGED <<db, req, token, keyIDs, multiLabelIDs, answer,
                   listed, again, steady, moved>>

\* Ids of the labels of in and notin filters.
ResolveLabelIDsMulti ==
    /\ pc = "resolveLabelIDsMulti"
    /\ multiLabelIDs' = labelPair \cap (FilterLabels("in") \cup FilterLabels("notin"))
    /\ pc' = "query"
    /\ UNCHANGED <<db, req, token, keyIDs, labelIDs, answer,
                   listed, again, steady, moved>>

\* The list query, one statement and so one snapshot: limit + 1 rows are
\* fetched, limit of them written, and the last one written makes the token
\* when there are more.  The client asks for the next page with it.
StreamResources ==
    /\ pc = "query" /\ IsList
    /\ LET fetched == FirstOf({i \in Id : Selected(i)}, req.limit + 1)
           written == FirstOf(fetched, req.limit)
           hasMore == Cardinality(fetched) > req.limit
       IN /\ listed' = listed \cup written
          /\ again' = again \cup (listed \cap written)
          /\ token' = IF hasMore THEN Position(LastOf(written)) ELSE None
          /\ pc' = IF hasMore THEN "client" ELSE "end"
    /\ answer' = 200
    /\ UNCHANGED <<db, req, ids, steady, moved>>

\* A query fails.  Before the first row is written the answer is 500, after it
\* a list cut short, which is no JSON; either way the client asks again for
\* the same page.
QueryFails ==
    /\ pc \in {"resolveKeyIDs", "resolveLabelIDs", "resolveLabelIDsMulti", "query"}
    /\ pc' = "client" /\ answer' = 500
    /\ UNCHANGED <<db, req, token, ids, listed, again, steady, moved>>

\* QueryResources for an exact name: one object, or 404, or 500 when objects
\* with different UIDs had the name.
QueryByName ==
    /\ pc = "query" /\ ~IsList
    /\ LET found == {i \in Id : Selected(i)}
       IN /\ answer' = IF found = {} THEN 404
                       ELSE IF Cardinality(found) > 1 THEN 500 ELSE 200
          /\ listed' = IF Cardinality(found) = 1 THEN found ELSE {}
    /\ pc' = "end"
    /\ UNCHANGED <<db, req, token, ids, again, steady, moved>>

Next ==
    \/ \E i \in Id, w \in Row : Commit(i, w)
    \/ Refuse
    \/ Accept
    \/ ResolveKeyIDs
    \/ ResolveLabelIDs
    \/ ResolveLabelIDsMulti
    \/ StreamResources
    \/ QueryFails
    \/ QueryByName

Spec == Init /\ [][Next]_vars

-----------------------------------------------------------------------------
\* Variables have the values the declarations say; ids that were looked up
\* are in the label tables.
TypeOK ==
    /\ row \in [Id -> Row \cup {None}]
    /\ labelKey \subseteq Key /\ labelPair \subseteq Label
    /\ writes \in 0..MaxWrites
    /\ pc \in {"client", "resolveKeyIDs", "resolveLabelIDs",
               "resolveLabelIDsMulti", "query", "end"}
    /\ req \in Request /\ token \in Token \cup {None}
    /\ keyIDs \subseteq labelKey /\ labelIDs \subseteq labelPair
    /\ multiLabelIDs \subseteq labelPair
    /\ answer \in {0, 200, 400, 404, 500}
    /\ listed \subseteq Id /\ again \subseteq Id
    /\ steady \subseteq Id /\ moved \subseteq Id

\* No object is on two pages of a walk, whatever is written between the pages
\* and however often a page that failed is asked for again.  (Checked together
\* with the types.)
ListedOnce == TypeOK /\ again = {}

\* When the last page has come (its token is empty), everything that fitted
\* the request from the first page on has been listed, but for objects that
\* were changed while a page was being made: one that changes from one label
\* of "in" to another, new one is found by neither the lookup nor the query.
WalkIsComplete ==
    pc = "end" /\ answer = 200 /\ IsList /\ Expressible(req)
        => steady \subseteq listed

\* A page lists nothing that does not fit the request, but for objects that
\* were written while the request was handled: the lookups may be older than
\* the rows.
ListedFit ==
    [][StreamResources /\ Expressible(req)
        => \A i \in Id : Selected(i) /\ i \notin moved => Fits(req, i, row[i])]_vars
=============================================================================
