----------------------- MODULE SinkFilterWatchProofs -----------------------
(***************************************************************************)
(* Proofs about the watch of a kind, for any objects, filters, workers and *)
(* bounds: a watch that was removed is quiet, and a watch that was not     *)
(* skips no event.                                                         *)
(*                                                                         *)
(* The invariant is cut into parts that speak of few variables each, so    *)
(* that a step disturbs few of them.                                       *)
(***************************************************************************)
EXTENDS SinkFilterWatch, SequenceTheorems, WellFoundedInduction, TLAPS

Version == 1..Len(log)

ServerTypes ==
    /\ log \in Seq([type : {"ADDED", "MODIFIED", "DELETED"}, obj : Obj])
    /\ oldest \in 0..Len(log)
    /\ known \in BOOLEAN /\ spec \in Setting /\ edits \in Nat

ReconcilerTypes ==
    /\ rpc \in {"idle", "role", "generate", "interface", "shutdown", "wait"}
    /\ dirty \in BOOLEAN /\ role \in BOOLEAN
    /\ want \in Setting /\ restarts \in Nat
    /\ used \in 0..NumWatches /\ current \in 0..used

FilterTypes == filter \in [Watch -> CelExpressions]

\* The initial events are of versions up to the one the watch started at.
ConnTypes ==
    /\ iface \in [Watch -> BOOLEAN]
    /\ conn \in [Watch -> {"closed", "open", "gone"}]
    /\ pos \in [Watch -> 0..Len(log)] /\ rv \in [Watch -> 0..Len(log)]
    /\ base \in [Watch -> 0..Len(log)]
    /\ initial \in [Watch -> SUBSET Version]
    /\ \A w \in Watch : \A v \in initial[w] : v <= base[w]

QueueTypes ==
    /\ queue \in [Watch -> Seq(Version)]
    /\ waiting \in [Watch -> Seq(Version)]
    /\ handled \in [Watch -> SUBSET Version]

LoopTypes == loop \in [Watch -> LoopState]

\* A worker that handles an event holds one, and no other does; a watch that
\* is not created yet has no workers.
WorkerTypes ==
    /\ worker \in [Watch -> [Worker -> WorkerState]]
    /\ holding \in [Watch -> [Worker -> 0..Len(log)]]
    /\ verdict \in [Watch -> [Worker -> CloudEvent]]
    /\ \A w \in Watch, k \in Worker :
           /\ worker[w][k] \in {"handle", "send"} <=> holding[w][k] # 0
           /\ w > used => worker[w][k] = "none"

\* StopCh is closed before the queue is shut down and the workers are waited
\* for.
StopOrder ==
    /\ stop \in [Watch -> BOOLEAN] /\ shut \in [Watch -> BOOLEAN]
    /\ rpc \in {"interface", "shutdown", "wait"} => current # 0 /\ stop[current]
    /\ \A w \in Watch : shut[w] => stop[w]

\* Version v, received since version b, is handled or is still to be: it is in
\* queue q, in the rate limiter's l or with one of the workers h.
Kept(v, hd, q, l, h) ==
    \/ v \in hd \/ v \in Range(q) \/ v \in Range(l)
    \/ \E k \in Worker : h[k] = v

\* Neither ResourceVersion nor the connection is past an event that is lost.
KeptUpTo(b, n, hd, q, l, h) ==
    \A v \in Nat : b < v /\ v <= n => Kept(v, hd, q, l, h)

NoneLost ==
    \A w \in Watch : ~ stop[w] =>
        /\ KeptUpTo(base[w], rv[w], handled[w], queue[w], waiting[w], holding[w])
        /\ KeptUpTo(base[w], pos[w], handled[w], queue[w], waiting[w], holding[w])

IInv ==
    /\ ServerTypes /\ ReconcilerTypes /\ FilterTypes /\ ConnTypes
    /\ QueueTypes /\ LoopTypes /\ WorkerTypes /\ StopOrder
    /\ RemovedWatchesAreQuiet
    /\ NoneLost

-----------------------------------------------------------------------------
(* Sequences                                                               *)

(* A sequence over a set is one over any larger set                        *)
LEMMA SeqGrows ==
    ASSUME NEW S, NEW T, S \subseteq T
    PROVE  Seq(S) \subseteq Seq(T)
<1> SUFFICES ASSUME NEW s \in Seq(S) PROVE s \in Seq(T)
  OBVIOUS
<1>1. Len(s) \in Nat /\ s \in [1..Len(s) -> S]
  OBVIOUS
<1>2. s \in [1..Len(s) -> T]
  BY <1>1
<1> QED
  BY <1>1, <1>2, SeqDef

(* What is added to a queue is in it, with all that was                    *)
LEMMA RangeAppend ==
    ASSUME NEW S, NEW s \in Seq(S), NEW x \in S
    PROVE  /\ Append(s, x) \in Seq(S)
           /\ x \in Range(Append(s, x))
           /\ \A v \in Range(s) : v \in Range(Append(s, x))
<1> DEFINE t == Append(s, x)
<1>1. /\ t \in Seq(S) /\ Len(s) \in Nat /\ Len(t) = Len(s) + 1
      /\ t[Len(s) + 1] = x /\ \A i \in 1..Len(s) : t[i] = s[i]
  OBVIOUS
<1>2. DOMAIN s = 1..Len(s) /\ DOMAIN t = 1..Len(t)
  BY <1>1
<1> HIDE DEF t
<1>3. Len(s) + 1 \in DOMAIN t /\ \A i \in DOMAIN s : i \in DOMAIN t
  BY <1>1, <1>2
<1>4. x \in Range(t) /\ \A v \in Range(s) : v \in Range(t)
  BY <1>1, <1>2, <1>3 DEF Range
<1> QED
  BY <1>1, <1>4 DEF t

(* What is taken from a queue is its head, and the rest stays              *)
LEMMA RangeTail ==
    ASSUME NEW S, NEW s \in Seq(S), s # <<>>
    PROVE  /\ Head(s) \in S /\ Tail(s) \in Seq(S)
           /\ \A v \in Range(s) : v = Head(s) \/ v \in Range(Tail(s))
<1> DEFINE t == Tail(s)
<1>1. /\ t \in Seq(S) /\ Head(s) = s[1] /\ Head(s) \in S
      /\ Len(s) \in Nat /\ Len(s) > 0 /\ Len(t) = Len(s) - 1
      /\ \A i \in 1..Len(t) : t[i] = s[i + 1]
  OBVIOUS
<1>2. DOMAIN s = 1..Len(s) /\ DOMAIN t = 1..Len(t)
  BY <1>1
<1> HIDE DEF t
<1>3. ASSUME NEW v \in Range(s) PROVE v = Head(s) \/ v \in Range(t)
  <2>1. PICK i \in 1..Len(s) : v = s[i]
    BY <1>2 DEF Range
  <2>2. CASE i = 1
    BY <1>1, <2>1, <2>2
  <2>3. CASE i # 1
    <3>1. i - 1 \in 1..Len(t) /\ t[i - 1] = s[i]
      BY <1>1, <2>3
    <3> QED
      BY <1>2, <2>1, <3>1 DEF Range
  <2> QED
    BY <2>2, <2>3
<1> QED
  BY <1>1, <1>3 DEF t

(* What is removed from a sequence is the one element, and the rest stays  *)
LEMMA RangeRemoveAt ==
    ASSUME NEW S, NEW s \in Seq(S), NEW i \in 1..Len(s)
    PROVE  /\ RemoveAt(s, i) \in Seq(S) /\ s[i] \in S
           /\ \A v \in Range(s) : v = s[i] \/ v \in Range(RemoveAt(s, i))
<1> DEFINE a == SubSeq(s, 1, i - 1)
           b == SubSeq(s, i + 1, Len(s))
           t == a \o b
<1>1. Len(s) \in Nat /\ i \in Nat /\ i >= 1 /\ i <= Len(s) /\ s[i] \in S
  OBVIOUS
<1>2. /\ a \in Seq(S) /\ Len(a) = i - 1
      /\ \A j \in 1..(i - 1) : a[j] = s[j]
  <2>1. \A j \in 1..(i - 1) : s[j] \in S
    BY <1>1
  <2> QED
    BY <1>1, <2>1
<1>3. /\ b \in Seq(S) /\ Len(b) = Len(s) - i
      /\ \A j \in 1..(Len(s) - i) : b[j] = s[i + j]
  <2>1. \A j \in 1..(Len(s) - i) : s[i + j] \in S
    BY <1>1
  <2> QED
    BY <1>1, <2>1
<1> HIDE DEF a, b
<1>4. /\ t \in Seq(S) /\ Len(t) = Len(a) + Len(b)
      /\ \A j \in 1..Len(a) : t[j] = a[j]
      /\ \A j \in 1..Len(b) : t[Len(a) + j] = b[j]
  <2>0. a \in Seq(S) /\ b \in Seq(S) /\ Len(a) \in Nat /\ Len(b) \in Nat
    BY <1>2, <1>3
  <2>1. /\ t \in Seq(S) /\ Len(t) = Len(a) + Len(b)
        /\ \A j \in 1..(Len(a) + Len(b)) :
              t[j] = IF j <= Len(a) THEN a[j] ELSE b[j - Len(a)]
    BY <2>0, ConcatProperties
  <2> HIDE DEF t
  <2>2. \A j \in 1..Len(a) : t[j] = a[j]
    BY <2>0, <2>1
  <2>3. ASSUME NEW j \in 1..Len(b) PROVE t[Len(a) + j] = b[j]
    <3>1. /\ Len(a) + j \in 1..(Len(a) + Len(b)) /\ ~(Len(a) + j <= Len(a))
          /\ (Len(a) + j) - Len(a) = j
      BY <2>0
    <3> QED
      BY <2>1, <3>1
  <2> QED
    BY <2>1, <2>2, <2>3
<1>5. DOMAIN t = 1..Len(t) /\ DOMAIN s = 1..Len(s)
  BY <1>4
<1> HIDE DEF t
<1>6. ASSUME NEW v \in Range(s) PROVE v = s[i] \/ v \in Range(t)
  <2>1. PICK j \in 1..Len(s) : v = s[j]
    BY <1>5 DEF Range
  <2>2. CASE j < i
    <3>1. j \in DOMAIN t /\ t[j] = v
      BY <1>1, <1>2, <1>3, <1>4, <1>5, <2>1, <2>2
    <3> QED
      BY <3>1 DEF Range
  <2>3. CASE j = i
    BY <2>1, <2>3
  <2>4. CASE j > i
    <3>1. j - i \in 1..Len(b) /\ b[j - i] = s[i + (j - i)] /\ i + (j - i) = j
      BY <1>1, <1>3, <2>4
    <3>2. Len(a) + (j - i) \in DOMAIN t
      BY <1>1, <1>2, <1>3, <1>4, <1>5, <3>1
    <3>3. t[Len(a) + (j - i)] = v
      BY <1>4, <2>1, <3>1
    <3> QED
      BY <3>2, <3>3 DEF Range
  <2> QED
    BY <1>1, <2>1, <2>2, <2>3, <2>4
<1>7. RemoveAt(s, i) = t
  BY DEF RemoveAt, t, a, b
<1> QED
  BY <1>1, <1>4, <1>6, <1>7

(* A set of naturals that is not empty has a least member                  *)
LEMMA Least ==
    ASSUME NEW S \in SUBSET Nat, NEW x \in S
    PROVE  \E i \in S : \A j \in S : i <= j
<1> DEFINE R == OpToRel(<, Nat)
<1>1. IsWellFoundedOn(R, Nat)
  BY NatLessThanWellFounded
<1>2. PICK i \in S : \A j \in S : <<j, i>> \notin R
  BY <1>1, WFMin
<1>0. R = {ss \in Nat \X Nat : ss[1] < ss[2]}
  BY DEF OpToRel
<1> HIDE DEF R
<1>3. \A j \in S : ~(j < i)
  BY <1>0, <1>2
<1> QED
  BY <1>2, <1>3

(* and a greatest one when it is bounded                                   *)
LEMMA Greatest ==
    ASSUME NEW n \in Nat, NEW S \in SUBSET (1..n), NEW x \in S
    PROVE  \E i \in S : \A j \in S : j <= i
<1> DEFINE T == {k \in 0..n : n - k \in S}
<1>1. T \in SUBSET Nat /\ n - x \in T
  OBVIOUS
<1>2. PICK k \in T : \A l \in T : k <= l
  <2> HIDE DEF T
  <2> QED
    BY <1>1, Least
<1>3. ASSUME NEW j \in S PROVE j <= n - k
  <2>1. n - j \in T /\ j \in Nat
    OBVIOUS
  <2> HIDE DEF T
  <2>2. k <= n - j
    BY <1>2, <2>1
  <2>3. k \in Nat
    BY <1>1, <1>2
  <2> QED
    BY <2>1, <2>2, <2>3
<1> QED
  BY <1>2, <1>3

(* The last change of an object that exists is a change                    *)
LEMMA LastChangeIs ==
    ASSUME ServerTypes, NEW o, Exists(o)
    PROVE  LastChange(o) \in Version
<1> DEFINE S == ChangesOf(o)
           Newest(v) == \A u \in S : u <= v
           l == CHOOSE v \in S : Newest(v)
<1>1. Len(log) \in Nat /\ S \in SUBSET (1..Len(log))
  BY DEF ServerTypes, ChangesOf
<1>2. S # {}
  BY DEF Exists, LastChange
<1>3. LastChange(o) = l
  BY <1>2 DEF LastChange
<1>4. l \in S
  <2>1. \E v \in S : Newest(v)
    <3> HIDE DEF S
    <3> QED
      BY <1>1, <1>2, Greatest
  <2> HIDE DEF S, Newest
  <2> QED
    BY <2>1
<1> HIDE DEF S, l
<1> QED
  BY <1>1, <1>3, <1>4 DEF Version

-----------------------------------------------------------------------------
(* The invariant                                                           *)

(* It gives what the run checks                                            *)
LEMMA IInvImplies ==
    ASSUME IInv
    PROVE  TypeOK /\ RemovedWatchesAreQuiet /\ NothingSkipped
<1>1. TypeOK
  BY DEF IInv, ServerTypes, ReconcilerTypes, FilterTypes, ConnTypes, QueueTypes,
         LoopTypes, WorkerTypes, StopOrder, TypeOK, Version
<1>2. ASSUME NEW w \in Watch, ~ stop[w], NEW v \in base[w] + 1..rv[w]
      PROVE  v \in handled[w] \cup Pending(w)
  <2>1. base[w] \in Nat /\ rv[w] \in Nat
    BY DEF IInv, ServerTypes, ConnTypes
  <2>2. v \in Nat /\ base[w] < v /\ v <= rv[w]
    BY <2>1
  <2>3. Kept(v, handled[w], queue[w], waiting[w], holding[w])
    BY <1>2, <2>2 DEF IInv, NoneLost, KeptUpTo
  <2> QED
    BY <2>3, Zenon DEF Kept, Pending
<1> QED
  BY <1>1, <1>2 DEF IInv, NothingSkipped

(* A part of the invariant holds on when its variables keep their values   *)
LEMMA Frame ==
    ASSUME IInv
    PROVE  /\ UNCHANGED <<log, oldest, known, spec, edits>> => ServerTypes'
           /\ UNCHANGED <<rpc, dirty, role, want, restarts, used, current>>
                => ReconcilerTypes'
           /\ UNCHANGED filter => FilterTypes'
           /\ UNCHANGED <<log, iface, conn, pos, initial, rv, base>> => ConnTypes'
           /\ UNCHANGED <<log, queue, waiting, handled>> => QueueTypes'
           /\ UNCHANGED loop => LoopTypes'
           /\ UNCHANGED <<log, used, worker, holding, verdict>> => WorkerTypes'
           /\ UNCHANGED <<stop, shut, rpc, current>> => StopOrder'
           /\ UNCHANGED <<used, current, stop, worker>> => RemovedWatchesAreQuiet'
           /\ UNCHANGED <<stop, base, rv, pos, handled, queue, waiting, holding>>
                => NoneLost'
<1>1. UNCHANGED <<log, oldest, known, spec, edits>> => ServerTypes'
  BY Zenon DEF IInv, ServerTypes
<1>2. UNCHANGED <<rpc, dirty, role, want, restarts, used, current>>
         => ReconcilerTypes'
  BY Zenon DEF IInv, ReconcilerTypes
<1>3. UNCHANGED filter => FilterTypes'
  BY Zenon DEF IInv, FilterTypes
<1>4. UNCHANGED <<log, iface, conn, pos, initial, rv, base>> => ConnTypes'
  BY Zenon DEF IInv, ConnTypes, Version
<1>5. UNCHANGED <<log, queue, waiting, handled>> => QueueTypes'
  BY Zenon DEF IInv, QueueTypes, Version
<1>6. UNCHANGED loop => LoopTypes'
  BY Zenon DEF IInv, LoopTypes
<1>7. UNCHANGED <<log, used, worker, holding, verdict>> => WorkerTypes'
  BY Zenon DEF IInv, WorkerTypes
<1>8. UNCHANGED <<stop, shut, rpc, current>> => StopOrder'
  BY Zenon DEF IInv, StopOrder
<1>9. UNCHANGED <<used, current, stop, worker>> => RemovedWatchesAreQuiet'
  BY Zenon DEF IInv, RemovedWatchesAreQuiet
<1>10. UNCHANGED <<stop, base, rv, pos, handled, queue, waiting, holding>>
         => NoneLost'
  BY Zenon DEF IInv, NoneLost
<1> QED
  BY <1>1, <1>2, <1>3, <1>4, <1>5, <1>6, <1>7, <1>8, <1>9, <1>10

\* What an operator that has just started remembers.
FreshOperator ==
    /\ role \in BOOLEAN /\ restarts \in Nat
    /\ rpc = "idle" /\ dirty = TRUE /\ want = Absent /\ current = 0 /\ used = 0
    /\ filter = All(NoCel) /\ stop = All(FALSE)
    /\ iface = All(FALSE) /\ conn = All("closed")
    /\ pos = All(0) /\ initial = All({}) /\ rv = All(0) /\ base = All(0)
    /\ queue = All(<<>>) /\ waiting = All(<<>>)
    /\ shut = All(FALSE) /\ handled = All({}) /\ loop = All("none")
    /\ worker = All([k \in Worker |-> "none"])
    /\ holding = All([k \in Worker |-> 0])
    /\ verdict = All([k \in Worker |-> "no"])

(* That much is consistent with any history of the API server              *)
LEMMA FreshIInv == ServerTypes /\ FreshOperator => IInv
<1> SUFFICES ASSUME ServerTypes, FreshOperator PROVE IInv
  OBVIOUS
<1>0. Len(log) \in Nat /\ 0 \in 0..Len(log)
  BY DEF ServerTypes
<1>1. ReconcilerTypes
  <2>1. NumWatches \in Nat
    BY WatchAssumption DEF NumWatches
  <2> QED
    BY <2>1 DEF FreshOperator, ReconcilerTypes, Setting
<1>2. FilterTypes
  BY DEF FreshOperator, FilterTypes, All, NoCel, CelExpressions
<1>3. ConnTypes
  BY <1>0 DEF FreshOperator, ConnTypes, All
<1>4. QueueTypes
  BY DEF FreshOperator, QueueTypes, All
<1>5. LoopTypes
  BY DEF FreshOperator, LoopTypes, LoopState, All
<1>6. WorkerTypes
  BY <1>0 DEF FreshOperator, WorkerTypes, WorkerState, CloudEvent, All
<1>7. StopOrder
  BY DEF FreshOperator, StopOrder, All
<1>8. RemovedWatchesAreQuiet
  BY DEF FreshOperator, RemovedWatchesAreQuiet
<1>9. NoneLost
  <2>1. \A w \in Watch : base[w] = 0 /\ rv[w] = 0 /\ pos[w] = 0
    BY DEF FreshOperator, All
  <2> QED
    BY <2>1 DEF NoneLost, KeptUpTo
<1> QED
  BY <1>1, <1>2, <1>3, <1>4, <1>5, <1>6, <1>7, <1>8, <1>9 DEF IInv

(* Nothing has happened at first                                           *)
LEMMA InitIInv == Init => IInv
<1> SUFFICES ASSUME Init PROVE IInv
  OBVIOUS
<1>1. ServerTypes
  BY DEF Init, ServerTypes
<1>2. FreshOperator
  BY Zenon DEF Init, FreshOperator
<1> QED
  BY <1>1, <1>2, FreshIInv

(* A restart keeps what the API server has                                 *)
LEMMA RestartIInv ==
    ASSUME IInv, Restart
    PROVE  IInv'
<1>1. ServerTypes'
  BY Frame DEF Restart, serverVars
<1>2. FreshOperator'
  <2>1. role' \in BOOLEAN /\ restarts' \in Nat
    BY DEF IInv, ReconcilerTypes, Restart
  <2> QED
    BY <2>1, Zenon DEF Restart, FreshOperator
<1> QED
  BY <1>1, <1>2, FreshIInv, PTL

-----------------------------------------------------------------------------
(* The API server                                                          *)

(* An object changes: there is one version more                            *)
LEMMA ChangeIInv ==
    ASSUME IInv, NEW o \in Obj, NEW t \in {"ADDED", "MODIFIED", "DELETED"},
           Change(o, t)
    PROVE  IInv'
<1>1. /\ log' = Append(log, [type |-> t, obj |-> o])
      /\ UNCHANGED <<oldest, known, spec, edits, rpc, dirty, want, role, current,
                     used, restarts, filter, stop, iface, conn, pos, initial, rv,
                     base, queue, waiting, shut, handled, loop, worker, holding,
                     verdict>>
  BY DEF Change, reconcilerVars, connVars, queueVars, workerVars
<1> DEFINE n == Len(log)
           m == Len(log')
<1>2. /\ log' \in Seq([type : {"ADDED", "MODIFIED", "DELETED"}, obj : Obj])
      /\ n \in Nat /\ m = n + 1
  BY <1>1 DEF IInv, ServerTypes
<1>3. 0..n \subseteq 0..m /\ 1..n \subseteq 1..m
  <2> HIDE DEF n, m
  <2> QED
    BY <1>2
<1>4. Version = 1..n /\ Version' = 1..m
  BY DEF Version
<1> HIDE DEF n, m
<1>5. ServerTypes'
  <2>1. oldest \in 0..n /\ known \in BOOLEAN /\ spec \in Setting /\ edits \in Nat
    BY DEF IInv, ServerTypes, n
  <2>2. oldest \in 0..m
    BY <1>3, <2>1
  <2> QED
    BY <1>1, <1>2, <2>1, <2>2 DEF ServerTypes, m
<1>6. ConnTypes'
  <2>1. /\ iface \in [Watch -> BOOLEAN]
        /\ conn \in [Watch -> {"closed", "open", "gone"}]
        /\ pos \in [Watch -> 0..n] /\ rv \in [Watch -> 0..n]
        /\ base \in [Watch -> 0..n]
        /\ initial \in [Watch -> SUBSET (1..n)]
        /\ \A w \in Watch : \A v \in initial[w] : v <= base[w]
    BY <1>4 DEF IInv, ConnTypes, n
  <2>2. /\ pos \in [Watch -> 0..m] /\ rv \in [Watch -> 0..m]
        /\ base \in [Watch -> 0..m]
        /\ initial \in [Watch -> SUBSET (1..m)]
    BY <1>3, <2>1
  <2> QED
    BY <1>1, <1>4, <2>1, <2>2 DEF ConnTypes, m
<1>7. QueueTypes'
  <2>1. /\ queue \in [Watch -> Seq(1..n)] /\ waiting \in [Watch -> Seq(1..n)]
        /\ handled \in [Watch -> SUBSET (1..n)]
    BY <1>4 DEF IInv, QueueTypes
  <2>2. Seq(1..n) \subseteq Seq(1..m)
    BY <1>3, SeqGrows
  <2>3. /\ queue \in [Watch -> Seq(1..m)] /\ waiting \in [Watch -> Seq(1..m)]
        /\ handled \in [Watch -> SUBSET (1..m)]
    BY <1>3, <2>1, <2>2
  <2> QED
    BY <1>1, <1>4, <2>3 DEF QueueTypes
<1>8. WorkerTypes'
  <2>1. /\ worker \in [Watch -> [Worker -> WorkerState]]
        /\ holding \in [Watch -> [Worker -> 0..n]]
        /\ verdict \in [Watch -> [Worker -> CloudEvent]]
        /\ \A w \in Watch, k \in Worker :
               /\ worker[w][k] \in {"handle", "send"} <=> holding[w][k] # 0
               /\ w > used => worker[w][k] = "none"
    BY DEF IInv, WorkerTypes, n
  <2>2. holding \in [Watch -> [Worker -> 0..m]]
    BY <1>3, <2>1
  <2> QED
    BY <1>1, <2>1, <2>2 DEF WorkerTypes, m
<1> QED
  BY <1>1, <1>5, <1>6, <1>7, <1>8, Frame DEF IInv

(* The history is compacted, the kind installed, the SinkFilter edited     *)
LEMMA ServerIInv ==
    ASSUME IInv, Compact \/ Install \/ \E s \in Setting : Edit(s)
    PROVE  IInv'
<1>1. UNCHANGED <<log, rpc, want, role, current, used, restarts, filter, stop,
                  iface, conn, pos, initial, rv, base, queue, waiting, shut,
                  handled, loop, worker, holding, verdict>>
  BY DEF Compact, Install, Edit, reconcilerVars, connVars, queueVars, workerVars
<1>2. ServerTypes'
  <2>1. Len(log) \in Nat /\ ServerTypes
    BY DEF IInv, ServerTypes
  <2>2. CASE Compact
    BY <2>1, <2>2 DEF Compact, ServerTypes
  <2>3. CASE Install
    BY <2>1, <2>3 DEF Install, ServerTypes
  <2>4. CASE \E s \in Setting : Edit(s)
    BY <2>1, <2>4 DEF Edit, ServerTypes
  <2> QED
    BY <2>2, <2>3, <2>4
<1>3. ReconcilerTypes'
  <2>1. dirty' \in {dirty, TRUE}
    BY DEF Compact, Install, Edit, reconcilerVars
  <2> QED
    BY <1>1, <2>1 DEF IInv, ReconcilerTypes
<1> QED
  BY <1>1, <1>2, <1>3, Frame DEF IInv

(* A connection ends                                                       *)
LEMMA DisconnectIInv ==
    ASSUME IInv, NEW w \in Watch, Disconnect(w)
    PROVE  IInv'
<1>1. /\ conn' = [conn EXCEPT ![w] = "closed"]
      /\ UNCHANGED <<log, oldest, known, spec, edits, rpc, dirty, want, role,
                     current, used, restarts, filter, stop, iface, pos, initial,
                     rv, base, queue, waiting, shut, handled, loop, worker,
                     holding, verdict>>
  BY DEF Disconnect, serverVars, reconcilerVars, queueVars, workerVars
<1>2. ConnTypes'
  <2>1. conn' \in [Watch -> {"closed", "open", "gone"}]
    BY <1>1 DEF IInv, ConnTypes
  <2> QED
    BY <1>1, <2>1, Zenon DEF IInv, ConnTypes, Version
<1> QED
  BY <1>1, <1>2, Frame DEF IInv

-----------------------------------------------------------------------------
(* The reconciler                                                          *)

(* Reconcile up to generateWatches, and what generateWatches does when     *)
(* there is nothing to change                                              *)
LEMMA ReconcileIInv ==
    ASSUME IInv, \/ Reconcile \/ ReconcileClusterRole \/ ReconcileFails
                 \/ NothingToDo \/ CloseOfClosed \/ StopOfNil
    PROVE  IInv'
<1>1. UNCHANGED <<log, oldest, known, spec, edits, current, used, restarts,
                  filter, stop, iface, conn, pos, initial, rv, base, queue,
                  waiting, shut, handled, loop, worker, holding, verdict>>
  BY DEF Reconcile, ReconcileClusterRole, ReconcileFails, NothingToDo,
         CloseOfClosed, StopOfNil, serverVars, connVars, queueVars, workerVars
<1>2. /\ rpc' \in {"idle", "role", "generate"}
      /\ dirty' \in {dirty, TRUE, FALSE}
      /\ want' \in {want, spec}
      /\ role' \in {role, want.status = "listed" /\ known}
  <2>1. CASE Reconcile
    BY <2>1 DEF Reconcile
  <2>2. CASE ReconcileClusterRole
    BY <2>2 DEF ReconcileClusterRole
  <2>3. CASE ReconcileFails
    BY <2>3 DEF ReconcileFails, ReconcileEnds
  <2>4. CASE NothingToDo \/ CloseOfClosed \/ StopOfNil
    BY <2>4 DEF NothingToDo, CloseOfClosed, StopOfNil, ReconcileEnds
  <2> QED
    BY <2>1, <2>2, <2>3, <2>4
<1>3. ReconcilerTypes'
  <2>1. /\ dirty \in BOOLEAN /\ role \in BOOLEAN /\ want \in Setting
        /\ restarts \in Nat /\ used \in 0..NumWatches /\ current \in 0..used
    BY DEF IInv, ReconcilerTypes
  <2>2. spec \in Setting
    BY DEF IInv, ServerTypes
  <2>3. dirty' \in BOOLEAN /\ role' \in BOOLEAN
    BY <1>2, <2>1
  <2> QED
    BY <1>1, <1>2, <2>1, <2>2, <2>3 DEF ReconcilerTypes
<1>4. StopOrder'
  BY <1>1, <1>2 DEF IInv, StopOrder
<1> QED
  BY <1>1, <1>3, <1>4, Frame DEF IInv

(* What the SinkFilter asks for is made of CEL expressions                 *)
LEMMA SettingCel ==
    ASSUME NEW s \in Setting
    PROVE  s.cel \in CelExpressions
<1>1. NoCel \in CelExpressions
  BY DEF NoCel, CelExpressions
<1>2. Filter \subseteq CelExpressions
  BY WatchAssumption
<1>3. CASE s \in {Absent, Unlisted}
  BY <1>1, <1>3 DEF Absent, Unlisted
<1>4. ASSUME NEW f \in Filter, s = Listed(f) PROVE s.cel \in CelExpressions
  BY <1>2, <1>4 DEF Listed
<1> QED
  BY <1>3, <1>4 DEF Setting

(* A watch is created, its number the next                                 *)
LEMMA CreateWatchForGVRIInv ==
    ASSUME IInv, CreateWatchForGVR
    PROVE  IInv'
<1>1. /\ current = 0 /\ used < NumWatches /\ want.status = "listed"
      /\ current' = used + 1 /\ used' = used + 1
      /\ filter' = [filter EXCEPT ![used + 1] = want.cel]
      /\ loop' = [loop EXCEPT ![used + 1] = "top"]
      /\ worker' = [worker EXCEPT ![used + 1] = [k \in Worker |-> "top"]]
      /\ rpc' = "idle" /\ dirty' = dirty
      /\ UNCHANGED <<log, oldest, known, spec, edits, want, role, restarts, stop,
                     iface, conn, pos, initial, rv, base, queue, waiting, shut,
                     handled, holding, verdict>>
  BY DEF CreateWatchForGVR, ReconcileEnds, serverVars, connVars, queueVars
<1>2. /\ NumWatches \in Nat /\ used \in Nat /\ used + 1 \in Watch
      /\ used + 1 \in 0..NumWatches
  <2>1. NumWatches \in Nat
    BY WatchAssumption DEF NumWatches
  <2> QED
    BY <1>1, <2>1 DEF IInv, ReconcilerTypes, Watch
<1>3. ReconcilerTypes'
  BY <1>1, <1>2 DEF IInv, ReconcilerTypes
<1>4. FilterTypes'
  <2>1. want.cel \in CelExpressions
    BY SettingCel DEF IInv, ReconcilerTypes
  <2> QED
    BY <1>1, <1>2, <2>1 DEF IInv, FilterTypes
<1>5. LoopTypes'
  BY <1>1, <1>2 DEF IInv, LoopTypes, LoopState
<1>6. WorkerTypes'
  <2>1. worker' \in [Watch -> [Worker -> WorkerState]]
    BY <1>1, <1>2 DEF IInv, WorkerTypes, WorkerState
  <2>2. ASSUME NEW w \in Watch, NEW k \in Worker
        PROVE  /\ worker'[w][k] \in {"handle", "send"} <=> holding[w][k] # 0
               /\ w > used' => worker'[w][k] = "none"
    <3>0. w \in Nat
      BY DEF Watch
    <3>1. /\ worker[w][k] \in {"handle", "send"} <=> holding[w][k] # 0
          /\ w > used => worker[w][k] = "none"
      BY DEF IInv, WorkerTypes
    <3>2. CASE w = used + 1
      <4>1. worker[w][k] = "none" /\ worker'[w][k] = "top"
        BY <1>1, <1>2, <3>1, <3>2 DEF IInv, WorkerTypes
      <4> QED
        BY <1>1, <1>2, <3>1, <3>2, <4>1
    <3>3. CASE w # used + 1
      <4>1. worker'[w][k] = worker[w][k]
        BY <1>1, <1>2, <3>3 DEF IInv, WorkerTypes
      <4> QED
        BY <1>1, <1>2, <3>0, <3>1, <4>1
    <3> QED
      BY <3>2, <3>3
  <2> QED
    BY <1>1, <2>1, <2>2 DEF IInv, WorkerTypes
<1>7. StopOrder'
  BY <1>1 DEF IInv, StopOrder
<1>8. RemovedWatchesAreQuiet'
  <2>1. ASSUME NEW w \in 1..used', w # current'
        PROVE  stop'[w] /\ \A k \in Worker : worker'[w][k] = "exited"
    <3>1. w \in 1..used /\ w # current /\ w \in Watch /\ w # used + 1
      BY <1>1, <1>2, <2>1 DEF Watch
    <3>2. worker'[w] = worker[w]
      BY <1>1, <1>2, <3>1 DEF IInv, WorkerTypes
    <3> QED
      BY <1>1, <3>1, <3>2 DEF IInv, RemovedWatchesAreQuiet
  <2> QED
    BY <2>1 DEF RemovedWatchesAreQuiet
<1> QED
  BY <1>1, <1>3, <1>4, <1>5, <1>6, <1>7, <1>8, Frame DEF IInv

(* The filter of the watch is replaced                                     *)
LEMMA UpdateWatchIInv ==
    ASSUME IInv, UpdateWatch
    PROVE  IInv'
<1>1. /\ filter' = [filter EXCEPT ![current] = want.cel]
      /\ rpc' = "idle" /\ dirty' = dirty
      /\ UNCHANGED <<log, oldest, known, spec, edits, want, role, current, used,
                     restarts, stop, iface, conn, pos, initial, rv, base, queue,
                     waiting, shut, handled, loop, worker, holding, verdict>>
  BY DEF UpdateWatch, ReconcileEnds, serverVars, connVars, queueVars, workerVars
<1>2. ReconcilerTypes'
  BY <1>1 DEF IInv, ReconcilerTypes
<1>3. FilterTypes'
  <2>1. want.cel \in CelExpressions
    BY SettingCel DEF IInv, ReconcilerTypes
  <2> QED
    BY <1>1, <2>1 DEF IInv, FilterTypes
<1>4. StopOrder'
  BY <1>1 DEF IInv, StopOrder
<1> QED
  BY <1>1, <1>2, <1>3, <1>4, Frame DEF IInv

(* The watch in r.watches, and those before it, are watches                *)
LEMMA CurrentIsWatch ==
    ASSUME IInv
    PROVE  (current # 0 => current \in Watch) /\ 1..used \subseteq Watch
<1>1. NumWatches \in Nat
  BY WatchAssumption DEF NumWatches
<1> QED
  BY <1>1 DEF IInv, ReconcilerTypes, Watch

(* Stopping a watch: StopCh is closed first                                *)
LEMMA StopWatchIInv ==
    ASSUME IInv, StopWatch
    PROVE  IInv'
<1>1. /\ current # 0
      /\ stop' = [stop EXCEPT ![current] = TRUE]
      /\ rpc' \in {"interface", "shutdown"}
      /\ UNCHANGED <<log, oldest, known, spec, edits, dirty, want, role, current,
                     used, restarts, filter, iface, conn, pos, initial, rv, base,
                     queue, waiting, shut, handled, loop, worker, holding,
                     verdict>>
  BY DEF StopWatch, serverVars, connVars, queueVars, workerVars
<1>2. current \in Watch /\ stop \in [Watch -> BOOLEAN]
  BY <1>1, CurrentIsWatch DEF IInv, StopOrder
<1>3. \A w \in Watch : stop'[w] = IF w = current THEN TRUE ELSE stop[w]
  BY <1>1, <1>2
<1>4. ReconcilerTypes'
  BY <1>1 DEF IInv, ReconcilerTypes
<1>5. StopOrder'
  <2>1. stop' \in [Watch -> BOOLEAN]
    BY <1>1, <1>2
  <2> QED
    BY <1>1, <1>2, <1>3, <2>1 DEF IInv, StopOrder
<1>6. RemovedWatchesAreQuiet'
  <2>1. 1..used \subseteq Watch
    BY CurrentIsWatch
  <2>2. \A w \in 1..used : stop[w] => stop'[w]
    BY <1>3, <2>1
  <2> QED
    BY <1>1, <2>2, Zenon DEF IInv, RemovedWatchesAreQuiet
<1>7. NoneLost'
  <2>1. \A w \in Watch : ~ stop'[w] => ~ stop[w]
    BY <1>3
  <2> QED
    BY <1>1, <2>1, Zenon DEF IInv, NoneLost
<1> QED
  BY <1>1, <1>4, <1>5, <1>6, <1>7, Frame DEF IInv

(* then the connection                                                     *)
LEMMA StopInterfaceIInv ==
    ASSUME IInv, StopInterface
    PROVE  IInv'
<1>1. /\ rpc = "interface" /\ rpc' = "shutdown"
      /\ conn' = IF iface[current] THEN [conn EXCEPT ![current] = "closed"]
                                   ELSE conn
      /\ UNCHANGED <<log, oldest, known, spec, edits, dirty, want, role, current,
                     used, restarts, filter, stop, iface, pos, initial, rv, base,
                     queue, waiting, shut, handled, loop, worker, holding,
                     verdict>>
  BY DEF StopInterface, serverVars, queueVars, workerVars
<1>2. ReconcilerTypes'
  BY <1>1 DEF IInv, ReconcilerTypes
<1>3. ConnTypes'
  <2>1. conn' \in [Watch -> {"closed", "open", "gone"}]
    BY <1>1 DEF IInv, ConnTypes
  <2> QED
    BY <1>1, <2>1, Zenon DEF IInv, ConnTypes, Version
<1>4. StopOrder'
  BY <1>1 DEF IInv, StopOrder
<1> QED
  BY <1>1, <1>2, <1>3, <1>4, Frame DEF IInv

(* then the queue is shut down, which drops what waits for its rate limit: *)
(* the watch is stopped                                                    *)
LEMMA ShutDownIInv ==
    ASSUME IInv, ShutDown
    PROVE  IInv'
<1>1. /\ rpc = "shutdown" /\ rpc' = "wait"
      /\ shut' = [shut EXCEPT ![current] = TRUE]
      /\ waiting' = [waiting EXCEPT ![current] = <<>>]
      /\ UNCHANGED <<log, oldest, known, spec, edits, dirty, want, role, current,
                     used, restarts, filter, stop, iface, conn, pos, initial, rv,
                     base, queue, handled, loop, worker, holding, verdict>>
  BY DEF ShutDown, serverVars, connVars, workerVars
<1>2. current # 0 /\ stop[current]
  BY <1>1 DEF IInv, StopOrder
<1>3. current \in Watch
  BY <1>2, CurrentIsWatch
<1>4. ReconcilerTypes'
  BY <1>1 DEF IInv, ReconcilerTypes
<1>5. QueueTypes'
  <2>1. waiting' \in [Watch -> Seq(Version)]
    <3>1. <<>> \in Seq(Version) /\ waiting \in [Watch -> Seq(Version)]
      BY DEF IInv, QueueTypes
    <3> QED
      BY <1>1, <3>1
  <2> QED
    BY <1>1, <2>1, Zenon DEF IInv, QueueTypes, Version
<1>6. StopOrder'
  <2>1. shut' \in [Watch -> BOOLEAN]
    BY <1>1 DEF IInv, StopOrder
  <2>2. \A w \in Watch : shut'[w] => stop[w]
    BY <1>1, <1>2, <1>3 DEF IInv, StopOrder
  <2> QED
    BY <1>1, <1>2, <2>1, <2>2, Zenon DEF IInv, StopOrder
<1>7. NoneLost'
  <2>1. \A w \in Watch : ~ stop[w] => waiting'[w] = waiting[w]
    BY <1>1, <1>2, <1>3 DEF IInv, QueueTypes
  <2> QED
    BY <1>1, <2>1 DEF IInv, NoneLost
<1> QED
  BY <1>1, <1>4, <1>5, <1>6, <1>7, Frame DEF IInv

(* then the workers are waited for, and the watch is removed               *)
LEMMA WaitIInv ==
    ASSUME IInv, Wait
    PROVE  IInv'
<1>1. /\ rpc = "wait" /\ rpc' = "idle" /\ dirty' = dirty /\ current' = 0
      /\ \A k \in Worker : worker[current][k] = "exited"
      /\ UNCHANGED <<log, oldest, known, spec, edits, want, role, used, restarts,
                     filter, stop, iface, conn, pos, initial, rv, base, queue,
                     waiting, shut, handled, loop, worker, holding, verdict>>
  BY DEF Wait, ReconcileEnds, serverVars, connVars, queueVars, workerVars
<1>2. stop[current]
  BY <1>1 DEF IInv, StopOrder
<1>3. ReconcilerTypes'
  <2>1. NumWatches \in Nat
    BY WatchAssumption DEF NumWatches
  <2> QED
    BY <1>1, <2>1 DEF IInv, ReconcilerTypes
<1>4. StopOrder'
  BY <1>1 DEF IInv, StopOrder
<1>5. RemovedWatchesAreQuiet'
  <2>1. ASSUME NEW w \in 1..used
        PROVE  stop[w] /\ \A k \in Worker : worker[w][k] = "exited"
    <3>1. CASE w = current
      BY <1>1, <1>2, <3>1
    <3>2. CASE w # current
      BY <3>2 DEF IInv, RemovedWatchesAreQuiet
    <3> QED
      BY <3>1, <3>2
  <2> QED
    BY <1>1, <2>1, Zenon DEF RemovedWatchesAreQuiet
<1> QED
  BY <1>1, <1>3, <1>4, <1>5, Frame DEF IInv

-----------------------------------------------------------------------------
(* watchLoop                                                               *)

(* The steps of the loop that only go somewhere                            *)
LEMMA LoopMovesIInv ==
    ASSUME IInv, NEW w \in Watch,
           \/ LoopTop(w) \/ CreateWatchFails(w) \/ Backoff(w) \/ LeaveEvents(w)
    PROVE  IInv'
<1>1. UNCHANGED <<log, oldest, known, spec, edits, rpc, dirty, want, role,
                  current, used, restarts, filter, stop, iface, conn, pos,
                  initial, rv, base, queue, waiting, shut, handled, worker,
                  holding, verdict>>
  BY DEF LoopTop, CreateWatchFails, Backoff, LeaveEvents, serverVars,
         reconcilerVars, connVars, queueVars, workerVars
<1>2. LoopTypes'
  <2>1. \E s \in LoopState : loop' = [loop EXCEPT ![w] = s]
    BY DEF LoopTop, CreateWatchFails, Backoff, LeaveEvents, LoopState
  <2> QED
    BY <2>1 DEF IInv, LoopTypes
<1> QED
  BY <1>1, <1>2, Frame DEF IInv

(* A watch starts: from all that exists, or after the version it remembers *)
LEMMA CreateWatchIInv ==
    ASSUME IInv, NEW w \in Watch, CreateWatch(w)
    PROVE  IInv'
<1> DEFINE n == Len(log)
           all == {LastChange(o) : o \in {x \in Obj : Exists(x)}}
<1>1. /\ loop' = [loop EXCEPT ![w] = "process"]
      /\ iface' = [iface EXCEPT ![w] = TRUE]
      /\ conn' = [conn EXCEPT ![w] = IF rv[w] # 0 /\ rv[w] < oldest
                                     THEN "gone" ELSE "open"]
      /\ pos' = [pos EXCEPT ![w] = IF rv[w] = 0 THEN n ELSE rv[w]]
      /\ initial' = [initial EXCEPT ![w] = IF rv[w] = 0 THEN all ELSE {}]
      /\ base' = [base EXCEPT ![w] = IF rv[w] = 0 THEN n ELSE @]
      /\ UNCHANGED <<log, oldest, known, spec, edits, rpc, dirty, want, role,
                     current, used, restarts, filter, stop, rv, queue, waiting,
                     shut, handled, worker, holding, verdict>>
  BY DEF CreateWatch, StartOf, serverVars, reconcilerVars, queueVars, workerVars
<1>2. all \subseteq Version
  BY LastChangeIs DEF IInv
<1>3. n \in Nat /\ Version = 1..n
  BY DEF IInv, ServerTypes, Version
<1>4. /\ iface \in [Watch -> BOOLEAN]
      /\ conn \in [Watch -> {"closed", "open", "gone"}]
      /\ pos \in [Watch -> 0..n] /\ rv \in [Watch -> 0..n]
      /\ base \in [Watch -> 0..n] /\ initial \in [Watch -> SUBSET Version]
      /\ \A u \in Watch : \A v \in initial[u] : v <= base[u]
  BY DEF IInv, ConnTypes
<1> HIDE DEF all, n
<1>5. \A u \in Watch :
        /\ u # w => pos'[u] = pos[u] /\ initial'[u] = initial[u]
                    /\ base'[u] = base[u]
        /\ u = w => /\ pos'[u] = IF rv[u] = 0 THEN n ELSE rv[u]
                    /\ initial'[u] = IF rv[u] = 0 THEN all ELSE {}
                    /\ base'[u] = IF rv[u] = 0 THEN n ELSE base[u]
  BY <1>1, <1>4
<1>6. ConnTypes'
  <2>1. iface' \in [Watch -> BOOLEAN]
    BY <1>1, <1>4
  <2>2. conn' \in [Watch -> {"closed", "open", "gone"}]
    BY <1>1, <1>4
  <2>3. pos' \in [Watch -> 0..n] /\ base' \in [Watch -> 0..n]
    BY <1>1, <1>3, <1>4
  <2>4. initial' \in [Watch -> SUBSET Version]
    BY <1>1, <1>2, <1>4
  <2>5. ASSUME NEW u \in Watch, NEW v \in initial'[u] PROVE v <= base'[u]
    <3>1. CASE u # w
      BY <1>4, <1>5, <2>5, <3>1
    <3>2. CASE u = w
      <4>1. rv[u] = 0 /\ v \in all /\ base'[u] = n
        BY <1>5, <2>5, <3>2
      <4>2. v \in 1..n
        BY <1>2, <1>3, <4>1
      <4> QED
        BY <4>1, <4>2
    <3> QED
      BY <3>1, <3>2
  <2>6. Len(log') = n /\ Version' = Version /\ rv' = rv
    BY <1>1 DEF n, Version
  <2> QED
    BY <1>4, <2>1, <2>2, <2>3, <2>4, <2>5, <2>6 DEF ConnTypes
<1>7. LoopTypes'
  BY <1>1 DEF IInv, LoopTypes, LoopState
<1>8. NoneLost'
  <2>1. ASSUME NEW u \in Watch, ~ stop[u],
               NEW hd, NEW q, NEW l, NEW h,
               KeptUpTo(base[u], rv[u], hd, q, l, h),
               KeptUpTo(base[u], pos[u], hd, q, l, h)
        PROVE  /\ KeptUpTo(base'[u], rv[u], hd, q, l, h)
               /\ KeptUpTo(base'[u], pos'[u], hd, q, l, h)
    <3>0. n \in Nat /\ rv[u] \in Nat
      BY <1>3, <1>4
    <3>1. CASE u # w
      BY <1>5, <2>1, <3>1
    <3>2. CASE u = w /\ rv[u] = 0
      <4>1. base'[u] = n /\ pos'[u] = n
        BY <1>5, <3>2
      <4> QED
        BY <3>0, <3>2, <4>1 DEF KeptUpTo
    <3>3. CASE u = w /\ rv[u] # 0
      BY <1>5, <2>1, <3>3
    <3> QED
      BY <3>1, <3>2, <3>3
  <2> QED
    BY <1>1, <2>1 DEF IInv, NoneLost
<1> QED
  BY <1>1, <1>6, <1>7, <1>8, Frame DEF IInv

(* An event that is kept under one state of a watch and under another      *)
LEMMA KeptMono ==
    ASSUME NEW b, NEW n, NEW hd, NEW q, NEW l, NEW h,
           NEW hd2, NEW q2, NEW l2, NEW h2,
           KeptUpTo(b, n, hd, q, l, h),
           \A v \in Nat : Kept(v, hd, q, l, h) => Kept(v, hd2, q2, l2, h2)
    PROVE  KeptUpTo(b, n, hd2, q2, l2, h2)
  BY DEF KeptUpTo

(* An initial event is queued.  It is of no version after the one the      *)
(* watch started at                                                        *)
LEMMA InitialEventIInv ==
    ASSUME IInv, NEW w \in Watch, NEW v, InitialEvent(w, v)
    PROVE  IInv'
<1>1. /\ v \in initial[w]
      /\ initial' = [initial EXCEPT ![w] = @ \ {v}]
      /\ rv' = [rv EXCEPT ![w] = v]
      /\ queue' = [queue EXCEPT ![w] = IF shut[w] THEN @ ELSE Append(@, v)]
      /\ UNCHANGED <<log, oldest, known, spec, edits, rpc, dirty, want, role,
                     current, used, restarts, filter, stop, iface, conn, pos,
                     base, waiting, shut, handled, loop, worker, holding,
                     verdict>>
  BY DEF InitialEvent, Enqueue, serverVars, reconcilerVars, workerVars
<1>2. /\ initial \in [Watch -> SUBSET Version] /\ rv \in [Watch -> 0..Len(log)]
      /\ base \in [Watch -> 0..Len(log)] /\ v \in Version /\ v <= base[w]
      /\ Len(log) \in Nat /\ v \in 0..Len(log)
  BY <1>1 DEF IInv, ServerTypes, ConnTypes, Version
<1>3. queue \in [Watch -> Seq(Version)]
  BY DEF IInv, QueueTypes
<1>4. /\ Append(queue[w], v) \in Seq(Version)
      /\ \A x \in Range(queue[w]) : x \in Range(Append(queue[w], v))
  BY <1>2, <1>3, RangeAppend
<1>5. ConnTypes'
  <2>1. initial' \in [Watch -> SUBSET Version] /\ rv' \in [Watch -> 0..Len(log)]
    BY <1>1, <1>2
  <2>2. \A u \in Watch : initial'[u] \subseteq initial[u]
    BY <1>1, <1>2
  <2>3. \A u \in Watch : \A x \in initial'[u] : x <= base[u]
    BY <2>2 DEF IInv, ConnTypes
  <2> QED
    BY <1>1, <2>1, <2>3, Zenon DEF IInv, ConnTypes, Version
<1>6. QueueTypes'
  <2>1. queue' \in [Watch -> Seq(Version)]
    BY <1>1, <1>3, <1>4
  <2> QED
    BY <1>1, <2>1, Zenon DEF IInv, QueueTypes, Version
<1>7. NoneLost'
  <2> SUFFICES ASSUME NEW u \in Watch, ~ stop[u]
               PROVE  /\ KeptUpTo(base[u], rv'[u], handled[u], queue'[u],
                                  waiting[u], holding[u])
                      /\ KeptUpTo(base[u], pos[u], handled[u], queue'[u],
                                  waiting[u], holding[u])
    BY <1>1, Zenon DEF NoneLost
  <2>1. /\ KeptUpTo(base[u], rv[u], handled[u], queue[u], waiting[u], holding[u])
        /\ KeptUpTo(base[u], pos[u], handled[u], queue[u], waiting[u], holding[u])
    BY DEF IInv, NoneLost
  <2>2. \A x \in Range(queue[u]) : x \in Range(queue'[u])
    BY <1>1, <1>3, <1>4
  <2>3. \A x \in Nat : Kept(x, handled[u], queue[u], waiting[u], holding[u])
                     => Kept(x, handled[u], queue'[u], waiting[u], holding[u])
    BY <2>2 DEF Kept
  <2>4. KeptUpTo(base[u], pos[u], handled[u], queue'[u], waiting[u], holding[u])
    BY <2>1, <2>3, KeptMono
  <2>5. CASE u # w
    <3>1. rv'[u] = rv[u]
      BY <1>1, <1>2, <2>5
    <3>2. KeptUpTo(base[u], rv[u], handled[u], queue'[u], waiting[u], holding[u])
      BY <2>1, <2>3, KeptMono
    <3> QED
      BY <2>4, <3>1, <3>2
  <2>6. CASE u = w
    <3>1. rv'[u] = v
      BY <1>1, <1>2, <2>6
    <3>2. KeptUpTo(base[u], v, handled[u], queue'[u], waiting[u], holding[u])
      BY <1>2, <2>6 DEF KeptUpTo, Version
    <3> QED
      BY <2>4, <3>1, <3>2
  <2> QED
    BY <2>5, <2>6
<1> QED
  BY <1>1, <1>5, <1>6, <1>7, Frame DEF IInv

(* The event of the next change is queued, unless the watch is stopped     *)
LEMMA ChangeEventIInv ==
    ASSUME IInv, NEW w \in Watch, ChangeEvent(w)
    PROVE  IInv'
<1> DEFINE v == pos[w] + 1
<1>1. /\ pos[w] < Len(log)
      /\ pos' = [pos EXCEPT ![w] = v]
      /\ rv' = [rv EXCEPT ![w] = v]
      /\ queue' = [queue EXCEPT ![w] = IF shut[w] THEN @ ELSE Append(@, v)]
      /\ UNCHANGED <<log, oldest, known, spec, edits, rpc, dirty, want, role,
                     current, used, restarts, filter, stop, iface, conn, initial,
                     base, waiting, shut, handled, loop, worker, holding,
                     verdict>>
  BY DEF ChangeEvent, Enqueue, serverVars, reconcilerVars, workerVars
<1>2. /\ pos \in [Watch -> 0..Len(log)] /\ rv \in [Watch -> 0..Len(log)]
      /\ base \in [Watch -> 0..Len(log)] /\ Len(log) \in Nat
      /\ pos[w] \in Nat /\ v \in Version /\ v \in 0..Len(log) /\ v \in Nat
  BY <1>1 DEF IInv, ServerTypes, ConnTypes, Version
<1>3. queue \in [Watch -> Seq(Version)]
  BY DEF IInv, QueueTypes
<1> HIDE DEF v
<1>4. /\ Append(queue[w], v) \in Seq(Version)
      /\ v \in Range(Append(queue[w], v))
      /\ \A x \in Range(queue[w]) : x \in Range(Append(queue[w], v))
  BY <1>2, <1>3, RangeAppend
<1>5. ConnTypes'
  <2>1. pos' \in [Watch -> 0..Len(log)] /\ rv' \in [Watch -> 0..Len(log)]
    BY <1>1, <1>2
  <2> QED
    BY <1>1, <2>1, Zenon DEF IInv, ConnTypes, Version
<1>6. QueueTypes'
  <2>1. queue' \in [Watch -> Seq(Version)]
    BY <1>1, <1>3, <1>4
  <2> QED
    BY <1>1, <2>1, Zenon DEF IInv, QueueTypes, Version
<1>7. NoneLost'
  <2> SUFFICES ASSUME NEW u \in Watch, ~ stop[u]
               PROVE  /\ KeptUpTo(base[u], rv'[u], handled[u], queue'[u],
                                  waiting[u], holding[u])
                      /\ KeptUpTo(base[u], pos'[u], handled[u], queue'[u],
                                  waiting[u], holding[u])
    BY <1>1, Zenon DEF NoneLost
  <2>1. /\ KeptUpTo(base[u], rv[u], handled[u], queue[u], waiting[u], holding[u])
        /\ KeptUpTo(base[u], pos[u], handled[u], queue[u], waiting[u], holding[u])
    BY DEF IInv, NoneLost
  <2>2. CASE u # w
    BY <1>1, <1>2, <1>3, <2>1, <2>2
  <2>3. CASE u = w
    <3>1. rv'[u] = v /\ pos'[u] = v /\ ~ shut[u]
      BY <1>1, <1>2, <2>3 DEF IInv, StopOrder
    <3>2. queue'[u] = Append(queue[u], v)
      BY <1>1, <1>3, <2>3, <3>1
    <3>3. Kept(v, handled[u], queue'[u], waiting[u], holding[u])
      BY <1>4, <2>3, <3>2 DEF Kept
    <3>4. \A x \in Nat : Kept(x, handled[u], queue[u], waiting[u], holding[u])
                       => Kept(x, handled[u], queue'[u], waiting[u], holding[u])
      BY <1>4, <2>3, <3>2 DEF Kept
    <3>5. KeptUpTo(base[u], pos[u], handled[u], queue'[u], waiting[u], holding[u])
      BY <2>1, <3>4, KeptMono
    <3>6. \A x \in Nat : x <= v => x = v \/ x <= pos[u]
      BY <1>2, <2>3 DEF v
    <3>7. KeptUpTo(base[u], v, handled[u], queue'[u], waiting[u], holding[u])
      BY <3>3, <3>5, <3>6 DEF KeptUpTo
    <3> QED
      BY <3>1, <3>7
  <2> QED
    BY <2>2, <2>3
<1> QED
  BY <1>1, <1>5, <1>6, <1>7, Frame DEF IInv

(* An error may clear the version                                          *)
LEMMA ErrorEventIInv ==
    ASSUME IInv, NEW w \in Watch, ErrorEvent(w)
    PROVE  IInv'
<1>1. /\ loop' = [loop EXCEPT ![w] = "leave"]
      /\ rv' = rv \/ rv' = [rv EXCEPT ![w] = 0]
      /\ UNCHANGED <<log, oldest, known, spec, edits, rpc, dirty, want, role,
                     current, used, restarts, filter, stop, iface, conn, pos,
                     initial, base, queue, waiting, shut, handled, worker,
                     holding, verdict>>
  BY DEF ErrorEvent, serverVars, reconcilerVars, queueVars, workerVars
<1>2. /\ rv \in [Watch -> 0..Len(log)] /\ base \in [Watch -> 0..Len(log)]
      /\ Len(log) \in Nat
  BY DEF IInv, ServerTypes, ConnTypes
<1>3. LoopTypes'
  BY <1>1 DEF IInv, LoopTypes, LoopState
<1>4. ConnTypes'
  <2>1. rv' \in [Watch -> 0..Len(log)]
    BY <1>1, <1>2
  <2> QED
    BY <1>1, <2>1, Zenon DEF IInv, ConnTypes, Version
<1>5. NoneLost'
  <2>1. \A u \in Watch : rv'[u] = rv[u] \/ rv'[u] = 0
    BY <1>1, <1>2
  <2>2. \A u \in Watch : base[u] \in Nat
    BY <1>2
  <2>3. ASSUME NEW u \in Watch, NEW hd, NEW q, NEW l, NEW h,
               KeptUpTo(base[u], rv[u], hd, q, l, h)
        PROVE  KeptUpTo(base[u], rv'[u], hd, q, l, h)
    <3>1. CASE rv'[u] = rv[u]
      BY <2>3, <3>1
    <3>2. CASE rv'[u] = 0
      BY <2>2, <3>2 DEF KeptUpTo
    <3> QED
      BY <2>1, <3>1, <3>2
  <2> QED
    BY <1>1, <2>3 DEF IInv, NoneLost
<1> QED
  BY <1>1, <1>3, <1>4, <1>5, Frame DEF IInv

(* The loop closes its connection                                          *)
LEMMA DisconnectedIInv ==
    ASSUME IInv, NEW w \in Watch, Disconnected(w)
    PROVE  IInv'
<1>1. /\ conn' = [conn EXCEPT ![w] = "closed"]
      /\ iface' = [iface EXCEPT ![w] = FALSE]
      /\ loop' = [loop EXCEPT ![w] = "top"]
      /\ UNCHANGED <<log, oldest, known, spec, edits, rpc, dirty, want, role,
                     current, used, restarts, filter, stop, pos, initial, rv,
                     base, queue, waiting, shut, handled, worker, holding,
                     verdict>>
  BY DEF Disconnected, serverVars, reconcilerVars, queueVars, workerVars
<1>2. LoopTypes'
  BY <1>1 DEF IInv, LoopTypes, LoopState
<1>3. ConnTypes'
  <2>1. /\ conn' \in [Watch -> {"closed", "open", "gone"}]
        /\ iface' \in [Watch -> BOOLEAN]
    BY <1>1 DEF IInv, ConnTypes
  <2> QED
    BY <1>1, <2>1, Zenon DEF IInv, ConnTypes, Version
<1> QED
  BY <1>1, <1>2, <1>3, Frame DEF IInv

-----------------------------------------------------------------------------
(* The workers                                                             *)

(* Nothing is lost when the events only move                               *)
LEMMA EventsMove ==
    ASSUME IInv, UNCHANGED <<stop, base, rv, pos>>,
           \A u \in Watch : ~ stop[u] => \A v \in Nat :
              v # 0 /\ Kept(v, handled[u], queue[u], waiting[u], holding[u])
              => Kept(v, handled'[u], queue'[u], waiting'[u], holding'[u])
    PROVE  NoneLost'
<1> SUFFICES ASSUME NEW u \in Watch, ~ stop[u]
             PROVE  /\ KeptUpTo(base[u], rv[u], handled'[u], queue'[u],
                                waiting'[u], holding'[u])
                    /\ KeptUpTo(base[u], pos[u], handled'[u], queue'[u],
                                waiting'[u], holding'[u])
  BY Zenon DEF NoneLost
<1>1. /\ KeptUpTo(base[u], rv[u], handled[u], queue[u], waiting[u], holding[u])
      /\ KeptUpTo(base[u], pos[u], handled[u], queue[u], waiting[u], holding[u])
  BY DEF IInv, NoneLost
<1>2. base[u] \in Nat
  BY DEF IInv, ServerTypes, ConnTypes
<1>3. \A v \in Nat : base[u] < v => v # 0
  BY <1>2
<1> QED
  BY <1>1, <1>3 DEF KeptUpTo

(* Only the worker of a watch that is not over moves                       *)
LEMMA QuietStays ==
    ASSUME IInv, NEW w \in Watch, NEW k \in Worker, NEW s,
           worker[w][k] # "exited", worker' = [worker EXCEPT ![w][k] = s],
           UNCHANGED <<used, current, stop>>
    PROVE  RemovedWatchesAreQuiet'
<1>1. ASSUME NEW u \in 1..used, u # current
      PROVE  stop[u] /\ \A j \in Worker : worker'[u][j] = "exited"
  <2>1. stop[u] /\ \A j \in Worker : worker[u][j] = "exited"
    BY <1>1 DEF IInv, RemovedWatchesAreQuiet
  <2>2. u # w /\ u \in Watch
    BY <2>1, CurrentIsWatch
  <2>3. worker'[u] = worker[u]
    BY <2>2 DEF IInv, WorkerTypes
  <2> QED
    BY <2>1, <2>3
<1> QED
  BY <1>1, Zenon DEF RemovedWatchesAreQuiet

(* A worker goes on, or away, with nothing in its hands                    *)
LEMMA WorkerMovesIInv ==
    ASSUME IInv, NEW w \in Watch, NEW k \in Worker,
           WorkerTop(w, k) \/ GetShutDown(w, k)
    PROVE  IInv'
<1>1. /\ UNCHANGED <<log, oldest, known, spec, edits, rpc, dirty, want, role,
                     current, used, restarts, filter, stop, iface, conn, pos,
                     initial, rv, base, queue, waiting, shut, handled, loop,
                     holding, verdict>>
      /\ worker[w][k] \in {"top", "get"}
  BY DEF WorkerTop, GetShutDown, serverVars, reconcilerVars, connVars, queueVars
<1>2. PICK s \in {"exited", "get"} : worker' = [worker EXCEPT ![w][k] = s]
  BY DEF WorkerTop, GetShutDown, Goto
<1>3. WorkerTypes'
  <2>1. worker \in [Watch -> [Worker -> WorkerState]] /\ s \in WorkerState
    BY <1>2 DEF IInv, WorkerTypes, WorkerState
  <2>2. worker' \in [Watch -> [Worker -> WorkerState]]
    BY <1>2, <2>1
  <2>3. ASSUME NEW u \in Watch, NEW j \in Worker
        PROVE  /\ worker'[u][j] \in {"handle", "send"} <=> holding[u][j] # 0
               /\ u > used => worker'[u][j] = "none"
    <3>1. /\ worker[u][j] \in {"handle", "send"} <=> holding[u][j] # 0
          /\ u > used => worker[u][j] = "none"
      BY DEF IInv, WorkerTypes
    <3>2. CASE u = w /\ j = k
      <4>1. worker'[u][j] = s
        BY <1>2, <2>1, <3>2
      <4> QED
        BY <1>1, <1>2, <3>1, <3>2, <4>1
    <3>3. CASE ~(u = w /\ j = k)
      <4>1. worker'[u][j] = worker[u][j]
        BY <1>2, <2>1, <3>3
      <4> QED
        BY <3>1, <4>1
    <3> QED
      BY <3>2, <3>3
  <2> QED
    BY <1>1, <2>2, <2>3 DEF IInv, WorkerTypes
<1>4. RemovedWatchesAreQuiet'
  BY <1>1, <1>2, QuietStays
<1> QED
  BY <1>1, <1>3, <1>4, Frame DEF IInv

(* The event moves from the queue to the worker, which has none            *)
LEMMA GetIInv ==
    ASSUME IInv, NEW w \in Watch, NEW k \in Worker, Get(w, k)
    PROVE  IInv'
<1> DEFINE x == Head(queue[w])
<1>1. /\ worker[w][k] = "get" /\ queue[w] # <<>>
      /\ holding' = [holding EXCEPT ![w][k] = x]
      /\ queue' = [queue EXCEPT ![w] = Tail(queue[w])]
      /\ worker' = [worker EXCEPT ![w][k] = "handle"]
      /\ UNCHANGED <<log, oldest, known, spec, edits, rpc, dirty, want, role,
                     current, used, restarts, filter, stop, iface, conn, pos,
                     initial, rv, base, waiting, shut, handled, loop, verdict>>
  BY DEF Get, Goto, serverVars, reconcilerVars, connVars
<1>2. /\ queue \in [Watch -> Seq(Version)] /\ Len(log) \in Nat
      /\ worker \in [Watch -> [Worker -> WorkerState]]
      /\ holding \in [Watch -> [Worker -> 0..Len(log)]]
  BY DEF IInv, ServerTypes, QueueTypes, WorkerTypes
<1>3. /\ x \in Version /\ Tail(queue[w]) \in Seq(Version)
      /\ \A v \in Range(queue[w]) : v = x \/ v \in Range(Tail(queue[w]))
  BY <1>1, <1>2, RangeTail
<1> HIDE DEF x
<1>4. x \in 0..Len(log) /\ x # 0
  BY <1>2, <1>3 DEF Version
<1>5. QueueTypes'
  <2>1. queue' \in [Watch -> Seq(Version)]
    BY <1>1, <1>2, <1>3
  <2> QED
    BY <1>1, <2>1, Zenon DEF IInv, QueueTypes, Version
<1>6. WorkerTypes'
  <2>1. worker' \in [Watch -> [Worker -> WorkerState]]
    BY <1>1, <1>2 DEF WorkerState
  <2>2. holding' \in [Watch -> [Worker -> 0..Len(log)]]
    BY <1>1, <1>2, <1>4
  <2>3. ASSUME NEW u \in Watch, NEW j \in Worker
        PROVE  /\ worker'[u][j] \in {"handle", "send"} <=> holding'[u][j] # 0
               /\ u > used => worker'[u][j] = "none"
    <3>0. /\ worker[u][j] \in {"handle", "send"} <=> holding[u][j] # 0
          /\ u > used => worker[u][j] = "none"
      BY DEF IInv, WorkerTypes
    <3>1. CASE u = w /\ j = k
      <4>1. holding'[u][j] = x /\ worker'[u][j] = "handle"
        BY <1>1, <1>2, <3>1
      <4> QED
        BY <1>1, <1>4, <3>0, <3>1, <4>1
    <3>2. CASE ~(u = w /\ j = k)
      <4>1. holding'[u][j] = holding[u][j] /\ worker'[u][j] = worker[u][j]
        BY <1>1, <1>2, <3>2
      <4> QED
        BY <3>0, <4>1
    <3> QED
      BY <3>1, <3>2
  <2> QED
    BY <1>1, <2>1, <2>2, <2>3 DEF IInv, WorkerTypes
<1>7. RemovedWatchesAreQuiet'
  BY <1>1, QuietStays
<1>8. NoneLost'
  <2>0. holding[w][k] = 0
    BY <1>1 DEF IInv, WorkerTypes
  <2>1. ASSUME NEW u \in Watch, NEW v \in Nat, v # 0,
               Kept(v, handled[u], queue[u], waiting[u], holding[u])
        PROVE  Kept(v, handled[u], queue'[u], waiting[u], holding'[u])
    <3>1. CASE u # w
      <4>1. queue'[u] = queue[u] /\ holding'[u] = holding[u]
        BY <1>1, <1>2, <3>1
      <4> QED
        BY <2>1, <4>1
    <3>2. CASE u = w
      <4>1. /\ queue'[u] = Tail(queue[u]) /\ holding'[u][k] = x
            /\ \A j \in Worker : j # k => holding'[u][j] = holding[u][j]
        BY <1>1, <1>2, <3>2
      <4> QED
        BY <1>3, <2>0, <2>1, <3>2, <4>1, Zenon DEF Kept
    <3> QED
      BY <3>1, <3>2
  <2> QED
    BY <1>1, <2>1, EventsMove
<1> QED
  BY <1>1, <1>5, <1>6, <1>7, <1>8, Frame DEF IInv

(* What a worker handles is a version                                      *)
LEMMA HeldIsVersion ==
    ASSUME IInv, NEW w \in Watch, NEW k \in Worker,
           worker[w][k] \in {"handle", "send"}
    PROVE  holding[w][k] \in Version
<1>1. Len(log) \in Nat /\ holding[w][k] \in 0..Len(log) /\ holding[w][k] # 0
  BY DEF IInv, ServerTypes, WorkerTypes
<1> QED
  BY <1>1 DEF Version

(* A worker lets go of its event, which was handled or waits again         *)
LEMMA LetGo ==
    ASSUME IInv, NEW w \in Watch, NEW k \in Worker,
           worker[w][k] \in {"handle", "send"},
           holding' = [holding EXCEPT ![w][k] = 0],
           verdict' = [verdict EXCEPT ![w][k] = "no"],
           worker' = [worker EXCEPT ![w][k] = "top"],
           UNCHANGED <<log, oldest, known, spec, edits, rpc, dirty, want, role,
                       current, used, restarts, filter, stop, iface, conn, pos,
                       initial, rv, base, queue, shut, loop>>,
           QueueTypes',
           ~ stop[w] => \/ holding[w][k] \in handled'[w]
                        \/ holding[w][k] \in Range(waiting'[w]),
           \A u \in Watch : ~ stop[u] =>
              /\ handled[u] \subseteq handled'[u]
              /\ \A v \in Range(waiting[u]) : v \in Range(waiting'[u])
    PROVE  IInv'
<1>1. /\ worker \in [Watch -> [Worker -> WorkerState]] /\ Len(log) \in Nat
      /\ holding \in [Watch -> [Worker -> 0..Len(log)]]
      /\ verdict \in [Watch -> [Worker -> CloudEvent]]
  BY DEF IInv, ServerTypes, WorkerTypes
<1>2. WorkerTypes'
  <2>1. worker' \in [Watch -> [Worker -> WorkerState]]
    BY <1>1 DEF WorkerState
  <2>2. holding' \in [Watch -> [Worker -> 0..Len(log)]]
    BY <1>1
  <2>3. verdict' \in [Watch -> [Worker -> CloudEvent]]
    BY <1>1 DEF CloudEvent
  <2>4. ASSUME NEW u \in Watch, NEW j \in Worker
        PROVE  /\ worker'[u][j] \in {"handle", "send"} <=> holding'[u][j] # 0
               /\ u > used => worker'[u][j] = "none"
    <3>0. /\ worker[u][j] \in {"handle", "send"} <=> holding[u][j] # 0
          /\ u > used => worker[u][j] = "none"
      BY DEF IInv, WorkerTypes
    <3>1. CASE u = w /\ j = k
      <4>1. holding'[u][j] = 0 /\ worker'[u][j] = "top"
        BY <1>1, <3>1
      <4> QED
        BY <3>0, <3>1, <4>1
    <3>2. CASE ~(u = w /\ j = k)
      <4>1. holding'[u][j] = holding[u][j] /\ worker'[u][j] = worker[u][j]
        BY <1>1, <3>2
      <4> QED
        BY <3>0, <4>1
    <3> QED
      BY <3>1, <3>2
  <2> QED
    BY <2>1, <2>2, <2>3, <2>4 DEF WorkerTypes
<1>3. RemovedWatchesAreQuiet'
  BY QuietStays
<1>4. NoneLost'
  <2>1. ASSUME NEW u \in Watch, ~ stop[u], NEW v \in Nat, v # 0,
               Kept(v, handled[u], queue[u], waiting[u], holding[u])
        PROVE  Kept(v, handled'[u], queue'[u], waiting'[u], holding'[u])
    <3>1. /\ v \in handled[u] => v \in handled'[u]
          /\ v \in Range(queue[u]) => v \in Range(queue'[u])
          /\ v \in Range(waiting[u]) => v \in Range(waiting'[u])
      BY <2>1
    <3>2. ASSUME NEW j \in Worker, holding[u][j] = v
          PROVE  Kept(v, handled'[u], queue'[u], waiting'[u], holding'[u])
      <4>1. CASE u = w /\ j = k
        BY <2>1, <3>2, <4>1 DEF Kept
      <4>2. CASE ~(u = w /\ j = k)
        <5>1. holding'[u][j] = holding[u][j]
          BY <1>1, <4>2
        <5> QED
          BY <3>2, <5>1 DEF Kept
      <4> QED
        BY <4>1, <4>2
    <3> QED
      BY <2>1, <3>1, <3>2, Zenon DEF Kept
  <2> QED
    BY <2>1, EventsMove
<1> QED
  BY <1>2, <1>3, <1>4, Frame DEF IInv

(* An event was handled                                                    *)
LEMMA HandledIInv ==
    ASSUME IInv, NEW w \in Watch, NEW k \in Worker,
           worker[w][k] \in {"handle", "send"}, Handled(w, k),
           UNCHANGED <<log, oldest, known, spec, edits, rpc, dirty, want, role,
                       current, used, restarts, filter, stop, iface, conn, pos,
                       initial, rv, base, queue, waiting, shut, loop>>
    PROVE  IInv'
<1> DEFINE x == holding[w][k]
<1>1. /\ handled' = [handled EXCEPT ![w] = handled[w] \cup {x}]
      /\ holding' = [holding EXCEPT ![w][k] = 0]
      /\ verdict' = [verdict EXCEPT ![w][k] = "no"]
      /\ worker' = [worker EXCEPT ![w][k] = "top"]
  BY DEF Handled, Goto
<1>2. handled \in [Watch -> SUBSET Version] /\ x \in Version
  BY HeldIsVersion DEF IInv, QueueTypes
<1> HIDE DEF x
<1>3. QueueTypes'
  <2>1. handled' \in [Watch -> SUBSET Version]
    BY <1>1, <1>2
  <2> QED
    BY <2>1, Zenon DEF IInv, QueueTypes, Version
<1>4. x \in handled'[w] /\ \A u \in Watch : handled[u] \subseteq handled'[u]
  BY <1>1, <1>2
<1>5. \A u \in Watch : \A v \in Range(waiting[u]) : v \in Range(waiting'[u])
  OBVIOUS
<1> QED
  BY <1>1, <1>3, <1>4, <1>5, LetGo DEF x

(* A worker decides what to send, or that there is nothing to              *)
LEMMA HandleWatchEventIInv ==
    ASSUME IInv, NEW w \in Watch, NEW k \in Worker, HandleWatchEvent(w, k)
    PROVE  IInv'
<1> DEFINE e == VerdictOf(filter[w], holding[w][k])
<1>1. /\ worker[w][k] = "handle"
      /\ UNCHANGED <<log, oldest, known, spec, edits, rpc, dirty, want, role,
                     current, used, restarts, filter, stop, iface, conn, pos,
                     initial, rv, base, queue, waiting, shut, loop>>
  BY DEF HandleWatchEvent, serverVars, reconcilerVars, connVars
<1>2. CASE e = "no"
  <2>1. Handled(w, k)
    BY <1>2 DEF HandleWatchEvent
  <2> QED
    BY <1>1, <2>1, HandledIInv
<1>3. CASE e # "no"
  <2>1. /\ verdict' = [verdict EXCEPT ![w][k] = e]
        /\ worker' = [worker EXCEPT ![w][k] = "send"]
        /\ UNCHANGED <<handled, holding>>
    BY <1>3 DEF HandleWatchEvent, Goto
  <2>2. e \in CloudEvent
    BY DEF VerdictOf, CloudEvent
  <2> HIDE DEF e
  <2>3. /\ worker \in [Watch -> [Worker -> WorkerState]]
        /\ verdict \in [Watch -> [Worker -> CloudEvent]]
    BY DEF IInv, WorkerTypes
  <2>4. WorkerTypes'
    <3>1. worker' \in [Watch -> [Worker -> WorkerState]]
      BY <2>1, <2>3 DEF WorkerState
    <3>2. verdict' \in [Watch -> [Worker -> CloudEvent]]
      BY <2>1, <2>2, <2>3
    <3>3. ASSUME NEW u \in Watch, NEW j \in Worker
          PROVE  /\ worker'[u][j] \in {"handle", "send"} <=> holding[u][j] # 0
                 /\ u > used => worker'[u][j] = "none"
      <4>0. /\ worker[u][j] \in {"handle", "send"} <=> holding[u][j] # 0
            /\ u > used => worker[u][j] = "none"
        BY DEF IInv, WorkerTypes
      <4>1. CASE u = w /\ j = k
        <5>1. worker'[u][j] = "send"
          BY <2>1, <2>3, <4>1
        <5> QED
          BY <1>1, <4>0, <4>1, <5>1
      <4>2. CASE ~(u = w /\ j = k)
        <5>1. worker'[u][j] = worker[u][j]
          BY <2>1, <2>3, <4>2
        <5> QED
          BY <4>0, <5>1
      <4> QED
        BY <4>1, <4>2
    <3> QED
      BY <1>1, <2>1, <3>1, <3>2, <3>3 DEF IInv, WorkerTypes
  <2>5. RemovedWatchesAreQuiet'
    BY <1>1, <2>1, QuietStays
  <2> QED
    BY <1>1, <2>1, <2>4, <2>5, Frame DEF IInv
<1> QED
  BY <1>2, <1>3

(* The sink acknowledges the event                                         *)
LEMMA SendCloudEventIInv ==
    ASSUME IInv, NEW w \in Watch, NEW k \in Worker, SendCloudEvent(w, k)
    PROVE  IInv'
<1>1. /\ worker[w][k] = "send" /\ Handled(w, k)
      /\ UNCHANGED <<log, oldest, known, spec, edits, rpc, dirty, want, role,
                     current, used, restarts, filter, stop, iface, conn, pos,
                     initial, rv, base, queue, waiting, shut, loop>>
  BY DEF SendCloudEvent, serverVars, reconcilerVars, connVars
<1> QED
  BY <1>1, HandledIInv

(* or it does not, and the event waits to be tried again                   *)
LEMMA SendFailsIInv ==
    ASSUME IInv, NEW w \in Watch, NEW k \in Worker, SendFails(w, k)
    PROVE  IInv'
<1> DEFINE x == holding[w][k]
<1>1. /\ worker[w][k] = "send"
      /\ waiting' = [waiting EXCEPT ![w] =
                        IF shut[w] THEN waiting[w] ELSE Append(waiting[w], x)]
      /\ holding' = [holding EXCEPT ![w][k] = 0]
      /\ verdict' = [verdict EXCEPT ![w][k] = "no"]
      /\ worker' = [worker EXCEPT ![w][k] = "top"]
      /\ UNCHANGED <<log, oldest, known, spec, edits, rpc, dirty, want, role,
                     current, used, restarts, filter, stop, iface, conn, pos,
                     initial, rv, base, queue, handled, shut, loop>>
  BY DEF SendFails, Goto, serverVars, reconcilerVars, connVars
<1>2. x \in Version
  BY <1>1, HeldIsVersion
<1>3. waiting \in [Watch -> Seq(Version)]
  BY DEF IInv, QueueTypes
<1> HIDE DEF x
<1>4. /\ Append(waiting[w], x) \in Seq(Version)
      /\ x \in Range(Append(waiting[w], x))
      /\ \A v \in Range(waiting[w]) : v \in Range(Append(waiting[w], x))
  BY <1>2, <1>3, RangeAppend
<1>5. QueueTypes'
  <2>1. waiting' \in [Watch -> Seq(Version)]
    BY <1>1, <1>3, <1>4
  <2> QED
    BY <1>1, <2>1, Zenon DEF IInv, QueueTypes, Version
<1>6. ~ stop[w] => ~ shut[w]
  BY DEF IInv, StopOrder
<1>7. ~ stop[w] => x \in Range(waiting'[w])
  BY <1>1, <1>3, <1>4, <1>6
<1>8. \A u \in Watch : \A v \in Range(waiting[u]) : v \in Range(waiting'[u])
  BY <1>1, <1>3, <1>4
<1>9. \A u \in Watch : handled[u] \subseteq handled'[u]
  BY <1>1
<1> QED
  BY <1>1, <1>5, <1>7, <1>8, <1>9, LetGo DEF x

(* A waiting event is queued again                                         *)
LEMMA AddAgainIInv ==
    ASSUME IInv, NEW w \in Watch, NEW i, AddAgain(w, i)
    PROVE  IInv'
<1> DEFINE x == waiting[w][i]
           q == Append(queue[w], x)
           l == RemoveAt(waiting[w], i)
<1>1. /\ i \in 1..Len(waiting[w])
      /\ queue' = [queue EXCEPT ![w] = q]
      /\ waiting' = [waiting EXCEPT ![w] = l]
      /\ UNCHANGED <<log, oldest, known, spec, edits, rpc, dirty, want, role,
                     current, used, restarts, filter, stop, iface, conn, pos,
                     initial, rv, base, shut, handled, loop, worker, holding,
                     verdict>>
  BY DEF AddAgain, serverVars, reconcilerVars, connVars, workerVars
<1>2. queue \in [Watch -> Seq(Version)] /\ waiting \in [Watch -> Seq(Version)]
  BY DEF IInv, QueueTypes
<1>3. /\ l \in Seq(Version) /\ x \in Version
      /\ \A v \in Range(waiting[w]) : v = x \/ v \in Range(l)
  BY <1>1, <1>2, RangeRemoveAt
<1>4. /\ q \in Seq(Version) /\ x \in Range(q)
      /\ \A v \in Range(queue[w]) : v \in Range(q)
  <2> HIDE DEF x, l
  <2> QED
    BY <1>2, <1>3, RangeAppend
<1> HIDE DEF x, q, l
<1>5. QueueTypes'
  <2>1. queue' \in [Watch -> Seq(Version)] /\ waiting' \in [Watch -> Seq(Version)]
    BY <1>1, <1>2, <1>3, <1>4
  <2> QED
    BY <1>1, <2>1, Zenon DEF IInv, QueueTypes, Version
<1>6. NoneLost'
  <2>1. ASSUME NEW u \in Watch, NEW v \in Nat, v # 0,
               Kept(v, handled[u], queue[u], waiting[u], holding[u])
        PROVE  Kept(v, handled[u], queue'[u], waiting'[u], holding[u])
    <3>1. CASE u # w
      <4>1. queue'[u] = queue[u] /\ waiting'[u] = waiting[u]
        BY <1>1, <1>2, <3>1
      <4> QED
        BY <2>1, <4>1
    <3>2. CASE u = w
      <4>1. queue'[u] = q /\ waiting'[u] = l
        BY <1>1, <1>2, <3>2
      <4> QED
        BY <1>3, <1>4, <2>1, <3>2, <4>1 DEF Kept
    <3> QED
      BY <3>1, <3>2
  <2> QED
    BY <1>1, <2>1, EventsMove
<1> QED
  BY <1>1, <1>5, <1>6, Frame DEF IInv

-----------------------------------------------------------------------------
(* The invariant is kept by every step                                     *)
LEMMA NextIInv == IInv /\ [Next]_vars => IInv'
<1> SUFFICES ASSUME IInv, [Next]_vars PROVE IInv'
  OBVIOUS
<1>1. ASSUME NEW o \in Obj, NEW t \in {"ADDED", "MODIFIED", "DELETED"},
             Change(o, t)
      PROVE  IInv'
  BY <1>1, ChangeIInv
<1>2. CASE Compact \/ Install \/ \E s \in Setting : Edit(s)
  BY <1>2, ServerIInv
<1>3. CASE Restart
  BY <1>3, RestartIInv
<1>4. CASE Reconcile \/ ReconcileClusterRole \/ ReconcileFails
  BY <1>4, ReconcileIInv
<1>5. CASE GenerateWatches
  BY <1>5, ReconcileIInv, CreateWatchForGVRIInv, UpdateWatchIInv, StopWatchIInv,
     StopInterfaceIInv, ShutDownIInv, WaitIInv DEF GenerateWatches
<1>6. ASSUME NEW w \in Watch, Disconnect(w) PROVE IInv'
  BY <1>6, DisconnectIInv
<1>7. ASSUME NEW w \in Watch, WatchLoop(w) PROVE IInv'
  BY <1>7, LoopMovesIInv, CreateWatchIInv, InitialEventIInv, ChangeEventIInv,
     ErrorEventIInv, DisconnectedIInv DEF WatchLoop
<1>8. ASSUME NEW w \in Watch, NEW i \in 1..MaxQueue, AddAgain(w, i) PROVE IInv'
  BY <1>8, AddAgainIInv
<1>9. ASSUME NEW w \in Watch, NEW k \in Worker, RunWorker(w, k) PROVE IInv'
  BY <1>9, WorkerMovesIInv, GetIInv, HandleWatchEventIInv, SendCloudEventIInv,
     SendFailsIInv DEF RunWorker
<1>10. CASE UNCHANGED vars
  <2>1. UNCHANGED <<log, oldest, known, spec, rpc, dirty, want, role, current,
                    used, edits, restarts, filter, stop, iface, conn, pos,
                    initial, rv, base, queue, waiting, shut, handled, loop,
                    worker, holding, verdict>>
    BY <1>10 DEF vars
  <2> QED
    BY <2>1, Frame DEF IInv
<1> QED
  BY <1>1, <1>2, <1>3, <1>4, <1>5, <1>6, <1>7, <1>8, <1>9, <1>10, Zenon DEF Next

(* Every reachable state satisfies it                                      *)
LEMMA Inductive == Spec => []IInv
<1>1. Init => IInv
  BY InitIInv
<1>2. IInv /\ [Next]_vars => IInv'
  BY NextIInv
<1> QED
  BY <1>1, <1>2, PTL DEF Spec

(* A watch that generateWatches removed is over: StopCh is closed and all  *)
(* its workers have returned, so nothing of it sends a CloudEvent, and the *)
(* workers of two watches of the kind never run side by side               *)
THEOREM RemovedWatchesAreQuietHolds == Spec => []RemovedWatchesAreQuiet
<1>1. IInv => RemovedWatchesAreQuiet
  BY IInvImplies
<1> QED
  BY <1>1, Inductive, PTL

(* ResourceVersion never passes a change that is neither handled nor       *)
(* queued, waiting or with a worker, whatever disconnects, fails to be     *)
(* sent or is resumed (processWatchEvents, runWorker)                      *)
THEOREM NothingSkippedHolds == Spec => []NothingSkipped
<1>1. IInv => NothingSkipped
  BY IInvImplies
<1> QED
  BY <1>1, Inductive, PTL

=============================================================================
