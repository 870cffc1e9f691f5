----------------------- MODULE ConfigReconcileProofs -----------------------
(***************************************************************************)
(* Proofs about the controllers of the configurations, for any namespaces, *)
(* kinds and children, and however many changes, failures and restarts     *)
(* there are: the SinkFilter never has filters that no configuration can   *)
(* remove.  The caches may be as stale as they like; what matters is what  *)
(* a cache can still hold of a configuration once its finalizer is gone.   *)
(***************************************************************************)
EXTENDS ConfigReconcile, SequenceTheorems, TLAPS

ConfigHistory == Seq(Config \cup {None}) \ {<<>>}

Finalized(c) == c # None /\ c.fin
Leaving(c) == Finalized(c) /\ c.del

AllLeaving(h) == \A i \in 1..Len(h) : Leaving(h[i])

\* A state with the finalizer that is followed by one without was on its way
\* out, as was everything before it: the finalizer is only removed once the
\* cache has seen the deletion.
RemovedWhenSeen(h) ==
    \A j, k \in 1..Len(h) :
        j < k /\ Finalized(h[j]) /\ ~Finalized(h[k])
            => \A i \in 1..j : Leaving(h[i])

\* A deletion is final: no finalizer is put on what comes after while a cache
\* may still have what was deleted.
DeletedForGood(h) ==
    \A i, j \in 1..Len(h) :
        i <= j /\ Leaving(h[i]) /\ Finalized(h[j])
            => \A m \in i..j : Leaving(h[m])

Orderly(h) == RemovedWhenSeen(h) /\ DeletedForGood(h)

\* What a reconcile at pc knows of the history h of its configuration.
Knows(h, pc) ==
    /\ pc = "addFinalizer" =>
          Finalized(Current(h)) \/ \A i \in 1..Len(h) : ~Finalized(h[i])
    /\ pc = "filter" => Finalized(Current(h))
    /\ pc \in {"unfilter", "unsubject", "removeFinalizer"} =>
          ~Finalized(Current(h)) \/ AllLeaving(h)

\* The objects: their values, the order of the configurations' histories, and
\* the property itself.
ChildObject == [owner : Nat, kinds : SUBSET Kind]

Objects ==
    /\ kac \in [Ns -> ConfigHistory] /\ ckac \in ConfigHistory
    /\ sf \in Seq(Filters \cup {None}) \ {<<>>}
    /\ vb \in Seq((SUBSET (Ns \cup {ClusterVacuum})) \cup {None}) \ {<<>>}
    /\ child \in [Ns -> [Child -> Seq(ChildObject \cup {None}) \ {<<>>}]]

World ==
    /\ Objects
    /\ \A n \in Ns : Orderly(kac[n])
    /\ Orderly(ckac)
    /\ NoOrphanFilters

\* The reconcile of a KAC at pc, with the histories k of the KACs and s of the
\* SinkFilter: the filters are gone before the finalizer is removed.
KacAt(k, s, pc, n, c, i) ==
    /\ pc \in KSteps \cup {"idle"}
    /\ n \in Ns \cup {None} /\ c \in Config \cup {None}
    /\ i \in 1..(Len(Children) + 1)
    /\ pc # "idle" => n \in Ns /\ c \in Config /\ Knows(k[n], pc)
    /\ pc = "addFinalizer" => ~c.fin /\ ~c.del
    /\ pc \in {"addFinalizer", "filter"} => i = 1
    /\ pc = "child" => i \in 1..Len(Children)
    /\ pc \in {"unsubject", "removeFinalizer"} => Found(Current(s)).ns[n] = None

\* The reconcile of the CKAC.
CkacAt(h, s, pc, c) ==
    /\ pc \in CSteps \cup {"idle"}
    /\ c \in Config \cup {None}
    /\ pc # "idle" => c \in Config /\ Knows(h, pc)
    /\ pc = "addFinalizer" => ~c.fin /\ ~c.del
    /\ pc = "removeFinalizer" => Found(Current(s)).cluster = {}

Counters ==
    /\ edits \in Nat /\ failures \in Nat /\ restarts \in Nat
    /\ kqueue \subseteq Ns /\ cqueue \in BOOLEAN

IInv ==
    /\ World
    /\ Counters
    /\ KacAt(kac, sf, kpc, kns, kcopy, kchild)
    /\ CkacAt(ckac, sf, cpc, ccopy)

-----------------------------------------------------------------------------
(* What the ends of a history are                                          *)
LEMMA Ends ==
    ASSUME NEW S, NEW h \in Seq(S), h # <<>>
    PROVE  /\ Len(h) \in Nat /\ Len(h) > 0
           /\ Current(h) \in S /\ Cached(h) \in S
           /\ \A i \in 1..Len(h) : h[i] \in S
<1>1. Len(h) \in Nat /\ Len(h) # 0
  BY EmptySeq, LenProperties
<1>2. \A i \in 1..Len(h) : h[i] \in S
  BY ElementOfSeq
<1> QED
  BY <1>1, <1>2 DEF Current, Cached

(* A new state becomes the current one and leaves the others               *)
LEMMA Appended ==
    ASSUME NEW S, NEW h \in Seq(S), h # <<>>, NEW v \in S
    PROVE  /\ Append(h, v) \in Seq(S) /\ Append(h, v) # <<>>
           /\ Len(Append(h, v)) = Len(h) + 1
           /\ Append(h, v)[Len(h) + 1] = v
           /\ Current(Append(h, v)) = v
           /\ \A i \in 1..Len(h) : Append(h, v)[i] = h[i]
<1>1. Len(h) \in Nat /\ Len(h) > 0
  BY Ends
<1>2. /\ Append(h, v) \in Seq(S) /\ Append(h, v) # <<>>
      /\ Len(Append(h, v)) = Len(h) + 1
      /\ Append(h, v)[Len(h) + 1] = v
      /\ \A i \in 1..Len(h) : Append(h, v)[i] = h[i]
  BY AppendProperties
<1> QED
  BY <1>1, <1>2 DEF Current

(* The same of the histories of configurations                             *)
LEMMA ConfigAppended ==
    ASSUME NEW h \in ConfigHistory, NEW v \in Config \cup {None}
    PROVE  /\ Append(h, v) \in ConfigHistory
           /\ Len(Append(h, v)) = Len(h) + 1
           /\ Append(h, v)[Len(h) + 1] = v
           /\ Current(Append(h, v)) = v
           /\ \A i \in 1..Len(h) : Append(h, v)[i] = h[i]
           /\ Len(h) \in Nat /\ Len(h) > 0 /\ Current(h) = h[Len(h)]
<1> DEFINE S == Config \cup {None}
<1>1. h \in Seq(S) /\ h # <<>> /\ v \in S /\ ConfigHistory = Seq(S) \ {<<>>}
  BY DEF ConfigHistory
<1> HIDE DEF S
<1>2. Len(h) \in Nat /\ Len(h) > 0
  BY <1>1, Ends
<1> QED
  BY <1>1, <1>2, Appended DEF Current

(* The cache catching up by one state                                      *)
LEMMA Advanced ==
    ASSUME NEW S, NEW h \in Seq(S), Len(h) > 1
    PROVE  /\ Tail(h) \in Seq(S) /\ Tail(h) # <<>>
           /\ Len(Tail(h)) = Len(h) - 1
           /\ Current(Tail(h)) = Current(h)
           /\ \A i \in 1..Len(Tail(h)) : Tail(h)[i] = h[i + 1]
<1>1. h # <<>> /\ Len(h) \in Nat
  BY EmptySeq, LenProperties
<1>2. /\ Tail(h) \in Seq(S) /\ Len(Tail(h)) = Len(h) - 1
      /\ \A i \in 1..Len(Tail(h)) : Tail(h)[i] = h[i + 1]
  BY <1>1, HeadTailProperties
<1>3. Tail(h) # <<>>
  <2>0. Len(Tail(h)) = Len(h) - 1
    BY <1>2
  <2>1. Len(Tail(h)) # 0
    BY <1>1, <2>0
  <2>2. Len(<<>>) = 0
    OBVIOUS
  <2> QED
    BY <2>1, <2>2
<1> QED
  BY <1>1, <1>2, <1>3 DEF Current

(* A write: it makes a new state or none                                   *)
LEMMA WrittenIsCurrent ==
    ASSUME NEW S, NEW h \in Seq(S), h # <<>>, NEW v \in S
    PROVE  /\ Written(h, v) \in Seq(S) /\ Written(h, v) # <<>>
           /\ Current(Written(h, v)) = v
  BY Appended DEF Written

(* What a refill of the caches leaves                                      *)
LEMMA Refilled ==
    ASSUME NEW S, NEW c \in S
    PROVE  <<c>> \in Seq(S) /\ <<c>> # <<>> /\ Len(<<c>>) = 1 /\ <<c>>[1] = c /\ Current(<<c>>) = c
  BY DEF Current

-----------------------------------------------------------------------------
(* A user's change keeps the finalizer as it is, and a deletion            *)
LEMMA ChangeIsOrderly ==
    ASSUME NEW h \in ConfigHistory, Orderly(h), NEW v \in Config \cup {None},
           Finalized(v) <=> Finalized(Current(h)),
           Leaving(Current(h)) => Leaving(v)
    PROVE  Orderly(Append(h, v)) /\ \A pc : Knows(h, pc) => Knows(Append(h, v), pc)
<1> DEFINE g == Append(h, v)
<1>1. /\ Len(g) = Len(h) + 1 /\ g[Len(h) + 1] = v /\ Current(g) = v
      /\ \A i \in 1..Len(h) : g[i] = h[i]
      /\ Len(h) \in Nat /\ Len(h) > 0 /\ Current(h) = h[Len(h)]
  BY ConfigAppended DEF Current
<1> HIDE DEF g
<1>2. RemovedWhenSeen(g)
  <2> SUFFICES ASSUME NEW j \in 1..Len(g), NEW k \in 1..Len(g), NEW i \in 1..j,
                      j < k, Finalized(g[j]), ~Finalized(g[k])
               PROVE  Leaving(g[i])
    BY DEF RemovedWhenSeen
  <2>1. j \in 1..Len(h) /\ i \in 1..Len(h) /\ g[j] = h[j] /\ g[i] = h[i]
    BY <1>1
  <2>2. CASE k \in 1..Len(h)
    BY <1>1, <2>1, <2>2 DEF Orderly, RemovedWhenSeen
  <2>3. CASE k = Len(h) + 1
    <3>1. ~Finalized(h[Len(h)]) /\ j < Len(h)
      BY <1>1, <2>1, <2>3
    <3> QED
      BY <1>1, <2>1, <3>1 DEF Orderly, RemovedWhenSeen
  <2> QED
    BY <1>1, <2>2, <2>3
<1>3. DeletedForGood(g)
  <2> SUFFICES ASSUME NEW i \in 1..Len(g), NEW j \in 1..Len(g), NEW m \in i..j,
                      i <= j, Leaving(g[i]), Finalized(g[j])
               PROVE  Leaving(g[m])
    BY DEF DeletedForGood
  <2>1. CASE j \in 1..Len(h)
    BY <1>1, <2>1 DEF Orderly, DeletedForGood
  <2>2. CASE j = Len(h) + 1 /\ i = j
    BY <1>1, <2>2
  <2>3. CASE j = Len(h) + 1 /\ i # j
    <3>1. i \in 1..Len(h) /\ i <= Len(h) /\ Leaving(h[i]) /\ Finalized(h[Len(h)])
      BY <1>1, <2>3
    <3>2. \A l \in i..Len(h) : Leaving(h[l])
      BY <1>1, <3>1 DEF Orderly, DeletedForGood
    <3>3. CASE m \in i..Len(h)
      BY <1>1, <3>1, <3>2, <3>3
    <3>4. CASE m = Len(h) + 1
      BY <1>1, <3>1, <3>2, <3>4
    <3> QED
      BY <1>1, <2>3, <3>3, <3>4
  <2> QED
    BY <1>1, <2>1, <2>2, <2>3
<1>4. ASSUME NEW pc, Knows(h, pc) PROVE Knows(g, pc)
  <2>1. AllLeaving(h) => Leaving(Current(h))
    BY <1>1 DEF AllLeaving
  <2>2. AllLeaving(h) => AllLeaving(g)
    BY <1>1, <2>1 DEF AllLeaving
  <2>3. (\A i \in 1..Len(h) : ~Finalized(h[i])) => ~Finalized(Current(h))
    BY <1>1
  <2>4. (\A i \in 1..Len(h) : ~Finalized(h[i])) => (\A i \in 1..Len(g) : ~Finalized(g[i]))
    BY <1>1, <2>3
  <2> QED
    BY <1>1, <1>4, <2>1, <2>2, <2>3, <2>4 DEF Knows
<1> QED
  BY <1>2, <1>3, <1>4 DEF Orderly, g

(* The cache catching up forgets the oldest state                          *)
LEMMA AdvanceIsOrderly ==
    ASSUME NEW h \in ConfigHistory, Orderly(h), Len(h) > 1
    PROVE  Orderly(Tail(h)) /\ \A pc : Knows(h, pc) => Knows(Tail(h), pc)
<1> DEFINE g == Tail(h)
<1>1. /\ Len(g) = Len(h) - 1 /\ Current(g) = Current(h)
      /\ \A i \in 1..Len(g) : g[i] = h[i + 1] /\ i + 1 \in 1..Len(h)
      /\ Len(h) \in Nat
  BY Advanced, Ends DEF ConfigHistory
<1> HIDE DEF g
<1>2. RemovedWhenSeen(g)
  <2> SUFFICES ASSUME NEW j \in 1..Len(g), NEW k \in 1..Len(g), NEW i \in 1..j,
                      j < k, Finalized(g[j]), ~Finalized(g[k])
               PROVE  Leaving(g[i])
    BY DEF RemovedWhenSeen
  <2>1. /\ j + 1 \in 1..Len(h) /\ k + 1 \in 1..Len(h) /\ j + 1 < k + 1
        /\ i + 1 \in 1..(j + 1) /\ g[i] = h[i + 1]
        /\ Finalized(h[j + 1]) /\ ~Finalized(h[k + 1])
    <3>1. i \in 1..Len(g)
      BY <1>1
    <3> QED
      BY <1>1, <3>1
  <2> QED
    BY <2>1 DEF Orderly, RemovedWhenSeen
<1>3. DeletedForGood(g)
  <2> SUFFICES ASSUME NEW i \in 1..Len(g), NEW j \in 1..Len(g), NEW m \in i..j,
                      i <= j, Leaving(g[i]), Finalized(g[j])
               PROVE  Leaving(g[m])
    BY DEF DeletedForGood
  <2>1. /\ i + 1 \in 1..Len(h) /\ j + 1 \in 1..Len(h) /\ i + 1 <= j + 1
        /\ m + 1 \in (i + 1)..(j + 1) /\ g[m] = h[m + 1]
        /\ Leaving(h[i + 1]) /\ Finalized(h[j + 1])
    BY <1>1
  <2> QED
    BY <2>1 DEF Orderly, DeletedForGood
<1>4. ASSUME NEW pc, Knows(h, pc) PROVE Knows(g, pc)
  <2>1. AllLeaving(h) => AllLeaving(g)
    BY <1>1 DEF AllLeaving
  <2>2. (\A i \in 1..Len(h) : ~Finalized(h[i])) => (\A i \in 1..Len(g) : ~Finalized(g[i]))
    BY <1>1
  <2> QED
    BY <1>1, <1>4, <2>1, <2>2 DEF Knows
<1> QED
  BY <1>2, <1>3, <1>4 DEF Orderly, g

(* A refilled cache has one state                                          *)
LEMMA RefillIsOrderly ==
    ASSUME NEW c
    PROVE  Orderly(<<c>>)
  BY DEF Orderly, RemovedWhenSeen, DeletedForGood

(* The finalizer is added where there was none                             *)
LEMMA AdditionIsOrderly ==
    ASSUME NEW h \in ConfigHistory, NEW v \in Config \cup {None},
           Knows(h, "addFinalizer"), ~Finalized(Current(h)), Finalized(v), ~Leaving(v)
    PROVE  Orderly(Append(h, v)) /\ Knows(Append(h, v), "filter")
<1> DEFINE g == Append(h, v)
<1>1. /\ Len(g) = Len(h) + 1 /\ g[Len(h) + 1] = v /\ Current(g) = v
      /\ \A i \in 1..Len(h) : g[i] = h[i]
      /\ Len(h) \in Nat /\ Len(h) > 0
  BY ConfigAppended
<1> HIDE DEF g
<1>0. Len(g) = Len(h) + 1 /\ Len(h) \in Nat
  BY <1>1
<1>2. \A i \in 1..Len(h) : ~Finalized(g[i])
  BY <1>1 DEF Knows
<1>3. \A i \in 1..Len(g) : Finalized(g[i]) <=> i = Len(g)
  <2>1. \A i \in 1..Len(g) : i = Len(g) \/ i \in 1..Len(h)
    BY <1>0
  <2>2. Len(g) \notin 1..Len(h)
    BY <1>0
  <2>3. Finalized(g[Len(g)])
    BY <1>0, <1>1
  <2> QED
    BY <1>2, <2>1, <2>2, <2>3
<1>4. \A i \in 1..Len(g) : ~Leaving(g[i])
  BY <1>1, <1>3 DEF Leaving
<1>5. RemovedWhenSeen(g)
  <2> SUFFICES ASSUME NEW j \in 1..Len(g), NEW k \in 1..Len(g),
                      j < k, Finalized(g[j]), ~Finalized(g[k])
               PROVE  FALSE
    BY DEF RemovedWhenSeen
  <2> QED
    BY <1>0, <1>3
<1>6. DeletedForGood(g)
  BY <1>4 DEF DeletedForGood
<1> QED
  BY <1>1, <1>5, <1>6 DEF Orderly, Knows, g

(* The finalizer is removed when the cache has nothing from before the     *)
(* deletion                                                                *)
LEMMA RemovalIsOrderly ==
    ASSUME NEW h \in ConfigHistory,
           Knows(h, "removeFinalizer"), Finalized(Current(h))
    PROVE  Orderly(Append(h, None))
<1> DEFINE g == Append(h, None)
<1>1. /\ Len(g) = Len(h) + 1 /\ g[Len(h) + 1] = None
      /\ \A i \in 1..Len(h) : g[i] = h[i]
      /\ Len(h) \in Nat /\ Len(h) > 0
  BY ConfigAppended
<1> HIDE DEF g
<1>0. Len(g) = Len(h) + 1 /\ Len(h) \in Nat
  BY <1>1
<1>2. \A i \in 1..Len(h) : Leaving(g[i])
  BY <1>1 DEF Knows, AllLeaving
<1>3. ~Finalized(g[Len(g)])
  BY <1>1 DEF Finalized
<1>4. RemovedWhenSeen(g)
  <2> SUFFICES ASSUME NEW j \in 1..Len(g), NEW k \in 1..Len(g), NEW i \in 1..j,
                      j < k
               PROVE  Leaving(g[i])
    BY DEF RemovedWhenSeen
  <2>1. i \in 1..Len(h)
    BY <1>0
  <2> QED
    BY <1>2, <2>1
<1>5. DeletedForGood(g)
  <2> SUFFICES ASSUME NEW i \in 1..Len(g), NEW j \in 1..Len(g), NEW m \in i..j,
                      Finalized(g[j])
               PROVE  Leaving(g[m])
    BY DEF DeletedForGood
  <2>1. j # Len(g)
    BY <1>3
  <2>2. m \in 1..Len(h)
    BY <1>0, <2>1
  <2> QED
    BY <1>2, <2>2
<1> QED
  BY <1>4, <1>5 DEF Orderly, g

(* What a reconcile may conclude from the state it reads in the cache      *)
LEMMA ReadKnows ==
    ASSUME NEW h \in ConfigHistory, Orderly(h), FirstStep(Cached(h)) # "idle"
    PROVE  Knows(h, FirstStep(Cached(h))) /\ Cached(h) \in Config
<1>1. /\ Len(h) \in Nat /\ Len(h) > 0 /\ Cached(h) = h[1] /\ Current(h) = h[Len(h)]
      /\ Cached(h) \in Config \cup {None}
  BY Ends DEF ConfigHistory, Cached, Current
<1>2. Cached(h) # None /\ Cached(h) \in Config
  BY <1>1 DEF FirstStep
<1>3. CASE FirstStep(Cached(h)) = "addFinalizer"
  <2>1. ~Finalized(h[1]) /\ ~Leaving(h[1])
    BY <1>1, <1>3 DEF FirstStep, Finalized, Leaving, Config
  <2>2. ASSUME ~Finalized(Current(h)), NEW i \in 1..Len(h), Finalized(h[i]) PROVE FALSE
    <3>1. i < Len(h)
      BY <1>1, <2>2
    <3>2. Leaving(h[1])
      BY <1>1, <2>2, <3>1 DEF Orderly, RemovedWhenSeen
    <3> QED
      BY <2>1, <3>2
  <2> QED
    BY <1>2, <1>3, <2>2 DEF Knows
<1>4. CASE FirstStep(Cached(h)) = "filter"
  <2>1. Finalized(h[1]) /\ ~Leaving(h[1])
    BY <1>1, <1>2, <1>4 DEF FirstStep, Finalized, Leaving, Config
  <2>2. ASSUME ~Finalized(Current(h)) PROVE FALSE
    <3>1. 1 < Len(h)
      BY <1>1, <2>1, <2>2
    <3> QED
      BY <1>1, <2>1, <2>2, <3>1 DEF Orderly, RemovedWhenSeen
  <2> QED
    BY <1>2, <1>4, <2>2 DEF Knows
<1>5. CASE FirstStep(Cached(h)) = "unfilter"
  <2>1. Leaving(h[1])
    BY <1>1, <1>2, <1>5 DEF FirstStep, Finalized, Leaving, Config
  <2>2. Finalized(Current(h)) => AllLeaving(h)
    BY <1>1, <2>1 DEF Orderly, DeletedForGood, AllLeaving
  <2> QED
    BY <1>2, <1>5, <2>2 DEF Knows
<1> QED
  BY <1>3, <1>4, <1>5 DEF FirstStep

(* What users do to a configuration                                        *)
LEMMA UserChangesAre ==
    ASSUME NEW h \in ConfigHistory, edits \in Nat, NEW g \in UserChanges(h)
    PROVE  \E v \in Config \cup {None} :
              /\ g = Append(h, v)
              /\ Finalized(v) <=> Finalized(Current(h))
              /\ Leaving(Current(h)) => Leaving(v)
<1> DEFINE c == Current(h)
           new(r) == [uid |-> edits + 1, res |-> r, del |-> FALSE, fin |-> FALSE]
<1>1. c \in Config \cup {None}
  BY Ends DEF ConfigHistory
<1>2. CASE c = None
  <2>1. PICK r \in SUBSET Kind : g = Append(h, new(r))
    BY <1>2 DEF UserChanges
  <2>2. new(r) \in Config /\ ~Finalized(new(r)) /\ ~Finalized(c) /\ ~Leaving(c)
    BY <1>2 DEF Config, Finalized, Leaving
  <2> QED
    BY <2>1, <2>2
<1>3. CASE c # None /\ \E r \in SUBSET Kind : g = Append(h, [c EXCEPT !.res = r])
  <2>1. PICK r \in SUBSET Kind : g = Append(h, [c EXCEPT !.res = r])
    BY <1>3
  <2>2. c \in Config
    BY <1>1, <1>3
  <2> DEFINE v == [c EXCEPT !.res = r]
  <2>3. v \in Config /\ v.fin = c.fin /\ v.del = c.del
    BY <2>2 DEF Config
  <2>4. v # None
    BY <2>3, ConfigAssumption
  <2> QED
    BY <1>3, <2>1, <2>3, <2>4 DEF Finalized, Leaving
<1>4. CASE c # None /\ ~c.fin /\ g = Append(h, None)
  BY <1>4 DEF Finalized, Leaving
<1>5. CASE c # None /\ c.fin /\ g = Append(h, [c EXCEPT !.del = TRUE])
  <2>2. c \in Config
    BY <1>1, <1>5
  <2> DEFINE v == [c EXCEPT !.del = TRUE]
  <2>3. v \in Config /\ v.fin = c.fin /\ v.del
    BY <2>2 DEF Config
  <2>4. v # None
    BY <2>3, ConfigAssumption
  <2> QED
    BY <1>5, <2>3, <2>4 DEF Finalized, Leaving
<1> QED
  BY <1>2, <1>3, <1>4, <1>5 DEF UserChanges

-----------------------------------------------------------------------------
(* The SinkFilter the controllers start from is the current one, if the    *)
(* API server accepts what they make of it                                 *)
LEMMA AcceptedIsCurrent ==
    ASSUME NEW h \in Seq(Filters \cup {None}), h # <<>>, Accepts(h)
    PROVE  Found(Cached(h)) = Found(Current(h)) /\ Found(Current(h)) \in Filters
<1> DEFINE S == Filters \cup {None}
<1>1. h \in Seq(S)
  OBVIOUS
<1> HIDE DEF S
<1>2. Current(h) \in S /\ Cached(h) \in S
  BY <1>1, Ends
<1>3. Found(Cached(h)) = Found(Current(h))
  BY DEF Accepts, Found, Cached, Current
<1>4. NoFilters \in Filters
  BY DEF NoFilters, Filters
<1> QED
  BY <1>2, <1>3, <1>4 DEF Found, S

(* Filters of a namespace                                                  *)
LEMMA NamespaceSet ==
    ASSUME NEW s \in Filters, NEW n \in Ns, NEW r \in (SUBSET Kind) \cup {None}
    PROVE  LET t == [s EXCEPT !.ns[n] = r] IN
           /\ t \in Filters /\ Found(t) = t
           /\ t.cluster = s.cluster /\ t.ns[n] = r
           /\ \A m \in Ns : m # n => t.ns[m] = s.ns[m]
<1> DEFINE t == [s EXCEPT !.ns[n] = r]
<1>1. /\ t \in Filters
      /\ t.cluster = s.cluster /\ t.ns[n] = r
      /\ \A m \in Ns : m # n => t.ns[m] = s.ns[m]
  BY DEF Filters
<1>2. Found(t) = t
  BY <1>1, ConfigAssumption DEF Found
<1> QED
  BY <1>1, <1>2

(* Filters of the cluster                                                  *)
LEMMA ClusterSet ==
    ASSUME NEW s \in Filters, NEW r \in SUBSET Kind
    PROVE  LET t == [s EXCEPT !.cluster = r, !.legacy = FALSE] IN
           /\ t \in Filters /\ Found(t) = t
           /\ t.cluster = r /\ t.ns = s.ns
<1> DEFINE t == [s EXCEPT !.cluster = r, !.legacy = FALSE]
<1>1. t \in Filters /\ t.cluster = r /\ t.ns = s.ns
  BY DEF Filters
<1>2. Found(t) = t
  BY <1>1, ConfigAssumption DEF Found
<1> QED
  BY <1>1, <1>2

(* An accepted update of the filters of a namespace                        *)
LEMMA NamespaceUpdate ==
    ASSUME Objects, NEW n \in Ns, NEW r \in (SUBSET Kind) \cup {None},
           UpdateSinkFilterNamespace(n, r)
    PROVE  /\ sf' \in Seq(Filters \cup {None}) \ {<<>>}
           /\ Found(Current(sf')).cluster = Found(Current(sf)).cluster
           /\ Found(Current(sf')).ns[n] = r
           /\ \A m \in Ns : m # n => Found(Current(sf')).ns[m] = Found(Current(sf)).ns[m]
<1> DEFINE f == Found(Cached(sf))
           t == [f EXCEPT !.ns[n] = r]
           S == Filters \cup {None}
<1>1. sf \in Seq(S) /\ sf # <<>> /\ Accepts(sf) /\ sf' = Written(sf, t)
  BY DEF Objects, UpdateSinkFilterNamespace
<1>2. f \in Filters /\ f = Found(Current(sf))
  BY <1>1, AcceptedIsCurrent
<1> HIDE DEF f
<1>3. /\ t \in Filters /\ Found(t) = t
      /\ t.cluster = f.cluster /\ t.ns[n] = r
      /\ \A m \in Ns : m # n => t.ns[m] = f.ns[m]
  BY <1>2, NamespaceSet
<1> HIDE DEF t
<1>4. t \in S
  BY <1>3
<1>5. S = Filters \cup {None}
  OBVIOUS
<1> HIDE DEF S
<1>6. sf' \in Seq(S) /\ sf' # <<>> /\ Current(sf') = t
  BY <1>1, <1>4, WrittenIsCurrent
<1> QED
  BY <1>2, <1>3, <1>5, <1>6

(* An accepted update of the filters of the cluster                        *)
LEMMA ClusterUpdate ==
    ASSUME Objects, NEW r \in SUBSET Kind, UpdateSinkFilterCluster(r)
    PROVE  /\ sf' \in Seq(Filters \cup {None}) \ {<<>>}
           /\ Found(Current(sf')).cluster = r
           /\ Found(Current(sf')).ns = Found(Current(sf)).ns
<1> DEFINE f == Found(Cached(sf))
           t == [f EXCEPT !.cluster = r, !.legacy = FALSE]
           S == Filters \cup {None}
<1>1. sf \in Seq(S) /\ sf # <<>> /\ Accepts(sf) /\ sf' = Written(sf, t)
  BY DEF Objects, UpdateSinkFilterCluster
<1>2. f \in Filters /\ f = Found(Current(sf))
  BY <1>1, AcceptedIsCurrent
<1> HIDE DEF f
<1>3. t \in Filters /\ Found(t) = t /\ t.cluster = r /\ t.ns = f.ns
  BY <1>2, ClusterSet
<1> HIDE DEF t
<1>4. t \in S
  BY <1>3
<1>5. S = Filters \cup {None}
  OBVIOUS
<1> HIDE DEF S
<1>6. sf' \in Seq(S) /\ sf' # <<>> /\ Current(sf') = t
  BY <1>1, <1>4, WrittenIsCurrent
<1> QED
  BY <1>2, <1>3, <1>5, <1>6

-----------------------------------------------------------------------------
(* A KAC got a new state v that leaves the finalizer as the filters need it *)
LEMMA KacGrows ==
    ASSUME World, NEW n \in Ns, NEW v \in Config \cup {None},
           kac' = [kac EXCEPT ![n] = Append(@, v)],
           UNCHANGED <<ckac, sf, vb, child>>,
           Orderly(Append(kac[n], v)),
           Finalized(v) \/ Found(Current(sf)).ns[n] = None
    PROVE  World'
<1>1. kac \in [Ns -> ConfigHistory] /\ kac[n] \in ConfigHistory
  BY DEF World, Objects
<1>2. Append(kac[n], v) \in ConfigHistory /\ Current(Append(kac[n], v)) = v
  BY <1>1, ConfigAppended
<1>3. /\ kac' \in [Ns -> ConfigHistory] /\ kac'[n] = Append(kac[n], v)
      /\ \A m \in Ns : m # n => kac'[m] = kac[m]
  BY <1>1, <1>2
<1>4. Objects'
  BY <1>3 DEF World, Objects
<1>5. \A m \in Ns : Orderly(kac'[m])
  BY <1>3 DEF World
<1>6. NoOrphanFilters'
  <2>1. \A m \in Ns : Found(Current(sf)).ns[m] # None => Finalized(Current(kac'[m]))
    BY <1>2, <1>3 DEF World, NoOrphanFilters, Finalized
  <2> QED
    BY <2>1 DEF World, NoOrphanFilters, Finalized
<1> QED
  BY <1>4, <1>5, <1>6 DEF World

(* The CKAC likewise                                                       *)
LEMMA CkacGrows ==
    ASSUME World, NEW v \in Config \cup {None}, ckac' = Append(ckac, v),
           UNCHANGED <<kac, sf, vb, child>>,
           Orderly(Append(ckac, v)),
           Finalized(v) \/ Found(Current(sf)).cluster = {}
    PROVE  World'
<1>1. ckac' \in ConfigHistory /\ Current(ckac') = v
  BY ConfigAppended DEF World, Objects
<1>2. Objects'
  BY <1>1 DEF World, Objects
<1>3. NoOrphanFilters'
  BY <1>1 DEF World, NoOrphanFilters, Finalized
<1> QED
  BY <1>2, <1>3 DEF World

(* Nothing is under way                                                    *)
LEMMA AtRest ==
    ASSUME NEW k, NEW h, NEW s
    PROVE  KacAt(k, s, "idle", None, None, 1) /\ CkacAt(h, s, "idle", None)
<1>1. Len(Children) \in Nat
  BY ConfigAssumption, LenProperties
<1> QED
  BY <1>1 DEF KacAt, CkacAt

(* A reconcile learns no less when the histories of the KACs change in a   *)
(* way that keeps what can be known of one                                 *)
LEMMA StillThere ==
    ASSUME NEW k, NEW g, NEW s, NEW pc, NEW n, NEW c, NEW i, NEW t,
           KacAt(k, s, pc, n, c, i),
           \A m \in Ns : \A p : Knows(k[m], p) => Knows(g[m], p),
           \A m \in Ns : Found(Current(s)).ns[m] = None => Found(Current(t)).ns[m] = None
    PROVE  KacAt(g, t, pc, n, c, i)
  BY Zenon DEF KacAt

(* Children                                                                *)
LEMMA ChildSet ==
    ASSUME Objects, NEW n \in Ns, NEW c \in Child,
           NEW h \in Seq(ChildObject \cup {None}) \ {<<>>},
           child' = [child EXCEPT ![n][c] = h],
           UNCHANGED <<kac, ckac, sf, vb>>
    PROVE  Objects'
<1> DEFINE T == Seq(ChildObject \cup {None}) \ {<<>>}
<1>1. child \in [Ns -> [Child -> T]] /\ h \in T
  BY DEF Objects
<1> HIDE DEF T
<1>2. child' \in [Ns -> [Child -> T]]
  BY <1>1
<1> QED
  BY <1>2 DEF Objects, T

(* What else is not the configurations' or the SinkFilter's does not       *)
(* matter                                                                  *)
LEMMA SameConfigs ==
    ASSUME World, Objects', UNCHANGED <<kac, ckac, sf>>
    PROVE  World'
  BY DEF World, NoOrphanFilters

(* The histories one object at a time                                      *)
LEMMA Parts ==
    ASSUME World
    PROVE  /\ \A n \in Ns : kac[n] \in ConfigHistory /\ Orderly(kac[n])
           /\ ckac \in ConfigHistory /\ Orderly(ckac)
           /\ \A n \in Ns : \A c \in Child :
                 child[n][c] \in Seq(ChildObject \cup {None}) /\ child[n][c] # <<>>
  BY DEF World, Objects

-----------------------------------------------------------------------------
(* Users change a KAC                                                      *)
LEMMA EditKacKeeps ==
    ASSUME IInv, NEW n \in Ns, EditKac(n) PROVE IInv'
<1>1. /\ \E h \in UserChanges(kac[n]) : kac' = [kac EXCEPT ![n] = h]
      /\ edits' = edits + 1
      /\ UNCHANGED <<ckac, sf, vb, child, failures, restarts, kqueue, kpc, kns, kcopy,
                     kchild, cqueue, cpc, ccopy>>
  BY DEF EditKac, kvars, cvars
<1>2. World /\ Counters /\ kac[n] \in ConfigHistory /\ Orderly(kac[n])
  BY Parts DEF IInv
<1>3. PICK v \in Config \cup {None} :
          /\ kac' = [kac EXCEPT ![n] = Append(kac[n], v)]
          /\ Finalized(v) <=> Finalized(Current(kac[n]))
          /\ Leaving(Current(kac[n])) => Leaving(v)
  BY <1>1, <1>2, UserChangesAre DEF Counters
<1>4. Orderly(Append(kac[n], v)) /\ \A pc : Knows(kac[n], pc) => Knows(Append(kac[n], v), pc)
  BY <1>2, <1>3, ChangeIsOrderly
<1>5. Finalized(v) \/ Found(Current(sf)).ns[n] = None
  BY <1>2, <1>3 DEF World, NoOrphanFilters, Finalized
<1>6. World'
  BY <1>1, <1>2, <1>3, <1>4, <1>5, KacGrows
<1>7. Counters'
  BY <1>1, <1>2 DEF Counters
<1>8. \A m \in Ns : \A p : Knows(kac[m], p) => Knows(kac'[m], p)
  <2>1. kac'[n] = Append(kac[n], v) /\ \A m \in Ns : m # n => kac'[m] = kac[m]
    BY <1>2, <1>3 DEF World, Objects
  <2> QED
    BY <1>4, <2>1
<1>9. KacAt(kac', sf, kpc, kns, kcopy, kchild)
  BY <1>8, StillThere DEF IInv
<1> QED
  BY <1>1, <1>6, <1>7, <1>9 DEF IInv

(* Users change the CKAC                                                   *)
LEMMA EditCkacKeeps ==
    ASSUME IInv, EditCkac PROVE IInv'
<1>1. /\ ckac' \in UserChanges(ckac)
      /\ edits' = edits + 1
      /\ UNCHANGED <<kac, sf, vb, child, failures, restarts, kqueue, kpc, kns, kcopy,
                     kchild, cqueue, cpc, ccopy>>
  BY DEF EditCkac, kvars, cvars
<1>2. World /\ Counters /\ ckac \in ConfigHistory /\ Orderly(ckac)
  BY Parts DEF IInv
<1>3. PICK v \in Config \cup {None} :
          /\ ckac' = Append(ckac, v)
          /\ Finalized(v) <=> Finalized(Current(ckac))
          /\ Leaving(Current(ckac)) => Leaving(v)
  BY <1>1, <1>2, UserChangesAre DEF Counters
<1>4. Orderly(Append(ckac, v)) /\ \A pc : Knows(ckac, pc) => Knows(Append(ckac, v), pc)
  BY <1>2, <1>3, ChangeIsOrderly
<1>5. Finalized(v) \/ Found(Current(sf)).cluster = {}
  BY <1>2, <1>3 DEF World, NoOrphanFilters, Finalized
<1>6. World'
  BY <1>1, <1>2, <1>3, <1>4, <1>5, CkacGrows
<1>7. Counters'
  BY <1>1, <1>2 DEF Counters
<1>8. CkacAt(ckac', sf, cpc, ccopy)
  BY <1>3, <1>4 DEF IInv, CkacAt
<1> QED
  BY <1>1, <1>6, <1>7, <1>8 DEF IInv

(* The garbage collector, and a child's state coming to the cache          *)
LEMMA ChildSteps ==
    ASSUME IInv, NEW n \in Ns, NEW c \in Child, Collect(n, c) \/ SyncChild(n, c)
    PROVE  IInv'
<1>1. World /\ Counters /\ child[n][c] \in Seq(ChildObject \cup {None}) /\ child[n][c] # <<>>
  BY Parts DEF IInv
<1>2. /\ UNCHANGED <<kac, ckac, sf, vb, edits, failures, restarts, kpc, kns, kcopy, kchild,
                     cqueue, cpc, ccopy>>
      /\ kqueue' \in {kqueue, kqueue \cup {n}}
      /\ \/ child' = [child EXCEPT ![n][c] = Append(child[n][c], None)]
         \/ /\ Len(child[n][c]) > 1
            /\ child' = [child EXCEPT ![n][c] = Tail(child[n][c])]
  BY Zenon DEF Collect, SyncChild, kvars, cvars, bounds
<1>3. Objects'
  <2> DEFINE S == ChildObject \cup {None}
  <2>0. S = ChildObject \cup {None} /\ None \in S
    OBVIOUS
  <2> HIDE DEF S
  <2>1. Append(child[n][c], None) \in Seq(S) \ {<<>>}
    BY <1>1, <2>0, Appended
  <2>2. Len(child[n][c]) > 1 => Tail(child[n][c]) \in Seq(S) \ {<<>>}
    BY <1>1, <2>0, Advanced
  <2> QED
    BY <1>1, <1>2, <2>0, <2>1, <2>2, ChildSet DEF World
<1>4. World'
  BY <1>1, <1>2, <1>3, SameConfigs
<1>5. Counters'
  BY <1>1, <1>2 DEF Counters
<1> QED
  BY <1>2, <1>4, <1>5 DEF IInv

(* A state of a KAC comes to the cache                                     *)
LEMMA SyncKacKeeps ==
    ASSUME IInv, NEW n \in Ns, SyncKac(n) PROVE IInv'
<1>1. /\ Len(kac[n]) > 1
      /\ kac' = [kac EXCEPT ![n] = Tail(kac[n])]
      /\ kqueue' = kqueue \cup {n}
      /\ UNCHANGED <<ckac, sf, vb, child, edits, failures, restarts, kpc, kns, kcopy, kchild,
                     cqueue, cpc, ccopy>>
  BY DEF SyncKac, bounds, cvars
<1>2. World /\ Counters /\ kac[n] \in ConfigHistory /\ Orderly(kac[n])
  BY Parts DEF IInv
<1>3. Orderly(Tail(kac[n])) /\ \A pc : Knows(kac[n], pc) => Knows(Tail(kac[n]), pc)
  BY <1>1, <1>2, AdvanceIsOrderly
<1>4. Tail(kac[n]) \in ConfigHistory /\ Current(Tail(kac[n])) = Current(kac[n])
  BY <1>1, <1>2, Advanced DEF ConfigHistory
<1>5. /\ kac' \in [Ns -> ConfigHistory] /\ kac'[n] = Tail(kac[n])
      /\ \A m \in Ns : m # n => kac'[m] = kac[m]
  BY <1>1, <1>2, <1>4 DEF World, Objects
<1>6. \A m \in Ns : Orderly(kac'[m]) /\ Current(kac'[m]) = Current(kac[m])
  BY <1>2, <1>3, <1>4, <1>5 DEF World
<1>7. World'
  BY <1>1, <1>2, <1>5, <1>6 DEF World, Objects, NoOrphanFilters
<1>8. Counters'
  BY <1>1, <1>2 DEF Counters
<1>9. \A m \in Ns : \A p : Knows(kac[m], p) => Knows(kac'[m], p)
  BY <1>3, <1>5
<1>10. KacAt(kac', sf, kpc, kns, kcopy, kchild)
  BY <1>9, StillThere DEF IInv
<1> QED
  BY <1>1, <1>7, <1>8, <1>10 DEF IInv

(* A state of the CKAC comes to the cache                                  *)
LEMMA SyncCkacKeeps ==
    ASSUME IInv, SyncCkac PROVE IInv'
<1>1. /\ Len(ckac) > 1 /\ ckac' = Tail(ckac) /\ cqueue' = TRUE
      /\ kqueue' = kqueue \cup {n \in Ns : Cached(kac[n]) # None}
      /\ UNCHANGED <<kac, sf, vb, child, edits, failures, restarts, kpc, kns, kcopy, kchild,
                     cpc, ccopy>>
  BY DEF SyncCkac, bounds
<1>2. World /\ Counters /\ ckac \in ConfigHistory /\ Orderly(ckac)
  BY Parts DEF IInv
<1>3. Orderly(Tail(ckac)) /\ \A pc : Knows(ckac, pc) => Knows(Tail(ckac), pc)
  BY <1>1, <1>2, AdvanceIsOrderly
<1>4. Tail(ckac) \in ConfigHistory /\ Current(Tail(ckac)) = Current(ckac)
  BY <1>1, <1>2, Advanced DEF ConfigHistory
<1>5. World'
  BY <1>1, <1>2, <1>3, <1>4 DEF World, Objects, NoOrphanFilters
<1>6. Counters'
  BY <1>1, <1>2 DEF Counters
<1>7. CkacAt(ckac', sf, cpc, ccopy)
  BY <1>1, <1>3 DEF IInv, CkacAt
<1> QED
  BY <1>1, <1>5, <1>6, <1>7 DEF IInv

(* A state of the SinkFilter or of the RoleBinding comes to the cache      *)
LEMMA SyncOtherKeeps ==
    ASSUME IInv, SyncOther PROVE IInv'
<1>1. /\ \/ Len(sf) > 1 /\ sf' = Tail(sf) /\ vb' = vb
         \/ Len(vb) > 1 /\ vb' = Tail(vb) /\ sf' = sf
      /\ UNCHANGED <<kac, ckac, child, edits, failures, restarts, kqueue, kpc, kns, kcopy,
                     kchild, cqueue, cpc, ccopy>>
  BY DEF SyncOther, bounds, kvars, cvars
<1>2. World /\ Counters
  BY DEF IInv
<1>3. Len(sf) > 1 => /\ Tail(sf) \in Seq(Filters \cup {None}) \ {<<>>}
                     /\ Current(Tail(sf)) = Current(sf)
  BY <1>2, Advanced DEF World, Objects
<1>4. Len(vb) > 1 => Tail(vb) \in Seq((SUBSET (Ns \cup {ClusterVacuum})) \cup {None}) \ {<<>>}
  BY <1>2, Advanced DEF World, Objects
<1>5. Objects' /\ Current(sf') = Current(sf)
  BY <1>1, <1>2, <1>3, <1>4 DEF World, Objects
<1>6. World'
  BY <1>1, <1>2, <1>5 DEF World, NoOrphanFilters
<1>7. Counters'
  BY <1>1, <1>2 DEF Counters
<1>8. KacAt(kac, sf', kpc, kns, kcopy, kchild) /\ CkacAt(ckac, sf', cpc, ccopy)
  BY <1>5 DEF IInv, KacAt, CkacAt
<1> QED
  BY <1>1, <1>6, <1>7, <1>8 DEF IInv

-----------------------------------------------------------------------------
(* The finalizer is put on the current state of a KAC                      *)
LEMMA AddFinalizerKeeps ==
    ASSUME IInv, kpc = "addFinalizer", Current(kac[kns]) = kcopy,
           kac' = [kac EXCEPT ![kns] = Append(@, [kcopy EXCEPT !.fin = TRUE])],
           UNCHANGED <<ckac, sf, vb, child>>
    PROVE  World' /\ KacAt(kac', sf', "filter", kns, [kcopy EXCEPT !.fin = TRUE], kchild)
<1> DEFINE v == [kcopy EXCEPT !.fin = TRUE]
<1>1. /\ World /\ kns \in Ns /\ kcopy \in Config /\ ~kcopy.fin /\ ~kcopy.del /\ kchild = 1
      /\ Knows(kac[kns], "addFinalizer") /\ kac[kns] \in ConfigHistory
  BY Parts DEF IInv, KacAt
<1>2. v \in Config /\ v.fin /\ ~v.del
  BY <1>1 DEF Config
<1>3. v # None
  BY <1>2, ConfigAssumption
<1>4. kac' = [kac EXCEPT ![kns] = Append(@, v)]
  OBVIOUS
<1> HIDE DEF v
<1>5. Finalized(v) /\ ~Leaving(v) /\ ~Finalized(kcopy)
  BY <1>1, <1>2, <1>3 DEF Finalized, Leaving
<1>6. Orderly(Append(kac[kns], v)) /\ Knows(Append(kac[kns], v), "filter")
  BY <1>1, <1>2, <1>5, AdditionIsOrderly
<1>7. World'
  BY <1>1, <1>2, <1>4, <1>5, <1>6, KacGrows
<1>8. kac'[kns] = Append(kac[kns], v)
  BY <1>1, <1>4 DEF World, Objects
<1>9. KacAt(kac', sf', "filter", kns, v, kchild)
  BY <1>1, <1>2, <1>6, <1>8, AtRest DEF KacAt, KSteps
<1> QED
  BY <1>7, <1>9 DEF v

(* The filters of a namespace are written while its KAC has the finalizer, *)
(* or removed                                                              *)
LEMMA FilterKeeps ==
    ASSUME IInv, NEW r \in (SUBSET Kind) \cup {None}, kns \in Ns,
           UpdateSinkFilterNamespace(kns, r),
           r = None \/ Finalized(Current(kac[kns])),
           UNCHANGED <<kac, ckac, vb, child>>
    PROVE  World' /\ CkacAt(ckac', sf', cpc, ccopy) /\ Found(Current(sf')).ns[kns] = r
<1>1. World /\ Objects
  BY DEF IInv, World
<1>2. /\ sf' \in Seq(Filters \cup {None}) \ {<<>>}
      /\ Found(Current(sf')).cluster = Found(Current(sf)).cluster
      /\ Found(Current(sf')).ns[kns] = r
      /\ \A m \in Ns : m # kns => Found(Current(sf')).ns[m] = Found(Current(sf)).ns[m]
  BY <1>1, NamespaceUpdate
<1>3. Objects'
  BY <1>1, <1>2 DEF Objects
<1>4. NoOrphanFilters'
  <2>1. \A m \in Ns : Found(Current(sf')).ns[m] # None => Finalized(Current(kac[m]))
    BY <1>1, <1>2 DEF World, NoOrphanFilters, Finalized
  <2>2. Found(Current(sf')).cluster # {} => Finalized(Current(ckac))
    BY <1>1, <1>2 DEF World, NoOrphanFilters, Finalized
  <2> QED
    BY <2>1, <2>2 DEF NoOrphanFilters, Finalized
<1>5. World'
  BY <1>1, <1>3, <1>4 DEF World
<1>6. CkacAt(ckac', sf', cpc, ccopy)
  BY <1>2 DEF IInv, CkacAt
<1> QED
  BY <1>2, <1>5, <1>6

(* What a reconcile makes of a child is a child                            *)
LEMMA DesiredIsChild ==
    ASSUME World, kcopy \in Config, NEW n \in Ns, NEW c \in Child, NEW r \in SUBSET Kind
    PROVE  Desired(n, c, r) \in ChildObject
<1> DEFINE S == ChildObject \cup {None}
           old == Cached(child[n][c])
<1>1. child[n][c] \in Seq(S) /\ child[n][c] # <<>>
  BY Parts
<1> HIDE DEF S
<1>2. old \in S
  BY <1>1, Ends
<1> HIDE DEF old
<1>3. (IF old = None THEN kcopy.uid ELSE old.owner) \in Nat
  BY <1>2 DEF S, ChildObject, Config
<1>4. Desired(n, c, r) = [owner |-> IF old = None THEN kcopy.uid ELSE old.owner, kinds |-> r]
  BY DEF Desired, old
<1> QED
  BY <1>3, <1>4 DEF ChildObject

(* A child is written                                                      *)
LEMMA ChildKeeps ==
    ASSUME World, kcopy \in Config, NEW n \in Ns, NEW c \in Child, ReconcileChild(n, c),
           UNCHANGED <<kac, ckac, sf, vb>>
    PROVE  World'
<1> DEFINE S == ChildObject \cup {None}
           h == child[n][c]
<1>1. h \in Seq(S) /\ h # <<>> /\ S = ChildObject \cup {None}
  BY Parts
<1> HIDE DEF S
<1>2. ASSUME NEW v \in ChildObject
      PROVE  Written(h, v) \in Seq(S) \ {<<>>} /\ Append(h, v) \in Seq(S) \ {<<>>}
  <2>1. v \in S
    BY <1>1
  <2> HIDE DEF h
  <2>2. Written(h, v) \in Seq(S) /\ Written(h, v) # <<>>
    BY <1>1, <2>1, WrittenIsCurrent
  <2>3. Append(h, v) \in Seq(S) /\ Append(h, v) # <<>>
    BY <1>1, <2>1, Appended
  <2> QED
    BY <2>2, <2>3
<1>3. \A r \in RuleKinds(c) : r \in SUBSET Kind
  BY ConfigAssumption DEF RuleKinds, CreatePolicyRules
<1>4. child' = child \/ \E g \in Seq(S) \ {<<>>} : child' = [child EXCEPT ![n][c] = g]
  <2>1. CASE ReconcileRole(n, c)
    <3>1. PICK r \in RuleKinds(c) : \E g \in Reordered(h, Desired(n, c, r)) :
              child' = [child EXCEPT ![n][c] = g]
      BY <2>1 DEF ReconcileRole
    <3>2. Desired(n, c, r) \in ChildObject
      BY <1>3, <3>1, DesiredIsChild
    <3> QED
      BY <1>2, <3>1, <3>2 DEF Reordered
  <2>2. CASE ReconcileRoleBinding(n, c)
    <3>1. Desired(n, c, {}) \in ChildObject
      BY DesiredIsChild
    <3>2. PICK g \in {Written(h, Desired(n, c, {})), Append(h, Desired(n, c, {}))} :
              child' = [child EXCEPT ![n][c] = g]
      BY <2>2 DEF ReconcileRoleBinding, Reordered
    <3> QED
      BY <1>2, <3>1, <3>2
  <2>3. CASE ReconcileServiceAccount(n, c)
    <3>1. Desired(n, c, {}) \in ChildObject
      BY DesiredIsChild
    <3>2. child' = child \/ child' = [child EXCEPT ![n][c] = Append(h, Desired(n, c, {}))]
      BY <2>3 DEF ReconcileServiceAccount
    <3> QED
      BY <1>2, <3>1, <3>2
  <2> QED
    BY <2>1, <2>2, <2>3 DEF ReconcileChild
<1>5. Objects'
  BY <1>1, <1>4, ChildSet DEF World, Objects
<1> QED
  BY <1>5, SameConfigs

(* The subjects of the RoleBinding are written                             *)
LEMMA BindingKeeps ==
    ASSUME World, NEW n \in Ns, NEW add \in BOOLEAN, ReconcileVacuumBinding(n, add),
           UNCHANGED <<kac, ckac, sf, child>>
    PROVE  World'
<1> DEFINE P == SUBSET (Ns \cup {ClusterVacuum})
           S == P \cup {None}
           subjects == {n} \cup (IF add THEN {ClusterVacuum} ELSE {})
           old == Cached(vb)
<1>1. vb \in Seq(S) /\ vb # <<>>
  BY DEF World, Objects
<1>2. subjects \in P
  OBVIOUS
<1>3. vb' \in IF old = None THEN {Append(vb, subjects)}
              ELSE IF add THEN Reordered(vb, old \cup subjects)
              ELSE {Written(vb, old \ subjects)}
  BY DEF ReconcileVacuumBinding
<1> HIDE DEF subjects
<1>4. old \in S
  <2> HIDE DEF S
  <2> QED
    BY <1>1, Ends
<1> HIDE DEF old
<1>5. PICK v \in P : vb' \in {Append(vb, v), Written(vb, v)}
  <2>1. old # None => old \cup subjects \in P /\ old \ subjects \in P
    BY <1>2, <1>4
  <2> HIDE DEF P
  <2> QED
    BY <1>2, <1>3, <2>1 DEF Reordered
<1>6. vb' \in Seq(S) \ {<<>>}
  <2>1. v \in S
    BY <1>5
  <2> HIDE DEF S
  <2>2. Written(vb, v) \in Seq(S) /\ Written(vb, v) # <<>>
    BY <1>1, <2>1, WrittenIsCurrent
  <2>3. Append(vb, v) \in Seq(S) /\ Append(vb, v) # <<>>
    BY <1>1, <2>1, Appended
  <2> QED
    BY <1>5, <2>2, <2>3
<1>7. Objects'
  BY <1>6 DEF World, Objects
<1> QED
  BY <1>7, SameConfigs

(* The finalizer is removed from a KAC whose filters are gone              *)
LEMMA RemoveFinalizerKeeps ==
    ASSUME IInv, kpc = "removeFinalizer", Current(kac[kns]) = kcopy,
           kac' = [kac EXCEPT ![kns] = Append(@, None)],
           UNCHANGED <<ckac, sf, vb, child>>
    PROVE  World'
<1>1. /\ World /\ kns \in Ns /\ kcopy \in Config
      /\ Knows(kac[kns], "removeFinalizer") /\ kac[kns] \in ConfigHistory
      /\ Orderly(kac[kns])
      /\ Found(Current(sf)).ns[kns] = None
  BY Parts DEF IInv, KacAt
<1>2. Orderly(Append(kac[kns], None))
  <2>1. CASE Finalized(kcopy)
    BY <1>1, <2>1, RemovalIsOrderly
  <2>2. CASE ~Finalized(kcopy)
    <3>1. ~Finalized(None) /\ ~Leaving(kcopy)
      BY <2>2 DEF Finalized, Leaving
    <3> QED
      BY <1>1, <2>2, <3>1, ChangeIsOrderly
  <2> QED
    BY <2>1, <2>2
<1> QED
  BY <1>1, <1>2, KacGrows

-----------------------------------------------------------------------------
\* What Reconcile of a KAC goes on with after a write.
CopyAfter == IF kpc = "addFinalizer" THEN [kcopy EXCEPT !.fin = TRUE] ELSE kcopy
ChildAfter == IF kpc = "child" THEN kchild + 1 ELSE kchild

(* Every write Reconcile of a KAC makes                                    *)
LEMMA KWriteKeeps ==
    ASSUME IInv, KWrite, kpc # "idle"
    PROVE  /\ World' /\ CkacAt(ckac', sf', cpc, ccopy)
           /\ KNext # "idle" => KacAt(kac', sf', KNext, kns, CopyAfter, ChildAfter)
<1>1. /\ World /\ kns \in Ns /\ kcopy \in Config /\ Knows(kac[kns], kpc)
      /\ kchild \in 1..(Len(Children) + 1) /\ Len(Children) \in Nat
      /\ kcopy.res \in SUBSET Kind
  BY ConfigAssumption, LenProperties DEF IInv, KacAt, Config
<1>2. /\ KacAt(kac, sf, kpc, kns, kcopy, kchild)
      /\ CkacAt(ckac, sf, cpc, ccopy)
  BY DEF IInv
<1>3. CASE /\ kpc = "addFinalizer" /\ Current(kac[kns]) = kcopy
           /\ kac' = [kac EXCEPT ![kns] = Append(@, [kcopy EXCEPT !.fin = TRUE])]
           /\ UNCHANGED <<ckac, sf, vb, child>>
  <2>1. KNext = "filter" /\ CopyAfter = [kcopy EXCEPT !.fin = TRUE] /\ ChildAfter = kchild
    BY <1>3 DEF KNext, CopyAfter, ChildAfter
  <2> QED
    BY <1>2, <1>3, <2>1, AddFinalizerKeeps
<1>4. CASE /\ kpc = "filter" /\ UpdateSinkFilterNamespace(kns, kcopy.res)
           /\ UNCHANGED <<kac, ckac, vb, child>>
  <2>1. /\ KNext = (IF Children = <<>> THEN "subjects" ELSE "child")
        /\ CopyAfter = kcopy /\ ChildAfter = kchild
    BY <1>4 DEF KNext, CopyAfter, ChildAfter
  <2>2. World' /\ CkacAt(ckac', sf', cpc, ccopy)
    BY <1>1, <1>4, FilterKeeps DEF Knows
  <2>3. kchild = 1 /\ (Children # <<>> => 1 \in 1..Len(Children))
    BY <1>1, <1>2, <1>4, ConfigAssumption, EmptySeq DEF KacAt
  <2>4. KacAt(kac', sf', "subjects", kns, kcopy, kchild)
    BY <1>1 DEF KacAt, KSteps, Knows
  <2>5. Children # <<>> => KacAt(kac', sf', "child", kns, kcopy, kchild)
    BY <1>1, <2>3 DEF KacAt, KSteps, Knows
  <2> QED
    BY <2>1, <2>2, <2>4, <2>5
<1>5. CASE /\ kpc = "child" /\ ReconcileChild(kns, Children[kchild])
           /\ UNCHANGED <<kac, ckac, sf, vb>>
  <2>1. /\ KNext = (IF kchild = Len(Children) THEN "subjects" ELSE "child")
        /\ CopyAfter = kcopy /\ ChildAfter = kchild + 1
    BY <1>5 DEF KNext, CopyAfter, ChildAfter
  <2>2. kchild \in 1..Len(Children) /\ Children[kchild] \in Child
    BY <1>2, <1>5 DEF KacAt, Child
  <2>3. World'
    BY <1>1, <1>5, <2>2, ChildKeeps
  <2>4. KacAt(kac', sf', "subjects", kns, kcopy, kchild + 1)
    BY <1>1, <2>2 DEF KacAt, KSteps, Knows
  <2>5. kchild # Len(Children) => KacAt(kac', sf', "child", kns, kcopy, kchild + 1)
    BY <1>1, <2>2 DEF KacAt, KSteps, Knows
  <2> QED
    BY <1>2, <1>5, <2>1, <2>3, <2>4, <2>5
<1>6. CASE /\ kpc \in {"subjects", "unsubject"}
           /\ ReconcileVacuumBinding(kns, kpc = "subjects")
           /\ UNCHANGED <<kac, ckac, sf, child>>
  <2>1. /\ KNext = (IF kpc = "subjects" THEN "idle" ELSE "removeFinalizer")
        /\ CopyAfter = kcopy /\ ChildAfter = kchild
    BY <1>6 DEF KNext, CopyAfter, ChildAfter
  <2>2. World'
    BY <1>1, <1>6, BindingKeeps
  <2>3. kpc = "unsubject" => KacAt(kac', sf', "removeFinalizer", kns, kcopy, kchild)
    BY <1>1, <1>2, <1>6 DEF KacAt, KSteps, Knows
  <2> QED
    BY <1>2, <1>6, <2>1, <2>2, <2>3
<1>7. CASE /\ kpc = "unfilter" /\ UpdateSinkFilterNamespace(kns, None)
           /\ UNCHANGED <<kac, ckac, vb, child>>
  <2>1. KNext = "unsubject" /\ CopyAfter = kcopy /\ ChildAfter = kchild
    BY <1>7 DEF KNext, CopyAfter, ChildAfter
  <2>2. /\ World' /\ CkacAt(ckac', sf', cpc, ccopy)
        /\ Found(Current(sf')).ns[kns] = None
    BY <1>1, <1>7, FilterKeeps
  <2>3. KacAt(kac', sf', "unsubject", kns, kcopy, kchild)
    BY <1>1, <1>7, <2>2 DEF KacAt, KSteps, Knows
  <2> QED
    BY <2>1, <2>2, <2>3
<1>8. CASE /\ kpc = "removeFinalizer" /\ Current(kac[kns]) = kcopy
           /\ kac' = [kac EXCEPT ![kns] = Append(@, None)]
           /\ UNCHANGED <<ckac, sf, vb, child>>
  <2>1. KNext = "idle"
    BY <1>8 DEF KNext
  <2> QED
    BY <1>2, <1>8, <2>1, RemoveFinalizerKeeps
<1> QED
  BY <1>3, <1>4, <1>5, <1>6, <1>7, <1>8 DEF KWrite

(* Reconcile of a KAC reads it                                             *)
LEMMA KGetKeeps ==
    ASSUME IInv, NEW n \in Ns, KGet(n) PROVE IInv'
<1> DEFINE c == Cached(kac[n])
<1>1. /\ n \in kqueue /\ kqueue' = kqueue \ {n}
      /\ IF FirstStep(c) = "idle" THEN KReturn
         ELSE kpc' = FirstStep(c) /\ kns' = n /\ kcopy' = c /\ kchild' = 1
      /\ UNCHANGED <<kac, ckac, sf, vb, child, edits, failures, restarts, cqueue, cpc, ccopy>>
  BY DEF KGet, objects, bounds, cvars
<1>2. World /\ Counters /\ kac[n] \in ConfigHistory /\ Orderly(kac[n])
  BY Parts DEF IInv
<1>3. World'
  BY <1>1, <1>2 DEF World, Objects, NoOrphanFilters
<1>4. Counters'
  BY <1>1, <1>2 DEF Counters
<1>5. KacAt(kac, sf, kpc', kns', kcopy', kchild')
  <2>1. CASE FirstStep(c) = "idle"
    BY <1>1, <2>1, AtRest DEF KReturn
  <2>2. CASE FirstStep(c) # "idle"
    <3>1. Knows(kac[n], FirstStep(c)) /\ c \in Config
      BY <1>2, <2>2, ReadKnows
    <3>2. /\ FirstStep(c) \in {"addFinalizer", "filter", "unfilter"}
          /\ FirstStep(c) = "addFinalizer" => ~c.fin /\ ~c.del
      BY <2>2 DEF FirstStep
    <3>3. Len(Children) \in Nat
      BY ConfigAssumption, LenProperties
    <3> HIDE DEF c
    <3>4. KacAt(kac, sf, FirstStep(c), n, c, 1)
      BY <3>1, <3>2, <3>3 DEF KacAt, KSteps
    <3> QED
      BY <1>1, <2>2, <3>4
  <2> QED
    BY <2>1, <2>2
<1> QED
  BY <1>1, <1>3, <1>4, <1>5 DEF IInv

(* A write of Reconcile of a KAC succeeds                                  *)
LEMMA KStepKeeps ==
    ASSUME IInv, KStep PROVE IInv'
<1>1. /\ kpc # "idle" /\ KWrite
      /\ IF KNext = "idle" THEN KReturn
         ELSE kpc' = KNext /\ kcopy' = CopyAfter /\ kchild' = ChildAfter /\ kns' = kns
      /\ UNCHANGED <<edits, failures, restarts, kqueue, cqueue, cpc, ccopy>>
  BY DEF KStep, bounds, cvars, CopyAfter, ChildAfter
<1>2. /\ World' /\ CkacAt(ckac', sf', cpc, ccopy)
      /\ KNext # "idle" => KacAt(kac', sf', KNext, kns, CopyAfter, ChildAfter)
  BY <1>1, KWriteKeeps
<1>3. KacAt(kac', sf', kpc', kns', kcopy', kchild')
  BY <1>1, <1>2, AtRest DEF KReturn
<1>4. Counters'
  BY <1>1 DEF IInv, Counters
<1> QED
  BY <1>1, <1>2, <1>3, <1>4 DEF IInv

(* It is refused                                                           *)
LEMMA KRefusedKeeps ==
    ASSUME IInv, KRefused PROVE IInv'
<1>1. /\ kpc # "idle" /\ kqueue' = kqueue \cup {kns}
      /\ KReturn
      /\ UNCHANGED <<kac, ckac, sf, vb, child, edits, failures, restarts, cqueue, cpc, ccopy>>
  BY DEF KRefused, KRetry, objects, bounds, cvars
<1>2. World'
  BY <1>1 DEF IInv, World, Objects, NoOrphanFilters
<1>3. Counters'
  BY <1>1 DEF IInv, Counters, KacAt
<1>4. KacAt(kac', sf', kpc', kns', kcopy', kchild')
  BY <1>1, AtRest DEF KReturn
<1> QED
  BY <1>1, <1>2, <1>3, <1>4 DEF IInv

(* It fails, whether it took effect or not                                 *)
LEMMA KFailsKeeps ==
    ASSUME IInv, KFails PROVE IInv'
<1>1. /\ kpc # "idle" /\ kqueue' = kqueue \cup {kns} /\ failures' = failures + 1
      /\ UNCHANGED <<kac, ckac, sf, vb, child>> \/ KWrite
      /\ KReturn
      /\ UNCHANGED <<edits, restarts, cqueue, cpc, ccopy>>
  BY DEF KFails, KRetry, objects, cvars
<1>2. World' /\ CkacAt(ckac', sf', cpc, ccopy)
  <2>1. CASE UNCHANGED <<kac, ckac, sf, vb, child>>
    BY <2>1 DEF IInv, World, Objects, NoOrphanFilters
  <2>2. CASE KWrite
    BY <1>1, <2>2, KWriteKeeps
  <2> QED
    BY <1>1, <2>1, <2>2
<1>3. Counters'
  BY <1>1 DEF IInv, Counters, KacAt
<1>4. KacAt(kac', sf', kpc', kns', kcopy', kchild')
  BY <1>1, AtRest DEF KReturn
<1> QED
  BY <1>1, <1>2, <1>3, <1>4 DEF IInv

-----------------------------------------------------------------------------
(* The filters of the cluster are written while the CKAC has the           *)
(* finalizer, or removed                                                   *)
LEMMA ClusterFilterKeeps ==
    ASSUME IInv, NEW r \in SUBSET Kind, UpdateSinkFilterCluster(r),
           r = {} \/ Finalized(Current(ckac)),
           UNCHANGED <<kac, ckac, vb, child>>
    PROVE  /\ World' /\ KacAt(kac', sf', kpc, kns, kcopy, kchild)
           /\ Found(Current(sf')).cluster = r
<1>1. World /\ Objects
  BY DEF IInv, World
<1>2. /\ sf' \in Seq(Filters \cup {None}) \ {<<>>}
      /\ Found(Current(sf')).cluster = r
      /\ Found(Current(sf')).ns = Found(Current(sf)).ns
  BY <1>1, ClusterUpdate
<1>3. Objects'
  BY <1>1, <1>2 DEF Objects
<1>4. NoOrphanFilters'
  <2>1. \A m \in Ns : Found(Current(sf')).ns[m] # None => Finalized(Current(kac[m]))
    BY <1>1, <1>2 DEF World, NoOrphanFilters, Finalized
  <2>2. Found(Current(sf')).cluster # {} => Finalized(Current(ckac))
    BY <1>2
  <2> QED
    BY <2>1, <2>2 DEF NoOrphanFilters, Finalized
<1>5. World'
  BY <1>1, <1>3, <1>4 DEF World
<1>6. KacAt(kac', sf', kpc, kns, kcopy, kchild)
  BY <1>2 DEF IInv, KacAt
<1> QED
  BY <1>2, <1>5, <1>6

\* What Reconcile of the CKAC goes on with after a write.
ClusterCopyAfter == IF cpc = "addFinalizer" THEN [ccopy EXCEPT !.fin = TRUE] ELSE ccopy

(* Every write Reconcile of the CKAC makes                                 *)
LEMMA CWriteKeeps ==
    ASSUME IInv, CWrite, cpc # "idle"
    PROVE  /\ World' /\ KacAt(kac', sf', kpc, kns, kcopy, kchild)
           /\ CNext # "idle" => CkacAt(ckac', sf', CNext, ClusterCopyAfter)
<1>1. /\ World /\ ccopy \in Config /\ Knows(ckac, cpc) /\ ccopy.res \in SUBSET Kind
      /\ ckac \in ConfigHistory /\ Orderly(ckac)
  BY Parts DEF IInv, CkacAt, Config
<1>2. /\ KacAt(kac, sf, kpc, kns, kcopy, kchild)
      /\ CkacAt(ckac, sf, cpc, ccopy)
  BY DEF IInv
<1>3. CASE /\ cpc = "addFinalizer" /\ Current(ckac) = ccopy
           /\ ckac' = Append(ckac, [ccopy EXCEPT !.fin = TRUE])
           /\ UNCHANGED <<kac, sf, vb, child>>
  <2> DEFINE v == [ccopy EXCEPT !.fin = TRUE]
  <2>1. CNext = "filter" /\ ClusterCopyAfter = v
    BY <1>3 DEF CNext, ClusterCopyAfter
  <2>2. v \in Config /\ v.fin /\ ~v.del /\ ~ccopy.fin
    BY <1>1, <1>2, <1>3 DEF CkacAt, Config
  <2>3. v # None
    BY <2>2, ConfigAssumption
  <2>4. ckac' = Append(ckac, v)
    BY <1>3
  <2> HIDE DEF v
  <2>5. Finalized(v) /\ ~Leaving(v) /\ ~Finalized(Current(ckac))
    BY <1>3, <2>2, <2>3 DEF Finalized, Leaving
  <2>6. Orderly(Append(ckac, v)) /\ Knows(Append(ckac, v), "filter")
    BY <1>1, <1>3, <2>2, <2>5, AdditionIsOrderly
  <2>7. World'
    BY <1>1, <1>3, <2>2, <2>4, <2>5, <2>6, CkacGrows
  <2>8. CkacAt(ckac', sf', "filter", v)
    BY <2>2, <2>4, <2>6 DEF CkacAt, CSteps
  <2> QED
    BY <1>2, <1>3, <2>1, <2>7, <2>8
<1>4. CASE /\ cpc = "filter" /\ UpdateSinkFilterCluster(ccopy.res)
           /\ UNCHANGED <<kac, ckac, vb, child>>
  <2>1. CNext = "idle"
    BY <1>4 DEF CNext
  <2> QED
    BY <1>1, <1>4, <2>1, ClusterFilterKeeps DEF Knows
<1>5. CASE /\ cpc = "unfilter" /\ UpdateSinkFilterCluster({})
           /\ UNCHANGED <<kac, ckac, vb, child>>
  <2>1. CNext = "removeFinalizer" /\ ClusterCopyAfter = ccopy
    BY <1>5 DEF CNext, ClusterCopyAfter
  <2>2. /\ World' /\ KacAt(kac', sf', kpc, kns, kcopy, kchild)
        /\ Found(Current(sf')).cluster = {}
    BY <1>5, ClusterFilterKeeps
  <2>3. CkacAt(ckac', sf', "removeFinalizer", ccopy)
    BY <1>1, <1>5, <2>2 DEF CkacAt, CSteps, Knows
  <2> QED
    BY <2>1, <2>2, <2>3
<1>6. CASE /\ cpc = "removeFinalizer" /\ Current(ckac) = ccopy
           /\ ckac' = Append(ckac, None)
           /\ UNCHANGED <<kac, sf, vb, child>>
  <2>1. CNext = "idle"
    BY <1>6 DEF CNext
  <2>2. Found(Current(sf)).cluster = {}
    BY <1>2, <1>6 DEF CkacAt
  <2>3. Orderly(Append(ckac, None))
    <3>1. CASE Finalized(ccopy)
      BY <1>1, <1>6, <3>1, RemovalIsOrderly
    <3>2. CASE ~Finalized(ccopy)
      <4>1. ~Finalized(None) /\ ~Leaving(ccopy)
        BY <3>2 DEF Finalized, Leaving
      <4> QED
        BY <1>1, <1>6, <3>2, <4>1, ChangeIsOrderly
    <3> QED
      BY <3>1, <3>2
  <2> QED
    BY <1>1, <1>2, <1>6, <2>1, <2>2, <2>3, CkacGrows
<1> QED
  BY <1>3, <1>4, <1>5, <1>6 DEF CWrite

(* Reconcile of the CKAC reads it                                          *)
LEMMA CGetKeeps ==
    ASSUME IInv, CGet PROVE IInv'
<1> DEFINE c == Cached(ckac)
<1>1. /\ cqueue' = FALSE /\ cpc' = FirstStep(c)
      /\ ccopy' = IF cpc' = "idle" THEN None ELSE c
      /\ UNCHANGED <<kac, ckac, sf, vb, child, edits, failures, restarts, kqueue, kpc, kns,
                     kcopy, kchild>>
  BY DEF CGet, objects, bounds, kvars
<1>2. World /\ Counters /\ ckac \in ConfigHistory /\ Orderly(ckac)
  BY Parts DEF IInv
<1>3. World'
  BY <1>1, <1>2 DEF World, Objects, NoOrphanFilters
<1>4. Counters'
  BY <1>1, <1>2 DEF Counters
<1>5. CkacAt(ckac, sf, cpc', ccopy')
  <2>1. CASE FirstStep(c) = "idle"
    BY <1>1, <2>1, AtRest
  <2>2. CASE FirstStep(c) # "idle"
    <3>1. Knows(ckac, FirstStep(c)) /\ c \in Config
      BY <1>2, <2>2, ReadKnows
    <3>2. /\ FirstStep(c) \in {"addFinalizer", "filter", "unfilter"}
          /\ FirstStep(c) = "addFinalizer" => ~c.fin /\ ~c.del
      BY <2>2 DEF FirstStep
    <3> HIDE DEF c
    <3>3. CkacAt(ckac, sf, FirstStep(c), c)
      BY <3>1, <3>2 DEF CkacAt, CSteps
    <3> QED
      BY <1>1, <2>2, <3>3
  <2> QED
    BY <2>1, <2>2
<1> QED
  BY <1>1, <1>3, <1>4, <1>5 DEF IInv

(* A write of Reconcile of the CKAC succeeds                               *)
LEMMA CStepKeeps ==
    ASSUME IInv, CStep PROVE IInv'
<1>1. /\ cpc # "idle" /\ CWrite /\ cpc' = CNext
      /\ CNext # "idle" => ccopy' = ClusterCopyAfter
      /\ UNCHANGED <<edits, failures, restarts, kqueue, kpc, kns, kcopy, kchild, cqueue>>
  BY DEF CStep, bounds, kvars, ClusterCopyAfter
<1>2. /\ World' /\ KacAt(kac', sf', kpc, kns, kcopy, kchild)
      /\ CNext # "idle" => CkacAt(ckac', sf', CNext, ClusterCopyAfter)
  BY <1>1, CWriteKeeps
<1>3. CNext = "idle" => ccopy' = None
  BY <1>1 DEF CStep, CNext
<1>4. CkacAt(ckac', sf', cpc', ccopy')
  BY <1>1, <1>2, <1>3, AtRest
<1>5. Counters'
  BY <1>1 DEF IInv, Counters
<1> QED
  BY <1>1, <1>2, <1>4, <1>5 DEF IInv

(* It is refused                                                           *)
LEMMA CRefusedKeeps ==
    ASSUME IInv, CRefused PROVE IInv'
<1>1. /\ cpc' = "idle" /\ ccopy' = None /\ cqueue' = TRUE
      /\ UNCHANGED <<kac, ckac, sf, vb, child, edits, failures, restarts, kqueue, kpc, kns,
                     kcopy, kchild>>
  BY DEF CRefused, CRetry, objects, bounds, kvars
<1>2. World'
  BY <1>1 DEF IInv, World, Objects, NoOrphanFilters
<1>3. Counters'
  BY <1>1 DEF IInv, Counters
<1> QED
  BY <1>1, <1>2, <1>3, AtRest DEF IInv

(* It fails, whether it took effect or not                                 *)
LEMMA CFailsKeeps ==
    ASSUME IInv, CFails PROVE IInv'
<1>1. /\ cpc # "idle" /\ failures' = failures + 1
      /\ UNCHANGED <<kac, ckac, sf, vb, child>> \/ CWrite
      /\ cpc' = "idle" /\ ccopy' = None /\ cqueue' = TRUE
      /\ UNCHANGED <<edits, restarts, kqueue, kpc, kns, kcopy, kchild>>
  BY DEF CFails, CRetry, objects, kvars
<1>2. World' /\ KacAt(kac', sf', kpc, kns, kcopy, kchild)
  <2>1. CASE UNCHANGED <<kac, ckac, sf, vb, child>>
    BY <2>1 DEF IInv, World, Objects, NoOrphanFilters
  <2>2. CASE CWrite
    BY <1>1, <2>2, CWriteKeeps
  <2> QED
    BY <1>1, <2>1, <2>2
<1>3. Counters'
  BY <1>1 DEF IInv, Counters
<1> QED
  BY <1>1, <1>2, <1>3, AtRest DEF IInv

-----------------------------------------------------------------------------
(* The operator is started again                                           *)
LEMMA RestartKeeps ==
    ASSUME IInv, Restart PROVE IInv'
<1>1. /\ restarts' = restarts + 1 /\ UNCHANGED <<edits, failures>>
      /\ kac' = [n \in Ns |-> <<Current(kac[n])>>]
      /\ ckac' = <<Current(ckac)>>
      /\ sf' = <<Current(sf)>>
      /\ vb' = <<Current(vb)>>
      /\ child' = [n \in Ns |-> [c \in Child |-> <<Current(child[n][c])>>]]
      /\ kqueue' \subseteq Ns /\ cqueue' \in BOOLEAN
      /\ KReturn /\ cpc' = "idle" /\ ccopy' = None
  BY DEF Restart
<1>2. World /\ Counters
  BY DEF IInv
<1>3. ASSUME NEW h \in ConfigHistory
      PROVE  <<Current(h)>> \in ConfigHistory /\ Current(<<Current(h)>>) = Current(h)
  <2>1. Current(h) \in Config \cup {None}
    BY Ends DEF ConfigHistory
  <2> QED
    BY <2>1, Refilled DEF ConfigHistory
<1>4. /\ kac' \in [Ns -> ConfigHistory] /\ ckac' \in ConfigHistory
      /\ \A n \in Ns : Current(kac'[n]) = Current(kac[n]) /\ Orderly(kac'[n])
      /\ Current(ckac') = Current(ckac) /\ Orderly(ckac')
  BY <1>1, <1>2, <1>3, Parts, RefillIsOrderly
<1>5. ASSUME NEW S, NEW h \in Seq(S), h # <<>>
      PROVE  <<Current(h)>> \in Seq(S) \ {<<>>} /\ Current(<<Current(h)>>) = Current(h)
  BY <1>5, Ends, Refilled
<1>6. sf' \in Seq(Filters \cup {None}) \ {<<>>} /\ Current(sf') = Current(sf)
  BY <1>1, <1>2, <1>5 DEF World, Objects
<1>7. vb' \in Seq((SUBSET (Ns \cup {ClusterVacuum})) \cup {None}) \ {<<>>}
  BY <1>1, <1>2, <1>5 DEF World, Objects
<1>8. child' \in [Ns -> [Child -> Seq(ChildObject \cup {None}) \ {<<>>}]]
  <2>1. \A n \in Ns : \A c \in Child :
            <<Current(child[n][c])>> \in Seq(ChildObject \cup {None}) \ {<<>>}
    BY <1>2, <1>5, Parts
  <2> QED
    BY <1>1, <2>1
<1>9. World'
  BY <1>2, <1>4, <1>6, <1>7, <1>8 DEF World, Objects, NoOrphanFilters
<1>10. Counters'
  BY <1>1, <1>2 DEF Counters
<1> QED
  BY <1>1, <1>9, <1>10, AtRest DEF IInv, KReturn

(* The invariant holds at first                                            *)
LEMMA InitInv == Init => IInv
<1> SUFFICES ASSUME Init PROVE IInv
  OBVIOUS
<1>1. <<None>> \in ConfigHistory /\ Orderly(<<None>>) /\ Current(<<None>>) = None
  BY Refilled, RefillIsOrderly DEF ConfigHistory
<1> DEFINE l == [NoFilters EXCEPT !.legacy = TRUE]
<1>2. /\ NoFilters \in Filters /\ l \in Filters
      /\ l.cluster = {} /\ \A n \in Ns : l.ns[n] = None
      /\ NoFilters.cluster = {} /\ \A n \in Ns : NoFilters.ns[n] = None
  BY DEF NoFilters, Filters
<1>3. sf = <<None>> \/ sf = <<l>>
  BY DEF Init
<1> HIDE DEF l
<1>4. /\ sf \in Seq(Filters \cup {None}) \ {<<>>}
      /\ Current(sf) = None \/ Current(sf) = l
  <2> DEFINE S == Filters \cup {None}
  <2>1. None \in S /\ l \in S
    BY <1>2
  <2> HIDE DEF S
  <2>2. /\ <<None>> \in Seq(S) /\ <<None>> # <<>> /\ Current(<<None>>) = None
        /\ <<l>> \in Seq(S) /\ <<l>> # <<>> /\ Current(<<l>>) = l
    BY <2>1, Refilled
  <2> QED
    BY <1>3, <2>2 DEF S
<1>5. Found(Current(sf)).cluster = {} /\ \A n \in Ns : Found(Current(sf)).ns[n] = None
  BY <1>2, <1>4 DEF Found
<1>6. vb \in Seq((SUBSET (Ns \cup {ClusterVacuum})) \cup {None}) \ {<<>>}
  BY Refilled DEF Init
<1>7. child \in [Ns -> [Child -> Seq(ChildObject \cup {None}) \ {<<>>}]]
  BY Refilled DEF Init
<1>8. Objects
  BY <1>1, <1>4, <1>6, <1>7 DEF Init, Objects
<1>9. World
  BY <1>1, <1>5, <1>8 DEF Init, World, NoOrphanFilters
<1>10. Counters
  BY DEF Init, Counters
<1> QED
  BY <1>9, <1>10, AtRest DEF Init, IInv

(* No step breaks it                                                       *)
LEMMA NextKeeps == IInv /\ [Next]_vars => IInv'
<1> SUFFICES ASSUME IInv, [Next]_vars PROVE IInv'
  OBVIOUS
<1>1. CASE UNCHANGED vars
  BY <1>1 DEF vars, IInv, World, Objects, NoOrphanFilters, Counters
<1>2. CASE EditCkac \/ SyncCkac \/ SyncOther \/ Restart
  BY <1>2, EditCkacKeeps, SyncCkacKeeps, SyncOtherKeeps, RestartKeeps
<1>3. CASE \E n \in Ns : EditKac(n) \/ SyncKac(n)
  BY <1>3, EditKacKeeps, SyncKacKeeps
<1>4. CASE \E n \in Ns, c \in Child : Collect(n, c) \/ SyncChild(n, c)
  BY <1>4, ChildSteps
<1>5. CASE KWorker \/ KFails
  BY <1>5, KGetKeeps, KStepKeeps, KRefusedKeeps, KFailsKeeps DEF KWorker
<1>6. CASE CWorker \/ CFails
  BY <1>6, CGetKeeps, CStepKeeps, CRefusedKeeps, CFailsKeeps DEF CWorker
<1> QED
  BY <1>1, <1>2, <1>3, <1>4, <1>5, <1>6 DEF Next

(* Behaviours keep it                                                      *)
LEMMA Inductive == Spec => []IInv
  BY InitInv, NextKeeps, PTL DEF Spec

(* The caches, the objects and the two reconciles have the values the      *)
(* declarations say: a reconcile has a copy of its configuration from      *)
(* where it reads it to where it returns, and never runs past the last     *)
(* child.                                                                  *)
THEOREM TypeOKHolds == Spec => []TypeOK
<1>1. ASSUME IInv PROVE TypeOK
  <2> DEFINE S == Config \cup {None}
             T == Seq(ChildObject \cup {None})
  <2>1. World
    BY <1>1 DEF IInv
  <2>2. kac \in [Ns -> Seq(S)] /\ \A n \in Ns : kac[n] # <<>>
    <3> HIDE DEF S
    <3>1. kac \in [Ns -> ConfigHistory]
      BY <2>1 DEF World, Objects
    <3>2. ConfigHistory = Seq(S) \ {<<>>}
      BY DEF ConfigHistory, S
    <3> QED
      BY <3>1, <3>2
  <2>3. child \in [Ns -> [Child -> T]] /\ \A n \in Ns : \A c \in Child : child[n][c] # <<>>
    <3> HIDE DEF T
    <3>1. child \in [Ns -> [Child -> T \ {<<>>}]]
      BY <2>1 DEF World, Objects, T
    <3> QED
      BY <3>1
  <2>4. /\ ckac \in Seq(S) /\ ckac # <<>>
        /\ sf \in Seq(Filters \cup {None}) /\ sf # <<>>
        /\ vb \in Seq((SUBSET (Ns \cup {ClusterVacuum})) \cup {None}) /\ vb # <<>>
    BY <2>1 DEF World, Objects, ConfigHistory
  <2>5. /\ kns \in Ns \cup {None} /\ kpc \in KSteps \cup {"idle"}
        /\ kcopy \in Config \cup {None} /\ kchild \in 1..Len(Children) + 1
        /\ cpc \in CSteps \cup {"idle"} /\ ccopy \in Config \cup {None}
    BY <1>1 DEF IInv, KacAt, CkacAt
  <2> QED
    BY <1>1, <2>2, <2>3, <2>4, <2>5 DEF IInv, Counters, TypeOK, ChildObject
<1> QED
  BY <1>1, Inductive, PTL

(* The SinkFilter only ever has filters of configurations that exist and   *)
(* bear the finalizer, for any number of namespaces, changes, failures and *)
(* restarts: updateSinkFilterNamespace and updateSinkFilterCluster are     *)
(* never accepted for a configuration that can go without Reconcile.       *)
THEOREM NoOrphanFiltersHolds == Spec => []NoOrphanFilters
<1>1. IInv => NoOrphanFilters
  BY DEF IInv, World
<1> QED
  BY <1>1, Inductive, PTL

=============================================================================
