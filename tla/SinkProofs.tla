----------------------------- MODULE SinkProofs -----------------------------
(***************************************************************************)
(* Proofs about the sink, for any sets of names, UIDs and requests and for *)
(* any bounds.  The inductive invariant says where a handler's event is    *)
(* known to be archived already: from its first write on.                  *)
(***************************************************************************)
EXTENDS Sink, TLAPS

\* A request carries no event, and has no effect to answer for, before it is
\* received; while it is handled its event is of a supported type.
Phases ==
    \A r \in Request :
        /\ pc[r] = "none" => ev[r] = NoEvent /\ code[r] = 0 /\ target[r] = NoUid
        /\ pc[r] \in {"write", "delete", "rewrite"} =>
              /\ ev[r] # NoEvent
              /\ ev[r].type \in Deleting \cup Archiving
              /\ code[r] = 0
        /\ code[r] = 202 => ev[r] # NoEvent
        /\ target[r] # NoUid => ev[r] # NoEvent
        /\ pc[r] \in {"write", "delete"} => target[r] = NoUid

\* From its first write on a handler's event is archived.
Committed ==
    \A r \in Request : pc[r] \in {"delete", "rewrite"} => Archived(ev[r].obj)

IInv ==
    /\ TypeOK
    /\ Phases
    /\ Committed
    /\ AckedIsArchived
    /\ OwnObjectArchivedBeforeDelete
    /\ RowIsOneEvent

-----------------------------------------------------------------------------
\* GetLastUpdateTs of an object with finitely many managedFields is a time.
LEMMA LatestIsNat ==
    ASSUME NEW o \in Object, HasLatest(o.managed)
    PROVE  GetLastUpdateTs(o) \in Nat
<1>1. o.managed \in SUBSET Nat
  BY DEF Object
<1>2. \E t \in o.managed \cup {0} : \A s \in o.managed \cup {0} : s <= t
  BY DEF HasLatest
<1>3. GetLastUpdateTs(o) \in o.managed \cup {0}
  BY <1>2 DEF GetLastUpdateTs
<1> QED
  BY <1>1, <1>3

\* A second entry in managedFields keeps the set of times one with a maximum.
LEMMA LatestOfMore ==
    ASSUME NEW T \in SUBSET Nat, NEW t \in Nat, HasLatest(T)
    PROVE  HasLatest(T \cup {t}) /\ HasLatest({t}) /\ HasLatest({})
<1>1. PICK m \in T \cup {0} : \A s \in T \cup {0} : s <= m
  BY DEF HasLatest
<1>2. m \in Nat
  OBVIOUS
<1>3. HasLatest(T \cup {t})
  <2>1. CASE t <= m
    BY <2>1, <1>1 DEF HasLatest
  <2>2. CASE ~ (t <= m)
    BY <2>2, <1>1, <1>2 DEF HasLatest
  <2> QED BY <2>1, <2>2
<1>4. HasLatest({t}) /\ HasLatest({})
  BY DEF HasLatest
<1> QED
  BY <1>3, <1>4

\* Archived, for the rows rw.
ArchivedIn(rw, o) == rw[o.uid] # NoRow /\ rw[o.uid].ts >= GetLastUpdateTs(o)

-----------------------------------------------------------------------------
\* The transaction of WriteResource keeps rows well-formed.
LEMMA WriteTxType ==
    ASSUME TypeOK, NEW o \in Object, HasLatest(o.managed), NEW d \in BOOLEAN,
           WriteTx(o, d)
    PROVE  row' \in [Uid -> Row \cup {NoRow}] /\ urls' \in [Uid -> Nat]
<1>1. GetLastUpdateTs(o) \in Nat
  BY LatestIsNat
<1>2. o.uid \in Uid /\ o.rv \in Nat
  BY DEF Object
<1> DEFINE s == [rv |-> o.rv, ts |-> GetLastUpdateTs(o), del |-> d]
<1>3. s \in Row
  BY <1>1, <1>2 DEF Row
<1>4. row' = [row EXCEPT ![o.uid] = s] \/ row' = row
  BY DEF WriteTx
<1>5. urls' = [urls EXCEPT ![o.uid] = o.rv] \/ urls' = urls
  BY DEF WriteTx
<1> HIDE DEF s
<1> QED
  BY <1>2, <1>3, <1>4, <1>5 DEF TypeOK

\* The object a transaction writes is archived afterwards.
LEMMA WriteTxArchives ==
    ASSUME TypeOK, NEW o \in Object, HasLatest(o.managed), NEW d \in BOOLEAN,
           WriteTx(o, d)
    PROVE  ArchivedIn(row', o)
<1>1. GetLastUpdateTs(o) \in Nat
  BY LatestIsNat
<1>2. o.uid \in Uid /\ row[o.uid] \in Row \cup {NoRow}
  BY DEF Object, TypeOK
<1> DEFINE s == [rv |-> o.rv, ts |-> GetLastUpdateTs(o), del |-> d]
<1>3. s \in Row /\ s.ts = GetLastUpdateTs(o)
  BY <1>1 DEF Row, Object
<1>4. CASE Newer(o.uid, GetLastUpdateTs(o))
  <2>1. row' = [row EXCEPT ![o.uid] = s]
    BY <1>4 DEF WriteTx
  <2>2. row'[o.uid] = s
    BY <2>1, <1>2 DEF TypeOK
  <2> HIDE DEF s
  <2>3. s # NoRow
    BY <1>3, SinkAssumption DEF Row
  <2> QED
    BY <1>1, <1>3, <2>2, <2>3 DEF ArchivedIn
<1>5. CASE ~ Newer(o.uid, GetLastUpdateTs(o))
  <2>1. row' = row
    BY <1>5 DEF WriteTx
  <2>2. row[o.uid] # NoRow /\ ~ (row[o.uid].ts < GetLastUpdateTs(o))
    BY <1>5 DEF Newer
  <2>3. row[o.uid].ts \in Nat
    BY <1>2, <2>2 DEF Row
  <2>4. row[o.uid].ts >= GetLastUpdateTs(o)
    BY <2>2, <2>3, <1>1
  <2> QED
    BY <2>1, <2>2, <2>4 DEF ArchivedIn
<1> QED
  BY <1>4, <1>5

\* No transaction takes back what is archived.
LEMMA WriteTxKeeps ==
    ASSUME TypeOK, NEW o \in Object, HasLatest(o.managed), NEW d \in BOOLEAN,
           WriteTx(o, d),
           NEW p \in Object, HasLatest(p.managed), ArchivedIn(row, p)
    PROVE  ArchivedIn(row', p)
<1>1. GetLastUpdateTs(o) \in Nat /\ GetLastUpdateTs(p) \in Nat
  BY LatestIsNat
<1>2. /\ o.uid \in Uid /\ row[o.uid] \in Row \cup {NoRow}
      /\ p.uid \in Uid /\ row[p.uid] \in Row \cup {NoRow}
  BY DEF Object, TypeOK
<1>3. row[p.uid] # NoRow /\ row[p.uid].ts >= GetLastUpdateTs(p)
  BY DEF ArchivedIn
<1> DEFINE s == [rv |-> o.rv, ts |-> GetLastUpdateTs(o), del |-> d]
<1>4. s.ts = GetLastUpdateTs(o) /\ s # NoRow
  BY <1>1, SinkAssumption DEF Object, Row
<1>5. CASE Newer(o.uid, GetLastUpdateTs(o)) /\ o.uid = p.uid
  <2>1. row'[p.uid] = s
    BY <1>5, <1>2 DEF WriteTx, TypeOK
  <2>2. row[p.uid].ts < GetLastUpdateTs(o) /\ row[p.uid].ts \in Nat
    BY <1>5, <1>2, <1>3 DEF Newer, Row
  <2>3. row'[p.uid].ts >= GetLastUpdateTs(p)
    <3> HIDE DEF s
    <3> QED BY <2>1, <2>2, <1>1, <1>3, <1>4
  <2> QED
    BY <1>4, <2>1, <2>3 DEF ArchivedIn
<1>6. CASE ~ (Newer(o.uid, GetLastUpdateTs(o)) /\ o.uid = p.uid)
  <2>1. row'[p.uid] = row[p.uid]
    BY <1>6, <1>2 DEF WriteTx, TypeOK
  <2> QED
    BY <2>1, <1>3 DEF ArchivedIn
<1> QED
  BY <1>5, <1>6

\* The transaction of an object that is archived already changes no row: the
\* second write of a handler never takes effect.
LEMMA WriteTxRefused ==
    ASSUME TypeOK, NEW o \in Object, HasLatest(o.managed), NEW d \in BOOLEAN,
           WriteTx(o, d), ArchivedIn(row, o)
    PROVE  row' = row
<1>1. GetLastUpdateTs(o) \in Nat
  BY LatestIsNat
<1>2. o.uid \in Uid /\ row[o.uid] \in Row
  BY DEF Object, TypeOK, ArchivedIn
<1>3. row[o.uid].ts \in Nat /\ row[o.uid] # NoRow
  BY <1>2 DEF Row, ArchivedIn
<1>4. ~ Newer(o.uid, GetLastUpdateTs(o))
  BY <1>1, <1>3 DEF Newer, ArchivedIn
<1> QED
  BY <1>4 DEF WriteTx

\* A transaction leaves each row alone or makes it the snapshot it writes.
LEMMA WriteTxRow ==
    ASSUME TypeOK, NEW o \in Object, NEW d \in BOOLEAN, WriteTx(o, d),
           NEW u \in Uid
    PROVE  \/ row'[u] = row[u]
           \/ /\ u = o.uid
              /\ row'[u] = [rv |-> o.rv, ts |-> GetLastUpdateTs(o), del |-> d]
<1>1. row' = row \/ row' = [row EXCEPT ![o.uid] =
              [rv |-> o.rv, ts |-> GetLastUpdateTs(o), del |-> d]]
  BY DEF WriteTx
<1> QED
  BY <1>1 DEF TypeOK

-----------------------------------------------------------------------------
\* What the API server does to an object leaves a well-formed cluster.
LEMMA DeleteObjectType ==
    ASSUME TypeOK, NEW n \in Name, cluster[n] # NoObject,
           DeleteObject(n, cluster[n])
    PROVE  /\ cluster' \in [Name -> Object \cup {NoObject}]
           /\ seen' \subseteq Object /\ seen \subseteq seen'
           /\ \A o \in seen' : HasLatest(o.managed)
           /\ \A m \in Name : cluster'[m] # NoObject => cluster'[m] \in seen'
<1> DEFINE o == cluster[n]
<1>1. o \in Object /\ o \in seen /\ HasLatest(o.managed)
  BY DEF TypeOK
<1> DEFINE m == Changed(o, o.managed, TRUE)
<1>2. m \in Object /\ m.managed = o.managed
  BY <1>1 DEF Changed, Object
<1>3. \/ cluster' = [cluster EXCEPT ![n] = NoObject] /\ seen' = seen
      \/ cluster' = [cluster EXCEPT ![n] = m] /\ seen' = seen \cup {m}
      \/ cluster' = cluster /\ seen' = seen
  BY DEF DeleteObject, Observe
<1>4. seen' \subseteq Object /\ seen \subseteq seen'
      /\ \A p \in seen' : HasLatest(p.managed)
  <2> HIDE DEF m, o
  <2> QED BY <1>1, <1>2, <1>3 DEF TypeOK
<1>5. cluster' \in [Name -> Object \cup {NoObject}]
  <2> HIDE DEF m, o
  <2> QED BY <1>2, <1>3 DEF TypeOK
<1>6. ASSUME NEW k \in Name, cluster'[k] # NoObject
      PROVE  cluster'[k] \in seen'
  <2>1. cluster[k] # NoObject => cluster[k] \in seen
    BY DEF TypeOK
  <2>2. cluster \in [Name -> Object \cup {NoObject}]
    BY DEF TypeOK
  <2> HIDE DEF m, o
  <2> QED BY <2>1, <2>2, <1>3, <1>6
<1> QED
  BY <1>4, <1>5, <1>6

\* The part of the type invariant a step of the cluster can disturb.
ClusterOK ==
    /\ clock \in Nat
    /\ cluster \in [Name -> Object \cup {NoObject}]
    /\ seen \subseteq Object
    /\ \A o \in seen : HasLatest(o.managed)
    /\ \A n \in Name : cluster[n] # NoObject => cluster[n] \in seen

\* Steps of the cluster keep it well-formed and forget no observed state.
LEMMA ClusterStepType ==
    ASSUME TypeOK, ClusterStep
    PROVE  /\ ClusterOK' /\ seen \subseteq seen'
           /\ UNCHANGED <<row, urls, pc, ev, target, code, metric>>
<1>1. CASE Tick
  BY <1>1 DEF Tick, TypeOK, ClusterOK
<1>2. ASSUME NEW n \in Name, Update(n)
      PROVE  ClusterOK' /\ seen \subseteq seen'
             /\ UNCHANGED <<row, urls, pc, ev, target, code, metric>>
  <2> DEFINE o == cluster[n]
  <2>1. o \in Object /\ HasLatest(o.managed) /\ o \in seen /\ clock \in Nat
    BY <1>2 DEF TypeOK, Update
  <2>2. PICK m \in {{}, o.managed, o.managed \cup {clock}} :
          /\ cluster' = [cluster EXCEPT ![n] = Changed(o, m, o.del)]
          /\ seen' = seen \cup {Changed(o, m, o.del)}
    BY <1>2 DEF Update, Observe
  <2>3. o.managed \in SUBSET Nat
    BY <2>1 DEF Object
  <2>4. HasLatest(m) /\ m \in SUBSET Nat
    BY <2>1, <2>3, LatestOfMore
  <2> DEFINE p == Changed(o, m, o.del)
  <2>5. p \in Object /\ p.managed = m
    BY <2>1, <2>4 DEF Changed, Object
  <2>6. UNCHANGED <<clock, row, urls, pc, ev, target, code, metric>>
    BY <1>2 DEF Update
  <2>7. cluster' = [cluster EXCEPT ![n] = p] /\ seen' = seen \cup {p}
    BY <2>2
  <2> HIDE DEF p, o
  <2> QED
    BY <2>4, <2>5, <2>6, <2>7 DEF TypeOK, ClusterOK
<1>3. ASSUME NEW n \in Name, OtherDelete(n)
      PROVE  ClusterOK' /\ seen \subseteq seen'
             /\ UNCHANGED <<row, urls, pc, ev, target, code, metric>>
  BY <1>3, DeleteObjectType DEF OtherDelete, TypeOK, ClusterOK
<1>4. ASSUME NEW n \in Name, NEW u \in Uid, Create(n, u)
      PROVE  ClusterOK' /\ seen \subseteq seen'
             /\ UNCHANGED <<row, urls, pc, ev, target, code, metric>>
  <2>1. PICK m \in {{}, {clock}} :
          LET o == [uid |-> u, name |-> n, rv |-> 1, managed |-> m,
                    del |-> FALSE]
          IN cluster' = [cluster EXCEPT ![n] = o] /\ seen' = seen \cup {o}
    BY <1>4 DEF Create, Observe
  <2> DEFINE o == [uid |-> u, name |-> n, rv |-> 1, managed |-> m,
                   del |-> FALSE]
  <2>2. clock \in Nat
    BY DEF TypeOK
  <2>3. HasLatest({})
    BY DEF HasLatest
  <2>4. HasLatest(m) /\ m \in SUBSET Nat
    BY <2>2, <2>3, LatestOfMore
  <2>5. o \in Object /\ o.managed = m
    BY <2>4 DEF Object
  <2>6. cluster' = [cluster EXCEPT ![n] = o] /\ seen' = seen \cup {o}
    BY <2>1
  <2> HIDE DEF o
  <2>7. UNCHANGED <<clock, row, urls, pc, ev, target, code, metric>>
    BY <1>4 DEF Create
  <2> QED
    BY <2>4, <2>5, <2>6, <2>7 DEF TypeOK, ClusterOK
<1> QED
  BY <1>1, <1>2, <1>3, <1>4 DEF ClusterStep

-----------------------------------------------------------------------------
\* What every handler step after Receive has in common: given that it keeps
\* types, takes back no archived state and adds only the handler's own
\* snapshot, the invariants of the other requests survive.
LEMMA OthersKept ==
    ASSUME IInv, TypeOK', NEW r \in Request,
           UNCHANGED ev,
           \A q \in Request \ {r} :
               /\ pc'[q] = pc[q] /\ code'[q] = code[q]
               /\ target'[q] = target[q],
           \A p \in Object : HasLatest(p.managed) /\ ArchivedIn(row, p)
                                => ArchivedIn(row', p)
    PROVE  \A q \in Request \ {r} :
             /\ pc'[q] \in {"delete", "rewrite"} => ArchivedIn(row', ev'[q].obj)
             /\ code'[q] = 202 /\ ev'[q].type \in Deleting \cup Archiving
                   => ArchivedIn(row', ev'[q].obj)
             /\ target'[q] # NoUid /\ target'[q] = ev'[q].obj.uid
                   => ArchivedIn(row', ev'[q].obj)
<1> SUFFICES ASSUME NEW q \in Request \ {r}
             PROVE  /\ pc'[q] \in {"delete", "rewrite"} => ArchivedIn(row', ev'[q].obj)
                    /\ code'[q] = 202 /\ ev'[q].type \in Deleting \cup Archiving
                          => ArchivedIn(row', ev'[q].obj)
                    /\ target'[q] # NoUid /\ target'[q] = ev'[q].obj.uid
                          => ArchivedIn(row', ev'[q].obj)
  OBVIOUS
<1>1. ev[q] # NoEvent =>
        /\ ev[q].obj \in Object /\ HasLatest(ev[q].obj.managed)
  BY DEF IInv, TypeOK
<1>2. /\ pc[q] \in {"delete", "rewrite"} => ev[q] # NoEvent
      /\ code[q] = 202 => ev[q] # NoEvent
      /\ target[q] # NoUid => ev[q] # NoEvent
  BY DEF IInv, Phases
<1>3. /\ pc[q] \in {"delete", "rewrite"} => ArchivedIn(row, ev[q].obj)
      /\ code[q] = 202 /\ ev[q].type \in Deleting \cup Archiving
            => ArchivedIn(row, ev[q].obj)
      /\ target[q] # NoUid /\ target[q] = ev[q].obj.uid
            => ArchivedIn(row, ev[q].obj)
  BY DEF IInv, Committed, AckedIsArchived, OwnObjectArchivedBeforeDelete,
         Archived, ArchivedIn
<1> QED
  BY <1>1, <1>2, <1>3

\* The facts a handler at work knows about its event.
LEMMA EventFacts ==
    ASSUME IInv, NEW r \in Request, pc[r] \in {"write", "delete", "rewrite"}
    PROVE  /\ ev[r] # NoEvent /\ ev[r] \in Event /\ ev[r].obj \in Object
           /\ HasLatest(ev[r].obj.managed) /\ ev[r].obj.del \in BOOLEAN
           /\ ev[r].obj.name \in Name /\ ev[r].obj.uid \in Uid
           /\ ev[r].type \in Deleting \cup Archiving
           /\ code[r] = 0
           /\ pc[r] # "rewrite" => target[r] = NoUid
BY DEF IInv, Phases, TypeOK, Event, Object

\* The first write preserves the invariant, whether it succeeds, fails, or
\* fails after all is committed.
LEMMA WriteStep ==
    ASSUME IInv, NEW r \in Request, Write(r) \/ WriteFails(r)
    PROVE  IInv'
<1> DEFINE o == ev[r].obj
<1>0. TypeOK /\ pc[r] = "write"
  BY DEF IInv, Write, WriteFails
<1>1. /\ ev[r] # NoEvent /\ o \in Object /\ HasLatest(o.managed)
      /\ o.del \in BOOLEAN /\ code[r] = 0 /\ target[r] = NoUid
      /\ ev[r].type \in Deleting \cup Archiving /\ o.uid \in Uid
  BY <1>0, EventFacts
<1>2. \/ WriteTx(o, o.del)
      \/ row' = row /\ urls' = urls /\ pc'[r] = "done" /\ code'[r] = 500
  BY <1>0 DEF Write, WriteFails, WriteTxFails, dbVars, Answer, TypeOK
<1>3. UNCHANGED <<clock, cluster, seen, ev, target>>
  BY DEF Write, WriteFails
<1>4. /\ pc' = [pc EXCEPT ![r] = "done"] \/ pc' = [pc EXCEPT ![r] = "delete"]
      /\ \E c \in {202, 500} : code' = [code EXCEPT ![r] = c] \/ code' = code
      /\ metric' \in [Request -> Metric]
      /\ pc'[r] = "done" \/ code'[r] = 0
  BY <1>0, <1>1, ZenonT(60) DEF Write, WriteFails, Answer, TypeOK, Metric, ResultOf
<1>5. row' \in [Uid -> Row \cup {NoRow}] /\ urls' \in [Uid -> Nat]
  BY <1>0, <1>1, <1>2, WriteTxType DEF TypeOK
<1>6. TypeOK'
  <2>1. pc' \in [Request -> {"none", "write", "delete", "rewrite", "done"}]
    BY <1>0, <1>4 DEF TypeOK
  <2>2. code' \in [Request -> Status \cup {0}]
    BY <1>0, <1>4 DEF TypeOK, Status
  <2> QED
    BY <1>0, <1>3, <1>4, <1>5, <2>1, <2>2 DEF TypeOK
<1>7. \A p \in Object : HasLatest(p.managed) /\ ArchivedIn(row, p)
                           => ArchivedIn(row', p)
  BY <1>0, <1>1, <1>2, WriteTxKeeps
<1>8. pc'[r] = "delete" \/ code'[r] = 202 => ArchivedIn(row', o)
  <2>1. WriteTx(o, o.del) => ArchivedIn(row', o)
    BY <1>0, <1>1, WriteTxArchives
  <2> QED
    BY <1>2, <2>1
<1>9. \A q \in Request \ {r} : /\ pc'[q] = pc[q] /\ code'[q] = code[q]
                               /\ target'[q] = target[q]
  BY <1>0, <1>3, <1>4 DEF TypeOK
<1>10. Phases'
  <2>1. pc'[r] \in {"done", "delete"}
    BY <1>0, <1>4 DEF TypeOK
  <2> QED
    BY <1>1, <1>3, <1>4, <1>9, <2>1 DEF IInv, Phases
<1>11. RowIsOneEvent'
  <2>1. \A u \in Uid : \/ row'[u] = row[u]
                       \/ /\ u = o.uid
                          /\ row'[u] = [rv |-> o.rv, ts |-> GetLastUpdateTs(o),
                                        del |-> o.del]
    BY <1>0, <1>1, <1>2, WriteTxRow
  <2> QED
    BY <1>1, <1>3, <2>1 DEF IInv, RowIsOneEvent
<1>12. \A q \in Request \ {r} :
          /\ pc'[q] \in {"delete", "rewrite"} => ArchivedIn(row', ev'[q].obj)
          /\ code'[q] = 202 /\ ev'[q].type \in Deleting \cup Archiving
                => ArchivedIn(row', ev'[q].obj)
          /\ target'[q] # NoUid /\ target'[q] = ev'[q].obj.uid
                => ArchivedIn(row', ev'[q].obj)
  BY <1>3, <1>6, <1>7, <1>9, OthersKept
<1>13. Committed' /\ AckedIsArchived' /\ OwnObjectArchivedBeforeDelete'
  <2>1. pc'[r] # "rewrite"
    BY <1>0, <1>4 DEF TypeOK
  <2> QED
    BY <1>1, <1>3, <1>8, <1>12, <2>1
    DEF Committed, AckedIsArchived, OwnObjectArchivedBeforeDelete, Archived,
        ArchivedIn
<1> QED
  BY <1>6, <1>10, <1>11, <1>13 DEF IInv

\* A step of the handler r after its first write that changes no row, with
\* its event archived, preserves the invariant.
LEMMA LateStep ==
    ASSUME IInv, TypeOK', NEW r \in Request,
           pc[r] \in {"write", "delete", "rewrite"},
           UNCHANGED <<row, ev>>,
           \A q \in Request \ {r} :
               /\ pc'[q] = pc[q] /\ code'[q] = code[q]
               /\ target'[q] = target[q],
           pc'[r] \in {"done", "rewrite"},
           pc'[r] = "rewrite" => code'[r] = 0,
           pc[r] = "write" => code'[r] # 202 /\ target'[r] = NoUid
                              /\ pc'[r] = "done"
    PROVE  IInv'
<1>1. /\ ev[r] # NoEvent /\ ev[r].type \in Deleting \cup Archiving
  BY EventFacts
<1>2. pc[r] \in {"delete", "rewrite"} => ArchivedIn(row, ev[r].obj)
  BY DEF IInv, Committed, Archived, ArchivedIn
<1>3. Phases'
  BY <1>1 DEF IInv, Phases
<1>4. RowIsOneEvent'
  BY DEF IInv, RowIsOneEvent
<1>5. \A q \in Request \ {r} :
          /\ pc'[q] \in {"delete", "rewrite"} => ArchivedIn(row', ev'[q].obj)
          /\ code'[q] = 202 /\ ev'[q].type \in Deleting \cup Archiving
                => ArchivedIn(row', ev'[q].obj)
          /\ target'[q] # NoUid /\ target'[q] = ev'[q].obj.uid
                => ArchivedIn(row', ev'[q].obj)
  BY OthersKept
<1>6. Committed' /\ AckedIsArchived' /\ OwnObjectArchivedBeforeDelete'
  BY <1>1, <1>2, <1>5
  DEF Committed, AckedIsArchived, OwnObjectArchivedBeforeDelete, Archived,
      ArchivedIn
<1> QED
  BY <1>3, <1>4, <1>6 DEF IInv

\* The Delete call, however it ends, and a crash preserve the invariant.
LEMMA DeleteStep ==
    ASSUME IInv, NEW r \in Request,
           Delete(r) \/ DeleteNotFound(r) \/ DeleteFails(r) \/ Crash(r)
    PROVE  IInv'
<1> DEFINE n == ev[r].obj.name
<1>0. TypeOK /\ pc[r] \in {"write", "delete", "rewrite"}
  BY DEF IInv, Delete, DeleteNotFound, DeleteFails, Crash
<1>1. n \in Name /\ code[r] = 0 /\ ev[r] # NoEvent
      /\ (pc[r] = "write" => target[r] = NoUid)
  BY <1>0, EventFacts
<1>2. UNCHANGED <<clock, row, urls, ev>>
  BY DEF Delete, DeleteNotFound, DeleteFails, Crash
<1>3. \/ UNCHANGED <<cluster, seen>>
      \/ cluster[n] # NoObject /\ DeleteObject(n, cluster[n])
  BY DEF Delete, DeleteNotFound, DeleteFails, Crash
<1>4. ClusterOK' /\ seen \subseteq seen'
  BY <1>0, <1>1, <1>2, <1>3, DeleteObjectType DEF TypeOK, ClusterOK
<1>5. \/ UNCHANGED target
      \/ /\ cluster[n] # NoObject
         /\ target' = [target EXCEPT ![r] = cluster[n].uid]
  BY DEF Delete, DeleteNotFound, DeleteFails, Crash
<1>6. cluster[n] # NoObject => cluster[n].uid \in Uid
  BY <1>0, <1>1 DEF TypeOK, Object
<1>7. /\ pc' = [pc EXCEPT ![r] = "done"] \/ pc' = [pc EXCEPT ![r] = "rewrite"]
      /\ \E c \in {202, 500} : code' = [code EXCEPT ![r] = c] \/ code' = code
      /\ metric' = metric \/ metric' = [metric EXCEPT ![r] = metric[r]]
      /\ pc' = [pc EXCEPT ![r] = "rewrite"] => code' = code
      /\ pc[r] = "write" => /\ code' = code /\ target' = target
                            /\ pc' = [pc EXCEPT ![r] = "done"]
  BY <1>0 DEF Delete, DeleteNotFound, DeleteFails, Crash, Answer, TypeOK
<1>8. target' \in [Request -> Uid \cup {NoUid}]
  BY <1>0, <1>5, <1>6 DEF TypeOK
<1>9. TypeOK'
  <2>1. pc' \in [Request -> {"none", "write", "delete", "rewrite", "done"}]
    BY <1>0, <1>7 DEF TypeOK
  <2>2. code' \in [Request -> Status \cup {0}] /\ metric' \in [Request -> Metric]
    BY <1>0, <1>7 DEF TypeOK, Status
  <2>3. \A q \in Request : ev'[q] # NoEvent => ev'[q].obj \in seen'
    BY <1>0, <1>2, <1>4 DEF TypeOK
  <2> QED
    BY <1>0, <1>2, <1>4, <1>8, <2>1, <2>2, <2>3 DEF TypeOK, ClusterOK
<1>10. \A q \in Request \ {r} : /\ pc'[q] = pc[q] /\ code'[q] = code[q]
                                /\ target'[q] = target[q]
  BY <1>0, <1>5, <1>7 DEF TypeOK
<1>11. pc'[r] \in {"done", "rewrite"} /\ (pc'[r] = "rewrite" => code'[r] = 0)
  BY <1>0, <1>1, <1>7 DEF TypeOK
<1>12. pc[r] = "write" => code'[r] # 202 /\ target'[r] = NoUid
                          /\ pc'[r] = "done"
  BY <1>0, <1>1, <1>7 DEF TypeOK
<1> QED
  BY <1>0, <1>2, <1>9, <1>10, <1>11, <1>12, LateStep

\* The second write preserves the invariant: the upsert is refused.
LEMMA RewriteStep ==
    ASSUME IInv, NEW r \in Request, Rewrite(r) \/ RewriteFails(r)
    PROVE  IInv' /\ row' = row
<1> DEFINE o == ev[r].obj
<1>0. TypeOK /\ pc[r] = "rewrite"
  BY DEF IInv, Rewrite, RewriteFails
<1>1. o \in Object /\ HasLatest(o.managed)
  BY <1>0, EventFacts
<1>2. WriteTx(o, TRUE) \/ (row' = row /\ urls' = urls)
  BY DEF Rewrite, RewriteFails, WriteTxFails, dbVars
<1>3. ArchivedIn(row, o)
  BY <1>0 DEF IInv, Committed, Archived, ArchivedIn
<1>4. row' = row
  BY <1>0, <1>1, <1>2, <1>3, WriteTxRefused
<1>5. urls' \in [Uid -> Nat]
  BY <1>0, <1>1, <1>2, WriteTxType DEF TypeOK
<1>6. UNCHANGED <<clock, cluster, seen, ev, target>>
  BY DEF Rewrite, RewriteFails
<1>7. /\ pc' = [pc EXCEPT ![r] = "done"]
      /\ \E c \in {202, 500} : code' = [code EXCEPT ![r] = c]
      /\ metric' \in [Request -> Metric]
  BY <1>0, ZenonT(60) DEF Rewrite, RewriteFails, Answer, TypeOK, Metric, ResultOf
<1>8. TypeOK'
  BY <1>0, <1>4, <1>5, <1>6, <1>7 DEF TypeOK, Status
<1>9. \A q \in Request \ {r} : /\ pc'[q] = pc[q] /\ code'[q] = code[q]
                               /\ target'[q] = target[q]
  BY <1>0, <1>6, <1>7 DEF TypeOK
<1>10. pc'[r] = "done"
  BY <1>0, <1>7 DEF TypeOK
<1> QED
  BY <1>0, <1>4, <1>6, <1>8, <1>9, <1>10, LateStep

\* The arrival of a request preserves the invariant.
LEMMA ReceiveStep ==
    ASSUME IInv, NEW r \in Request, Receive(r) \/ RejectMalformed(r)
    PROVE  IInv' /\ row' = row
<1>0. TypeOK /\ pc[r] = "none"
  BY DEF IInv, Receive, RejectMalformed
<1>1. ev[r] = NoEvent /\ code[r] = 0 /\ target[r] = NoUid
  BY <1>0 DEF IInv, Phases
<1>2. UNCHANGED <<clock, cluster, seen, row, urls, target>>
  BY DEF Receive, RejectMalformed
<1>3. CASE RejectMalformed(r)
  <2>1. /\ ev' = ev /\ pc' = [pc EXCEPT ![r] = "done"]
        /\ \E c \in {400, 422} : code' = [code EXCEPT ![r] = c]
        /\ metric' \in [Request -> Metric]
    BY <1>0, <1>3, ZenonT(60) DEF RejectMalformed, Answer, TypeOK, Metric
  <2>2. TypeOK'
    BY <1>0, <1>2, <2>1 DEF TypeOK, Status
  <2>3. pc'[r] = "done" /\ code'[r] \in {400, 422}
    BY <1>0, <2>1 DEF TypeOK
  <2>4. \A q \in Request \ {r} : pc'[q] = pc[q] /\ code'[q] = code[q]
    BY <1>0, <2>1 DEF TypeOK
  <2>5. Phases'
    BY <1>1, <1>2, <2>1, <2>3, <2>4 DEF IInv, Phases
  <2>6. RowIsOneEvent'
    BY <1>2, <2>1 DEF IInv, RowIsOneEvent
  <2>7. Committed' /\ AckedIsArchived' /\ OwnObjectArchivedBeforeDelete'
    BY <1>1, <1>2, <2>1, <2>3, <2>4
    DEF IInv, Committed, AckedIsArchived, OwnObjectArchivedBeforeDelete, Archived
  <2> QED
    BY <1>2, <2>2, <2>5, <2>6, <2>7 DEF IInv
<1>4. CASE Receive(r)
  <2>1. PICK o \in seen, t \in EventType :
          /\ ev' = [ev EXCEPT ![r] = [type |-> t, obj |-> o]]
          /\ IF t = "unsupported"
             THEN Answer(r, 202, "no_conf")
             ELSE pc' = [pc EXCEPT ![r] = "write"] /\ UNCHANGED <<code, metric>>
    BY <1>4 DEF Receive
  <2> DEFINE e == [type |-> t, obj |-> o]
  <2>2. o \in Object /\ e \in Event /\ e.obj = o /\ e.type = t
    BY <1>0 DEF TypeOK, Event
  <2>3. e # NoEvent
    BY <2>2, SinkAssumption
  <2>4. ev' = [ev EXCEPT ![r] = e] /\ ev'[r] = e
    BY <1>0, <2>1 DEF TypeOK
  <2> HIDE DEF e
  <2>5. \/ /\ t = "unsupported"
           /\ pc' = [pc EXCEPT ![r] = "done"]
           /\ code' = [code EXCEPT ![r] = 202]
           /\ metric' = [metric EXCEPT ![r] = "no_conf"]
        \/ /\ t \in Deleting \cup Archiving
           /\ pc' = [pc EXCEPT ![r] = "write"]
           /\ UNCHANGED <<code, metric>>
    BY <2>1 DEF Answer, EventType
  <2>6. TypeOK'
    <3>1. pc' \in [Request -> {"none", "write", "delete", "rewrite", "done"}]
      BY <1>0, <2>5 DEF TypeOK
    <3>2. code' \in [Request -> Status \cup {0}]
      BY <1>0, <2>5 DEF TypeOK, Status
    <3>3. metric' \in [Request -> Metric]
      BY <1>0, <2>5 DEF TypeOK, Metric
    <3>4. ev' \in [Request -> Event \cup {NoEvent}]
      BY <1>0, <2>2, <2>4 DEF TypeOK
    <3>5. \A q \in Request : ev'[q] # NoEvent => ev'[q].obj \in seen
      BY <1>0, <2>2, <2>4 DEF TypeOK
    <3> QED
      BY <1>0, <1>2, <3>1, <3>2, <3>3, <3>4, <3>5 DEF TypeOK
  <2>7. \/ pc'[r] = "write" /\ code'[r] = 0 /\ t \in Deleting \cup Archiving
        \/ pc'[r] = "done" /\ code'[r] = 202 /\ t = "unsupported"
    BY <1>0, <1>1, <2>5 DEF TypeOK
  <2>8. \A q \in Request \ {r} :
          pc'[q] = pc[q] /\ code'[q] = code[q] /\ ev'[q] = ev[q]
    BY <1>0, <2>4, <2>5 DEF TypeOK
  <2>9. Phases'
    BY <1>1, <1>2, <2>2, <2>3, <2>4, <2>7, <2>8 DEF IInv, Phases
  <2>10. RowIsOneEvent'
    <3> SUFFICES ASSUME NEW u \in Uid, row[u] # NoRow
                 PROVE  \E q \in Request :
                          /\ ev'[q] # NoEvent
                          /\ ev'[q].obj.uid = u
                          /\ row[u] = [rv |-> ev'[q].obj.rv,
                                       ts |-> GetLastUpdateTs(ev'[q].obj),
                                       del |-> ev'[q].obj.del]
      BY <1>2 DEF RowIsOneEvent
    <3>1. PICK q \in Request :
             /\ ev[q] # NoEvent
             /\ ev[q].obj.uid = u
             /\ row[u] = [rv |-> ev[q].obj.rv,
                          ts |-> GetLastUpdateTs(ev[q].obj),
                          del |-> ev[q].obj.del]
      BY DEF IInv, RowIsOneEvent
    <3>2. ev'[q] = ev[q]
      BY <1>1, <2>8, <3>1
    <3> QED
      BY <3>1, <3>2
  <2>11. Committed' /\ AckedIsArchived' /\ OwnObjectArchivedBeforeDelete'
    <3>1. t = "unsupported" => t \notin Deleting \cup Archiving
      BY DEF Deleting, Archiving
    <3> QED
      BY <1>1, <1>2, <2>2, <2>4, <2>7, <2>8, <3>1
      DEF IInv, Committed, AckedIsArchived, OwnObjectArchivedBeforeDelete,
          Archived
  <2> QED
    BY <1>2, <2>6, <2>9, <2>10, <2>11 DEF IInv
<1> QED
  BY <1>3, <1>4

\* A change of the cluster preserves the invariant.
LEMMA ClusterStepKeeps ==
    ASSUME IInv, ClusterStep
    PROVE  IInv' /\ row' = row
<1>1. TypeOK
  BY DEF IInv
<1>2. /\ ClusterOK' /\ seen \subseteq seen'
      /\ UNCHANGED <<row, urls, pc, ev, target, code, metric>>
  BY <1>1, ClusterStepType
<1>3. TypeOK'
  BY <1>1, <1>2 DEF TypeOK, ClusterOK
<1> QED
  BY <1>2, <1>3 DEF IInv, Phases, Committed, AckedIsArchived,
         OwnObjectArchivedBeforeDelete, RowIsOneEvent, Archived

-----------------------------------------------------------------------------
\* Initially nothing is archived, received or answered.
LEMMA InitIInv == Init => IInv
<1> SUFFICES ASSUME Init PROVE IInv
  OBVIOUS
<1>1. TypeOK
  BY SinkAssumption DEF Init, TypeOK, Metric
<1>2. \A u \in Uid : row[u] = NoRow
  BY DEF Init
<1>3. \A r \in Request : /\ pc[r] = "none" /\ ev[r] = NoEvent /\ code[r] = 0
                         /\ target[r] = NoUid
  BY DEF Init
<1> QED
  BY <1>1, <1>2, <1>3 DEF IInv, Phases, Committed, AckedIsArchived,
     OwnObjectArchivedBeforeDelete, RowIsOneEvent

\* Every step preserves the invariant.
LEMMA StepIInv == IInv /\ [Next]_vars => IInv'
<1> SUFFICES ASSUME IInv, [Next]_vars PROVE IInv'
  OBVIOUS
<1>1. CASE ClusterStep
  BY <1>1, ClusterStepKeeps
<1>2. ASSUME NEW r \in Request, HandlerStep(r) PROVE IInv'
  BY <1>2, ReceiveStep, WriteStep, DeleteStep, RewriteStep DEF HandlerStep
<1>3. CASE UNCHANGED vars
  BY <1>3 DEF vars, IInv, TypeOK, Phases, Committed, AckedIsArchived,
     OwnObjectArchivedBeforeDelete, RowIsOneEvent, Archived
<1> QED
  BY <1>1, <1>2, <1>3 DEF Next

\* The inductive invariant holds in every reachable state.
THEOREM Invariance == Spec => []IInv
BY InitIInv, StepIInv, PTL DEF Spec

\* Every variable keeps its type, and every event and every object of the
\* cluster is a state that was observed.
THEOREM TypeCorrect == Spec => []TypeOK
<1>1. IInv => TypeOK
  BY DEF IInv
<1> QED
  BY <1>1, Invariance, PTL

\* An event ReceiveCloudEvent acknowledged is archived, for any number of
\* requests, UIDs and names.
THEOREM AcknowledgedEventsAreArchived == Spec => []AckedIsArchived
<1>1. IInv => AckedIsArchived
  BY DEF IInv
<1> QED
  BY <1>1, Invariance, PTL

\* The sink archives an object before it deletes it on behalf of its event.
THEOREM ArchivedBeforeDelete == Spec => []OwnObjectArchivedBeforeDelete
<1>1. IInv => OwnObjectArchivedBeforeDelete
  BY DEF IInv
<1> QED
  BY <1>1, Invariance, PTL

\* A row is one received snapshot; in particular its cluster_deleted_ts is
\* the deletion timestamp the event carried, never the sink's own deletion.
THEOREM RowsAreEvents == Spec => []RowIsOneEvent
<1>1. IInv => RowIsOneEvent
  BY DEF IInv
<1> QED
  BY <1>1, Invariance, PTL

-----------------------------------------------------------------------------
\* A committed transaction is a step of the abstract store, or none at all.
LEMMA WriteTxRefines ==
    ASSUME TypeOK, NEW o \in Object, HasLatest(o.managed), NEW d \in BOOLEAN,
           WriteTx(o, d)
    PROVE  [Store!Next]_row
<1>1. GetLastUpdateTs(o) \in Nat
  BY LatestIsNat
<1>2. o.uid \in Uid /\ o.rv \in Nat
  BY DEF Object
<1> DEFINE s == [rv |-> o.rv, ts |-> GetLastUpdateTs(o), del |-> d]
<1>3. s \in Store!Row /\ s.ts = GetLastUpdateTs(o)
  BY <1>1, <1>2 DEF Store!Row
<1>4. CASE Newer(o.uid, GetLastUpdateTs(o))
  <2>1. row' = [row EXCEPT ![o.uid] = s]
    BY <1>4 DEF WriteTx
  <2> HIDE DEF s
  <2>2. DOMAIN row' = Uid /\ row'[o.uid] = s
    BY <1>2, <2>1 DEF TypeOK
  <2>3. \A v \in Uid \ {o.uid} : row'[v] = row[v]
    BY <2>1 DEF TypeOK
  <2>4. row[o.uid] # NoRow => row[o.uid].ts < row'[o.uid].ts
    BY <1>3, <1>4, <2>2 DEF Newer
  <2>5. Store!Archive(o.uid)
    BY <1>3, <2>2, <2>3, <2>4 DEF Store!Archive
  <2> QED
    BY <1>2, <2>2, <2>5 DEF Store!Next
<1>5. CASE ~ Newer(o.uid, GetLastUpdateTs(o))
  BY <1>5 DEF WriteTx
<1> QED
  BY <1>4, <1>5

\* The sink implements the last-update-wins registers of ArchiveStore.
THEOREM SinkImplementsArchiveStore == Spec => ImplementsArchiveStore
<1>1. Init => Store!Init
  BY DEF Init, Store!Init
<1>2. IInv /\ [Next]_vars => [Store!Next]_row
  <2> SUFFICES ASSUME IInv, [Next]_vars PROVE [Store!Next]_row
    OBVIOUS
  <2>0. TypeOK
    BY DEF IInv
  <2>1. CASE ClusterStep
    BY <2>1, ClusterStepKeeps
  <2>2. ASSUME NEW r \in Request, HandlerStep(r) PROVE [Store!Next]_row
    <3>1. CASE Receive(r) \/ RejectMalformed(r)
      BY <3>1, ReceiveStep
    <3>2. CASE Rewrite(r) \/ RewriteFails(r)
      BY <3>2, RewriteStep
    <3>3. CASE Delete(r) \/ DeleteNotFound(r) \/ DeleteFails(r) \/ Crash(r)
      BY <3>3 DEF Delete, DeleteNotFound, DeleteFails, Crash
    <3>4. CASE Write(r) \/ WriteFails(r)
      <4>1. pc[r] = "write"
        BY <3>4 DEF Write, WriteFails
      <4>2. /\ ev[r].obj \in Object /\ HasLatest(ev[r].obj.managed)
            /\ ev[r].obj.del \in BOOLEAN
        BY <4>1, EventFacts
      <4>3. WriteTx(ev[r].obj, ev[r].obj.del) \/ row' = row
        BY <3>4 DEF Write, WriteFails, WriteTxFails, dbVars
      <4> QED
        BY <2>0, <4>2, <4>3, WriteTxRefines
    <3> QED
      BY <2>2, <3>1, <3>2, <3>3, <3>4 DEF HandlerStep
  <2>3. CASE UNCHANGED vars
    BY <2>3 DEF vars
  <2> QED
    BY <2>1, <2>2, <2>3 DEF Next
<1> QED
  BY <1>1, <1>2, Invariance, PTL DEF Spec, ImplementsArchiveStore, Store!Spec

=============================================================================
