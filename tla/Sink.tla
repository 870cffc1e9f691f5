-------------------------------- MODULE Sink --------------------------------
(***************************************************************************)
(* The KubeArchive sink: concurrent HTTP requests, each delivering one     *)
(* CloudEvent, handled by Controller.ReceiveCloudEvent.  A handler writes  *)
(* the object to PostgreSQL in one transaction, for the deleting event     *)
(* types deletes it from the cluster BY NAME in a second step, and writes  *)
(* it again in a third.  Between two steps other handlers run, the cluster *)
(* changes, and the sink may crash.  An event may be delivered any number  *)
(* of times and in any order: the operator retries what was not            *)
(* acknowledged, and a vacuum sends what it listed some time ago.          *)
(*                                                                         *)
(* The module follows the objects of one kind in one namespace.            *)
(***************************************************************************)
EXTENDS Naturals

CONSTANTS
    Name,        \* names of objects
    Uid,         \* UIDs the API server may assign; never assigned twice
    Request,     \* HTTP requests that reach the sink, each used once
    IsPod,       \* whether the kind is Pod, the kind that has log URLs
    MaxClock,    \* bound: the seconds that managedFields times range over
    MaxVersion,  \* bound: resourceVersions one object goes through
    NoObject, NoRow, NoUid, NoEvent

VARIABLES
    (* The cluster (external)                                              *)
    clock,    \* the API server's clock, in seconds as metav1.Time keeps it
    cluster,  \* cluster[n]: the object called n, or NoObject
    seen,     \* history: every state an object was ever observed in
    (* The database                                                        *)
    row,      \* row[u]: columns of the resource row of u, or NoRow
    urls,     \* urls[u]: resourceVersion the log_url rows of u were built
              \* from, 0 when it has none
    (* The handlers                                                        *)
    pc,       \* where the handler of a request is
    ev,       \* the CloudEvent a request carries
    target,   \* history: UID of the object a request's Delete call hit
    code,     \* status code answered, 0 before or without an answer
    metric    \* result label counted in kubearchive.cloudevents

clusterVars == <<clock, cluster, seen>>
dbVars == <<row, urls>>
vars == <<clock, cluster, seen, row, urls, pc, ev, target, code, metric>>

Object == [uid : Uid, name : Name, rv : Nat, managed : SUBSET Nat,
           del : BOOLEAN]
Row == [rv : Nat, ts : Nat, del : BOOLEAN]

Deleting == {"delete-when", "keep-last-when-delete"}
Archiving == {"archive-when", "archive-on-delete"}
\* The suffixes ReceiveCloudEvent knows, and one for all the others.
EventType == Deleting \cup Archiving \cup {"unsupported"}
Event == [type : EventType, obj : Object]

ASSUME SinkAssumption ==
    /\ IsPod \in BOOLEAN
    /\ MaxClock \in Nat /\ MaxVersion \in Nat
    /\ NoUid \notin Uid
    /\ NoRow \notin Row
    /\ NoObject \notin Object
    /\ NoEvent \notin Event

Status == {202, 400, 422, 500}
Metric == {"none yet", "insert", "update", "none", "error", "no_conf"}

\* Largest of a set of times and the zero time.
HasLatest(T) == \E t \in T \cup {0} : \A s \in T \cup {0} : s <= t

\* k8s.GetLastUpdateTs: the latest managedFields time, the zero time if none.
GetLastUpdateTs(o) ==
    CHOOSE t \in o.managed \cup {0} : \A s \in o.managed \cup {0} : s <= t

(***************************************************************************)
(* The API server.  Its behaviour is what the sink relies on: a fresh UID  *)
(* for every created object, names that are reused, managedFields times    *)
(* with the resolution of a second that a change may leave alone or strip, *)
(* deletion in one step or, with finalizers or a grace period, in two.     *)
(***************************************************************************)
Observe(o) == seen' = seen \cup {o}

Tick ==
    /\ clock < MaxClock
    /\ clock' = clock + 1
    /\ UNCHANGED <<cluster, seen, row, urls, pc, ev, target, code, metric>>

Create(n, u) ==
    /\ cluster[n] = NoObject
    /\ \A o \in seen : o.uid # u
    /\ \E m \in {{}, {clock}} :
         LET o == [uid |-> u, name |-> n, rv |-> 1, managed |-> m,
                   del |-> FALSE]
         IN cluster' = [cluster EXCEPT ![n] = o] /\ Observe(o)
    /\ UNCHANGED <<clock, row, urls, pc, ev, target, code, metric>>

\* The object's next state; m is what is left of the managedFields times.
Changed(o, m, d) ==
    [uid |-> o.uid, name |-> o.name, rv |-> o.rv + 1, managed |-> m, del |-> d]

Update(n) ==
    /\ cluster[n] # NoObject
    /\ cluster[n].rv < MaxVersion
    /\ \E m \in {{}, cluster[n].managed, cluster[n].managed \cup {clock}} :
         LET o == Changed(cluster[n], m, cluster[n].del)
         IN cluster' = [cluster EXCEPT ![n] = o] /\ Observe(o)
    /\ UNCHANGED <<clock, row, urls, pc, ev, target, code, metric>>

\* What a Delete request does to the object o called n: it disappears, or it
\* is marked and waits for finalizers or the end of its grace period.
DeleteObject(n, o) ==
    \/ cluster' = [cluster EXCEPT ![n] = NoObject] /\ UNCHANGED seen
    \/ /\ ~o.del
       /\ o.rv < MaxVersion
       /\ LET m == Changed(o, o.managed, TRUE)
          IN cluster' = [cluster EXCEPT ![n] = m] /\ Observe(m)
    \/ o.del /\ UNCHANGED <<cluster, seen>>

\* Somebody else deletes the object, or a marked object goes away.
OtherDelete(n) ==
    /\ cluster[n] # NoObject
    /\ DeleteObject(n, cluster[n])
    /\ UNCHANGED <<clock, row, urls, pc, ev, target, code, metric>>

(***************************************************************************)
(* The database transaction of postgreSQLDatabase.WriteResource.           *)
(***************************************************************************)
\* Fault: the WHERE of the upsert lets an equal timestamp through.
Newer_OrEqual(u, ts) == row[u] = NoRow \/ row[u].ts <= ts

\* Fault: the upsert has no WHERE.
Newer_Always(u, ts) == ts \in Nat

\* INSERT ... ON CONFLICT(uuid) DO UPDATE ... WHERE
\*   resource.cluster_updated_ts < the new one: does the statement apply?
Newer(u, ts) == row[u] = NoRow \/ row[u].ts < ts

\* The committed transaction.  For a Pod the log_url rows are replaced
\* whether or not the resource row was.  del is the deletion timestamp of
\* the object handed in, the only thing the second write changes.
WriteTx(o, del) ==
    LET ts == GetLastUpdateTs(o) IN
    /\ row' = IF Newer(o.uid, ts)
              THEN [row EXCEPT ![o.uid] =
                      [rv |-> o.rv, ts |-> ts, del |-> del]]
              ELSE row
    /\ urls' = IF IsPod THEN [urls EXCEPT ![o.uid] = o.rv] ELSE urls

\* WriteResource's result as a metric.  The outcome of the upsert has been
\* overwritten by Commit's when it is tested for sql.ErrNoRows, so a
\* refused upsert reports an update.
ResultOf(o) == IF row[o.uid] = NoRow THEN "insert" ELSE "update"

\* The transaction failed.  It left nothing behind, unless it was the answer
\* to the commit that got lost.
WriteTxFails(o, del) == UNCHANGED dbVars \/ WriteTx(o, del)

(***************************************************************************)
(* Controller.ReceiveCloudEvent, from one blocking call to the next.       *)
(***************************************************************************)
Answer(r, c, m) ==
    /\ pc' = [pc EXCEPT ![r] = "done"]
    /\ code' = [code EXCEPT ![r] = c]
    /\ metric' = [metric EXCEPT ![r] = m]

\* A request whose body is no CloudEvent, an invalid one, or one whose data
\* is no object.  The last is counted, the others return before that.
RejectMalformed(r) ==
    /\ pc[r] = "none"
    /\ \/ Answer(r, 400, "none yet")
       \/ Answer(r, 422, "error")
    /\ UNCHANGED <<clock, cluster, seen, row, urls, ev, target>>

\* The last state of an object that is gone, what a DELETED event carries.
IsFinal(o) ==
    /\ \A n \in Name : cluster[n] # NoObject => cluster[n].uid # o.uid
    /\ \A p \in seen : p.uid = o.uid => p.rv <= o.rv

\* A well-formed event arrives; its object was in that state at some time.
Receive(r) ==
    /\ pc[r] = "none"
    /\ \E o \in seen, t \in EventType :
         /\ t = "archive-on-delete" => IsFinal(o)
         /\ ev' = [ev EXCEPT ![r] = [type |-> t, obj |-> o]]
         /\ IF t = "unsupported"
            THEN Answer(r, 202, "no_conf")
            ELSE pc' = [pc EXCEPT ![r] = "write"] /\ UNCHANGED <<code, metric>>
    /\ UNCHANGED <<clock, cluster, seen, row, urls, target>>

Write(r) ==
    LET o == ev[r].obj IN
    /\ pc[r] = "write"
    /\ WriteTx(o, o.del)
    /\ IF ev[r].type \in Deleting
       THEN /\ pc' = [pc EXCEPT ![r] = "delete"]
            /\ metric' = [metric EXCEPT ![r] = ResultOf(o)]
            /\ UNCHANGED code
       ELSE Answer(r, 202, ResultOf(o))
    /\ UNCHANGED <<clock, cluster, seen, ev, target>>

\* Fault: the error of writeResource is logged and the handler goes on.
WriteFails_Ignored(r) ==
    /\ pc[r] = "write"
    /\ WriteTxFails(ev[r].obj, ev[r].obj.del)
    /\ IF ev[r].type \in Deleting
       THEN pc' = [pc EXCEPT ![r] = "delete"] /\ UNCHANGED <<code, metric>>
       ELSE Answer(r, 202, "error")
    /\ UNCHANGED <<clock, cluster, seen, ev, target>>

WriteFails(r) ==
    /\ pc[r] = "write"
    /\ WriteTxFails(ev[r].obj, ev[r].obj.del)
    /\ Answer(r, 500, "error")
    /\ UNCHANGED <<clock, cluster, seen, ev, target>>

\* Delete(name), without a UID precondition: whatever is called so now goes.
Delete(r) ==
    LET n == ev[r].obj.name IN
    /\ pc[r] = "delete"
    /\ cluster[n] # NoObject
    /\ DeleteObject(n, cluster[n])
    /\ target' = [target EXCEPT ![r] = cluster[n].uid]
    /\ pc' = [pc EXCEPT ![r] = "rewrite"]
    /\ UNCHANGED <<clock, row, urls, ev, code, metric>>

\* Fault: NotFound is passed on to the sender.
DeleteNotFound_Passed(r) ==
    /\ pc[r] = "delete"
    /\ cluster[ev[r].obj.name] = NoObject
    /\ Answer(r, 404, metric[r])
    /\ UNCHANGED <<clock, cluster, seen, row, urls, ev, target>>

\* The API server answers NotFound: the resource is already deleted.
DeleteNotFound(r) ==
    /\ pc[r] = "delete"
    /\ cluster[ev[r].obj.name] = NoObject
    /\ Answer(r, 202, metric[r])
    /\ UNCHANGED <<clock, cluster, seen, row, urls, ev, target>>

\* Any other error, a lost answer to a deletion that took place included.
\* The metric keeps the result of the first write.
DeleteFails(r) ==
    LET n == ev[r].obj.name IN
    /\ pc[r] = "delete"
    /\ \/ UNCHANGED <<cluster, seen, target>>
       \/ /\ cluster[n] # NoObject
          /\ DeleteObject(n, cluster[n])
          /\ target' = [target EXCEPT ![r] = cluster[n].uid]
    /\ Answer(r, 500, metric[r])
    /\ UNCHANGED <<clock, row, urls, ev>>

\* The second write, of the object with its deletion timestamp set.
Rewrite(r) ==
    /\ pc[r] = "rewrite"
    /\ WriteTx(ev[r].obj, TRUE)
    /\ Answer(r, 202, ResultOf(ev[r].obj))
    /\ UNCHANGED <<clock, cluster, seen, ev, target>>

RewriteFails(r) ==
    /\ pc[r] = "rewrite"
    /\ WriteTxFails(ev[r].obj, TRUE)
    /\ Answer(r, 500, metric[r])
    /\ UNCHANGED <<clock, cluster, seen, ev, target>>

\* The sink's process dies, or the client gives up and cancels the request:
\* nothing is answered.
Crash(r) ==
    /\ pc[r] \in {"write", "delete", "rewrite"}
    /\ pc' = [pc EXCEPT ![r] = "done"]
    /\ UNCHANGED <<clock, cluster, seen, row, urls, ev, target, code, metric>>

-----------------------------------------------------------------------------
Init ==
    /\ clock = 1
    /\ cluster = [n \in Name |-> NoObject]
    /\ seen = {}
    /\ row = [u \in Uid |-> NoRow]
    /\ urls = [u \in Uid |-> 0]
    /\ pc = [r \in Request |-> "none"]
    /\ ev = [r \in Request |-> NoEvent]
    /\ target = [r \in Request |-> NoUid]
    /\ code = [r \in Request |-> 0]
    /\ metric = [r \in Request |-> "none yet"]

ClusterStep ==
    \/ Tick
    \/ \E n \in Name : Update(n) \/ OtherDelete(n)
    \/ \E n \in Name, u \in Uid : Create(n, u)

HandlerStep(r) ==
    \/ RejectMalformed(r) \/ Receive(r)
    \/ Write(r) \/ WriteFails(r)
    \/ Delete(r) \/ DeleteNotFound(r) \/ DeleteFails(r)
    \/ Rewrite(r) \/ RewriteFails(r)
    \/ Crash(r)

Next == ClusterStep \/ \E r \in Request : HandlerStep(r)

Spec == Init /\ [][Next]_vars

-----------------------------------------------------------------------------
\* Variables have the values the declarations say.
TypeOK ==
    /\ clock \in Nat
    /\ cluster \in [Name -> Object \cup {NoObject}]
    /\ seen \subseteq Object
    /\ \A o \in seen : HasLatest(o.managed)
    /\ \A n \in Name : cluster[n] # NoObject => cluster[n] \in seen
    /\ row \in [Uid -> Row \cup {NoRow}]
    /\ urls \in [Uid -> Nat]
    /\ pc \in [Request -> {"none", "write", "delete", "rewrite", "done"}]
    /\ ev \in [Request -> Event \cup {NoEvent}]
    /\ \A r \in Request : ev[r] # NoEvent => ev[r].obj \in seen
    /\ target \in [Request -> Uid \cup {NoUid}]
    /\ code \in [Request -> Status \cup {0}]
    /\ metric \in [Request -> Metric]

\* The archive holds o's object in a state at least as recent as o.
Archived(o) == row[o.uid] # NoRow /\ row[o.uid].ts >= GetLastUpdateTs(o)

\* What is acknowledged is archived: once ReceiveCloudEvent has answered 202
\* to an event of a type it supports, the database holds that object in a
\* state at least as recent, whatever other requests, in whatever order,
\* wrote in the meantime.
AckedIsArchived ==
    \A r \in Request :
        code[r] = 202 /\ ev[r].type \in Deleting \cup Archiving
            => Archived(ev[r].obj)

\* The sink deletes an object on behalf of its own event only after a state
\* at least as recent as the event's was committed, even when the answer to
\* the Delete call got lost or the sink crashed right after it.
OwnObjectArchivedBeforeDelete ==
    \A r \in Request :
        target[r] # NoUid /\ target[r] = ev[r].obj.uid => Archived(ev[r].obj)

\* An archived row is one received snapshot in full, never a mix of two:
\* its resource_version, cluster_updated_ts and cluster_deleted_ts are those
\* of one event of that UID.
RowIsOneEvent ==
    \A u \in Uid : row[u] # NoRow =>
        \E r \in Request :
            /\ ev[r] # NoEvent
            /\ ev[r].obj.uid = u
            /\ row[u] = [rv |-> ev[r].obj.rv, ts |-> GetLastUpdateTs(ev[r].obj),
                         del |-> ev[r].obj.del]

Store == INSTANCE ArchiveStore WITH Uid <- Uid, NoRow <- NoRow, row <- row

\* The sink's transactions implement the last-update-wins registers of
\* ArchiveStore: an archived row is never lost and a late, repeated or
\* reordered event never replaces it by an older or equally old state.
ImplementsArchiveStore == Store!Spec

(***************************************************************************)
(* What a document of the repository says and the code does not do; a run  *)
(* expects TLC to refute it.                                               *)
(***************************************************************************)
\* kubearchiveconfig.adoc: "KubeArchive archives resources deleted using
\* deleteWhen": every object the sink's Delete call hit is in the archive.
DeletedObjectsAreArchived ==
    \A r \in Request : target[r] # NoUid => row[target[r]] # NoRow

=============================================================================
