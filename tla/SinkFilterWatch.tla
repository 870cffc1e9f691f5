-------------------------- MODULE SinkFilterWatch --------------------------
(***************************************************************************)
(* The SinkFilter controller and the watch of one kind: the reconciler     *)
(* (Reconcile, generateWatches), and for every WatchInfo it creates a      *)
(* watchLoop goroutine that fills a work queue from the API server's watch *)
(* and a pool of runWorker goroutines that turn queued watch events into   *)
(* CloudEvents.  A WatchInfo that is stopped is never used again; if the   *)
(* kind is wanted later a new one is created, so the goroutines of several *)
(* WatchInfos may be alive together.                                       *)
(*                                                                         *)
(* A watch event is known by the resourceVersion it carries, its index in  *)
(* the API server's history of the kind.                                   *)
(***************************************************************************)
EXTENDS Integers, Sequences, SequencesExt

CONSTANTS
    Obj,           \* objects of the kind
    Filter,        \* filters for the kind: the objects each CEL expression of
                   \* the cluster or of the namespace holds for
    Worker,        \* workers of a watch (ResourceConfig.Workers)
    TornRead,      \* whether the racy read of WatchInterface may see nil after
                   \* the test for nil did not
    MaxLog,        \* bound: changes of objects
    MaxQueue,      \* bound: events a watch has taken and not yet handled
    MaxEdits,      \* bound: edits of the SinkFilter
    MaxRestarts,   \* bound: restarts of the operator
    MaxBoth        \* bound: edits and restarts together

CelExpressions == [deleteWhen : SUBSET Obj, archiveWhen : SUBSET Obj,
                   archiveOnDelete : SUBSET Obj]
NoCel == [deleteWhen |-> {}, archiveWhen |-> {}, archiveOnDelete |-> {}]

\* What the SinkFilter says of the kind: there is no SinkFilter, it does not
\* list the kind, or it lists it with these expressions.
Absent == [status |-> "absent", cel |-> NoCel]
Unlisted == [status |-> "unlisted", cel |-> NoCel]
Listed(f) == [status |-> "listed", cel |-> f]
Setting == {Absent, Unlisted} \cup {Listed(f) : f \in Filter}

ASSUME WatchAssumption ==
    /\ Filter \subseteq CelExpressions
    /\ TornRead \in BOOLEAN
    /\ MaxLog \in Nat /\ MaxQueue \in Nat
    /\ MaxEdits \in Nat /\ MaxRestarts \in Nat /\ MaxBoth \in Nat

\* WatchInfos, in the order they are created in.  Between two creations the
\* kind is dropped and listed again, so there are enough for MaxEdits edits.
NumWatches == MaxEdits \div 2 + 1
Watch == 1..NumWatches

VARIABLES
    (* The API server (external)                                           *)
    log,       \* log[v]: the change of resourceVersion v
    oldest,    \* versions up to this one have been compacted away
    known,     \* whether the kind is known to the RESTMapper
    spec,      \* what the SinkFilter says of the kind
    (* The reconciler                                                      *)
    rpc,       \* where Reconcile is
    dirty,     \* whether the SinkFilter is in the controller's queue
    want,      \* what this Reconcile has read of it
    role,      \* whether the ClusterRole lets the operator watch the kind
    current,   \* the WatchInfo in r.watches, 0 for none
    used,      \* WatchInfos created so far
    edits, restarts,
    (* One of each for every WatchInfo                                     *)
    filter,    \* ClusterCel and Namespaces
    stop,      \* whether StopCh is closed
    iface,     \* whether WatchInterface is not nil
    conn,      \* its connection: "closed", "open", or "gone", which answers
               \* that the version asked for is no longer available
    pos,       \* version up to which the connection has sent changes
    initial,   \* versions it has still to send as initial ADDED events
    rv,        \* ResourceVersion, 0 for ""
    base,      \* history: newest version when the watch last started from ""
    queue,     \* versions of the events in Queue that a worker can get
    waiting,   \* those that wait for their rate limit to be added again
    shut,      \* whether Queue is shut down
    handled,   \* history: versions whose event was handled without error
    loop,      \* where watchLoop is
    worker,    \* where its workers are
    holding,   \* version of the event a worker handles
    verdict    \* CloudEvent it sends for it

serverVars == <<log, oldest, known, spec, edits>>
reconcilerVars == <<rpc, dirty, want, role, current, used, restarts>>
connVars == <<iface, conn, pos, initial, rv, base>>
queueVars == <<queue, waiting, shut, handled>>
workerVars == <<worker, holding, verdict>>
vars == <<log, oldest, known, spec, rpc, dirty, want, role, current, used,
          edits, restarts, filter, stop, iface, conn, pos, initial, rv, base,
          queue, waiting, shut, handled, loop, worker, holding, verdict>>

(***************************************************************************)
(* The API server.                                                         *)
(***************************************************************************)
ChangesOf(o) == {v \in 1..Len(log) : log[v].obj = o}
\* Version of the object's last change, 0 if it has none.
LastChange(o) == IF ChangesOf(o) = {} THEN 0
                 ELSE CHOOSE v \in ChangesOf(o) : \A u \in ChangesOf(o) : u <= v
Exists(o) == LastChange(o) # 0 /\ log[LastChange(o)].type # "DELETED"

Change(o, t) ==
    /\ Len(log) < MaxLog
    /\ Exists(o) = (t \in {"MODIFIED", "DELETED"})
    /\ log' = Append(log, [type |-> t, obj |-> o])
    /\ UNCHANGED <<oldest, known, spec, edits, reconcilerVars, filter, stop,
                   connVars, queueVars, loop, workerVars>>

Compact ==
    /\ oldest < Len(log)
    /\ oldest' = Len(log)
    /\ UNCHANGED <<log, known, spec, edits, reconcilerVars, filter, stop,
                   connVars, queueVars, loop, workerVars>>

\* The CRD of the kind is installed.
Install ==
    /\ ~known
    /\ known' = TRUE
    /\ UNCHANGED <<log, oldest, spec, edits, reconcilerVars, filter, stop,
                   connVars, queueVars, loop, workerVars>>

\* The SinkFilter is created, edited or deleted.
Edit(s) ==
    /\ edits < MaxEdits /\ edits + restarts < MaxBoth
    /\ s # spec
    /\ spec' = s
    /\ edits' = edits + 1
    /\ dirty' = TRUE
    /\ UNCHANGED <<log, oldest, known, rpc, want, role, current, used, restarts,
                   filter, stop, connVars, queueVars, loop, workerVars>>

\* The API server's timeout, or a network failure, ends the connection.
Disconnect(w) ==
    /\ conn[w] # "closed"
    /\ conn' = [conn EXCEPT ![w] = "closed"]
    /\ UNCHANGED <<serverVars, reconcilerVars, filter, stop, iface, pos, initial,
                   rv, base, queueVars, loop, workerVars>>

(***************************************************************************)
(* SinkFilterReconciler.Reconcile.                                         *)
(***************************************************************************)
ReconcileEnds(again) == rpc' = "idle" /\ dirty' = again

Reconcile ==
    /\ rpc = "idle" /\ dirty
    /\ dirty' = FALSE
    /\ want' = spec
    /\ rpc' = IF spec.status = "absent" THEN "generate" ELSE "role"
    /\ UNCHANGED <<serverVars, role, current, used, restarts, filter, stop,
                   connVars, queueVars, loop, workerVars>>

\* reconcileClusterRole and reconcileClusterRoleBinding; createPolicyRules
\* leaves out the kinds the mapper does not know.
ReconcileClusterRole ==
    /\ rpc = "role"
    /\ role' = (want.status = "listed" /\ known)
    /\ rpc' = "generate"
    /\ UNCHANGED <<serverVars, dirty, want, current, used, restarts, filter,
                   stop, connVars, queueVars, loop, workerVars>>

\* One of the calls before generateWatches fails.
ReconcileFails ==
    /\ rpc = "role"
    /\ role' \in {role, want.status = "listed" /\ known}
    /\ ReconcileEnds(TRUE)
    /\ UNCHANGED <<serverVars, want, current, used, restarts, filter, stop,
                   connVars, queueVars, loop, workerVars>>

(***************************************************************************)
(* generateWatches, which holds r.mu throughout.                           *)
(***************************************************************************)
\* getGVR: the RESTMapper finds the kind.
GetGVR == known

\* Neither wanted nor watched, or unknown to the mapper: that is only logged.
NothingToDo ==
    /\ rpc = "generate"
    /\ current = 0
    /\ want.status # "listed" \/ ~GetGVR
    /\ ReconcileEnds(dirty)
    /\ UNCHANGED <<serverVars, want, role, current, used, restarts, filter,
                   stop, connVars, queueVars, loop, workerVars>>

\* createWatchForGVR, with a queue and goroutines of its own.
CreateWatchForGVR ==
    /\ rpc = "generate"
    /\ want.status = "listed"
    /\ current = 0 /\ GetGVR
    /\ used < NumWatches
    /\ current' = used + 1
    /\ used' = used + 1
    /\ filter' = [filter EXCEPT ![used + 1] = want.cel]
    /\ loop' = [loop EXCEPT ![used + 1] = "top"]
    /\ worker' = [worker EXCEPT ![used + 1] = [k \in Worker |-> "top"]]
    /\ ReconcileEnds(dirty)
    /\ UNCHANGED <<serverVars, want, role, restarts, stop, connVars, queueVars,
                   holding, verdict>>

\* The filters of a watch that goes on are overwritten under its workers.
UpdateWatch ==
    /\ rpc = "generate"
    /\ want.status = "listed"
    /\ current # 0
    /\ filter' = [filter EXCEPT ![current] = want.cel]
    /\ ReconcileEnds(dirty)
    /\ UNCHANGED <<serverVars, want, role, current, used, restarts, stop,
                   connVars, queueVars, loop, workerVars>>

\* close(StopCh) and the test of WatchInterface for nil.
StopWatch ==
    /\ rpc = "generate"
    /\ want.status # "listed"
    /\ current # 0
    /\ ~ stop[current]
    /\ stop' = [stop EXCEPT ![current] = TRUE]
    /\ rpc' = IF iface[current] THEN "interface" ELSE "shutdown"
    /\ UNCHANGED <<serverVars, dirty, want, role, current, used, restarts,
                   filter, connVars, queueVars, loop, workerVars>>

\* Closing a channel that is closed panics; controller-runtime recovers from
\* it and queues the SinkFilter again.
CloseOfClosed ==
    /\ rpc = "generate"
    /\ want.status # "listed"
    /\ current # 0
    /\ stop[current]
    /\ ReconcileEnds(TRUE)
    /\ UNCHANGED <<serverVars, want, role, current, used, restarts, filter,
                   stop, connVars, queueVars, loop, workerVars>>

\* WatchInterface.Stop(), of what was read before.
StopInterface ==
    /\ rpc = "interface"
    /\ conn' = IF iface[current] THEN [conn EXCEPT ![current] = "closed"]
                                 ELSE conn
    /\ rpc' = "shutdown"
    /\ UNCHANGED <<serverVars, dirty, want, role, current, used, restarts,
                   filter, stop, iface, pos, initial, rv, base,
                   queueVars, loop, workerVars>>

\* watchLoop has set WatchInterface to nil since, and Stop is called on nil.
StopOfNil ==
    /\ TornRead
    /\ rpc = "interface"
    /\ ~ iface[current]
    /\ ReconcileEnds(TRUE)
    /\ UNCHANGED <<serverVars, want, role, current, used, restarts, filter,
                   stop, connVars, queueVars, loop, workerVars>>

\* Fault: the queue is not shut down.
ShutDown_Missing ==
    /\ rpc = "shutdown"
    /\ rpc' = "wait"
    /\ UNCHANGED <<serverVars, dirty, want, role, current, used, restarts,
                   filter, stop, connVars, queueVars, loop, workerVars>>

\* Queue.ShutDown(): it takes no more events; rate-limited ones are dropped.
ShutDown ==
    /\ rpc = "shutdown"
    /\ shut' = [shut EXCEPT ![current] = TRUE]
    /\ waiting' = [waiting EXCEPT ![current] = <<>>]
    /\ rpc' = "wait"
    /\ UNCHANGED <<serverVars, dirty, want, role, current, used, restarts,
                   filter, stop, connVars, queue, handled, loop, workerVars>>

\* Fault: WorkerWg.Wait() is missing.
Wait_NoWait ==
    /\ rpc = "wait"
    /\ current' = 0
    /\ ReconcileEnds(dirty)
    /\ UNCHANGED <<serverVars, want, role, used, restarts, filter, stop,
                   connVars, queueVars, loop, workerVars>>

\* WorkerWg.Wait() returns and the watch is removed from r.watches.
Wait ==
    /\ rpc = "wait"
    /\ \A k \in Worker : worker[current][k] = "exited"
    /\ current' = 0
    /\ ReconcileEnds(dirty)
    /\ UNCHANGED <<serverVars, want, role, used, restarts, filter, stop,
                   connVars, queueVars, loop, workerVars>>

(***************************************************************************)
(* watchLoop and processWatchEvents.                                       *)
(***************************************************************************)
\* Fault: the loop does not test StopCh.
LoopTop_NoTest(w) ==
    /\ loop[w] = "top"
    /\ loop' = [loop EXCEPT ![w] = "create"]
    /\ UNCHANGED <<serverVars, reconcilerVars, filter, stop, connVars, queueVars,
                   workerVars>>

LoopTop(w) ==
    /\ loop[w] = "top"
    /\ loop' = [loop EXCEPT ![w] = IF stop[w] THEN "exited" ELSE "create"]
    /\ UNCHANGED <<serverVars, reconcilerVars, filter, stop, connVars, queueVars,
                   workerVars>>

\* A watch goes on after the version it asks for, or from now on.
StartOf(w) == IF rv[w] = 0 THEN Len(log) ELSE rv[w]

\* createWatch.  Without a version the API server first sends an ADDED event
\* for every object that exists, in no particular order of their versions;
\* with one it sends what happened since, unless that was compacted.
CreateWatch(w) ==
    /\ loop[w] = "create"
    /\ role
    /\ loop' = [loop EXCEPT ![w] = "process"]
    /\ iface' = [iface EXCEPT ![w] = TRUE]
    /\ conn' = [conn EXCEPT ![w] = IF rv[w] # 0 /\ rv[w] < oldest
                                   THEN "gone" ELSE "open"]
    /\ pos' = [pos EXCEPT ![w] = StartOf(w)]
    /\ initial' = [initial EXCEPT ![w] =
          IF rv[w] = 0 THEN {LastChange(o) : o \in {x \in Obj : Exists(x)}}
                       ELSE {}]
    /\ base' = [base EXCEPT ![w] = IF rv[w] = 0 THEN Len(log) ELSE @]
    /\ UNCHANGED <<serverVars, reconcilerVars, filter, stop, rv,
                   queueVars, workerVars>>

CreateWatchFails(w) ==
    /\ loop[w] = "create"
    /\ loop' = [loop EXCEPT ![w] = "backoff"]
    /\ UNCHANGED <<serverVars, reconcilerVars, filter, stop, connVars, queueVars,
                   workerVars>>

\* The backoff is over, or StopCh is closed before.
Backoff(w) ==
    /\ loop[w] = "backoff"
    /\ \/ loop' = [loop EXCEPT ![w] = "top"]
       \/ stop[w] /\ loop' = [loop EXCEPT ![w] = "exited"]
    /\ UNCHANGED <<serverVars, reconcilerVars, filter, stop, connVars, queueVars,
                   workerVars>>

\* The version of the event is remembered and the event queued, unless the
\* queue is shut down.
Enqueue(w, v) ==
    /\ rv' = [rv EXCEPT ![w] = v]
    /\ queue' = [queue EXCEPT ![w] = IF shut[w] THEN @ ELSE Append(@, v)]

HasRoom(w) == Len(queue[w]) + Len(waiting[w]) < MaxQueue

\* An initial event arrives.  Even when StopCh is closed select may take it.
InitialEvent(w, v) ==
    /\ loop[w] = "process" /\ conn[w] = "open"
    /\ v \in initial[w] /\ HasRoom(w)
    /\ initial' = [initial EXCEPT ![w] = @ \ {v}]
    /\ Enqueue(w, v)
    /\ UNCHANGED <<serverVars, reconcilerVars, filter, stop, iface, conn, pos,
                   base, waiting, shut, handled, loop, workerVars>>

\* The event of the next change arrives.
ChangeEvent(w) ==
    /\ loop[w] = "process" /\ conn[w] = "open"
    /\ initial[w] = {}
    /\ pos[w] < Len(log) /\ HasRoom(w)
    /\ pos' = [pos EXCEPT ![w] = @ + 1]
    /\ Enqueue(w, pos[w] + 1)
    /\ UNCHANGED <<serverVars, reconcilerVars, filter, stop, iface, conn,
                   initial, base, waiting, shut, handled, loop,
                   workerVars>>

\* Fault: shouldClearResourceVersion says no.
ErrorEvent_KeepVersion(w) ==
    /\ loop[w] = "process" /\ conn[w] \in {"open", "gone"}
    /\ loop' = [loop EXCEPT ![w] = "leave"]
    /\ UNCHANGED <<serverVars, reconcilerVars, filter, stop, connVars, queueVars,
                   workerVars>>

\* shouldClearResourceVersion: the error's code or reason is Gone.
ShouldClearResourceVersion(w) == conn[w] = "gone"

\* An ERROR event.  On Gone the version is cleared, so that the next watch
\* starts from all objects that exist.
ErrorEvent(w) ==
    /\ loop[w] = "process" /\ conn[w] \in {"open", "gone"}
    /\ loop' = [loop EXCEPT ![w] = "leave"]
    /\ rv' = IF ShouldClearResourceVersion(w) THEN [rv EXCEPT ![w] = 0] ELSE rv
    /\ UNCHANGED <<serverVars, reconcilerVars, filter, stop, iface, conn, pos,
                   initial, base, queueVars, workerVars>>

\* StopCh is closed, or the channel of the watch is.
LeaveEvents(w) ==
    /\ loop[w] = "process"
    /\ stop[w] \/ conn[w] = "closed"
    /\ loop' = [loop EXCEPT ![w] = "leave"]
    /\ UNCHANGED <<serverVars, reconcilerVars, filter, stop, connVars, queueVars,
                   workerVars>>

\* WatchInterface.Stop() and WatchInterface = nil.
Disconnected(w) ==
    /\ loop[w] = "leave"
    /\ conn' = [conn EXCEPT ![w] = "closed"]
    /\ iface' = [iface EXCEPT ![w] = FALSE]
    /\ loop' = [loop EXCEPT ![w] = "top"]
    /\ UNCHANGED <<serverVars, reconcilerVars, filter, stop, pos, initial, rv,
                   base, queueVars, workerVars>>

WatchLoop(w) ==
    \/ LoopTop(w) \/ CreateWatch(w) \/ CreateWatchFails(w) \/ Backoff(w)
    \/ \E v \in 1..MaxLog : InitialEvent(w, v)
    \/ ChangeEvent(w) \/ ErrorEvent(w) \/ LeaveEvents(w) \/ Disconnected(w)

(***************************************************************************)
(* runWorker and handleWatchEvent.                                         *)
(***************************************************************************)
Goto(w, k, s) == worker' = [worker EXCEPT ![w][k] = s]

WorkerTop(w, k) ==
    /\ worker[w][k] = "top"
    /\ Goto(w, k, IF stop[w] THEN "exited" ELSE "get")
    /\ UNCHANGED <<serverVars, reconcilerVars, filter, stop, connVars, queueVars,
                   loop, holding, verdict>>

\* Queue.Get() returns an event, even when the queue is shut down.
Get(w, k) ==
    /\ worker[w][k] = "get"
    /\ queue[w] # <<>>
    /\ holding' = [holding EXCEPT ![w][k] = Head(queue[w])]
    /\ queue' = [queue EXCEPT ![w] = Tail(@)]
    /\ Goto(w, k, "handle")
    /\ UNCHANGED <<serverVars, reconcilerVars, filter, stop, connVars, waiting,
                   shut, handled, loop, verdict>>

\* Queue.Get() returns that the queue is shut down.
GetShutDown(w, k) ==
    /\ worker[w][k] = "get"
    /\ queue[w] = <<>> /\ shut[w]
    /\ Goto(w, k, "exited")
    /\ UNCHANGED <<serverVars, reconcilerVars, filter, stop, connVars, queueVars,
                   loop, holding, verdict>>

\* The CloudEvent handleWatchEvent sends under filter f for change v.
VerdictOf(f, v) ==
    IF log[v].type = "DELETED"
    THEN IF log[v].obj \in f.archiveOnDelete THEN "archive-on-delete" ELSE "no"
    ELSE IF log[v].obj \in f.deleteWhen THEN "delete-when"
    ELSE IF log[v].obj \in f.archiveWhen THEN "archive-when"
    ELSE "no"

\* The event was handled: Queue.Forget, Queue.Done, and the next one.
Handled(w, k) ==
    /\ handled' = [handled EXCEPT ![w] = @ \cup {holding[w][k]}]
    /\ holding' = [holding EXCEPT ![w][k] = 0]
    /\ verdict' = [verdict EXCEPT ![w][k] = "no"]
    /\ Goto(w, k, "top")

\* handleWatchEvent up to sending: the filters are read without r.mu.
HandleWatchEvent(w, k) ==
    LET e == VerdictOf(filter[w], holding[w][k]) IN
    /\ worker[w][k] = "handle"
    /\ IF e = "no"
       THEN Handled(w, k)
       ELSE /\ verdict' = [verdict EXCEPT ![w][k] = e]
            /\ Goto(w, k, "send")
            /\ UNCHANGED <<handled, holding>>
    /\ UNCHANGED <<serverVars, reconcilerVars, filter, stop, connVars, queue,
                   waiting, shut, loop>>

\* The sink acknowledges the CloudEvent.
SendCloudEvent(w, k) ==
    /\ worker[w][k] = "send"
    /\ Handled(w, k)
    /\ UNCHANGED <<serverVars, reconcilerVars, filter, stop, connVars, queue,
                   waiting, shut, loop>>

\* Fault: an event that was not acknowledged is not queued again.
SendFails_Forget(w, k) ==
    /\ worker[w][k] = "send"
    /\ holding' = [holding EXCEPT ![w][k] = 0]
    /\ verdict' = [verdict EXCEPT ![w][k] = "no"]
    /\ Goto(w, k, "top")
    /\ UNCHANGED <<serverVars, reconcilerVars, filter, stop, connVars, queueVars,
                   loop>>

\* It does not: AddRateLimited, which a queue that is shut down ignores.
SendFails(w, k) ==
    /\ worker[w][k] = "send"
    /\ waiting' = [waiting EXCEPT ![w] =
                      IF shut[w] THEN @ ELSE Append(@, holding[w][k])]
    /\ holding' = [holding EXCEPT ![w][k] = 0]
    /\ verdict' = [verdict EXCEPT ![w][k] = "no"]
    /\ Goto(w, k, "top")
    /\ UNCHANGED <<serverVars, reconcilerVars, filter, stop, connVars, queue,
                   shut, handled, loop>>

\* The rate limit of a waiting event has passed.
AddAgain(w, i) ==
    /\ i \in 1..Len(waiting[w])
    /\ queue' = [queue EXCEPT ![w] = Append(@, waiting[w][i])]
    /\ waiting' = [waiting EXCEPT ![w] = RemoveAt(@, i)]
    /\ UNCHANGED <<serverVars, reconcilerVars, filter, stop, connVars, shut,
                   handled, loop, workerVars>>

RunWorker(w, k) ==
    \/ WorkerTop(w, k) \/ Get(w, k) \/ GetShutDown(w, k)
    \/ HandleWatchEvent(w, k) \/ SendCloudEvent(w, k) \/ SendFails(w, k)

-----------------------------------------------------------------------------
All(x) == [w \in Watch |-> x]

Init ==
    /\ log = <<>> /\ oldest = 0
    /\ known \in BOOLEAN
    /\ spec \in Setting
    /\ role = FALSE
    /\ edits = 0 /\ restarts = 0
    /\ rpc = "idle" /\ dirty = TRUE /\ want = Absent
    /\ current = 0 /\ used = 0
    /\ filter = All(NoCel) /\ stop = All(FALSE)
    /\ iface = All(FALSE) /\ conn = All("closed")
    /\ pos = All(0) /\ initial = All({})
    /\ rv = All(0) /\ base = All(0)
    /\ queue = All(<<>>) /\ waiting = All(<<>>)
    /\ shut = All(FALSE) /\ handled = All({})
    /\ loop = All("none")
    /\ worker = All([k \in Worker |-> "none"])
    /\ holding = All([k \in Worker |-> 0])
    /\ verdict = All([k \in Worker |-> "no"])

\* The operator's process dies with all it remembers and is started again.
Restart ==
    /\ restarts < MaxRestarts /\ edits + restarts < MaxBoth
    /\ restarts' = restarts + 1
    /\ rpc' = "idle" /\ dirty' = TRUE /\ want' = Absent
    /\ current' = 0 /\ used' = 0
    /\ filter' = All(NoCel) /\ stop' = All(FALSE)
    /\ iface' = All(FALSE) /\ conn' = All("closed")
    /\ pos' = All(0) /\ initial' = All({})
    /\ rv' = All(0) /\ base' = All(0)
    /\ queue' = All(<<>>) /\ waiting' = All(<<>>)
    /\ shut' = All(FALSE) /\ handled' = All({})
    /\ loop' = All("none")
    /\ worker' = All([k \in Worker |-> "none"])
    /\ holding' = All([k \in Worker |-> 0])
    /\ verdict' = All([k \in Worker |-> "no"])
    /\ UNCHANGED <<serverVars, role>>

GenerateWatches ==
    \/ NothingToDo \/ CreateWatchForGVR \/ UpdateWatch
    \/ StopWatch \/ CloseOfClosed \/ StopInterface \/ StopOfNil
    \/ ShutDown \/ Wait

Next ==
    \/ \E o \in Obj, t \in {"ADDED", "MODIFIED", "DELETED"} : Change(o, t)
    \/ Compact \/ Install \/ Restart
    \/ \E s \in Setting : Edit(s)
    \/ Reconcile \/ ReconcileClusterRole \/ ReconcileFails \/ GenerateWatches
    \/ \E w \in Watch :
          \/ Disconnect(w) \/ WatchLoop(w)
          \/ \E i \in 1..MaxQueue : AddAgain(w, i)
          \/ \E k \in Worker : RunWorker(w, k)

\* What a connection has to say is received.
Receive(w) ==
    \/ \E v \in 1..MaxLog : InitialEvent(w, v)
    \/ ChangeEvent(w)
    \/ conn[w] = "gone" /\ ErrorEvent(w)

(***************************************************************************)
(* Goroutines that can run do run, and controller-runtime handles what is  *)
(* in its queue.  What may fail and is tried again succeeds at last: the   *)
(* update of the ClusterRole, connecting, receiving from a connection that *)
(* is made again and again (a watch lasts 5 to 10 minutes), and sending to *)
(* the sink.                                                               *)
(***************************************************************************)
Fairness ==
    /\ WF_vars(Reconcile) /\ WF_vars(GenerateWatches)
    /\ WF_vars(ReconcileClusterRole \/ ReconcileFails)
    /\ SF_vars(ReconcileClusterRole)
    /\ \A w \in Watch :
         /\ WF_vars(WatchLoop(w))
         /\ SF_vars(CreateWatch(w))
         /\ SF_vars(Receive(w))
         /\ WF_vars(AddAgain(w, 1))
         /\ \A k \in Worker :
              WF_vars(RunWorker(w, k)) /\ SF_vars(SendCloudEvent(w, k))

Spec == Init /\ [][Next]_vars

FairSpec == Spec /\ Fairness

-----------------------------------------------------------------------------
LoopState == {"none", "top", "create", "backoff", "process", "leave", "exited"}
WorkerState == {"none", "top", "get", "handle", "send", "exited"}
CloudEvent == {"no", "delete-when", "archive-when", "archive-on-delete"}

\* Variables have the values the declarations say.
TypeOK ==
    /\ log \in Seq([type : {"ADDED", "MODIFIED", "DELETED"}, obj : Obj])
    /\ oldest \in 0..Len(log)
    /\ known \in BOOLEAN /\ dirty \in BOOLEAN /\ role \in BOOLEAN
    /\ spec \in Setting /\ want \in Setting
    /\ rpc \in {"idle", "role", "generate", "interface", "shutdown", "wait"}
    /\ used \in 0..NumWatches /\ current \in 0..used
    /\ edits \in Nat /\ restarts \in Nat
    /\ filter \in [Watch -> CelExpressions]
    /\ stop \in [Watch -> BOOLEAN]
    /\ iface \in [Watch -> BOOLEAN]
    /\ conn \in [Watch -> {"closed", "open", "gone"}]
    /\ pos \in [Watch -> 0..Len(log)] /\ rv \in [Watch -> 0..Len(log)]
    /\ base \in [Watch -> 0..Len(log)]
    /\ initial \in [Watch -> SUBSET (1..Len(log))]
    /\ queue \in [Watch -> Seq(1..Len(log))]
    /\ waiting \in [Watch -> Seq(1..Len(log))]
    /\ shut \in [Watch -> BOOLEAN]
    /\ handled \in [Watch -> SUBSET (1..Len(log))]
    /\ loop \in [Watch -> LoopState]
    /\ worker \in [Watch -> [Worker -> WorkerState]]
    /\ holding \in [Watch -> [Worker -> 0..Len(log)]]
    /\ verdict \in [Watch -> [Worker -> CloudEvent]]

\* Events a watch has received and not yet handled.
Pending(w) ==
    Range(queue[w]) \cup Range(waiting[w]) \cup {holding[w][k] : k \in Worker}

\* A watch that generateWatches has removed from r.watches is over: StopCh is
\* closed, and none of its workers will send a CloudEvent any more, not even
\* one decided on before.  So a kind that a SinkFilter no longer lists is not
\* archived or deleted once Reconcile has returned, and the workers of two
\* watches of a kind never run side by side.
RemovedWatchesAreQuiet ==
    \A w \in 1..used : w # current =>
        stop[w] /\ \A k \in Worker : worker[w][k] = "exited"

\* ResourceVersion only moves past changes that are in the queue, wait there
\* to be tried again, are with a worker or have been handled: disconnecting,
\* failing to send and resuming a watch lose no event received since it was
\* last started from "".  (Checked together with the types.)
NothingSkipped ==
    /\ TypeOK
    /\ \A w \in Watch : ~ stop[w] =>
           \A v \in base[w] + 1..rv[w] : v \in handled[w] \cup Pending(w)

\* A stopped watch leaves no goroutine and no connection behind, wherever
\* watchLoop was when StopCh was closed.
StoppedLoopsEnd ==
    \A w \in Watch :
        stop[w] ~> loop[w] \in {"none", "exited"} /\ conn[w] = "closed"

\* Every change after the start of a watch is handled, over any number of
\* disconnections, errors and failures to send, unless the watch is stopped,
\* starts again from the objects that exist, or the ClusterRole lacks the kind,
\* which was installed after reconcileClusterRole had left it out.
ChangesAreHandled ==
    \A w \in Watch, v \in 1..MaxLog :
        /\ w = current /\ loop[w] # "none"
        /\ v \in base[w] + 1..Len(log)
        ~> v \in handled[w] \/ stop[w] \/ v <= base[w] \/ w # current
              \/ ~ role

\* The watches follow the SinkFilter: the watch there is, and its filter.
Follows ==
    IF spec.status = "listed"
    THEN current # 0 /\ ~ stop[current] /\ filter[current] = spec.cel
    ELSE current = 0

\* Once the SinkFilter is no longer edited, which MaxEdits makes sure of, the
\* watch of a kind the API server knows has the filter it asks for, or is gone
\* if it does not list the kind, whatever was interrupted, failed or restarted
\* before.  In particular generateWatches, which waits with r.mu held for
\* workers that wait for events, gets on.
WatchesFollowSinkFilter == []known => <>[]Follows

=============================================================================
