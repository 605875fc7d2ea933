------------------------------ MODULE Collector ------------------------------
(***************************************************************************)
(* The watchingCollector of pkg/query/collector/watching.go: the Explorer  *)
(* component that runs one watcher for every cluster the clusters manager  *)
(* reports.  Its processes are                                             *)
(*   - the goroutine inside Start that receives cluster list updates,      *)
(*     adds clusters to a work queue and unwatches removed ones;           *)
(*   - a worker goroutine that takes clusters off the queue and watches    *)
(*     them;                                                               *)
(*   - one goroutine per watcher that runs its Starter and, when that      *)
(*     fails, puts the cluster back on the queue.                          *)
(* The work queue (k8s.io/client-go/util/workqueue), the clusters manager  *)
(* and the Starter live outside the repository and are modelled by what    *)
(* the code calls and can observe.                                         *)
(***************************************************************************)
EXTENDS Naturals, Sequences, FiniteSets

CONSTANTS
    Name,         \* cluster names
    EmptyName,    \* the name ""; a cluster with it cannot be watched
    Cluster,      \* cluster.Cluster values: every poll makes new ones
    NameOf,       \* cluster.GetName()
    NoCluster,    \* the worker has taken nothing off the queue yet
    MaxChildren,  \* bound on the number of calls to watch
    MaxPolls,     \* bound on the number of cluster list changes
    MaxFailures   \* bound on failing watches and failing watchers

ASSUME CollectorAssumption ==
    /\ NameOf \in [Cluster -> Name]
    /\ NoCluster \notin Cluster
    /\ MaxChildren \in Nat
    /\ MaxPolls \in Nat
    /\ MaxFailures \in Nat

Child == 1 .. MaxChildren
NoChild == 0

Phases == {"unused", "preparing", "spawned", "running", "requeue", "exited"}

Statuses == {"none", "starting", "started", "stopped", "failed", "error"}

VARIABLES
    \* the clusters manager
    known,         \* names of the clusters it knows
    polls,         \* how often its list has changed
    updates,       \* subscription: cluster list updates not yet received
    \* the goroutine in Start
    mainPc,
    adding,        \* clusters in hand still to be added
    removing,      \* clusters in hand still to be removed
    current,       \* the cluster being removed
    victim,        \* the record unwatch took out of the map
    seen,          \* history: names it was told of and not yet to unwatch
    \* the rate-limiting work queue
    queue, dirty, processing, delayed, shuttingDown,
    \* the worker goroutine
    workerPc, workerCluster, workerChild,
    \* clusterWatchers, and the records (type child) ever made
    watchers, cluster, phase, status, cancelled,
    \* the surroundings
    failures,      \* how many watches, watchers and hooks have failed
    stored         \* names of the clusters that have records in the store

managerVars == <<known, polls, updates>>
mainVars    == <<mainPc, adding, removing, current, victim, seen>>
queueVars   == <<queue, dirty, processing, delayed, shuttingDown>>
workerVars  == <<workerPc, workerCluster, workerChild>>
childVars   == <<watchers, cluster, phase, status, cancelled>>
envVars     == <<failures, stored>>

vars == <<managerVars, mainVars, queueVars, workerVars, childVars, envVars>>

NamesOf(C) == {NameOf[c] : c \in C}

Queued(c) == \E i \in DOMAIN queue : queue[i] = c

\* A list of clusters as the manager hands it out: one value per name.
ListsOf(N) ==
    {C \in SUBSET Cluster :
        NamesOf(C) = N /\ \A c, d \in C : NameOf[c] = NameOf[d] => c = d}

ManagerTypeOK ==
    /\ known \in SUBSET Name
    /\ polls \in 0 .. MaxPolls
    /\ updates \in Seq([added : SUBSET Cluster, removed : SUBSET Cluster])

MainTypeOK ==
    /\ mainPc \in {"new", "subscribed", "initial", "loop", "unwatch", "cancel",
                   "hook", "stopped"}
    /\ adding \in SUBSET Cluster
    /\ removing \in SUBSET Cluster
    /\ current \in Cluster \cup {NoCluster}
    /\ victim \in Child \cup {NoChild}
    /\ seen \in SUBSET Name

QueueTypeOK ==
    /\ queue \in Seq(Cluster)
    /\ dirty \in SUBSET Cluster
    /\ processing \in SUBSET Cluster
    /\ delayed \in SUBSET Cluster
    /\ shuttingDown \in BOOLEAN

WorkerTypeOK ==
    /\ workerPc \in {"off", "get", "done", "watch", "config", "cancel",
                     "retry", "exited"}
    /\ workerCluster \in Cluster \cup {NoCluster}
    /\ workerChild \in Child \cup {NoChild}

ChildTypeOK ==
    /\ watchers \in [Name -> Child \cup {NoChild}]
    /\ cluster \in [Child -> Cluster \cup {NoCluster}]
    /\ phase \in [Child -> Phases]
    /\ status \in [Child -> Statuses]
    /\ cancelled \in [Child -> BOOLEAN]
    /\ failures \in 0 .. MaxFailures
    /\ stored \in SUBSET Name

TypeOK ==
    ManagerTypeOK /\ MainTypeOK /\ QueueTypeOK /\ WorkerTypeOK /\ ChildTypeOK

Init ==
    /\ known \in SUBSET Name /\ polls = 0 /\ updates = <<>>
    /\ mainPc = "new" /\ adding = {} /\ removing = {}
    /\ current = NoCluster /\ victim = NoChild /\ seen = {}
    /\ queue = <<>> /\ dirty = {} /\ processing = {} /\ delayed = {}
    /\ shuttingDown = FALSE
    /\ workerPc = "off" /\ workerCluster = NoCluster /\ workerChild = NoChild
    /\ watchers = [n \in Name |-> NoChild]
    /\ cluster = [k \in Child |-> NoCluster]
    /\ phase = [k \in Child |-> "unused"]
    /\ status = [k \in Child |-> "none"]
    /\ cancelled = [k \in Child |-> FALSE]
    /\ failures = 0 /\ stored = {}

\* Something outside the collector fails.
Failure == failures < MaxFailures /\ failures' = failures + 1

-----------------------------------------------------------------------------
(* The work queue.  The same item is queued at most once by Add; Done says *)
(* that an item taken with Get has been dealt with, and queues it again if *)
(* it was added in the meantime.  Done never takes an item off the queue.  *)

QueueAdd(c) ==
    IF shuttingDown \/ c \in dirty
    THEN UNCHANGED <<queue, dirty>>
    ELSE /\ dirty' = dirty \cup {c}
         /\ queue' = IF c \in processing THEN queue ELSE Append(queue, c)

QueueDone(c) ==
    /\ processing' = processing \ {c}
    /\ queue' = IF c \in dirty THEN Append(queue, c) ELSE queue
    /\ UNCHANGED <<dirty, delayed, shuttingDown>>

\* The item is added by itself after a delay.
QueueAddRateLimited(c) ==
    /\ delayed' = IF shuttingDown THEN delayed ELSE delayed \cup {c}
    /\ UNCHANGED <<queue, dirty, processing, shuttingDown>>

\* The queue's own goroutine adds an item whose delay has passed.  Forget
\* resets the rate limiter only: it does not take the item back.
DelayPassed(c) ==
    /\ ~shuttingDown
    /\ c \in delayed
    /\ delayed' = delayed \ {c}
    /\ QueueAdd(c)
    /\ UNCHANGED <<processing, shuttingDown, managerVars, mainVars, workerVars,
                   childVars, envVars>>

-----------------------------------------------------------------------------
(* The clusters manager: its list of clusters changes, and each subscriber *)
(* is sent what was added and what was removed.  The values it sends for a *)
(* name are not the ones it sent before.                                   *)

Poll ==
    /\ polls < MaxPolls
    /\ \E now \in SUBSET Name \ {known} :
        /\ known' = now
        /\ IF mainPc \in {"new", "stopped"}
           THEN UNCHANGED updates
           ELSE \E a \in ListsOf(now \ known), r \in ListsOf(known \ now) :
                    updates' = Append(updates, [added |-> a, removed |-> r])
    /\ polls' = polls + 1
    /\ UNCHANGED <<mainVars, queueVars, workerVars, childVars, envVars>>

-----------------------------------------------------------------------------
(* setStatus, the map of records, and the retry of a cluster.              *)

\* Mutant: the first status stays.
SetFirstStatus(k, s) ==
    status' = [status EXCEPT ![k] = IF @ \in {"none", "starting"} THEN "starting" ELSE @]

SetStatus(k, s) == status' = [status EXCEPT ![k] = s]

\* Mutant: the cancel function is that of the first watcher of the cluster.
CancelFirst(k) ==
    LET watches == {j \in Child : cluster[j] # NoCluster
                                   /\ NameOf[cluster[j]] = NameOf[cluster[k]]}
    IN  \E j \in watches :
            /\ \A i \in watches : j <= i
            /\ cancelled' = [cancelled EXCEPT ![j] = TRUE]

CancelRecord(k) == cancelled' = [cancelled EXCEPT ![k] = TRUE]

\* Mutant: the record stays in the map.
KeepRecord(n) == UNCHANGED watchers

RemoveRecord(n) == watchers' = [watchers EXCEPT ![n] = NoChild]

\* Mutant: "error is logged" is all that happens.
NoRetry(c) == UNCHANGED queueVars

Retry(c) == QueueAddRateLimited(c)

-----------------------------------------------------------------------------
(* Start.                                                                  *)

Subscribe ==
    /\ mainPc = "new"
    /\ mainPc' = "subscribed"
    /\ UNCHANGED <<adding, removing, current, victim, seen,
                   managerVars, queueVars, workerVars, childVars, envVars>>

GetClusters ==
    /\ mainPc = "subscribed"
    /\ mainPc' = "initial"
    /\ adding' \in ListsOf(known)
    /\ UNCHANGED <<removing, current, victim, seen,
                   managerVars, queueVars, workerVars, childVars, envVars>>

\* queue.Add for one of GetClusters() or updates.Added.
AddCluster ==
    /\ mainPc \in {"initial", "loop"}
    /\ \E c \in adding :
        /\ adding' = adding \ {c}
        /\ QueueAdd(c)
        /\ seen' = seen \cup {NameOf[c]}
    /\ UNCHANGED <<mainPc, removing, current, victim, processing, delayed,
                   shuttingDown, managerVars, workerVars, childVars, envVars>>

\* The worker goroutine is started once the existing clusters are queued.
StartWorker ==
    /\ mainPc = "initial" /\ adding = {}
    /\ mainPc' = "loop"
    /\ workerPc' = "get"
    /\ UNCHANGED <<adding, removing, current, victim, seen, workerCluster,
                   workerChild, managerVars, queueVars, childVars, envVars>>

\* The select statement, entered when the last update has been dealt with.
Idle == mainPc = "loop" /\ adding = {} /\ removing = {}

ReceiveUpdate ==
    /\ Idle
    /\ updates # <<>>
    /\ adding' = Head(updates).added
    /\ removing' = Head(updates).removed
    /\ updates' = Tail(updates)
    /\ UNCHANGED <<known, polls, mainPc, current, victim, seen,
                   queueVars, workerVars, childVars, envVars>>

\* queue.Done and queue.Forget for one of updates.Removed.
ForgetRemoved ==
    /\ mainPc = "loop" /\ adding = {}
    /\ \E c \in removing :
        /\ removing' = removing \ {c}
        /\ current' = c
        /\ QueueDone(c)
        /\ seen' = seen \ {NameOf[c]}
    /\ mainPc' = "unwatch"
    /\ UNCHANGED <<adding, victim, managerVars, workerVars, childVars, envVars>>

\* unwatch, up to the unlock: an empty name, or a name without a record, is
\* an error, and Start goes on with the next cluster.
Unwatch ==
    /\ mainPc = "unwatch"
    /\ LET n == NameOf[current] IN
        \/ /\ n = EmptyName \/ watchers[n] = NoChild
           /\ mainPc' = "loop"
           /\ current' = NoCluster
           /\ UNCHANGED <<victim, watchers>>
        \/ /\ n # EmptyName /\ watchers[n] # NoChild
           /\ mainPc' = "cancel"
           /\ victim' = watchers[n]
           /\ RemoveRecord(n)
           /\ UNCHANGED current
    /\ UNCHANGED <<adding, removing, seen, cluster, phase, status, cancelled,
                   managerVars, queueVars, workerVars, envVars>>

UnwatchCancel ==
    /\ mainPc = "cancel"
    /\ mainPc' = "hook"
    /\ CancelRecord(victim)
    /\ UNCHANGED <<adding, removing, current, victim, seen, watchers, cluster,
                   phase, status, managerVars, queueVars, workerVars, envVars>>

\* stopWatcherFunc: it deletes what the store has of the cluster, or fails;
\* the error is logged.
StopHook ==
    /\ mainPc = "hook"
    /\ mainPc' = "loop"
    /\ current' = NoCluster
    /\ victim' = NoChild
    /\ \/ stored' = stored \ {NameOf[current]} /\ UNCHANGED failures
       \/ Failure /\ UNCHANGED stored
    /\ UNCHANGED <<adding, removing, seen, managerVars, queueVars, workerVars,
                   childVars>>

\* Mutant: the queue is not shut down.
LeaveQueueOpen == UNCHANGED shuttingDown

ShutDown == shuttingDown' = TRUE

\* ctx.Done: Unsubscribe and ShutDown.  The watchers are left running.
Stop ==
    /\ Idle
    /\ mainPc' = "stopped"
    /\ updates' = <<>>
    /\ ShutDown
    /\ UNCHANGED <<known, polls, adding, removing, current, victim, seen, queue,
                   dirty, processing, delayed, workerVars, childVars, envVars>>

-----------------------------------------------------------------------------
(* The worker goroutine, and watch.                                        *)

WorkerGet ==
    /\ workerPc = "get"
    /\ queue # <<>>
    /\ workerPc' = "done"
    /\ workerCluster' = Head(queue)
    /\ queue' = Tail(queue)
    /\ processing' = processing \cup {Head(queue)}
    /\ dirty' = dirty \ {Head(queue)}
    /\ UNCHANGED <<delayed, shuttingDown, workerChild,
                   managerVars, mainVars, childVars, envVars>>

\* Get reports the shutdown only once the queue is empty.
WorkerExit ==
    /\ workerPc = "get" /\ queue = <<>> /\ shuttingDown
    /\ workerPc' = "exited"
    /\ UNCHANGED <<workerCluster, workerChild,
                   managerVars, mainVars, queueVars, childVars, envVars>>

\* queue.Done comes before the call to watch.
WorkerDone ==
    /\ workerPc = "done"
    /\ workerPc' = "watch"
    /\ QueueDone(workerCluster)
    /\ UNCHANGED <<workerCluster, workerChild,
                   managerVars, mainVars, childVars, envVars>>

WatchEmptyName ==
    /\ workerPc = "watch" /\ NameOf[workerCluster] = EmptyName
    /\ workerPc' = "retry"
    /\ UNCHANGED <<workerCluster, workerChild,
                   managerVars, mainVars, queueVars, childVars, envVars>>

\* watch, up to the unlock: the new record replaces whatever the map holds.
WatchRecord ==
    /\ workerPc = "watch" /\ NameOf[workerCluster] # EmptyName
    /\ workerPc' = "config"
    /\ \E k \in Child :
        /\ phase[k] = "unused" /\ \A j \in Child : j < k => phase[j] # "unused"
        /\ workerChild' = k
        /\ cluster' = [cluster EXCEPT ![k] = workerCluster]
        /\ phase' = [phase EXCEPT ![k] = "preparing"]
        /\ SetStatus(k, "starting")
        /\ watchers' = [watchers EXCEPT ![NameOf[workerCluster]] = k]
    /\ UNCHANGED <<workerCluster, cancelled,
                   managerVars, mainVars, queueVars, envVars>>

WatchSpawn ==
    /\ workerPc = "config"
    /\ workerPc' = "get"
    /\ phase' = [phase EXCEPT ![workerChild] = "spawned"]
    /\ workerCluster' = NoCluster
    /\ workerChild' = NoChild
    /\ UNCHANGED <<watchers, cluster, status, cancelled,
                   managerVars, mainVars, queueVars, envVars>>

\* No config, a nil config, no impersonation or no watcher: the deferred
\* function marks the record under the lock, then cancels its context.
WatchFail ==
    /\ workerPc = "config"
    /\ Failure
    /\ workerPc' = "cancel"
    /\ phase' = [phase EXCEPT ![workerChild] = "exited"]
    /\ SetStatus(workerChild, "failed")
    /\ UNCHANGED <<workerCluster, workerChild, watchers, cluster, cancelled,
                   stored, managerVars, mainVars, queueVars>>

WatchCancel ==
    /\ workerPc = "cancel"
    /\ workerPc' = "retry"
    /\ CancelRecord(workerChild)
    /\ workerChild' = NoChild
    /\ UNCHANGED <<workerCluster, watchers, cluster, phase, status,
                   managerVars, mainVars, queueVars, envVars>>

WorkerRetry ==
    /\ workerPc = "retry"
    /\ workerPc' = "get"
    /\ Retry(workerCluster)
    /\ workerCluster' = NoCluster
    /\ UNCHANGED <<workerChild, managerVars, mainVars, childVars, envVars>>

-----------------------------------------------------------------------------
(* The goroutine of watcher k, and the Starter it runs.                    *)

MarkStarted(k) ==
    /\ phase[k] = "spawned"
    /\ phase' = [phase EXCEPT ![k] = "running"]
    /\ SetStatus(k, "started")
    /\ UNCHANGED <<watchers, cluster, cancelled,
                   managerVars, mainVars, queueVars, workerVars, envVars>>

\* The watcher's reconcilers store objects of the cluster for as long as
\* Start has not returned, the time after the cancellation included.
StoreObjects(k) ==
    /\ phase[k] = "running"
    /\ stored' = stored \cup {NameOf[cluster[k]]}
    /\ UNCHANGED <<failures, managerVars, mainVars, queueVars, workerVars,
                   childVars>>

StarterFails(k) ==
    /\ phase[k] = "running"
    /\ Failure
    /\ phase' = [phase EXCEPT ![k] = "requeue"]
    /\ SetStatus(k, "error")
    /\ UNCHANGED <<watchers, cluster, cancelled, stored,
                   managerVars, mainVars, queueVars, workerVars>>

Requeue(k) ==
    /\ phase[k] = "requeue"
    /\ phase' = [phase EXCEPT ![k] = "exited"]
    /\ Retry(cluster[k])
    /\ UNCHANGED <<watchers, cluster, status, cancelled,
                   managerVars, mainVars, workerVars, envVars>>

\* A manager returns without an error only when its context is cancelled.
\* The map entry is cleared whatever record it holds by now.
StarterStops(k) ==
    /\ phase[k] = "running" /\ cancelled[k]
    /\ phase' = [phase EXCEPT ![k] = "exited"]
    /\ SetStatus(k, "stopped")
    /\ RemoveRecord(NameOf[cluster[k]])
    /\ UNCHANGED <<cluster, cancelled,
                   managerVars, mainVars, queueVars, workerVars, envVars>>

-----------------------------------------------------------------------------
MainStep ==
    \/ Subscribe \/ GetClusters \/ AddCluster \/ StartWorker \/ ReceiveUpdate
    \/ ForgetRemoved \/ Unwatch \/ UnwatchCancel \/ StopHook

WorkerStep ==
    \/ WorkerGet \/ WorkerExit \/ WorkerDone \/ WatchEmptyName
    \/ WatchRecord \/ WatchSpawn \/ WatchFail \/ WatchCancel \/ WorkerRetry

\* The steps a watcher's goroutine takes without waiting for its Starter.
GoroutineStep(k) == MarkStarted(k) \/ Requeue(k) \/ StarterStops(k)

ChildStep(k) == GoroutineStep(k) \/ StoreObjects(k) \/ StarterFails(k)

Next ==
    \/ Poll \/ MainStep \/ Stop \/ WorkerStep
    \/ \E c \in Cluster : DelayPassed(c)
    \/ \E k \in Child : ChildStep(k)

Spec == Init /\ [][Next]_vars

\* Every goroutine keeps running, delays pass, a Starter returns once its
\* context is cancelled, and its reconcilers list the objects that there are.
\* Nothing obliges the clusters manager to change its
\* list, a watcher to fail or the collector to be stopped.
Fairness ==
    /\ WF_vars(MainStep)
    /\ WF_vars(WorkerStep)
    /\ \A c \in Cluster : WF_vars(DelayPassed(c))
    /\ \A k \in Child : WF_vars(GoroutineStep(k)) /\ WF_vars(StoreObjects(k))

FairSpec == Spec /\ Fairness

-----------------------------------------------------------------------------
(* Properties.                                                             *)

\* The watcher of k is running or about to, and nobody has cancelled it.
Live(k) == phase[k] \in {"preparing", "spawned", "running"} /\ ~cancelled[k]

\* The worker holds c and is about to watch it, or to put it back.
InHand(c) == workerCluster = c /\ workerPc \in {"done", "watch", "retry", "cancel"}

\* Some step of the collector that will (re)start a watcher for n is pending.
Pending(n) ==
    \E c \in Cluster :
        /\ NameOf[c] = n
        /\ \/ Queued(c)
           \/ c \in delayed
           \/ InHand(c)
           \/ \E k \in Child : cluster[k] = c /\ phase[k] = "requeue"

Kept(n) ==
    Pending(n) \/ \E k \in Child : Live(k) /\ NameOf[cluster[k]] = n

\* No cluster is forgotten: from the moment Start is told of a cluster until
\* it is told of its removal, there is a live watcher for it, or the cluster
\* is queued, delayed or in the worker's hands, however watches and watchers
\* fail and whatever the spurious queue.Done calls of Start do to the queue.
\* This is what the comment of Start means by "assuming the operation will
\* be retried due to some later event".
NeverForgotten == ~shuttingDown => \A n \in seen : Kept(n)

\* Status never reports on a record whose context has been cancelled, unless
\* the watch that made it failed: unwatch takes a record out of the map
\* before it cancels it, and nothing puts it back.
CancelledRecordHasFailed ==
    \A n \in Name :
        watchers[n] # NoChild /\ cancelled[watchers[n]]
            => status[watchers[n]] = "failed"

\* A watcher is only ever cancelled because its cluster has been removed, and
\* not been reported again since, or because the watch that was to start it has
\* failed (unwatch, and the deferred function of watch).
CancelsOnlyRemoved ==
    [][\A k \in Child : cancelled'[k] /\ ~cancelled[k] =>
        \/ NameOf[cluster[k]] \notin seen
        \/ status[k] = "failed" /\ phase[k] = "exited"]_vars

\* The watcher of k has lost its place in the map, to a second watch of its
\* cluster or to the end of the watcher that had the place before.
Stray(k) ==
    /\ phase[k] \in {"spawned", "running"} /\ ~cancelled[k]
    /\ \A n \in Name : watchers[n] # k
    /\ mainPc = "cancel" => victim # k

\* Nothing gets hold of such a watcher any more: neither an update, nor Stop,
\* nor another watch cancels it or puts it back in the map, so that it runs
\* until its Starter fails.
StraysStay ==
    [][\A k \in Child : Stray(k) => Stray(k)' \/ phase'[k] = "requeue"]_vars

\* A cluster that stays in the list is watched in the end, and from then on:
\* every failure on the way is retried; and it has its records, which no late
\* stop hook of an earlier watch deletes.
EventuallyWatched ==
    \A n \in Name \ {EmptyName} :
        <>[](n \in known /\ mainPc # "stopped")
            => <>[](n \in stored /\ \E k \in Child :
                        /\ cluster[k] # NoCluster
                        /\ NameOf[cluster[k]] = n
                        /\ phase[k] = "running" /\ ~cancelled[k])

\* Once the collector is stopped its worker goroutine finishes: it drains the
\* queue, which nothing fills any more.
WorkerFinishes == (mainPc = "stopped") ~> (workerPc = "exited")

-----------------------------------------------------------------------------
(* The inductive invariant behind NeverForgotten and                       *)
(* CancelledRecordHasFailed.                                               *)

\* A dirty item is queued, or Done will queue it; only the worker processes.
QueueInv ==
    /\ \A c \in dirty : Queued(c) \/ c \in processing
    /\ \A c \in processing : workerPc = "done" /\ c = workerCluster

\* The cluster Start is unwatching is one it has not been told of again, and
\* the record it cancels is one of that cluster and in nobody's reach.
MainInv ==
    /\ mainPc \in {"new", "subscribed", "initial"} => workerPc = "off"
    /\ mainPc \in {"unwatch", "cancel", "hook"} =>
          current \in Cluster /\ NameOf[current] \notin seen
    /\ mainPc \in {"cancel", "hook"} =>
          /\ victim \in Child
          /\ phase[victim] # "unused"
          /\ NameOf[cluster[victim]] = NameOf[current]
          /\ \A n \in Name : watchers[n] # victim

\* The record the worker prepares is its own until watch returns.
WorkerInv ==
    /\ workerPc \in {"done", "watch", "config", "cancel", "retry"} =>
          workerCluster \in Cluster
    /\ workerPc \in {"config", "cancel"} =>
          workerChild \in Child /\ cluster[workerChild] = workerCluster
    /\ workerPc = "config" => phase[workerChild] = "preparing"
    /\ workerPc = "cancel" =>
          phase[workerChild] = "exited" /\ status[workerChild] = "failed"

ChildInv ==
    /\ \A k \in Child :
          /\ phase[k] # "unused" => cluster[k] \in Cluster
          /\ cancelled[k] => phase[k] # "unused"
          /\ status[k] = "failed" => phase[k] = "exited"
          /\ phase[k] = "preparing" => workerPc = "config" /\ workerChild = k
    /\ \A n \in Name : watchers[n] # NoChild =>
          phase[watchers[n]] # "unused" /\ NameOf[cluster[watchers[n]]] = n

IInv ==
    /\ TypeOK
    /\ QueueInv
    /\ MainInv
    /\ WorkerInv
    /\ ChildInv
    /\ NeverForgotten
    /\ CancelledRecordHasFailed

-----------------------------------------------------------------------------
(* What comments and tests say of the collector, and the code does not do. *)

\* watching.go:114, "supervises watchers, starting one per cluster it sees":
\* a cluster has at most one live watcher.
OneWatcherPerCluster ==
    \A j, k \in Child :
        /\ Live(j) /\ Live(k)
        /\ NameOf[cluster[j]] = NameOf[cluster[k]]
        => j = k
=============================================================================
