-------------------------------- MODULE Helm --------------------------------
(***************************************************************************)
(* The index of Helm charts, pkg/helm:                                     *)
(*                                                                         *)
(*   - the tracker, one goroutine that receives the updates of the list of *)
(*     clusters, makes a watcher for a new cluster, and stops the watcher  *)
(*     and drops the charts of one that has gone;                          *)
(*   - the watchers, each a goroutine that starts a controller manager,    *)
(*     whose one worker reconciles the HelmRepositories of the cluster     *)
(*     with the rows of the chart cache;                                   *)
(*   - the chart cache, a table without a unique key.                      *)
(*                                                                         *)
(* The rows of two repositories never mix and a manager has one worker, so *)
(* each cluster is given one repository.  The cache file lies in the       *)
(* container: a process that crashes starts again with no rows.            *)
(***************************************************************************)
EXTENDS Naturals, Sequences, FiniteSets

CONSTANTS
    Cluster, NoCluster,
    Chart,        \* the charts, one version each, that a repository may have
    NoChart,
    Unparsable,   \* charts of which the version cannot be parsed
    Faults,       \* the kinds of calls that may fail
    MaxWatchers,  \* bound on the watchers made in one run of the process
    MaxPolls,     \* bound on the number of cluster list changes
    MaxEdits,     \* bound on the number of changes to repositories
    MaxFailures,  \* bound on the number of failing calls
    MaxCrashes    \* bound on the number of crashes

Kinds == {"config", "start", "index", "purge", "chart", "drop"}

ASSUME HelmAssumption ==
    /\ NoCluster \notin Cluster /\ NoChart \notin Chart
    /\ Unparsable \subseteq Chart
    /\ Faults \subseteq Kinds
    /\ MaxWatchers \in Nat \ {0}
    /\ MaxPolls \in Nat /\ MaxEdits \in Nat
    /\ MaxFailures \in Nat /\ MaxCrashes \in Nat

Watcher == 1 .. MaxWatchers
NoWatcher == 0

VARIABLES
    \* the clusters manager and its updates, not yet received
    listed, polls, updates,
    \* the tracker
    pc,            \* where Start is
    adding,        \* clusters that addClusters has still to see
    removing,      \* clusters of updates.Removed still to be seen
    current,       \* the cluster whose charts are to be dropped
    watcherOf,     \* ClusterWatchers
    \* the watchers
    clusterOf,     \* the cluster a watcher was made for
    phase,         \* where StartWatcher is
    cancelled,     \* stopFn has been called
    queued,        \* the repository is in the manager's work queue
    \* the worker of each watcher
    step,          \* where Reconcile is
    filter,        \* the charts that the repository, when read, allowed
    todo,          \* the charts of the index not yet seen
    chart,         \* the chart of the statement being run
    skipped,       \* charts of the index whose statement failed
    \* the repositories: state, charts allowed, charts published
    repo, allowed, index, edits,
    \* the chart cache: how many rows a chart has
    rows,
    \* observations: failing calls; crashes; the clusters whose rows were
    \* changed by a watcher after it was stopped; the clusters that
    \* addClusters has left out because it returned early
    failures, crashes, late, unseen

managerVars == <<listed, polls, updates>>
trackerVars == <<pc, adding, removing, current>>
watcherVars == <<clusterOf, phase, cancelled>>
workerVars  == <<step, filter, todo, chart, skipped>>
repoVars    == <<repo, allowed, index, edits>>
vars == <<managerVars, trackerVars, watcherOf, watcherVars, queued, workerVars,
          repoVars, rows, failures, crashes, late, unseen>>

NoRows == [h \in Chart |-> 0]

TypeOK ==
    /\ listed \in SUBSET Cluster /\ polls \in 0 .. MaxPolls
    /\ updates \in Seq([added : SUBSET Cluster, removed : SUBSET Cluster])
    /\ pc \in {"new", "subscribed", "initial", "loop", "add", "remove", "drop"}
    /\ adding \in SUBSET Cluster /\ removing \in SUBSET Cluster
    /\ current \in Cluster \cup {NoCluster}
    /\ watcherOf \in [Cluster -> Watcher \cup {NoWatcher}]
    /\ clusterOf \in [Watcher -> Cluster \cup {NoCluster}]
    /\ phase \in [Watcher -> {"unused", "created", "started", "running", "ended"}]
    /\ cancelled \in [Watcher -> BOOLEAN] /\ queued \in [Watcher -> BOOLEAN]
    /\ step \in [Watcher -> {"idle", "index", "load", "insert", "remove", "purge"}]
    /\ filter \in [Watcher -> SUBSET Chart] /\ todo \in [Watcher -> SUBSET Chart]
    /\ chart \in [Watcher -> Chart \cup {NoChart}]
    /\ skipped \in [Watcher -> SUBSET Chart]
    /\ repo \in [Cluster -> {"absent", "fresh", "ready", "deleting"}]
    /\ allowed \in [Cluster -> SUBSET Chart] /\ index \in [Cluster -> SUBSET Chart]
    /\ rows \in [Cluster -> [Chart -> 0 .. MaxWatchers]]
    /\ edits \in 0 .. MaxEdits /\ failures \in 0 .. MaxFailures
    /\ crashes \in 0 .. MaxCrashes
    /\ late \in SUBSET Cluster /\ unseen \in SUBSET Cluster

\* The program as it starts: no watchers, no rows.
Fresh ==
    /\ updates = <<>> /\ pc = "new"
    /\ adding = {} /\ removing = {} /\ current = NoCluster
    /\ watcherOf = [c \in Cluster |-> NoWatcher]
    /\ clusterOf = [w \in Watcher |-> NoCluster]
    /\ phase = [w \in Watcher |-> "unused"]
    /\ cancelled = [w \in Watcher |-> FALSE]
    /\ queued = [w \in Watcher |-> FALSE]
    /\ step = [w \in Watcher |-> "idle"]
    /\ filter = [w \in Watcher |-> {}] /\ todo = [w \in Watcher |-> {}]
    /\ chart = [w \in Watcher |-> NoChart]
    /\ skipped = [w \in Watcher |-> {}]
    /\ rows = [c \in Cluster |-> NoRows]
    /\ late = {} /\ unseen = {}

Init ==
    /\ Fresh
    /\ listed \in SUBSET Cluster
    /\ repo \in [Cluster -> {"absent", "fresh", "ready"}]
    /\ allowed = [c \in Cluster |-> Chart]
    /\ index \in [Cluster -> SUBSET Chart]
    /\ \A c \in Cluster : repo[c] # "ready" => index[c] = {}
    /\ polls = 0 /\ edits = 0 /\ failures = 0 /\ crashes = 0

Fail(kind) ==
    /\ kind \in Faults /\ failures < MaxFailures
    /\ failures' = failures + 1

-----------------------------------------------------------------------------
(* The surroundings: the clusters manager, the repositories, the process.  *)

Poll ==
    /\ polls < MaxPolls
    /\ polls' = polls + 1
    /\ \E now \in SUBSET Cluster \ {listed} :
        /\ listed' = now
        /\ updates' = IF pc = "new" THEN updates
                      ELSE Append(updates, [added |-> now \ listed,
                                            removed |-> listed \ now])
    /\ UNCHANGED <<trackerVars, watcherOf, watcherVars, queued, workerVars,
                   repoVars, rows, failures, crashes, late, unseen>>

\* The event filter lets every change of a repository through that is
\* modelled here: creation, a new artifact, another filter annotation, the
\* deletion timestamp, and the deletion.
Passed(c) ==
    queued' = [w \in Watcher |->
                 queued[w] \/ (clusterOf[w] = c /\ phase[w] = "running")]

\* Mutant: a change of the filter annotation does not pass.
Ignored(c) == UNCHANGED queued

ArtifactUpdate(c) == Passed(c)

FilterUpdate(c) == Passed(c)

DeletionUpdate(c) == Passed(c)

\* Repository c goes to state s, allows the charts a and publishes x.
Edit(c, s, a, x) ==
    /\ edits < MaxEdits /\ edits' = edits + 1
    /\ repo' = [repo EXCEPT ![c] = s]
    /\ allowed' = [allowed EXCEPT ![c] = a]
    /\ index' = [index EXCEPT ![c] = x]
    /\ UNCHANGED <<managerVars, trackerVars, watcherOf, watcherVars, workerVars,
                   rows, failures, crashes, late, unseen>>

EditRepository(c) ==
    \/ /\ repo[c] = "absent"
       /\ \E a \in SUBSET Chart : Edit(c, "fresh", a, {})
       /\ Passed(c)
    \/ /\ repo[c] \in {"fresh", "ready"}
       /\ \E x \in SUBSET Chart : Edit(c, "ready", allowed[c], x)
       /\ ArtifactUpdate(c)
    \/ /\ repo[c] \in {"fresh", "ready"}
       /\ \E a \in SUBSET Chart \ {allowed[c]} : Edit(c, repo[c], a, index[c])
       /\ FilterUpdate(c)
    \/ /\ repo[c] \in {"fresh", "ready"}
       /\ Edit(c, "deleting", allowed[c], index[c])
       /\ DeletionUpdate(c)

\* Flux removes its finalizer.
Finalize(c) ==
    /\ repo[c] = "deleting"
    /\ Passed(c)
    /\ repo' = [repo EXCEPT ![c] = "absent"]
    /\ index' = [index EXCEPT ![c] = {}]
    /\ UNCHANGED <<allowed, edits, managerVars, trackerVars, watcherOf,
                   watcherVars, workerVars, rows, failures, crashes, late, unseen>>

\* The process dies, or exits because Start returned an error, and the
\* container starts again.
Reset ==
    /\ crashes < MaxCrashes /\ crashes' = crashes + 1
    /\ updates' = <<>> /\ pc' = "new"
    /\ adding' = {} /\ removing' = {} /\ current' = NoCluster
    /\ watcherOf' = [c \in Cluster |-> NoWatcher]
    /\ clusterOf' = [w \in Watcher |-> NoCluster]
    /\ phase' = [w \in Watcher |-> "unused"]
    /\ cancelled' = [w \in Watcher |-> FALSE]
    /\ queued' = [w \in Watcher |-> FALSE]
    /\ step' = [w \in Watcher |-> "idle"]
    /\ filter' = [w \in Watcher |-> {}] /\ todo' = [w \in Watcher |-> {}]
    /\ chart' = [w \in Watcher |-> NoChart]
    /\ skipped' = [w \in Watcher |-> {}]
    /\ rows' = [c \in Cluster |-> NoRows]
    /\ late' = {} /\ unseen' = {}
    /\ UNCHANGED <<listed, polls, repoVars>>

Crash == pc # "new" /\ Reset /\ UNCHANGED failures

-----------------------------------------------------------------------------
(* The tracker.                                                            *)

Subscribe ==
    /\ pc = "new"
    /\ pc' = "subscribed"
    /\ UNCHANGED <<adding, removing, current, managerVars, watcherOf, watcherVars,
                   queued, workerVars, repoVars, rows, failures, crashes, late, unseen>>

GetClusters ==
    /\ pc = "subscribed"
    /\ pc' = "initial"
    /\ adding' = listed
    /\ UNCHANGED <<removing, current, managerVars, watcherOf, watcherVars,
                   queued, workerVars, repoVars, rows, failures, crashes, late, unseen>>

\* One cluster of addClusters.
AddCluster(c) ==
    /\ pc \in {"initial", "add"}
    /\ c \in adding
    /\ adding' = adding \ {c} /\ unseen' = unseen \ {c}
    /\ IF watcherOf[c] # NoWatcher
       THEN UNCHANGED <<watcherOf, clusterOf, phase>>
       ELSE \E w \in Watcher :
              /\ phase[w] = "unused"
              /\ \A v \in 1 .. w - 1 : phase[v] # "unused"
              /\ watcherOf' = [watcherOf EXCEPT ![c] = w]
              /\ clusterOf' = [clusterOf EXCEPT ![w] = c]
              /\ phase' = [phase EXCEPT ![w] = "created"]
    /\ UNCHANGED <<pc, removing, current, cancelled, managerVars, queued,
                   workerVars, repoVars, rows, failures, crashes, late>>

\* One cluster cannot be configured: addClusters returns and the clusters
\* that are left are not seen.  The first time, the process exits.
AddFails(c) ==
    /\ pc \in {"initial", "add"}
    /\ c \in adding /\ watcherOf[c] = NoWatcher
    /\ Fail("config")
    /\ IF pc = "initial" THEN Reset
       ELSE /\ adding' = {} /\ pc' = "remove"
            /\ unseen' = unseen \cup adding
            /\ UNCHANGED <<removing, current, managerVars, watcherOf, watcherVars,
                           queued, workerVars, repoVars, rows, crashes, late>>

Added ==
    /\ pc \in {"initial", "add"} /\ adding = {}
    /\ pc' = IF pc = "initial" THEN "loop" ELSE "remove"
    /\ UNCHANGED <<adding, removing, current, managerVars, watcherOf, watcherVars,
                   queued, workerVars, repoVars, rows, failures, crashes, late, unseen>>

Receive ==
    /\ pc = "loop" /\ updates # <<>>
    /\ pc' = "add"
    /\ adding' = Head(updates).added
    /\ removing' = Head(updates).removed
    /\ updates' = Tail(updates)
    /\ UNCHANGED <<current, listed, polls, watcherOf, watcherVars, queued,
                   workerVars, repoVars, rows, failures, crashes, late, unseen>>

\* Stop, which does nothing as long as StartWatcher has not set stopFn, and
\* the deletion from the map.
StopWatcher(c) ==
    /\ pc = "remove" /\ c \in removing
    /\ removing' = removing \ {c}
    /\ IF watcherOf[c] = NoWatcher
       THEN UNCHANGED <<pc, current, watcherOf, cancelled>>
       ELSE /\ cancelled' = [cancelled EXCEPT
                               ![watcherOf[c]] = phase[watcherOf[c]] # "created"]
            /\ watcherOf' = [watcherOf EXCEPT ![c] = NoWatcher]
            /\ current' = c /\ pc' = "drop"
    /\ UNCHANGED <<adding, managerVars, clusterOf, phase, queued, workerVars,
                   repoVars, rows, failures, crashes, late, unseen>>

\* Mutant: the charts stay.
DropNothing(c) == UNCHANGED rows

DropRows(c) == rows' = [rows EXCEPT ![c] = NoRows]

\* DeleteAllChartsForCluster, of which an error is logged.
DropCharts ==
    /\ pc = "drop"
    /\ pc' = "remove" /\ current' = NoCluster
    /\ \/ DropRows(current) /\ UNCHANGED failures
       \/ Fail("drop") /\ UNCHANGED rows
    /\ UNCHANGED <<adding, removing, managerVars, watcherOf, watcherVars, queued,
                   workerVars, repoVars, crashes, late, unseen>>

Removed ==
    /\ pc = "remove" /\ removing = {}
    /\ pc' = "loop"
    /\ UNCHANGED <<adding, removing, current, managerVars, watcherOf, watcherVars,
                   queued, workerVars, repoVars, rows, failures, crashes, late, unseen>>

Tracker ==
    \/ Subscribe \/ GetClusters \/ Added \/ Receive \/ DropCharts \/ Removed
    \/ \E c \in Cluster : AddCluster(c) \/ AddFails(c) \/ StopWatcher(c)

-----------------------------------------------------------------------------
(* StartWatcher.                                                           *)

Lifecycle(w, p) ==
    /\ phase' = [phase EXCEPT ![w] = p]
    /\ UNCHANGED <<managerVars, trackerVars, watcherOf, clusterOf, cancelled,
                   workerVars, repoVars, rows, crashes, late, unseen>>

SetStop(w) ==
    /\ phase[w] = "created"
    /\ Lifecycle(w, "started") /\ UNCHANGED <<queued, failures>>

\* The manager lists what is there, and every object found is queued.
RunManager(w) ==
    /\ phase[w] = "started" /\ ~cancelled[w]
    /\ Lifecycle(w, "running") /\ UNCHANGED failures
    /\ queued' = [queued EXCEPT ![w] = repo[clusterOf[w]] # "absent"]

StartFails(w) ==
    /\ phase[w] = "started"
    /\ IF cancelled[w] THEN UNCHANGED failures ELSE Fail("start")
    /\ Lifecycle(w, "ended") /\ UNCHANGED queued

\* The manager waits for its worker.
EndManager(w) ==
    /\ phase[w] = "running" /\ cancelled[w] /\ step[w] = "idle"
    /\ Lifecycle(w, "ended") /\ UNCHANGED failures
    /\ queued' = [queued EXCEPT ![w] = FALSE]

Manager(w) == SetStop(w) \/ RunManager(w) \/ StartFails(w) \/ EndManager(w)

-----------------------------------------------------------------------------
(* Reconcile, LoadIndex and the statements of the chart cache.  What was   *)
(* begun before the context was cancelled takes effect or fails; what is   *)
(* begun afterwards fails.                                                 *)

WorkerFrame == UNCHANGED <<managerVars, trackerVars, watcherOf, watcherVars,
                           repoVars, crashes, unseen>>

Goto(w, s) == step' = [step EXCEPT ![w] = s]

Wrote(w) == late' = IF cancelled[w] THEN late \cup {clusterOf[w]} ELSE late

\* The next repository of the queue is read, as the informer knows it.
ReadRepository(w) ==
    LET c == clusterOf[w] IN
    /\ phase[w] = "running" /\ ~cancelled[w] /\ step[w] = "idle" /\ queued[w]
    /\ queued' = [queued EXCEPT ![w] = FALSE]
    /\ \/ repo[c] \in {"absent", "fresh"} /\ UNCHANGED <<step, filter>>
       \/ repo[c] = "deleting" /\ Goto(w, "purge") /\ UNCHANGED filter
       \/ /\ repo[c] = "ready" /\ Goto(w, "index")
          /\ filter' = [filter EXCEPT ![w] = allowed[c]]
    /\ UNCHANGED <<todo, chart, skipped, rows, failures, late>> /\ WorkerFrame

\* Reconcile returns: with an error, the repository is queued again.
Return(w, again) ==
    /\ Goto(w, "idle")
    /\ queued' = [queued EXCEPT ![w] = @ \/ again]
    /\ filter' = [filter EXCEPT ![w] = {}]

\* Mutant: the error of GetIndexFile is not returned.
GiveUp(w) == Return(w, FALSE)

RetryLater(w) == Return(w, ~cancelled[w])

\* GetIndexFile reads the repository again, and the index that it now has.
GetIndexFile(w) ==
    LET c == clusterOf[w] IN
    /\ step[w] = "index"
    /\ \/ /\ repo[c] \in {"ready", "deleting"}
          /\ todo' = [todo EXCEPT ![w] = index[c]]
          /\ skipped' = [skipped EXCEPT ![w] = {}]
          /\ Goto(w, "load")
          /\ UNCHANGED <<queued, filter, failures>>
       \/ /\ IF cancelled[w] \/ repo[c] \in {"absent", "fresh"}
             THEN UNCHANGED failures ELSE Fail("index")
          /\ RetryLater(w)
          /\ UNCHANGED <<todo, skipped>>
    /\ UNCHANGED <<chart, rows, late>> /\ WorkerFrame

\* parseChartFilter: no annotation, and one that cannot be parsed, allow all.
Constrained(w) == filter[w] # Chart

\* Mutant: charts that the filter refuses are passed over.
PassOver(w, h) == UNCHANGED <<step, chart>>

RemoveChart(w, h) == Goto(w, "remove") /\ chart' = [chart EXCEPT ![w] = h]

\* Mutant: the chart is inserted without a look at what is there.
InsertAlways(w, h) == Goto(w, "insert") /\ chart' = [chart EXCEPT ![w] = h]

\* IsKnownChart of AddChart.
AddChart(w, h) ==
    IF rows[clusterOf[w]][h] > 0
    THEN UNCHANGED <<step, chart>>
    ELSE Goto(w, "insert") /\ chart' = [chart EXCEPT ![w] = h]

\* The next chart of the index: a statement is begun, or it fails.
LoadChart(w, h) ==
    /\ step[w] = "load" /\ h \in todo[w] /\ ~cancelled[w]
    /\ todo' = [todo EXCEPT ![w] = @ \ {h}]
    /\ \/ /\ Constrained(w) /\ h \in Unparsable
          /\ UNCHANGED <<step, chart, skipped, failures>>
       \/ /\ Constrained(w) /\ h \notin Unparsable \cup filter[w]
          /\ RemoveChart(w, h)
          /\ UNCHANGED <<skipped, failures>>
       \/ /\ ~Constrained(w) \/ h \in filter[w] \ Unparsable
          /\ AddChart(w, h)
          /\ UNCHANGED <<skipped, failures>>
       \/ /\ ~(Constrained(w) /\ h \in Unparsable)
          /\ Fail("chart")
          /\ skipped' = [skipped EXCEPT ![w] = @ \cup {h}]
          /\ UNCHANGED <<step, chart>>
    /\ UNCHANGED <<queued, filter, rows, late>> /\ WorkerFrame

\* The statement that was begun takes effect, or its context is cancelled.
RunStatement(w) ==
    LET c == clusterOf[w] IN
    /\ step[w] \in {"insert", "remove"}
    /\ \/ /\ rows' = [rows EXCEPT ![c][chart[w]] =
                        IF step[w] = "insert" THEN @ + 1 ELSE 0]
          /\ Wrote(w)
       \/ cancelled[w] /\ UNCHANGED <<rows, late>>
    /\ Goto(w, "load")
    /\ chart' = [chart EXCEPT ![w] = NoChart]
    /\ UNCHANGED <<queued, filter, todo, skipped, failures>> /\ WorkerFrame

\* The charts are all seen, or every further statement fails at once.
Loaded(w) ==
    /\ step[w] = "load"
    /\ todo[w] = {} \/ cancelled[w]
    /\ todo' = [todo EXCEPT ![w] = {}]
    /\ Return(w, FALSE)
    /\ UNCHANGED <<chart, skipped, rows, failures, late>> /\ WorkerFrame

\* Mutant: the error of Cache.Delete is not returned.
PurgeGivenUp(w) == Return(w, FALSE)

PurgeRetried(w) == Return(w, ~cancelled[w])

\* reconcileDelete.
Purge(w) ==
    LET c == clusterOf[w] IN
    /\ step[w] = "purge"
    /\ \/ /\ rows' = [rows EXCEPT ![c] = NoRows]
          /\ Wrote(w)
          /\ Return(w, FALSE) /\ UNCHANGED failures
       \/ /\ IF cancelled[w] THEN UNCHANGED failures ELSE Fail("purge")
          /\ PurgeRetried(w)
          /\ UNCHANGED <<rows, late>>
    /\ UNCHANGED <<todo, chart, skipped>> /\ WorkerFrame

Worker(w) ==
    \/ ReadRepository(w) \/ GetIndexFile(w) \/ RunStatement(w) \/ Loaded(w)
    \/ Purge(w) \/ \E h \in Chart : LoadChart(w, h)

-----------------------------------------------------------------------------

Next ==
    \/ Poll \/ Crash \/ Tracker
    \/ \E c \in Cluster : EditRepository(c) \/ Finalize(c)
    \/ \E w \in Watcher : Manager(w) \/ Worker(w)

Spec == Init /\ [][Next]_vars

\* Every goroutine is scheduled, and Flux finalizes what is deleted.
FairSpec ==
    /\ Spec
    /\ WF_vars(Tracker)
    /\ \A w \in Watcher : WF_vars(Manager(w)) /\ WF_vars(Worker(w))
    /\ \A c \in Cluster : WF_vars(Finalize(c))

-----------------------------------------------------------------------------
(* Properties.                                                             *)

\* The tracker has nothing to do.
Quiet == pc = "loop" /\ updates = <<>>

\* The watchers that work on cluster c: the one in the map, and those whose
\* Stop came before their goroutine had set stopFn.
Working(c) ==
    {w \in Watcher : clusterOf[w] = c /\ phase[w] = "running" /\ ~cancelled[w]}

Strays(c) == Working(c) \ {watcherOf[c]}

\* The watcher of cluster c has started, and no worker has anything to do.
Settled(c) ==
    /\ Quiet /\ watcherOf[c] \in Working(c)
    /\ \A w \in Working(c) : step[w] = "idle" /\ ~queued[w]

Failed(c, h) == \E w \in Working(c) : h \in skipped[w]

\* Edits that race with a reconciliation, with failing fetches, with the
\* watcher being stopped and made again, are not lost: once the workers are
\* idle and the repository is ready, the charts of its index are in the cache
\* as the filter says, except those whose own statement failed (nothing
\* repairs them before the next event) and unless a statement that was under
\* way when its watcher was stopped took effect (Reconcile, Stop, and the
\* event filter).
CacheFollows ==
    \A c \in Cluster \ late, h \in Chart :
        Settled(c) /\ repo[c] = "ready" /\ h \in index[c] /\ ~Failed(c, h) =>
            IF allowed[c] = Chart THEN rows[c][h] > 0
            ELSE h \notin Unparsable => (rows[c][h] > 0 <=> h \in allowed[c])

\* A repository that is being deleted, and is still there when the worker
\* comes to it, leaves no rows, whatever the worker was doing when the
\* deletion began (reconcileDelete, retried when it fails).
PurgeFollows ==
    \A c \in Cluster \ late : Settled(c) /\ repo[c] = "deleting" =>
        rows[c] = NoRows

\* A chart has two rows only if two watchers of its cluster were at work:
\* AddChart looks and inserts in two statements, and one worker never does
\* so twice at a time.
NoDuplicates ==
    \A c \in Cluster \ late, h \in Chart : Strays(c) = {} => rows[c][h] <= 1

\* When the cluster has gone its charts go with it, unless the one call that
\* deletes them failed or a stopped watcher wrote after it (the removals of
\* Start).
GoneWithCluster ==
    failures = 0 =>
        \A c \in Cluster \ late :
            watcherOf[c] = NoWatcher /\ current # c /\ Strays(c) = {} =>
                rows[c] = NoRows

\* Failures that nothing retries: addClusters has left the cluster out, its
\* StartWatcher has returned, or the statement of the chart failed.
Unlucky(c, h) ==
    LET w == watcherOf[c] IN
    c \in unseen \/ Failed(c, h) \/ (w # NoWatcher /\ phase[w] = "ended")

\* A cluster that stays listed with a repository that stays as it is gets
\* the charts of it into the cache for good, through crashes and every other
\* failure, and in spite of stopped watchers that go on (Start, Reconcile).
EventuallyCached ==
    \A c \in Cluster, h \in Chart :
        <>[](/\ c \in listed /\ repo[c] = "ready" /\ h \in index[c]
             /\ h \in allowed[c] /\ (h \in Unparsable => allowed[c] = Chart)
             /\ ~Unlucky(c, h) /\ c \notin late)
            => <>[](rows[c][h] > 0)
=============================================================================
