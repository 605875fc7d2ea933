--------------------------- MODULE HelmFollowsProofs ---------------------------
(***************************************************************************)
(* Proofs about Helm, for any clusters, charts and number of watchers: the *)
(* chart cache follows its repository, whatever edits, failing calls,      *)
(* stopped watchers and crashes race with a load.                          *)
(***************************************************************************)
EXTENDS HelmProofs, FiniteSetTheorems

DataInv ==
    /\ queued \in [Watcher -> BOOLEAN]
    /\ filter \in [Watcher -> SUBSET Chart]
    /\ todo \in [Watcher -> SUBSET Chart]
    /\ skipped \in [Watcher -> SUBSET Chart]
    /\ repo \in [Cluster -> {"absent", "fresh", "ready", "deleting"}]
    /\ allowed \in [Cluster -> SUBSET Chart]
    /\ index \in [Cluster -> SUBSET Chart]

\* The charts that are dropped are those of a cluster without a watcher.
DroppingInv == pc = "drop" => current \in Cluster /\ watcherOf[current] = NoWatcher

\* A statement does what the filter calls for.
StatementInv ==
    \A w \in Watcher :
        /\ step[w] = "insert" => ~Constrained(w) \/ chart[w] \in filter[w] \ Unparsable
        /\ step[w] = "remove" => Constrained(w) /\ chart[w] \notin Unparsable \cup filter[w]

\* A worker whose repository has changed since it read it will read it again.
FilterInv(c) ==
    /\ repo[c] = "ready" =>
          \A w \in Working(c) : ~queued[w] /\ step[w] # "idle" =>
              filter[w] = allowed[c] /\ step[w] # "purge"
    /\ repo[c] = "deleting" =>
          \A w \in Working(c) : step[w] \in {"index", "load", "insert", "remove"} => queued[w]

Follows(c, h) ==
    IF allowed[c] = Chart THEN rows[c][h] > 0
    ELSE h \notin Unparsable => (rows[c][h] > 0 <=> h \in allowed[c])

\* Worker w has still to come to chart h.
Ahead(w, h) ==
    \/ step[w] = "index"
    \/ step[w] \in {"load", "insert", "remove"} /\ h \in todo[w]
    \/ step[w] \in {"insert", "remove"} /\ h = chart[w]

\* Until a chart is as the repository says, a worker will come to it, unless
\* its statement has failed.
FollowInv(c) ==
    /\ repo[c] = "ready" /\ watcherOf[c] \in Working(c)
    /\ \A w \in Working(c) : ~queued[w]
    => \A h \in index[c] :
          Follows(c, h) \/ \E w \in Working(c) : h \in skipped[w] \/ Ahead(w, h)

\* Until the rows of a repository that is being deleted are gone, a worker
\* will purge them.
PurgeInv(c) ==
    repo[c] = "deleting" /\ watcherOf[c] \in Working(c) /\ rows[c] # NoRows =>
        \E w \in Working(c) : queued[w] \/ step[w] = "purge"

ClusterInv(c) == FilterInv(c) /\ (c \notin late => FollowInv(c) /\ PurgeInv(c))

FInv == DataInv /\ DroppingInv /\ StatementInv /\ \A c \in Cluster : ClusterInv(c)

LEMMA InitFollows == Init => FInv
<1> SUFFICES ASSUME Init PROVE FInv
  OBVIOUS
<1>1. DataInv /\ DroppingInv /\ StatementInv
  BY DEF Init, Fresh, DataInv, DroppingInv, StatementInv
<1>2. ASSUME NEW c \in Cluster PROVE ClusterInv(c)
  <2>1. Working(c) = {}
    BY DEF Init, Fresh, Working
  <2> QED BY <2>1 DEF ClusterInv, FilterInv, FollowInv, PurgeInv
<1> QED BY <1>1, <1>2 DEF FInv

LEMMA ResetFollows ==
    ASSUME FInv, Reset
    PROVE  FInv'
<1>1. DataInv' /\ DroppingInv' /\ StatementInv'
  BY DEF FInv, Reset, repoVars, DataInv, DroppingInv, StatementInv
<1>2. ASSUME NEW c \in Cluster PROVE ClusterInv(c)'
  <2>1. Working(c)' = {}
    BY DEF Reset, Working
  <2> QED BY <2>1 DEF ClusterInv, FilterInv, FollowInv, PurgeInv
<1> QED BY <1>1, <1>2 DEF FInv

-----------------------------------------------------------------------------
(* Steps that leave the workers of a cluster alone.                        *)

\* Nothing changes that a cluster depends on, but perhaps at a watcher that
\* does not work on it.
LEMMA Elsewhere ==
    ASSUME NEW c \in Cluster, NEW w, ClusterInv(c), w \notin Working(c),
           Working(c)' = Working(c),
           watcherOf'[c] = watcherOf[c] \/ watcherOf'[c] \notin Working(c),
           rows'[c] = rows[c] \/ c \in late',
           late \subseteq late',
           repo'[c] = repo[c], allowed'[c] = allowed[c], index'[c] = index[c],
           \A v \in Watcher \ {w} :
              /\ queued'[v] = queued[v] /\ step'[v] = step[v] /\ filter'[v] = filter[v]
              /\ todo'[v] = todo[v] /\ skipped'[v] = skipped[v] /\ chart'[v] = chart[v]
    PROVE  ClusterInv(c)'
<1>1. \A v \in Working(c) :
        /\ queued'[v] = queued[v] /\ step'[v] = step[v] /\ filter'[v] = filter[v]
        /\ todo'[v] = todo[v] /\ skipped'[v] = skipped[v] /\ chart'[v] = chart[v]
  BY DEF Working
<1>2. FilterInv(c)'
  BY <1>1 DEF ClusterInv, FilterInv
<1>3. ASSUME c \notin late' PROVE FollowInv(c)'
  <2>1. FollowInv(c) /\ rows'[c] = rows[c]
    BY <1>3 DEF ClusterInv
  <2> QED BY <1>1, <2>1 DEF FollowInv, Follows, Ahead
<1>4. ASSUME c \notin late' PROVE PurgeInv(c)'
  <2>1. PurgeInv(c) /\ rows'[c] = rows[c]
    BY <1>4 DEF ClusterInv
  <2> QED BY <1>1, <2>1 DEF PurgeInv, NoRows
<1> QED BY <1>2, <1>3, <1>4 DEF ClusterInv

\* Nothing changes but the clusters still to be seen, the list, or time.
LEMMA QuietFollows ==
    ASSUME FInv, UNCHANGED <<watcherOf, clusterOf, phase, cancelled, rows, late>>,
           UNCHANGED <<queued, step, filter, todo, skipped, chart>>,
           UNCHANGED <<repo, allowed, index>>,
           pc' # "drop" \/ UNCHANGED <<pc, current>>
    PROVE  FInv'
<1>1. DataInv' /\ DroppingInv' /\ StatementInv'
  BY DEF FInv, DataInv, DroppingInv, StatementInv, Constrained
<1>2. ASSUME NEW c \in Cluster PROVE ClusterInv(c)'
  <2>1. Working(c)' = Working(c)
    BY DEF Working
  <2>2. NoWatcher \notin Working(c)
    BY WatcherType DEF Working
  <2> QED BY <2>1, <2>2, Elsewhere DEF FInv
<1> QED BY <1>1, <1>2 DEF FInv

\* A change of the repository of cluster c makes every worker of it look.
LEMMA RepositoryFollows ==
    ASSUME FInv, IInv, NEW c \in Cluster, Passed(c), DataInv',
           UNCHANGED <<watcherOf, clusterOf, phase, cancelled, rows, late, pc, current>>,
           UNCHANGED <<step, filter, todo, skipped, chart>>,
           \A d \in Cluster \ {c} :
              repo'[d] = repo[d] /\ allowed'[d] = allowed[d] /\ index'[d] = index[d]
    PROVE  FInv'
<1>1. DroppingInv' /\ StatementInv'
  BY DEF FInv, DroppingInv, StatementInv, Constrained
<1>2. \A d \in Cluster : Working(d)' = Working(d)
  BY DEF Working
<1>3. \A v \in Watcher : queued'[v] = (queued[v] \/ (clusterOf[v] = c /\ phase[v] = "running"))
  BY DEF Passed
<1>4. ClusterInv(c)'
  <2>1. \A v \in Working(c) : queued'[v]
    BY <1>3 DEF Working
  <2> QED BY <1>2, <2>1 DEF ClusterInv, FilterInv, FollowInv, PurgeInv
<1>5. ASSUME NEW d \in Cluster, d # c PROVE ClusterInv(d)'
  <2>1. \A v \in Working(d) : queued'[v] = queued[v]
    BY <1>3, <1>5 DEF Working, FInv, DataInv
  <2>2. ClusterInv(d) /\ repo'[d] = repo[d] /\ allowed'[d] = allowed[d]
        /\ index'[d] = index[d]
    BY <1>5 DEF FInv
  <2>3. FilterInv(d)'
    BY <1>2, <2>1, <2>2 DEF ClusterInv, FilterInv
  <2>4. FollowInv(d) => FollowInv(d)'
    BY <1>2, <2>1, <2>2 DEF FollowInv, Follows, Ahead
  <2>5. PurgeInv(d) => PurgeInv(d)'
    BY <1>2, <2>1, <2>2 DEF PurgeInv, NoRows
  <2> QED BY <2>2, <2>3, <2>4, <2>5 DEF ClusterInv
<1> QED BY <1>1, <1>4, <1>5 DEF FInv

LEMMA EditFollows ==
    ASSUME FInv, IInv, NEW c \in Cluster, EditRepository(c) \/ Finalize(c)
    PROVE  FInv'
<1>1. /\ UNCHANGED <<watcherOf, clusterOf, phase, cancelled, rows, late, pc, current>>
      /\ UNCHANGED <<step, filter, todo, skipped, chart>>
      /\ Passed(c)
  BY DEF EditRepository, Edit, Finalize, ArtifactUpdate, FilterUpdate, DeletionUpdate,
         trackerVars, watcherVars, workerVars
<1>2. PICK s \in {"absent", "fresh", "ready", "deleting"},
           a \in SUBSET Chart, x \in SUBSET Chart :
        /\ repo' = [repo EXCEPT ![c] = s]
        /\ allowed' = [allowed EXCEPT ![c] = a]
        /\ index' = [index EXCEPT ![c] = x]
  <2>1. allowed[c] \in SUBSET Chart /\ index[c] \in SUBSET Chart
        /\ repo[c] \in {"absent", "fresh", "ready", "deleting"}
        /\ allowed = [allowed EXCEPT ![c] = allowed[c]]
    BY DEF FInv, DataInv
  <2>2. CASE Finalize(c)
    BY <2>1, <2>2 DEF Finalize
  <2>3. CASE EditRepository(c)
    <3>1. \E s \in {"absent", "fresh", "ready", "deleting"},
             a \in SUBSET Chart, x \in SUBSET Chart : Edit(c, s, a, x)
      BY <2>1, <2>3 DEF EditRepository
    <3> QED BY <3>1 DEF Edit
  <2> QED BY <2>2, <2>3
<1>3. queued' \in [Watcher -> BOOLEAN]
  BY <1>1 DEF Passed
<1>4. DataInv'
  BY <1>1, <1>2, <1>3 DEF FInv, DataInv
<1>5. \A d \in Cluster \ {c} :
        repo'[d] = repo[d] /\ allowed'[d] = allowed[d] /\ index'[d] = index[d]
  BY <1>2 DEF FInv, DataInv
<1> QED BY <1>1, <1>4, <1>5, RepositoryFollows

-----------------------------------------------------------------------------
(* The tracker and the managers.                                           *)

LEMMA AddClusterFollows ==
    ASSUME FInv, IInv, NEW c \in Cluster, AddCluster(c)
    PROVE  FInv'
<1>1. /\ UNCHANGED <<cancelled, rows, late, queued, step, filter, todo, skipped, chart>>
      /\ UNCHANGED <<repo, allowed, index, pc, current>> /\ pc # "drop"
  BY DEF AddCluster, workerVars, repoVars
<1>2. CASE watcherOf[c] # NoWatcher
  BY <1>1, <1>2, QuietFollows DEF AddCluster
<1>3. CASE watcherOf[c] = NoWatcher
  <2>1. PICK w \in Watcher :
          /\ phase[w] = "unused"
          /\ watcherOf' = [watcherOf EXCEPT ![c] = w]
          /\ clusterOf' = [clusterOf EXCEPT ![w] = c]
          /\ phase' = [phase EXCEPT ![w] = "created"]
    BY <1>3 DEF AddCluster
  <2>2. \A d \in Cluster : Working(d)' = Working(d) /\ w \notin Working(d)
    BY <1>1, <2>1 DEF IInv, TInv, Working
  <2>3. \A d \in Cluster : watcherOf'[d] = watcherOf[d] \/ watcherOf'[d] = w
    BY <2>1 DEF IInv, TInv
  <2>4. \A d \in Cluster : ClusterInv(d)'
    BY <1>1, <2>2, <2>3, Elsewhere DEF FInv
  <2>5. DataInv' /\ DroppingInv' /\ StatementInv'
    BY <1>1 DEF FInv, DataInv, DroppingInv, StatementInv, Constrained
  <2> QED BY <2>4, <2>5 DEF FInv
<1> QED BY <1>2, <1>3

LEMMA StopWatcherFollows ==
    ASSUME FInv, IInv, NEW c \in Cluster, StopWatcher(c)
    PROVE  FInv'
<1>1. /\ UNCHANGED <<clusterOf, phase, rows, late, queued, step, filter, todo, skipped, chart>>
      /\ UNCHANGED <<repo, allowed, index>>
  BY DEF StopWatcher, workerVars, repoVars
<1>2. CASE watcherOf[c] = NoWatcher
  <2>1. UNCHANGED <<watcherOf, cancelled, pc, current>>
    BY <1>2 DEF StopWatcher
  <2> QED BY <1>1, <2>1, QuietFollows
<1>3. CASE watcherOf[c] # NoWatcher
  <2> DEFINE w == watcherOf[c]
  <2>1. /\ cancelled' = [cancelled EXCEPT ![w] = phase[w] # "created"]
        /\ watcherOf' = [watcherOf EXCEPT ![c] = NoWatcher]
        /\ current' = c /\ pc' = "drop"
        /\ w \in Watcher /\ clusterOf[w] = c
    BY <1>3 DEF StopWatcher, IInv, TInv, MapInv
  <2>2. \A d \in Cluster : NoWatcher \notin Working(d)' /\ NoWatcher \notin Working(d)
    BY WatcherType DEF Working
  <2>3. ClusterInv(c)'
    <3>1. Working(c)' \subseteq Working(c) /\ watcherOf'[c] = NoWatcher
      BY <1>1, <2>1 DEF IInv, TInv, Working
    <3>2. FilterInv(c)'
      BY <1>1, <3>1 DEF FInv, ClusterInv, FilterInv
    <3> QED BY <2>2, <3>1, <3>2 DEF ClusterInv, FollowInv, PurgeInv
  <2>4. ASSUME NEW d \in Cluster, d # c PROVE ClusterInv(d)'
    <3>1. w \notin Working(d) /\ watcherOf'[d] = watcherOf[d]
      BY <2>1, <2>4 DEF IInv, TInv, Working
    <3>2. \A v \in Watcher \ {w} : cancelled'[v] = cancelled[v]
      BY <2>1 DEF IInv, TInv
    <3>3. Working(d)' = Working(d)
      BY <1>1, <2>1, <2>4, <3>2 DEF Working
    <3> QED BY <1>1, <3>1, <3>3, Elsewhere DEF FInv
  <2>5. DataInv' /\ StatementInv'
    BY <1>1 DEF FInv, DataInv, StatementInv, Constrained
  <2>6. DroppingInv'
    BY <2>1 DEF DroppingInv, IInv, TInv
  <2> QED BY <2>3, <2>4, <2>5, <2>6 DEF FInv
<1> QED BY <1>2, <1>3

LEMMA DropChartsFollows ==
    ASSUME FInv, IInv, DropCharts
    PROVE  FInv'
<1>1. /\ UNCHANGED <<watcherOf, clusterOf, phase, cancelled, late>>
      /\ UNCHANGED <<queued, step, filter, todo, skipped, chart, repo, allowed, index>>
      /\ pc = "drop" /\ pc' = "remove"
  BY DEF DropCharts, watcherVars, workerVars, repoVars
<1>2. rows' = [rows EXCEPT ![current] = NoRows] \/ rows' = rows
  BY DEF DropCharts, DropRows
<1>3. current \in Cluster /\ watcherOf[current] = NoWatcher
  BY <1>1 DEF FInv, DroppingInv
<1>4. \A d \in Cluster : Working(d)' = Working(d) /\ NoWatcher \notin Working(d)
  BY <1>1, WatcherType DEF Working
<1>5. ASSUME NEW d \in Cluster PROVE ClusterInv(d)'
  <2>1. CASE d = current
    <3>1. FilterInv(d)'
      BY <1>1, <1>4 DEF FInv, ClusterInv, FilterInv
    <3> QED BY <1>1, <1>3, <1>4, <2>1, <3>1 DEF ClusterInv, FollowInv, PurgeInv
  <2>2. CASE d # current
    <3>1. rows'[d] = rows[d]
      BY <1>2, <2>2 DEF IInv, TInv
    <3> QED BY <1>1, <1>4, <3>1, Elsewhere DEF FInv
  <2> QED BY <2>1, <2>2
<1>6. DataInv' /\ DroppingInv' /\ StatementInv'
  BY <1>1 DEF FInv, DataInv, DroppingInv, StatementInv, Constrained
<1> QED BY <1>5, <1>6 DEF FInv

\* A manager that starts makes its worker look, and one that ends had been
\* stopped.
LEMMA ManagerFollows ==
    ASSUME FInv, IInv, NEW w \in Watcher, Manager(w)
    PROVE  FInv'
<1>1. /\ UNCHANGED <<watcherOf, clusterOf, cancelled, rows, late, pc, current>>
      /\ UNCHANGED <<step, filter, todo, skipped, chart, repo, allowed, index>>
  BY DEF Manager, SetStop, RunManager, StartFails, EndManager, Lifecycle, trackerVars,
         workerVars, repoVars
<1>2. PICK p : phase' = [phase EXCEPT ![w] = p]
  BY DEF Manager, SetStop, RunManager, StartFails, EndManager, Lifecycle
<1>3. \A v \in Watcher \ {w} : phase'[v] = phase[v] /\ queued'[v] = queued[v]
  BY <1>2 DEF Manager, SetStop, RunManager, StartFails, EndManager, IInv, TInv,
              FInv, DataInv
<1>4. queued' \in [Watcher -> BOOLEAN]
  <2>1. (repo[clusterOf[w]] # "absent") \in BOOLEAN
    OBVIOUS
  <2> QED BY <2>1 DEF Manager, SetStop, RunManager, StartFails, EndManager, FInv, DataInv
<1>5. DataInv' /\ DroppingInv' /\ StatementInv'
  BY <1>1, <1>4 DEF FInv, DataInv, DroppingInv, StatementInv, Constrained
<1>6. CASE RunManager(w)
  <2> DEFINE c == clusterOf[w]
  <2>1. /\ phase[w] = "started" /\ ~cancelled[w] /\ phase'[w] = "running"
        /\ queued'[w] = (repo[c] # "absent") /\ c \in Cluster /\ step[w] = "idle"
    BY <1>6 DEF RunManager, Lifecycle, IInv, TInv, WatcherInv, WorkInv, FInv, DataInv
  <2>2. Working(c)' = Working(c) \cup {w} /\ w \notin Working(c)
    BY <1>1, <1>3, <2>1 DEF Working
  <2>3. ClusterInv(c)'
    <3>1. FilterInv(c)'
      BY <1>1, <1>3, <2>1, <2>2 DEF FInv, ClusterInv, FilterInv, Working
    <3>2. FollowInv(c)' /\ PurgeInv(c)'
      BY <1>1, <2>1, <2>2 DEF FollowInv, PurgeInv
    <3> QED BY <3>1, <3>2 DEF ClusterInv
  <2>4. ASSUME NEW d \in Cluster, d # c PROVE ClusterInv(d)'
    <3>1. w \notin Working(d) /\ Working(d)' = Working(d)
      BY <1>1, <1>3, <2>4 DEF Working
    <3> QED BY <1>1, <1>3, <3>1, Elsewhere DEF FInv
  <2>5. \A d \in Cluster : ClusterInv(d)'
    BY <1>1, <2>3, <2>4
  <2> QED BY <1>5, <2>5 DEF FInv
<1>7. CASE SetStop(w) \/ StartFails(w) \/ EndManager(w)
  <2>1. /\ phase[w] # "running" \/ cancelled[w]
        /\ phase'[w] # "running"
    BY <1>7 DEF SetStop, StartFails, EndManager, Lifecycle, IInv, TInv
  <2>2. \A d \in Cluster : Working(d)' = Working(d) /\ w \notin Working(d)
    BY <1>1, <1>3, <2>1 DEF Working
  <2>3. \A d \in Cluster : ClusterInv(d)'
    BY <1>1, <1>3, <2>2, Elsewhere DEF FInv
  <2> QED BY <1>5, <2>3 DEF FInv
<1> QED BY <1>6, <1>7 DEF Manager

-----------------------------------------------------------------------------
(* The workers.                                                            *)

\* What every step of a worker leaves alone.
LEMMA WorkerScope ==
    ASSUME FInv, IInv, NEW w \in Watcher, Worker(w)
    PROVE  /\ UNCHANGED <<watcherOf, clusterOf, phase, cancelled, pc, current>>
           /\ UNCHANGED <<repo, allowed, index>>
           /\ phase[w] = "running" /\ clusterOf[w] \in Cluster
           /\ \A v \in Watcher \ {w} :
                 /\ queued'[v] = queued[v] /\ step'[v] = step[v] /\ filter'[v] = filter[v]
                 /\ todo'[v] = todo[v] /\ skipped'[v] = skipped[v] /\ chart'[v] = chart[v]
           /\ \A d \in Cluster \ {clusterOf[w]} : rows'[d] = rows[d]
           /\ late \subseteq late'
           /\ cancelled[w] => rows' = rows \/ clusterOf[w] \in late'
<1>1. /\ UNCHANGED <<watcherOf, clusterOf, phase, cancelled, pc, current>>
      /\ UNCHANGED <<repo, allowed, index>>
  BY DEF Worker, ReadRepository, GetIndexFile, LoadChart, RunStatement, Loaded, Purge,
         WorkerFrame, trackerVars, watcherVars, repoVars
<1>2. phase[w] = "running"
  BY DEF Worker, ReadRepository, GetIndexFile, LoadChart, RunStatement, Loaded, Purge,
         IInv, WorkInv
<1>3. clusterOf[w] \in Cluster
  BY <1>2 DEF IInv, WatcherInv
<1>4. ASSUME NEW v \in Watcher \ {w}
      PROVE  /\ queued'[v] = queued[v] /\ step'[v] = step[v] /\ filter'[v] = filter[v]
             /\ todo'[v] = todo[v] /\ skipped'[v] = skipped[v] /\ chart'[v] = chart[v]
  <2>1. CASE ReadRepository(w)
    BY <2>1 DEF ReadRepository, Goto, FInv, DataInv, IInv, TInv
  <2>2. CASE GetIndexFile(w)
    BY <2>2 DEF GetIndexFile, RetryLater, Return, Goto, FInv, DataInv, IInv, TInv
  <2>3. ASSUME NEW h \in Chart, LoadChart(w, h)
        PROVE  /\ queued'[v] = queued[v] /\ step'[v] = step[v] /\ filter'[v] = filter[v]
               /\ todo'[v] = todo[v] /\ skipped'[v] = skipped[v] /\ chart'[v] = chart[v]
    BY <2>3 DEF LoadChart, RemoveChart, AddChart, Goto, FInv, DataInv, IInv, TInv
  <2>4. CASE RunStatement(w)
    BY <2>4 DEF RunStatement, Goto, FInv, DataInv, IInv, TInv
  <2>5. CASE Loaded(w)
    BY <2>5 DEF Loaded, Return, Goto, FInv, DataInv, IInv, TInv
  <2>6. CASE Purge(w)
    BY <2>6 DEF Purge, PurgeRetried, Return, Goto, FInv, DataInv, IInv, TInv
  <2> QED BY <2>1, <2>2, <2>3, <2>4, <2>5, <2>6 DEF Worker
<1>5. \/ UNCHANGED <<rows, late>>
      \/ Wrote(w) /\ \A d \in Cluster \ {clusterOf[w]} : rows'[d] = rows[d]
  <2>1. CASE RunStatement(w)
    BY <1>3, <2>1 DEF RunStatement, IInv, TInv
  <2>2. CASE Purge(w)
    BY <1>3, <2>2 DEF Purge, IInv, TInv
  <2>3. CASE ~RunStatement(w) /\ ~Purge(w)
    BY <2>3 DEF Worker, ReadRepository, GetIndexFile, LoadChart, Loaded
  <2> QED BY <2>1, <2>2, <2>3
<1>6. /\ \A d \in Cluster \ {clusterOf[w]} : rows'[d] = rows[d]
      /\ late \subseteq late'
      /\ cancelled[w] => rows' = rows \/ clusterOf[w] \in late'
  BY <1>5 DEF Wrote
<1> QED BY <1>1, <1>2, <1>3, <1>4, <1>6

\* It is enough to look at the worker's own cluster, and that only if the
\* worker has not been stopped.
LEMMA WorkerElsewhere ==
    ASSUME FInv, IInv, NEW w \in Watcher, Worker(w), NEW d \in Cluster,
           d # clusterOf[w] \/ cancelled[w]
    PROVE  ClusterInv(d)'
<1>1. w \notin Working(d) /\ Working(d)' = Working(d)
  BY WorkerScope DEF Working
<1>2. rows'[d] = rows[d] \/ d \in late'
  BY WorkerScope
<1> QED BY <1>1, <1>2, WorkerScope, Elsewhere DEF FInv

LEMMA WorkerData ==
    ASSUME FInv, IInv, NEW w \in Watcher, Worker(w)
    PROVE  DataInv' /\ StatementInv' /\ DroppingInv'
<1> DEFINE c == clusterOf[w]
<1>1. c \in Cluster /\ UNCHANGED <<watcherOf, pc, current, repo, allowed, index>>
  BY WorkerScope
<1>2. DroppingInv'
  BY <1>1 DEF FInv, DroppingInv
<1>3. DataInv'
  <2>1. allowed[c] \in SUBSET Chart /\ index[c] \in SUBSET Chart
    BY <1>1 DEF FInv, DataInv
  <2>2. CASE ReadRepository(w)
    BY <1>1, <2>1, <2>2 DEF ReadRepository, FInv, DataInv
  <2>3. CASE GetIndexFile(w)
    BY <1>1, <2>1, <2>3 DEF GetIndexFile, RetryLater, Return, FInv, DataInv
  <2>4. ASSUME NEW h \in Chart, LoadChart(w, h) PROVE DataInv'
    BY <1>1, <2>4 DEF LoadChart, FInv, DataInv
  <2>5. CASE RunStatement(w)
    BY <1>1, <2>5 DEF RunStatement, FInv, DataInv
  <2>6. CASE Loaded(w)
    BY <1>1, <2>6 DEF Loaded, Return, FInv, DataInv
  <2>7. CASE Purge(w)
    BY <1>1, <2>7 DEF Purge, PurgeRetried, Return, FInv, DataInv
  <2> QED BY <2>2, <2>3, <2>4, <2>5, <2>6, <2>7 DEF Worker
<1>4. StatementInv'
  <2>1. \A v \in Watcher \ {w} :
          step'[v] = step[v] /\ filter'[v] = filter[v] /\ chart'[v] = chart[v]
    BY WorkerScope
  <2>2. /\ step'[w] = "insert" => filter'[w] = Chart \/ chart'[w] \in filter'[w] \ Unparsable
        /\ step'[w] = "remove" =>
              filter'[w] # Chart /\ chart'[w] \notin Unparsable \cup filter'[w]
    <3>1. CASE ReadRepository(w)
      BY <3>1 DEF ReadRepository, Goto, IInv, TInv
    <3>2. CASE GetIndexFile(w)
      BY <3>2 DEF GetIndexFile, RetryLater, Return, Goto, IInv, TInv
    <3>3. ASSUME NEW h \in Chart, LoadChart(w, h)
          PROVE  /\ step'[w] = "insert" =>
                       filter'[w] = Chart \/ chart'[w] \in filter'[w] \ Unparsable
                 /\ step'[w] = "remove" =>
                       filter'[w] # Chart /\ chart'[w] \notin Unparsable \cup filter'[w]
      BY <3>3 DEF LoadChart, RemoveChart, AddChart, Constrained, Goto, IInv, TInv
    <3>4. CASE RunStatement(w)
      BY <3>4 DEF RunStatement, Goto, IInv, TInv
    <3>5. CASE Loaded(w)
      BY <3>5 DEF Loaded, Return, Goto, IInv, TInv
    <3>6. CASE Purge(w)
      BY <3>6 DEF Purge, PurgeRetried, Return, Goto, IInv, TInv
    <3> QED BY <3>1, <3>2, <3>3, <3>4, <3>5, <3>6 DEF Worker
  <2> QED BY <2>1, <2>2 DEF FInv, StatementInv, Constrained
<1> QED BY <1>2, <1>3, <1>4

-----------------------------------------------------------------------------
(* A worker that has not been stopped, and its own cluster.                *)

LEMMA OwnScope ==
    ASSUME FInv, IInv, NEW w \in Watcher, Worker(w), ~cancelled[w]
    PROVE  /\ clusterOf[w] \in Cluster /\ w \in Working(clusterOf[w])
           /\ Working(clusterOf[w]) \subseteq Watcher
           /\ Working(clusterOf[w])' = Working(clusterOf[w])
           /\ clusterOf'[w] = clusterOf[w]
           /\ UNCHANGED <<watcherOf, repo, allowed, index, late>>
           /\ \A v \in Working(clusterOf[w]) \ {w} :
                 /\ queued'[v] = queued[v] /\ step'[v] = step[v] /\ filter'[v] = filter[v]
                 /\ todo'[v] = todo[v] /\ skipped'[v] = skipped[v] /\ chart'[v] = chart[v]
<1>1. late' = late
  BY DEF Worker, ReadRepository, GetIndexFile, LoadChart, RunStatement, Loaded, Purge, Wrote
<1> QED BY <1>1, WorkerScope DEF Working

LEMMA ReadFollows ==
    ASSUME FInv, IInv, NEW w \in Watcher, ReadRepository(w), ~cancelled[w]
    PROVE  ClusterInv(clusterOf[w])'
<1> DEFINE c == clusterOf[w]
<1>1. Worker(w)
  BY DEF Worker
<1>2. ClusterInv(c) /\ c \in Cluster
  BY <1>1, OwnScope DEF FInv
<1>3. CASE repo[c] = "ready"
  <2>1. step'[w] = "index" /\ filter'[w] = allowed[c]
    BY <1>3 DEF ReadRepository, Goto, IInv, TInv, FInv, DataInv
  <2> QED BY <1>1, <1>2, <1>3, <2>1, OwnScope
          DEF ClusterInv, FilterInv, FollowInv, PurgeInv, Ahead
<1>4. CASE repo[c] = "deleting"
  <2>1. step'[w] = "purge"
    BY <1>4 DEF ReadRepository, Goto, IInv, TInv
  <2> QED BY <1>1, <1>2, <1>4, <2>1, OwnScope
          DEF ClusterInv, FilterInv, FollowInv, PurgeInv
<1>5. CASE repo[c] \notin {"ready", "deleting"}
  BY <1>1, <1>5, OwnScope DEF ClusterInv, FilterInv, FollowInv, PurgeInv
<1> QED BY <1>3, <1>4, <1>5

LEMMA IndexFollows ==
    ASSUME FInv, IInv, NEW w \in Watcher, GetIndexFile(w), ~cancelled[w]
    PROVE  ClusterInv(clusterOf[w])'
<1> DEFINE c == clusterOf[w]
<1>1. Worker(w)
  BY DEF Worker
<1>2. ClusterInv(c) /\ c \in Cluster /\ step[w] = "index" /\ rows' = rows
  BY <1>1, OwnScope DEF FInv, GetIndexFile
<1>3. CASE step'[w] = "load" /\ todo'[w] = index[c] /\ UNCHANGED <<queued, filter>>
  <2>1. FilterInv(c)'
    BY <1>1, <1>2, <1>3, OwnScope DEF ClusterInv, FilterInv
  <2>2. FollowInv(c)'
    BY <1>1, <1>3, OwnScope DEF FollowInv, Ahead
  <2>3. PurgeInv(c) => PurgeInv(c)'
    BY <1>1, <1>2, <1>3, OwnScope DEF PurgeInv, NoRows
  <2> QED BY <1>1, <1>2, <2>1, <2>2, <2>3, OwnScope DEF ClusterInv
<1>4. CASE step'[w] = "idle" /\ queued'[w]
  BY <1>1, <1>2, <1>4, OwnScope DEF ClusterInv, FilterInv, FollowInv, PurgeInv
<1>5. \/ step'[w] = "load" /\ todo'[w] = index[c] /\ UNCHANGED <<queued, filter>>
      \/ step'[w] = "idle" /\ queued'[w]
  BY DEF GetIndexFile, RetryLater, Return, Goto, IInv, TInv, FInv, DataInv
<1> QED BY <1>3, <1>4, <1>5

\* What worker w does with chart h: it is done with it, or has a statement of
\* it to run.
LEMMA LoadFollows ==
    ASSUME FInv, IInv, NEW w \in Watcher, NEW h \in Chart, LoadChart(w, h), ~cancelled[w]
    PROVE  ClusterInv(clusterOf[w])'
<1> DEFINE c == clusterOf[w]
<1>1. Worker(w)
  BY DEF Worker
<1>2. ClusterInv(c) /\ c \in Cluster /\ step[w] = "load" /\ UNCHANGED <<rows, queued, filter>>
  BY <1>1, OwnScope DEF FInv, LoadChart
<1>3. /\ step'[w] \in {"load", "insert", "remove"}
      /\ todo'[w] = todo[w] \ {h}
      /\ skipped[w] \subseteq skipped'[w]
  BY DEF LoadChart, RemoveChart, AddChart, Goto, IInv, TInv, FInv, DataInv
<1>4. FilterInv(c)'
  BY <1>1, <1>2, <1>3, OwnScope DEF ClusterInv, FilterInv
<1>5. ASSUME filter[w] = allowed[c]
      PROVE  Follows(c, h) \/ h \in skipped'[w] \/ Ahead(w, h)'
  <2>1. CASE Constrained(w) /\ h \in Unparsable
    BY <1>5, <2>1 DEF Constrained, Follows
  <2>2. CASE step'[w] \in {"insert", "remove"} /\ chart'[w] = h
    BY <2>2 DEF Ahead
  <2>3. CASE (~Constrained(w) \/ h \in filter[w] \ Unparsable) /\ rows[c][h] > 0
    BY <1>5, <2>3 DEF Constrained, Follows
  <2>4. CASE h \in skipped'[w]
    BY <2>4
  <2> QED BY <2>1, <2>2, <2>3, <2>4
          DEF LoadChart, RemoveChart, AddChart, Goto, IInv, TInv, FInv, DataInv
<1>6. FollowInv(c) => FollowInv(c)'
  <2> SUFFICES ASSUME FollowInv(c), repo[c] = "ready", watcherOf[c] \in Working(c),
                      \A v \in Working(c) : ~queued[v],
                      NEW x \in index[c]
               PROVE  \/ Follows(c, x)'
                      \/ \E v \in Working(c) : x \in skipped'[v] \/ Ahead(v, x)'
    BY <1>1, <1>2, OwnScope DEF FollowInv
  <2>1. Follows(c, x)' = Follows(c, x)
    BY <1>1, <1>2, OwnScope DEF Follows
  <2>2. filter[w] = allowed[c]
    BY <1>1, <1>2, OwnScope DEF ClusterInv, FilterInv
  <2>3. CASE x = h
    BY <1>1, <1>5, <2>1, <2>2, <2>3, OwnScope
  <2>4. CASE x # h
    <3>1. Ahead(w, x) => Ahead(w, x)'
      BY <1>2, <1>3, <2>4 DEF Ahead
    <3>2. \A v \in Working(c) \ {w} :
            skipped'[v] = skipped[v] /\ (Ahead(v, x)' <=> Ahead(v, x))
      BY <1>1, OwnScope DEF Ahead
    <3> QED BY <1>3, <2>1, <3>1, <3>2 DEF FollowInv
  <2> QED BY <2>3, <2>4
<1>7. PurgeInv(c) => PurgeInv(c)'
  BY <1>1, <1>2, OwnScope DEF PurgeInv, NoRows
<1> QED BY <1>1, <1>2, <1>4, <1>6, <1>7, OwnScope DEF ClusterInv

LEMMA StatementFollows ==
    ASSUME FInv, IInv, NEW w \in Watcher, RunStatement(w), ~cancelled[w]
    PROVE  ClusterInv(clusterOf[w])'
<1> DEFINE c == clusterOf[w]
<1>0. PICK k : k = chart[w]
  OBVIOUS
<1>1. Worker(w)
  BY DEF Worker
<1>2. /\ ClusterInv(c) /\ c \in Cluster /\ UNCHANGED <<queued, filter, todo, skipped>>
      /\ step[w] \in {"insert", "remove"} /\ step'[w] = "load" /\ k \in Chart
  BY <1>0, <1>1, OwnScope DEF FInv, RunStatement, Goto, IInv, TInv, WorkInv
<1>3. /\ \A x \in Chart \ {k} : rows'[c][x] = rows[c][x]
      /\ step[w] = "insert" => rows'[c][k] > 0
      /\ step[w] = "remove" => rows'[c][k] = 0
  <2>1. rows[c] \in [Chart -> Nat]
    BY <1>2 DEF IInv, TInv
  <2> QED BY <1>0, <1>2, <2>1 DEF RunStatement, IInv, TInv
<1>4. FilterInv(c)'
  BY <1>1, <1>2, OwnScope DEF ClusterInv, FilterInv
<1>5. ASSUME filter[w] = allowed[c] PROVE Follows(c, k)'
  <2>1. allowed' = allowed
    BY <1>1, OwnScope
  <2>2. CASE step[w] = "insert"
    <3>1. allowed[c] = Chart \/ k \in allowed[c] \ Unparsable
      BY <1>0, <1>5, <2>2 DEF FInv, StatementInv, Constrained
    <3> QED BY <1>1, <1>3, <2>1, <2>2, <3>1, OwnScope DEF Follows
  <2>3. CASE step[w] = "remove"
    <3>1. allowed[c] # Chart /\ k \notin allowed[c]
      BY <1>0, <1>5, <2>3 DEF FInv, StatementInv, Constrained
    <3> QED BY <1>1, <1>3, <2>1, <2>3, <3>1, OwnScope DEF Follows
  <2> QED BY <1>2, <2>2, <2>3
<1>6. FollowInv(c) => FollowInv(c)'
  <2> SUFFICES ASSUME FollowInv(c), repo[c] = "ready", watcherOf[c] \in Working(c),
                      \A v \in Working(c) : ~queued[v],
                      NEW x \in index[c]
               PROVE  \/ Follows(c, x)'
                      \/ \E v \in Working(c) : x \in skipped'[v] \/ Ahead(v, x)'
    BY <1>1, <1>2, OwnScope DEF FollowInv
  <2>1. filter[w] = allowed[c]
    BY <1>1, <1>2, OwnScope DEF ClusterInv, FilterInv
  <2>2. CASE x = k
    BY <1>5, <2>1, <2>2
  <2>3. CASE x # k
    <3>1. x \in Chart
      BY <1>2 DEF FInv, DataInv
    <3>2. Follows(c, x)' = Follows(c, x)
      BY <1>1, <1>3, <2>3, <3>1, OwnScope DEF Follows
    <3>3. Ahead(w, x) => Ahead(w, x)'
      BY <1>0, <1>2, <2>3 DEF Ahead
    <3>4. \A v \in Working(c) \ {w} : Ahead(v, x)' <=> Ahead(v, x)
      BY <1>1, OwnScope DEF Ahead
    <3> QED BY <1>2, <3>2, <3>3, <3>4 DEF FollowInv
  <2> QED BY <2>2, <2>3
<1>7. PurgeInv(c)'
  BY <1>1, <1>2, OwnScope DEF ClusterInv, FilterInv, PurgeInv
<1> QED BY <1>1, <1>2, <1>4, <1>6, <1>7, OwnScope DEF ClusterInv

LEMMA LoadedFollows ==
    ASSUME FInv, IInv, NEW w \in Watcher, Loaded(w), ~cancelled[w]
    PROVE  ClusterInv(clusterOf[w])'
<1> DEFINE c == clusterOf[w]
<1>1. Worker(w)
  BY DEF Worker
<1>2. /\ ClusterInv(c) /\ c \in Cluster /\ UNCHANGED <<rows, skipped, chart>>
      /\ step[w] = "load" /\ step'[w] = "idle" /\ todo[w] = {} /\ queued'[w] = queued[w]
  BY <1>1, OwnScope DEF FInv, Loaded, Return, Goto, IInv, TInv, DataInv
<1>3. FilterInv(c)'
  BY <1>1, <1>2, OwnScope DEF ClusterInv, FilterInv
<1>4. FollowInv(c) => FollowInv(c)'
  <2>1. \A x : ~Ahead(w, x)
    BY <1>2 DEF Ahead
  <2>2. \A v \in Working(c) \ {w}, x \in index[c] : Ahead(v, x)' <=> Ahead(v, x)
    BY <1>1, OwnScope DEF Ahead
  <2>3. \A x : Follows(c, x)' = Follows(c, x)
    BY <1>1, <1>2, OwnScope DEF Follows
  <2>4. \A v \in Working(c) : queued'[v] = queued[v]
    BY <1>1, <1>2, OwnScope
  <2> QED BY <1>1, <1>2, <2>1, <2>2, <2>3, <2>4, OwnScope DEF FollowInv
<1>5. PurgeInv(c)'
  BY <1>1, <1>2, OwnScope DEF ClusterInv, FilterInv, PurgeInv
<1> QED BY <1>1, <1>2, <1>3, <1>4, <1>5, OwnScope DEF ClusterInv

LEMMA PurgeFollowsStep ==
    ASSUME FInv, IInv, NEW w \in Watcher, Purge(w), ~cancelled[w]
    PROVE  ClusterInv(clusterOf[w])'
<1> DEFINE c == clusterOf[w]
<1>1. Worker(w)
  BY DEF Worker
<1>2. ClusterInv(c) /\ c \in Cluster /\ step[w] = "purge" /\ step'[w] = "idle"
  BY <1>1, OwnScope DEF FInv, Purge, PurgeRetried, Return, Goto, IInv, TInv
<1>3. FilterInv(c)'
  BY <1>1, <1>2, OwnScope DEF ClusterInv, FilterInv
<1>4. queued'[w] \/ (rows'[c] = NoRows /\ queued'[w] = queued[w])
  <2>1. queued \in [Watcher -> BOOLEAN] /\ DOMAIN rows = Cluster
    BY DEF FInv, DataInv, IInv, TInv
  <2>2. \/ rows' = [rows EXCEPT ![c] = NoRows] /\ Return(w, FALSE)
        \/ Return(w, ~cancelled[w])
    BY DEF Purge, PurgeRetried
  <2>3. CASE rows' = [rows EXCEPT ![c] = NoRows] /\ Return(w, FALSE)
    BY <1>2, <2>1, <2>3 DEF Return
  <2>4. CASE Return(w, ~cancelled[w])
    BY <2>1, <2>4 DEF Return
  <2> QED BY <2>2, <2>3, <2>4
<1>5. repo[c] = "ready" => queued[w]
  BY <1>1, <1>2, OwnScope DEF ClusterInv, FilterInv
<1>6. FollowInv(c)'
  <2>1. w \in Working(c)'
    BY <1>1, OwnScope
  <2>2. (repo[c] = "ready" => queued[w])'
    BY <1>1, <1>4, <1>5, OwnScope
  <2> QED BY <2>1, <2>2 DEF FollowInv
<1>7. PurgeInv(c)'
  BY <1>1, <1>4, OwnScope DEF PurgeInv, NoRows
<1> QED BY <1>3, <1>6, <1>7 DEF ClusterInv

LEMMA WorkerFollows ==
    ASSUME FInv, IInv, NEW w \in Watcher, Worker(w)
    PROVE  FInv'
<1>1. ASSUME ~cancelled[w] PROVE ClusterInv(clusterOf[w])'
  BY <1>1, ReadFollows, IndexFollows, LoadFollows, StatementFollows, LoadedFollows,
     PurgeFollowsStep DEF Worker
<1>2. \A d \in Cluster : ClusterInv(d)'
  BY <1>1, WorkerScope, WorkerElsewhere
<1> QED BY <1>2, WorkerData DEF FInv

-----------------------------------------------------------------------------

LEMMA TrackerFollows ==
    ASSUME FInv, IInv, Tracker
    PROVE  FInv'
<1>1. CASE Subscribe \/ GetClusters \/ Added \/ Receive \/ Removed
  BY <1>1, QuietFollows DEF Subscribe, GetClusters, Added, Receive, Removed, watcherVars,
     workerVars, repoVars
<1>2. ASSUME NEW c \in Cluster, AddFails(c) PROVE FInv'
  <2>1. CASE pc = "initial"
    BY <1>2, <2>1, ResetFollows DEF AddFails
  <2>2. CASE pc # "initial"
    BY <1>2, <2>2, QuietFollows DEF AddFails, watcherVars, workerVars, repoVars
  <2> QED BY <2>1, <2>2
<1> QED BY <1>1, <1>2, AddClusterFollows, StopWatcherFollows, DropChartsFollows DEF Tracker

LEMMA NextFollows == FInv /\ IInv /\ [Next]_vars => FInv'
<1> SUFFICES ASSUME FInv, IInv, [Next]_vars PROVE FInv'
  OBVIOUS
<1>1. CASE Poll
  BY <1>1, QuietFollows DEF Poll, trackerVars, watcherVars, workerVars, repoVars
<1>2. CASE Crash
  BY <1>2, ResetFollows DEF Crash
<1>3. CASE UNCHANGED vars
  BY <1>3, QuietFollows DEF vars, trackerVars, watcherVars, workerVars, repoVars
<1> QED BY <1>1, <1>2, <1>3, TrackerFollows, EditFollows, ManagerFollows, WorkerFollows
        DEF Next

LEMMA FollowsAlways == Spec => []FInv
<1>1. Spec => []IInv
  BY InitInv, NextInv, PTL DEF Spec
<1> QED BY <1>1, InitFollows, NextFollows, PTL DEF Spec

LEMMA FollowsImplied == FInv => CacheFollows /\ PurgeFollows
<1> SUFFICES ASSUME FInv PROVE CacheFollows /\ PurgeFollows
  OBVIOUS
<1>1. CacheFollows
  BY DEF FInv, ClusterInv, FollowInv, CacheFollows, Settled, Failed, Follows, Ahead
<1>2. PurgeFollows
  BY DEF FInv, ClusterInv, PurgeInv, PurgeFollows, Settled
<1> QED BY <1>1, <1>2

\* Whatever edits, failing fetches, stopped watchers and crashes race with the
\* load of an index, once the workers of a cluster are idle its charts are in
\* the cache as the filter of the repository says (Reconcile, LoadIndex).
THEOREM EditsFollow == Spec => []CacheFollows
BY FollowsAlways, FollowsImplied, PTL

\* A deletion that begins while a worker loads the charts, or that fails and
\* is retried, leaves no rows (reconcileDelete).
THEOREM DeletionsFollow == Spec => []PurgeFollows
BY FollowsAlways, FollowsImplied, PTL

-----------------------------------------------------------------------------
(* Types, and how often a chart can be in the cache.                       *)

TrackerOK ==
    /\ listed \in SUBSET Cluster
    /\ updates \in Seq([added : SUBSET Cluster, removed : SUBSET Cluster])
    /\ pc \in {"new", "subscribed", "initial", "loop", "add", "remove", "drop"}
    /\ adding \in SUBSET Cluster /\ removing \in SUBSET Cluster
    /\ current \in Cluster \cup {NoCluster}
    /\ unseen \in SUBSET Cluster

CountsOK ==
    /\ polls \in 0 .. MaxPolls /\ edits \in 0 .. MaxEdits
    /\ failures \in 0 .. MaxFailures /\ crashes \in 0 .. MaxCrashes

\* The workers that have found chart h missing and will insert it.
Inserting(c, h) ==
    {w \in Watcher : step[w] = "insert" /\ clusterOf[w] = c /\ chart[w] = h}

\* Only workers that found no row insert one, so the rows of a chart and those
\* still to be inserted are not more than there are watchers.
RoomInv ==
    \A c \in Cluster, h \in Chart :
        rows[c][h] + Cardinality(Inserting(c, h)) <= MaxWatchers

LEMMA FewInserting ==
    \A c, h : /\ IsFiniteSet(Inserting(c, h))
              /\ Cardinality(Inserting(c, h)) \in 0 .. MaxWatchers
<1> SUFFICES ASSUME NEW c, NEW h
             PROVE  /\ IsFiniteSet(Inserting(c, h))
                    /\ Cardinality(Inserting(c, h)) \in 0 .. MaxWatchers
  OBVIOUS
<1>1. IsFiniteSet(Watcher) /\ Cardinality(Watcher) = MaxWatchers
  BY FS_Interval, HelmAssumption DEF Watcher
<1>2. Inserting(c, h) \subseteq Watcher
  BY DEF Inserting
<1>3. /\ IsFiniteSet(Inserting(c, h))
      /\ Cardinality(Inserting(c, h)) <= MaxWatchers
  BY <1>1, <1>2, FS_Subset
<1> QED BY <1>3, FS_CardinalityType, HelmAssumption

\* A chart keeps room when no worker begins to insert it, when its rows go,
\* and when a worker inserts what it was about to.
LEMMA RoomKept ==
    ASSUME NEW c, NEW h, rows[c][h] \in Nat,
           rows[c][h] + Cardinality(Inserting(c, h)) <= MaxWatchers,
           \/ rows'[c][h] = rows[c][h] /\ Inserting(c, h)' \subseteq Inserting(c, h)
           \/ rows'[c][h] = 0
           \/ /\ rows'[c][h] = rows[c][h] + 1
              /\ \E w \in Inserting(c, h) : Inserting(c, h)' = Inserting(c, h) \ {w}
    PROVE  rows'[c][h] + Cardinality(Inserting(c, h)') <= MaxWatchers
<1> DEFINE S == Inserting(c, h)
           T == Inserting(c, h)'
<1>1. IsFiniteSet(S) /\ Cardinality(S) \in Nat /\ MaxWatchers \in Nat
  BY FewInserting, HelmAssumption
<1>2. Cardinality(T) \in 0 .. MaxWatchers
  <2>1. IsFiniteSet(Watcher) /\ Cardinality(Watcher) = MaxWatchers
    BY FS_Interval, HelmAssumption DEF Watcher
  <2>2. T \subseteq Watcher
    BY DEF Inserting
  <2>3. IsFiniteSet(T) /\ Cardinality(T) <= MaxWatchers
    BY <2>1, <2>2, FS_Subset
  <2> QED BY <2>3, FS_CardinalityType, HelmAssumption
<1> HIDE DEF S, T
<1>3. CASE rows'[c][h] = rows[c][h] /\ T \subseteq S
  <2>1. Cardinality(T) <= Cardinality(S)
    BY <1>1, <1>3, FS_Subset
  <2> QED BY <1>1, <1>2, <1>3, <2>1 DEF S, T
<1>4. CASE rows'[c][h] = 0
  BY <1>2, <1>4, HelmAssumption DEF T
<1>5. ASSUME rows'[c][h] = rows[c][h] + 1, NEW w \in S, T = S \ {w}
      PROVE  rows'[c][h] + Cardinality(T) <= MaxWatchers
  <2>1. Cardinality(T) = Cardinality(S) - 1
    BY <1>1, <1>5, FS_RemoveElement
  <2> QED BY <1>1, <1>5, <2>1 DEF S
<1> QED BY <1>3, <1>4, <1>5 DEF S, T

LEMMA RoomSame ==
    ASSUME IInv, RoomInv, UNCHANGED <<clusterOf, step, chart>>,
           \A c \in Cluster : rows'[c] = rows[c] \/ rows'[c] = NoRows
    PROVE  RoomInv'
<1> SUFFICES ASSUME NEW c \in Cluster, NEW h \in Chart
             PROVE  rows'[c][h] + Cardinality(Inserting(c, h)') <= MaxWatchers
  BY DEF RoomInv
<1>1. Inserting(c, h)' = Inserting(c, h)
  BY DEF Inserting
<1>2. rows[c][h] \in Nat /\ rows[c][h] + Cardinality(Inserting(c, h)) <= MaxWatchers
  BY DEF IInv, TInv, RoomInv
<1>3. rows'[c][h] = rows[c][h] \/ rows'[c][h] = 0
  BY NoRowsType
<1> QED BY <1>1, <1>2, <1>3, RoomKept

\* A worker at most begins to insert a chart that has no rows.
LEMMA RoomWorker ==
    ASSUME FInv, IInv, RoomInv, NEW w \in Watcher, Worker(w)
    PROVE  RoomInv'
<1> SUFFICES ASSUME NEW c \in Cluster, NEW h \in Chart
             PROVE  rows'[c][h] + Cardinality(Inserting(c, h)') <= MaxWatchers
  BY DEF RoomInv
<1>1. rows[c][h] \in Nat /\ rows[c][h] + Cardinality(Inserting(c, h)) <= MaxWatchers
  BY DEF IInv, TInv, RoomInv
<1>2. /\ clusterOf' = clusterOf /\ clusterOf[w] \in Cluster
      /\ \A v \in Watcher \ {w} : step'[v] = step[v] /\ chart'[v] = chart[v]
      /\ \A d \in Cluster \ {clusterOf[w]} : rows'[d] = rows[d]
  BY WorkerScope
<1>3. step'[w] # "insert" => Inserting(c, h)' \subseteq Inserting(c, h)
  BY <1>2 DEF Inserting
<1>4. CASE RunStatement(w)
  <2>1. step'[w] = "load"
    BY <1>4 DEF RunStatement, Goto, IInv, TInv
  <2>2. CASE UNCHANGED rows
    BY <1>1, <1>3, <2>1, <2>2, RoomKept
  <2>3. CASE c # clusterOf[w]
    BY <1>1, <1>2, <1>3, <2>1, <2>3, RoomKept
  <2>4. CASE c = clusterOf[w] /\ rows' # rows
    <3>1. /\ step[w] \in {"insert", "remove"} /\ chart[w] \in Chart
          /\ rows' = [rows EXCEPT ![c][chart[w]] = IF step[w] = "insert" THEN @ + 1 ELSE 0]
      BY <1>4, <2>4 DEF RunStatement, IInv, WorkInv
    <3>2. CASE h # chart[w]
      <4>1. rows'[c][h] = rows[c][h]
        BY <3>1, <3>2 DEF IInv, TInv
      <4> QED BY <1>1, <1>3, <2>1, <4>1, RoomKept
    <3>3. CASE h = chart[w] /\ step[w] = "remove"
      <4>1. rows'[c][h] = 0
        BY <3>1, <3>3 DEF IInv, TInv
      <4> QED BY <1>1, <4>1, RoomKept
    <3>4. CASE h = chart[w] /\ step[w] = "insert"
      <4>1. rows'[c][h] = rows[c][h] + 1
        BY <3>1, <3>4 DEF IInv, TInv
      <4>2. w \in Inserting(c, h) /\ Inserting(c, h)' = Inserting(c, h) \ {w}
        BY <1>2, <2>1, <2>4, <3>4 DEF Inserting
      <4> QED BY <1>1, <4>1, <4>2, RoomKept
    <3> QED BY <3>1, <3>2, <3>3, <3>4
  <2> QED BY <2>2, <2>3, <2>4
<1>5. CASE Purge(w)
  <2>1. step'[w] = "idle"
    BY <1>5 DEF Purge, PurgeRetried, Return, Goto, IInv, TInv
  <2>2. rows'[c] = rows[c] \/ rows'[c] = NoRows
    BY <1>2, <1>5 DEF Purge, IInv, TInv
  <2>3. rows'[c][h] = rows[c][h] \/ rows'[c][h] = 0
    BY <2>2, NoRowsType
  <2> QED BY <1>1, <1>3, <2>1, <2>3, RoomKept
<1>6. CASE ReadRepository(w) \/ GetIndexFile(w) \/ Loaded(w)
  <2>1. rows' = rows
    BY <1>6 DEF ReadRepository, GetIndexFile, Loaded
  <2>2. step'[w] # "insert"
    BY <1>6 DEF ReadRepository, GetIndexFile, RetryLater, Loaded, Return, Goto, IInv, TInv
  <2> QED BY <1>1, <1>3, <2>1, <2>2, RoomKept
<1>7. ASSUME NEW x \in Chart, LoadChart(w, x)
      PROVE  rows'[c][h] + Cardinality(Inserting(c, h)') <= MaxWatchers
  <2>1. rows' = rows /\ step[w] = "load"
    BY <1>7 DEF LoadChart
  <2>2. CASE step'[w] # "insert"
    BY <1>1, <1>3, <2>1, <2>2, RoomKept
  <2>3. CASE step'[w] = "insert" /\ (c # clusterOf[w] \/ h # x)
    <3>1. chart'[w] = x
      BY <1>7, <2>1, <2>3 DEF LoadChart, RemoveChart, AddChart, Goto, IInv, TInv
    <3>2. Inserting(c, h)' \subseteq Inserting(c, h)
      BY <1>2, <2>3, <3>1 DEF Inserting
    <3> QED BY <1>1, <2>1, <3>2, RoomKept
  <2>4. CASE step'[w] = "insert" /\ c = clusterOf[w] /\ h = x
    <3>1. ~(rows[c][h] > 0)
      BY <1>7, <2>1, <2>4 DEF LoadChart, RemoveChart, AddChart, Goto, IInv, TInv
    <3>2. rows'[c][h] = 0
      BY <1>1, <2>1, <3>1
    <3> QED BY <1>1, <3>2, RoomKept
  <2> QED BY <2>2, <2>3, <2>4
<1> QED BY <1>4, <1>5, <1>6, <1>7 DEF Worker

LEMMA RoomReset == Reset => RoomInv'
<1> SUFFICES ASSUME Reset, NEW c \in Cluster, NEW h \in Chart
             PROVE  rows'[c][h] + Cardinality(Inserting(c, h)') <= MaxWatchers
  BY DEF RoomInv
<1>1. rows'[c][h] = 0 /\ Inserting(c, h)' = {}
  BY DEF Reset, NoRows, Inserting
<1> QED BY <1>1, FS_EmptySet, HelmAssumption

LEMMA RoomInit == Init => RoomInv
<1> SUFFICES ASSUME Init, NEW c \in Cluster, NEW h \in Chart
             PROVE  rows[c][h] + Cardinality(Inserting(c, h)) <= MaxWatchers
  BY DEF RoomInv
<1>1. rows[c][h] = 0 /\ Inserting(c, h) = {}
  BY DEF Init, Fresh, NoRows, Inserting
<1> QED BY <1>1, FS_EmptySet, HelmAssumption

LEMMA RoomTracker ==
    ASSUME IInv, RoomInv, Tracker
    PROVE  RoomInv'
<1> USE DEF watcherVars, workerVars
<1>1. CASE Subscribe \/ GetClusters \/ Added \/ Receive \/ Removed
  BY <1>1, RoomSame DEF Subscribe, GetClusters, Added, Receive, Removed
<1>2. CASE DropCharts
  BY <1>2, RoomSame DEF DropCharts, DropRows, IInv, TInv
<1>3. ASSUME NEW c \in Cluster, AddCluster(c) PROVE RoomInv'
  <2>1. UNCHANGED <<step, chart, rows>>
    BY <1>3 DEF AddCluster
  <2>2. \A w \in Watcher : step[w] = "insert" => clusterOf'[w] = clusterOf[w]
    BY <1>3 DEF AddCluster, IInv, TInv, WorkInv
  <2>3. SUFFICES ASSUME NEW d \in Cluster, NEW h \in Chart
                 PROVE  rows'[d][h] + Cardinality(Inserting(d, h)') <= MaxWatchers
    BY DEF RoomInv
  <2>4. Inserting(d, h)' = Inserting(d, h)
    BY <2>1, <2>2 DEF Inserting
  <2> QED BY <2>1, <2>4 DEF RoomInv
<1>4. ASSUME NEW c \in Cluster, AddFails(c) PROVE RoomInv'
  <2>1. CASE pc = "initial"
    BY <1>4, <2>1, RoomReset DEF AddFails
  <2>2. CASE pc # "initial"
    BY <1>4, <2>2, RoomSame DEF AddFails
  <2> QED BY <2>1, <2>2
<1>5. ASSUME NEW c \in Cluster, StopWatcher(c) PROVE RoomInv'
  BY <1>5, RoomSame DEF StopWatcher
<1> QED BY <1>1, <1>2, <1>3, <1>4, <1>5 DEF Tracker

LEMMA RoomStep == FInv /\ IInv /\ RoomInv /\ [Next]_vars => RoomInv'
<1> SUFFICES ASSUME FInv, IInv, RoomInv, [Next]_vars PROVE RoomInv'
  OBVIOUS
<1> USE DEF watcherVars, workerVars
<1>1. CASE Poll \/ UNCHANGED vars
  BY <1>1, RoomSame DEF Poll, vars
<1>2. CASE Crash
  BY <1>2, RoomReset DEF Crash
<1>3. ASSUME NEW c \in Cluster, EditRepository(c) \/ Finalize(c) PROVE RoomInv'
  BY <1>3, RoomSame DEF EditRepository, Edit, Finalize
<1>4. ASSUME NEW w \in Watcher, Manager(w) PROVE RoomInv'
  BY <1>4, RoomSame DEF Manager, SetStop, RunManager, StartFails, EndManager, Lifecycle
<1> QED BY <1>1, <1>2, <1>3, <1>4, RoomTracker, RoomWorker DEF Next

LEMMA QueueType ==
    \A S : \A q \in Seq(S) :
        /\ \A x \in S : Append(q, x) \in Seq(S)
        /\ q # <<>> => Head(q) \in S /\ Tail(q) \in Seq(S)
OBVIOUS

LEMMA TrackerStep == TrackerOK /\ [Next]_vars => TrackerOK'
<1> SUFFICES ASSUME TrackerOK, [Next]_vars PROVE TrackerOK'
  OBVIOUS
<1> USE DEF TrackerOK, managerVars, trackerVars
<1>1. CASE Poll
  <2>1. PICK now \in SUBSET Cluster :
            /\ listed' = now
            /\ updates' = IF pc = "new" THEN updates
                          ELSE Append(updates, [added |-> now \ listed,
                                                removed |-> listed \ now])
    BY <1>1 DEF Poll
  <2>2. [added |-> now \ listed, removed |-> listed \ now]
            \in [added : SUBSET Cluster, removed : SUBSET Cluster]
    OBVIOUS
  <2>3. updates' \in Seq([added : SUBSET Cluster, removed : SUBSET Cluster])
    <3>1. CASE updates' = updates
      BY <3>1
    <3>2. CASE updates' # updates
      BY <2>1, <2>2, <3>2, QueueType
    <3> QED BY <3>1, <3>2
  <2> QED BY <1>1, <2>1, <2>3 DEF Poll
<1>2. CASE Receive
  <2>1. /\ Head(updates) \in [added : SUBSET Cluster, removed : SUBSET Cluster]
        /\ Tail(updates) \in Seq([added : SUBSET Cluster, removed : SUBSET Cluster])
    BY <1>2, QueueType DEF Receive
  <2> QED BY <1>2, <2>1 DEF Receive
<1>3. CASE Reset
  BY <1>3 DEF Reset
<1>4. CASE Subscribe \/ GetClusters \/ Added \/ DropCharts \/ Removed
  BY <1>4 DEF Subscribe, GetClusters, Added, DropCharts, Removed
<1>5. ASSUME NEW c \in Cluster, AddCluster(c) \/ StopWatcher(c) PROVE TrackerOK'
  BY <1>5 DEF AddCluster, StopWatcher
<1>6. ASSUME NEW c \in Cluster, AddFails(c), ~Reset PROVE TrackerOK'
  BY <1>6 DEF AddFails
<1>7. ASSUME NEW c \in Cluster, EditRepository(c) \/ Finalize(c) PROVE TrackerOK'
  BY <1>7 DEF EditRepository, Edit, Finalize
<1>8. ASSUME NEW w \in Watcher, Manager(w) \/ Worker(w) PROVE TrackerOK'
  <2>1. UNCHANGED <<managerVars, trackerVars, unseen>>
    BY <1>8 DEF Manager, SetStop, RunManager, StartFails, EndManager, Lifecycle, Worker,
                ReadRepository, GetIndexFile, LoadChart, RunStatement, Loaded, Purge,
                WorkerFrame
  <2> QED BY <2>1
<1>9. CASE UNCHANGED vars
  BY <1>9 DEF vars
<1> QED BY <1>1, <1>2, <1>3, <1>4, <1>5, <1>6, <1>7, <1>8, <1>9 DEF Next, Tracker, Crash

LEMMA CountsStep == CountsOK /\ [Next]_vars => CountsOK'
<1> SUFFICES ASSUME CountsOK, [Next]_vars PROVE CountsOK'
  OBVIOUS
<1>1. /\ polls' = polls \/ (polls < MaxPolls /\ polls' = polls + 1)
      /\ edits' = edits \/ (edits < MaxEdits /\ edits' = edits + 1)
      /\ failures' = failures \/ (failures < MaxFailures /\ failures' = failures + 1)
      /\ crashes' = crashes \/ (crashes < MaxCrashes /\ crashes' = crashes + 1)
  <2> USE DEF managerVars, repoVars, Fail
  <2>1. CASE Poll \/ Crash \/ UNCHANGED vars
    BY <2>1 DEF Poll, Crash, Reset, vars
  <2>2. CASE Tracker
    BY <2>2 DEF Tracker, Subscribe, GetClusters, Added, Receive, DropCharts, Removed,
                AddCluster, AddFails, StopWatcher, Reset
  <2>3. ASSUME NEW c \in Cluster, EditRepository(c) \/ Finalize(c)
        PROVE  /\ UNCHANGED <<polls, failures, crashes>>
               /\ edits' = edits \/ (edits < MaxEdits /\ edits' = edits + 1)
    BY <2>3 DEF EditRepository, Edit, Finalize
  <2>4. ASSUME NEW w \in Watcher, Manager(w)
        PROVE  /\ UNCHANGED <<polls, edits, crashes>>
               /\ failures' = failures \/ (failures < MaxFailures /\ failures' = failures + 1)
    BY <2>4 DEF Manager, SetStop, RunManager, StartFails, EndManager, Lifecycle
  <2>5. ASSUME NEW w \in Watcher, Worker(w)
        PROVE  /\ UNCHANGED <<polls, edits, crashes>>
               /\ failures' = failures \/ (failures < MaxFailures /\ failures' = failures + 1)
    BY <2>5 DEF Worker, ReadRepository, GetIndexFile, LoadChart, RunStatement, Loaded,
                Purge, WorkerFrame
  <2> QED BY <2>1, <2>2, <2>3, <2>4, <2>5 DEF Next
<1> QED BY <1>1, HelmAssumption DEF CountsOK

\* Every variable keeps its type, for any clusters, charts and bounds; and
\* although the table has no unique key, a chart never has more rows than
\* watchers were made since the process started, however the inserts of
\* watchers that run on after their Stop fall together (AddChart).
THEOREM TypeCorrect == Spec => []TypeOK
<1> DEFINE Inv == TrackerOK /\ CountsOK /\ RoomInv
<1>1. Spec => []IInv
  BY InitInv, NextInv, PTL DEF Spec
<1>2. Init => Inv
  <2> SUFFICES ASSUME Init PROVE Inv
    OBVIOUS
  <2>1. TrackerOK /\ CountsOK
    BY HelmAssumption DEF Init, Fresh, TrackerOK, CountsOK
  <2> QED BY <2>1, RoomInit
<1>3. FInv /\ IInv /\ Inv /\ [Next]_vars => Inv'
  BY TrackerStep, CountsStep, RoomStep
<1>4. FInv /\ IInv /\ Inv => TypeOK
  <2> SUFFICES ASSUME FInv, IInv, Inv PROVE TypeOK
    OBVIOUS
  <2>1. \A c \in Cluster, h \in Chart : rows[c][h] \in 0 .. MaxWatchers
    <3>1. TAKE c \in Cluster, h \in Chart
    <3>2. rows[c][h] \in Nat /\ rows[c][h] + Cardinality(Inserting(c, h)) <= MaxWatchers
      BY DEF IInv, TInv, RoomInv
    <3> QED BY <3>2, FewInserting, HelmAssumption
  <2>2. rows \in [Cluster -> [Chart -> 0 .. MaxWatchers]]
    BY <2>1 DEF IInv, TInv
  <2> QED BY <2>2 DEF TypeOK, TrackerOK, CountsOK, FInv, DataInv, IInv, TInv
<1> QED BY FollowsAlways, <1>1, <1>2, <1>3, <1>4, PTL DEF Spec
=============================================================================
