------------------------------ MODULE HelmProofs ------------------------------
(***************************************************************************)
(* Proofs about Helm, for any clusters, charts and number of watchers, and *)
(* whatever fails: the chart cache has no unique key, and yet a chart gets *)
(* a second row only from a second watcher.                                *)
(***************************************************************************)
EXTENDS Helm, TLAPS

TInv ==
    /\ watcherOf \in [Cluster -> Watcher \cup {NoWatcher}]
    /\ clusterOf \in [Watcher -> Cluster \cup {NoCluster}]
    /\ phase \in [Watcher -> {"unused", "created", "started", "running", "ended"}]
    /\ cancelled \in [Watcher -> BOOLEAN]
    /\ step \in [Watcher -> {"idle", "index", "load", "insert", "remove", "purge"}]
    /\ chart \in [Watcher -> Chart \cup {NoChart}]
    /\ rows \in [Cluster -> [Chart -> Nat]]
    /\ late \in SUBSET Cluster

\* The watcher in the map was made for its cluster.
MapInv ==
    \A c \in Cluster : watcherOf[c] # NoWatcher =>
        clusterOf[watcherOf[c]] = c /\ phase[watcherOf[c]] # "unused"

WatcherInv ==
    \A w \in Watcher : phase[w] # "unused" => clusterOf[w] \in Cluster

\* Only a manager that runs has a worker that works, and a statement of the
\* chart cache is about a chart.
WorkInv ==
    \A w \in Watcher : /\ phase[w] # "running" => step[w] = "idle"
                       /\ step[w] \in {"insert", "remove"} => chart[w] \in Chart

\* What AddChart has found missing still is.
InsertInv ==
    \A c \in Cluster \ late : Strays(c) = {} =>
        \A w \in Working(c) : step[w] = "insert" => rows[c][chart[w]] = 0

IInv == TInv /\ MapInv /\ WatcherInv /\ WorkInv /\ InsertInv /\ NoDuplicates

LEMMA NoRowsType == NoRows \in [Chart -> Nat] /\ \A h \in Chart : NoRows[h] = 0
BY DEF NoRows

\* A watcher is no watcher's absence.
LEMMA WatcherType == \A w \in Watcher : w # NoWatcher
BY HelmAssumption DEF Watcher, NoWatcher

LEMMA FreshInv ==
    ASSUME watcherOf = [c \in Cluster |-> NoWatcher],
           clusterOf = [w \in Watcher |-> NoCluster],
           phase = [w \in Watcher |-> "unused"],
           cancelled = [w \in Watcher |-> FALSE],
           step = [w \in Watcher |-> "idle"],
           chart = [w \in Watcher |-> NoChart],
           rows = [c \in Cluster |-> NoRows], late = {}
    PROVE  IInv
<1>1. TInv
  BY NoRowsType DEF TInv
<1>2. MapInv /\ WatcherInv /\ WorkInv
  BY DEF MapInv, WatcherInv, WorkInv
<1>3. InsertInv /\ NoDuplicates
  BY NoRowsType DEF InsertInv, NoDuplicates, Working
<1> QED BY <1>1, <1>2, <1>3 DEF IInv

LEMMA InitInv == Init => IInv
BY FreshInv DEF Init, Fresh

LEMMA ResetInv == Reset => IInv'
<1> SUFFICES ASSUME Reset PROVE IInv'
  OBVIOUS
<1>1. TInv'
  BY NoRowsType DEF TInv, Reset
<1>2. MapInv' /\ WatcherInv' /\ WorkInv'
  BY DEF MapInv, WatcherInv, WorkInv, Reset
<1>3. InsertInv' /\ NoDuplicates'
  BY NoRowsType DEF InsertInv, NoDuplicates, Working, Reset
<1> QED BY <1>1, <1>2, <1>3 DEF IInv

-----------------------------------------------------------------------------
(* The steps that leave watchers, workers and rows alone.                  *)

LEMMA FrameInv ==
    ASSUME IInv, UNCHANGED <<watcherOf, clusterOf, phase, cancelled, step, chart, rows, late>>
    PROVE  IInv'
<1>1. TInv' /\ MapInv' /\ WatcherInv' /\ WorkInv'
  BY DEF IInv, TInv, MapInv, WatcherInv, WorkInv
<1>2. \A c : Working(c)' = Working(c) /\ Strays(c)' = Strays(c)
  BY DEF Working, Strays
<1>3. InsertInv' /\ NoDuplicates'
  BY <1>2 DEF IInv, InsertInv, NoDuplicates
<1> QED BY <1>1, <1>3 DEF IInv

LEMMA OutsideInv ==
    ASSUME IInv,
           \/ Poll \/ Crash \/ Subscribe \/ GetClusters \/ Added \/ Receive \/ Removed
           \/ \E c \in Cluster : EditRepository(c) \/ Finalize(c) \/ AddFails(c)
    PROVE  IInv'
<1>1. CASE Reset
  BY <1>1, ResetInv
<1>2. CASE ~Reset
  <2>1. UNCHANGED <<watcherOf, clusterOf, phase, cancelled, step, chart, rows, late>>
    BY <1>2 DEF Poll, Crash, Subscribe, GetClusters, Added, Receive, Removed,
                EditRepository, Edit, Finalize, AddFails, watcherVars, workerVars
  <2> QED BY <2>1, FrameInv
<1> QED BY <1>1, <1>2

-----------------------------------------------------------------------------
(* The tracker and the managers.                                           *)

LEMMA AddClusterInv ==
    ASSUME IInv, NEW c \in Cluster, AddCluster(c)
    PROVE  IInv'
<1>1. UNCHANGED <<cancelled, step, chart, rows, late>>
  BY DEF AddCluster, workerVars
<1>2. CASE watcherOf[c] # NoWatcher
  BY <1>1, <1>2, FrameInv DEF AddCluster
<1>3. CASE watcherOf[c] = NoWatcher
  <2>1. PICK w \in Watcher :
          /\ phase[w] = "unused"
          /\ watcherOf' = [watcherOf EXCEPT ![c] = w]
          /\ clusterOf' = [clusterOf EXCEPT ![w] = c]
          /\ phase' = [phase EXCEPT ![w] = "created"]
    BY <1>3 DEF AddCluster
  <2>2. TInv'
    BY <1>1, <2>1 DEF IInv, TInv
  <2>3. MapInv'
    BY <2>1 DEF IInv, TInv, MapInv
  <2>4. WatcherInv' /\ WorkInv'
    BY <1>1, <2>1 DEF IInv, TInv, WatcherInv, WorkInv
  <2>5. \A d \in Cluster : Working(d)' = Working(d) /\ w \notin Working(d)
    BY <1>1, <2>1 DEF IInv, TInv, Working
  <2>6. \A d \in Cluster : NoWatcher \notin Working(d)
    BY WatcherType DEF Working
  <2>7. \A d \in Cluster : Strays(d)' = Strays(d)
    <3>1. TAKE d \in Cluster
    <3>2. CASE d = c
      <4>1. watcherOf'[d] = w
        BY <2>1, <3>2 DEF IInv, TInv
      <4> QED BY <1>3, <2>5, <2>6, <3>2, <4>1 DEF Strays
    <3>3. CASE d # c
      <4>1. watcherOf'[d] = watcherOf[d]
        BY <2>1, <3>3 DEF IInv, TInv
      <4> QED BY <2>5, <4>1 DEF Strays
    <3> QED BY <3>2, <3>3
  <2>8. InsertInv' /\ NoDuplicates'
    BY <1>1, <2>5, <2>7 DEF IInv, InsertInv, NoDuplicates
  <2> QED BY <2>2, <2>3, <2>4, <2>8 DEF IInv
<1> QED BY <1>2, <1>3

LEMMA StopWatcherInv ==
    ASSUME IInv, NEW c \in Cluster, StopWatcher(c)
    PROVE  IInv'
<1>1. UNCHANGED <<clusterOf, phase, step, chart, rows, late>>
  BY DEF StopWatcher, workerVars
<1>2. CASE watcherOf[c] = NoWatcher
  BY <1>1, <1>2, FrameInv DEF StopWatcher
<1>3. CASE watcherOf[c] # NoWatcher
  <2> DEFINE w == watcherOf[c]
  <2>1. /\ cancelled' = [cancelled EXCEPT ![w] = phase[w] # "created"]
        /\ watcherOf' = [watcherOf EXCEPT ![c] = NoWatcher]
        /\ w \in Watcher /\ clusterOf[w] = c
    BY <1>3 DEF StopWatcher, IInv, TInv, MapInv
  <2>2. TInv'
    <3>1. (phase[w] # "created") \in BOOLEAN
      OBVIOUS
    <3>2. cancelled' \in [Watcher -> BOOLEAN]
      BY <2>1, <3>1 DEF IInv, TInv
    <3> QED BY <1>1, <2>1, <3>2 DEF IInv, TInv
  <2>3. MapInv' /\ WatcherInv' /\ WorkInv'
    BY <1>1, <2>1 DEF IInv, TInv, MapInv, WatcherInv, WorkInv
  <2>4. \A d \in Cluster : Working(d)' \subseteq Working(d)
    BY <1>1, <2>1 DEF IInv, TInv, Working
  <2>5. \A d \in Cluster : Strays(d)' = {} => Strays(d) = {}
    <3>1. SUFFICES ASSUME NEW d \in Cluster, NEW v \in Strays(d)
                   PROVE  v \in Strays(d)'
      OBVIOUS
    <3>2. v \in Watcher /\ clusterOf[v] = d /\ phase[v] = "running" /\ ~cancelled[v]
          /\ v # watcherOf[d]
      BY <3>1 DEF Strays, Working
    <3>3. v # w
      BY <2>1, <3>2
    <3>4. cancelled'[v] = cancelled[v] /\ v # watcherOf'[d]
      BY <2>1, <3>2, <3>3, WatcherType DEF IInv, TInv
    <3> QED BY <1>1, <3>2, <3>4 DEF Strays, Working
  <2>6. InsertInv' /\ NoDuplicates'
    BY <1>1, <2>4, <2>5 DEF IInv, InsertInv, NoDuplicates
  <2> QED BY <2>2, <2>3, <2>6 DEF IInv
<1> QED BY <1>2, <1>3

LEMMA DropChartsInv ==
    ASSUME IInv, DropCharts
    PROVE  IInv'
<1>1. UNCHANGED <<watcherOf, clusterOf, phase, cancelled, step, chart, late>>
  BY DEF DropCharts, watcherVars, workerVars
<1>2. rows' = [rows EXCEPT ![current] = NoRows] \/ rows' = rows
  BY DEF DropCharts, DropRows
<1>3. TInv' /\ \A c \in Cluster : rows'[c] = rows[c] \/ rows'[c] = NoRows
  BY <1>1, <1>2, NoRowsType DEF IInv, TInv
<1>4. MapInv' /\ WatcherInv' /\ WorkInv'
  BY <1>1 DEF IInv, MapInv, WatcherInv, WorkInv
<1>5. \A c : Working(c)' = Working(c) /\ Strays(c)' = Strays(c)
  BY <1>1 DEF Working, Strays
<1>6. \A w \in Watcher : step[w] = "insert" => chart[w] \in Chart
  BY DEF IInv, WorkInv
<1>7. InsertInv'
  <2>1. SUFFICES ASSUME NEW c \in Cluster \ late, Strays(c) = {}, NEW w \in Working(c),
                        step[w] = "insert"
                 PROVE  rows'[c][chart[w]] = 0
    BY <1>1, <1>5 DEF InsertInv
  <2>2. rows[c][chart[w]] = 0 /\ chart[w] \in Chart
    BY <1>6, <2>1 DEF IInv, InsertInv, Working
  <2> QED BY <1>3, <2>2, NoRowsType
<1>8. NoDuplicates'
  <2>1. SUFFICES ASSUME NEW c \in Cluster \ late, NEW h \in Chart, Strays(c) = {}
                 PROVE  rows'[c][h] <= 1
    BY <1>1, <1>5 DEF NoDuplicates
  <2>2. rows[c][h] <= 1
    BY <2>1 DEF IInv, NoDuplicates
  <2> QED BY <1>3, <2>2, NoRowsType
<1> QED BY <1>3, <1>4, <1>7, <1>8 DEF IInv

LEMMA ManagerInv ==
    ASSUME IInv, NEW w \in Watcher, Manager(w)
    PROVE  IInv'
<1>1. UNCHANGED <<watcherOf, clusterOf, cancelled, step, chart, rows, late>>
  BY DEF Manager, SetStop, RunManager, StartFails, EndManager, Lifecycle, workerVars
<1>2. PICK p \in {"started", "running", "ended"} : phase' = [phase EXCEPT ![w] = p]
  BY DEF Manager, SetStop, RunManager, StartFails, EndManager, Lifecycle
<1>3. /\ phase[w] # "unused" /\ step[w] = "idle"
      /\ phase[w] = "running" => p = "ended" /\ cancelled[w]
  <2>1. phase[w] # "running" => step[w] = "idle"
    BY DEF IInv, WorkInv
  <2>2. phase'[w] = p
    BY <1>2 DEF IInv, TInv
  <2> QED BY <2>1, <2>2 DEF Manager, SetStop, RunManager, StartFails, EndManager,
                            Lifecycle, IInv, TInv
<1>4. TInv' /\ \A v \in Watcher \ {w} : phase'[v] = phase[v]
  BY <1>1, <1>2 DEF IInv, TInv
<1>5. phase'[w] = p
  BY <1>2 DEF IInv, TInv
<1>6. MapInv' /\ WatcherInv' /\ WorkInv'
  BY <1>1, <1>3, <1>4, <1>5 DEF IInv, TInv, MapInv, WatcherInv, WorkInv
<1>7. \A d \in Cluster : /\ Strays(d)' = {} => Strays(d) = {}
                         /\ \A v \in Working(d)' : v \in Working(d) \/ v = w
  BY <1>1, <1>3, <1>4, <1>5 DEF Strays, Working
<1>8. InsertInv'
  BY <1>1, <1>3, <1>7 DEF IInv, InsertInv
<1>3a. NoDuplicates'
  BY <1>1, <1>7 DEF IInv, NoDuplicates
<1> QED BY <1>4, <1>6, <1>8, <1>3a DEF IInv

-----------------------------------------------------------------------------
(* The workers.                                                            *)

\* A step of a worker that writes nothing.
LEMMA StillInv ==
    ASSUME IInv, NEW w \in Watcher, phase[w] = "running",
           UNCHANGED <<watcherOf, clusterOf, phase, cancelled, rows, late>>,
           NEW s \in {"idle", "index", "load", "insert", "remove", "purge"},
           step' = [step EXCEPT ![w] = s],
           NEW h \in Chart \cup {NoChart}, chart' = [chart EXCEPT ![w] = h],
           s \in {"insert", "remove"} => h \in Chart,
           s = "insert" => rows[clusterOf[w]][h] = 0
    PROVE  IInv'
<1>1. TInv' /\ step'[w] = s /\ chart'[w] = h
      /\ \A v \in Watcher \ {w} : step'[v] = step[v] /\ chart'[v] = chart[v]
  BY DEF IInv, TInv
<1>2. MapInv' /\ WatcherInv' /\ WorkInv'
  BY <1>1 DEF IInv, MapInv, WatcherInv, WorkInv
<1>3. \A c : Working(c)' = Working(c) /\ Strays(c)' = Strays(c)
  BY DEF Working, Strays
<1>4. InsertInv'
  <2>1. SUFFICES ASSUME NEW c \in Cluster \ late, Strays(c) = {}, NEW v \in Working(c),
                        step'[v] = "insert"
                 PROVE  rows[c][chart'[v]] = 0
    BY <1>3 DEF InsertInv
  <2>2. CASE v = w
    BY <1>1, <2>1, <2>2 DEF Working
  <2>3. CASE v # w
    BY <1>1, <2>1, <2>3 DEF IInv, InsertInv, Working
  <2> QED BY <2>2, <2>3
<1>5. NoDuplicates'
  BY <1>3 DEF IInv, NoDuplicates
<1> QED BY <1>1, <1>2, <1>4, <1>5 DEF IInv

\* A step of a worker that writes rows of its cluster.
LEMMA WriteInv ==
    ASSUME IInv, NEW w \in Watcher, phase[w] = "running",
           UNCHANGED <<watcherOf, clusterOf, phase, cancelled>>,
           NEW s \in {"idle", "load"}, step' = [step EXCEPT ![w] = s],
           NEW h \in Chart \cup {NoChart}, chart' = [chart EXCEPT ![w] = h],
           Wrote(w), NEW r \in [Chart -> Nat],
           rows' = [rows EXCEPT ![clusterOf[w]] = r],
           \A x \in Chart :
              rows[clusterOf[w]][x] <= 1
              /\ (step[w] = "insert" => rows[clusterOf[w]][chart[w]] = 0) => r[x] <= 1
    PROVE  IInv'
<1> DEFINE c == clusterOf[w]
<1>1. c \in Cluster
  BY DEF IInv, WatcherInv
<1>2. /\ late' = IF cancelled[w] THEN late \cup {c} ELSE late
      /\ rows' = [rows EXCEPT ![c] = r]
  BY DEF Wrote
<1> HIDE DEF c
<1>3. TInv' /\ step'[w] = s /\ rows'[c] = r
      /\ \A v \in Watcher \ {w} : step'[v] = step[v] /\ chart'[v] = chart[v]
  BY <1>1, <1>2 DEF IInv, TInv
<1>3a. ASSUME NEW d \in Cluster, d # c PROVE rows'[d] = rows[d]
  BY <1>1, <1>2, <1>3a DEF IInv, TInv
<1>4. MapInv' /\ WatcherInv' /\ WorkInv'
  BY <1>3 DEF IInv, MapInv, WatcherInv, WorkInv
<1>5. \A d : Working(d)' = Working(d) /\ Strays(d)' = Strays(d)
  BY DEF Working, Strays
<1>6. c \notin late' /\ Strays(c) = {} =>
        /\ w \in Working(c) /\ \A v \in Working(c) : v = w
        /\ c \notin late
  BY <1>2 DEF Working, Strays, c
<1>7. InsertInv'
  <2>1. SUFFICES ASSUME NEW d \in Cluster, d \notin late', Strays(d) = {},
                        NEW v \in Working(d), step'[v] = "insert"
                 PROVE  rows'[d][chart'[v]] = 0
    BY <1>5 DEF InsertInv
  <2>2. v # w /\ v \in Watcher
    BY <1>3, <2>1 DEF Working
  <2>3. d # c
    BY <1>6, <2>1, <2>2
  <2>4. d \notin late
    BY <1>2, <2>1
  <2> QED BY <1>3, <1>3a, <2>1, <2>2, <2>3, <2>4 DEF IInv, InsertInv
<1>8. NoDuplicates'
  <2>1. SUFFICES ASSUME NEW d \in Cluster, d \notin late', NEW x \in Chart, Strays(d) = {}
                 PROVE  rows'[d][x] <= 1
    BY <1>5 DEF NoDuplicates
  <2>2. d \notin late
    BY <1>2, <2>1
  <2>3. CASE d # c
    <3>1. rows'[d] = rows[d]
      BY <1>3a, <2>1, <2>3
    <3>2. rows[d][x] <= 1
      BY <2>1, <2>2 DEF IInv, NoDuplicates
    <3> QED BY <3>1, <3>2
  <2>4. CASE d = c
    <3>1. rows[c][x] <= 1
      BY <2>1, <2>2, <2>4 DEF IInv, NoDuplicates
    <3>2. step[w] = "insert" => rows[c][chart[w]] = 0
      BY <1>6, <2>1, <2>2, <2>4 DEF IInv, InsertInv
    <3> QED BY <1>3, <2>4, <3>1, <3>2 DEF c
  <2> QED BY <2>3, <2>4
<1> QED BY <1>3, <1>4, <1>7, <1>8 DEF IInv

LEMMA WorkerInv ==
    ASSUME IInv, NEW w \in Watcher, Worker(w)
    PROVE  IInv'
<1>0. UNCHANGED <<watcherOf, clusterOf, phase, cancelled>>
  BY DEF Worker, ReadRepository, GetIndexFile, LoadChart, RunStatement, Loaded, Purge,
         WorkerFrame, watcherVars
<1>1. /\ step[w] \in {"idle", "index", "load", "insert", "remove", "purge"}
      /\ chart[w] \in Chart \cup {NoChart}
      /\ step = [step EXCEPT ![w] = step[w]] /\ chart = [chart EXCEPT ![w] = chart[w]]
      /\ step[w] # "idle" => phase[w] = "running"
      /\ step[w] \in {"insert", "remove"} => chart[w] \in Chart
  BY DEF IInv, TInv, WorkInv
<1>2. CASE ReadRepository(w)
  <2>1. phase[w] = "running" /\ UNCHANGED <<rows, late, chart>> /\ step[w] = "idle"
    BY <1>2 DEF ReadRepository
  <2>2. PICK s \in {"idle", "index", "purge"} : step' = [step EXCEPT ![w] = s]
    BY <1>1, <1>2, <2>1 DEF ReadRepository, Goto
  <2> QED BY <1>0, <1>1, <2>1, <2>2, StillInv
<1>3. CASE GetIndexFile(w)
  <2>1. phase[w] = "running" /\ UNCHANGED <<rows, late, chart>>
    BY <1>1, <1>3 DEF GetIndexFile
  <2>2. PICK s \in {"idle", "load"} : step' = [step EXCEPT ![w] = s]
    BY <1>3 DEF GetIndexFile, RetryLater, Return, Goto
  <2> QED BY <1>0, <1>1, <2>1, <2>2, StillInv
<1>4. ASSUME NEW h \in Chart, LoadChart(w, h) PROVE IInv'
  <2>1. phase[w] = "running" /\ UNCHANGED <<rows, late>> /\ step[w] = "load"
    BY <1>1, <1>4 DEF LoadChart
  <2>2. \/ UNCHANGED <<step, chart>>
        \/ step' = [step EXCEPT ![w] = "remove"] /\ chart' = [chart EXCEPT ![w] = h]
        \/ /\ step' = [step EXCEPT ![w] = "insert"] /\ chart' = [chart EXCEPT ![w] = h]
           /\ ~(rows[clusterOf[w]][h] > 0)
    BY <1>4 DEF LoadChart, RemoveChart, AddChart, Goto
  <2>3. CASE UNCHANGED <<step, chart>>
    BY <1>0, <2>1, <2>3, FrameInv
  <2>4. CASE step' = [step EXCEPT ![w] = "remove"] /\ chart' = [chart EXCEPT ![w] = h]
    BY <1>0, <2>1, <2>4, StillInv
  <2>5. CASE /\ step' = [step EXCEPT ![w] = "insert"] /\ chart' = [chart EXCEPT ![w] = h]
             /\ ~(rows[clusterOf[w]][h] > 0)
    <3>1. rows[clusterOf[w]][h] \in Nat
      BY <2>1 DEF IInv, TInv, WatcherInv
    <3>2. rows[clusterOf[w]][h] = 0
      BY <2>5, <3>1
    <3> QED BY <1>0, <2>1, <2>5, <3>2, StillInv
  <2> QED BY <2>2, <2>3, <2>4, <2>5
<1>5. CASE RunStatement(w)
  <2> DEFINE c == clusterOf[w]
  <2>1. /\ phase[w] = "running" /\ step[w] \in {"insert", "remove"} /\ chart[w] \in Chart
        /\ step' = [step EXCEPT ![w] = "load"] /\ chart' = [chart EXCEPT ![w] = NoChart]
    BY <1>1, <1>5 DEF RunStatement, Goto
  <2>2. CASE UNCHANGED <<rows, late>>
    BY <1>0, <2>1, <2>2, StillInv
  <2>3. CASE ~UNCHANGED <<rows, late>>
    <3>1. Wrote(w) /\ rows' = [rows EXCEPT ![c][chart[w]] =
                                 IF step[w] = "insert" THEN @ + 1 ELSE 0]
      BY <1>5, <2>3 DEF RunStatement
    <3> DEFINE r == [rows[c] EXCEPT ![chart[w]] = IF step[w] = "insert" THEN @ + 1 ELSE 0]
    <3>2. rows' = [rows EXCEPT ![c] = r]
      BY <3>1
    <3>3. rows[c] \in [Chart -> Nat]
      BY <2>1 DEF IInv, TInv, WatcherInv
    <3>4. r \in [Chart -> Nat]
      <4>1. rows[c][chart[w]] + 1 \in Nat
        BY <2>1, <3>3
      <4>2. CASE step[w] = "insert"
        BY <3>3, <4>1, <4>2
      <4>3. CASE step[w] # "insert"
        BY <3>3, <4>3
      <4> QED BY <4>2, <4>3
    <3>5. \A x \in Chart :
            rows[c][x] <= 1 /\ (step[w] = "insert" => rows[c][chart[w]] = 0) => r[x] <= 1
      BY <2>1, <3>3
    <3> HIDE DEF r
    <3> QED BY <1>0, <2>1, <3>1, <3>2, <3>4, <3>5, WriteInv
  <2> QED BY <2>2, <2>3
<1>6. CASE Loaded(w)
  <2>1. /\ phase[w] = "running" /\ UNCHANGED <<rows, late, chart>>
        /\ step' = [step EXCEPT ![w] = "idle"]
    BY <1>1, <1>6 DEF Loaded, Return, Goto
  <2> QED BY <1>0, <1>1, <2>1, StillInv
<1>7. CASE Purge(w)
  <2>1. /\ phase[w] = "running" /\ UNCHANGED chart
        /\ step' = [step EXCEPT ![w] = "idle"]
    BY <1>1, <1>7 DEF Purge, PurgeRetried, Return, Goto
  <2>2. CASE UNCHANGED <<rows, late>>
    BY <1>0, <1>1, <2>1, <2>2, StillInv
  <2>3. CASE Wrote(w) /\ rows' = [rows EXCEPT ![clusterOf[w]] = NoRows]
    <3>1. chart' = [chart EXCEPT ![w] = chart[w]]
      BY <1>1, <2>1
    <3>2. \A x \in Chart : NoRows[x] <= 1
      BY NoRowsType
    <3> QED BY <1>0, <1>1, <2>1, <2>3, <3>1, <3>2, NoRowsType, WriteInv
  <2> QED BY <1>7, <2>2, <2>3 DEF Purge
<1> QED BY <1>2, <1>3, <1>4, <1>5, <1>6, <1>7 DEF Worker

LEMMA NextInv == IInv /\ [Next]_vars => IInv'
<1> SUFFICES ASSUME IInv, [Next]_vars PROVE IInv'
  OBVIOUS
<1>1. CASE Poll \/ Crash
  BY <1>1, OutsideInv
<1>2. CASE Tracker
  BY <1>2, OutsideInv, AddClusterInv, StopWatcherInv, DropChartsInv DEF Tracker
<1>3. ASSUME NEW c \in Cluster, EditRepository(c) \/ Finalize(c) PROVE IInv'
  BY <1>3, OutsideInv
<1>4. ASSUME NEW w \in Watcher, Manager(w) \/ Worker(w) PROVE IInv'
  BY <1>4, ManagerInv, WorkerInv
<1>5. CASE UNCHANGED vars
  BY <1>5, FrameInv DEF vars, watcherVars, workerVars
<1> QED BY <1>1, <1>2, <1>3, <1>4, <1>5 DEF Next

\* However many watchers a cluster has had, and whatever has failed or was
\* stopped half way, a chart has one row at most as long as no watcher of its
\* cluster has run on after its Stop or beside another one: AddChart looks
\* first, and nobody else can insert between its look and its insert.
THEOREM NeverTwice == Spec => []NoDuplicates
<1>1. IInv => NoDuplicates
  BY DEF IInv
<1> QED BY <1>1, InitInv, NextInv, PTL DEF Spec

-----------------------------------------------------------------------------
(* What a cluster that has gone leaves behind.                             *)

\* Start drops charts for one cluster at a time.
DropInv ==
    /\ failures \in Nat
    /\ current \in Cluster \cup {NoCluster}
    /\ pc # "drop" => current = NoCluster

LEMMA FailuresGrow ==
    ASSUME DropInv, [Next]_vars
    PROVE  failures' \in Nat /\ (failures' = 0 => failures = 0)
<1>1. UNCHANGED failures \/ failures' = failures + 1
  <2>1. CASE Poll \/ Crash
    BY <2>1 DEF Poll, Crash
  <2>2. CASE Tracker
    BY <2>2 DEF Tracker, Subscribe, GetClusters, AddCluster, AddFails, Added, Receive,
                StopWatcher, DropCharts, Removed, Fail
  <2>3. ASSUME NEW c \in Cluster, EditRepository(c) \/ Finalize(c)
        PROVE  UNCHANGED failures
    BY <2>3 DEF EditRepository, Edit, Finalize
  <2>4. ASSUME NEW w \in Watcher, Manager(w) \/ Worker(w)
        PROVE  UNCHANGED failures \/ failures' = failures + 1
    BY <2>4 DEF Manager, SetStop, RunManager, StartFails, EndManager, Fail, Worker,
                ReadRepository, GetIndexFile, LoadChart, RunStatement, Loaded, Purge
  <2>5. CASE UNCHANGED vars
    BY <2>5 DEF vars
  <2> QED BY <2>1, <2>2, <2>3, <2>4, <2>5 DEF Next
<1> QED BY <1>1 DEF DropInv

LEMMA DropKept ==
    ASSUME DropInv, [Next]_vars
    PROVE  DropInv'
<1>1. UNCHANGED <<pc, current>> \/ (pc # "drop" /\ UNCHANGED current)
      \/ current' = NoCluster \/ (pc' = "drop" /\ current' \in Cluster)
  <2>1. CASE Poll \/ Crash
    BY <2>1 DEF Poll, Crash, Reset, trackerVars
  <2>2. CASE Subscribe \/ GetClusters \/ Added \/ Receive \/ DropCharts \/ Removed
    BY <2>2 DEF Subscribe, GetClusters, Added, Receive, DropCharts, Removed
  <2>3. ASSUME NEW c \in Cluster, AddCluster(c) \/ AddFails(c)
        PROVE  UNCHANGED <<pc, current>> \/ (pc # "drop" /\ UNCHANGED current)
               \/ current' = NoCluster
    BY <2>3 DEF AddCluster, AddFails, Reset
  <2>4. ASSUME NEW c \in Cluster, StopWatcher(c)
        PROVE  UNCHANGED <<pc, current>> \/ (pc' = "drop" /\ current' \in Cluster)
    BY <2>4 DEF StopWatcher
  <2>5. ASSUME NEW c \in Cluster, EditRepository(c) \/ Finalize(c)
        PROVE  UNCHANGED <<pc, current>>
    BY <2>5 DEF EditRepository, Edit, Finalize, trackerVars
  <2>6. ASSUME NEW w \in Watcher, Manager(w) \/ Worker(w)
        PROVE  UNCHANGED <<pc, current>>
    BY <2>6 DEF Manager, SetStop, RunManager, StartFails, EndManager, Lifecycle, Worker,
                ReadRepository, GetIndexFile, LoadChart, RunStatement, Loaded, Purge,
                WorkerFrame, trackerVars
  <2>7. CASE UNCHANGED vars
    BY <2>7 DEF vars, trackerVars
  <2> QED BY <2>1, <2>2, <2>3, <2>4, <2>5, <2>6, <2>7 DEF Next, Tracker
<1>2. pc' # "drop" => current' = NoCluster
  BY <1>1 DEF DropInv
<1> QED BY <1>1, <1>2, FailuresGrow DEF DropInv

\* A step that neither writes rows nor stops a watcher.
LEMMA GoneFrame ==
    ASSUME GoneWithCluster, failures' = 0 => failures = 0,
           UNCHANGED <<rows, late, current>>,
           \A c \in Cluster : watcherOf'[c] = NoWatcher =>
               watcherOf[c] = NoWatcher /\ (Strays(c)' = {} => Strays(c) = {})
    PROVE  GoneWithCluster'
BY DEF GoneWithCluster

LEMMA GoneReset ==
    ASSUME Reset
    PROVE  GoneWithCluster'
BY DEF Reset, GoneWithCluster

LEMMA GoneTracker ==
    ASSUME IInv, DropInv, GoneWithCluster, Tracker, failures' = 0 => failures = 0
    PROVE  GoneWithCluster'
<1>1. CASE Reset
  BY <1>1, GoneReset
<1>2. CASE ~Reset /\ (\/ Subscribe \/ GetClusters \/ Added \/ Receive \/ Removed
                      \/ \E c \in Cluster : AddFails(c))
  <2>1. UNCHANGED <<watcherOf, clusterOf, phase, cancelled, rows, late, current>>
    BY <1>2 DEF Subscribe, GetClusters, Added, Receive, Removed, AddFails, watcherVars
  <2> QED BY <2>1, GoneFrame DEF Strays, Working
<1>3. ASSUME NEW c \in Cluster, AddCluster(c)
      PROVE  GoneWithCluster'
  <2>1. UNCHANGED <<cancelled, rows, late, current>>
    BY <1>3 DEF AddCluster
  <2>2. CASE watcherOf[c] # NoWatcher
    <3>1. UNCHANGED <<watcherOf, clusterOf, phase>>
      BY <1>3, <2>2 DEF AddCluster
    <3> QED BY <2>1, <3>1, GoneFrame DEF Strays, Working
  <2>3. CASE watcherOf[c] = NoWatcher
    <3>1. PICK w \in Watcher :
            /\ phase[w] = "unused"
            /\ watcherOf' = [watcherOf EXCEPT ![c] = w]
            /\ clusterOf' = [clusterOf EXCEPT ![w] = c]
            /\ phase' = [phase EXCEPT ![w] = "created"]
      BY <1>3, <2>3 DEF AddCluster
    <3>2. ASSUME NEW d \in Cluster, watcherOf'[d] = NoWatcher
          PROVE  watcherOf[d] = NoWatcher /\ Working(d) \subseteq Working(d)'
      <4>1. d # c /\ watcherOf[d] = NoWatcher
        BY <3>1, <3>2, WatcherType DEF IInv, TInv
      <4>2. ASSUME NEW v \in Working(d) PROVE v \in Working(d)'
        <5>1. v \in Watcher /\ v # w
          BY <3>1, <4>2 DEF Working
        <5>2. clusterOf'[v] = clusterOf[v] /\ phase'[v] = phase[v]
          BY <3>1, <5>1 DEF IInv, TInv
        <5> QED BY <2>1, <4>2, <5>1, <5>2 DEF Working
      <4> QED BY <4>1, <4>2
    <3>3. ASSUME NEW d \in Cluster, watcherOf'[d] = NoWatcher
          PROVE  watcherOf[d] = NoWatcher /\ (Strays(d)' = {} => Strays(d) = {})
      BY <3>2, <3>3 DEF Strays
    <3> QED BY <2>1, <3>3, GoneFrame
  <2> QED BY <2>2, <2>3
<1>4. ASSUME NEW c \in Cluster, StopWatcher(c)
      PROVE  GoneWithCluster'
  <2>1. UNCHANGED <<clusterOf, phase, rows, late, failures>>
    BY <1>4 DEF StopWatcher
  <2>2. CASE watcherOf[c] = NoWatcher
    <3>1. UNCHANGED <<watcherOf, cancelled, current>>
      BY <1>4, <2>2 DEF StopWatcher
    <3> QED BY <2>1, <3>1, GoneFrame DEF Strays, Working
  <2>3. CASE watcherOf[c] # NoWatcher
    <3> DEFINE w == watcherOf[c]
    <3>1. /\ cancelled' = [cancelled EXCEPT ![w] = phase[w] # "created"]
          /\ watcherOf' = [watcherOf EXCEPT ![c] = NoWatcher]
          /\ current' = c /\ current = NoCluster
          /\ w \in Watcher /\ clusterOf[w] = c
      BY <1>4, <2>3 DEF StopWatcher, DropInv, IInv, TInv, MapInv
    <3>2. ASSUME NEW d \in Cluster \ late, watcherOf'[d] = NoWatcher, current' # d,
                 Strays(d)' = {}, failures = 0
          PROVE  rows[d] = NoRows
      <4>1. d # c /\ watcherOf[d] = NoWatcher /\ current # d
        BY <3>1, <3>2, HelmAssumption DEF IInv, TInv
      <4>2. ASSUME NEW v \in Strays(d) PROVE v \in Strays(d)'
        <5>1. v \in Watcher /\ clusterOf[v] = d /\ v # watcherOf[d]
              /\ phase[v] = "running" /\ ~cancelled[v]
          BY <4>2 DEF Strays, Working
        <5>2. v # w
          BY <3>1, <4>1, <5>1
        <5>3. cancelled'[v] = cancelled[v]
          BY <3>1, <5>1, <5>2 DEF IInv, TInv
        <5> QED BY <2>1, <3>2, <4>1, <5>1, <5>3 DEF Strays, Working
      <4>3. Strays(d) = {}
        BY <3>2, <4>2
      <4> QED BY <3>2, <4>1, <4>3 DEF GoneWithCluster
    <3> QED BY <2>1, <3>2 DEF GoneWithCluster
  <2> QED BY <2>2, <2>3
<1>5. CASE DropCharts
  <2>1. UNCHANGED <<watcherOf, clusterOf, phase, cancelled, late>>
    BY <1>5 DEF DropCharts, watcherVars
  <2>2. CASE failures' # 0
    BY <2>2 DEF GoneWithCluster
  <2>3. CASE failures' = 0
    <3>1. rows' = [rows EXCEPT ![current] = NoRows]
      BY <1>5, <2>3 DEF DropCharts, DropRows, DropInv, Fail
    <3>2. ASSUME NEW d \in Cluster \ late, watcherOf[d] = NoWatcher, Strays(d) = {}
          PROVE  rows'[d] = NoRows
      <4>1. CASE d = current
        BY <3>1, <3>2, <4>1 DEF IInv, TInv
      <4>2. CASE d # current
        <5>1. rows[d] = NoRows
          BY <2>3, <3>2, <4>2 DEF GoneWithCluster
        <5> QED BY <3>1, <3>2, <4>2, <5>1 DEF IInv, TInv
      <4> QED BY <4>1, <4>2
    <3>3. \A d \in Cluster : Strays(d)' = Strays(d)
      BY <2>1 DEF Strays, Working
    <3> QED BY <2>1, <3>2, <3>3 DEF GoneWithCluster
  <2> QED BY <2>2, <2>3
<1> QED BY <1>1, <1>2, <1>3, <1>4, <1>5 DEF Tracker

LEMMA GoneManager ==
    ASSUME IInv, GoneWithCluster, NEW w \in Watcher, Manager(w),
           failures' = 0 => failures = 0
    PROVE  GoneWithCluster'
<1>1. UNCHANGED <<watcherOf, clusterOf, cancelled, rows, late, current>>
  BY DEF Manager, SetStop, RunManager, StartFails, EndManager, Lifecycle, trackerVars
<1>2. PICK p : phase' = [phase EXCEPT ![w] = p]
  BY DEF Manager, SetStop, RunManager, StartFails, EndManager, Lifecycle
<1>3. phase[w] = "running" => cancelled[w]
  <2>1. SUFFICES ASSUME phase[w] = "running" PROVE cancelled[w]
    OBVIOUS
  <2> QED BY <2>1 DEF Manager, SetStop, RunManager, StartFails, EndManager
<1>4. \A c \in Cluster : Working(c) \subseteq Working(c)'
  BY <1>1, <1>2, <1>3 DEF IInv, TInv, Working
<1>5. \A c \in Cluster : Strays(c)' = {} => Strays(c) = {}
  BY <1>1, <1>4 DEF Strays
<1> QED BY <1>1, <1>5, GoneFrame

\* A worker that writes is one whose cluster has a watcher, or a stray, or
\* it is a stopped one that writes late.
LEMMA GoneWorker ==
    ASSUME IInv, GoneWithCluster, NEW w \in Watcher, Worker(w),
           failures' = 0 => failures = 0
    PROVE  GoneWithCluster'
<1> DEFINE c == clusterOf[w]
<1>1. /\ UNCHANGED <<watcherOf, clusterOf, phase, cancelled, current>>
      /\ phase[w] = "running"
  BY DEF Worker, ReadRepository, GetIndexFile, LoadChart, RunStatement, Loaded, Purge,
         WorkerFrame, watcherVars, trackerVars, IInv, WorkInv
<1>2. \A d \in Cluster : Strays(d)' = Strays(d)
  BY <1>1 DEF Strays, Working
<1>3. CASE UNCHANGED <<rows, late>>
  BY <1>1, <1>2, <1>3, GoneFrame
<1>4. CASE ~UNCHANGED <<rows, late>>
  <2>1. c \in Cluster
    BY <1>1 DEF IInv, WatcherInv
  <2>2. Wrote(w) /\ \A d \in Cluster \ {c} : rows'[d] = rows[d]
    <3>1. CASE RunStatement(w)
      BY <1>4, <2>1, <3>1 DEF RunStatement, IInv, TInv
    <3>2. CASE Purge(w)
      BY <1>4, <2>1, <3>2 DEF Purge, IInv, TInv
    <3>3. CASE ~RunStatement(w) /\ ~Purge(w)
      BY <1>4, <3>3 DEF Worker, ReadRepository, GetIndexFile, LoadChart, Loaded
    <3> QED BY <3>1, <3>2, <3>3
  <2>3. ASSUME NEW d \in Cluster \ late', watcherOf[d] = NoWatcher, current # d,
               Strays(d) = {}, failures' = 0
        PROVE  rows'[d] = NoRows
    <3>1. d \notin late
      BY <2>2, <2>3 DEF Wrote
    <3>2. d # c
      <4>1. SUFFICES ASSUME d = c PROVE FALSE
        OBVIOUS
      <4>2. ~cancelled[w]
        BY <2>2, <2>3, <4>1 DEF Wrote
      <4>3. w # NoWatcher
        BY WatcherType
      <4> QED BY <1>1, <2>3, <4>1, <4>2, <4>3 DEF Strays, Working
    <3> QED BY <2>2, <2>3, <3>1, <3>2 DEF GoneWithCluster
  <2> QED BY <1>1, <1>2, <2>3 DEF GoneWithCluster
<1> QED BY <1>3, <1>4

LEMMA GoneStep ==
    ASSUME IInv, DropInv, GoneWithCluster, [Next]_vars
    PROVE  DropInv' /\ GoneWithCluster'
<1>1. DropInv' /\ (failures' = 0 => failures = 0)
  BY DropKept, FailuresGrow
<1>2. CASE Tracker
  BY <1>1, <1>2, GoneTracker
<1>3. CASE Crash
  BY <1>1, <1>3, GoneReset DEF Crash
<1>4. ASSUME NEW w \in Watcher, Manager(w) \/ Worker(w)
      PROVE  GoneWithCluster'
  BY <1>1, <1>4, GoneManager, GoneWorker
<1>5. CASE \/ Poll \/ \E c \in Cluster : EditRepository(c) \/ Finalize(c)
           \/ UNCHANGED vars
  <2>1. UNCHANGED <<watcherOf, clusterOf, phase, cancelled, rows, late, current>>
    BY <1>5 DEF Poll, EditRepository, Edit, Finalize, vars, watcherVars, trackerVars
  <2> QED BY <1>1, <2>1, GoneFrame DEF Strays, Working
<1> QED BY <1>1, <1>2, <1>3, <1>4, <1>5 DEF Next

\* As long as no call has failed, a cluster that has gone has left no charts,
\* for any number of clusters, watchers and crashes: whoever could still write
\* them has been stopped, and then a write is late, or is a stray.
THEOREM GoneTogether == Spec => []GoneWithCluster
<1>1. Init => DropInv /\ GoneWithCluster
  BY HelmAssumption DEF Init, Fresh, DropInv, GoneWithCluster
<1> QED BY <1>1, InitInv, NextInv, GoneStep, PTL DEF Spec
=============================================================================
