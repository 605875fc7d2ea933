# Verification of weave-gitops-enterprise

TLA+ models of the parts of weave-gitops-enterprise that act concurrently and
fail halfway, the TLC runs that check them on small instances, and TLAPS proofs
of what matters most for every instance. Every definition is translated from
the source; `PROJECT.json` maps each to its file and lines. Paths below are
relative to the repository.

- [The system](#the-system)
- [What is modelled, and how](#what-is-modelled-and-how): `Collector`,
  `Objects` and `Mirror`, `Query`, `Helm`, `Connect`, `PullRequests` and `Repository`,
  `Bootstrap`
- [What the runs show](#what-the-runs-show), their bounds and fairness
- [What is proved](#what-is-proved)
- [What is not modelled](#what-is-not-modelled)
- [Plan](#plan)

## The system

Weave GitOps Enterprise is a set of services over many Kubernetes clusters. The
management cluster lists the others as `GitopsCluster` objects; the clusters
manager (of Weave GitOps, outside this repository) polls the fetchers of
`pkg/cluster/fetcher` and tells its subscribers what was added and removed.

### Explorer (`pkg/query`)

The Explorer copies objects of every cluster into one SQL store and one search
index and answers queries over them. It has the most long-lived state that
several goroutines write, and is the core of this project. The store and the
index live in temporary directories, so nothing survives a restart of the
process: what must be recovered from is a watcher, not a process, that starts
again.

| Part | State | Operations | Interacts with |
|---|---|---|---|
| collector (`collector/watching.go`), one each for roles, objects, tenants | map of cluster records, work queue | `Start`, `watch`, `unwatch`, `Status` | clusters manager (channel), watchers (goroutines), stop hooks (callback) |
| watcher and reconciler (`collector/watcher.go`, `collector/reconciler`) | controller queues | `Reconcile` | Kubernetes (watch), the consumer (unbuffered channel) |
| objects collector (`objectscollector`) | none | `processRecords` in two goroutines | store, index |
| role collector (`rolecollector`) | none | `processRecords` in two goroutines | store |
| tenants collector (`tenantscollector`) | none | `update` | store |
| store (`store/sqlite.go`) | tables of objects, roles and rules, bindings and subjects, tenants | statements, one connection | everyone |
| index (`store/indexer.go`) | two documents per object | `Add`, `Remove`, `RemoveByQuery`, `Search`, `ListFacets` | collectors, cleaner, queries |
| cleaner (`cleaner/cleaner.go`) | ticker, status | `Start`, `Stop`, `removeOldObjects` | store, index |
| query and authorisation (`query.go`, `rbac/rbac.go`) | per query: roles and bindings read, role lookup of each cluster | `RunQuery`, `ObjectAuthorizer` | store, index |
| server (`server/server.go`) | cancel function, cleaner | `NewServer`, `StopCollection` | all of these |

Hard behaviours: goroutines of several watchers of one cluster; a stop hook
that runs beside the consumer; deletions that are coalesced or never reported;
failing store and index calls that nobody retries; a queue whose protection is
undone by additional `Done` calls; writes and reads of roles that are several
statements each. What makes these parts correct:

- collector: a cluster is never forgotten, and is watched in the end; nobody
  sees a cancelled record; a cluster has one watcher; stopping finishes;
- pipeline: the store never goes back in time and never drops an object that
  exists; what is settled matches the cluster; deletions are noticed; failures
  are repaired;
- query: nobody is shown an object that no role permits; everyone is shown what
  their roles permit; the memoised role lookup equals a full search.

### Helm charts (`pkg/helm`, `cmd/clusters-service/pkg/server/charts.go`)

`ClusterHelmIndexerTracker` keeps a map of watchers, one per cluster, started
and stopped by the same updates as above; each watcher's reconciler loads the
index file of a HelmRepository into the chart cache (a SQL table). Values of a
chart are fetched by jobs: the request returns an id at once and the client
polls. Hard: `addClusters` returns at the first failure; a watcher that fails to
start stays in the map; `Stop` may run before `StartWatcher` has set its cancel
function; check-then-insert without a unique key. Correct if every cluster in
the list is indexed in the end, a removed one leaves no charts, no chart is
listed twice, and the cache has the versions of the last index file.

### Changes to Git (`pkg/git`, `cmd/clusters-service/pkg/server`)

The clusters service writes no resource itself: it generates files from a
template, or the files to delete, and asks a git provider for a branch, one or
two commits, and a pull request. Each is a call that can fail, with or without
effect; the name of the branch is often a hash of the names of the clusters, so
that requests share it. What an edit replaces was read by the client some time
before. Correct if a pull request proposes its request, whole, and nothing else,
and if the base branch holds the files of what was merged and no others.

### Connecting clusters (`pkg/cluster/connector`, `pkg/cluster/fetcher`)

`connect` makes a service account, a binding and a token secret in the leaf
cluster, then puts the token into the secret of the GitopsCluster in the
management cluster; `disconnect` undoes it. Both are sequences of calls to two
API servers that the administrator runs again after a failure, beside the token
controller of the leaf cluster. The fetcher lists the clusters whose conditions
are true and makes a client from each secret; the list it returns is what
everything above starts from. Correct if running the commands again succeeds
from wherever one stopped, if nothing of others is deleted, and if one broken
cluster does not keep the others out of the list.

### Bootstrap (`pkg/bootstrap`)

`gitops bootstrap` and `gitops bootstrap auth` read once what is there, then run
steps in order; a step puts out secrets (created in the cluster) and files
(committed, pushed, applied by Flux), written one by one before the next step
runs. An administrator whose command fails runs one again. Hard: what the last
command left half done is taken for finished; the values of the release are
read from the cluster and written to git; a release without a version counts as
none. Correct if success means done, if OIDC is not configured without its
secret nor lost, and if repeating a command gets there.

### The rest

Stateless request handlers (clusters service, pipelines, Terraform, preview),
caches of one minute (`pkg/cluster/namespaces`), pure computation (templates,
estimation), OAuth (`pkg/gitauth`), the command line and the UI. They are listed
in `PROJECT.json` with the reason each is left out.

## What is modelled, and how

### Collector

`Collector` is `pkg/query/collector/watching.go`. The processes are the
goroutine inside `Start`, the worker, and one goroutine per watcher.

| Model | Code |
|---|---|
| `watchers`: name to record | `clusterWatchers` |
| `cluster`, `phase`, `status`, `cancelled` of a record | `child`, its context, and where the goroutine that runs its `Starter` is |
| `queue`, `dirty`, `processing`, `delayed` | the rate-limiting work queue, external, as the code uses it |
| `updates`, `known`, `Poll` | subscription and list of the clusters manager, external |
| `Subscribe`, `GetClusters`, `AddCluster`, `StartWorker`, `ReceiveUpdate`, `ForgetRemoved`, `Unwatch`, `UnwatchCancel`, `StopHook`, `Stop` | `Start` and `unwatch`; a step ends where the lock is released or another goroutine can be heard |
| `WorkerGet` ... `WorkerRetry` | the worker and `watch` |
| `MarkStarted`, `StarterFails`, `Requeue`, `StarterStops` | the goroutine `watch` starts |
| `seen` | history: what `Start` has been told of |

A cluster has one name but a new `cluster.Cluster` value in every poll, and the
queue tells values apart, not names; so the runs give one cluster two values.

### Objects, and Mirror

`Objects` follows an object from its cluster to the store and the index:
`Reconcile` in one worker per kind, the unbuffered channel, `processRecords` in
the consumer and in the stop hook, the calls they make to the store and the
index one by one, each of which may fail, and a tick of the cleaner.

An object's life is a sequence of states (`present`, `terminating`, `absent`);
its version is a place in this sequence, so that "goes back to an earlier
version" can be said. A reconcile request names an object and no state; that is
why deletions can be missed (`TransactionTypes`). `Finalized`, `Listed` and
`Retained` are the three things about kinds that the code distinguishes:
finalizers, `kindsWithoutFinalizers`, and a retention policy. Time is a step that
makes all past versions of an object older than its retention
(`RetentionPasses`).

`Mirror` is the abstract specification: for each object the store catches up
with a version, which with `Ordered` is never earlier than the last, and then holds what
that version calls for, or drops an object that was kept after its deletion until its
retention had passed (`CleanAway`), or a whole cluster is forgotten.
`M == INSTANCE Mirror WITH stored <- row, Cleaner <- EnableObjectCleaner, Ordered <-
Sequential` maps it to `Objects`, and `StoreMirrors` (`M!MirrorSpec`) states that `Objects` implements
it; `applied`, the version caught up with, is its only variable that the code has
no counterpart of.

`InHandInv` and `SettledInv` say why: the first that what is on its way to the store
is true (`FitInv`) and, with `Sequential`, in order (`OrderInv`), the second that until
store and index are right about an object its latest version is on its way. They are the
invariants of the proofs.

The cleaner reads all rows and then looks at them one by one, deleting by the id of what
it read. A row without a deletion timestamp never counts as expired, so `snapshot` keeps
the others only. What it deletes may by then be an object that has been created again:
`Cleanable` says when that can be, and `SettledMatches` excepts exactly these objects. In
the shipped configuration there are none (the only kind with a retention policy, Event,
has no finalizers, see ObjectsEvent), although the cleaner runs (`app/server.go:704`).

`Sequential` names what `Collector` does not guarantee (see `OneWatcherPerCluster`
below): that a cluster is watched again only after its last watcher and stop hook
have finished. Safety is checked with it, liveness without it; the proofs do without it
where they can.

### Query

`Query` puts the role collector's writes and the reads of `RunQuery` side by
side, statement by statement: a role is written as "delete its rules", "insert
the role and its rules", and read as "select roles", "select their rules";
bindings and subjects likewise. A role's permissions are the kinds it may list,
a binding's content its users. The stop hook deletes a cluster's roles, then its
bindings, and leaves rules and subjects behind, as the code does.

`LookUp` is `GetRole` and `GetClusterRole` of `clusterRBACGetLister`: an index
that files every role it passes over and remembers missing ones. `Consult` is
one step of `RulesFor` of Kubernetes: cluster role bindings first, then the
others in any order, and a binding of a missing role makes the whole check an
error. `Decide` is RunQuery's reaction: an error hides the object.

`offered` and `quiet` are history: what each row has had between the first and
the last read of the query, and whether anything was written since it began.

The change of a role and its transaction are joined in `Receive`: how they come
apart is `Objects`' subject, and the consumer handles what it receives last in
either. `Watch` assumes that nothing is left of the last watcher of the cluster
and its stop hook, as `Sequential` does.

### Helm

`Helm` is `pkg/helm/indexer`, `pkg/helm/multiwatcher` and the statements of
`pkg/helm/helm_chart_indexer.go`.

| Model | Code |
|---|---|
| `pc`, `adding`, `removing`, `current`; `Subscribe` ... `Removed` | the tracker's `Start` and `addClusters`, one cluster at a time |
| `watcherOf`; `clusterOf`, `phase`, `cancelled` | `ClusterWatchers`; a `Watcher`, how far its `StartWatcher` is, whether `stopFn` has been called |
| `queued`, `step`, `filter`, `todo`, `chart`; `ReadRepository` ... `Purge` | the one worker of the watcher's manager, `Reconcile` and `LoadIndex`, a step for each statement or fetch |
| `repo`, `allowed`, `index`; `EditRepository`, `Finalize` | HelmRepositories (external): created, published, their filter annotation changed, deleted |
| `rows` | the table: how many rows a chart has, since nothing makes them unique |
| `Reset` | a crash, or an exit because `Start` failed: the container starts with an empty cache |
| `late`, `unseen`, `skipped` | observations: a stopped watcher wrote; `addClusters` returned before this cluster; a chart's own statement failed |

The rows of two repositories never mix and a manager has one worker, so a cluster
has one repository. The observations mark what the code does not repair: a late
write of a stopped watcher, a cluster that no later update names, a chart whose
statement failed. The properties except exactly these.

### Connect

`Connect` is `pkg/cluster/connector` and the GitopsCluster fetcher. Every call to
an API server is a step, and after any of them `Interrupt` may end the command: a
call that fails, an answer that is lost, or the command killed. Secrets are told
apart by whether their token belongs to the account that is there (`current`) or
to one since deleted (`stale`); accounts and bindings by whether they carry the
label of `connect` (`ours`, `foreign`). The token controller, which fills and
deletes token secrets, and the cluster controller, which sets the conditions, are
external. `Misreported` clusters have true conditions and no secret.

`connect` refuses a token secret that is there, `disconnect` refuses a cluster
without an account, so repeating one command may fail for ever. With `Alternate` the
administrator runs the other one after a failure.

### PullRequests

`PullRequests` is `CreatePullRequest` and `CreateDeletionPullRequest` of the clusters
service, with `GetFiles` and `getDeletedFiles`, over the providers for GitHub and
Bitbucket (which run the same code) and GitLab. A file is a cluster and a part
(manifest, profiles, a kustomization); its content is the values that were asked
for. A call goes through `List` (deletions only), `CreateBranch`,
`GetUpdatedFiles` and `CommitClean` (GitLab only), `Commit`, `Propose`; each may fail
before or after its effect, and the client may send the request again. `Merge` is
git's merge, file by file.

`outdated`, `overtaken` and `spoiled` are observations: a request whose files were
generated from something that a merge has changed; a branch made for such a request;
such a branch merged. Nothing in the code detects this case: the branch is made from
the newest commit of the base, so git sees no conflict.

`Repository` is the abstract specification, cluster by cluster and without files: a cluster
has a value or is absent, and changes only when an open proposal lands. A proposal lands
whole and touches no cluster but its own (two, for an edit that moves one), and what it
replaces is what its author has seen or what it wants anyway, so that nobody's change is
lost; only a proposal that was stale when it was made may replace something else, and a
deletion may find its cluster gone and back. `Repo == INSTANCE Repository` maps `clusters` to
the manifests of the base branch, `proposed` to the open pull requests, and `stale` to
`overtaken`; `LandsAsAsked` states that `PullRequests` implements it. It says what
`BaseFollows` does not: that files are whole would also hold of a merge that reverts what
another has done.

### Bootstrap

`Bootstrap` is `pkg/bootstrap`: `config` is what `Build` finds, `pc` the step of the
workflow, `outputs` what `defaultOutputStep` has still to write. A file is written by
`CommitFile` (clone, commit, push) and `ReconcileFlux` (which returns when Flux has
applied it); in between `PushAnswerLost` and `StepFails` may end the command. `repo`
is the files in git, `cluster` those that Flux has applied.

A command is a record of its flags. `refuses` is whether the git library refuses a
commit that changes nothing (it depends on the library's version). `ChangeGoal`,
`Repeat` and `RemoveOidcSecret` are the administrator, who leaves the password out
once there are credentials and removes the secret of an OIDC that is not configured,
as the command tells him to.

### How the modules fit together

`Connect` ends in `listed`, the list of clusters. `Collector` and `Helm` begin with
it: their `Poll` lets it change to any other list at any time, which includes every
list that `Connect` produces. `Collector` promises that a listed cluster is watched,
and disproves that it has one watcher; `Objects` takes both over, as watchers that
stop and start and as the constant `Sequential`. `Query` reads the store beside the
writers of roles.

## What the runs show

| Run | Properties | Shows |
|---|---|---|
| CollectorSafety | NeverForgotten, CancelledRecordHasFailed, IInv, StraysStay | A cluster the collector was told of has a live watcher or a pending attempt, whatever fails; `Status` sees a cancelled record only if its watch failed; a watcher that has lost its place in the map is never cancelled; the invariant of the proofs |
| CollectorLive | EventuallyWatched, WorkerFinishes | A cluster that stays is watched for good, and keeps its records through late stop hooks; the worker ends after `Stop` |
| ObjectsSafety | TypeOK, SettledMatches, GoneWhenSettled, InHandInv, StoreMirrors | As long as no call fails, settled objects are in store and index as in the cluster, beside a cleaner that works from stale rows; with failures too, transactions arrive in order and the store implements `Mirror` |
| ObjectsLive | EventuallyShown | Resynchronisation repairs failures, overlapping watchers and the cleaner's stale deletes |
| QuerySafety | TypeOK, GrantedOnly, ShowsGranted, MemoRight, StoreSettles | No object without a role and binding that permit it; an undisturbed query is exact: it shows the hits that the roles and bindings in the store permit and no others (and none to users with dangling bindings); the lookup is right; the store catches up |
| Helm | TypeOK, CacheFollows, PurgeFollows, NoDuplicates, GoneWithCluster, EventuallyCached | The chart cache follows repository, filter and cluster, and has a chart once, whatever edits, stops and restarts race with a load; an allowed chart that stays is cached in the end, also after crashes |
| Connect | TypeOK, ConnectIsTrue, ForeignKept, LeftoversStay, EventuallyReached, EventuallyListed | A `connect` that reports success has connected; what is not ours is kept; what a `disconnect` left half done stays until `connect` is run; the two commands in turn repair whatever an interrupted one left; the list has the usable clusters, whatever state others are in |
| PullRequests | TypeOK, ProposesRequest, BaseFollows, LandsAsAsked | An open pull request is the base of its moment with one request, whole, whatever failed, was repeated, or shares its branch; the base branch has the files of what was merged and no others, unless a request was prepared from files that changed before its branch was made; cluster by cluster it implements `Repository`: merges do all that was asked and lose nothing that others did |
| Bootstrap | TypeOK, SuccessIsTrue, OidcHasSecret, ExportWritesNothing, OidcKept, EventuallyInstalled, EventuallyOidc | Success means done; the release never names a secret that is missing; exporting writes nothing; OIDC is not lost; repeating a command gets there |

Runs that end in a counterexample, each a disagreement of the code with what it or
its documents say (quoted in `PROJECT.json`, "findings"):

| Run | Property | What happens |
|---|---|---|
| CollectorOneWatcher | OneWatcherPerCluster | A cluster in both `GetClusters` and the first update is watched twice; only the later watcher can be cancelled |
| ObjectsEvent | EventuallyRemoved | Events, the only kind with a retention policy, are never removed: their deletion is not noticed, so they never have a deletion timestamp to expire |
| ConnectRepeat | EventuallyDisconnected | A `disconnect` that stopped after deleting the account fails for ever when repeated: the binding of cluster-admin and the secret stay |

What else modelling showed, of which the properties make an exception or which the
models leave out:

- A watcher that was cancelled and has not returned stores objects after its stop
  hook has deleted the cluster's (`objectscollector.go:42`); hence `Sequential`.
- `RemoveByQuery` deletes one page of ten hits (`store/indexer.go:163-181`).
- One binding of a missing role hides every object in its scope that other roles
  permit (`query.go:141-144`); hence `Dangling` in `ShowsGranted`.
- An update that leaves a role without rules is skipped (`rolecollector.go:90`), so
  the store keeps the rules the role had; hence `Skipped` in `StoreSettles`.
- A chart that vanishes from its index stays in the cache: `LoadIndex` only looks at
  charts that are there. `CacheFollows` is about charts of the index.
- `--silent --bootstrap-flux --export` bootstraps Flux (`ask_bootstrap_flux.go:37`),
  although `modes.go:7` says "do not mutate any system"; hence `config.flux` in
  `ExportWritesNothing`.
- The version that an interactive `bootstrap` asks for is not used
  (`install_wge.go`): the release gets the version of the flag, which may be empty,
  and counts as not installed from then on. The next `bootstrap` writes it again with
  default values; hence the exception in `OidcKept`.
- If tf-controller is found, its page in the UI is not enabled; hence
  `config.existing` in `SuccessIsTrue`.

### Bounds

- Collector: two changes of the list are enough to add, remove and add again;
  three calls to `watch` (four in the live run) for a first watcher, its retry
  and its successor; one failure; two values of one cluster and a second cluster
  with the empty name, which `watch` rejects for ever. Symmetry exchanges the
  two values, which nothing tells apart; no liveness is checked with it.
- Objects: up to four versions make create, update or delete, and create again.
  ObjectsSafety has two objects with finalizers, one of three versions and one of two
  with a retention policy, both of listed kinds, and the cleaner; ObjectsLive has one of four versions with
  finalizers and a retention policy, and the cleaner; ObjectsEvent one with a
  retention policy alone. One watcher that can stop and start again, one failing call
  or watcher, one removed cluster. A page of ten holds all documents.
- Query: one cluster with a role, a binding of it, a binding of a missing
  cluster role with the same name, and two objects; every content of each to
  begin with; one event of any sort (change, removed cluster, failing call) at any
  moment; limits of none and one.
- Helm: one cluster (clusters share only the tracker's loop, which takes them one by
  one) with two charts, one of which has a version that cannot be parsed; two changes
  of the list and two watchers per run of the process, so that a watcher that was not
  stopped meets its successor; one edit, one failing call of any of six sorts, one
  crash, each at any moment.
- Connect: a cluster that is connected and disconnected, one that stays connected, one
  misreported; two changes of goal and two interruptions, so that a repair can be
  interrupted too. ConnectRepeat needs the first cluster and one of each only.
- PullRequests: three requests, of which one names its branch and two share the default;
  two clusters of one name, with and without a kustomization; a GitHub and a GitLab; one
  failing call. Symmetry exchanges the requests without a named branch.
- Bootstrap: eight commands, as often as one likes (silent, interactive, exporting,
  `auth`, with everything, with no version), one failing call, a git library of either
  sort.

The proofs lift these bounds for the properties listed under
[What is proved](#what-is-proved).

Deadlock is checked in Bootstrap, where an administrator can always run another
command. The other configurations say `CHECK_DEADLOCK FALSE`: bounded histories end,
and a system with nothing to do stops.

### Fairness

Collector: weak fairness of each goroutine, of passing delays, and of a cancelled
`Starter` returning. No fairness of `Poll`, `Stop` or failures. Objects: weak
fairness of the consumer, the hook and the cleaner (each a loop in a goroutine of
its own) and of the resynchronisation of the informers; strong fairness of
`Reconcile` per object and `Receive` per worker, because a controller's queue is
first in first out and the senders of a Go channel are too, so one that is
ready again and again has its turn. Managers starting is not fair; the properties
speak of clusters that stay watched. Helm: weak fairness of the tracker, of each
manager and of its worker, each a goroutine of its own, and of Flux finalizing what
is deleted. Connect: weak fairness of each command's steps, of the controllers, of the
fetcher (the clusters manager fetches in a loop), and of an administrator who does not
give up. Bootstrap: weak fairness of the command's steps, of an administrator who
repeats it, and of Flux applying what is in git; strong fairness of removing the OIDC
secret, which is possible again and again between two commands. `EventuallyInstalled`
excepts `Stuck`: the HelmRepository is committed and the release is not, and a library
that refuses an empty commit makes every later command fail at the first of the two.
PullRequests has no liveness: whether a pull request is merged is up to its reviewer.

## What is proved

Eight modules of proofs, each about every value of the constants that its module's
assumption allows: any clusters, any number of failures, crashes, commands, requests.

`CollectorProofs`, from `CollectorAssumption` (names of clusters, natural
bounds) alone:

- `Invariance`: `IInv` is inductive. `NeverForgotten` is not inductive by itself.
  It needs `QueueInv` (an item marked dirty is queued or in the worker's hands,
  although `Start` calls `Done` for items it never got), `WorkerInv` (the record
  in preparation belongs to the worker), `ChildInv` (a map entry holds a record of
  its own name) and `MainInv` (the record being cancelled is out of the map).
- `TypeCorrect`, `NoClusterForgotten`, `StatusOfCancelled` follow from it.
- `CancelledForAReason`: `Spec => CancelsOnlyRemoved`. A watcher is cancelled only for a
  cluster that is removed and has not come back (`MainInv`), or by its own failed watch.
- `StraysRunOn`: `Spec => StraysStay`, what is behind the counterexample of
  CollectorOneWatcher: a watcher that is out of the map and not yet being cancelled never
  is. Only two steps cancel (`StepCancels`); records enter the map once, when they are new
  (`StepFiles`); and what `unwatch` cancels it has just taken out of the map (`StepPicks`).

`QueryProofs`, from `QueryAssumption` (what identifies roles and bindings in
Kubernetes, and that the sets are finite):

- `ListersRight`: `Spec => []MemoRight`. The invariant is that a lister has filed
  every role of its cluster before `next`, and says "not there" only when it has
  passed over all (`LookUpKeepsInv`).
- `QueryInvariance` and `NobodyIsShownMore`: `Spec => []GrantedOnly`, for any
  roles, bindings, objects and users, any order of rows, and any number of events
  and queries. The argument: whatever a query has read or is about to read with
  the ids it has was offered to it (`OfferInv`; the case that matters is a role
  cleared and stored again between the two reads), and what it has found out
  about a hit follows from what it read and a right lister (`HitInv`).
- `StoreCatchesUp`: `Spec => []StoreSettles`. `StoreSettles` speaks of what is not under
  way, so `EntityInv` says what is: the consumer's batch holds what the cluster has, and
  what is neither in it nor pending has arrived. `FlowInv` keeps the consumer to one
  entity, and a cluster from being watched again before its stop hook has ended.
- `PermittedIsShown`: `Spec => []ShowsGranted`, both ways. While the query is undisturbed,
  what it has read is what is there (`ReadInv`), the hit in hand has been allowed or the
  binding that allows it is still to be consulted, and no lookup errs (`LookInv`), and a
  hit that has been passed has been shown (`ShownInv`). And what is shown was held by the
  search, is allowed by what the store has now, and no binding for its user dangles
  (`HeldInv`, `ExactInv`): `GrantedOnly` speaks of anything offered while the query ran, this
  of the store as it is.
- `TypeCorrect`: `Spec => []TypeOK`. The memo of a cluster is filed under the keys that its
  roles have, at places that are in the list of roles (`LookUpFiles`), and the events
  stay within one bound together.

`ObjectsProofs`, from `ObjectsAssumption`:

- `TypeCorrect`.
- `OrderCorrect`: `Spec => []InHandInv`. Without more, what is queued belongs to its watcher
  and what is in hand was true when it was read and is treated as its type and object call
  for (`FitInv`). With `Sequential`, a cluster has one watcher, an object one transaction
  waiting to be sent, and what the consumer has in hand was read before that one and is
  not older than what the store has (`OrderInv`).
- `RefinesMirror`: `Spec => StoreMirrors`, with and without the cleaner and `Sequential`.
  Initial states map to initial states; a step that changes a row is `CatchUp` to the
  version of the transaction in hand, which `InHandInv` says is truthful (and timely),
  `ForgetCluster`, or `CleanAway`; every other step is a change of an object or a stutter.
  For the cleaner it needs `CleanerInv`: what a row holds, or held when the cleaner read it,
  is a version the object has had (with `Sequential`, one that the store has caught up
  with), and a version with a deletion timestamp only if the object is of a retained kind;
  since neither histories nor retentions go back, this stays true of a snapshot however
  old it is.
- `FoundCorrect`: `Spec => []FoundWas`. `Mirror` speaks of the store; this speaks of the
  index too: whatever fails between the two, and however watchers, the stop hook and the
  cleaner race, both hold versions that the object has had, in which it was there or its
  kind is retained. It is inductive with `InHandInv` and `ConsumerInv`.
- `LingersUntilForgotten`: `Spec => OnlyForgotten`, what is behind the counterexample of
  ObjectsEvent: an object without finalizers of a kind that is not listed leaves the store
  and the index by the stop hook of its cluster only. By `StaysInv`: such an object is never
  seen in deletion, so no transaction deletes it and the cleaner never finds it expired.
- `SettlingCorrect`, `Sequential => (Spec => []SettledInv)`, and from it `SettledCorrect` and
  `GoneCorrect`: `SettledMatches` and `GoneWhenSettled` are not inductive, `SettledInv`
  is, together with `InHandInv` and `CleanerInv` (an object that is not `Cleanable` is never
  in the cleaner's hands).

Without `Sequential` these last three are false, as a late watcher shows.

`HelmProofs`, from `HelmAssumption`:

- `NeverTwice`: `Spec => []NoDuplicates`. Needs `MapInv` (the map's watcher was made for
  its cluster), `WorkInv` (only a running manager works), and `InsertInv` (what `AddChart`
  has found missing still is, when nobody else works on the cluster).
- `GoneTogether`: `Spec => []GoneWithCluster`. Needs `DropInv` (one cluster is being
  dropped at a time); the case that matters is the worker that writes, which is stopped,
  and so late, or a stray, or of a cluster that is in the map.

`HelmFollowsProofs`, which extends it:

- `EditsFollow`: `Spec => []CacheFollows`. The properties speak of idle workers only, so
  the invariant says what is still to come: `FollowInv`, a chart that is not yet as the
  repository says lies ahead of a worker (in its index, its list or its statement), its
  statement has failed, or a worker is queued again; and `FilterInv`, a worker that goes
  by an old filter is queued again, since every edit queues all that work on the cluster.
- `TypeCorrect`: `Spec => []TypeOK`. That a chart has at most `MaxWatchers` rows is not
  inductive: nothing makes rows unique, and a statement inserts whatever it found before.
  `RoomInv` is: the rows of a chart and the inserts of it under way are together no more,
  as a watcher that has written once finds the row.
- `DeletionsFollow`: `Spec => []PurgeFollows`, by `PurgeInv` (as long as there are rows, a
  worker is purging or is queued) and `FilterInv` (who still loads is queued).

`ConnectProofs`, from `ConnectAssumption`:

- `SuccessIsConnected`: `Spec => ConnectIsTrue`. By `ConnectInv`: the account is there from
  the second call on, and the token waited for is one that the command has asked for
  itself, so never that of an earlier account.
- `NeverDeletesForeign`: `Spec => ForeignKept`. By `DisconnectInv`: what is deleted is what
  was checked, both names before the first deletion.
- `SuccessIsDisconnected`: `Spec => DisconnectIsTrue`. By `DisconnectInv` too: with the secret
  still to be deleted, the account and the binding are gone.
- `OnlyConnectGoesOn`: `Spec => LeftoversStay`, what is behind the counterexample of
  ConnectRepeat. A command past its first call has an account before it (`ConnectInv`,
  `DisconnectInv`), so that of a cluster without one only the two first calls can be next,
  and that of `disconnect` is an error.
- `TypeCorrect`.

`PullRequestsProofs`, from `PullRequestsAssumption`:

- `OnlyItsRequest`: `Spec => []ProposesRequest`. By `BranchInv` (between branch and pull
  request, a branch differs from its root only in files of its call) and `Alone` (no two
  calls work on one branch, since a branch that exists is refused).
- `BaseIsWhole`: `Spec => []BaseFollows`. By `KeepsInv`: the base is consistent, and stays so
  with the changes of any call that is not outdated and with any branch that is not
  overtaken. A merge replaces all the files of a cluster or none, since where any of
  them differ the manifest does.
- `RefinesRepository`: `Spec => LandsAsAsked`. By `SeesInv`: the changes of a call make of the
  manifests what its request asks for, and those alone; as long as the call is not
  outdated the base has what it is to replace (`Seen`), and if its branch is not overtaken
  so has what that was made from. So a merge finds in the base what was seen, or what is
  wanted; and since a write never wants what it replaces (`WantsOther`), each of its
  clusters differs from the root and git takes it. None of it rests on `spoiled`: a
  request that is not outdated itself is safe from others that were.
- `TypeCorrect`.

`BootstrapProofs`, from `BootstrapAssumption`; all safety properties of the run:

- `OidcNeedsSecret`: `Spec => []OidcHasSecret`, by `SecretFirst` (among what is to be
  written, no release with OIDC comes before its secret).
- `ExportIsDry`: `Spec => ExportWritesNothing`, by `ExportInv`.
- `SuccessMeansDone`: `Spec => []SuccessIsTrue`, by `SuccessInv`: what `Build` found stays
  (`FoundInv`), each step's outputs have one of a few shapes (`ShapeInv`), what the steps
  before this one did is there (`DoneInv`), and the components asked for are those seen to
  and those to do (`TodoInv`).
- `OidcStays`: `Spec => OidcKept`, by `OidcInv`: a release with OIDC extends one that Flux
  has applied, and as long as no call fails Flux knows of it before the next command.
- `TypeCorrect`.

Every invariant and action property that a passing run checks is stated by one of these
theorems, and so are both refinements. `CancelsOnlyRemoved`, `OnlyForgotten`, `FoundWas` and
`DisconnectIsTrue` are proved and in no run, and so are the inductive invariants, except
`IInv` of `Collector` and `InHandInv`. Only model-checked: liveness
(`EventuallyWatched`, `WorkerFinishes`, `EventuallyShown`, `EventuallyCached`,
`EventuallyReached`, `EventuallyListed`, `EventuallyInstalled`, `EventuallyOidc`). Liveness under
fairness and `ENABLED`, induction over data, and `RECURSIVE` operators are beyond the
prover; the modules use none of the latter two.

## What is not modelled

- Of the Explorer: logging and metrics; the `Status` endpoint's unlocked read; tenants
  (names that results show and filter by); filters, ordering, facets and the offset of
  searches, which counts raw hits (`store/indexer.go:243`; a search returns any set of
  objects in any order); invalid objects that the store refuses; the cleaner's start and
  stop (`cleaner.go:80`), which the service never calls after starting; reading through
  iterators that hold the one connection.
- A binding that is replaced by one of the same name for another role: such two
  would be one row, and `QueryAssumption` excludes them.
- Of Helm: the values column and its jobs, the kind and layer of a chart, access checks
  of the request handlers.
- Of the changes to Git: the Azure provider, which pushes to a branch that exists
  (`pkg/git/azure.go:82`; what the service does with the edits it is sent is not in this
  repository); templates whose resources name paths of their own; automations, which make
  the same calls for files without previous values.
- Of connecting: the fetcher of vcluster sessions, which has the shape of the one
  modelled; CAPI clusters beyond their secret.
- Of bootstrap: questions whose answers change nothing that is kept (a wrong answer is a
  call that fails), and the text of what is exported.
- Handlers without state (pipelines, Terraform, preview, templates), OAuth, the command
  line, the UI, generated code: most of the repository by lines, and nothing in them to
  interleave. See the components of `PROJECT.json`.

"hazards" in `PROJECT.json` lists what is hard to test at each line, with the
properties that cover it, or the reason none does.

## Plan

Done: `Collector`, `Objects` with `Mirror`, `Query`, `Helm`, `Connect`, `PullRequests`
with `Repository`, `Bootstrap`, each with its runs and proofs. What could follow, in this order:

1. The Azure provider and automations in `PullRequests`; there `ProposesRequest` becomes a
   property of all requests that share a branch.
2. Paging of searches, with the offset, and the tenants collector as a third consumer.
