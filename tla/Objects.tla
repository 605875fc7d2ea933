------------------------------- MODULE Objects -------------------------------
(***************************************************************************)
(* How the objects of the clusters get into the Explorer store and its     *)
(* search index, and out of them.  Its processes are                       *)
(*   - one worker per kind in the controller manager of every watcher,     *)
(*     which runs Reconcile (pkg/query/collector/reconciler) and hands a   *)
(*     transaction over on an unbuffered channel;                          *)
(*   - the goroutine of pkg/query/objectscollector that receives the       *)
(*     transactions and runs processRecords;                               *)
(*   - the stop hook of a watcher, which runs processRecords in the        *)
(*     goroutine of the collector, beside the one above;                   *)
(*   - the object cleaner (pkg/query/cleaner).                             *)
(* Every call to the store (sqlite) and the index (bleve) is a step, and   *)
(* may fail.  Start and stop of watchers are those of module Collector.    *)
(***************************************************************************)
EXTENDS Naturals, Sequences, FiniteSets

CONSTANTS
    Object,         \* objects, the one per cluster, kind, namespace and name
    Cluster,
    ClusterOf,      \* the cluster of an object
    KindOf,         \* the kind of an object
    Retained,       \* objects of the kinds with a retention policy
    Finalized,      \* objects with finalizers
    Listed,         \* objects of a kind in kindsWithoutFinalizers
    Watcher,        \* watchers of the collector, each for one cluster
    WatcherCluster,
    Sequential,     \* a cluster is watched when nothing of its last watcher
                    \* or of its stop hook is left (see module Collector)
    EnableObjectCleaner,
    PageSize,       \* hits in one page of bleve (10)
    MaxVersions,    \* bound on the length of each object's history
    MaxFailures,    \* bound on failing calls and failing watchers
    MaxUnwatches    \* bound on the clusters that are removed

ASSUME ObjectsAssumption ==
    /\ ClusterOf \in [Object -> Cluster] /\ Retained \subseteq Object
    /\ Finalized \subseteq Object /\ Listed \subseteq Object
    /\ WatcherCluster \in [Watcher -> Cluster]
    /\ Sequential \in BOOLEAN /\ EnableObjectCleaner \in BOOLEAN
    /\ PageSize \in Nat /\ MaxVersions \in [Object -> Nat]
    /\ MaxFailures \in Nat /\ MaxUnwatches \in Nat

States == {"present", "terminating", "absent"}

VARIABLES
    \* the clusters
    hist,          \* every state an object has been in; its place is its version
    expired,       \* versions up to this one are older than the retention
    \* the store
    row,           \* the version in the store, 0 if none
    applied,       \* history: the version the store was last made to agree with
    \* the watchers' controller managers
    running,       \* watchers whose manager runs
    pending,       \* objects in the work queues of a watcher's controllers
    held,          \* transactions the workers are sending on the channel
    \* the consumer of the channel
    consumerPc,
    batch,         \* the transaction in hand
    \* the search index
    index,         \* version in the document with the object's id, 0 if none
    raw,           \* objects with an "_unstructured" document
    \* the stop hook
    hookPc, hookCluster, hits,
    \* the cleaner
    snapshot,      \* rows with a deletion timestamp that it has read and not
                   \* yet looked at
    cleaning,      \* the object it has just deleted from the store
    \* bounds
    failures, unwatches

mirrorVars   == <<hist, expired, applied, row>>
watcherVars  == <<running, pending, held>>
consumerVars == <<consumerPc, batch>>
indexVars    == <<index, raw>>
hookVars     == <<hookPc, hookCluster, hits>>
cleanerVars  == <<snapshot, cleaning>>
boundVars    == <<failures, unwatches>>

vars == <<mirrorVars, watcherVars, consumerVars, indexVars, hookVars,
          cleanerVars, boundVars>>

Version == Nat

Tx == [watcher : Watcher, object : Object, version : Version,
       type : {"upsert", "delete"}]

TypeOK ==
    /\ hist \in [Object -> Seq(States)] /\ expired \in [Object -> Version]
    /\ applied \in [Object -> Version] /\ row \in [Object -> Version]
    /\ running \subseteq Watcher /\ pending \in [Watcher -> SUBSET Object]
    /\ held \subseteq Tx
    /\ consumerPc \in {"receive", "store", "index", "delete", "unindex"}
    /\ batch \subseteq Tx
    /\ index \in [Object -> Version] /\ raw \subseteq Object
    /\ hookPc \in {"idle", "rows", "search", "documents"}
    /\ hookCluster \in Cluster /\ hits \subseteq Object
    /\ snapshot \in [Object -> Version] /\ cleaning \subseteq Object
    /\ failures \in 0 .. MaxFailures /\ unwatches \in 0 .. MaxUnwatches

NoRows == [o \in Object |-> 0]

Init ==
    /\ hist = [o \in Object |-> <<>>] /\ expired = [o \in Object |-> 0]
    /\ row = NoRows /\ applied = NoRows
    /\ running = {} /\ pending = [w \in Watcher |-> {}] /\ held = {}
    /\ consumerPc = "receive" /\ batch = {}
    /\ index = NoRows /\ raw = {}
    /\ hookPc = "idle" /\ hookCluster \in Cluster /\ hits = {}
    /\ snapshot = NoRows /\ cleaning = {}
    /\ failures = 0 /\ unwatches = 0

\* Something the code calls returns an error.
Failure == failures < MaxFailures /\ failures' = failures + 1

State(o) == IF hist[o] = <<>> THEN "absent" ELSE hist[o][Len(hist[o])]

ObjectsOf(c) == {o \in Object : ClusterOf[o] = c}

\* IsExpired of internal/models: a row without a deletion timestamp never is.
IsExpired(o, v) ==
    /\ v # 0 /\ hist[o][v] = "terminating"
    /\ o \in Retained => v <= expired[o]

-----------------------------------------------------------------------------
(* The clusters and the controller managers.                               *)

\* Every running watcher of the cluster is told of each change of an object.
Notify(o) ==
    pending' = [w \in Watcher |->
                   IF w \in running /\ WatcherCluster[w] = ClusterOf[o]
                   THEN pending[w] \cup {o} ELSE pending[w]]

NextStates(o) ==
    CASE State(o) = "absent"      -> {"present"}
      [] State(o) = "present"     ->
            {"present", IF o \in Finalized THEN "terminating" ELSE "absent"}
      [] State(o) = "terminating" -> {"absent"}

Change(o) ==
    /\ Len(hist[o]) < MaxVersions[o]
    /\ \E s \in NextStates(o) : hist' = [hist EXCEPT ![o] = Append(@, s)]
    /\ Notify(o)
    /\ UNCHANGED <<expired, applied, row, running, held, consumerVars,
                   indexVars, hookVars, cleanerVars, boundVars>>

RetentionPasses(o) ==
    /\ o \in Retained /\ expired[o] < Len(hist[o])
    /\ expired' = [expired EXCEPT ![o] = Len(hist[o])]
    /\ UNCHANGED <<hist, applied, row, watcherVars, consumerVars, indexVars,
                   hookVars, cleanerVars, boundVars>>

\* Nothing is left of the last watcher of c, nor of its stop hook.
NothingLeft(c) ==
    /\ \A w \in running : WatcherCluster[w] # c
    /\ \A t \in held \cup batch : ClusterOf[t.object] # c
    /\ hookPc # "idle" => hookCluster # c

\* The informers of a new manager list the objects there are.
StartWatcher(w) ==
    /\ w \notin running
    /\ \A t \in held : t.watcher # w
    /\ Sequential => NothingLeft(WatcherCluster[w])
    /\ running' = running \cup {w}
    /\ pending' = [pending EXCEPT ![w] =
                      {o \in ObjectsOf(WatcherCluster[w]) : State(o) # "absent"}]
    /\ UNCHANGED <<mirrorVars, held, consumerVars, indexVars, hookVars,
                   cleanerVars, boundVars>>

\* A worker that is sending stays blocked in the send, and may yet succeed.
StopWatcher(w) ==
    /\ w \in running
    /\ Failure
    /\ running' = running \ {w}
    /\ pending' = [pending EXCEPT ![w] = {}]
    /\ UNCHANGED <<mirrorVars, held, unwatches, consumerVars, indexVars,
                   hookVars, cleanerVars>>

\* unwatch of a removed cluster: its watchers are cancelled and the stop hook
\* begins.
Unwatch(c) ==
    /\ hookPc = "idle"
    /\ \E w \in running : WatcherCluster[w] = c
    /\ unwatches < MaxUnwatches /\ unwatches' = unwatches + 1
    /\ running' = {w \in running : WatcherCluster[w] # c}
    /\ pending' = [w \in Watcher |-> IF WatcherCluster[w] = c THEN {} ELSE pending[w]]
    /\ hookPc' = "rows" /\ hookCluster' = c
    /\ UNCHANGED <<mirrorVars, held, failures, hits, consumerVars, indexVars,
                   cleanerVars>>

\* Informers put every object they know back on the queue now and then.
Resync(w, o) ==
    /\ w \in running /\ WatcherCluster[w] = ClusterOf[o]
    /\ State(o) # "absent" /\ o \notin pending[w]
    /\ pending' = [pending EXCEPT ![w] = @ \cup {o}]
    /\ UNCHANGED <<mirrorVars, running, held, consumerVars, indexVars, hookVars,
                   cleanerVars, boundVars>>

-----------------------------------------------------------------------------
(* Reconcile, in the one worker of watcher w for the kind of o.            *)

\* Mutant: an object that is being deleted is stored like any other.
UpsertsOnly(o) == IF State(o) = "absent" THEN {} ELSE {"upsert"}

\* Mutant: the transaction of a single object has the type for clusters.
MistypedTransactions(o) == IF State(o) = "present" THEN {"upsert"} ELSE {"deleteAll"}

\* What Reconcile makes of the object: nothing if it is gone, unless its kind
\* is known to have no finalizers.
TransactionTypes(o) ==
    CASE State(o) = "present"     -> {"upsert"}
      [] State(o) = "terminating" -> {"delete"}
      [] State(o) = "absent"      -> IF o \in Listed THEN {"delete"} ELSE {}

\* Mutant: a controller with as many workers as there are objects.
ManyWorkers(w, o) == TRUE

\* The worker of o's kind is not busy sending.
WorkerFree(w, o) ==
    \A t \in held : t.watcher = w => KindOf[t.object] # KindOf[o]

Reconcile(w, o) ==
    /\ w \in running /\ o \in pending[w] /\ WorkerFree(w, o)
    /\ pending' = [pending EXCEPT ![w] = @ \ {o}]
    /\ held' = held \cup {[watcher |-> w, object |-> o,
                           version |-> Len(hist[o]), type |-> t] :
                              t \in TransactionTypes(o)}
    /\ UNCHANGED <<mirrorVars, running, consumerVars, indexVars, hookVars,
                   cleanerVars, boundVars>>

-----------------------------------------------------------------------------
(* processRecords, in the goroutine that receives transactions.  An error  *)
(* at any step ends it: it is logged, and the transaction is dropped.      *)

\* Mutant: a retention policy is not looked at.
DeletesAll(t) == t.type = "delete"

\* A deleted object of a kind with a retention policy is stored once more.
Deletes(t) ==
    /\ t.type = "delete"
    /\ t.object \notin Retained \/ IsExpired(t.object, t.version)

Receive(w, k) ==
    /\ consumerPc = "receive"
    /\ \E t \in held :
        /\ t.watcher = w /\ KindOf[t.object] = k
        /\ held' = held \ {t}
        /\ batch' = {t}
        /\ consumerPc' = IF Deletes(t) THEN "delete" ELSE "store"
    /\ UNCHANGED <<mirrorVars, running, pending, indexVars, hookVars,
                   cleanerVars, boundVars>>

Done == consumerPc' = "receive" /\ batch' = {}

\* StoreObjects; the version has now been caught up with.
StoreRow ==
    /\ consumerPc = "store"
    /\ \E t \in batch :
        \/ /\ row' = [row EXCEPT ![t.object] = t.version]
           /\ applied' = [applied EXCEPT ![t.object] = t.version]
           /\ consumerPc' = "index"
           /\ UNCHANGED <<batch, failures>>
        \/ Failure /\ Done /\ UNCHANGED <<row, applied>>
    /\ UNCHANGED <<hist, expired, unwatches, watcherVars, indexVars, hookVars,
                   cleanerVars>>

\* Mutant: an object that is in the index is not indexed again.
AddOnce(t) ==
    /\ index' = [index EXCEPT ![t.object] = IF @ = 0 THEN t.version ELSE @]
    /\ raw' = raw \cup {t.object}

\* Add, one batch for both documents.
Add(t) ==
    /\ index' = [index EXCEPT ![t.object] = t.version]
    /\ raw' = raw \cup {t.object}

IndexRow ==
    /\ consumerPc = "index"
    /\ \E t \in batch :
        \/ Add(t) /\ UNCHANGED failures
        \/ Failure /\ UNCHANGED indexVars
    /\ Done
    /\ UNCHANGED <<mirrorVars, unwatches, watcherVars, hookVars, cleanerVars>>

DeleteRow ==
    /\ consumerPc = "delete"
    /\ \E t \in batch :
        \/ /\ row' = [row EXCEPT ![t.object] = 0]
           /\ applied' = [applied EXCEPT ![t.object] = t.version]
           /\ consumerPc' = "unindex"
           /\ UNCHANGED <<batch, failures>>
        \/ Failure /\ Done /\ UNCHANGED <<row, applied>>
    /\ UNCHANGED <<hist, expired, unwatches, watcherVars, indexVars, hookVars,
                   cleanerVars>>

\* Remove; the "_unstructured" document stays.
UnindexRow ==
    /\ consumerPc = "unindex"
    /\ \E t \in batch :
        \/ index' = [index EXCEPT ![t.object] = 0] /\ UNCHANGED failures
        \/ Failure /\ UNCHANGED index
    /\ Done
    /\ UNCHANGED <<mirrorVars, raw, unwatches, watcherVars, hookVars, cleanerVars>>

-----------------------------------------------------------------------------
(* processRecords of a "delete all" transaction, in the stop hook.         *)

HookFails == Failure /\ hookPc' = "idle" /\ hits' = {}

DeleteAllRows ==
    /\ hookPc = "rows"
    /\ \/ /\ row' = [o \in Object |-> IF ClusterOf[o] = hookCluster THEN 0 ELSE row[o]]
          /\ hookPc' = "search"
          /\ UNCHANGED <<hits, failures>>
       \/ HookFails /\ UNCHANGED row
    /\ UNCHANGED <<hist, expired, applied, hookCluster, unwatches, watcherVars,
                   consumerVars, indexVars, cleanerVars>>

Matching == {o \in ObjectsOf(hookCluster) : index[o] # 0}

\* RemoveByQuery finds one page of the documents with a cluster field, and
\* those named after the object only.
SearchDocuments ==
    /\ hookPc = "search"
    /\ \/ /\ \E H \in SUBSET Matching :
                /\ Cardinality(H) <= PageSize
                /\ Cardinality(H) = PageSize \/ H = Matching
                /\ hits' = H
          /\ hookPc' = "documents"
          /\ UNCHANGED failures
       \/ HookFails
    /\ UNCHANGED <<mirrorVars, hookCluster, unwatches, watcherVars, consumerVars,
                   indexVars, cleanerVars>>

DeleteDocument ==
    /\ hookPc = "documents" /\ hits # {}
    /\ \/ \E o \in hits :
            /\ index' = [index EXCEPT ![o] = 0]
            /\ hits' = hits \ {o}
            /\ UNCHANGED <<hookPc, failures>>
       \/ HookFails /\ UNCHANGED index
    /\ UNCHANGED <<mirrorVars, raw, hookCluster, unwatches, watcherVars,
                   consumerVars, cleanerVars>>

HookReturns ==
    /\ hookPc = "documents" /\ hits = {}
    /\ hookPc' = "idle"
    /\ UNCHANGED <<mirrorVars, hookCluster, hits, boundVars, watcherVars,
                   consumerVars, indexVars, cleanerVars>>

-----------------------------------------------------------------------------
(* The cleaner.  It reads every row, and then deletes the expired ones from *)
(* the store and from the index; an error is logged and it goes on.         *)

Deleting(o) == row[o] # 0 /\ hist[o][row[o]] = "terminating"

\* Rows without a deletion timestamp it passes over, whenever it comes to them.
ReadAllRows ==
    /\ EnableObjectCleaner
    /\ snapshot = NoRows /\ cleaning = {}
    /\ snapshot' = [o \in Object |-> IF Deleting(o) THEN row[o] ELSE 0]
    /\ UNCHANGED <<mirrorVars, cleaning, boundVars, watcherVars, consumerVars,
                   indexVars, hookVars>>

\* DeleteObjects goes by the id of the row that was read.
CleanRow(o) ==
    /\ snapshot[o] # 0 /\ cleaning = {}
    /\ snapshot' = [snapshot EXCEPT ![o] = 0]
    /\ IF IsExpired(o, snapshot[o])
       THEN /\ cleaning' = {o}
            /\ \/ row' = [row EXCEPT ![o] = 0] /\ UNCHANGED failures
               \/ Failure /\ UNCHANGED row
       ELSE UNCHANGED <<cleaning, row, failures>>
    /\ UNCHANGED <<hist, expired, applied, unwatches, watcherVars, consumerVars,
                   indexVars, hookVars>>

CleanDocument ==
    /\ \E o \in cleaning :
        \/ index' = [index EXCEPT ![o] = 0] /\ UNCHANGED failures
        \/ Failure /\ UNCHANGED index
    /\ cleaning' = {}
    /\ UNCHANGED <<mirrorVars, raw, snapshot, unwatches, watcherVars,
                   consumerVars, hookVars>>

-----------------------------------------------------------------------------
WatcherStep(w) ==
    \/ StartWatcher(w) \/ StopWatcher(w)
    \/ \E o \in Object : Resync(w, o) \/ Reconcile(w, o)
    \/ \E k \in {KindOf[o] : o \in Object} : Receive(w, k)

ConsumerStep == StoreRow \/ IndexRow \/ DeleteRow \/ UnindexRow

HookStep == DeleteAllRows \/ SearchDocuments \/ DeleteDocument \/ HookReturns

CleanerStep == ReadAllRows \/ CleanDocument \/ \E o \in Object : CleanRow(o)

Next ==
    \/ \E o \in Object : Change(o) \/ RetentionPasses(o)
    \/ \E w \in Watcher : WatcherStep(w)
    \/ \E c \in Cluster : Unwatch(c)
    \/ ConsumerStep \/ HookStep \/ CleanerStep

Spec == Init /\ [][Next]_vars

\* Every goroutine keeps running and informers resynchronise.  A controller's
\* queue and the senders of a channel are served in turn, so no object and no
\* worker is passed over for ever.
Fairness ==
    /\ WF_vars(ConsumerStep) /\ WF_vars(HookStep) /\ WF_vars(CleanerStep)
    /\ \A w \in Watcher :
        /\ \A o \in Object : WF_vars(Resync(w, o)) /\ SF_vars(Reconcile(w, o))
        /\ \A k \in {KindOf[o] : o \in Object} : SF_vars(Receive(w, k))

FairSpec == Spec /\ Fairness

-----------------------------------------------------------------------------
(* Properties.                                                             *)

Watched(c) == \E w \in running : WatcherCluster[w] = c

\* Nothing is on its way to or from the store and the index for o.
Settled(o) ==
    /\ Watched(ClusterOf[o])
    /\ \A w \in running : o \notin pending[w]
    /\ \A t \in held \cup batch : t.object # o
    /\ hookPc # "idle" => hookCluster # ClusterOf[o]
    /\ o \notin cleaning /\ snapshot[o] = 0

\* The store and the index agree that o is at version v, or not there.
Holds(o, v) == row[o] = v /\ index[o] = v

\* The cleaner may have seen a row of o that had to go, and so may drop o
\* although it is there again: it deletes by the id of what it read.
Cleanable(o) ==
    /\ EnableObjectCleaner /\ o \in Retained
    /\ \E v \in 1 .. Len(hist[o]) : IsExpired(o, v)

\* As long as nothing has failed and watchers of a cluster do not overlap, an
\* object for which nothing is under way is in the store and in the index just
\* as it is in its cluster: with its latest version while it exists, unless it
\* was kept after an earlier deletion until the cleaner could drop it, and not
\* at all once its deletion has begun, whatever watchers came and went before.
SettledMatches ==
    \A o \in Object : Settled(o) /\ failures = 0 =>
        /\ State(o) = "present" /\ ~Cleanable(o) => Holds(o, Len(hist[o])) /\ o \in raw
        /\ State(o) = "terminating" /\ o \notin Retained => Holds(o, 0)

\* As long as no watcher has stopped and nothing has failed, an object of a
\* kind listed as having no finalizers is gone from both once its deletion has
\* been dealt with.
GoneWhenSettled ==
    \A o \in Listed \ Retained :
        /\ Settled(o) /\ State(o) = "absent"
        /\ failures = 0 /\ unwatches = 0
        => Holds(o, 0)

\* What a transaction says of its object was true when it was read.
Truthful(t) ==
    /\ t.version \in 1 .. Len(hist[t.object])
    /\ t.type = "upsert" <=> hist[t.object][t.version] = "present"

\* And the store has not been given anything newer since.
Timely(t) == Truthful(t) /\ applied[t.object] <= t.version

OneWatcher ==
    \A v, w \in running : WatcherCluster[v] = WatcherCluster[w] => v = w

QueuesFit ==
    \A w \in Watcher : \A o \in pending[w] :
        ClusterOf[o] = WatcherCluster[w] /\ hist[o] # <<>>

OneHeld ==
    /\ \A t \in held, w \in running :
          WatcherCluster[w] = ClusterOf[t.object] => w = t.watcher
    /\ \A t, u \in held : t.object = u.object => t = u

InOrder ==
    /\ \A o \in Object : applied[o] <= Len(hist[o])
    /\ \A t \in held \cup batch : Timely(t)
    /\ \A t \in batch, u \in held : t.object = u.object => t.version <= u.version

BatchFits ==
    /\ \A t, u \in batch : t = u
    /\ \A t \in batch :
          /\ consumerPc = "delete" => Deletes(t)
          /\ consumerPc = "store" => t.type = "upsert" \/ t.object \in Retained

\* Why nothing is made up: what is queued is an object of its watcher's cluster,
\* what is in hand was true, and is treated as its type and object call for.
FitInv == QueuesFit /\ BatchFits /\ \A t \in held \cup batch : Truthful(t)

\* Why the store never goes back when watchers do not overlap: a cluster has one
\* watcher, an object one transaction waiting to be sent, and what the consumer
\* has in hand was read before that one.
OrderInv == OneWatcher /\ OneHeld /\ InOrder

InHandInv == FitInv /\ (Sequential => OrderInv)

M == INSTANCE Mirror
    WITH stored <- row, Cleaner <- EnableObjectCleaner, Ordered <- Sequential

\* What the store and the index should hold of o.
Expected(o) == IF State(o) = "present" THEN Len(hist[o]) ELSE 0

Right(o) == Holds(o, Expected(o)) /\ (State(o) = "present" => o \in raw)

InHand(o) == {t \in held \cup batch : t.object = o}

Underway(o) ==
    \/ \E w \in running : o \in pending[w]
    \/ \E t \in InHand(o) : t.version = Len(hist[o])

\* Objects of which the two properties above speak.
Concerned(o) ==
    /\ Watched(ClusterOf[o])
    /\ State(o) # "present" => o \notin Retained
    /\ ~Cleanable(o)
    /\ State(o) = "absent" => o \in Listed /\ unwatches = 0

ConsumerInv ==
    /\ consumerPc = "receive" <=> batch = {}
    /\ \A t \in batch :
          /\ consumerPc \in {"store", "index"} => t.type = "upsert" \/ t.object \in Retained
          /\ consumerPc \in {"delete", "unindex"} => t.type = "delete"

HookInv ==
    /\ \A w \in running : hookPc # "idle" => WatcherCluster[w] # hookCluster
    /\ \A o \in hits : ClusterOf[o] = hookCluster
    /\ hookPc # "documents" => hits = {}

\* Why they hold: until the store and the index are right about an object, its
\* latest version is on its way to them, and nothing older is behind it.
SettlingInv ==
    /\ \A o \in Object : Concerned(o) => Underway(o) \/ (Right(o) /\ InHand(o) = {})
    /\ \A t \in batch : Watched(ClusterOf[t.object]) /\ ~Cleanable(t.object) =>
          /\ consumerPc = "index" => row[t.object] = t.version
          /\ consumerPc = "unindex" => row[t.object] = 0
    /\ unwatches = 0 => \A o \in Object :
          ~Watched(ClusterOf[o]) => Holds(o, 0) /\ InHand(o) = {}

SettledInv == ConsumerInv /\ HookInv /\ (failures = 0 => SettlingInv)

\* Every step of the store is one that Mirror allows, whatever fails and
\* wherever a transaction comes from: nothing is stored that an object has not
\* been, none is dropped that has not been deleted, and the cleaner drops only
\* what was kept after its deletion had begun, for as long as its policy says;
\* and if watchers of a cluster do not overlap, no object goes back to an
\* earlier version.
StoreMirrors == M!MirrorSpec

\* An object that stays, in a cluster that stays watched, is found with its
\* latest version in the end, whatever failed or raced before: the informers'
\* resynchronisation repairs the store and the index.
EventuallyShown ==
    \A o \in Object :
        <>[](State(o) = "present" /\ Watched(ClusterOf[o]))
            => <>[](Holds(o, Len(hist[o])))

\* extending-explorer.md:18, "This will ensure the Object is correctly deleted
\* from the Explorer database when it is deleted from the cluster"; and for
\* objects with a retention policy, once that has passed.
EventuallyRemoved ==
    \A o \in Object :
        <>[](/\ State(o) = "absent" /\ Watched(ClusterOf[o])
             /\ o \in Retained => expired[o] = Len(hist[o]))
            => <>[](row[o] = 0)

\* What a query or a search can find of an object is a version it has had: one in
\* which it was there, unless its kind is retained, whatever failed between the
\* store and the index and however watchers overlapped.
FoundWas ==
    \A o \in Object : \A v \in {row[o], index[o]} \ {0} :
        v \in 1 .. Len(hist[o]) /\ (hist[o][v] = "present" \/ o \in Retained)

LeavesByHook(o) ==
    /\ row[o] # 0 /\ row'[o] = 0 => hookPc = "rows" /\ hookCluster = ClusterOf[o]
    /\ index[o] # 0 /\ index'[o] = 0 =>
          hookPc = "documents" /\ hookCluster = ClusterOf[o]

\* What is behind it, for an object without finalizers of a kind that is not
\* listed as such: once it has been stored, only the stop hook of its cluster
\* takes it out of the store and the index, whatever becomes of the object.
OnlyForgotten ==
    [][\A o \in Object \ (Finalized \cup Listed) : LeavesByHook(o)]_vars
=============================================================================
