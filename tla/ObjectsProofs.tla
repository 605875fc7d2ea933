----------------------------- MODULE ObjectsProofs -----------------------------
(***************************************************************************)
(* Proofs about module Objects: its types, the order in which transactions *)
(* reach the store, and that the store implements Mirror, for any number   *)
(* of objects, clusters, watchers and failures.                            *)
(***************************************************************************)
EXTENDS Objects, TLAPS

USE ObjectsAssumption
USE DEF vars, mirrorVars, watcherVars, consumerVars, indexVars, hookVars,
        cleanerVars, boundVars

\* The state an object is in is one of the three.
LEMMA StateType ==
    ASSUME TypeOK, NEW o \in Object
    PROVE  State(o) \in States
  <1>1. CASE hist[o] = <<>>
    BY <1>1 DEF State, States
  <1>2. CASE hist[o] # <<>>
    <2>1. hist[o] \in Seq(States)
      BY DEF TypeOK
    <2>2. Len(hist[o]) \in 1 .. Len(hist[o])
      BY <1>2, <2>1
    <2> QED
      BY <1>2, <2>1, <2>2 DEF State
  <1> QED
    BY <1>1, <1>2

\* A failure counts within its bound.
LEMMA FailureType ==
    ASSUME TypeOK, Failure
    PROVE  failures' \in 0 .. MaxFailures
  BY DEF TypeOK, Failure

\* One entry of a table of versions is set.
LEMMA SetVersion ==
    ASSUME NEW f \in [Object -> Nat], NEW o \in Object, NEW v \in Nat
    PROVE  [f EXCEPT ![o] = v] \in [Object -> Nat]
  OBVIOUS

LEMMA InitType == Init => TypeOK
  BY DEF Init, TypeOK, NoRows, Version, Tx, States

\* The clusters and the controller managers keep the types.
LEMMA WatcherTypes ==
    ASSUME TypeOK,
           \/ \E o \in Object : Change(o) \/ RetentionPasses(o)
           \/ \E w \in Watcher : \/ StartWatcher(w) \/ StopWatcher(w)
                                 \/ \E o \in Object : Resync(w, o) \/ Reconcile(w, o)
           \/ \E c \in Cluster : Unwatch(c)
    PROVE  TypeOK'
  <1> USE DEF Version
  <1>1. ASSUME NEW o \in Object, Change(o)
        PROVE  TypeOK'
    <2>1. PICK s \in NextStates(o) : hist' = [hist EXCEPT ![o] = Append(@, s)]
      BY <1>1 DEF Change
    <2>2. s \in States
      BY StateType DEF NextStates, States
    <2>3. hist[o] \in Seq(States)
      BY DEF TypeOK
    <2>4. Append(hist[o], s) \in Seq(States)
      BY <2>2, <2>3
    <2>5. hist' \in [Object -> Seq(States)]
      BY <2>1, <2>4 DEF TypeOK
    <2>6. pending' \in [Watcher -> SUBSET Object]
      BY <1>1 DEF Change, Notify, TypeOK
    <2> QED
      BY <1>1, <2>5, <2>6 DEF Change, TypeOK, Tx
  <1>2. ASSUME NEW o \in Object, RetentionPasses(o)
        PROVE  TypeOK'
    <2>1. Len(hist[o]) \in Nat
      BY DEF TypeOK
    <2> QED
      BY <1>2, <2>1 DEF RetentionPasses, TypeOK, Tx
  <1>3. ASSUME NEW w \in Watcher, StartWatcher(w)
        PROVE  TypeOK'
    BY <1>3 DEF StartWatcher, ObjectsOf, TypeOK, Tx
  <1>4. ASSUME NEW w \in Watcher, StopWatcher(w)
        PROVE  TypeOK'
    BY <1>4, FailureType DEF StopWatcher, TypeOK, Tx
  <1>5. ASSUME NEW w \in Watcher, NEW o \in Object, Resync(w, o)
        PROVE  TypeOK'
    BY <1>5 DEF Resync, TypeOK, Tx
  <1>6. ASSUME NEW w \in Watcher, NEW o \in Object, Reconcile(w, o)
        PROVE  TypeOK'
    <2>1. Len(hist[o]) \in Nat
      BY DEF TypeOK
    <2>2. TransactionTypes(o) \subseteq {"upsert", "delete"}
      BY StateType DEF TransactionTypes, States
    <2>3. {[watcher |-> w, object |-> o, version |-> Len(hist[o]), type |-> t] :
              t \in TransactionTypes(o)} \subseteq Tx
      BY <2>1, <2>2 DEF Tx
    <2>4. held' \subseteq Tx
      BY <1>6, <2>3 DEF Reconcile, TypeOK
    <2>5. pending' \in [Watcher -> SUBSET Object]
      BY <1>6 DEF Reconcile, TypeOK
    <2> QED
      BY <1>6, <2>4, <2>5 DEF Reconcile, TypeOK
  <1>7. ASSUME NEW c \in Cluster, Unwatch(c)
        PROVE  TypeOK'
    BY <1>7 DEF Unwatch, TypeOK, Tx
  <1> QED
    BY <1>1, <1>2, <1>3, <1>4, <1>5, <1>6, <1>7

\* The consumer keeps the types.
LEMMA ConsumerTypes ==
    ASSUME TypeOK,
           \/ \E w \in Watcher, k \in {KindOf[o] : o \in Object} : Receive(w, k)
           \/ ConsumerStep
    PROVE  TypeOK'
  <1> USE DEF Version
  <1>1. ASSUME NEW w \in Watcher, NEW k, Receive(w, k)
        PROVE  TypeOK'
    BY <1>1 DEF Receive, TypeOK
  <1>2. CASE StoreRow
    <2>1. PICK t \in batch :
             \/ /\ row' = [row EXCEPT ![t.object] = t.version]
                /\ applied' = [applied EXCEPT ![t.object] = t.version]
                /\ consumerPc' = "index"
                /\ UNCHANGED <<batch, failures>>
             \/ Failure /\ Done /\ UNCHANGED <<row, applied>>
      BY <1>2 DEF StoreRow
    <2>2. t.object \in Object /\ t.version \in Nat
      BY DEF TypeOK, Tx
    <2>3. row' \in [Object -> Nat] /\ applied' \in [Object -> Nat]
      <3>1. CASE UNCHANGED <<row, applied>>
        BY <3>1 DEF TypeOK
      <3>2. CASE /\ row' = [row EXCEPT ![t.object] = t.version]
                 /\ applied' = [applied EXCEPT ![t.object] = t.version]
        BY <3>2, <2>2, SetVersion DEF TypeOK
      <3> QED BY <2>1, <3>1, <3>2
    <2>4. failures' \in 0 .. MaxFailures
      BY <2>1, FailureType DEF TypeOK
    <2>5. consumerPc' \in {"receive", "index"} /\ batch' \subseteq batch
      BY <2>1 DEF Done
    <2> QED BY <1>2, <2>3, <2>4, <2>5 DEF StoreRow, TypeOK
  <1>3. CASE IndexRow
    <2>1. PICK t \in batch :
             \/ /\ index' = [index EXCEPT ![t.object] = t.version]
                /\ raw' = raw \cup {t.object}
                /\ UNCHANGED failures
             \/ Failure /\ UNCHANGED indexVars
      BY <1>3 DEF IndexRow, Add
    <2>2. t.object \in Object /\ t.version \in Nat
      BY DEF TypeOK, Tx
    <2>3. index' \in [Object -> Nat] /\ raw' \subseteq Object
      <3>1. CASE index' = [index EXCEPT ![t.object] = t.version] /\ raw' = raw \cup {t.object}
        <4>1. index' \in [Object -> Nat]
          BY <3>1, <2>2, SetVersion DEF TypeOK
        <4>2. raw' \subseteq Object
          BY <3>1, <2>2 DEF TypeOK
        <4> QED BY <4>1, <4>2
      <3>2. CASE UNCHANGED indexVars
        BY <3>2 DEF indexVars, TypeOK
      <3> QED BY <2>1, <3>1, <3>2
    <2>4. failures' \in 0 .. MaxFailures
      BY <2>1, FailureType DEF TypeOK
    <2> QED BY <1>3, <2>3, <2>4 DEF IndexRow, Done, TypeOK
  <1>4. CASE DeleteRow
    <2>1. PICK t \in batch :
             \/ /\ row' = [row EXCEPT ![t.object] = 0]
                /\ applied' = [applied EXCEPT ![t.object] = t.version]
                /\ consumerPc' = "unindex"
                /\ UNCHANGED <<batch, failures>>
             \/ Failure /\ Done /\ UNCHANGED <<row, applied>>
      BY <1>4 DEF DeleteRow
    <2>2. t.object \in Object /\ t.version \in Nat
      BY DEF TypeOK, Tx
    <2>3. row' \in [Object -> Nat] /\ applied' \in [Object -> Nat]
      <3>1. CASE UNCHANGED <<row, applied>>
        BY <3>1 DEF TypeOK
      <3>2. CASE /\ row' = [row EXCEPT ![t.object] = 0]
                 /\ applied' = [applied EXCEPT ![t.object] = t.version]
        BY <3>2, <2>2, SetVersion DEF TypeOK
      <3> QED
        BY <2>1, <3>1, <3>2
    <2>4. failures' \in 0 .. MaxFailures
      BY <2>1, FailureType DEF TypeOK
    <2>5. consumerPc' \in {"receive", "unindex"} /\ batch' \subseteq batch
      BY <2>1 DEF Done
    <2> QED
      BY <1>4, <2>3, <2>4, <2>5 DEF DeleteRow, TypeOK
  <1>5. CASE UnindexRow
    <2>1. PICK t \in batch :
             \/ index' = [index EXCEPT ![t.object] = 0] /\ UNCHANGED failures
             \/ Failure /\ UNCHANGED index
      BY <1>5 DEF UnindexRow
    <2>2. index' \in [Object -> Nat]
      <3>1. CASE index' = index
        BY <3>1 DEF TypeOK
      <3>2. CASE index' = [index EXCEPT ![t.object] = 0]
        BY <3>2, SetVersion DEF TypeOK, Tx
      <3> QED
        BY <2>1, <3>1, <3>2
    <2>3. failures' \in 0 .. MaxFailures
      BY <2>1, FailureType DEF TypeOK
    <2> QED
      BY <1>5, <2>2, <2>3 DEF UnindexRow, Done, TypeOK
  <1> QED
    BY <1>1, <1>2, <1>3, <1>4, <1>5 DEF ConsumerStep

\* The stop hook and the cleaner keep the types.
LEMMA HookAndCleanerTypes ==
    ASSUME TypeOK, HookStep \/ CleanerStep
    PROVE  TypeOK'
  <1> USE DEF Version
  <1>1. CASE DeleteAllRows
    <2>1. row' \in [Object -> Nat]
      <3>1. CASE row' = row
        BY <3>1 DEF TypeOK
      <3>2. CASE row' = [o \in Object |-> IF ClusterOf[o] = hookCluster THEN 0 ELSE row[o]]
        <4>1. \A o \in Object : row[o] \in Nat
          BY DEF TypeOK
        <4> QED
          BY <3>2, <4>1
      <3> QED
        BY <1>1, <3>1, <3>2 DEF DeleteAllRows
    <2>2. failures' \in 0 .. MaxFailures
      BY <1>1, FailureType DEF DeleteAllRows, HookFails, TypeOK
    <2> QED
      BY <1>1, <2>1, <2>2 DEF DeleteAllRows, HookFails, TypeOK
  <1>2. CASE SearchDocuments
    BY <1>2, FailureType DEF SearchDocuments, HookFails, Matching, ObjectsOf, TypeOK, Tx
  <1>3. CASE DeleteDocument
    <2>1. index' \in [Object -> Nat]
      <3>1. CASE index' = index
        BY <3>1 DEF TypeOK
      <3>2. CASE \E o \in hits : index' = [index EXCEPT ![o] = 0]
        BY <3>2, SetVersion DEF TypeOK
      <3> QED
        BY <1>3, <3>1, <3>2 DEF DeleteDocument
    <2>2. failures' \in 0 .. MaxFailures
      BY <1>3, FailureType DEF DeleteDocument, HookFails, TypeOK
    <2> QED
      BY <1>3, <2>1, <2>2 DEF DeleteDocument, HookFails, TypeOK
  <1>4. CASE HookReturns
    BY <1>4 DEF HookReturns, TypeOK, Tx
  <1>5. CASE ReadAllRows
    BY <1>5 DEF ReadAllRows, TypeOK, Tx
  <1>6. ASSUME NEW o \in Object, CleanRow(o)
        PROVE  TypeOK'
    <2>1. snapshot' \in [Object -> Nat]
      BY <1>6, SetVersion DEF CleanRow, TypeOK
    <2>2. row' \in [Object -> Nat]
      <3>1. CASE row' = row
        BY <3>1 DEF TypeOK
      <3>2. CASE row' = [row EXCEPT ![o] = 0]
        BY <3>2, SetVersion DEF TypeOK
      <3> QED
        BY <1>6, <3>1, <3>2 DEF CleanRow
    <2>3. failures' \in 0 .. MaxFailures
      BY <1>6, FailureType DEF CleanRow, TypeOK
    <2> QED
      BY <1>6, <2>1, <2>2, <2>3 DEF CleanRow, TypeOK
  <1>7. CASE CleanDocument
    <2>1. index' \in [Object -> Nat]
      <3>1. CASE index' = index
        BY <3>1 DEF TypeOK
      <3>2. CASE \E o \in cleaning : index' = [index EXCEPT ![o] = 0]
        BY <3>2, SetVersion DEF TypeOK
      <3> QED
        BY <1>7, <3>1, <3>2 DEF CleanDocument
    <2>2. failures' \in 0 .. MaxFailures
      BY <1>7, FailureType DEF CleanDocument, TypeOK
    <2> QED
      BY <1>7, <2>1, <2>2 DEF CleanDocument, TypeOK
  <1> QED
    BY <1>1, <1>2, <1>3, <1>4, <1>5, <1>6, <1>7 DEF HookStep, CleanerStep

\* Every step keeps the types.
LEMMA NextType == TypeOK /\ [Next]_vars => TypeOK'
  <1> SUFFICES ASSUME TypeOK, [Next]_vars
               PROVE  TypeOK'
    OBVIOUS
  <1>1. CASE UNCHANGED vars
    BY <1>1 DEF TypeOK, Tx
  <1>2. CASE Next
    BY <1>2, WatcherTypes, ConsumerTypes, HookAndCleanerTypes DEF Next, WatcherStep
  <1> QED
    BY <1>1, <1>2

\* Every variable keeps its type: the transactions in hand name watchers and
\* objects there are, and only ask for what processRecords knows.
THEOREM TypeCorrect == Spec => []TypeOK
  <1>1. Init => TypeOK
    BY InitType
  <1>2. TypeOK /\ [Next]_vars => TypeOK'
    BY NextType
  <1> QED
    BY <1>1, <1>2, PTL DEF Spec

-----------------------------------------------------------------------------
(* What is in hand is true, and fits.                                      *)

\* What was true of a version stays true: histories only grow, and the
\* retention only moves on.
LEMMA VersionsStay ==
    ASSUME TypeOK, NEW o \in Object, Change(o) \/ RetentionPasses(o),
           NEW p \in Object, NEW v \in 1 .. Len(hist[p])
    PROVE  /\ v \in 1 .. Len(hist'[p])
           /\ hist'[p][v] = hist[p][v]
           /\ v <= expired[p] => v <= expired'[p]
  <1>1. CASE Change(o)
    <2>1. PICK s \in NextStates(o) : hist' = [hist EXCEPT ![o] = Append(@, s)]
      BY <1>1 DEF Change
    <2>2. hist[p] \in Seq(States) /\ hist[o] \in Seq(States)
      BY DEF TypeOK
    <2>3. s \in States
      BY StateType DEF NextStates, States
    <2>4. hist'[p] = IF p = o THEN Append(hist[o], s) ELSE hist[p]
      BY <2>1 DEF TypeOK
    <2> QED
      BY <1>1, <2>2, <2>3, <2>4 DEF Change
  <1>2. CASE RetentionPasses(o)
    <2>1. hist[p] \in Seq(States) /\ expired \in [Object -> Nat]
      BY DEF TypeOK, Version
    <2>2. expired'[p] = IF p = o THEN Len(hist[p]) ELSE expired[p]
      BY <1>2, <2>1 DEF RetentionPasses
    <2> QED
      BY <1>2, <2>1, <2>2 DEF RetentionPasses
  <1> QED
    BY <1>1, <1>2

LEMMA InitFit == Init => FitInv
  BY DEF Init, FitInv, QueuesFit, BatchFits

\* The clusters change: what is in hand is as true as it was.
LEMMA ClusterKeepsFit ==
    ASSUME TypeOK, FitInv, NEW o \in Object, Change(o) \/ RetentionPasses(o)
    PROVE  FitInv'
  <1>1. /\ UNCHANGED <<running, held, consumerPc, batch, applied>>
        /\ held \cup batch \subseteq Tx
    BY DEF Change, RetentionPasses, TypeOK
  <1>2. QueuesFit'
    <2> SUFFICES ASSUME NEW w \in Watcher, NEW p \in pending'[w]
                 PROVE  ClusterOf[p] = WatcherCluster[w] /\ hist'[p] # <<>>
      BY DEF QueuesFit
    <2>1. CASE p \in pending[w]
      <3>1. p \in Object /\ hist[p] # <<>> /\ hist[p] \in Seq(States)
        BY <2>1 DEF FitInv, QueuesFit, TypeOK
      <3>2. 1 \in 1 .. Len(hist[p])
        BY <3>1
      <3>3. 1 \in 1 .. Len(hist'[p])
        BY <3>1, <3>2, VersionsStay
      <3>4. Len(<<>>) = 0
        OBVIOUS
      <3> QED
        BY <2>1, <3>3, <3>4 DEF FitInv, QueuesFit
    <2>2. CASE p \notin pending[w]
      <3>1. Change(o) /\ p = o /\ WatcherCluster[w] = ClusterOf[o]
        BY <2>2 DEF Change, RetentionPasses, Notify, TypeOK
      <3>2. PICK s \in NextStates(o) : hist' = [hist EXCEPT ![o] = Append(@, s)]
        BY <3>1 DEF Change
      <3>3. hist[o] \in Seq(States) /\ s \in States /\ hist'[o] = Append(hist[o], s)
        BY <3>2, StateType DEF NextStates, States, TypeOK
      <3>4. hist'[o] # <<>>
        BY <3>3
      <3> QED
        BY <3>1, <3>4
    <2> QED
      BY <2>1, <2>2
  <1>3. ASSUME NEW t \in held \cup batch
        PROVE  Truthful(t)'
    <2>1. t.object \in Object /\ Truthful(t)
      BY <1>1 DEF FitInv, Tx
    <2>2. /\ t.version \in 1 .. Len(hist'[t.object])
          /\ hist'[t.object][t.version] = hist[t.object][t.version]
      BY <2>1, VersionsStay DEF Truthful
    <2> QED
      BY <1>1, <2>1, <2>2 DEF Truthful
  <1>4. BatchFits'
    <2>1. ASSUME NEW t \in batch, Deletes(t)
          PROVE  Deletes(t)'
      <3>1. t.object \in Object /\ t.version \in 1 .. Len(hist[t.object])
        BY <1>1 DEF FitInv, Truthful, Tx
      <3> QED
        BY <2>1, <3>1, VersionsStay DEF Deletes, IsExpired
    <2> QED
      BY <1>1, <2>1 DEF FitInv, BatchFits
  <1> QED
    BY <1>1, <1>2, <1>3, <1>4 DEF FitInv

\* Watchers come and go.
LEMMA WatcherKeepsFit ==
    ASSUME TypeOK, FitInv,
           \/ \E w \in Watcher : \/ StartWatcher(w) \/ StopWatcher(w)
                                 \/ \E o \in Object : Resync(w, o)
           \/ \E c \in Cluster : Unwatch(c)
    PROVE  FitInv'
  <1>1. UNCHANGED <<hist, expired, applied, held, consumerPc, batch>>
    BY DEF StartWatcher, StopWatcher, Resync, Unwatch
  <1>2. BatchFits' /\ \A t \in held' \cup batch' : Truthful(t)'
    BY <1>1 DEF FitInv, BatchFits, Deletes, IsExpired, Truthful
  <1>3. QueuesFit'
    <2> USE DEF FitInv
    <2>1. ASSUME NEW w \in Watcher, StartWatcher(w)
          PROVE  QueuesFit'
      <3>1. \A o \in Object : State(o) # "absent" => hist[o] # <<>>
        BY DEF State
      <3> QED
        BY <2>1, <1>1, <3>1 DEF StartWatcher, ObjectsOf, QueuesFit, TypeOK
    <2>2. ASSUME NEW w \in Watcher, StopWatcher(w)
          PROVE  QueuesFit'
      BY <2>2, <1>1 DEF StopWatcher, QueuesFit, TypeOK
    <2>3. ASSUME NEW w \in Watcher, NEW o \in Object, Resync(w, o)
          PROVE  QueuesFit'
      BY <2>3, <1>1 DEF Resync, State, QueuesFit, TypeOK
    <2>4. ASSUME NEW c \in Cluster, Unwatch(c)
          PROVE  QueuesFit'
      BY <2>4, <1>1 DEF Unwatch, QueuesFit, TypeOK
    <2> QED
      BY <2>1, <2>2, <2>3, <2>4
  <1> QED
    BY <1>2, <1>3 DEF FitInv

\* A worker sends the latest version, as what it is.
LEMMA NewTransaction ==
    ASSUME TypeOK, FitInv, NEW w \in Watcher, NEW o \in Object, Reconcile(w, o),
           NEW t \in held' \ held
    PROVE  /\ t.watcher = w /\ t.object = o /\ t.version = Len(hist[o])
           /\ t.type \in TransactionTypes(o) /\ Truthful(t)
           /\ \A u \in held' \ held : u = t
  <1>1. \A a, b \in TransactionTypes(o) : a = b
    BY StateType DEF TransactionTypes, States
  <1>2. PICK a \in TransactionTypes(o) :
           t = [watcher |-> w, object |-> o, version |-> Len(hist[o]), type |-> a]
    BY DEF Reconcile
  <1>3. ASSUME NEW u \in held' \ held
        PROVE  u = t
    <2>1. PICK b \in TransactionTypes(o) :
             u = [watcher |-> w, object |-> o, version |-> Len(hist[o]), type |-> b]
      BY <1>3 DEF Reconcile
    <2>2. b = a
      BY <1>1
    <2> QED
      BY <1>2, <2>1, <2>2
  <1>4. Truthful(t)
    <2>1. hist[o] \in Seq(States) /\ hist[o] # <<>>
      BY DEF FitInv, QueuesFit, TypeOK, Reconcile
    <2>2. Len(hist[o]) \in 1 .. Len(hist[o])
      BY <2>1
    <2>3. State(o) = hist[o][Len(hist[o])] /\ State(o) \in States
      BY <2>1, StateType DEF State
    <2>4. t.type = "upsert" <=> State(o) = "present"
      BY <1>2, <2>3 DEF TransactionTypes, States
    <2> QED
      BY <1>2, <2>2, <2>3, <2>4 DEF Truthful
  <1> QED
    BY <1>2, <1>3, <1>4

LEMMA ReconcileKeepsFit ==
    ASSUME TypeOK, FitInv, NEW w \in Watcher, NEW o \in Object, Reconcile(w, o)
    PROVE  FitInv'
  <1>1. /\ UNCHANGED <<hist, expired, consumerPc, batch>>
        /\ \A v \in Watcher : pending'[v] \subseteq pending[v]
    BY DEF Reconcile, TypeOK
  <1>2. QueuesFit' /\ BatchFits'
    BY <1>1 DEF FitInv, QueuesFit, BatchFits, Deletes, IsExpired
  <1>3. ASSUME NEW t \in held' \cup batch'
        PROVE  Truthful(t)'
    <2>1. Truthful(t)
      BY <1>1, NewTransaction DEF FitInv
    <2> QED
      BY <1>1, <2>1 DEF Truthful
  <1> QED
    BY <1>2, <1>3 DEF FitInv

\* The consumer treats a transaction as its type and object call for.
LEMMA ConsumerKeepsFit ==
    ASSUME TypeOK, FitInv, ConsumerStep \/ \E w \in Watcher :
                              \E k \in {KindOf[o] : o \in Object} : Receive(w, k)
    PROVE  FitInv'
  <1>1. /\ UNCHANGED <<hist, expired, pending>>
        /\ held' \cup batch' \subseteq held \cup batch
    BY DEF Receive, ConsumerStep, StoreRow, IndexRow, DeleteRow, UnindexRow, Done
  <1>2. QueuesFit' /\ \A t \in held' \cup batch' : Truthful(t)'
    BY <1>1 DEF FitInv, QueuesFit, Truthful
  <1>3. BatchFits'
    <2>1. CASE ConsumerStep
      <3>1. /\ batch' \subseteq batch
            /\ batch' # {} => consumerPc' \in {"index", "unindex"}
        BY <2>1 DEF ConsumerStep, StoreRow, IndexRow, DeleteRow, UnindexRow, Done
      <3> QED
        BY <3>1 DEF FitInv, BatchFits
    <2>2. ASSUME NEW w \in Watcher, NEW k, Receive(w, k)
          PROVE  BatchFits'
      <3>1. PICK t \in held :
               batch' = {t} /\ consumerPc' = IF Deletes(t) THEN "delete" ELSE "store"
        BY <2>2 DEF Receive
      <3>2. t \in Tx
        BY <3>1 DEF TypeOK
      <3>3. Deletes(t)' <=> Deletes(t)
        BY <1>1 DEF Deletes, IsExpired
      <3>4. ~Deletes(t) => t.type = "upsert" \/ t.object \in Retained
        BY <3>2 DEF Deletes, Tx
      <3> QED
        BY <3>1, <3>3, <3>4 DEF BatchFits
    <2> QED
      BY <2>1, <2>2
  <1> QED
    BY <1>2, <1>3 DEF FitInv

\* Neither the hook nor the cleaner touches what is in hand.
LEMMA OthersKeepHand ==
    ASSUME UNCHANGED vars \/ HookStep \/ CleanerStep
    PROVE  UNCHANGED <<hist, expired, applied, running, pending, held, consumerPc, batch>>
  BY DEF HookStep, DeleteAllRows, SearchDocuments, DeleteDocument, HookReturns,
         CleanerStep, ReadAllRows, CleanRow, CleanDocument, vars, mirrorVars,
         watcherVars, consumerVars

LEMMA NextKeepsFit ==
    ASSUME TypeOK, FitInv, [Next]_vars
    PROVE  FitInv'
  <1>1. CASE UNCHANGED vars \/ HookStep \/ CleanerStep
    BY <1>1, OthersKeepHand DEF FitInv, QueuesFit, BatchFits, Truthful, Deletes, IsExpired
  <1>2. CASE Next
    BY <1>1, <1>2, ClusterKeepsFit, WatcherKeepsFit, ReconcileKeepsFit, ConsumerKeepsFit
       DEF Next, WatcherStep
  <1> QED
    BY <1>1, <1>2

LEMMA FitAlways == Spec => []FitInv
  <1>1. TypeOK /\ FitInv /\ [Next]_vars => FitInv'
    BY NextKeepsFit
  <1> QED
    BY InitFit, <1>1, TypeCorrect, PTL DEF Spec

-----------------------------------------------------------------------------
(* The order in which transactions reach the store.                        *)

LEMMA InitOrder == Init => OrderInv
  <1> SUFFICES ASSUME Init
               PROVE  OrderInv
    OBVIOUS
  <1>1. \A o \in Object : applied[o] <= Len(hist[o])
    BY DEF Init, NoRows
  <1>2. running = {} /\ held = {} /\ batch = {}
    BY DEF Init
  <1> QED
    BY <1>1, <1>2 DEF OrderInv, OneWatcher, OneHeld, InOrder

\* Histories only grow.
LEMMA ClusterKeepsOrder ==
    ASSUME TypeOK, FitInv', OrderInv, NEW o \in Object, Change(o) \/ RetentionPasses(o)
    PROVE  OrderInv'
  <1>1. UNCHANGED <<running, held, batch, applied>>
    BY DEF Change, RetentionPasses
  <1>2. OneWatcher' /\ OneHeld'
    BY <1>1 DEF OrderInv, OneWatcher, OneHeld
  <1>3. ASSUME NEW p \in Object
        PROVE  applied[p] <= Len(hist'[p])
    <2>1. applied[p] <= Len(hist[p]) /\ hist[p] \in Seq(States) /\ applied[p] \in Nat
      BY DEF OrderInv, InOrder, TypeOK, Version
    <2>2. Len(hist[p]) \in Nat /\ (Len(hist[p]) \in 1 .. Len(hist[p]) \/ Len(hist[p]) = 0)
      BY <2>1
    <2>3. Len(hist'[p]) \in Nat
      BY NextType DEF Next, TypeOK
    <2> QED
      BY <2>1, <2>2, <2>3, VersionsStay
  <1>4. InOrder'
    BY <1>1, <1>3 DEF OrderInv, InOrder, Timely, FitInv
  <1> QED
    BY <1>2, <1>4 DEF OrderInv

\* Watchers come and go one after the other.
LEMMA WatcherKeepsOrder ==
    ASSUME Sequential, TypeOK, OrderInv,
           \/ \E w \in Watcher : \/ StartWatcher(w) \/ StopWatcher(w)
                                 \/ \E o \in Object : Resync(w, o)
           \/ \E c \in Cluster : Unwatch(c)
    PROVE  OrderInv'
  <1> USE DEF OrderInv
  <1>1. UNCHANGED <<hist, applied, held, batch>>
    BY DEF StartWatcher, StopWatcher, Resync, Unwatch
  <1>2. InOrder'
    BY <1>1 DEF InOrder, Timely, Truthful
  <1>3. OneWatcher' /\ OneHeld'
    <2>1. ASSUME NEW w \in Watcher, StartWatcher(w)
          PROVE  OneWatcher' /\ OneHeld'
      BY <2>1, <1>1 DEF StartWatcher, NothingLeft, OneWatcher, OneHeld
    <2>2. CASE running' \subseteq running
      BY <2>2, <1>1 DEF OneWatcher, OneHeld
    <2> QED
      BY <2>1, <2>2 DEF StopWatcher, Resync, Unwatch
  <1> QED
    BY <1>2, <1>3

\* A worker reads the latest version, and has nothing else of the object to
\* send.
LEMMA ReconcileKeepsOrder ==
    ASSUME TypeOK, FitInv, OrderInv, NEW w \in Watcher, NEW o \in Object, Reconcile(w, o)
    PROVE  OrderInv'
  <1> USE DEF OrderInv
  <1>1. /\ UNCHANGED <<hist, applied, running, batch>>
        /\ w \in running /\ o \in pending[w] /\ WorkerFree(w, o)
    BY DEF Reconcile
  <1>2. ClusterOf[o] = WatcherCluster[w]
    BY <1>1 DEF FitInv, QueuesFit
  <1>3. ASSUME NEW t \in held' \ held
        PROVE  /\ t.watcher = w /\ t.object = o /\ t.version = Len(hist[o]) /\ Truthful(t)
               /\ \A u \in held' \ held : u = t
    BY <1>3, NewTransaction
  <1>4. ASSUME NEW u \in held
        PROVE  u.object # o
    <2> SUFFICES ASSUME u.object = o
                 PROVE  FALSE
      OBVIOUS
    <2>1. u.watcher = w
      BY <1>1, <1>2 DEF OneHeld
    <2> QED
      BY <1>1, <2>1 DEF WorkerFree
  <1>5. applied[o] <= Len(hist[o]) /\ \A t \in batch : t.object = o => t.version <= Len(hist[o])
    <2>1. \A t \in batch : t.object = o => t.version <= Len(hist[o])
      BY DEF FitInv, Truthful
    <2> QED
      BY <2>1 DEF InOrder
  <1>6. OneWatcher'
    BY <1>1 DEF OneWatcher
  <1>7. OneHeld'
    BY <1>1, <1>2, <1>3, <1>4 DEF OneHeld, OneWatcher
  <1>8. InOrder'
    <2>1. ASSUME NEW t \in held' \ held
          PROVE  Timely(t)'
      BY <1>1, <1>3, <1>5 DEF Timely, Truthful
    <2>2. ASSUME NEW t \in held \cup batch
          PROVE  Timely(t)'
      BY <1>1 DEF InOrder, Timely, Truthful
    <2>3. ASSUME NEW t \in batch, NEW u \in held', t.object = u.object
          PROVE  t.version <= u.version
      BY <2>3, <1>3, <1>5 DEF InOrder
    <2> QED
      BY <1>1, <2>1, <2>2, <2>3 DEF InOrder
  <1> QED
    BY <1>6, <1>7, <1>8

\* The consumer takes the one transaction there is for an object.
LEMMA ReceiveKeepsOrder ==
    ASSUME TypeOK, OrderInv, NEW w \in Watcher, NEW k, Receive(w, k)
    PROVE  OrderInv'
  <1> USE DEF OrderInv
  <1>1. PICK t \in held : held' = held \ {t} /\ batch' = {t}
    BY DEF Receive
  <1>2. UNCHANGED <<hist, applied, running>>
    BY DEF Receive
  <1>3. OneWatcher' /\ OneHeld'
    BY <1>1, <1>2 DEF OneWatcher, OneHeld
  <1>4. InOrder'
    BY <1>1, <1>2 DEF InOrder, OneHeld, Timely, Truthful
  <1> QED
    BY <1>3, <1>4

\* The store has caught up with what the consumer has in hand, and what waits
\* to be sent is no older.
LEMMA ConsumerKeepsOrder ==
    ASSUME TypeOK, FitInv, OrderInv, ConsumerStep
    PROVE  OrderInv'
  <1> USE DEF OrderInv
  <1>1. UNCHANGED <<hist, running, held>> /\ batch' \subseteq batch
    BY DEF ConsumerStep, StoreRow, IndexRow, DeleteRow, UnindexRow, Done
  <1>2. OneWatcher' /\ OneHeld'
    BY <1>1 DEF OneWatcher, OneHeld
  <1>3. ASSUME UNCHANGED applied
        PROVE  InOrder'
    BY <1>1, <1>3 DEF InOrder, Timely, Truthful
  <1>4. ASSUME NEW t \in batch, applied' = [applied EXCEPT ![t.object] = t.version]
        PROVE  InOrder'
    <2>1. t \in Tx /\ Timely(t)
      BY DEF InOrder, TypeOK
    <2>2. \A o \in Object : applied'[o] = IF o = t.object THEN t.version ELSE applied[o]
      BY <1>4 DEF TypeOK
    <2>3. \A o \in Object : applied'[o] <= Len(hist[o])
      <3>1. t.version <= Len(hist[t.object])
        BY <2>1 DEF Timely, Truthful, Tx, Version
      <3> QED
        BY <2>2, <3>1 DEF InOrder
    <2>4. ASSUME NEW u \in held \cup batch'
          PROVE  Timely(u)'
      <3>1. u \in Tx /\ Timely(u)
        BY <1>1 DEF InOrder, TypeOK
      <3>2. u.object = t.object => t.version <= u.version
        BY <1>1, <2>1 DEF InOrder, FitInv, BatchFits, Tx, Version
      <3> QED
        BY <1>1, <2>2, <3>1, <3>2 DEF Timely, Truthful, Tx
    <2> QED
      BY <1>1, <2>3, <2>4 DEF InOrder
  <1>5. InOrder'
    BY <1>3, <1>4 DEF ConsumerStep, StoreRow, IndexRow, DeleteRow, UnindexRow
  <1> QED
    BY <1>2, <1>5

LEMMA NextKeepsInHand ==
    ASSUME TypeOK, InHandInv, [Next]_vars
    PROVE  InHandInv'
  <1>1. FitInv'
    BY NextKeepsFit DEF InHandInv
  <1>2. ASSUME Sequential, OrderInv
        PROVE  OrderInv'
    <2>1. CASE UNCHANGED vars \/ HookStep \/ CleanerStep
      BY <1>2, <2>1, OthersKeepHand
         DEF OrderInv, OneWatcher, OneHeld, InOrder, Timely, Truthful
    <2>2. CASE Next
      BY <1>1, <1>2, <2>1, <2>2, ClusterKeepsOrder, WatcherKeepsOrder, ReconcileKeepsOrder,
         ReceiveKeepsOrder, ConsumerKeepsOrder DEF Next, WatcherStep, InHandInv
    <2> QED
      BY <2>1, <2>2
  <1> QED
    BY <1>1, <1>2 DEF InHandInv

\* What is under way is about versions that the objects have had and is dealt
\* with as they call for, and reaches the store in the order in which the objects
\* were read, if a cluster is watched anew only when nothing of its last watcher
\* is left.
THEOREM OrderCorrect == Spec => []InHandInv
  <1>1. Init => InHandInv
    BY InitFit, InitOrder DEF InHandInv
  <1>2. TypeOK /\ InHandInv /\ [Next]_vars => InHandInv'
    BY NextKeepsInHand
  <1> QED
    BY <1>1, <1>2, TypeCorrect, PTL DEF Spec

-----------------------------------------------------------------------------
(* The store implements Mirror.                                            *)

\* What the consumer does to the row of an object is what Mirror allows.
LEMMA ConsumerCatchesUp ==
    ASSUME TypeOK, InHandInv, ConsumerStep
    PROVE  (\E o \in Object : M!CatchUp(o)) \/ UNCHANGED mirrorVars
  <1> USE DEF InHandInv, FitInv
  <1>1. ASSUME NEW t \in batch, NEW r \in {0, t.version},
               row' = [row EXCEPT ![t.object] = r],
               applied' = [applied EXCEPT ![t.object] = t.version],
               UNCHANGED <<hist, expired>>,
               /\ r = 0 => Deletes(t)
               /\ r # 0 => t.type = "upsert" \/ t.object \in Retained
        PROVE  \E o \in Object : M!CatchUp(o)
    <2>1. t \in Tx /\ Truthful(t) /\ (Sequential => applied[t.object] <= t.version)
      BY DEF OrderInv, InOrder, Timely, TypeOK
    <2>2. t.object \in Object /\ t.version \in 1 .. Len(hist[t.object])
      BY <2>1 DEF Tx, Truthful
    <2>3. r \in M!Rows(t.object, t.version)
      <3>1. CASE r = 0
        BY <1>1, <2>1, <3>1 DEF M!Rows, Deletes, IsExpired, Truthful, Tx, Version
      <3>2. CASE r # 0
        BY <1>1, <2>1, <3>2 DEF M!Rows, Truthful
      <3> QED
        BY <3>1, <3>2
    <2>4. M!CatchUp(t.object)
      BY <1>1, <2>1, <2>2, <2>3 DEF M!CatchUp
    <2> QED
      BY <2>2, <2>4
  <1>2. CASE StoreRow /\ ~UNCHANGED mirrorVars
    <2>1. PICK t \in batch :
             /\ row' = [row EXCEPT ![t.object] = t.version]
             /\ applied' = [applied EXCEPT ![t.object] = t.version]
      BY <1>2 DEF StoreRow
    <2>2. t.version # 0
      BY DEF Truthful, TypeOK, Tx, Version
    <2>3. t.type = "upsert" \/ t.object \in Retained
      BY <1>2 DEF StoreRow, BatchFits
    <2> QED
      BY <1>1, <1>2, <2>1, <2>2, <2>3 DEF StoreRow
  <1>3. CASE DeleteRow /\ ~UNCHANGED mirrorVars
    <2>1. PICK t \in batch :
             /\ row' = [row EXCEPT ![t.object] = 0]
             /\ applied' = [applied EXCEPT ![t.object] = t.version]
      BY <1>3 DEF DeleteRow
    <2>2. Deletes(t)
      BY <1>3 DEF DeleteRow, BatchFits
    <2> QED
      BY <1>1, <1>3, <2>1, <2>2 DEF DeleteRow
  <1>4. CASE IndexRow \/ UnindexRow
    BY <1>4 DEF IndexRow, UnindexRow
  <1> QED
    BY <1>2, <1>3, <1>4 DEF ConsumerStep

\* A version of o that a row may hold, or none: one the store has caught up with,
\* if it never goes back, and a deletion only of an object that is kept.
Kept(o, v) ==
    v # 0 => /\ v \in 1 .. Len(hist[o])
             /\ Sequential => v <= applied[o]
             /\ hist[o][v] = "terminating" => o \in Retained

\* Why the cleaner drops nothing else: what it has read were such rows, and what
\* it is dropping had such a row that was expired.
CleanerInv ==
    /\ \A o \in Object : Kept(o, row[o]) /\ Kept(o, snapshot[o])
    /\ ~EnableObjectCleaner => snapshot = NoRows
    /\ \A o \in cleaning : Cleanable(o)

\* Histories and the retention only move on.
LEMMA TimePasses ==
    ASSUME TypeOK, [Next]_vars, NEW o \in Object, NEW v \in 1 .. Len(hist[o])
    PROVE  /\ v \in 1 .. Len(hist'[o]) /\ hist'[o][v] = hist[o][v]
           /\ v <= expired[o] => v <= expired'[o]
  <1>1. CASE \E p \in Object : Change(p) \/ RetentionPasses(p)
    BY <1>1, VersionsStay
  <1>2. CASE UNCHANGED <<hist, expired>>
    BY <1>2
  <1> QED
    BY <1>1, <1>2 DEF Next, WatcherStep, StartWatcher, StopWatcher, Resync, Reconcile,
       Receive, Unwatch, ConsumerStep, StoreRow, IndexRow, DeleteRow, UnindexRow,
       HookStep, DeleteAllRows, SearchDocuments, DeleteDocument, HookReturns,
       CleanerStep, ReadAllRows, CleanRow, CleanDocument

LEMMA CleanableStays ==
    ASSUME TypeOK, [Next]_vars, NEW o \in Object, Cleanable(o)
    PROVE  Cleanable(o)'
  <1>1. PICK v \in 1 .. Len(hist[o]) : IsExpired(o, v)
    BY DEF Cleanable
  <1>2. /\ v \in 1 .. Len(hist'[o]) /\ hist'[o][v] = hist[o][v]
        /\ v <= expired[o] => v <= expired'[o]
    BY TimePasses
  <1> QED
    BY <1>1, <1>2 DEF Cleanable, IsExpired

\* What the consumer writes is about a version that the store then has caught
\* up with, and the store never goes back if what it is told is in order.
LEMMA ConsumerKeepsRows ==
    ASSUME TypeOK, InHandInv, CleanerInv, ConsumerStep, NEW o \in Object
    PROVE  Kept(o, row[o])' /\ (Sequential => applied[o] <= applied'[o])
  <1> USE DEF InHandInv, FitInv
  <1>1. hist' = hist /\ applied[o] \in Nat
    BY DEF ConsumerStep, StoreRow, IndexRow, DeleteRow, UnindexRow, TypeOK, Version
  <1>2. CASE UNCHANGED <<row, applied>>
    BY <1>1, <1>2 DEF CleanerInv, Kept
  <1>3. ASSUME NEW t \in batch, NEW r \in {0, t.version},
               row' = [row EXCEPT ![t.object] = r],
               applied' = [applied EXCEPT ![t.object] = t.version],
               r # 0 => t.type = "upsert" \/ t.object \in Retained
        PROVE  Kept(o, row[o])' /\ (Sequential => applied[o] <= applied'[o])
    <2>1. t \in Tx /\ Truthful(t) /\ (Sequential => applied[t.object] <= t.version)
      BY DEF OrderInv, InOrder, Timely, TypeOK
    <2>2. CASE o # t.object
      <3>1. row'[o] = row[o] /\ applied'[o] = applied[o]
        BY <1>3, <2>2 DEF TypeOK
      <3> QED
        BY <1>1, <3>1 DEF CleanerInv, Kept
    <2>3. CASE o = t.object
      <3>1. row'[o] = r /\ applied'[o] = t.version
        BY <1>3, <2>3 DEF TypeOK
      <3> QED
        BY <1>1, <1>3, <2>1, <2>3, <3>1 DEF Kept, Truthful, Tx, Version
    <2> QED
      BY <2>2, <2>3
  <1>4. CASE StoreRow /\ ~UNCHANGED <<row, applied>>
    <2>1. PICK t \in batch :
             /\ row' = [row EXCEPT ![t.object] = t.version]
             /\ applied' = [applied EXCEPT ![t.object] = t.version]
      BY <1>4 DEF StoreRow
    <2>2. t.type = "upsert" \/ t.object \in Retained
      BY <1>4 DEF StoreRow, BatchFits
    <2> QED
      BY <1>3, <2>1, <2>2
  <1>5. CASE DeleteRow /\ ~UNCHANGED <<row, applied>>
    <2>1. PICK t \in batch :
             /\ row' = [row EXCEPT ![t.object] = 0]
             /\ applied' = [applied EXCEPT ![t.object] = t.version]
      BY <1>5 DEF DeleteRow
    <2> QED
      BY <1>3, <2>1
  <1>6. CASE IndexRow \/ UnindexRow
    BY <1>2, <1>6 DEF IndexRow, UnindexRow
  <1> QED
    BY <1>2, <1>4, <1>5, <1>6 DEF ConsumerStep

LEMMA KeptStays ==
    ASSUME TypeOK, [Next]_vars, NEW o \in Object, Sequential => applied[o] <= applied'[o],
           NEW v \in Nat, Kept(o, v)
    PROVE  Kept(o, v)'
  <1>1. applied'[o] \in Nat /\ applied[o] \in Nat
    BY NextType DEF TypeOK, Version
  <1>2. v # 0 => v \in 1 .. Len(hist'[o]) /\ hist'[o][v] = hist[o][v]
    BY TimePasses DEF Kept
  <1> QED
    BY <1>1, <1>2 DEF Kept

\* A row that is expired is one of an object that is kept.
LEMMA ExpiredKept ==
    ASSUME CleanerInv, NEW o \in Object, snapshot[o] # 0, IsExpired(o, snapshot[o])
    PROVE  /\ EnableObjectCleaner /\ o \in Retained /\ Cleanable(o)
           /\ snapshot[o] \in 1 .. Len(hist[o])
           /\ Sequential => snapshot[o] <= applied[o]
           /\ snapshot[o] <= expired[o]
  BY DEF CleanerInv, Kept, IsExpired, Cleanable, NoRows

LEMMA NextCleaner ==
    ASSUME TypeOK, InHandInv, CleanerInv, [Next]_vars
    PROVE  CleanerInv'
  <1>1. \A o \in Object : row[o] \in Nat /\ snapshot[o] \in Nat /\ applied[o] \in Nat
    BY DEF TypeOK, Version
  <1>2. ASSUME NEW o \in Object
        PROVE  Sequential => applied[o] <= applied'[o]
    <2>1. CASE ConsumerStep
      BY <2>1, ConsumerKeepsRows
    <2>2. CASE UNCHANGED applied
      BY <1>1, <2>2
    <2> QED
      BY <2>1, <2>2 DEF Next, Change, RetentionPasses, WatcherStep, StartWatcher,
         StopWatcher, Resync, Reconcile, Receive, Unwatch, HookStep, DeleteAllRows,
         SearchDocuments, DeleteDocument, HookReturns, CleanerStep, ReadAllRows,
         CleanRow, CleanDocument
  <1>3. ASSUME NEW o \in Object
        PROVE  Kept(o, row[o])'
    <2>1. CASE ConsumerStep
      BY <2>1, ConsumerKeepsRows
    <2>2. CASE row'[o] \in {0, row[o]}
      <3>1. PICK v \in Nat : v = row'[o] /\ Kept(o, v)
        BY <1>1, <2>2 DEF CleanerInv, Kept
      <3>2. Kept(o, v)'
        BY <1>2, <3>1, KeptStays
      <3> QED
        BY <3>1, <3>2 DEF Kept
    <2> QED
      BY <2>1, <2>2 DEF Next, Change, RetentionPasses, WatcherStep, StartWatcher,
         StopWatcher, Resync, Reconcile, Receive, Unwatch, HookStep, DeleteAllRows,
         SearchDocuments, DeleteDocument, HookReturns, CleanerStep, ReadAllRows,
         CleanRow, CleanDocument, TypeOK
  <1>4. ASSUME NEW o \in Object
        PROVE  Kept(o, snapshot[o])'
    <2>1. snapshot'[o] \in {0, snapshot[o], row[o]}
      <3>1. CASE CleanerStep
        BY <3>1 DEF CleanerStep, ReadAllRows, CleanRow, CleanDocument, TypeOK
      <3>2. CASE UNCHANGED snapshot
        BY <3>2
      <3> QED
        BY <3>1, <3>2 DEF Next, Change, RetentionPasses, WatcherStep, StartWatcher,
           StopWatcher, Resync, Reconcile, Receive, Unwatch, ConsumerStep, StoreRow,
           IndexRow, DeleteRow, UnindexRow, HookStep, DeleteAllRows, SearchDocuments,
           DeleteDocument, HookReturns
    <2>2. PICK v \in Nat : v = snapshot'[o] /\ Kept(o, v)
      BY <1>1, <2>1 DEF CleanerInv, Kept
    <2>3. Kept(o, v)'
      BY <1>2, <2>2, KeptStays
    <2> QED
      BY <2>2, <2>3 DEF Kept
  <1>5. ~EnableObjectCleaner => snapshot' = NoRows
    <2>1. CASE CleanerStep
      BY <2>1 DEF CleanerStep, ReadAllRows, CleanRow, CleanDocument, CleanerInv, NoRows
    <2>2. CASE UNCHANGED snapshot
      BY <2>2 DEF CleanerInv, NoRows
    <2> QED
      BY <2>1, <2>2 DEF Next, Change, RetentionPasses, WatcherStep, StartWatcher,
         StopWatcher, Resync, Reconcile, Receive, Unwatch, ConsumerStep, StoreRow,
         IndexRow, DeleteRow, UnindexRow, HookStep, DeleteAllRows, SearchDocuments,
         DeleteDocument, HookReturns
  <1>6. ASSUME NEW o \in cleaning'
        PROVE  Cleanable(o)'
    <2>1. o \in Object /\ Cleanable(o)
      <3>1. CASE o \in cleaning
        BY <3>1 DEF CleanerInv, TypeOK
      <3>2. CASE o \notin cleaning
        <4>1. snapshot[o] # 0 /\ IsExpired(o, snapshot[o]) /\ o \in Object
          BY <1>6, <3>2 DEF Next, Change, RetentionPasses, WatcherStep, StartWatcher,
             StopWatcher, Resync, Reconcile, Receive, Unwatch, ConsumerStep, StoreRow,
             IndexRow, DeleteRow, UnindexRow, HookStep, DeleteAllRows, SearchDocuments,
             DeleteDocument, HookReturns, CleanerStep, ReadAllRows, CleanRow, CleanDocument
        <4> QED
          BY <4>1, ExpiredKept
      <3> QED
        BY <3>1, <3>2
    <2> QED
      BY <2>1, CleanableStays
  <1> QED
    BY <1>3, <1>4, <1>5, <1>6 DEF CleanerInv

LEMMA InitCleaner == Init => CleanerInv
  BY DEF Init, NoRows, CleanerInv, Kept

LEMMA CleanerAlways == Spec => []CleanerInv
  <1>1. TypeOK /\ InHandInv /\ CleanerInv /\ [Next]_vars => CleanerInv'
    BY NextCleaner
  <1>2. Spec => []TypeOK /\ []InHandInv
    BY TypeCorrect, OrderCorrect
  <1> QED
    BY InitCleaner, <1>1, <1>2, PTL DEF Spec

LEMMA StepMirrors ==
    ASSUME TypeOK, InHandInv, CleanerInv, [Next]_vars
    PROVE  [M!MirrorNext]_(M!mirrorVars)
  <1> USE DEF M!mirrorVars
  <1>1. ASSUME NEW o \in Object, Change(o)
        PROVE  M!MirrorChange(o)
    <2>1. PICK s \in NextStates(o) : hist' = [hist EXCEPT ![o] = Append(@, s)]
      BY <1>1 DEF Change
    <2>2. s \in M!States
      BY StateType DEF NextStates, States, M!States
    <2> QED
      BY <1>1, <2>1, <2>2 DEF Change, M!MirrorChange
  <1>2. ASSUME NEW o \in Object, RetentionPasses(o)
        PROVE  M!MirrorExpire(o)
    BY <1>2 DEF RetentionPasses, M!MirrorExpire
  <1>3. CASE DeleteAllRows
    BY <1>3 DEF DeleteAllRows, M!ForgetCluster, M!MirrorNext, TypeOK
  <1>4. ASSUME NEW w \in Watcher, WatcherStep(w)
        PROVE  UNCHANGED mirrorVars
    BY <1>4 DEF WatcherStep, StartWatcher, StopWatcher, Resync, Reconcile, Receive
  <1>5. ASSUME NEW c \in Cluster, Unwatch(c)
        PROVE  UNCHANGED mirrorVars
    BY <1>5 DEF Unwatch
  <1>6. CASE SearchDocuments \/ DeleteDocument \/ HookReturns
    BY <1>6 DEF SearchDocuments, DeleteDocument, HookReturns
  <1>7. ASSUME NEW o \in Object, CleanRow(o), row' # row
        PROVE  M!CleanAway(o)
    <2>1. /\ snapshot[o] # 0 /\ IsExpired(o, snapshot[o])
          /\ row' = [row EXCEPT ![o] = 0] /\ UNCHANGED <<hist, expired, applied>>
      BY <1>7 DEF CleanRow
    <2>2. /\ EnableObjectCleaner /\ o \in Retained
          /\ snapshot[o] \in 1 .. Len(hist[o])
          /\ Sequential => snapshot[o] <= applied[o]
          /\ snapshot[o] <= expired[o]
      BY <2>1, ExpiredKept
    <2> QED
      BY <2>1, <2>2 DEF IsExpired, M!CleanAway
  <1>8. CASE CleanerStep /\ row' = row
    BY <1>8 DEF CleanerStep, ReadAllRows, CleanRow, CleanDocument
  <1>9. CASE CleanerStep /\ row' # row
    BY <1>7, <1>9 DEF CleanerStep, ReadAllRows, CleanDocument, M!MirrorNext
  <1>10. CASE ConsumerStep
    BY <1>10, ConsumerCatchesUp DEF M!MirrorNext
  <1> QED
    BY <1>1, <1>2, <1>3, <1>4, <1>5, <1>6, <1>8, <1>9, <1>10
    DEF Next, HookStep, M!MirrorNext

\* The store implements Mirror: it holds nothing that an object has not been, and
\* drops none that has not been deleted; nor does the cleaner, which deletes by
\* the ids of rows it read long ago, drop any that was not kept after its deletion
\* for as long as its policy says; and if a cluster is watched anew only when
\* nothing of its last watcher is left, the store never goes back.
THEOREM RefinesMirror == Spec => StoreMirrors
  <1>1. Init => M!MirrorInit
    BY DEF Init, NoRows, M!MirrorInit
  <1>2. TypeOK /\ InHandInv /\ CleanerInv /\ [Next]_vars => [M!MirrorNext]_(M!mirrorVars)
    BY StepMirrors
  <1>3. Spec => []TypeOK /\ []InHandInv /\ []CleanerInv
    BY TypeCorrect, OrderCorrect, CleanerAlways
  <1> QED
    BY <1>1, <1>2, <1>3, PTL DEF Spec, StoreMirrors, M!MirrorSpec

-----------------------------------------------------------------------------
(* What is in the store and in the index when nothing is under way.        *)

LEMMA InitSettled == Init => SettledInv
  <1> SUFFICES ASSUME Init
               PROVE  SettledInv
    OBVIOUS
  <1>1. ConsumerInv /\ HookInv
    BY DEF Init, ConsumerInv, HookInv
  <1>2. \A o \in Object : ~Watched(ClusterOf[o]) /\ Holds(o, 0) /\ InHand(o) = {}
    BY DEF Init, NoRows, Watched, Holds, InHand
  <1>3. SettlingInv
    BY <1>2 DEF Init, SettlingInv, Concerned
  <1> QED
    BY <1>1, <1>3 DEF SettledInv

\* The consumer does one thing at a time.
LEMMA ConsumerInvKept ==
    ASSUME TypeOK, InHandInv, ConsumerInv, [Next]_vars
    PROVE  ConsumerInv'
  <1>1. ASSUME NEW w \in Watcher, NEW k, Receive(w, k)
        PROVE  ConsumerInv'
    <2>1. PICK t \in held :
             /\ batch' = {t}
             /\ consumerPc' = IF Deletes(t) THEN "delete" ELSE "store"
      BY <1>1 DEF Receive
    <2>2. t \in Tx
      BY DEF TypeOK
    <2> QED
      BY <2>1, <2>2 DEF ConsumerInv, Deletes, Tx
  <1>2. CASE ConsumerStep
    BY <1>2 DEF ConsumerStep, StoreRow, IndexRow, DeleteRow, UnindexRow, Done, ConsumerInv
  <1>3. CASE UNCHANGED <<consumerPc, batch>>
    BY <1>3 DEF ConsumerInv
  <1>4. CASE HookStep
    BY <1>3, <1>4 DEF HookStep, DeleteAllRows, SearchDocuments, DeleteDocument, HookReturns
  <1>5. CASE CleanerStep
    BY <1>3, <1>5 DEF CleanerStep, ReadAllRows, CleanRow, CleanDocument
  <1>6. ASSUME NEW o \in Object, Change(o) \/ RetentionPasses(o)
        PROVE  ConsumerInv'
    BY <1>3, <1>6 DEF Change, RetentionPasses
  <1>7. ASSUME NEW w \in Watcher,
               \/ StartWatcher(w) \/ StopWatcher(w)
               \/ \E o \in Object : Resync(w, o) \/ Reconcile(w, o)
        PROVE  ConsumerInv'
    BY <1>3, <1>7 DEF StartWatcher, StopWatcher, Resync, Reconcile
  <1>8. ASSUME NEW c \in Cluster, Unwatch(c)
        PROVE  ConsumerInv'
    BY <1>3, <1>8 DEF Unwatch
  <1> QED
    BY <1>1, <1>2, <1>3, <1>4, <1>5, <1>6, <1>7, <1>8 DEF Next, WatcherStep

\* The stop hook of a cluster runs while the cluster has no watcher.
LEMMA HookInvKept ==
    ASSUME Sequential, TypeOK, HookInv, [Next]_vars
    PROVE  HookInv'
  <1>1. ASSUME NEW w \in Watcher, StartWatcher(w)
        PROVE  HookInv'
    BY <1>1 DEF StartWatcher, NothingLeft, HookInv
  <1>2. ASSUME NEW c \in Cluster, Unwatch(c)
        PROVE  HookInv'
    <2>1. hits = {}
      BY <1>2 DEF Unwatch, HookInv
    <2> QED
      BY <1>2, <2>1 DEF Unwatch, HookInv
  <1>3. CASE HookStep
    BY <1>3 DEF HookStep, DeleteAllRows, SearchDocuments, DeleteDocument, HookReturns,
                HookFails, Matching, ObjectsOf, HookInv
  <1>4. CASE UNCHANGED <<hookPc, hookCluster, hits>> /\ running' \subseteq running
    BY <1>4 DEF HookInv
  <1>5. CASE CleanerStep
    BY <1>4, <1>5 DEF CleanerStep, ReadAllRows, CleanRow, CleanDocument
  <1>6. CASE ConsumerStep
    BY <1>4, <1>6 DEF ConsumerStep, StoreRow, IndexRow, DeleteRow, UnindexRow
  <1>7. ASSUME NEW o \in Object, Change(o) \/ RetentionPasses(o)
        PROVE  HookInv'
    BY <1>4, <1>7 DEF Change, RetentionPasses
  <1>8. ASSUME NEW w \in Watcher,
               \/ StopWatcher(w)
               \/ \E o \in Object : Resync(w, o) \/ Reconcile(w, o)
               \/ \E k \in {KindOf[o] : o \in Object} : Receive(w, k)
        PROVE  HookInv'
    BY <1>4, <1>8 DEF StopWatcher, Resync, Reconcile, Receive
  <1> QED
    BY <1>1, <1>2, <1>3, <1>4, <1>5, <1>6, <1>7, <1>8 DEF Next, WatcherStep

\* An object changes: the watcher of its cluster is told.
LEMMA ChangeSettles ==
    ASSUME TypeOK, SettlingInv, NEW o \in Object, Change(o)
    PROVE  SettlingInv'
  <1>1. /\ UNCHANGED <<running, held, consumerPc, batch, row, index, raw, unwatches>>
        /\ \A w \in Watcher : pending[w] \subseteq pending'[w]
        /\ \A w \in running : WatcherCluster[w] = ClusterOf[o] => o \in pending'[w]
        /\ \A p \in Object : p # o => hist'[p] = hist[p]
    BY DEF Change, Notify, TypeOK
  <1>0. \A p \in Object : Cleanable(p) => Cleanable(p)'
    BY CleanableStays DEF Next
  <1>2. \A p \in Object : /\ Watched(ClusterOf[p])' <=> Watched(ClusterOf[p])
                          /\ InHand(p)' = InHand(p)
                          /\ Holds(p, 0)' <=> Holds(p, 0)
    BY <1>1 DEF Watched, InHand, Holds
  <1>3. ASSUME NEW p \in Object, Concerned(p)'
        PROVE  (Underway(p) \/ (Right(p) /\ InHand(p) = {}))'
    <2>1. CASE p = o
      <3>1. PICK w \in running : WatcherCluster[w] = ClusterOf[p]
        BY <1>2, <1>3 DEF Concerned, Watched
      <3> QED
        BY <1>1, <2>1, <3>1 DEF Underway
    <2>2. CASE p # o
      <3>1. State(p)' = State(p)
        BY <1>1, <2>2 DEF State
      <3>2. Concerned(p)
        BY <1>0, <1>1, <1>2, <1>3, <3>1 DEF Concerned
      <3>3. Right(p) => Right(p)'
        BY <1>1, <2>2, <3>1 DEF Right, Holds, Expected
      <3>4. Underway(p) => Underway(p)'
        <4>1. CASE \E w \in running : p \in pending[w]
          BY <1>1, <4>1 DEF Underway, TypeOK
        <4>2. CASE \E t \in InHand(p) : t.version = Len(hist[p])
          BY <1>1, <1>2, <2>2, <4>2 DEF Underway
        <4> QED
          BY <4>1, <4>2 DEF Underway
      <3> QED
        BY <1>2, <3>2, <3>3, <3>4 DEF SettlingInv
    <2> QED
      BY <2>1, <2>2
  <1>4. \A t \in batch : t.object \in Object
    BY DEF TypeOK, Tx
  <1> QED
    BY <1>0, <1>1, <1>2, <1>3, <1>4 DEF SettlingInv

\* A new watcher has all objects that exist on its queues; of those that do not
\* the store knows nothing, unless a watcher has gone before.
LEMMA StartSettles ==
    ASSUME Sequential, TypeOK, SettlingInv, NEW w \in Watcher, StartWatcher(w)
    PROVE  SettlingInv'
  <1> DEFINE c == WatcherCluster[w]
  <1>1. /\ UNCHANGED <<hist, expired, held, consumerPc, batch, row, index, raw, unwatches>>
        /\ running' = running \cup {w} /\ w \notin running /\ NothingLeft(c)
        /\ \A o \in Object : ClusterOf[o] = c /\ State(o) # "absent" => o \in pending'[w]
        /\ \A v \in running : pending'[v] = pending[v]
    BY DEF StartWatcher, ObjectsOf, TypeOK
  <1>2. ~Watched(c)
    BY <1>1 DEF NothingLeft, Watched
  <1>3. \A o \in Object : /\ State(o)' = State(o) /\ InHand(o)' = InHand(o)
                          /\ Holds(o, 0)' <=> Holds(o, 0)
                          /\ Right(o)' <=> Right(o)
                          /\ Cleanable(o)' <=> Cleanable(o)
    BY <1>1 DEF State, InHand, Holds, Right, Expected, Cleanable, IsExpired
  <1>4. \A o \in Object : ClusterOf[o] # c => (Watched(ClusterOf[o])' <=> Watched(ClusterOf[o]))
    BY <1>1 DEF Watched
  <1>5. ASSUME NEW o \in Object, Concerned(o)'
        PROVE  (Underway(o) \/ (Right(o) /\ InHand(o) = {}))'
    <2>1. CASE ClusterOf[o] = c /\ State(o) # "absent"
      BY <1>1, <2>1 DEF Underway
    <2>2. CASE ClusterOf[o] = c /\ State(o) = "absent"
      <3>1. Holds(o, 0) /\ InHand(o) = {}
        BY <1>1, <1>2, <1>3, <1>5, <2>2 DEF Concerned, SettlingInv
      <3> QED
        BY <1>3, <2>2, <3>1 DEF Right, Expected
    <2>3. CASE ClusterOf[o] # c
      <3>1. Concerned(o)
        BY <1>1, <1>3, <1>4, <1>5, <2>3 DEF Concerned
      <3>2. Underway(o) => Underway(o)'
        BY <1>1, <1>3 DEF Underway
      <3> QED
        BY <1>3, <3>1, <3>2 DEF SettlingInv
    <2> QED
      BY <2>1, <2>2, <2>3
  <1>6. ASSUME NEW t \in batch, Watched(ClusterOf[t.object])'
        PROVE  Watched(ClusterOf[t.object]) /\ t.object \in Object
    BY <1>1, <1>4, <1>6 DEF NothingLeft, TypeOK, Tx
  <1>7. \A o \in Object : ~Watched(ClusterOf[o])' => ~Watched(ClusterOf[o])
    BY <1>1 DEF Watched
  <1>8. \A t \in batch : t.object \in Object
    BY DEF TypeOK, Tx
  <1> QED
    BY <1>1, <1>3, <1>5, <1>6, <1>7, <1>8 DEF SettlingInv

\* The worker hands over what it has read.
LEMMA ReconcileSettles ==
    ASSUME TypeOK, InHandInv, SettlingInv, NEW w \in Watcher, NEW o \in Object,
           Reconcile(w, o)
    PROVE  SettlingInv'
  <1>1. /\ UNCHANGED <<hist, expired, running, consumerPc, batch, row, index, raw, unwatches>>
        /\ w \in running /\ o \in pending[w]
        /\ \A v \in Watcher, p \in Object : p # o => (p \in pending[v] <=> p \in pending'[v])
    BY DEF Reconcile, TypeOK
  <1>2. \A p \in Object : /\ State(p)' = State(p)
                          /\ Watched(ClusterOf[p])' <=> Watched(ClusterOf[p])
                          /\ Holds(p, 0)' <=> Holds(p, 0)
                          /\ Right(p)' <=> Right(p)
                          /\ Cleanable(p)' <=> Cleanable(p)
                          /\ Concerned(p)' <=> Concerned(p)
    BY <1>1 DEF State, Watched, Holds, Right, Expected, Cleanable, IsExpired, Concerned
  <1>3. \A p \in Object : p # o => InHand(p)' = InHand(p)
    BY <1>1 DEF Reconcile, InHand
  <1>4. Concerned(o) => Underway(o)'
    <2> SUFFICES ASSUME Concerned(o)
                 PROVE  \E t \in InHand(o)' : t.version = Len(hist'[o])
      BY DEF Underway
    <2>1. PICK a \in {"upsert", "delete"} : a \in TransactionTypes(o)
      BY StateType DEF Concerned, TransactionTypes, States
    <2>2. [watcher |-> w, object |-> o, version |-> Len(hist[o]), type |-> a] \in held'
      BY <2>1 DEF Reconcile
    <2> QED
      BY <1>1, <2>2 DEF InHand
  <1>5. Watched(ClusterOf[o])
    BY <1>1 DEF InHandInv, FitInv, QueuesFit, Watched
  <1>6. ASSUME NEW p \in Object, p # o
        PROVE  Underway(p) => Underway(p)'
    BY <1>1, <1>3, <1>6 DEF Underway, TypeOK
  <1>7. \A t \in batch : t.object \in Object
    BY DEF TypeOK, Tx
  <1> QED
    BY <1>1, <1>2, <1>3, <1>4, <1>5, <1>6, <1>7 DEF SettlingInv

\* The consumer takes a transaction in hand: it is still under way.
LEMMA ReceiveSettles ==
    ASSUME TypeOK, ConsumerInv, SettlingInv, NEW w \in Watcher, NEW k, Receive(w, k)
    PROVE  SettlingInv'
  <1>1. PICK t \in held : held' = held \ {t} /\ batch' = {t}
    BY DEF Receive
  <1>2. /\ UNCHANGED <<hist, expired, running, pending, row, index, raw, unwatches>>
        /\ batch = {} /\ consumerPc' \in {"store", "delete"}
    BY DEF Receive, ConsumerInv
  <1>3. \A o \in Object : /\ State(o)' = State(o) /\ InHand(o)' = InHand(o)
                          /\ Watched(ClusterOf[o])' <=> Watched(ClusterOf[o])
                          /\ Holds(o, 0)' <=> Holds(o, 0)
                          /\ Right(o)' <=> Right(o)
                          /\ Concerned(o)' <=> Concerned(o)
    BY <1>1, <1>2 DEF State, Watched, InHand, Holds, Right, Expected, Cleanable,
                      IsExpired, Concerned
  <1>4. \A o \in Object : Underway(o)' <=> Underway(o)
    BY <1>2, <1>3 DEF Underway
  <1> QED
    BY <1>2, <1>3, <1>4 DEF SettlingInv

\* A removed cluster is not watched, and some cluster has now been removed.
LEMMA UnwatchSettles ==
    ASSUME TypeOK, InHandInv, SettlingInv, NEW c \in Cluster, Unwatch(c)
    PROVE  SettlingInv'
  <1>1. /\ UNCHANGED <<hist, expired, held, consumerPc, batch, row, index, raw>>
        /\ unwatches' # 0
        /\ running' = {w \in running : WatcherCluster[w] # c}
        /\ \A w \in running' : pending'[w] = pending[w]
    BY DEF Unwatch, TypeOK
  <1>2. \A o \in Object : /\ State(o)' = State(o) /\ InHand(o)' = InHand(o)
                          /\ Right(o)' <=> Right(o)
                          /\ Cleanable(o)' <=> Cleanable(o)
    BY <1>1 DEF State, InHand, Right, Expected, Holds, Cleanable, IsExpired
  <1>3. \A o \in Object : Watched(ClusterOf[o])' => Watched(ClusterOf[o]) /\ ClusterOf[o] # c
    BY <1>1 DEF Watched
  <1>4. ASSUME NEW o \in Object, Concerned(o)'
        PROVE  (Underway(o) \/ (Right(o) /\ InHand(o) = {}))'
    <2>1. Concerned(o) /\ ClusterOf[o] # c
      BY <1>1, <1>2, <1>3, <1>4 DEF Concerned
    <2>2. Underway(o) => Underway(o)'
      BY <1>1, <1>2, <2>1 DEF Underway, InHandInv, FitInv, QueuesFit, TypeOK
    <2> QED
      BY <1>2, <2>1, <2>2 DEF SettlingInv
  <1>5. \A t \in batch : t.object \in Object
    BY DEF TypeOK, Tx
  <1> QED
    BY <1>1, <1>2, <1>3, <1>4, <1>5 DEF SettlingInv

\* The store is written: the transaction is still in hand.
LEMMA RowSettles ==
    ASSUME TypeOK, InHandInv, ConsumerInv, SettlingInv, StoreRow \/ DeleteRow, failures' = failures
    PROVE  SettlingInv'
  <1>1. PICK t \in batch :
           /\ \/ /\ consumerPc' = "index"
                 /\ row' = [row EXCEPT ![t.object] = t.version]
              \/ /\ consumerPc' = "unindex"
                 /\ row' = [row EXCEPT ![t.object] = 0]
           /\ batch' = batch
    BY DEF StoreRow, DeleteRow, Failure, TypeOK
  <1>2. /\ UNCHANGED <<hist, expired, running, pending, held, index, raw, unwatches>>
        /\ t \in Tx /\ t \in InHand(t.object)
    BY DEF StoreRow, DeleteRow, TypeOK, InHand
  <1>3. \A o \in Object : /\ State(o)' = State(o) /\ InHand(o)' = InHand(o)
                          /\ Watched(ClusterOf[o])' <=> Watched(ClusterOf[o])
                          /\ Concerned(o)' <=> Concerned(o)
    BY <1>1, <1>2 DEF State, Watched, InHand, Cleanable, IsExpired, Concerned
  <1>4. \A o \in Object : Underway(o)' <=> Underway(o)
    BY <1>2, <1>3 DEF Underway
  <1>5. \A o \in Object : o # t.object => row'[o] = row[o]
    BY <1>1, <1>2 DEF TypeOK, Tx
  <1>6. \A o \in Object : InHand(o) = {} =>
           (Right(o)' <=> Right(o)) /\ (Holds(o, 0)' <=> Holds(o, 0))
    BY <1>2, <1>3, <1>5 DEF Right, Holds, Expected
  <1>7. ASSUME NEW u \in batch
        PROVE  /\ consumerPc' = "index" => row'[u.object] = u.version
               /\ consumerPc' = "unindex" => row'[u.object] = 0
    <2>1. u = t
      BY DEF InHandInv, FitInv, BatchFits
    <2> QED
      BY <1>1, <1>2, <2>1 DEF TypeOK, Tx
  <1> QED
    BY <1>1, <1>2, <1>3, <1>4, <1>6, <1>7 DEF SettlingInv

\* The index is written: the store and the index are right, unless something
\* newer is under way.
LEMMA IndexSettles ==
    ASSUME Sequential, TypeOK, InHandInv, ConsumerInv, SettlingInv, IndexRow \/ UnindexRow,
           failures' = failures
    PROVE  SettlingInv'
  <1>1. PICK t \in batch :
           \/ IndexRow /\ Add(t)
           \/ UnindexRow /\ index' = [index EXCEPT ![t.object] = 0] /\ raw' = raw
    BY DEF IndexRow, UnindexRow, Failure, TypeOK
  <1>2. /\ UNCHANGED <<hist, expired, running, pending, held, row, unwatches>>
        /\ batch = {t} /\ batch' = {} /\ consumerPc' = "receive"
        /\ t \in Tx /\ t.object \in Object /\ t \in InHand(t.object) /\ Timely(t)
    BY DEF IndexRow, UnindexRow, Done, TypeOK, Tx, InHand, InHandInv, FitInv, BatchFits,
                      OrderInv, InOrder
  <1>3. \A o \in Object : /\ State(o)' = State(o) /\ Expected(o)' = Expected(o)
                          /\ Watched(ClusterOf[o])' <=> Watched(ClusterOf[o])
                          /\ Concerned(o)' <=> Concerned(o)
    BY <1>2 DEF State, Watched, Cleanable, IsExpired, Concerned, Expected
  <1>4. ASSUME NEW o \in Object, o # t.object
        PROVE  /\ InHand(o)' = InHand(o)
               /\ Underway(o)' <=> Underway(o)
               /\ Holds(o, 0)' <=> Holds(o, 0)
               /\ Right(o) => Right(o)'
    <2>1. InHand(o)' = InHand(o)
      BY <1>2, <1>4 DEF InHand
    <2>2. index'[o] = index[o] /\ (o \in raw => o \in raw')
      BY <1>1, <1>2, <1>4 DEF Add, TypeOK
    <2> QED
      BY <1>2, <1>3, <2>1, <2>2 DEF Underway, Holds, Right
  <1>5. ASSUME Concerned(t.object)
        PROVE  (Underway(t.object) \/ (Right(t.object) /\ InHand(t.object) = {}))'
    <2>1. Underway(t.object)
      BY <1>2, <1>5 DEF SettlingInv
    <2>2. CASE \E w \in running : t.object \in pending[w]
      BY <1>2, <2>2 DEF Underway
    <2>3. CASE \E u \in held : u.object = t.object
      <3>1. PICK u \in held : u.object = t.object
        BY <2>3
      <3>2. u \in Tx /\ u \in InHand(t.object)'
        BY <1>2, <3>1 DEF TypeOK, InHand
      <3>3. /\ u.version <= Len(hist[t.object]) /\ t.version <= u.version
            /\ t.version <= Len(hist[t.object])
            /\ {u.version, t.version, Len(hist[t.object])} \subseteq Nat
        BY <1>2, <3>1, <3>2 DEF InHandInv, OrderInv, InOrder, Timely, Truthful, Tx, Version, TypeOK
      <3>4. (\E w \in running : t.object \in pending[w]) \/ u.version = Len(hist[t.object])
        <4>1. \A x \in InHand(t.object) : x = t \/ x \in held
          BY <1>2 DEF InHand
        <4>2. \A x \in InHand(t.object) : x = t \/ x = u
          BY <3>1, <4>1 DEF InHand, InHandInv, OrderInv, OneHeld
        <4> QED
          BY <2>1, <3>3, <4>2 DEF Underway
      <3> QED
        BY <1>2, <3>2, <3>4 DEF Underway
    <2>4. CASE /\ ~\E w \in running : t.object \in pending[w]
               /\ ~\E u \in held : u.object = t.object
      <3>1. InHand(t.object) = {t} /\ InHand(t.object)' = {}
        BY <1>2, <2>4 DEF InHand
      <3>2. t.version = Len(hist[t.object])
        BY <2>1, <2>4, <3>1 DEF Underway
      <3>3. t.type = "upsert" <=> State(t.object) = "present"
        <4>1. hist[t.object] # <<>>
          BY <1>2, <3>2 DEF Timely, Truthful
        <4> QED
          BY <1>2, <3>2, <4>1 DEF Timely, Truthful, State
      <3>4. Watched(ClusterOf[t.object]) /\ ~Cleanable(t.object)
        BY <1>5 DEF Concerned
      <3>5. CASE IndexRow
        <4>1. t.type = "upsert"
          BY <1>2, <1>5, <3>3, <3>5 DEF IndexRow, ConsumerInv, Concerned
        <4>2. row[t.object] = t.version
          BY <1>2, <3>4, <3>5 DEF IndexRow, SettlingInv
        <4>3. index'[t.object] = t.version /\ t.object \in raw'
          BY <1>1, <1>2, <3>5 DEF Add, IndexRow, UnindexRow, TypeOK
        <4> QED
          BY <1>2, <1>3, <3>1, <3>2, <3>3, <4>1, <4>2, <4>3 DEF Right, Holds, Expected
      <3>6. CASE UnindexRow
        <4>1. t.type # "upsert"
          BY <1>2, <3>6 DEF UnindexRow, ConsumerInv
        <4>2. row[t.object] = 0
          BY <1>2, <3>4, <3>6 DEF UnindexRow, SettlingInv
        <4>3. index'[t.object] = 0
          BY <1>1, <1>2, <3>6 DEF IndexRow, UnindexRow, TypeOK
        <4> QED
          BY <1>2, <1>3, <3>1, <3>3, <4>1, <4>2, <4>3 DEF Right, Holds, Expected
      <3> QED
        BY <3>5, <3>6
    <2> QED
      BY <2>2, <2>3, <2>4
  <1>6. unwatches = 0 => Watched(ClusterOf[t.object])
    BY <1>2 DEF SettlingInv
  <1> QED
    BY <1>2, <1>3, <1>4, <1>5, <1>6 DEF SettlingInv

\* What is queued grows, and what is not watched, or may be cleaned away, may be
\* dropped.
LEMMA FrameSettles ==
    ASSUME TypeOK, SettlingInv, [Next]_vars,
           UNCHANGED <<hist, running, held, consumerPc, batch, raw, unwatches>>,
           \A w \in Watcher : pending[w] \subseteq pending'[w],
           \A o \in Object : Watched(ClusterOf[o]) /\ ~Cleanable(o) =>
                                row'[o] = row[o] /\ index'[o] = index[o],
           \A o \in Object : Holds(o, 0) => row'[o] = 0 /\ index'[o] = 0
    PROVE  SettlingInv'
  <1>1. ASSUME NEW o \in Object
        PROVE  /\ State(o)' = State(o)
               /\ InHand(o)' = InHand(o)
               /\ Watched(ClusterOf[o])' <=> Watched(ClusterOf[o])
               /\ Cleanable(o) => Cleanable(o)'
    BY CleanableStays DEF State, InHand, Watched
  <1>2. ASSUME NEW o \in Object, Concerned(o)'
        PROVE  (Underway(o) \/ (Right(o) /\ InHand(o) = {}))'
    <2>1. Concerned(o) /\ Watched(ClusterOf[o]) /\ ~Cleanable(o)
      BY <1>1, <1>2 DEF Concerned
    <2>2. CASE \E w \in running : o \in pending[w]
      BY <2>2 DEF Underway, TypeOK
    <2>3. CASE \E t \in InHand(o) : t.version = Len(hist[o])
      BY <1>1, <2>3 DEF Underway
    <2>4. CASE Right(o) /\ InHand(o) = {}
      <3>1. Expected(o)' = Expected(o)
        BY <1>1 DEF Expected
      <3> QED
        BY <1>1, <2>1, <2>4, <3>1 DEF Right, Holds
    <2> QED
      BY <2>1, <2>2, <2>3, <2>4 DEF SettlingInv, Underway
  <1>3. \A t \in batch : t.object \in Object
    BY DEF TypeOK, Tx
  <1>4. \A t \in batch : (Watched(ClusterOf[t.object]) /\ ~Cleanable(t.object))' =>
           /\ consumerPc' = "index" => row'[t.object] = t.version
           /\ consumerPc' = "unindex" => row'[t.object] = 0
    BY <1>1, <1>3 DEF SettlingInv
  <1>5. unwatches = 0 => \A o \in Object : ~Watched(ClusterOf[o])' =>
           row'[o] = 0 /\ index'[o] = 0 /\ InHand(o)' = {}
    BY <1>1 DEF SettlingInv
  <1> QED
    BY <1>2, <1>4, <1>5 DEF SettlingInv, Holds

\* The stop hook touches what belongs to its cluster, which is not watched.
LEMMA HookSettles ==
    ASSUME TypeOK, HookInv, SettlingInv, HookStep
    PROVE  SettlingInv'
  <1>1. UNCHANGED <<hist, running, pending, held, consumerPc, batch, raw, unwatches>>
    BY DEF HookStep, DeleteAllRows, SearchDocuments, DeleteDocument, HookReturns
  <1>2. ASSUME NEW o \in Object, Watched(ClusterOf[o])
        PROVE  row'[o] = row[o] /\ index'[o] = index[o]
    <2>1. hookPc # "idle" => ClusterOf[o] # hookCluster
      BY <1>2 DEF Watched, HookInv
    <2> QED
      BY <2>1 DEF HookStep, DeleteAllRows, SearchDocuments, DeleteDocument, HookReturns,
                  HookInv, TypeOK
  <1>3. ASSUME NEW o \in Object, Holds(o, 0)
        PROVE  row'[o] = 0 /\ index'[o] = 0
    BY <1>3 DEF HookStep, DeleteAllRows, SearchDocuments, DeleteDocument, HookReturns,
                Holds, TypeOK
  <1> QED
    BY <1>1, <1>2, <1>3, FrameSettles DEF Next

\* The cleaner touches what it may have seen expired.
LEMMA CleanerSettles ==
    ASSUME TypeOK, CleanerInv, SettlingInv, CleanerStep
    PROVE  SettlingInv'
  <1>1. UNCHANGED <<hist, running, pending, held, consumerPc, batch, raw, unwatches>>
    BY DEF CleanerStep, ReadAllRows, CleanRow, CleanDocument
  <1>2. ASSUME NEW o \in Object, ~Cleanable(o)
        PROVE  row'[o] = row[o] /\ index'[o] = index[o]
    <2>1. CASE ReadAllRows
      BY <2>1 DEF ReadAllRows
    <2>2. ASSUME NEW p \in Object, CleanRow(p)
          PROVE  row'[o] = row[o] /\ index'[o] = index[o]
      <3>1. row' = row \/ (row' = [row EXCEPT ![p] = 0] /\ Cleanable(p))
        BY <2>2, ExpiredKept DEF CleanRow
      <3>2. row'[o] = row[o]
        BY <1>2, <3>1 DEF TypeOK
      <3> QED
        BY <2>2, <3>2 DEF CleanRow
    <2>3. CASE CleanDocument
      <3>1. PICK p \in cleaning : index' = index \/ index' = [index EXCEPT ![p] = 0]
        BY <2>3 DEF CleanDocument
      <3>2. p # o
        BY <1>2 DEF CleanerInv
      <3>3. index'[o] = index[o]
        BY <3>1, <3>2 DEF TypeOK
      <3> QED
        BY <2>3, <3>3 DEF CleanDocument
    <2> QED
      BY <2>1, <2>2, <2>3 DEF CleanerStep
  <1>3. ASSUME NEW o \in Object, Holds(o, 0)
        PROVE  row'[o] = 0 /\ index'[o] = 0
    BY <1>3 DEF CleanerStep, ReadAllRows, CleanRow, CleanDocument, Holds, TypeOK
  <1> QED
    BY <1>1, <1>2, <1>3, FrameSettles DEF Next

LEMMA NextSettles ==
    ASSUME Sequential, TypeOK, InHandInv, CleanerInv, SettledInv, [Next]_vars
    PROVE  SettledInv'
  <1>1. ConsumerInv' /\ HookInv'
    BY ConsumerInvKept, HookInvKept DEF SettledInv
  <1>2. ASSUME failures' = 0
        PROVE  SettlingInv'
    <2>1. failures = 0 /\ ~Failure
      <3>1. failures \in Nat /\ (Failure => failures' # 0)
        BY DEF TypeOK, Failure
      <3>2. failures' = failures \/ Failure
        BY DEF Next, Change, RetentionPasses, Unwatch, WatcherStep, StartWatcher, StopWatcher,
               Resync, Reconcile, Receive, ConsumerStep, StoreRow, IndexRow, DeleteRow,
               UnindexRow, HookStep, DeleteAllRows, SearchDocuments, DeleteDocument,
               HookReturns, HookFails, CleanerStep, ReadAllRows, CleanRow, CleanDocument
      <3> QED
        BY <1>2, <3>1, <3>2
    <2>2. SettlingInv /\ ConsumerInv /\ HookInv /\ failures' = failures
      BY <1>2, <2>1 DEF SettledInv
    <2>3. CASE \/ UNCHANGED vars
               \/ \E o \in Object : RetentionPasses(o)
               \/ \E w \in Watcher, o \in Object : Resync(w, o)
      <3>1. UNCHANGED <<hist, running, held, consumerPc, batch, row, index, raw, unwatches>>
        BY <2>3 DEF RetentionPasses, Resync
      <3>2. \A w \in Watcher : pending[w] \subseteq pending'[w]
        BY <2>3 DEF RetentionPasses, Resync, TypeOK
      <3> QED
        BY <2>2, <3>1, <3>2, FrameSettles DEF Holds
    <2>4. CASE CleanerStep
      BY <2>2, <2>4, CleanerSettles
    <2>5. ASSUME NEW o \in Object, Change(o)
          PROVE  SettlingInv'
      BY <2>2, <2>5, ChangeSettles
    <2>6. ASSUME NEW w \in Watcher, WatcherStep(w)
          PROVE  SettlingInv'
      BY <2>1, <2>2, <2>3, <2>6, StartSettles, ReconcileSettles, ReceiveSettles
         DEF WatcherStep, StopWatcher
    <2>7. ASSUME NEW c \in Cluster, Unwatch(c)
          PROVE  SettlingInv'
      BY <2>2, <2>7, UnwatchSettles
    <2>8. CASE ConsumerStep
      BY <2>2, <2>8, RowSettles, IndexSettles DEF ConsumerStep
    <2>9. CASE HookStep
      BY <2>2, <2>9, HookSettles
    <2> QED
      BY <2>3, <2>4, <2>5, <2>6, <2>7, <2>8, <2>9 DEF Next
  <1> QED
    BY <1>1, <1>2 DEF SettledInv

\* Until the store and the index are right about an object, its latest version
\* is on its way to them and nothing older is behind it: with one watcher per
\* cluster, as long as nothing fails, and unless the cleaner may have seen the
\* object expired (Reconcile, processRecords, removeOldObjects).
THEOREM SettlingCorrect == Sequential => (Spec => []SettledInv)
  <1> SUFFICES ASSUME Sequential
               PROVE  Spec => []SettledInv
    OBVIOUS
  <1>1. TypeOK /\ InHandInv /\ CleanerInv /\ SettledInv /\ [Next]_vars => SettledInv'
    BY NextSettles
  <1>2. Spec => []TypeOK /\ []InHandInv /\ []CleanerInv
    BY TypeCorrect, OrderCorrect, CleanerAlways
  <1> QED
    BY InitSettled, <1>1, <1>2, PTL DEF Spec

\* With one watcher per cluster and as long as nothing fails, the store and the
\* index have the latest version of an object that exists and for which nothing
\* is under way, and nothing of one that is being deleted; only an object that
\* came back after it was kept, deleted, past its retention may be missing.
THEOREM SettledCorrect == Sequential => (Spec => []SettledMatches)
  <1>1. SettledInv => SettledMatches
    <2> SUFFICES ASSUME SettledInv, failures = 0, NEW o \in Object, Settled(o), Concerned(o)
                 PROVE  Right(o)
      BY DEF SettledMatches, Settled, Concerned, Right, Expected, Cleanable
    <2>1. ~Underway(o)
      BY DEF Settled, Underway, InHand
    <2> QED
      BY <2>1 DEF SettledInv, SettlingInv
  <1> QED
    BY <1>1, SettlingCorrect, PTL

\* With the same assumption, an object of a kind listed as having no finalizers
\* that was deleted while its cluster was watched is in neither.
THEOREM GoneCorrect == Sequential => (Spec => []GoneWhenSettled)
  <1>1. SettledInv => GoneWhenSettled
    <2> SUFFICES ASSUME SettledInv, failures = 0, NEW o \in Object, Settled(o), Concerned(o)
                 PROVE  Right(o)
      BY DEF GoneWhenSettled, Settled, Concerned, Right, Expected, Holds, Cleanable
    <2>1. ~Underway(o)
      BY DEF Settled, Underway, InHand
    <2> QED
      BY <2>1 DEF SettledInv, SettlingInv
  <1> QED
    BY <1>1, SettlingCorrect, PTL

-----------------------------------------------------------------------------
(* What can be found in the store and in the index.                        *)

\* What the consumer writes was true, and belongs there.
LEMMA ConsumerWrites ==
    ASSUME TypeOK, FitInv, ConsumerInv, ConsumerStep, NEW o \in Object
    PROVE  \A v \in {row'[o], index'[o]} \ {row[o], index[o], 0} :
              v \in 1 .. Len(hist[o]) /\ (hist[o][v] = "present" \/ o \in Retained)
  <1>1. ASSUME NEW t \in batch, t.object = o, consumerPc \in {"store", "index"}
        PROVE  /\ t.version \in 1 .. Len(hist[o])
               /\ hist[o][t.version] = "present" \/ o \in Retained
    BY <1>1 DEF FitInv, Truthful, ConsumerInv
  <1>2. \A t \in batch : t \in Tx
    BY DEF TypeOK
  <1>3. CASE StoreRow
    BY <1>1, <1>2, <1>3 DEF StoreRow, TypeOK, Tx
  <1>4. CASE IndexRow
    BY <1>1, <1>2, <1>4 DEF IndexRow, Add, TypeOK, Tx
  <1>5. CASE DeleteRow \/ UnindexRow
    BY <1>2, <1>5 DEF DeleteRow, UnindexRow, TypeOK, Tx
  <1> QED
    BY <1>3, <1>4, <1>5 DEF ConsumerStep

\* The hook and the cleaner write nothing, nor does anybody else.
LEMMA OthersWrite ==
    ASSUME TypeOK, [Next]_vars, ~ConsumerStep, NEW o \in Object
    PROVE  row'[o] \in {row[o], 0} /\ index'[o] \in {index[o], 0}
  <1>1. CASE HookStep
    BY <1>1 DEF HookStep, DeleteAllRows, SearchDocuments, DeleteDocument, HookReturns, TypeOK
  <1>2. CASE CleanerStep
    BY <1>2 DEF CleanerStep, ReadAllRows, CleanRow, CleanDocument, TypeOK
  <1>3. CASE UNCHANGED <<row, index>>
    BY <1>3
  <1> QED
    BY <1>1, <1>2, <1>3
    DEF Next, Change, RetentionPasses, WatcherStep, StartWatcher, StopWatcher, Resync,
        Reconcile, Receive, Unwatch

\* Neither the store nor the index shows a version that an object has not had,
\* nor one of an object that is gone or going, unless its kind is retained:
\* whatever fails between the two, however watchers overlap, and whatever the
\* stop hook and the cleaner do to them meanwhile.
THEOREM FoundCorrect == Spec => []FoundWas
  <1>1. Init => ConsumerInv /\ FoundWas
    BY DEF Init, NoRows, ConsumerInv, FoundWas
  <1>2. ASSUME TypeOK, InHandInv, ConsumerInv, FoundWas, [Next]_vars
        PROVE  FoundWas'
    <2> SUFFICES ASSUME NEW o \in Object, NEW v \in {row'[o], index'[o]} \ {0}
                 PROVE  /\ v \in 1 .. Len(hist'[o])
                        /\ hist'[o][v] = "present" \/ o \in Retained
      BY DEF FoundWas
    <2>1. v \in 1 .. Len(hist[o]) /\ (hist[o][v] = "present" \/ o \in Retained)
      <3>1. CASE v \in {row[o], index[o]}
        BY <1>2, <3>1 DEF FoundWas
      <3>2. CASE ConsumerStep /\ v \notin {row[o], index[o]}
        BY <1>2, <3>2, ConsumerWrites DEF InHandInv
      <3>3. CASE ~ConsumerStep
        BY <1>2, <3>1, <3>3, OthersWrite
      <3> QED
        BY <3>1, <3>2, <3>3
    <2> QED
      BY <1>2, <2>1, TimePasses
  <1>3. TypeOK /\ InHandInv /\ ConsumerInv /\ FoundWas /\ [Next]_vars
        => (ConsumerInv /\ FoundWas)'
    BY <1>2, ConsumerInvKept
  <1>4. Spec => []TypeOK /\ []InHandInv
    BY TypeCorrect, OrderCorrect
  <1> QED
    BY <1>1, <1>3, <1>4, PTL DEF Spec

-----------------------------------------------------------------------------
(* How an object leaves the store and the index.                           *)

\* Why an object without finalizers stays: it is never seen in deletion, so that
\* a transaction that deletes is about an object with finalizers or of a kind
\* listed as having none.
StaysInv ==
    /\ ConsumerInv
    /\ hookPc # "documents" => hits = {}
    /\ \A o \in hits : ClusterOf[o] = hookCluster
    /\ \A o \in Object \ Finalized :
          \A v \in 1 .. Len(hist[o]) : hist[o][v] # "terminating"
    /\ \A t \in held \cup batch : t.type = "delete" => t.object \in Finalized \cup Listed

LEMMA InitStays == Init => StaysInv
  BY DEF Init, StaysInv, ConsumerInv

\* The last state of an object without finalizers is not that of a deletion.
LEMMA NeverTerminating ==
    ASSUME TypeOK, StaysInv, NEW o \in Object \ Finalized
    PROVE  State(o) \in {"present", "absent"}
  <1>1. CASE hist[o] = <<>>
    BY <1>1 DEF State
  <1>2. CASE hist[o] # <<>>
    <2>1. Len(hist[o]) \in 1 .. Len(hist[o])
      BY <1>2 DEF TypeOK
    <2>2. State(o) # "terminating"
      BY <1>2, <2>1 DEF State, StaysInv
    <2> QED
      BY <2>2, StateType DEF States
  <1> QED
    BY <1>1, <1>2

\* Histories stay free of deletions in progress.
LEMMA HistoryStays ==
    ASSUME TypeOK, StaysInv, [Next]_vars, NEW o \in Object \ Finalized,
           NEW v \in 1 .. Len(hist'[o])
    PROVE  hist'[o][v] # "terminating"
  <1>1. CASE hist'[o] = hist[o]
    BY <1>1 DEF StaysInv
  <1>2. ASSUME NEW p \in Object, Change(p), hist'[o] # hist[o]
        PROVE  hist'[o][v] # "terminating"
    <2>1. PICK s \in NextStates(p) : hist' = [hist EXCEPT ![p] = Append(@, s)]
      BY <1>2 DEF Change
    <2>2. p = o /\ hist'[o] = Append(hist[o], s)
      BY <1>2, <2>1 DEF TypeOK
    <2>3. s # "terminating"
      BY <2>1, <2>2, NeverTerminating DEF NextStates
    <2>4. hist[o] \in Seq(States)
      BY DEF TypeOK
    <2>5. CASE v = Len(hist[o]) + 1
      BY <2>2, <2>3, <2>4, <2>5
    <2>6. CASE v \in 1 .. Len(hist[o])
      BY <2>2, <2>4, <2>6 DEF StaysInv
    <2> QED
      BY <2>2, <2>4, <2>5, <2>6
  <1>3. CASE UNCHANGED hist
    BY <1>1, <1>3
  <1> QED
    BY <1>1, <1>2, <1>3, OthersKeepHand
    DEF Next, RetentionPasses, WatcherStep, StartWatcher, StopWatcher, Resync, Reconcile,
        Receive, Unwatch, ConsumerStep, StoreRow, IndexRow, DeleteRow, UnindexRow

\* What is in hand comes from what Reconcile makes of an object.
LEMMA NewInHand ==
    ASSUME TypeOK, InHandInv, StaysInv, [Next]_vars, NEW t \in held' \cup batch',
           t.type = "delete"
    PROVE  t.object \in Finalized \cup Listed
  <1>1. CASE t \in held \cup batch
    BY <1>1 DEF StaysInv
  <1>2. ASSUME NEW w \in Watcher, NEW o \in Object, Reconcile(w, o), t \notin held \cup batch
        PROVE  t.object \in Finalized \cup Listed
    <2>1. t \in held' \ held
      BY <1>2 DEF Reconcile
    <2>2. t.object = o /\ t.type \in TransactionTypes(o)
      BY <1>2, <2>1, NewTransaction DEF InHandInv
    <2>3. CASE o \in Finalized
      BY <2>2, <2>3
    <2>4. CASE o \in Object \ Finalized
      BY <2>2, <2>4, NeverTerminating DEF TransactionTypes
    <2> QED
      BY <2>3, <2>4
  <1>3. CASE held' \cup batch' \subseteq held \cup batch
    BY <1>1, <1>3
  <1> QED
    BY <1>1, <1>2, <1>3, OthersKeepHand
    DEF Next, Change, RetentionPasses, WatcherStep, StartWatcher, StopWatcher, Resync,
        Receive, Unwatch, ConsumerStep, StoreRow, IndexRow, DeleteRow, UnindexRow, Done

\* The hook's hits are documents of the cluster it is for.
LEMMA HitsStay ==
    ASSUME StaysInv, [Next]_vars
    PROVE  /\ hookPc' # "documents" => hits' = {}
           /\ \A o \in hits' : ClusterOf[o] = hookCluster'
  <1>1. CASE UNCHANGED <<hookPc, hookCluster, hits>>
    BY <1>1 DEF StaysInv
  <1>2. CASE HookStep
    BY <1>2 DEF HookStep, DeleteAllRows, SearchDocuments, DeleteDocument, HookReturns,
                HookFails, Matching, ObjectsOf, StaysInv
  <1>3. ASSUME NEW c \in Cluster, Unwatch(c)
        PROVE  hits' = {}
    BY <1>3 DEF Unwatch, StaysInv
  <1>4. CASE \/ ConsumerStep \/ CleanerStep
             \/ \E o \in Object : Change(o) \/ RetentionPasses(o)
             \/ \E w \in Watcher : WatcherStep(w)
    BY <1>1, <1>4
    DEF ConsumerStep, StoreRow, IndexRow, DeleteRow, UnindexRow, CleanerStep, ReadAllRows,
        CleanRow, CleanDocument, Change, RetentionPasses, WatcherStep, StartWatcher,
        StopWatcher, Resync, Reconcile, Receive
  <1> QED
    BY <1>1, <1>2, <1>3, <1>4 DEF Next

LEMMA NextStays ==
    ASSUME TypeOK, InHandInv, StaysInv, [Next]_vars
    PROVE  StaysInv'
  <1>1. ConsumerInv'
    BY ConsumerInvKept DEF StaysInv
  <1> QED
    BY <1>1, HistoryStays, NewInHand, HitsStay DEF StaysInv

\* The consumer takes out only what is in deletion.
LEMMA ConsumerForgets ==
    ASSUME TypeOK, FitInv, StaysInv, ConsumerStep,
           NEW o \in Object \ (Finalized \cup Listed)
    PROVE  /\ row[o] # 0 => row'[o] # 0
           /\ index[o] # 0 => index'[o] # 0
  <1>1. \A t \in batch : /\ t \in Tx /\ t.version # 0
                         /\ consumerPc \in {"delete", "unindex"} => t.object # o
    BY DEF TypeOK, FitInv, Truthful, StaysInv, ConsumerInv
  <1>2. CASE StoreRow
    BY <1>1, <1>2 DEF StoreRow, indexVars, TypeOK, Tx
  <1>3. CASE IndexRow
    BY <1>1, <1>3 DEF IndexRow, Add, mirrorVars, TypeOK, Tx
  <1>4. CASE DeleteRow
    BY <1>1, <1>4 DEF DeleteRow, TypeOK, Tx
  <1>5. CASE UnindexRow
    BY <1>1, <1>5 DEF UnindexRow, TypeOK, Tx
  <1> QED
    BY <1>2, <1>3, <1>4, <1>5 DEF ConsumerStep

\* The cleaner takes out only what is kept and has been in deletion.
LEMMA CleanerForgets ==
    ASSUME TypeOK, CleanerInv, StaysInv, CleanerStep, NEW o \in Object \ Finalized
    PROVE  row'[o] = row[o] /\ index'[o] = index[o]
  <1>1. ~Cleanable(o)
    BY DEF StaysInv, Cleanable, IsExpired
  <1>2. CASE ReadAllRows
    BY <1>2 DEF ReadAllRows
  <1>3. ASSUME NEW p \in Object, CleanRow(p)
        PROVE  row'[o] = row[o] /\ index'[o] = index[o]
    <2>1. IsExpired(p, snapshot[p]) => p # o
      BY <1>1, <1>3, ExpiredKept DEF CleanRow
    <2> QED
      BY <1>3, <2>1 DEF CleanRow, TypeOK
  <1>4. CASE CleanDocument
    <2>1. o \notin cleaning
      BY <1>1 DEF CleanerInv
    <2> QED
      BY <1>4, <2>1 DEF CleanDocument, TypeOK
  <1> QED
    BY <1>2, <1>3, <1>4 DEF CleanerStep

\* The hook takes out what is of its cluster.
LEMMA HookForgets ==
    ASSUME TypeOK, StaysInv, HookStep, NEW o \in Object
    PROVE  LeavesByHook(o)
  <1>1. CASE DeleteAllRows
    BY <1>1 DEF DeleteAllRows, LeavesByHook, TypeOK
  <1>2. CASE DeleteDocument
    BY <1>2 DEF DeleteDocument, StaysInv, LeavesByHook, TypeOK
  <1>3. CASE SearchDocuments \/ HookReturns
    BY <1>3 DEF LeavesByHook, SearchDocuments, HookReturns
  <1> QED
    BY <1>1, <1>2, <1>3 DEF HookStep

\* Whatever fails and however watchers overlap, an object without finalizers, of
\* a kind that is not listed as such, leaves the store and the index by the stop
\* hook of its cluster and in no other way: Reconcile makes nothing of one that
\* is gone, and so it lingers there when it is deleted.
THEOREM LingersUntilForgotten == Spec => OnlyForgotten
  <1>1. ASSUME TypeOK, InHandInv, CleanerInv, StaysInv, [Next]_vars,
               NEW o \in Object \ (Finalized \cup Listed)
        PROVE  LeavesByHook(o)
    <2>1. CASE UNCHANGED <<row, index>>
      BY <2>1 DEF LeavesByHook
    <2>2. CASE ConsumerStep
      BY <1>1, <2>2, ConsumerForgets DEF InHandInv, LeavesByHook
    <2>3. CASE CleanerStep
      BY <1>1, <2>3, CleanerForgets DEF LeavesByHook
    <2>4. CASE HookStep
      BY <1>1, <2>4, HookForgets
    <2> QED
      BY <1>1, <2>1, <2>2, <2>3, <2>4
      DEF Next, Change, RetentionPasses, WatcherStep, StartWatcher, StopWatcher, Resync,
          Reconcile, Receive, Unwatch
  <1>2. TypeOK /\ InHandInv /\ StaysInv /\ [Next]_vars => StaysInv'
    BY NextStays
  <1>3. TypeOK /\ InHandInv /\ CleanerInv /\ StaysInv /\ [Next]_vars
        => [\A o \in Object \ (Finalized \cup Listed) : LeavesByHook(o)]_vars
    BY <1>1
  <1>4. Spec => []TypeOK /\ []InHandInv /\ []CleanerInv
    BY TypeCorrect, OrderCorrect, CleanerAlways
  <1> QED
    BY InitStays, <1>2, <1>3, <1>4, PTL DEF Spec, OnlyForgotten
=============================================================================
