--------------------------- MODULE CollectorProofs ---------------------------
(***************************************************************************)
(* For every set of clusters and names and every bound: the type invariant *)
(* of Collector, and that the collector never forgets a cluster.           *)
(***************************************************************************)
EXTENDS Collector, TLAPS

\* The names for single assignments are expanded wherever they occur.
USE DEF SetStatus, CancelRecord, RemoveRecord, Retry, Failure, ShutDown, Idle, envVars

\* Init establishes the inductive invariant: nothing is queued and no record
\* has been made.
LEMMA InitIInv == Init => IInv
<1> USE CollectorAssumption DEF CollectorAssumption
<1> SUFFICES ASSUME Init PROVE IInv
  OBVIOUS
<1>1. ManagerTypeOK /\ MainTypeOK
  BY DEF Init, ManagerTypeOK, MainTypeOK
<1>5. QueueTypeOK /\ WorkerTypeOK
  <2>1. queue \in Seq(Cluster)
    BY DEF Init
  <2>2. QueueTypeOK
    BY <2>1 DEF Init, QueueTypeOK
  <2> QED BY <2>2 DEF Init, WorkerTypeOK
<1>6. ChildTypeOK
  <2>1. phase \in [Child -> Phases] /\ status \in [Child -> Statuses]
    BY DEF Init, Phases, Statuses
  <2>2. failures \in 0 .. MaxFailures
    BY DEF Init
  <2>3. /\ watchers \in [Name -> Child \cup {NoChild}]
        /\ cluster \in [Child -> Cluster \cup {NoCluster}]
        /\ cancelled \in [Child -> BOOLEAN]
        /\ stored \in SUBSET Name
    BY DEF Init
  <2> QED BY <2>1, <2>2, <2>3 DEF ChildTypeOK
<1>2. QueueInv /\ MainInv /\ WorkerInv
  BY DEF Init, QueueInv, MainInv, WorkerInv
<1>3. ChildInv /\ CancelledRecordHasFailed
  BY DEF Init, ChildInv, CancelledRecordHasFailed, Child, NoChild
<1>4. NeverForgotten
  BY DEF Init, NeverForgotten
<1> QED BY <1>1, <1>2, <1>3, <1>4, <1>5, <1>6 DEF IInv, TypeOK

-----------------------------------------------------------------------------
(* Facts about the work queue.                                             *)

\* Appending to the queue keeps what is queued and queues the new item.
LEMMA AppendQueued ==
  ASSUME NEW q \in Seq(Cluster), NEW c \in Cluster, NEW d
  PROVE  (\E i \in DOMAIN Append(q, c) : Append(q, c)[i] = d)
            <=> (d = c \/ \E i \in DOMAIN q : q[i] = d)
<1>1. /\ DOMAIN Append(q, c) = 1 .. Len(q) + 1
      /\ DOMAIN q = 1 .. Len(q)
      /\ Len(q) \in Nat
      /\ Append(q, c)[Len(q) + 1] = c
      /\ \A i \in 1 .. Len(q) : Append(q, c)[i] = q[i]
  OBVIOUS
<1> QED BY <1>1

\* Taking the head off the queue leaves every other queued item queued.
LEMMA TailQueued ==
  ASSUME NEW q \in Seq(Cluster), q # <<>>, NEW d
  PROVE  (\E i \in DOMAIN q : q[i] = d)
            => (d = Head(q) \/ \E i \in DOMAIN Tail(q) : Tail(q)[i] = d)
<1>1. /\ DOMAIN q = 1 .. Len(q)
      /\ DOMAIN Tail(q) = 1 .. Len(q) - 1
      /\ Len(q) \in Nat
      /\ Head(q) = q[1]
      /\ \A i \in 1 .. Len(q) - 1 : Tail(q)[i] = q[i + 1]
  OBVIOUS
<1>2. ASSUME NEW i \in DOMAIN q, q[i] = d, d # Head(q)
      PROVE  \E j \in DOMAIN Tail(q) : Tail(q)[j] = d
  <2>1. i - 1 \in 1 .. Len(q) - 1 /\ Tail(q)[i - 1] = d
    BY <1>1, <1>2
  <2> QED BY <2>1, <1>1
<1> QED BY <1>2
-----------------------------------------------------------------------------
(* Type correctness.                                                       *)

LEMMA ManagerTypeStep == IInv /\ [Next]_vars => ManagerTypeOK'
<1> SUFFICES ASSUME IInv, [Next]_vars PROVE ManagerTypeOK'
  OBVIOUS
<1> USE CollectorAssumption DEF CollectorAssumption, IInv, TypeOK, ManagerTypeOK, NoChild
<1>1. ASSUME Poll PROVE ManagerTypeOK'
  <2> DEFINE Update == [added : SUBSET Cluster, removed : SUBSET Cluster]
  <2>1. known' \in SUBSET Name /\ polls' \in 0 .. MaxPolls
    BY <1>1 DEF Poll
  <2>2. ASSUME NEW now, NEW a \in ListsOf(now \ known),
               NEW r \in ListsOf(known \ now),
               updates' = Append(updates, [added |-> a, removed |-> r])
        PROVE  updates' \in Seq(Update)
    <3>1. [added |-> a, removed |-> r] \in Update
      BY DEF ListsOf
    <3>2. updates \in Seq(Update)
      OBVIOUS
    <3> HIDE DEF Update
    <3> QED BY <2>2, <3>1, <3>2
  <2>3. updates' \in Seq(Update)
    BY <1>1, <2>2 DEF Poll
  <2> QED BY <2>1, <2>3
<1>2. ASSUME ReceiveUpdate PROVE ManagerTypeOK'
  BY <1>2 DEF ReceiveUpdate
<1>3. ASSUME Stop PROVE ManagerTypeOK'
  BY <1>3 DEF Stop
<1>4. ASSUME UNCHANGED <<managerVars>> PROVE ManagerTypeOK'
  BY <1>4 DEF managerVars, mainVars, queueVars, workerVars, childVars
<1> QED
  BY <1>1, <1>2, <1>3, <1>4 DEF vars, Next, MainStep, WorkerStep, ChildStep,
      GoroutineStep, Subscribe, GetClusters, AddCluster, StartWorker,
      ForgetRemoved, Unwatch, UnwatchCancel, StopHook,
      WorkerGet, WorkerExit, WorkerDone, WatchEmptyName, WatchRecord,
      WatchSpawn, WatchFail, WatchCancel, WorkerRetry, DelayPassed,
      MarkStarted, StoreObjects, StarterFails, Requeue, StarterStops

LEMMA MainTypeStep == IInv /\ [Next]_vars => MainTypeOK'
<1> SUFFICES ASSUME IInv, [Next]_vars PROVE MainTypeOK'
  OBVIOUS
<1> USE CollectorAssumption DEF CollectorAssumption, IInv, TypeOK, MainTypeOK, NoChild
<1>1. ASSUME Subscribe PROVE MainTypeOK'
  BY <1>1 DEF Subscribe
<1>2. ASSUME GetClusters PROVE MainTypeOK'
  BY <1>2 DEF GetClusters, ListsOf
<1>3. ASSUME ReceiveUpdate PROVE MainTypeOK'
  <2> DEFINE Update == [added : SUBSET Cluster, removed : SUBSET Cluster]
  <2>1. Head(updates) \in Update
    <3>1. updates \in Seq(Update) /\ updates # <<>>
      BY <1>3 DEF ReceiveUpdate, ManagerTypeOK
    <3> HIDE DEF Update
    <3> QED BY <3>1
  <2> QED BY <1>3, <2>1 DEF ReceiveUpdate
<1>4. ASSUME AddCluster PROVE MainTypeOK'
  BY <1>4 DEF AddCluster
<1>5. ASSUME StartWorker PROVE MainTypeOK'
  BY <1>5 DEF StartWorker
<1>7. ASSUME ForgetRemoved PROVE MainTypeOK'
  BY <1>7 DEF ForgetRemoved
<1>8. ASSUME Unwatch PROVE MainTypeOK'
  <2>1. NameOf[current] \in Name
    BY <1>8 DEF Unwatch, MainInv
  <2>2. watchers[NameOf[current]] \in Child \cup {NoChild}
    BY <2>1 DEF ChildTypeOK
  <2> QED BY <1>8, <2>2 DEF Unwatch
<1>9. ASSUME UnwatchCancel PROVE MainTypeOK'
  BY <1>9 DEF UnwatchCancel
<1>10. ASSUME StopHook PROVE MainTypeOK'
  BY <1>10 DEF StopHook
<1>12. ASSUME Stop PROVE MainTypeOK'
  BY <1>12 DEF Stop
<1>13. ASSUME UNCHANGED <<mainVars>> PROVE MainTypeOK'
  BY <1>13 DEF managerVars, mainVars, queueVars, workerVars, childVars
<1> QED
  BY <1>1, <1>2, <1>3, <1>4, <1>5, <1>7, <1>8, <1>9, <1>10,
      <1>12, <1>13 DEF vars, Next, MainStep, WorkerStep, ChildStep,
      GoroutineStep, Poll, WorkerGet, WorkerExit, WorkerDone, WatchEmptyName,
      WatchRecord, WatchSpawn, WatchFail, WatchCancel, WorkerRetry,
      DelayPassed, MarkStarted, StoreObjects, StarterFails, Requeue,
      StarterStops

LEMMA QueueTypeStep == IInv /\ [Next]_vars => QueueTypeOK'
<1> SUFFICES ASSUME IInv, [Next]_vars PROVE QueueTypeOK'
  OBVIOUS
<1> USE CollectorAssumption DEF CollectorAssumption, IInv, TypeOK, QueueTypeOK, NoChild
<1>1. ASSUME AddCluster PROVE QueueTypeOK'
  BY <1>1 DEF AddCluster, QueueAdd, MainTypeOK
<1>2. ASSUME ForgetRemoved PROVE QueueTypeOK'
  BY <1>2 DEF ForgetRemoved, QueueDone, MainTypeOK
<1>3. ASSUME Stop PROVE QueueTypeOK'
  BY <1>3 DEF Stop
<1>4. ASSUME WorkerGet PROVE QueueTypeOK'
  BY <1>4 DEF WorkerGet
<1>5. ASSUME WorkerDone PROVE QueueTypeOK'
  BY <1>5 DEF WorkerDone, QueueDone, WorkerTypeOK
<1>6. ASSUME WorkerRetry PROVE QueueTypeOK'
  BY <1>6 DEF WorkerRetry, QueueAddRateLimited, WorkerInv
<1>7. ASSUME NEW c \in Cluster, DelayPassed(c) PROVE QueueTypeOK'
  BY <1>7 DEF DelayPassed, QueueAdd
<1>8. ASSUME NEW k \in Child, Requeue(k) PROVE QueueTypeOK'
  BY <1>8 DEF Requeue, QueueAddRateLimited, ChildInv
<1>9. ASSUME UNCHANGED <<queueVars>> PROVE QueueTypeOK'
  BY <1>9 DEF managerVars, mainVars, queueVars, workerVars, childVars
<1> QED
  BY <1>1, <1>2, <1>3, <1>4, <1>5, <1>6, <1>7, <1>8, <1>9 DEF vars, Next,
      MainStep, WorkerStep, ChildStep, GoroutineStep, Poll, Subscribe,
      GetClusters, ReceiveUpdate, StartWorker, Unwatch,
      UnwatchCancel, StopHook, WorkerExit, WatchEmptyName,
      WatchRecord, WatchSpawn, WatchFail, WatchCancel, MarkStarted,
      StoreObjects, StarterFails, StarterStops

LEMMA WorkerTypeStep == IInv /\ [Next]_vars => WorkerTypeOK'
<1> SUFFICES ASSUME IInv, [Next]_vars PROVE WorkerTypeOK'
  OBVIOUS
<1> USE CollectorAssumption DEF CollectorAssumption, IInv, TypeOK, WorkerTypeOK, NoChild
<1>1. ASSUME StartWorker PROVE WorkerTypeOK'
  BY <1>1 DEF StartWorker
<1>2. ASSUME WorkerGet PROVE WorkerTypeOK'
  BY <1>2 DEF WorkerGet, QueueTypeOK
<1>3. ASSUME WorkerExit PROVE WorkerTypeOK'
  BY <1>3 DEF WorkerExit
<1>4. ASSUME WorkerDone PROVE WorkerTypeOK'
  BY <1>4 DEF WorkerDone
<1>5. ASSUME WatchEmptyName PROVE WorkerTypeOK'
  BY <1>5 DEF WatchEmptyName
<1>6. ASSUME WatchRecord PROVE WorkerTypeOK'
  BY <1>6 DEF WatchRecord
<1>7. ASSUME WatchSpawn PROVE WorkerTypeOK'
  BY <1>7 DEF WatchSpawn
<1>8. ASSUME WatchFail PROVE WorkerTypeOK'
  BY <1>8 DEF WatchFail
<1>9. ASSUME WatchCancel PROVE WorkerTypeOK'
  BY <1>9 DEF WatchCancel
<1>10. ASSUME WorkerRetry PROVE WorkerTypeOK'
  BY <1>10 DEF WorkerRetry
<1>11. ASSUME UNCHANGED <<workerVars>> PROVE WorkerTypeOK'
  BY <1>11 DEF managerVars, mainVars, queueVars, workerVars, childVars
<1> QED
  BY <1>1, <1>2, <1>3, <1>4, <1>5, <1>6, <1>7, <1>8, <1>9, <1>10, <1>11 DEF
      vars, Next, MainStep, WorkerStep, ChildStep, GoroutineStep, Poll,
      Subscribe, GetClusters, ReceiveUpdate, AddCluster, ForgetRemoved, Unwatch, UnwatchCancel, StopHook, Stop,
      DelayPassed, MarkStarted, StoreObjects, StarterFails, Requeue,
      StarterStops

LEMMA ChildTypeStep == IInv /\ [Next]_vars => ChildTypeOK'
<1> SUFFICES ASSUME IInv, [Next]_vars PROVE ChildTypeOK'
  OBVIOUS
<1> USE CollectorAssumption DEF CollectorAssumption, IInv, TypeOK, ChildTypeOK, NoChild
<1>1. ASSUME Unwatch PROVE ChildTypeOK'
  <2>1. watchers' \in [Name -> Child \cup {NoChild}]
    BY <1>1 DEF Unwatch
  <2> QED BY <1>1, <2>1 DEF Unwatch, childVars
<1>2. ASSUME UnwatchCancel PROVE ChildTypeOK'
  BY <1>2 DEF UnwatchCancel
<1>3. ASSUME StopHook PROVE ChildTypeOK'
  <2>1. stored' \in SUBSET Name /\ failures' \in 0 .. MaxFailures
    BY <1>3 DEF StopHook
  <2> QED BY <1>3, <2>1 DEF StopHook, childVars
<1>4. ASSUME WatchRecord PROVE ChildTypeOK'
  <2>1. PICK k \in Child :
            /\ cluster' = [cluster EXCEPT ![k] = workerCluster]
            /\ phase' = [phase EXCEPT ![k] = "preparing"]
            /\ status' = [status EXCEPT ![k] = "starting"]
            /\ watchers' = [watchers EXCEPT ![NameOf[workerCluster]] = k]
    BY <1>4 DEF WatchRecord
  <2>2. phase' \in [Child -> Phases] /\ status' \in [Child -> Statuses]
    BY <2>1 DEF Phases, Statuses
  <2>3. /\ cluster' \in [Child -> Cluster \cup {NoCluster}]
        /\ watchers' \in [Name -> Child \cup {NoChild}]
    BY <2>1 DEF WorkerTypeOK
  <2> QED BY <1>4, <2>2, <2>3 DEF WatchRecord
<1>5. ASSUME WatchSpawn PROVE ChildTypeOK'
  BY <1>5 DEF WatchSpawn, Phases
<1>6. ASSUME WatchFail PROVE ChildTypeOK'
  <2>1. phase' \in [Child -> Phases] /\ status' \in [Child -> Statuses]
    BY <1>6 DEF WatchFail, Phases, Statuses
  <2>2. failures' \in 0 .. MaxFailures
    BY <1>6 DEF WatchFail
  <2> QED BY <1>6, <2>1, <2>2 DEF WatchFail
<1>7. ASSUME WatchCancel PROVE ChildTypeOK'
  BY <1>7 DEF WatchCancel
<1>8. ASSUME NEW k \in Child, MarkStarted(k) PROVE ChildTypeOK'
  BY <1>8 DEF MarkStarted, Phases, Statuses
<1>9. ASSUME NEW k \in Child, StoreObjects(k) PROVE ChildTypeOK'
  BY <1>9 DEF StoreObjects, ChildInv, childVars
<1>10. ASSUME NEW k \in Child, StarterFails(k) PROVE ChildTypeOK'
  <2>1. phase' \in [Child -> Phases] /\ status' \in [Child -> Statuses]
    BY <1>10 DEF StarterFails, Phases, Statuses
  <2>2. failures' \in 0 .. MaxFailures
    BY <1>10 DEF StarterFails
  <2> QED BY <1>10, <2>1, <2>2 DEF StarterFails
<1>11. ASSUME NEW k \in Child, Requeue(k) PROVE ChildTypeOK'
  BY <1>11 DEF Requeue, Phases
<1>12. ASSUME NEW k \in Child, StarterStops(k) PROVE ChildTypeOK'
  BY <1>12 DEF StarterStops, Phases, Statuses
<1>13. ASSUME UNCHANGED <<childVars, envVars>> PROVE ChildTypeOK'
  BY <1>13 DEF managerVars, mainVars, queueVars, workerVars, childVars
<1> QED
  BY <1>1, <1>2, <1>3, <1>4, <1>5, <1>6, <1>7, <1>8, <1>9, <1>10, <1>11,
      <1>12, <1>13 DEF vars, Next, MainStep, WorkerStep, ChildStep,
      GoroutineStep, Poll, Subscribe, GetClusters, ReceiveUpdate, AddCluster,
      StartWorker, ForgetRemoved, Stop, WorkerGet,
      WorkerExit, WorkerDone, WatchEmptyName, WorkerRetry, DelayPassed

\* Every variable keeps its type.
LEMMA NextTypeOK == IInv /\ [Next]_vars => TypeOK'
BY ManagerTypeStep, MainTypeStep, QueueTypeStep, WorkerTypeStep, ChildTypeStep
   DEF TypeOK

-----------------------------------------------------------------------------
(* The work queue keeps every added item until the worker takes it.        *)

LEMMA QueueAddKeeps ==
  ASSUME QueueTypeOK, QueueInv, NEW c \in Cluster, QueueAdd(c),
         UNCHANGED <<processing, workerPc, workerCluster>>
  PROVE  /\ QueueInv'
         /\ \A d : Queued(d) => Queued(d)'
         /\ ~shuttingDown => Queued(c)' \/ InHand(c)'
<1>1. CASE shuttingDown \/ c \in dirty
  BY <1>1 DEF QueueAdd, QueueInv, Queued, InHand
<1>2. CASE ~(shuttingDown \/ c \in dirty) /\ c \in processing
  BY <1>2 DEF QueueAdd, QueueInv, Queued, InHand
<1>3. CASE ~(shuttingDown \/ c \in dirty) /\ c \notin processing
  <2>1. dirty' = dirty \cup {c} /\ queue' = Append(queue, c)
    BY <1>3 DEF QueueAdd
  <2>2. \A d : Queued(d)' <=> d = c \/ Queued(d)
    BY <2>1, AppendQueued DEF Queued, QueueTypeOK
  <2> QED BY <2>1, <2>2 DEF QueueInv
<1> QED BY <1>1, <1>2, <1>3

LEMMA QueueDoneKeeps ==
  ASSUME QueueTypeOK, QueueInv, NEW c \in Cluster, QueueDone(c)
  PROVE  /\ \A d \in dirty' : Queued(d)' \/ d \in processing'
         /\ \A d : Queued(d) => Queued(d)'
<1>1. CASE c \in dirty
  <2>1. \A d : Queued(d)' <=> d = c \/ Queued(d)
    BY <1>1, AppendQueued DEF QueueDone, Queued, QueueTypeOK
  <2> QED BY <2>1 DEF QueueDone, QueueInv
<1>2. CASE c \notin dirty
  BY <1>2 DEF QueueDone, QueueInv, Queued
<1> QED BY <1>1, <1>2

\* A dirty item is queued, or the worker has yet to call Done for it.
LEMMA QueueInvStep == IInv /\ [Next]_vars => QueueInv'
<1> SUFFICES ASSUME IInv, [Next]_vars PROVE QueueInv'
  OBVIOUS
<1> USE DEF IInv, TypeOK
<1>1. ASSUME AddCluster PROVE QueueInv'
  <2>1. PICK c \in adding : QueueAdd(c)
    BY <1>1 DEF AddCluster
  <2> QED BY <1>1, <2>1, QueueAddKeeps DEF AddCluster, MainTypeOK, workerVars
<1>2. ASSUME NEW c \in Cluster, DelayPassed(c) PROVE QueueInv'
  BY <1>2, QueueAddKeeps DEF DelayPassed, workerVars
<1>3. ASSUME ForgetRemoved PROVE QueueInv'
  <2>1. PICK c \in removing : QueueDone(c)
    BY <1>3 DEF ForgetRemoved
  <2>2. processing' \subseteq processing /\ UNCHANGED <<workerPc, workerCluster>>
    BY <1>3, <2>1 DEF ForgetRemoved, QueueDone, workerVars
  <2> QED BY <2>1, <2>2, QueueDoneKeeps DEF QueueInv, MainTypeOK
<1>4. ASSUME WorkerDone PROVE QueueInv'
  <2>1. workerCluster \in Cluster /\ QueueDone(workerCluster)
    BY <1>4 DEF WorkerDone, WorkerInv
  <2>2. processing' = {}
    BY <2>1 DEF QueueDone, QueueInv
  <2> QED BY <2>1, <2>2, QueueDoneKeeps DEF QueueInv
<1>5. ASSUME WorkerGet PROVE QueueInv'
  <2>1. processing = {}
    BY <1>5 DEF WorkerGet, QueueInv
  <2>2. \A d : Queued(d) => d = Head(queue) \/ Queued(d)'
    BY <1>5, TailQueued DEF WorkerGet, Queued, QueueTypeOK
  <2> QED BY <1>5, <2>1, <2>2 DEF WorkerGet, QueueInv
<1>6. ASSUME UNCHANGED <<queue, dirty, processing>>,
             UNCHANGED <<workerPc, workerCluster>> \/ workerPc # "done"
      PROVE  QueueInv'
  BY <1>6 DEF QueueInv, Queued
<1> USE DEF managerVars, mainVars, queueVars, workerVars, childVars
<1>7. ASSUME Poll \/ Stop \/ UNCHANGED vars PROVE QueueInv'
  BY <1>6, <1>7 DEF Poll, Stop, vars
<1>8. ASSUME MainStep PROVE QueueInv'
  <2>1. CASE StartWorker
    BY <1>6, <2>1 DEF StartWorker, MainInv
  <2> QED
    BY <1>1, <1>3, <1>6, <1>8, <2>1
    DEF MainStep, Subscribe, GetClusters, ReceiveUpdate, Unwatch,
        UnwatchCancel, StopHook
<1>9. ASSUME WorkerStep PROVE QueueInv'
  BY <1>4, <1>5, <1>6, <1>9
  DEF WorkerStep, WorkerExit, WatchEmptyName, WatchRecord, WatchSpawn,
      WatchFail, WatchCancel, WorkerRetry, QueueAddRateLimited
<1>10. ASSUME NEW k \in Child, ChildStep(k) PROVE QueueInv'
  BY <1>6, <1>10
  DEF ChildStep, GoroutineStep, MarkStarted, StoreObjects, StarterFails,
      Requeue, StarterStops, QueueAddRateLimited
<1> QED BY <1>2, <1>7, <1>8, <1>9, <1>10 DEF Next

-----------------------------------------------------------------------------
(* Who owns which record.                                                  *)

LEMMA NoChildNotChild == NoChild \notin Child
BY DEF NoChild, Child

\* The record Start cancels belongs to the cluster it is unwatching.
LEMMA MainInvStep == IInv /\ [Next]_vars => MainInv'
<1> SUFFICES ASSUME IInv, [Next]_vars PROVE MainInv'
  OBVIOUS
<1> USE DEF IInv, TypeOK, MainInv, managerVars, mainVars, queueVars, workerVars,
            childVars
<1>1. ASSUME ForgetRemoved PROVE MainInv'
  BY <1>1 DEF ForgetRemoved, MainTypeOK
<1>2. ASSUME Unwatch PROVE MainInv'
  <2> DEFINE n == NameOf[current]
  <2>1. current \in Cluster /\ n \notin seen
    BY <1>2 DEF Unwatch
  <2>2. n \in Name
    BY <2>1, CollectorAssumption DEF CollectorAssumption
  <2>3. CASE mainPc' = "loop"
    BY <2>3, <1>2 DEF Unwatch
  <2>4. CASE mainPc' = "cancel"
    <3>1. /\ watchers[n] # NoChild
          /\ victim' = watchers[n]
          /\ watchers' = [watchers EXCEPT ![n] = NoChild]
          /\ UNCHANGED <<current, seen, phase, cluster, workerPc>>
      BY <2>4, <1>2 DEF Unwatch
    <3>2. /\ victim' \in Child
          /\ phase[victim'] # "unused"
          /\ NameOf[cluster[victim']] = n
      BY <2>2, <3>1 DEF ChildInv, ChildTypeOK
    <3>3. ASSUME NEW m \in Name PROVE watchers'[m] # victim'
      BY <2>2, <3>1, <3>2, NoChildNotChild DEF ChildInv, ChildTypeOK
    <3> QED BY <2>1, <2>4, <3>1, <3>2, <3>3
  <2> QED BY <2>3, <2>4, <1>2 DEF Unwatch
<1>3. ASSUME WatchRecord PROVE MainInv'
  <2>1. PICK k \in Child :
            /\ phase[k] = "unused"
            /\ cluster' = [cluster EXCEPT ![k] = workerCluster]
            /\ phase' = [phase EXCEPT ![k] = "preparing"]
            /\ watchers' = [watchers EXCEPT ![NameOf[workerCluster]] = k]
    BY <1>3 DEF WatchRecord
  <2>2. workerPc = "watch" /\ UNCHANGED <<mainPc, current, victim, seen>>
    BY <1>3 DEF WatchRecord
  <2>3. ASSUME mainPc \in {"cancel", "hook"}
        PROVE  /\ phase'[victim] # "unused"
               /\ cluster'[victim] = cluster[victim]
               /\ \A n \in Name : watchers'[n] # victim
    BY <2>1, <2>3 DEF ChildTypeOK
  <2> QED BY <2>2, <2>3
<1>4. ASSUME NEW k \in Child, StarterStops(k) PROVE MainInv'
  BY <1>4, NoChildNotChild DEF StarterStops, ChildTypeOK
<1>5. ASSUME UNCHANGED <<mainPc, current, victim, seen, watchers, cluster>>,
             workerPc = "off" => workerPc' = "off",
             \A k \in Child : phase[k] # "unused" => phase'[k] # "unused"
      PROVE  MainInv'
  BY <1>5
<1>6. ASSUME MainStep PROVE MainInv'
  BY <1>1, <1>2, <1>6
  DEF MainStep, Subscribe, GetClusters, ReceiveUpdate, AddCluster, StartWorker,
      UnwatchCancel, StopHook
<1>7. ASSUME WorkerStep PROVE MainInv'
  <2>1. ASSUME WorkerGet \/ WorkerExit \/ WorkerDone \/ WatchEmptyName
               \/ WatchCancel \/ WorkerRetry
        PROVE  MainInv'
    BY <1>5, <2>1
    DEF WorkerGet, WorkerExit, WorkerDone, WatchEmptyName, WatchCancel,
        WorkerRetry
  <2>2. ASSUME WatchSpawn \/ WatchFail PROVE MainInv'
    BY <1>5, <2>2 DEF WatchSpawn, WatchFail, ChildTypeOK
  <2> QED BY <1>3, <1>7, <2>1, <2>2 DEF WorkerStep
<1>8. ASSUME NEW k \in Child, ChildStep(k) PROVE MainInv'
  <2>1. ASSUME MarkStarted(k) \/ StoreObjects(k) \/ StarterFails(k) \/ Requeue(k)
        PROVE  MainInv'
    BY <1>5, <2>1
    DEF MarkStarted, StoreObjects, StarterFails, Requeue, ChildTypeOK
  <2> QED BY <1>4, <1>8, <2>1 DEF ChildStep, GoroutineStep
<1>9. ASSUME NEW c \in Cluster, DelayPassed(c) PROVE MainInv'
  BY <1>5, <1>9 DEF DelayPassed
<1>10. ASSUME Poll \/ Stop \/ UNCHANGED vars PROVE MainInv'
  BY <1>5, <1>10 DEF Poll, Stop, vars
<1> QED BY <1>6, <1>7, <1>8, <1>9, <1>10 DEF Next

\* Nobody but the worker touches the record it prepares.
LEMMA WorkerInvStep == IInv /\ [Next]_vars => WorkerInv'
<1> SUFFICES ASSUME IInv, [Next]_vars PROVE WorkerInv'
  OBVIOUS
<1> USE DEF IInv, TypeOK, WorkerInv, managerVars, mainVars, queueVars,
            workerVars, childVars
<1>1. ASSUME WorkerStep PROVE WorkerInv'
  <2>1. CASE WorkerGet
    <3>1. Head(queue) \in Cluster
      BY <2>1 DEF WorkerGet, QueueTypeOK
    <3> QED BY <2>1, <3>1 DEF WorkerGet
  <2>2. CASE WorkerExit \/ WorkerDone \/ WatchEmptyName \/ WorkerRetry
    BY <2>2 DEF WorkerExit, WorkerDone, WatchEmptyName, WorkerRetry
  <2>3. CASE WatchRecord
    BY <2>3 DEF WatchRecord, ChildTypeOK
  <2>4. CASE WatchSpawn \/ WatchCancel
    BY <2>4 DEF WatchSpawn, WatchCancel
  <2>5. CASE WatchFail
    BY <2>5 DEF WatchFail, ChildTypeOK
  <2> QED BY <1>1, <2>1, <2>2, <2>3, <2>4, <2>5 DEF WorkerStep
<1>2. ASSUME UNCHANGED workerVars, UNCHANGED <<cluster, phase, status>>
      PROVE  WorkerInv'
  BY <1>2
<1>3. ASSUME NEW k \in Child, UNCHANGED workerVars, UNCHANGED cluster,
             phase[k] \in {"spawned", "running", "requeue"},
             \A j \in Child \ {k} : phase'[j] = phase[j] /\ status'[j] = status[j]
      PROVE  WorkerInv'
  BY <1>3
<1>4. ASSUME NEW k \in Child, ChildStep(k) PROVE WorkerInv'
  <2>1. CASE StoreObjects(k)
    BY <1>2, <2>1 DEF StoreObjects
  <2>2. CASE MarkStarted(k) \/ StarterFails(k) \/ Requeue(k) \/ StarterStops(k)
    BY <1>3, <2>2
    DEF MarkStarted, StarterFails, Requeue, StarterStops, ChildTypeOK
  <2> QED BY <1>4, <2>1, <2>2 DEF ChildStep, GoroutineStep
<1>5. ASSUME MainStep PROVE WorkerInv'
  <2>1. CASE StartWorker
    BY <2>1 DEF StartWorker
  <2> QED
    BY <1>2, <1>5, <2>1
    DEF MainStep, Subscribe, GetClusters, ReceiveUpdate, AddCluster, ForgetRemoved, Unwatch, UnwatchCancel, StopHook
<1>6. ASSUME NEW c \in Cluster, DelayPassed(c) PROVE WorkerInv'
  BY <1>2, <1>6 DEF DelayPassed
<1>7. ASSUME Poll \/ Stop \/ UNCHANGED vars PROVE WorkerInv'
  BY <1>2, <1>7 DEF Poll, Stop, vars
<1> QED BY <1>1, <1>4, <1>5, <1>6, <1>7 DEF Next

\* Records in the map are made for the name they are filed under.
LEMMA ChildInvStep == IInv /\ [Next]_vars => ChildInv'
<1> SUFFICES ASSUME IInv, [Next]_vars PROVE ChildInv'
  OBVIOUS
<1> USE DEF IInv, TypeOK, ChildInv, ChildTypeOK, managerVars, mainVars,
            queueVars, workerVars, childVars
<1>1. CASE Unwatch
  <2>1. UNCHANGED <<cluster, phase, cancelled, status, workerPc, workerChild>>
    BY <1>1 DEF Unwatch
  <2>2. ASSUME NEW n \in Name PROVE watchers'[n] \in {watchers[n], NoChild}
    BY <1>1 DEF Unwatch
  <2> QED BY <2>1, <2>2
<1>2. CASE UnwatchCancel
  BY <1>2 DEF UnwatchCancel, MainInv
<1>3. CASE WatchRecord
  <2>1. PICK k \in Child :
            /\ phase[k] = "unused"
            /\ workerChild' = k
            /\ cluster' = [cluster EXCEPT ![k] = workerCluster]
            /\ phase' = [phase EXCEPT ![k] = "preparing"]
            /\ status' = [status EXCEPT ![k] = "starting"]
            /\ watchers' = [watchers EXCEPT ![NameOf[workerCluster]] = k]
    BY <1>3 DEF WatchRecord
  <2>2. workerPc = "watch" /\ workerPc' = "config" /\ UNCHANGED cancelled
    BY <1>3 DEF WatchRecord
  <2>3. workerCluster \in Cluster
    BY <2>2 DEF WorkerInv
  <2>4. ASSUME NEW j \in Child
        PROVE  /\ phase'[j] # "unused" => cluster'[j] \in Cluster
               /\ cancelled'[j] => phase'[j] # "unused"
               /\ status'[j] = "failed" => phase'[j] = "exited"
               /\ phase'[j] = "preparing" => workerPc' = "config" /\ workerChild' = j
    BY <2>1, <2>2, <2>3
  <2>5. ASSUME NEW n \in Name, watchers'[n] # NoChild
        PROVE  /\ phase'[watchers'[n]] # "unused"
               /\ NameOf[cluster'[watchers'[n]]] = n
    <3>1. CASE n = NameOf[workerCluster]
      BY <2>1, <3>1
    <3>2. CASE n # NameOf[workerCluster]
      BY <2>1, <2>5, <3>2
    <3> QED BY <3>1, <3>2
  <2> QED BY <2>4, <2>5
<1>4. CASE WatchSpawn
  BY <1>4 DEF WatchSpawn, WorkerInv
<1>5. CASE WatchFail
  BY <1>5 DEF WatchFail, WorkerInv
<1>6. CASE WatchCancel
  BY <1>6 DEF WatchCancel, WorkerInv
<1>7. ASSUME NEW k \in Child, MarkStarted(k) \/ StarterFails(k) \/ Requeue(k)
      PROVE  ChildInv'
  BY <1>7 DEF MarkStarted, StarterFails, Requeue
<1>8. ASSUME NEW k \in Child, StarterStops(k) PROVE ChildInv'
  BY <1>8 DEF StarterStops
<1>9. ASSUME UNCHANGED <<childVars>>,
             UNCHANGED <<workerPc, workerChild>> \/ workerPc # "config"
      PROVE  ChildInv'
  BY <1>9
<1>10. ASSUME MainStep PROVE ChildInv'
  <2>1. CASE StartWorker
    BY <1>9, <2>1 DEF StartWorker, MainInv
  <2> QED
    BY <1>1, <1>2, <1>9, <1>10, <2>1
    DEF MainStep, Subscribe, GetClusters, ReceiveUpdate, AddCluster, ForgetRemoved, StopHook
<1>11. ASSUME WorkerStep PROVE ChildInv'
  BY <1>3, <1>4, <1>5, <1>6, <1>9, <1>11
  DEF WorkerStep, WorkerGet, WorkerExit, WorkerDone, WatchEmptyName, WorkerRetry
<1>12. ASSUME NEW k \in Child, ChildStep(k) PROVE ChildInv'
  BY <1>7, <1>8, <1>9, <1>12 DEF ChildStep, GoroutineStep, StoreObjects
<1>13. ASSUME NEW c \in Cluster, DelayPassed(c) PROVE ChildInv'
  BY <1>9, <1>13 DEF DelayPassed
<1>14. ASSUME Poll \/ Stop \/ UNCHANGED vars PROVE ChildInv'
  BY <1>9, <1>14 DEF Poll, Stop, vars
<1> QED BY <1>10, <1>11, <1>12, <1>13, <1>14 DEF Next

\* A record that Status can see is not cancelled, unless its watch failed.
LEMMA CancelledStep == IInv /\ [Next]_vars => CancelledRecordHasFailed'
<1> SUFFICES ASSUME IInv, [Next]_vars PROVE CancelledRecordHasFailed'
  OBVIOUS
<1> USE DEF IInv, TypeOK, CancelledRecordHasFailed, ChildTypeOK, managerVars,
            mainVars, queueVars, workerVars, childVars
<1>1. CASE Unwatch
  <2>1. UNCHANGED <<cancelled, status>>
    BY <1>1 DEF Unwatch
  <2>2. ASSUME NEW n \in Name PROVE watchers'[n] \in {watchers[n], NoChild}
    BY <1>1 DEF Unwatch
  <2> QED BY <2>1, <2>2
<1>2. CASE UnwatchCancel
  BY <1>2 DEF UnwatchCancel, MainInv
<1>3. CASE WatchRecord
  <2>1. PICK k \in Child :
            /\ phase[k] = "unused"
            /\ status' = [status EXCEPT ![k] = "starting"]
            /\ watchers' = [watchers EXCEPT ![NameOf[workerCluster]] = k]
    BY <1>3 DEF WatchRecord
  <2>2. ~cancelled[k] /\ UNCHANGED cancelled
    BY <1>3, <2>1 DEF WatchRecord, ChildInv
  <2>3. ASSUME NEW n \in Name, watchers'[n] # NoChild, cancelled'[watchers'[n]]
        PROVE  status'[watchers'[n]] = "failed"
    BY <2>1, <2>2, <2>3
  <2> QED BY <2>3
<1>4. CASE WatchFail
  BY <1>4 DEF WatchFail, WorkerInv, ChildInv
<1>5. CASE WatchCancel
  BY <1>5 DEF WatchCancel, WorkerInv
<1>6. ASSUME NEW k \in Child, MarkStarted(k) \/ StarterFails(k) PROVE CancelledRecordHasFailed'
  <2>1. status[k] # "failed"
    BY <1>6 DEF MarkStarted, StarterFails, ChildInv
  <2> QED BY <1>6, <2>1 DEF MarkStarted, StarterFails
<1>7. ASSUME NEW k \in Child, StarterStops(k) PROVE CancelledRecordHasFailed'
  <2>1. status[k] # "failed"
    BY <1>7 DEF StarterStops, ChildInv
  <2> QED BY <1>7, <2>1 DEF StarterStops
<1>8. ASSUME UNCHANGED <<watchers, cancelled, status>>
      PROVE  CancelledRecordHasFailed'
  BY <1>8
<1>9. ASSUME MainStep PROVE CancelledRecordHasFailed'
  BY <1>1, <1>2, <1>8, <1>9
  DEF MainStep, Subscribe, GetClusters, ReceiveUpdate, AddCluster, StartWorker,
      ForgetRemoved, StopHook
<1>10. ASSUME WorkerStep PROVE CancelledRecordHasFailed'
  BY <1>3, <1>4, <1>5, <1>8, <1>10
  DEF WorkerStep, WorkerGet, WorkerExit, WorkerDone, WatchEmptyName, WatchSpawn,
      WorkerRetry
<1>11. ASSUME NEW k \in Child, ChildStep(k) PROVE CancelledRecordHasFailed'
  BY <1>6, <1>7, <1>8, <1>11 DEF ChildStep, GoroutineStep, StoreObjects, Requeue
<1>12. ASSUME NEW c \in Cluster, DelayPassed(c) PROVE CancelledRecordHasFailed'
  BY <1>8, <1>12 DEF DelayPassed
<1>13. ASSUME Poll \/ Stop \/ UNCHANGED vars PROVE CancelledRecordHasFailed'
  BY <1>8, <1>13 DEF Poll, Stop, vars
<1> QED BY <1>9, <1>10, <1>11, <1>12, <1>13 DEF Next

-----------------------------------------------------------------------------
(* No cluster is forgotten.                                                *)

\* A step keeps a name if it keeps everything that stands for it.
LEMMA KeptStep ==
  ASSUME NEW n, Kept(n),
         \A c \in Cluster : Queued(c) => Queued(c)' \/ InHand(c)',
         \A c \in Cluster : c \in delayed => c \in delayed' \/ Queued(c)' \/ InHand(c)',
         \A c \in Cluster : InHand(c) =>
             \/ InHand(c)' \/ Queued(c)' \/ c \in delayed'
             \/ \E k \in Child : cluster'[k] = c /\ Live(k)',
         \A k \in Child : phase[k] = "requeue" /\ cluster[k] \in Cluster =>
             \/ cluster'[k] = cluster[k] /\ phase'[k] = "requeue"
             \/ cluster[k] \in delayed',
         \A k \in Child : Live(k) /\ NameOf[cluster[k]] = n =>
             \/ cluster'[k] = cluster[k] /\ Live(k)'
             \/ \E c \in Cluster : c = cluster[k] /\ InHand(c)'
             \/ cluster'[k] = cluster[k] /\ cluster[k] \in Cluster /\ phase'[k] = "requeue"
  PROVE  Kept(n)'
<1>1. ASSUME NEW c \in Cluster, NameOf[c] = n,
             \/ Queued(c)' \/ c \in delayed' \/ InHand(c)'
             \/ \E k \in Child : cluster'[k] = c /\ phase'[k] = "requeue"
      PROVE  Kept(n)'
  BY <1>1 DEF Kept, Pending
<1>2. ASSUME NEW k \in Child, Live(k)', NameOf[cluster'[k]] = n
      PROVE  Kept(n)'
  BY <1>2 DEF Kept
<1>3. CASE Pending(n)
  <2>1. PICK c \in Cluster :
            /\ NameOf[c] = n
            /\ \/ Queued(c) \/ c \in delayed \/ InHand(c)
               \/ \E k \in Child : cluster[k] = c /\ phase[k] = "requeue"
    BY <1>3 DEF Pending
  <2> QED BY <1>1, <1>2, <2>1
<1>4. CASE \E k \in Child : Live(k) /\ NameOf[cluster[k]] = n
  <2>1. PICK k \in Child : Live(k) /\ NameOf[cluster[k]] = n
    BY <1>4
  <2>2. CASE cluster'[k] = cluster[k] /\ Live(k)'
    BY <1>2, <2>1, <2>2
  <2>3. CASE \E c \in Cluster : c = cluster[k] /\ InHand(c)'
    BY <1>1, <2>1, <2>3
  <2>4. CASE cluster'[k] = cluster[k] /\ cluster[k] \in Cluster /\ phase'[k] = "requeue"
    BY <1>1, <2>1, <2>4
  <2> QED BY <2>1, <2>2, <2>3, <2>4
<1> QED BY <1>3, <1>4 DEF Kept

LEMMA NeverForgottenStep == IInv /\ [Next]_vars => NeverForgotten'
<1> SUFFICES ASSUME IInv, [Next]_vars, ~shuttingDown', NEW n \in seen'
             PROVE  Kept(n)'
  BY DEF NeverForgotten
<1> USE DEF IInv, TypeOK, managerVars, mainVars, queueVars, workerVars, childVars
<1>1. ~shuttingDown
  BY DEF vars, Next, MainStep, WorkerStep, ChildStep, GoroutineStep, Poll,
         Subscribe, GetClusters, ReceiveUpdate, AddCluster, StartWorker,
         ForgetRemoved, QueueDone, Unwatch, UnwatchCancel, StopHook, Stop, WorkerGet, WorkerExit, WorkerDone, WatchEmptyName,
         WatchRecord, WatchSpawn, WatchFail, WatchCancel, WorkerRetry,
         QueueAddRateLimited, DelayPassed, MarkStarted, StoreObjects,
         StarterFails, Requeue, StarterStops
<1>2. ASSUME n \in seen PROVE Kept(n)
  BY <1>1, <1>2 DEF NeverForgotten
<1>3. CASE AddCluster
  <2>1. PICK c \in adding : QueueAdd(c) /\ seen' = seen \cup {NameOf[c]}
    BY <1>3 DEF AddCluster
  <2>2. /\ c \in Cluster
        /\ UNCHANGED <<processing, delayed, workerVars, childVars>>
    BY <1>3, <2>1 DEF AddCluster, MainTypeOK
  <2>3. /\ \A d : Queued(d) => Queued(d)'
        /\ Queued(c)' \/ InHand(c)'
    BY <1>1, <2>1, <2>2, QueueAddKeeps
  <2>4. CASE n = NameOf[c]
    BY <2>2, <2>3, <2>4 DEF Kept, Pending
  <2>5. CASE n \in seen
    BY <1>2, <2>2, <2>3, <2>5, KeptStep DEF InHand, Live
  <2> QED BY <2>1, <2>4, <2>5
<1>4. ASSUME NEW c \in Cluster, DelayPassed(c) PROVE Kept(n)'
  <2>1. /\ \A d : Queued(d) => Queued(d)'
        /\ Queued(c)' \/ InHand(c)'
    BY <1>1, <1>4, QueueAddKeeps DEF DelayPassed
  <2>2. /\ delayed' = delayed \ {c}
        /\ UNCHANGED <<workerVars, childVars, seen>>
    BY <1>4 DEF DelayPassed
  <2> QED BY <1>2, <2>1, <2>2, KeptStep DEF InHand, Live
<1>5. CASE ForgetRemoved
  <2>1. PICK c \in removing : QueueDone(c) /\ seen' = seen \ {NameOf[c]}
    BY <1>5 DEF ForgetRemoved
  <2>2. \A d : Queued(d) => Queued(d)'
    BY <2>1, QueueDoneKeeps DEF MainTypeOK
  <2>3. n \in seen /\ UNCHANGED <<delayed, workerVars, childVars>>
    BY <1>5, <2>1 DEF ForgetRemoved, QueueDone
  <2> QED BY <1>2, <2>2, <2>3, KeptStep DEF InHand, Live
<1>6. CASE UnwatchCancel
  <2>1. /\ n \in seen /\ n # NameOf[cluster[victim]]
        /\ UNCHANGED <<queueVars, workerVars, cluster, phase>>
        /\ \A k \in Child \ {victim} : cancelled'[k] = cancelled[k]
    BY <1>6 DEF UnwatchCancel, MainInv, ChildTypeOK
  <2>2. \A k \in Child : Live(k) /\ NameOf[cluster[k]] = n => Live(k)'
    BY <2>1 DEF Live
  <2> QED BY <1>2, <2>1, <2>2, KeptStep DEF InHand, Queued
<1>7. CASE WorkerGet
  <2>1. PICK h \in Cluster : h = Head(queue) /\ InHand(h)'
    BY <1>7 DEF WorkerGet, QueueTypeOK, InHand
  <2>2. \A d : Queued(d) => d = h \/ Queued(d)'
    BY <1>7, <2>1, TailQueued DEF WorkerGet, Queued, QueueTypeOK
  <2>3. /\ n \in seen /\ UNCHANGED <<delayed, childVars>>
        /\ \A c \in Cluster : ~InHand(c)
    BY <1>7 DEF WorkerGet, InHand
  <2> QED BY <1>2, <2>1, <2>2, <2>3, KeptStep DEF Live
<1>8. CASE WorkerDone
  <2>1. workerCluster \in Cluster /\ QueueDone(workerCluster)
    BY <1>8 DEF WorkerDone, WorkerInv
  <2>2. \A d : Queued(d) => Queued(d)'
    BY <2>1, QueueDoneKeeps
  <2>3. /\ n \in seen /\ UNCHANGED <<delayed, childVars>>
        /\ \A c \in Cluster : InHand(c) => InHand(c)'
    BY <1>8, <2>1 DEF WorkerDone, QueueDone, InHand
  <2> QED BY <1>2, <2>2, <2>3, KeptStep DEF Live
<1>9. CASE WatchRecord
  <2>1. PICK k \in Child :
            /\ phase[k] = "unused"
            /\ cluster' = [cluster EXCEPT ![k] = workerCluster]
            /\ phase' = [phase EXCEPT ![k] = "preparing"]
    BY <1>9 DEF WatchRecord
  <2>2. n \in seen /\ UNCHANGED <<queueVars, cancelled>>
    BY <1>9 DEF WatchRecord
  <2>3. Live(k)' /\ cluster'[k] = workerCluster
    BY <2>1, <2>2 DEF Live, ChildInv, ChildTypeOK
  <2>4. \A j \in Child : Live(j) => cluster'[j] = cluster[j] /\ Live(j)'
    BY <2>1, <2>2 DEF Live, ChildTypeOK
  <2>5. \A j \in Child : phase[j] = "requeue" =>
            cluster'[j] = cluster[j] /\ phase'[j] = "requeue"
    BY <2>1 DEF ChildTypeOK
  <2> QED BY <1>2, <2>2, <2>3, <2>4, <2>5, KeptStep DEF InHand, Queued
<1>10. CASE WatchFail
  <2>1. /\ workerChild \in Child /\ cluster[workerChild] = workerCluster
        /\ phase[workerChild] = "preparing" /\ workerCluster \in Cluster
    BY <1>10 DEF WatchFail, WorkerInv
  <2>2. /\ n \in seen /\ UNCHANGED <<queueVars, cluster, cancelled>>
        /\ \A j \in Child \ {workerChild} : phase'[j] = phase[j]
        /\ \A c \in Cluster : ~InHand(c)
        /\ \A c \in Cluster : c = workerCluster => InHand(c)'
    BY <1>10 DEF WatchFail, ChildTypeOK, InHand
  <2> QED BY <1>2, <2>1, <2>2, KeptStep DEF Live, Queued
<1>11. CASE WorkerRetry
  <2>1. /\ delayed' = delayed \cup {workerCluster}
        /\ n \in seen /\ UNCHANGED <<queue, childVars>>
    BY <1>1, <1>11 DEF WorkerRetry, QueueAddRateLimited
  <2>2. \A c \in Cluster : InHand(c) => c \in delayed'
    BY <2>1 DEF InHand
  <2> QED BY <1>2, <2>1, <2>2, KeptStep DEF Live, Queued
<1>12. ASSUME NEW k \in Child, MarkStarted(k) \/ StarterFails(k) \/ StarterStops(k)
       PROVE  Kept(n)'
  <2>1. /\ n \in seen /\ UNCHANGED <<queueVars, workerVars, cluster, cancelled>>
        /\ cluster[k] \in Cluster
        /\ \A j \in Child \ {k} : phase'[j] = phase[j]
        /\ phase[k] \in {"spawned", "running"}
        /\ phase'[k] \in {"running", "requeue"} \/ cancelled[k]
    BY <1>12 DEF MarkStarted, StarterFails, StarterStops, ChildInv, ChildTypeOK
  <2>2. \A j \in Child : Live(j) => Live(j)' \/ phase'[j] = "requeue"
    BY <2>1 DEF Live
  <2>3. \A j \in Child : Live(j) => cluster[j] \in Cluster
    BY DEF Live, ChildInv
  <2> QED BY <1>2, <2>1, <2>2, <2>3, KeptStep DEF InHand, Queued
<1>13. ASSUME NEW k \in Child, Requeue(k) PROVE Kept(n)'
  <2>1. /\ n \in seen /\ UNCHANGED <<queue, workerVars, cluster, cancelled>>
        /\ phase[k] = "requeue"
        /\ \A j \in Child \ {k} : phase'[j] = phase[j]
        /\ delayed' = delayed \cup {cluster[k]}
    BY <1>1, <1>13 DEF Requeue, QueueAddRateLimited, ChildTypeOK
  <2>2. \A j \in Child : Live(j) => Live(j)'
    BY <2>1 DEF Live
  <2> QED BY <1>2, <2>1, <2>2, KeptStep DEF InHand, Queued
<1>14. CASE WatchSpawn
  <2>1. /\ n \in seen /\ UNCHANGED <<queueVars, cluster, cancelled>>
        /\ workerChild \in Child /\ phase[workerChild] = "preparing"
        /\ phase' = [phase EXCEPT ![workerChild] = "spawned"]
        /\ \A c \in Cluster : ~InHand(c)
    BY <1>14 DEF WatchSpawn, WorkerInv, InHand
  <2>2. \A j \in Child : Live(j) => Live(j)'
    BY <2>1 DEF Live, ChildTypeOK
  <2>3. \A j \in Child : phase[j] = "requeue" => phase'[j] = "requeue"
    BY <2>1 DEF ChildTypeOK
  <2> QED BY <1>2, <2>1, <2>2, <2>3, KeptStep DEF Queued
<1>15. CASE WatchCancel
  <2>1. /\ n \in seen /\ UNCHANGED <<queueVars, cluster, phase>>
        /\ phase[workerChild] = "exited"
        /\ \A j \in Child \ {workerChild} : cancelled'[j] = cancelled[j]
        /\ \A c \in Cluster : InHand(c) => InHand(c)'
    BY <1>15 DEF WatchCancel, WorkerInv, ChildTypeOK, InHand
  <2>2. \A j \in Child : Live(j) => Live(j)'
    BY <2>1 DEF Live
  <2> QED BY <1>2, <2>1, <2>2, KeptStep DEF Queued
<1>16. ASSUME UNCHANGED <<queue, delayed, cluster, phase, cancelled, seen>>,
              \A c \in Cluster : InHand(c) => InHand(c)'
       PROVE  Kept(n)'
  BY <1>2, <1>16, KeptStep DEF Queued, Live
<1>17. CASE MainStep
  BY <1>3, <1>5, <1>6, <1>16, <1>17
  DEF MainStep, Subscribe, GetClusters, ReceiveUpdate, StartWorker, Unwatch, StopHook, InHand, MainInv
<1>18. CASE WorkerStep
  BY <1>7, <1>8, <1>9, <1>10, <1>11, <1>14, <1>15, <1>16, <1>18
  DEF WorkerStep, WorkerExit, WatchEmptyName, InHand
<1>19. ASSUME NEW k \in Child, ChildStep(k) PROVE Kept(n)'
  BY <1>12, <1>13, <1>16, <1>19 DEF ChildStep, GoroutineStep, StoreObjects, InHand
<1>20. CASE Poll \/ Stop \/ UNCHANGED vars
  BY <1>16, <1>20 DEF Poll, Stop, vars, InHand
<1> QED BY <1>4, <1>17, <1>18, <1>19, <1>20 DEF Next

-----------------------------------------------------------------------------
\* The invariant is inductive.
THEOREM Invariance == Spec => []IInv
<1>1. IInv /\ [Next]_vars => IInv'
  BY NextTypeOK, QueueInvStep, MainInvStep, WorkerInvStep, ChildInvStep,
     CancelledStep, NeverForgottenStep DEF IInv
<1> QED BY InitIInv, <1>1, PTL DEF Spec

\* Every variable of the collector keeps its type.
THEOREM TypeCorrect == Spec => []TypeOK
<1>1. IInv => TypeOK
  BY DEF IInv
<1> QED BY Invariance, <1>1, PTL

\* A cluster Start has been told of is watched, or its (re)try is pending.
THEOREM NoClusterForgotten == Spec => []NeverForgotten
<1>1. IInv => NeverForgotten
  BY DEF IInv
<1> QED BY Invariance, <1>1, PTL

\* Status reports on a cancelled record only when its watch has failed.
THEOREM StatusOfCancelled == Spec => []CancelledRecordHasFailed
<1>1. IInv => CancelledRecordHasFailed
  BY DEF IInv
<1> QED BY Invariance, <1>1, PTL

-----------------------------------------------------------------------------
(* Who is cancelled, and who no longer can be.                             *)

\* The steps that cancel a record are those of unwatch and of a failed watch.
LEMMA StepCancels ==
    ASSUME IInv, [Next]_vars, NEW k \in Child, cancelled'[k], ~cancelled[k]
    PROVE  \/ UnwatchCancel /\ k = victim
           \/ WatchCancel /\ k = workerChild
<1> USE DEF IInv, TypeOK, ChildTypeOK, managerVars, mainVars, queueVars, workerVars,
            childVars
<1>1. CASE UnwatchCancel
  BY <1>1 DEF UnwatchCancel
<1>2. CASE WatchCancel
  BY <1>2 DEF WatchCancel
<1>3. CASE ~(UnwatchCancel \/ WatchCancel)
  <2>1. UNCHANGED cancelled
    BY <1>3
    DEF Next, MainStep, Subscribe, GetClusters, AddCluster, StartWorker, ReceiveUpdate,
        ForgetRemoved, Unwatch, StopHook, Poll, Stop, WorkerStep, WorkerGet, WorkerExit,
        WorkerDone, WatchEmptyName, WatchRecord, WatchSpawn, WatchFail, WorkerRetry,
        DelayPassed, ChildStep, GoroutineStep, MarkStarted, StoreObjects, StarterFails,
        Requeue, StarterStops, vars
  <2> QED BY <2>1
<1> QED BY <1>1, <1>2, <1>3

\* No watcher is cancelled for another cluster's sake, nor for a removal that a
\* later update has taken back (unwatch, watch).
THEOREM CancelledForAReason == Spec => CancelsOnlyRemoved
<1>1. ASSUME IInv, [Next]_vars, NEW k \in Child, cancelled'[k], ~cancelled[k]
      PROVE  \/ NameOf[cluster[k]] \notin seen
             \/ status[k] = "failed" /\ phase[k] = "exited"
  BY <1>1, StepCancels DEF IInv, MainInv, WorkerInv, UnwatchCancel, WatchCancel
<1>2. IInv /\ [Next]_vars =>
        [\A k \in Child : cancelled'[k] /\ ~cancelled[k] =>
            \/ NameOf[cluster[k]] \notin seen
            \/ status[k] = "failed" /\ phase[k] = "exited"]_vars
  BY <1>1
<1> QED BY <1>2, Invariance, PTL DEF Spec, CancelsOnlyRemoved

\* Only the worker puts records in the map, and each of them once.
LEMMA StepFiles ==
    ASSUME IInv, [Next]_vars, NEW k \in Child, phase[k] # "unused",
           \A n \in Name : watchers[n] # k
    PROVE  \A n \in Name : watchers'[n] # k
<1> USE DEF IInv, TypeOK, ChildTypeOK, managerVars, mainVars, queueVars, workerVars,
            childVars
<1>1. CASE WatchRecord
  BY <1>1 DEF WatchRecord
<1>2. CASE Unwatch
  BY <1>2, NoChildNotChild DEF Unwatch
<1>3. ASSUME NEW j \in Child, StarterStops(j)
      PROVE  \A n \in Name : watchers'[n] # k
  BY <1>3, NoChildNotChild DEF StarterStops
<1>4. CASE UNCHANGED watchers
  BY <1>4
<1> QED
  BY <1>1, <1>2, <1>3, <1>4
  DEF Next, MainStep, Subscribe, GetClusters, AddCluster, StartWorker, ReceiveUpdate,
      ForgetRemoved, UnwatchCancel, StopHook, Poll, Stop, WorkerStep, WorkerGet,
      WorkerExit, WorkerDone, WatchEmptyName, WatchSpawn, WatchFail, WatchCancel,
      WorkerRetry, DelayPassed, ChildStep, GoroutineStep, MarkStarted, StoreObjects,
      StarterFails, Requeue, vars

\* A running watcher that has not been cancelled goes on, or has failed.
LEMMA StepRuns ==
    ASSUME IInv, [Next]_vars, NEW k \in Child, phase[k] \in {"spawned", "running"},
           ~cancelled[k]
    PROVE  phase'[k] \in {"spawned", "running", "requeue"}
<1> USE DEF IInv, TypeOK, ChildTypeOK, managerVars, mainVars, queueVars, workerVars,
            childVars
<1>1. CASE WatchRecord
  BY <1>1 DEF WatchRecord
<1>2. CASE WatchSpawn \/ WatchFail
  BY <1>2 DEF WatchSpawn, WatchFail, WorkerInv
<1>3. ASSUME NEW j \in Child, ChildStep(j)
      PROVE  phase'[k] \in {"spawned", "running", "requeue"}
  BY <1>3 DEF ChildStep, GoroutineStep, MarkStarted, StoreObjects, StarterFails,
              Requeue, StarterStops
<1>4. CASE UNCHANGED phase
  BY <1>4
<1> QED
  BY <1>1, <1>2, <1>3, <1>4
  DEF Next, MainStep, Subscribe, GetClusters, AddCluster, StartWorker, ReceiveUpdate,
      ForgetRemoved, Unwatch, UnwatchCancel, StopHook, Poll, Stop, WorkerStep, WorkerGet,
      WorkerExit, WorkerDone, WatchEmptyName, WatchCancel, WorkerRetry, DelayPassed, vars

\* What unwatch is about to cancel is what it has just taken out of the map.
LEMMA StepPicks ==
    ASSUME IInv, [Next]_vars, mainPc' = "cancel"
    PROVE  \/ mainPc = "cancel" /\ victim' = victim
           \/ \E n \in Name : victim' = watchers[n]
<1> USE DEF IInv, TypeOK, managerVars, mainVars, queueVars, workerVars, childVars
<1>1. CASE Unwatch
  <2>1. NameOf[current] \in Name
    BY <1>1, CollectorAssumption DEF Unwatch, MainInv, CollectorAssumption
  <2> QED BY <1>1, <2>1 DEF Unwatch
<1>2. CASE ~Unwatch
  BY <1>2
  DEF Next, MainStep, Subscribe, GetClusters, AddCluster, StartWorker, ReceiveUpdate,
      ForgetRemoved, UnwatchCancel, StopHook, Poll, Stop, WorkerStep, WorkerGet,
      WorkerExit, WorkerDone, WatchEmptyName, WatchRecord, WatchSpawn, WatchFail,
      WatchCancel, WorkerRetry, DelayPassed, ChildStep, GoroutineStep, MarkStarted,
      StoreObjects, StarterFails, Requeue, StarterStops, vars
<1> QED BY <1>1, <1>2

\* A watcher that has lost its place in the map can no longer be reached: it is
\* never cancelled or reported, and ends only when its Starter fails.
THEOREM StraysRunOn == Spec => StraysStay
<1>1. ASSUME IInv, [Next]_vars, NEW k \in Child, Stray(k)
      PROVE  Stray(k)' \/ phase'[k] = "requeue"
  <2>1. phase'[k] \in {"spawned", "running", "requeue"}
    BY <1>1, StepRuns DEF Stray
  <2>2. \A n \in Name : watchers'[n] # k
    BY <1>1, StepFiles DEF Stray
  <2>3. ~cancelled'[k]
    <3>1. ~(UnwatchCancel /\ k = victim)
      BY <1>1 DEF Stray, UnwatchCancel
    <3>2. ~(WatchCancel /\ k = workerChild)
      BY <1>1 DEF Stray, WatchCancel, IInv, WorkerInv
    <3> QED BY <1>1, <3>1, <3>2, StepCancels DEF Stray
  <2>4. mainPc' = "cancel" => victim' # k
    BY <1>1, StepPicks DEF Stray
  <2> QED BY <2>1, <2>2, <2>3, <2>4 DEF Stray
<1>2. IInv /\ [Next]_vars =>
        [\A k \in Child : Stray(k) => Stray(k)' \/ phase'[k] = "requeue"]_vars
  BY <1>1
<1> QED BY <1>2, Invariance, PTL DEF Spec, StraysStay
=============================================================================
