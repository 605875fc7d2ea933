-------------------------------- MODULE Query --------------------------------
(***************************************************************************)
(* Who is shown what by the Explorer.  Its processes are                   *)
(*   - the goroutine of pkg/query/rolecollector, which writes the roles    *)
(*     and bindings of the clusters into the store;                        *)
(*   - the stop hook of a role watcher, in the goroutine of the collector; *)
(*   - RunQuery of pkg/query/query.go, which reads roles and bindings,     *)
(*     searches, and asks pkg/query/rbac about each hit.                   *)
(* Every statement the store runs is a step: a role is written as "delete  *)
(* its rules" and "insert the role and its rules", and read as "select the *)
(* roles" and "select their rules"; bindings and their subjects likewise.  *)
(* How a change in a cluster becomes a transaction is in module Objects;   *)
(* here the reconciler reads what it reads when the consumer receives it.  *)
(***************************************************************************)
EXTENDS Naturals, Sequences, FiniteSets, SequencesExt

CONSTANTS
    Role,         \* records: cluster, namespace, kind, name
    Binding,      \* these, and roleKind, roleName
    Object,       \* records: cluster, namespace, kind, name
    NoNamespace,  \* the namespace of cluster roles and their bindings
    Users,        \* subjects of bindings
    Limits,       \* limits of queries, 0 for none
    MaxEvents,    \* bound on what happens to the clusters and fails, together
    MaxQueries    \* bound on queries

Entity == Role \cup Binding
Cluster == {e.cluster : e \in Entity \cup Object}
Kinds == {o.kind : o \in Object}

ASSUME QueryAssumption ==
    /\ IsFiniteSet(Role) /\ IsFiniteSet(Object)
    /\ \A r \in Role :
        /\ r.kind \in {"Role", "ClusterRole"}
        /\ r.kind = "ClusterRole" <=> r.namespace = NoNamespace
    /\ \A r, s \in Role :
        r.cluster = s.cluster /\ r.namespace = s.namespace /\ r.name = s.name => r = s
    /\ \A b \in Binding :
        /\ b.kind \in {"RoleBinding", "ClusterRoleBinding"}
        /\ b.roleKind \in {"Role", "ClusterRole"}
    /\ \A b \in Binding :
        IF b.kind = "ClusterRoleBinding" THEN b.roleKind = "ClusterRole"
                                         ELSE b.namespace # NoNamespace
    /\ \A b, d \in Binding :
        /\ b.cluster = d.cluster /\ b.namespace = d.namespace
        /\ b.kind = d.kind /\ b.name = d.name
        => b = d
    /\ Role \cap Binding = {}
    /\ Limits \subseteq Nat
    /\ {MaxEvents, MaxQueries} \subseteq Nat

VARIABLES
    \* the clusters
    there,        \* roles and bindings that exist
    content,      \* the kinds a role permits to list, the subjects of a binding
    changes,
    \* the role watchers
    watched,      \* clusters that have one
    pending,      \* roles and bindings their controllers have yet to reconcile
    unwatches,
    \* processRecords
    consumerPc,
    batch,        \* the role or binding in hand, with its content
    leaving,      \* the cluster whose stop hook runs
    hookPc,
    \* the store
    rows,         \* ids in the tables of roles and bindings
    parts,        \* policy rules by role_id, subjects by role_binding_id
    failures,
    \* RunQuery
    queryPc, queries,
    user, limit,
    roles, rules, bindings, subjects,   \* what it has read
    found,        \* hits whose rows it could read
    hits,         \* hits it has yet to look at
    memo,         \* one clusterRBACGetLister per cluster
    todo,         \* bindings whose role it has yet to look up for the hit
    allowed, erred,
    result,
    \* history of the current query
    offered,      \* what each row has had from its first to its last reading
    quiet         \* the store has not changed since

clusterVars  == <<there, content, changes>>
watcherVars  == <<watched, pending, unwatches>>
consumerVars == <<consumerPc, batch>>
hookVars     == <<hookPc, leaving>>
storeVars    == <<rows, parts>>
readVars     == <<roles, rules, bindings, subjects>>
checkVars    == <<found, hits, memo, todo, allowed, erred, result>>
requestVars  == <<queries, user, limit>>
historyVars  == <<offered, quiet>>
queryVars    == <<queryPc, readVars, checkVars, requestVars>>

vars == <<clusterVars, watcherVars, consumerVars, hookVars, storeVars,
          failures, queryVars, historyVars>>

Atoms(e) == IF e \in Role THEN Kinds ELSE Users

\* What tells the roles of a cluster apart.
Key(r) == <<r.namespace, r.name>>

Keys == {<<n, m>> : n \in {e.namespace : e \in Entity \cup Object} \cup {NoNamespace},
                    m \in {r.name : r \in Role} \cup {b.roleName : b \in Binding}}

MemoOK(m) ==
    /\ DOMAIN m.filed \subseteq Keys /\ \A k \in DOMAIN m.filed : m.filed[k] \in Nat
    /\ m.next \in Nat

TypeOK ==
    /\ there \subseteq Entity
    /\ \A e \in Entity : content[e] \subseteq Atoms(e) /\ parts[e] \subseteq Atoms(e)
    /\ watched \subseteq Cluster /\ pending \subseteq Entity
    /\ consumerPc \in {"receive", "clear", "store", "delete"}
    /\ batch \subseteq [entity : Entity, content : SUBSET (Kinds \cup Users)]
    /\ hookPc \in {"idle", "roles", "bindings"} /\ leaving \subseteq Cluster
    /\ rows \subseteq Entity
    /\ {changes, unwatches, failures} \subseteq Nat
    /\ changes + unwatches + failures <= MaxEvents /\ queries \in 0 .. MaxQueries
    /\ queryPc \in {"idle", "roles", "rules", "bindings", "subjects", "search",
                    "hits", "lookups", "done"}
    /\ user \in Users /\ limit \in Limits
    /\ roles \in Seq(Role) /\ bindings \subseteq Binding
    /\ rules \in [Role -> SUBSET Kinds] /\ subjects \in [Binding -> SUBSET Users]
    /\ found \subseteq Object /\ hits \in Seq(Object)
    /\ \A c \in Cluster : MemoOK(memo[c])
    /\ todo \subseteq Binding /\ allowed \in BOOLEAN /\ erred \in BOOLEAN
    /\ result \in Seq(Object)
    /\ offered \in [Entity -> SUBSET (Kinds \cup Users)] /\ quiet \in BOOLEAN

Nothing(S) == [e \in S |-> {}]

NewLister == [filed |-> <<>>, next |-> 1]

\* The watchers have just been started on clusters with any roles and bindings.
Init ==
    /\ there \in SUBSET Entity /\ changes = 0
    /\ content \in {f \in [Entity -> SUBSET (Kinds \cup Users)] :
                        \A e \in Entity : /\ f[e] \subseteq Atoms(e)
                                          /\ e \notin there => f[e] = {}}
    /\ watched = Cluster /\ pending = there /\ unwatches = 0
    /\ consumerPc = "receive" /\ batch = {}
    /\ hookPc = "idle" /\ leaving = {}
    /\ rows = {} /\ parts = Nothing(Entity) /\ failures = 0
    /\ queryPc = "idle" /\ queries = 0 /\ user \in Users /\ limit \in Limits
    /\ roles = <<>> /\ bindings = {}
    /\ rules = Nothing(Role) /\ subjects = Nothing(Binding)
    /\ found = {} /\ hits = <<>> /\ todo = {} /\ result = <<>>
    /\ memo = [c \in Cluster |-> NewLister]
    /\ allowed = FALSE /\ erred = FALSE
    /\ offered = Nothing(Entity) /\ quiet = TRUE

\* Changes, removed clusters and failing calls are bounded together.
MayHappen == changes + unwatches + failures < MaxEvents

Failure == MayHappen /\ failures' = failures + 1

-----------------------------------------------------------------------------
(* The clusters and the watchers.                                          *)

\* A role or binding is created, changed or deleted.
Change(e) ==
    /\ MayHappen /\ changes' = changes + 1
    /\ \/ /\ there' = there \cup {e}
          /\ \E s \in SUBSET Atoms(e) :
                /\ e \in there => s # content[e]
                /\ content' = [content EXCEPT ![e] = s]
       \/ /\ e \in there /\ there' = there \ {e}
          /\ content' = [content EXCEPT ![e] = {}]
    /\ pending' = IF e.cluster \in watched THEN pending \cup {e} ELSE pending
    /\ UNCHANGED <<watched, unwatches, consumerVars, hookVars, storeVars,
                   failures, queryVars, historyVars>>

\* A cluster is watched when nothing of its last watcher and of its stop hook
\* is left; the informers list what there is.
Watch(c) ==
    /\ c \notin watched \cup leaving
    /\ \A t \in batch : t.entity.cluster # c
    /\ watched' = watched \cup {c}
    /\ pending' = pending \cup {e \in there : e.cluster = c}
    /\ UNCHANGED <<clusterVars, unwatches, consumerVars, hookVars, storeVars,
                   failures, queryVars, historyVars>>

Unwatch(c) ==
    /\ c \in watched /\ hookPc = "idle"
    /\ MayHappen /\ unwatches' = unwatches + 1
    /\ watched' = watched \ {c}
    /\ pending' = {e \in pending : e.cluster # c}
    /\ hookPc' = "roles" /\ leaving' = {c}
    /\ UNCHANGED <<clusterVars, consumerVars, storeVars, failures, queryVars,
                   historyVars>>

-----------------------------------------------------------------------------
(* processRecords, of one role or binding.  An error at any step ends it.  *)

Reading == queryPc \in {"roles", "rules", "bindings", "subjects"}

\* What a query may come to read of the store, as long as it is reading.
Observe ==
    /\ offered' = IF Reading
                  THEN [e \in Entity |->
                           offered[e] \cup IF e \in rows' THEN parts'[e] ELSE {}]
                  ELSE offered
    /\ quiet' = (quiet /\ (queryPc # "idle" => rows' = rows /\ parts' = parts))

\* A role without rules is skipped; bindings without subjects are not.
Skipped(e) == e \in Role /\ content[e] = {}

Receive(e) ==
    /\ consumerPc = "receive" /\ e \in pending
    /\ pending' = pending \ {e}
    /\ IF e \in there /\ Skipped(e)
       THEN UNCHANGED <<consumerPc, batch>>
       ELSE /\ batch' = {[entity |-> e, content |-> content[e]]}
            /\ consumerPc' = IF e \in there THEN "clear" ELSE "delete"
    /\ UNCHANGED <<clusterVars, watched, unwatches, hookVars, storeVars,
                   failures, queryVars, historyVars>>

Done == consumerPc' = "receive" /\ batch' = {}

\* Mutant: the old rules stay, and the new ones are added.
KeepParts(e) == UNCHANGED parts

ClearParts(e) == parts' = [parts EXCEPT ![e] = {}]

\* StoreRoles and StoreRoleBindings: delete the rules or subjects there are ...
Clear ==
    /\ consumerPc = "clear"
    /\ \/ /\ \E t \in batch : ClearParts(t.entity)
          /\ consumerPc' = "store"
          /\ UNCHANGED <<batch, failures>>
       \/ Failure /\ Done /\ UNCHANGED parts
    /\ UNCHANGED rows
    /\ Observe
    /\ UNCHANGED <<clusterVars, watcherVars, hookVars, queryVars>>

\* ... and insert the row and the new ones, in one transaction of gorm.
Store ==
    /\ consumerPc = "store"
    /\ \/ /\ \E t \in batch :
                /\ rows' = rows \cup {t.entity}
                /\ parts' = [parts EXCEPT ![t.entity] = @ \cup t.content]
          /\ UNCHANGED failures
       \/ Failure /\ UNCHANGED storeVars
    /\ Done
    /\ Observe
    /\ UNCHANGED <<clusterVars, watcherVars, hookVars, queryVars>>

\* DeleteRoles and DeleteRoleBindings leave the rules and subjects.
Delete ==
    /\ consumerPc = "delete"
    /\ \/ \E t \in batch : rows' = rows \ {t.entity} /\ UNCHANGED failures
       \/ Failure /\ UNCHANGED rows
    /\ Done
    /\ UNCHANGED parts
    /\ Observe
    /\ UNCHANGED <<clusterVars, watcherVars, hookVars, queryVars>>

Leaving(E) == {e \in E : e.cluster \in leaving}

\* The stop hook: DeleteAllRoles, then DeleteAllRoleBindings.
DeleteAll ==
    /\ \/ /\ hookPc = "roles" /\ rows' = rows \ Leaving(Role)
          /\ hookPc' = "bindings" /\ UNCHANGED <<leaving, failures>>
       \/ /\ hookPc = "bindings" /\ rows' = rows \ Leaving(Binding)
          /\ hookPc' = "idle" /\ leaving' = {} /\ UNCHANGED failures
       \/ /\ hookPc # "idle" /\ Failure /\ UNCHANGED rows
          /\ hookPc' = "idle" /\ leaving' = {}
    /\ UNCHANGED parts
    /\ Observe
    /\ UNCHANGED <<clusterVars, watcherVars, consumerVars, queryVars>>

-----------------------------------------------------------------------------
(* RunQuery: reading.                                                      *)

queryFrame == <<clusterVars, watcherVars, consumerVars, hookVars, storeVars>>

Begin ==
    /\ queryPc \in {"idle", "done"}
    /\ queries < MaxQueries /\ queries' = queries + 1
    /\ user' \in Users /\ limit' \in Limits
    /\ queryPc' = "roles"
    /\ found' = {} /\ result' = <<>>
    /\ offered' = [e \in Entity |-> IF e \in rows THEN parts[e] ELSE {}]
    /\ quiet' = TRUE
    /\ UNCHANGED <<queryFrame, failures, readVars, hits, memo, todo, allowed,
                   erred>>

\* GetRoles, and the rules it preloads; rows come in any order.  The
\* order matters for the roles; for bindings it is chosen in Consult.
ReadRoles ==
    /\ queryPc = "roles" /\ queryPc' = "rules"
    /\ roles' \in SetToSeqs(rows \cap Role)
    /\ UNCHANGED <<queryFrame, failures, rules, bindings, subjects, checkVars,
                   requestVars, historyVars>>

ReadRules ==
    /\ queryPc = "rules" /\ queryPc' = "bindings"
    /\ rules' = [r \in Role |-> IF Contains(roles, r) THEN parts[r] ELSE {}]
    /\ UNCHANGED <<queryFrame, failures, roles, bindings, subjects, checkVars,
                   requestVars, historyVars>>

\* GetRoleBindings, and the subjects it preloads.
ReadBindings ==
    /\ queryPc = "bindings" /\ queryPc' = "subjects"
    /\ bindings' = rows \cap Binding
    /\ UNCHANGED <<queryFrame, failures, roles, rules, subjects, checkVars,
                   requestVars, historyVars>>

ReadSubjects ==
    /\ queryPc = "subjects" /\ queryPc' = "search"
    /\ subjects' = [b \in Binding |-> IF b \in bindings THEN parts[b] ELSE {}]
    /\ UNCHANGED <<queryFrame, failures, roles, rules, bindings, checkVars,
                   requestVars, historyVars>>

\* The variables of RunQuery go out of scope.
Forget ==
    /\ roles' = <<>> /\ bindings' = {}
    /\ rules' = Nothing(Role) /\ subjects' = Nothing(Binding)

\* A call that fails ends the query with an error.
QueryFails ==
    /\ queryPc \in {"roles", "rules", "bindings", "subjects", "search"}
    /\ Failure
    /\ queryPc' = "idle"
    /\ Forget
    /\ offered' = Nothing(Entity) /\ quiet' = TRUE
    /\ UNCHANGED <<queryFrame, checkVars, requestVars>>

\* The hits, each object once; and a new, empty lister for every cluster.
Search ==
    /\ queryPc = "search" /\ queryPc' = "hits"
    /\ \E S \in SUBSET Object : hits' \in SetToSeqs(S)
    /\ memo' = [c \in Cluster |-> NewLister]
    /\ UNCHANGED <<queryFrame, failures, readVars, found, todo, allowed, erred,
                   result, requestVars, historyVars>>

-----------------------------------------------------------------------------
(* RunQuery: asking about each hit.                                        *)

\* ListClusterRoleBindings and ListRoleBindings, after sortRoleBindings.
InScope(b, o) ==
    /\ b.cluster = o.cluster
    /\ b.kind = "ClusterRoleBinding" \/ b.namespace = o.namespace

Applies(b, o) == InScope(b, o) /\ user \in subjects[b]

LimitReached == limit > 0 /\ Len(result) = limit

\* Mutant: only the bindings that need no namespace.
ClusterBindings(o) ==
    {b \in bindings : Applies(b, o) /\ b.kind = "ClusterRoleBinding"}

Applicable(o) == {b \in bindings : Applies(b, o)}

\* iter.Row: when the row cannot be read the hit is dropped.
NextHit ==
    /\ queryPc = "hits" /\ hits # <<>> /\ ~LimitReached
    /\ \/ /\ queryPc' = "lookups"
          /\ found' = found \cup {Head(hits)}
          /\ todo' = Applicable(Head(hits))
          /\ UNCHANGED <<hits, failures>>
       \/ /\ Failure
          /\ hits' = Tail(hits)
          /\ UNCHANGED <<queryPc, found, todo>>
    /\ allowed' = FALSE /\ erred' = FALSE
    /\ UNCHANGED <<queryFrame, readVars, memo, result, requestVars, historyVars>>

\* What a binding refers to, for an object in its scope.
RefKey(b, o) == <<IF b.roleKind = "Role" THEN o.namespace ELSE NoNamespace, b.roleName>>

\* Mutant: the kind instead of the namespace.
FileByKind(r) == <<r.kind, r.name>>

\* Mutant: roles are filed like cluster roles.
FileByName(r) == <<NoNamespace, r.name>>

\* fileRole: "<name>" for cluster roles, "<namespace>/<name>" for roles.
FileKey(r) == <<r.namespace, r.name>>

\* GetRole and GetClusterRole of the lister m of cluster c: roles passed over
\* on the way to the one asked for are filed too, and 0 (-1) stands for none.
LookUp(m, c, k) ==
    LET IsIt(i) == roles[i].cluster = c /\ Key(roles[i]) = k
        rest == m.next .. Len(roles)
        last == IF \E i \in rest : IsIt(i) THEN CHOOSE i \in rest : IsIt(i) ELSE Len(roles)
        passed == {i \in m.next .. last : roles[i].cluster = c}
    IN  IF k \in DOMAIN m.filed
        THEN m
        ELSE [next |-> last + 1,
              filed |->
                [x \in DOMAIN m.filed \cup {FileKey(roles[i]) : i \in passed} \cup {k} |->
                    IF \E i \in passed : FileKey(roles[i]) = x
                    THEN CHOOSE i \in passed : FileKey(roles[i]) = x
                    ELSE IF x \in DOMAIN m.filed THEN m.filed[x] ELSE 0]]

\* The role of one binding; one that is not there makes the check an error.
\* RulesFor of Kubernetes goes through the cluster role bindings first.
Consult(b) ==
    /\ queryPc = "lookups" /\ b \in todo
    /\ b.kind = "RoleBinding" => \A d \in todo : d.kind = "RoleBinding"
    /\ LET o == Head(hits)
           k == RefKey(b, o)
           m == LookUp(memo[o.cluster], o.cluster, k)
           i == m.filed[k]
       IN /\ memo' = [memo EXCEPT ![o.cluster] = m]
          /\ erred' = (erred \/ i = 0)
          /\ allowed' = (allowed \/ (i # 0 /\ o.kind \in rules[roles[i]]))
    /\ todo' = todo \ {b}
    /\ UNCHANGED <<queryFrame, failures, queryPc, readVars, found, hits, result,
                   requestVars, historyVars>>

\* "if err != nil ... continue" comes before the answer is looked at.
Shown == allowed /\ ~erred

Decide ==
    /\ queryPc = "lookups" /\ todo = {}
    /\ queryPc' = "hits"
    /\ hits' = Tail(hits)
    /\ result' = IF Shown THEN Append(result, Head(hits)) ELSE result
    /\ UNCHANGED <<queryFrame, failures, readVars, found, memo, todo, allowed,
                   erred, requestVars, historyVars>>

Answer ==
    /\ queryPc = "hits" /\ (hits = <<>> \/ LimitReached)
    /\ queryPc' = "done"
    /\ Forget
    /\ hits' = <<>> /\ memo' = [c \in Cluster |-> NewLister]
    /\ allowed' = FALSE /\ erred' = FALSE
    /\ UNCHANGED <<queryFrame, failures, found, todo, result, requestVars,
                   historyVars>>

-----------------------------------------------------------------------------
CollectorStep == Clear \/ Store \/ Delete \/ DeleteAll \/ \E e \in Entity : Receive(e)

QueryStep ==
    \/ Begin \/ ReadRoles \/ ReadRules \/ ReadBindings \/ ReadSubjects
    \/ QueryFails \/ Search \/ NextHit \/ Decide \/ Answer
    \/ \E b \in Binding : Consult(b)

Next ==
    \/ \E e \in Entity : Change(e)
    \/ \E c \in Cluster : Watch(c) \/ Unwatch(c)
    \/ CollectorStep
    \/ QueryStep

Spec == Init /\ [][Next]_vars

-----------------------------------------------------------------------------
(* Properties.                                                             *)

\* The binding gives the role's rules over the object.
Gives(b, r, o) ==
    /\ b.cluster = o.cluster /\ r.cluster = o.cluster
    /\ b.kind = "ClusterRoleBinding" \/ b.namespace = o.namespace
    /\ r.kind = b.roleKind /\ r.name = b.roleName
    /\ r.kind = "Role" => r.namespace = o.namespace

\* A binding and a role that the store held while the query was reading.
Granted(o) ==
    \E b \in Binding, r \in Role :
        Gives(b, r, o) /\ user \in offered[b] /\ o.kind \in offered[r]

\* Nobody is shown an object without a binding and a role that the store held
\* at some moment of the query, and that between them permit it: not through
\* rules left behind by a deleted role, not through another cluster's binding,
\* and not through a role that only has the same name.
GrantedOnly == \A i \in DOMAIN result : Granted(result[i])

\* In the store as it is, the user may list o.
MayList(o) ==
    \E b \in Binding \cap rows, r \in Role \cap rows :
        Gives(b, r, o) /\ user \in parts[b] /\ o.kind \in parts[r]

\* A binding for the user, and for o, refers to a role that is not there.
Dangling(o) ==
    \E b \in Binding \cap rows :
        /\ InScope(b, o) /\ user \in parts[b]
        /\ \A r \in Role \cap rows : ~Gives(b, r, o)

Shows(o) == \E i \in DOMAIN result : result[i] = o

\* When nobody has written to the store since the query began, the answer is
\* exact: a hit is shown only if the user may list it in the store as it is and
\* no binding for the user dangles; and every such hit is shown, unless the
\* limit was reached before.
ShowsGranted ==
    queryPc = "done" /\ quiet =>
        /\ \A o \in Object : Shows(o) => o \in found /\ MayList(o) /\ ~Dangling(o)
        /\ ~LimitReached =>
              \A o \in found : MayList(o) /\ ~Dangling(o) => Shows(o)

\* The listers answer as a search through all the roles would, in whatever
\* order roles are read and asked for.
MemoRight ==
    \A c \in Cluster : \A k \in DOMAIN memo[c].filed :
        IF memo[c].filed[k] = 0
        THEN \A i \in DOMAIN roles : roles[i].cluster = c => Key(roles[i]) # k
        ELSE /\ memo[c].filed[k] \in DOMAIN roles
             /\ roles[memo[c].filed[k]].cluster = c
             /\ Key(roles[memo[c].filed[k]]) = k

\* Why: a lister has filed every role of its cluster before next, and says
\* that a role is not there only when it has passed over all of them.
ListerInv(m, c) ==
    /\ m.next \in Nat \ {0}
    /\ \A i \in DOMAIN roles :
          i < m.next /\ roles[i].cluster = c => Key(roles[i]) \in DOMAIN m.filed
    /\ \A k \in DOMAIN m.filed :
          IF m.filed[k] = 0
          THEN \A i \in DOMAIN roles : roles[i].cluster = c => Key(roles[i]) # k
          ELSE /\ m.filed[k] \in DOMAIN roles
               /\ roles[m.filed[k]].cluster = c
               /\ Key(roles[m.filed[k]]) = k

\* The roles a lister works on are not read again while it is in use.
MemoInv ==
    /\ roles \in Seq(Role)
    /\ memo = [c \in Cluster |-> memo[c]]
    /\ \A c \in Cluster : ListerInv(memo[c], c)
    /\ queryPc \notin {"hits", "lookups"} => \A c \in Cluster : memo[c] = NewLister

\* Why nobody is shown more: what a query reads was offered to it, from the
\* moment it has read the ids, although what it reads with them comes later.
OfferInv ==
    /\ offered = [e \in Entity |-> offered[e]]
    /\ parts = [e \in Entity |-> parts[e]]
    /\ bindings \subseteq Binding
    /\ Reading => \A e \in rows \cap Entity : parts[e] \subseteq offered[e]
    /\ queryPc = "rules" => \A i \in DOMAIN roles : parts[roles[i]] \subseteq offered[roles[i]]
    /\ queryPc = "subjects" => \A b \in bindings : parts[b] \subseteq offered[b]
    /\ \A r \in Role : rules[r] \subseteq offered[r]
    /\ \A b \in Binding : subjects[b] \subseteq offered[b]
    /\ queryPc \in {"idle", "done"} =>
          /\ \A r \in Role : rules[r] = {}
          /\ \A b \in Binding : subjects[b] = {}

\* What has been found out about the hit in hand.
HitInv ==
    /\ hits \in Seq(Object) /\ result \in Seq(Object)
    /\ queryPc = "lookups" =>
          /\ hits # <<>>
          /\ \A b \in todo : b \in Binding /\ Applies(b, Head(hits))
          /\ allowed => Granted(Head(hits))
    /\ queryPc \notin {"hits", "lookups", "done"} => result = <<>>

IInv == MemoInv /\ OfferInv /\ HitInv /\ GrantedOnly

\* Nothing is on its way to the store for e.
Settled(e) ==
    /\ e.cluster \in watched \ leaving /\ e \notin pending
    /\ \A t \in batch : t.entity # e

\* As long as nothing has failed, a role or binding for which nothing is under
\* way is in the store as it is in its cluster, other than a role without
\* rules; and if no cluster was ever removed it is not there once it is deleted.
StoreSettles ==
    \A e \in Entity : Settled(e) /\ failures = 0 =>
        /\ e \in there /\ ~Skipped(e) => e \in rows /\ parts[e] = content[e]
        /\ e \notin there /\ unwatches = 0 => e \notin rows
=============================================================================
