----------------------------- MODULE PullRequests -----------------------------
(***************************************************************************)
(* How the clusters service changes what runs: it writes no resource       *)
(* itself, it proposes files to the git repository that Flux follows.      *)
(*                                                                         *)
(*   - the handlers CreatePullRequest (a resource is created from a        *)
(*     template, or edited) and CreateDeletionPullRequest of               *)
(*     cmd/clusters-service/pkg/server, with the files they generate;      *)
(*   - the providers of pkg/git for GitHub and Bitbucket (which run the    *)
(*     same code) and GitLab: a branch, one or two commits, a pull         *)
(*     request, each a call that may fail with or without effect;          *)
(*   - external: the git server, the reviewer who merges or closes, the    *)
(*     clients, which may send a request that failed once more.            *)
(*                                                                         *)
(* A resource is what a template makes: the code calls it a cluster.       *)
(***************************************************************************)
EXTENDS Naturals, FiniteSets

CONSTANTS
    Request,        \* calls of the two handlers
    Named,          \* those for which the client names the branch
    Cluster,        \* namespaced names
    Name, NameOf,   \* their names without the namespace
    NoName,         \* the name of no cluster
    Kustomization, Profile,
    Value,          \* what can be asked for: a cluster, its kustomizations
                    \* and its profiles
    Common,         \* kustomization files that the template always adds
    Required,       \* profiles that the template always adds
    Provider,       \* kinds of git provider, of which one is used
    Absent, None,
    MaxFailures     \* bound on failing calls

AllValues == [cluster        : Cluster,
              kustomizations : SUBSET Kustomization,
              profiles       : SUBSET Profile]

\* Files of a cluster: the path of a file has the cluster in it.
Part == {"manifest", "profiles"} \cup Common \cup Kustomization
File == Cluster \X Part

Manifest(c) == <<c, "manifest">>

\* The branch of a request is the client's own, or the default: a hash of
\* the names of the clusters.
Head == Request \cup Name \cup {NoName}

\* What is proposed: values, or the deletion of a cluster; and for an edit
\* the values it replaces.
Proposal == [new : Value \cup {None}, old : Value \cup {None},
             cluster : Cluster]

ASSUME PullRequestsAssumption ==
    /\ Named \subseteq Request /\ NameOf \in [Cluster -> Name]
    /\ Value \subseteq AllValues
    /\ Absent \notin AllValues
    /\ None \notin Value /\ None \notin Request /\ None \notin [File -> AllValues \cup {Absent}]
    /\ None \notin [asked : Proposal, stale : BOOLEAN]
    /\ "manifest" \notin Common \cup Kustomization
    /\ "profiles" \notin Common \cup Kustomization
    /\ Common \cap Kustomization = {}
    /\ Required \subseteq Profile
    /\ MaxFailures \in Nat

VARIABLES
    provider,
    base,      \* the files of the base branch
    tree,      \* the files of the other branches, None where there is none
    root,      \* what each of them was made from
    open,      \* the pull request of a branch, with (observation) what was
               \* asked for and the changes that it was to propose
    pc,        \* where a call is
    asked,     \* what it asks for: the values, and what they replace
    head,      \* its branch
    changes,   \* the files it has generated
    found,     \* gitlab: those that are there already
    failures,
    outdated,  \* (observation) requests prepared from files that have changed
    overtaken, \* (observation) branches made for such a request
    spoiled    \* (observation) such a branch has been merged

gitVars  == <<base, tree, root, open>>
callVars == <<pc, asked, head, changes, found>>
obsVars  == <<outdated, overtaken, spoiled>>
vars == <<provider, gitVars, callVars, failures, obsVars>>

Contents == AllValues \cup {Absent}
Files    == [File -> Contents]

TypeOK ==
    /\ provider \in Provider
    /\ base \in Files
    /\ tree \in [Head -> Files \cup {None}]
    /\ root \in [Head -> Files \cup {None}]
    /\ \A h \in Head : open[h] # None => open[h].asked \in Proposal
    /\ pc \in [Request -> {"idle", "list", "branch", "tree", "clean", "commit",
                           "propose", "done", "failed"}]
    /\ asked \in [Request -> Proposal \cup {None}]
    /\ head \in [Request -> Head]
    /\ \A r \in Request : /\ DOMAIN changes[r] \subseteq File
                          /\ \A f \in File :
                               f \in DOMAIN changes[r] => changes[r][f] \in Contents
    /\ found \in [Request -> SUBSET File]
    /\ failures \in 0 .. MaxFailures
    /\ outdated \in SUBSET Request /\ overtaken \in SUBSET Head
    /\ spoiled \in BOOLEAN

Nothing == [f \in {} |-> Absent]

Init ==
    /\ provider \in Provider
    /\ base = [f \in File |-> Absent]
    /\ tree = [h \in Head |-> None] /\ root = [h \in Head |-> None]
    /\ open = [h \in Head |-> None]
    /\ pc = [r \in Request |-> "idle"]
    /\ asked = [r \in Request |-> None]
    /\ head = [r \in Request |-> NoName]
    /\ changes = [r \in Request |-> Nothing]
    /\ found = [r \in Request |-> {}]
    /\ failures = 0
    /\ outdated = {} /\ overtaken = {} /\ spoiled = FALSE

-----------------------------------------------------------------------------
(* The files of a request.                                                 *)

Rendered(v) == {Manifest(v.cluster)}

Kustomizations(v) == {v.cluster} \X (Common \cup v.kustomizations)

\* One file for the repository and all profiles, if there are any.
Profiles(v) ==
    IF v.profiles \cup Required = {} THEN {} ELSE {<<v.cluster, "profiles">>}

FilesOf(v) == Rendered(v) \cup Kustomizations(v) \cup Profiles(v)

\* The manifest is annotated with the whole request.
Generated(v, f) ==
    CASE f[2] = "manifest" -> v
      [] f[2] = "profiles" -> [v EXCEPT !.kustomizations = {}]
      [] OTHER -> [v EXCEPT !.profiles = {},
                            !.kustomizations = {f[2]} \cap Kustomization]

\* (mutant) Kustomizations that an edit removes are forgotten.
DeletedProfiles(old, new) ==
    (Profiles(old) \ Profiles(new)) \cup (Rendered(old) \ Rendered(new))

\* (mutant) An edit that moves a cluster leaves it where it was.
DeletedInPlace(old, new) ==
    (Kustomizations(old) \ Kustomizations(new)) \cup (Profiles(old) \ Profiles(new))

\* getDeletedFiles compares the files one kind at a time.
Deleted(old, new) ==
    (Kustomizations(old) \ Kustomizations(new))
        \cup (Profiles(old) \ Profiles(new))
        \cup (Rendered(old) \ Rendered(new))

\* The files with their new contents, those to delete without.
GetFiles(new, old) ==
    LET deleted == IF old = None THEN {} ELSE Deleted(old, new)
    IN [f \in FilesOf(new) \cup deleted |->
            IF f \in deleted THEN Absent ELSE Generated(new, f)]

\* (mutant) The tree has directories too.
DeletionOfTree(c) ==
    LET there == {p \in Part \ {"manifest"} : base[<<c, p>>] # Absent}
    IN [f \in {c} \X ({"manifest", "directory"} \cup there) |-> Absent]

\* The manifest, there or not, and what lies in the directory of the cluster.
Deletion(c) ==
    LET there == {p \in Part \ {"manifest"} : base[<<c, p>>] # Absent}
    IN [f \in {c} \X ({"manifest"} \cup there) |-> Absent]

Applied(files, ch) ==
    [f \in File |-> IF f \in DOMAIN ch THEN ch[f] ELSE files[f]]

Written(ch) == {f \in DOMAIN ch : ch[f] # Absent}

\* The branch that the client names, or the hash of the names.
HeadOf(r, name) == IF r \in Named THEN r ELSE name

\* The clusters of which a request has read something, or will replace it.
Reads(a) ==
    {a.cluster} \cup {v.cluster : v \in {a.new, a.old} \cap Value}

-----------------------------------------------------------------------------
(* The handlers.                                                           *)

Go(r, from, to) == pc[r] = from /\ pc' = [pc EXCEPT ![r] = to]

\* A call of the git server that fails ends the request with an error.
Fail(r) ==
    /\ failures < MaxFailures /\ failures' = failures + 1
    /\ pc' = [pc EXCEPT ![r] = "failed"]

\* The request is sent.  What an edit replaces are the values that the
\* client has read.
Ask(r, a, h) ==
    /\ pc[r] = "idle"
    /\ asked' = [asked EXCEPT ![r] = a]
    /\ head' = [head EXCEPT ![r] = h]
    /\ IF a.new = None
       THEN Go(r, "idle", "list") /\ UNCHANGED changes
       ELSE /\ Go(r, "idle", "branch")
            /\ changes' = [changes EXCEPT ![r] = GetFiles(a.new, a.old)]
    /\ UNCHANGED <<provider, gitVars, found, failures, obsVars>>

\* A cluster is created where there is none, edited or deleted where there
\* is one; an edit that moves it moves it to where there is none.
Create(r) ==
    \E v \in Value :
        /\ base[Manifest(v.cluster)] = Absent
        /\ Ask(r, [new |-> v, old |-> None, cluster |-> v.cluster],
               HeadOf(r, NameOf[v.cluster]))

Edit(r) ==
    \E v \in Value, c \in Cluster :
        /\ base[Manifest(c)] \in Value \ {v}
        /\ v.cluster # c => base[Manifest(v.cluster)] = Absent
        /\ Ask(r, [new |-> v, old |-> base[Manifest(c)], cluster |-> c],
               HeadOf(r, NameOf[v.cluster]))

\* The default branch of a deletion by namespaced names has no name in it.
Delete(r) ==
    \E c \in Cluster :
        /\ base[Manifest(c)] # Absent
        /\ \E name \in {NameOf[c], NoName} :
             Ask(r, [new |-> None, old |-> None, cluster |-> c], HeadOf(r, name))

\* CreateDeletionPullRequest asks for the tree of the base branch.
List(r) ==
    /\ Go(r, "list", "branch")
    /\ changes' = [changes EXCEPT ![r] = Deletion(asked[r].cluster)]
    /\ outdated' = outdated \ {r}
    /\ UNCHANGED <<provider, gitVars, asked, head, found, failures, overtaken,
                   spoiled>>

ListFails(r) ==
    /\ pc[r] = "list" /\ Fail(r)
    /\ UNCHANGED <<provider, gitVars, asked, head, changes, found, obsVars>>

-----------------------------------------------------------------------------
(* The providers: CreatePullRequest.                                       *)

GitLab == provider = "gitlab"

\* (mutant) A branch that is there is used, as the Azure provider does.
UseBranch(r) ==
    /\ IF tree[head[r]] = None
       THEN /\ tree' = [tree EXCEPT ![head[r]] = base]
            /\ root' = [root EXCEPT ![head[r]] = base]
       ELSE UNCHANGED <<tree, root>>
    /\ UNCHANGED overtaken

\* CreateBranch: from the most recent commit of the base branch.
MakeBranch(r) ==
    /\ tree[head[r]] = None
    /\ tree' = [tree EXCEPT ![head[r]] = base]
    /\ root' = [root EXCEPT ![head[r]] = base]
    /\ overtaken' = IF r \in outdated THEN overtaken \cup {head[r]}
                                      ELSE overtaken \ {head[r]}

CreateBranch(r) ==
    /\ Go(r, "branch", IF GitLab THEN "tree" ELSE "commit")
    /\ MakeBranch(r)
    /\ UNCHANGED <<provider, base, open, asked, head, changes, found, failures,
                   outdated, spoiled>>

\* The branch is there, the call fails, or its answer does not arrive.
CreateBranchFails(r) ==
    /\ pc[r] = "branch"
    /\ \/ /\ tree[head[r]] # None
          /\ pc' = [pc EXCEPT ![r] = "failed"]
          /\ UNCHANGED <<tree, root, overtaken, failures>>
       \/ Fail(r) /\ UNCHANGED <<tree, root, overtaken>>
       \/ Fail(r) /\ MakeBranch(r)
    /\ UNCHANGED <<provider, base, open, asked, head, changes, found, outdated,
                   spoiled>>

\* GetUpdatedFiles: which of the files to write are in the branch.
GetUpdatedFiles(r) ==
    /\ pc[r] = "tree"
    /\ found' = [found EXCEPT ![r] =
                    {f \in Written(changes[r]) : tree[head[r]][f] # Absent}]
    /\ Go(r, "tree", IF found'[r] = {} THEN "commit" ELSE "clean")
    /\ UNCHANGED <<provider, gitVars, asked, head, changes, failures, obsVars>>

\* GitLab creates only files that are not there, so that these are deleted
\* in a commit of their own, and deletes only files that are there; GitHub
\* may or may not object to the deletion of one that is not.
Refused(files, ch) ==
    \/ \E f \in DOMAIN ch : ch[f] = Absent /\ files[f] = Absent
    \/ GitLab /\ \E f \in DOMAIN ch : ch[f] # Absent /\ files[f] # Absent

MustRefuse(files, ch) == GitLab /\ Refused(files, ch)

Push(h, ch) == tree' = [tree EXCEPT ![h] = Applied(@, ch)]

Clean(r) == [f \in found[r] |-> Absent]

CommitClean(r) ==
    /\ Go(r, "clean", "commit")
    /\ Push(head[r], Clean(r))
    /\ UNCHANGED <<provider, base, root, open, asked, head, changes, found,
                   failures, obsVars>>

Commit(r) ==
    /\ Go(r, "commit", "propose")
    /\ ~MustRefuse(tree[head[r]], changes[r])
    /\ Push(head[r], changes[r])
    /\ UNCHANGED <<provider, base, root, open, asked, head, changes, found,
                   failures, obsVars>>

CommitRefused(r) ==
    /\ pc[r] = "commit" /\ Refused(tree[head[r]], changes[r])
    /\ pc' = [pc EXCEPT ![r] = "failed"]
    /\ UNCHANGED <<provider, gitVars, asked, head, changes, found, failures,
                   obsVars>>

\* There is one open pull request for a branch.
Open(r) ==
    /\ open[head[r]] = None
    /\ open' = [open EXCEPT ![head[r]] = [asked |-> asked[r], changes |-> changes[r]]]

\* The call of any step fails, or its answer does not arrive.
StepFails(r) ==
    /\ pc[r] \in {"tree", "clean", "commit", "propose"}
    /\ Fail(r)
    /\ \/ UNCHANGED <<tree, open>>
       \/ pc[r] = "clean" /\ Push(head[r], Clean(r)) /\ UNCHANGED open
       \/ /\ pc[r] = "commit" /\ ~MustRefuse(tree[head[r]], changes[r])
          /\ Push(head[r], changes[r]) /\ UNCHANGED open
       \/ /\ pc[r] = "propose"
          /\ Open(r) /\ UNCHANGED tree
    /\ UNCHANGED <<provider, base, root, asked, head, changes, found, obsVars>>

Propose(r) ==
    /\ Go(r, "propose", "done")
    /\ Open(r)
    /\ asked' = [asked EXCEPT ![r] = None]
    /\ head' = [head EXCEPT ![r] = NoName]
    /\ changes' = [changes EXCEPT ![r] = Nothing]
    /\ found' = [found EXCEPT ![r] = {}]
    /\ outdated' = outdated \ {r}
    /\ UNCHANGED <<provider, base, tree, root, failures, overtaken, spoiled>>

CallStep(r) ==
    \/ List(r) \/ ListFails(r)
    \/ CreateBranch(r) \/ CreateBranchFails(r)
    \/ GetUpdatedFiles(r) \/ CommitClean(r) \/ Commit(r) \/ CommitRefused(r)
    \/ StepFails(r) \/ Propose(r)

-----------------------------------------------------------------------------
(* External: clients that try again, the reviewer, and the git server.     *)

\* The same request once more: a deletion lists the files again, a write
\* replaces the values that it replaced before.
Retry(r) ==
    /\ pc[r] = "failed"
    /\ Go(r, "failed", IF asked[r].new = None THEN "list" ELSE "branch")
    /\ found' = [found EXCEPT ![r] = {}]
    /\ changes' = IF asked[r].new = None THEN [changes EXCEPT ![r] = Nothing]
                                         ELSE changes
    /\ UNCHANGED <<provider, gitVars, asked, head, failures, obsVars>>

Busy(h) ==
    \E r \in Request : /\ head[r] = h
                       /\ pc[r] \in {"tree", "clean", "commit", "propose"}

\* A branch that no call is working on may be deleted.
DropBranch(h) ==
    /\ tree' = [tree EXCEPT ![h] = None]
    /\ root' = [root EXCEPT ![h] = None]

DeleteBranch(h) ==
    /\ tree[h] # None /\ open[h] = None /\ ~Busy(h)
    /\ DropBranch(h)
    /\ UNCHANGED <<provider, base, open, callVars, failures, obsVars>>

\* A branch is merged file by file, and not at all if both sides have
\* changed a file in two ways.
Changed(h) == {f \in File : tree[h][f] # root[h][f]}

Mergeable(h) ==
    \A f \in Changed(h) : base[f] = root[h][f] \/ base[f] = tree[h][f]

Merged(h) == [f \in File |-> IF f \in Changed(h) THEN tree[h][f] ELSE base[f]]

\* (observation) The requests that have been prepared from what the merge
\* changes.
Outdates(h) ==
    {r \in Request : /\ pc[r] \notin {"idle", "list", "done"}
                     /\ \E f \in Changed(h) : /\ f[1] \in Reads(asked[r])
                                             /\ tree[h][f] # base[f]}

Merge(h) ==
    /\ open[h] # None /\ Mergeable(h) /\ ~Busy(h)
    /\ base' = Merged(h)
    /\ open' = [open EXCEPT ![h] = None]
    /\ \/ UNCHANGED <<tree, root>>
       \/ DropBranch(h)
    /\ outdated' = outdated \cup Outdates(h)
    /\ spoiled' = (spoiled \/ h \in overtaken)
    /\ UNCHANGED <<provider, callVars, failures, overtaken>>

Close(h) ==
    /\ open[h] # None /\ ~Busy(h)
    /\ open' = [open EXCEPT ![h] = None]
    /\ UNCHANGED <<provider, base, tree, root, callVars, failures, obsVars>>

Next ==
    \/ \E r \in Request :
         Create(r) \/ Edit(r) \/ Delete(r) \/ CallStep(r) \/ Retry(r)
    \/ \E h \in Head : Merge(h) \/ Close(h) \/ DeleteBranch(h)

Spec == Init /\ [][Next]_vars

-----------------------------------------------------------------------------
(* What is promised.                                                       *)

\* A pull request proposes what its request asks for, and nothing else: its
\* branch is the base branch of the moment it was made with the changes of
\* that one request, whole, whatever has failed and been sent again, and
\* whoever else uses the name of the branch.
ProposesRequest ==
    \A h \in Head : open[h] # None =>
        /\ tree[h] # None
        /\ tree[h] = Applied(root[h], open[h].changes)

\* The base branch holds the files of the values that a cluster has, all of
\* them and none of earlier values or of a cluster that is gone, unless a
\* request has been merged that was prepared from files that had changed
\* before its branch was made.
BaseFollows ==
    spoiled \/ \A c \in Cluster :
        LET here == {f \in {c} \X Part : base[f] # Absent}
            v    == base[Manifest(c)]
        IN IF v = Absent
           THEN here = {}
           ELSE here = FilesOf(v) /\ \A f \in here : base[f] = Generated(v, f)
Repo == INSTANCE Repository WITH
    clusters <- [c \in Cluster |-> base[Manifest(c)]],
    proposed <- [h \in Head |->
                    IF open[h] = None THEN None
                    ELSE [asked |-> open[h].asked, stale |-> h \in overtaken]]

\* Seen cluster by cluster, the base branch changes only as Repository says:
\* a pull request does to the clusters of its request what that asks for, all
\* of it and to no other cluster, and replaces nothing that its client has
\* not seen, however others are merged in the meantime and in whatever order,
\* unless the request was outdated before its branch was made.
LandsAsAsked == Repo!RepositorySpec
=============================================================================
