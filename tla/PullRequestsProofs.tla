-------------------------- MODULE PullRequestsProofs --------------------------
(***************************************************************************)
(* Proofs about PullRequests, for any requests, clusters, files, providers *)
(* and number of failures.                                                 *)
(***************************************************************************)
EXTENDS PullRequests, TLAPS

ChangeSet == UNION {[S -> Contents] : S \in SUBSET File}

Opened == [asked : Proposal, changes : ChangeSet]

Steps == {"idle", "list", "branch", "tree", "clean", "commit", "propose", "done",
          "failed"}

\* A call that is between its branch and its pull request.
Working == {"tree", "clean", "commit", "propose"}

\* TypeOK, with the domains of the functions.
TInv ==
    /\ provider \in Provider /\ base \in Files
    /\ tree \in [Head -> Files \cup {None}]
    /\ root \in [Head -> Files \cup {None}]
    /\ open \in [Head -> Opened \cup {None}]
    /\ pc \in [Request -> Steps]
    /\ asked \in [Request -> Proposal \cup {None}]
    /\ head \in [Request -> Head]
    /\ changes \in [Request -> ChangeSet]
    /\ found \in [Request -> SUBSET File]
    /\ failures \in 0 .. MaxFailures
    /\ outdated \in SUBSET Request /\ overtaken \in SUBSET Head
    /\ spoiled \in BOOLEAN

\* The branch of a working call is its own, is not proposed yet, and differs
\* from what it was made from only in the files of the call.
BranchOK(r) ==
    /\ tree[head[r]] \in Files /\ root[head[r]] \in Files
    /\ open[head[r]] = None
    /\ pc[r] = "propose" => tree[head[r]] = Applied(root[head[r]], changes[r])
    /\ \A f \in File \ DOMAIN changes[r] : tree[head[r]][f] = root[head[r]][f]
    /\ pc[r] = "clean" => found[r] \subseteq DOMAIN changes[r]

BranchInv == \A r \in Request : pc[r] \in Working => BranchOK(r)

Alone ==
    \A q, r \in Request :
        pc[q] \in Working /\ pc[r] \in Working /\ head[q] = head[r] => q = r

AskedInv == \A r \in Request : pc[r] \notin {"idle", "done"} => asked[r] \in Proposal

IInv == TInv /\ BranchInv /\ Alone /\ AskedInv /\ ProposesRequest

-----------------------------------------------------------------------------
(* The files of a request.                                                 *)

LEMMA NoneIsNoFiles == None \notin Files
BY PullRequestsAssumption DEF Files, Contents

LEMMA ChangeSetMember ==
    ASSUME NEW S \in SUBSET File, NEW ch \in [S -> Contents]
    PROVE  ch \in ChangeSet
BY DEF ChangeSet

LEMMA ChangeSetType ==
    ASSUME NEW ch \in ChangeSet
    PROVE  /\ DOMAIN ch \in SUBSET File
           /\ \A f \in DOMAIN ch : ch[f] \in Contents
BY DEF ChangeSet

LEMMA FilesOfType ==
    ASSUME NEW v \in Value
    PROVE  /\ FilesOf(v) \in SUBSET File
           /\ Rendered(v) \in SUBSET File /\ Kustomizations(v) \in SUBSET File
           /\ Profiles(v) \in SUBSET File
<1>1. v.cluster \in Cluster /\ v.kustomizations \in SUBSET Kustomization
  BY PullRequestsAssumption DEF AllValues
<1>2. Rendered(v) \in SUBSET File
  BY <1>1 DEF Rendered, Manifest, File, Part
<1>3. Kustomizations(v) \in SUBSET File
  BY <1>1 DEF Kustomizations, File, Part
<1>4. Profiles(v) \in SUBSET File
  BY <1>1 DEF Profiles, File, Part
<1> QED BY <1>2, <1>3, <1>4 DEF FilesOf

LEMMA GeneratedType ==
    ASSUME NEW v \in Value, NEW f
    PROVE  Generated(v, f) \in Contents
<1>1. v \in AllValues
  BY PullRequestsAssumption
<1>2. [v EXCEPT !.kustomizations = {}] \in AllValues
  BY <1>1 DEF AllValues
<1>3. [v EXCEPT !.profiles = {}, !.kustomizations = {f[2]} \cap Kustomization]
        \in AllValues
  BY <1>1 DEF AllValues
<1> QED BY <1>1, <1>2, <1>3 DEF Generated, Contents

LEMMA GetFilesType ==
    ASSUME NEW new \in Value, NEW old \in Value \cup {None}
    PROVE  GetFiles(new, old) \in ChangeSet
<1> DEFINE deleted == IF old = None THEN {} ELSE Deleted(old, new)
<1>1. deleted \in SUBSET File
  BY FilesOfType DEF Deleted
<1>2. FilesOf(new) \cup deleted \in SUBSET File
  BY <1>1, FilesOfType
<1>3. GetFiles(new, old) = [f \in FilesOf(new) \cup deleted |->
                              IF f \in deleted THEN Absent ELSE Generated(new, f)]
  BY DEF GetFiles
<1> HIDE DEF deleted
<1>4. GetFiles(new, old) \in [FilesOf(new) \cup deleted -> Contents]
  BY <1>3, GeneratedType DEF Contents
<1> QED BY <1>2, <1>4, ChangeSetMember

LEMMA DeletionType ==
    ASSUME NEW c \in Cluster
    PROVE  Deletion(c) \in ChangeSet
<1> DEFINE S == {c} \X ({"manifest"} \cup {p \in Part \ {"manifest"} :
                                              base[<<c, p>>] # Absent})
<1>1. S \in SUBSET File
  BY DEF File, Part
<1>2. Deletion(c) = [f \in S |-> Absent]
  BY DEF Deletion
<1> HIDE DEF S
<1>3. Deletion(c) \in [S -> Contents]
  BY <1>2 DEF Contents
<1> QED BY <1>1, <1>3, ChangeSetMember

LEMMA NothingType == Nothing \in ChangeSet
<1>1. Nothing \in [{} -> Contents]
  BY DEF Nothing
<1> QED BY <1>1, ChangeSetMember

LEMMA CleanType ==
    ASSUME TInv, NEW r \in Request
    PROVE  Clean(r) \in ChangeSet /\ DOMAIN Clean(r) = found[r]
<1>1. found[r] \in SUBSET File
  BY DEF TInv
<1>2. Clean(r) \in [found[r] -> Contents] /\ DOMAIN Clean(r) = found[r]
  BY DEF Clean, Contents
<1> QED BY <1>1, <1>2, ChangeSetMember

LEMMA AppliedType ==
    ASSUME NEW files \in Files, NEW ch \in ChangeSet
    PROVE  /\ Applied(files, ch) \in Files
           /\ \A f \in File \ DOMAIN ch : Applied(files, ch)[f] = files[f]
BY ChangeSetType DEF Applied, Files

\* Changes that replace whatever differs.
LEMMA AppliedSame ==
    ASSUME NEW a, NEW b, NEW ch,
           \A f \in File \ DOMAIN ch : a[f] = b[f]
    PROVE  Applied(a, ch) = Applied(b, ch)
BY DEF Applied

-----------------------------------------------------------------------------
(* What a step of a call, and one of the reviewer, has to respect.         *)

LEMMA InitInv == Init => IInv
<1> SUFFICES ASSUME Init PROVE IInv
  OBVIOUS
<1>1. NoName \in Head
  BY DEF Head
<1>2. base \in Files /\ failures \in 0 .. MaxFailures
  BY PullRequestsAssumption DEF Init, Files, Contents
<1>3. changes \in [Request -> ChangeSet]
  BY NothingType DEF Init
<1>4. TInv
  BY <1>1, <1>2, <1>3 DEF Init, TInv, Steps
<1>5. BranchInv /\ Alone /\ AskedInv /\ ProposesRequest
  BY DEF Init, BranchInv, Alone, AskedInv, ProposesRequest, Working
<1> QED BY <1>4, <1>5 DEF IInv

\* The calls other than r are where they were.
Others(r) ==
    \A q \in Request \ {r} :
        /\ pc'[q] = pc[q] /\ asked'[q] = asked[q] /\ head'[q] = head[q]
        /\ changes'[q] = changes[q] /\ found'[q] = found[q]

LEMMA CallInv ==
    ASSUME IInv, TInv', NEW r \in Request,
           Others(r),
           \A h \in Head \ {head[r]} :
              tree'[h] = tree[h] /\ root'[h] = root[h] /\ open'[h] = open[h],
           \/ UNCHANGED <<tree, root, open>>
           \/ \A q \in Request \ {r} : pc[q] \in Working => head[q] # head[r],
           pc'[r] \in Working =>
              /\ BranchOK(r)'
              /\ \A q \in Request \ {r} : pc[q] \in Working => head[q] # head'[r],
           pc'[r] \notin {"idle", "done"} => asked'[r] \in Proposal,
           open'[head[r]] # None =>
              /\ tree'[head[r]] # None
              /\ tree'[head[r]] = Applied(root'[head[r]], open'[head[r]].changes)
    PROVE  IInv'
<1>1. head[r] \in Head /\ \A q \in Request : head[q] \in Head
  BY DEF IInv, TInv
<1>2. BranchInv'
  <2>1. SUFFICES ASSUME NEW q \in Request, q # r, pc[q] \in Working
                 PROVE  BranchOK(q)'
    BY DEF BranchInv, Others
  <2>2. BranchOK(q)
    BY <2>1 DEF IInv, BranchInv
  <2>3. tree'[head[q]] = tree[head[q]] /\ root'[head[q]] = root[head[q]]
        /\ open'[head[q]] = open[head[q]]
    BY <1>1, <2>1
  <2>4. pc'[q] = pc[q] /\ head'[q] = head[q] /\ changes'[q] = changes[q]
        /\ found'[q] = found[q]
    BY <2>1 DEF Others
  <2> QED BY <2>2, <2>3, <2>4 DEF BranchOK
<1>3. Alone'
  <2>1. SUFFICES ASSUME NEW p \in Request, NEW q \in Request, pc'[p] \in Working,
                        pc'[q] \in Working, head'[p] = head'[q], p # q
                 PROVE  FALSE
    BY DEF Alone
  <2>2. CASE p # r /\ q # r
    BY <2>1, <2>2 DEF IInv, Alone, Others
  <2>3. CASE p = r
    BY <2>1, <2>3 DEF Others
  <2>4. CASE q = r
    BY <2>1, <2>4 DEF Others
  <2> QED BY <2>2, <2>3, <2>4
<1>4. AskedInv'
  BY DEF IInv, AskedInv, Others
<1>5. ProposesRequest'
  <2>1. SUFFICES ASSUME NEW h \in Head, h # head[r], open[h] # None
                 PROVE  tree'[h] # None
                        /\ tree'[h] = Applied(root'[h], open'[h].changes)
    BY DEF ProposesRequest
  <2>2. tree[h] # None /\ tree[h] = Applied(root[h], open[h].changes)
    BY <2>1 DEF IInv, ProposesRequest
  <2> QED BY <2>1, <2>2
<1> QED BY <1>2, <1>3, <1>4, <1>5 DEF IInv

LEMMA ReviewInv ==
    ASSUME IInv, TInv', NEW h \in Head, ~Busy(h), UNCHANGED callVars, open'[h] = None,
           \A k \in Head \ {h} :
              tree'[k] = tree[k] /\ root'[k] = root[k] /\ open'[k] = open[k]
    PROVE  IInv'
<1>1. UNCHANGED <<pc, asked, head, changes, found>>
  BY DEF callVars
<1>2. BranchInv'
  <2>1. SUFFICES ASSUME NEW q \in Request, pc[q] \in Working
                 PROVE  BranchOK(q)'
    BY <1>1 DEF BranchInv
  <2>2. head[q] \in Head \ {h}
    BY <2>1 DEF Busy, Working, IInv, TInv
  <2>3. BranchOK(q)
    BY <2>1 DEF IInv, BranchInv
  <2> QED BY <1>1, <2>2, <2>3 DEF BranchOK
<1>3. Alone' /\ AskedInv'
  BY <1>1 DEF IInv, Alone, AskedInv
<1>4. ProposesRequest'
  <2>1. SUFFICES ASSUME NEW k \in Head, k # h, open[k] # None
                 PROVE  tree'[k] # None
                        /\ tree'[k] = Applied(root'[k], open'[k].changes)
    BY DEF ProposesRequest
  <2>2. tree[k] # None /\ tree[k] = Applied(root[k], open[k].changes)
    BY <2>1 DEF IInv, ProposesRequest
  <2> QED BY <2>1, <2>2
<1> QED BY <1>2, <1>3, <1>4 DEF IInv

\* A step that leaves the git server alone, of a call that is not working.
LEMMA QuietInv ==
    ASSUME IInv, TInv', NEW r \in Request, Others(r), UNCHANGED <<tree, root, open>>,
           pc'[r] \notin Working, pc'[r] \notin {"idle", "done"} => asked'[r] \in Proposal
    PROVE  IInv'
<1>1. head[r] \in Head
  BY DEF IInv, TInv
<1>2. open'[head[r]] # None =>
        /\ tree'[head[r]] # None
        /\ tree'[head[r]] = Applied(root'[head[r]], open'[head[r]].changes)
  BY <1>1 DEF IInv, ProposesRequest
<1> QED BY <1>2, CallInv

LEMMA FailType ==
    ASSUME TInv, NEW r \in Request, Fail(r)
    PROVE  /\ failures' \in 0 .. MaxFailures
           /\ pc' = [pc EXCEPT ![r] = "failed"]
<1>1. failures < MaxFailures /\ failures' = failures + 1
      /\ pc' = [pc EXCEPT ![r] = "failed"]
  BY DEF Fail
<1> QED BY <1>1, PullRequestsAssumption DEF TInv

-----------------------------------------------------------------------------
(* The steps.                                                              *)

LEMMA AskInv ==
    ASSUME IInv, NEW r \in Request, NEW a \in Proposal, NEW h \in Head, Ask(r, a, h)
    PROVE  IInv'
<1>1. /\ asked' = [asked EXCEPT ![r] = a] /\ head' = [head EXCEPT ![r] = h]
      /\ UNCHANGED <<provider, base, tree, root, open, found, failures, outdated,
                     overtaken, spoiled>>
  BY DEF Ask, gitVars, obsVars
<1>2. PICK s \in {"list", "branch"} : pc' = [pc EXCEPT ![r] = s]
  BY DEF Ask, Go
<1>3. changes' \in [Request -> ChangeSet]
      /\ \A q \in Request \ {r} : changes'[q] = changes[q]
  <2>1. changes \in [Request -> ChangeSet]
    BY DEF IInv, TInv
  <2>2. CASE a.new = None
    BY <2>1, <2>2 DEF Ask
  <2>3. CASE a.new # None
    <3>1. a.new \in Value /\ a.old \in Value \cup {None}
      BY <2>3 DEF Proposal
    <3>2. GetFiles(a.new, a.old) \in ChangeSet
      BY <3>1, GetFilesType
    <3>3. changes' = [changes EXCEPT ![r] = GetFiles(a.new, a.old)]
      BY <2>3 DEF Ask
    <3> QED BY <2>1, <3>2, <3>3
  <2> QED BY <2>2, <2>3
<1>4. TInv'
  BY <1>1, <1>2, <1>3 DEF IInv, TInv, Steps
<1>5. Others(r) /\ pc'[r] = s /\ asked'[r] = a
  BY <1>1, <1>2, <1>3 DEF Others, IInv, TInv
<1> QED BY <1>1, <1>2, <1>4, <1>5, QuietInv DEF Working

LEMMA HeadOfType ==
    ASSUME NEW r \in Request, NEW name \in Name \cup {NoName}
    PROVE  HeadOf(r, name) \in Head
BY DEF HeadOf, Head

LEMMA RequestInv ==
    ASSUME IInv, NEW r \in Request, Create(r) \/ Edit(r) \/ Delete(r)
    PROVE  IInv'
<1>0. \A c \in Cluster : NameOf[c] \in Name
  BY PullRequestsAssumption
<1>1. CASE Create(r)
  <2>1. PICK v \in Value :
          Ask(r, [new |-> v, old |-> None, cluster |-> v.cluster],
              HeadOf(r, NameOf[v.cluster]))
    BY <1>1 DEF Create
  <2>2. v.cluster \in Cluster
    BY PullRequestsAssumption DEF AllValues
  <2>3. [new |-> v, old |-> None, cluster |-> v.cluster] \in Proposal
    BY <2>2 DEF Proposal
  <2>4. HeadOf(r, NameOf[v.cluster]) \in Head
    BY <1>0, <2>2, HeadOfType
  <2> QED BY <2>1, <2>3, <2>4, AskInv
<1>2. CASE Edit(r)
  <2>1. PICK v \in Value, c \in Cluster :
          /\ base[Manifest(c)] \in Value \ {v}
          /\ Ask(r, [new |-> v, old |-> base[Manifest(c)], cluster |-> c],
                 HeadOf(r, NameOf[v.cluster]))
    BY <1>2 DEF Edit
  <2>2. v.cluster \in Cluster
    BY PullRequestsAssumption DEF AllValues
  <2>3. [new |-> v, old |-> base[Manifest(c)], cluster |-> c] \in Proposal
    BY <2>1 DEF Proposal
  <2>4. HeadOf(r, NameOf[v.cluster]) \in Head
    BY <1>0, <2>2, HeadOfType
  <2> QED BY <2>1, <2>3, <2>4, AskInv
<1>3. CASE Delete(r)
  <2>1. PICK c \in Cluster, name \in Name \cup {NoName} :
          Ask(r, [new |-> None, old |-> None, cluster |-> c], HeadOf(r, name))
    BY <1>0, <1>3 DEF Delete
  <2>2. [new |-> None, old |-> None, cluster |-> c] \in Proposal
    BY DEF Proposal
  <2> QED BY <2>1, <2>2, HeadOfType, AskInv
<1> QED BY <1>1, <1>2, <1>3

LEMMA PrepareInv ==
    ASSUME IInv, NEW r \in Request,
           List(r) \/ ListFails(r) \/ CommitRefused(r) \/ Retry(r)
    PROVE  IInv'
<1>1. UNCHANGED <<provider, base, tree, root, open, asked, head, overtaken, spoiled>>
  BY DEF List, ListFails, CommitRefused, Retry, gitVars, obsVars
<1>2. pc[r] \in {"list", "commit", "failed"} /\ asked[r] \in Proposal
  <2>1. pc[r] \in {"list", "commit", "failed"}
    BY DEF List, ListFails, CommitRefused, Retry, Go
  <2> QED BY <2>1 DEF IInv, AskedInv
<1>3. PICK s \in {"list", "branch", "failed"} : pc' = [pc EXCEPT ![r] = s]
  BY DEF List, ListFails, CommitRefused, Retry, Go, Fail
<1>4. failures' \in 0 .. MaxFailures
  BY FailType DEF List, ListFails, CommitRefused, Retry, IInv, TInv
<1>5. outdated' \in SUBSET Request
  BY DEF List, ListFails, CommitRefused, Retry, IInv, TInv, obsVars
<1>6. found' \in [Request -> SUBSET File]
      /\ \A q \in Request \ {r} : found'[q] = found[q]
  BY DEF List, ListFails, CommitRefused, Retry, IInv, TInv
<1>7. changes' \in [Request -> ChangeSet]
      /\ \A q \in Request \ {r} : changes'[q] = changes[q]
  <2>1. changes \in [Request -> ChangeSet]
    BY DEF IInv, TInv
  <2>2. asked[r].cluster \in Cluster
    BY <1>2 DEF Proposal
  <2>3. PICK ch \in ChangeSet :
          changes' = changes \/ changes' = [changes EXCEPT ![r] = ch]
    BY <2>2, DeletionType, NothingType DEF List, ListFails, CommitRefused, Retry
  <2> QED BY <2>1, <2>3
<1>8. TInv'
  BY <1>1, <1>3, <1>4, <1>5, <1>6, <1>7 DEF IInv, TInv, Steps
<1>9. Others(r) /\ pc'[r] = s
  BY <1>1, <1>3, <1>6, <1>7 DEF Others, IInv, TInv
<1> QED BY <1>1, <1>2, <1>3, <1>8, <1>9, QuietInv DEF Working

\* A branch that is made is nobody else's.
LEMMA NewBranch ==
    ASSUME IInv, NEW r \in Request, MakeBranch(r)
    PROVE  /\ tree' \in [Head -> Files \cup {None}] /\ root' \in [Head -> Files \cup {None}]
           /\ overtaken' \in SUBSET Head
           /\ tree'[head[r]] = base /\ root'[head[r]] = base /\ base \in Files
           /\ open[head[r]] = None
           /\ \A h \in Head \ {head[r]} : tree'[h] = tree[h] /\ root'[h] = root[h]
           /\ \A q \in Request \ {r} : pc[q] \in Working => head[q] # head[r]
<1>1. /\ tree[head[r]] = None /\ head[r] \in Head /\ base \in Files
      /\ tree' = [tree EXCEPT ![head[r]] = base]
      /\ root' = [root EXCEPT ![head[r]] = base]
      /\ tree \in [Head -> Files \cup {None}] /\ root \in [Head -> Files \cup {None}]
  BY DEF MakeBranch, IInv, TInv
<1>2. overtaken' \in SUBSET Head
  BY <1>1 DEF MakeBranch, IInv, TInv
<1>3. open[head[r]] = None
  BY <1>1 DEF IInv, ProposesRequest
<1>4. \A q \in Request \ {r} : pc[q] \in Working => head[q] # head[r]
  BY <1>1, NoneIsNoFiles DEF IInv, BranchInv, BranchOK
<1> QED BY <1>1, <1>2, <1>3, <1>4

LEMMA CreateBranchInv ==
    ASSUME IInv, NEW r \in Request, CreateBranch(r)
    PROVE  IInv'
<1>1. /\ MakeBranch(r) /\ pc[r] = "branch"
      /\ UNCHANGED <<provider, base, open, asked, head, changes, found, failures,
                     outdated, spoiled>>
  BY DEF CreateBranch, Go
<1>2. PICK s \in {"tree", "commit"} : pc' = [pc EXCEPT ![r] = s]
  BY DEF CreateBranch, Go
<1>3. TInv'
  BY <1>1, <1>2, NewBranch DEF IInv, TInv, Steps
<1>4. Others(r) /\ pc'[r] = s
  BY <1>1, <1>2 DEF Others, IInv, TInv
<1>5. BranchOK(r)'
  BY <1>1, <1>2, <1>4, NewBranch DEF BranchOK
<1>6. asked'[r] \in Proposal
  BY <1>1 DEF IInv, AskedInv
<1>7. open'[head[r]] = None
  BY <1>1, NewBranch
<1>8. \A q \in Request \ {r} : pc[q] \in Working => head[q] # head[r] /\ head[q] # head'[r]
  BY <1>1, NewBranch
<1>9. \A h \in Head \ {head[r]} : tree'[h] = tree[h] /\ root'[h] = root[h]
                                   /\ open'[h] = open[h]
  BY <1>1, NewBranch
<1> QED BY <1>3, <1>4, <1>5, <1>6, <1>7, <1>8, <1>9, CallInv

LEMMA CreateBranchFailsInv ==
    ASSUME IInv, NEW r \in Request, CreateBranchFails(r)
    PROVE  IInv'
<1>1. /\ pc[r] = "branch"
      /\ UNCHANGED <<provider, base, open, asked, head, changes, found, outdated, spoiled>>
      /\ pc' = [pc EXCEPT ![r] = "failed"]
  BY DEF CreateBranchFails, Fail
<1>2. failures' \in 0 .. MaxFailures
  BY FailType DEF CreateBranchFails, IInv, TInv
<1>3. Others(r) /\ pc'[r] = "failed"
  BY <1>1 DEF Others, IInv, TInv
<1>4. asked'[r] \in Proposal
  BY <1>1 DEF IInv, AskedInv
<1>5. CASE UNCHANGED <<tree, root, overtaken>>
  <2>1. TInv'
    BY <1>1, <1>2, <1>5 DEF IInv, TInv, Steps
  <2> QED BY <1>1, <1>3, <1>4, <1>5, <2>1, QuietInv DEF Working
<1>6. CASE MakeBranch(r)
  <2>1. TInv'
    BY <1>1, <1>2, <1>6, NewBranch DEF IInv, TInv, Steps
  <2>2. open'[head[r]] = None
    BY <1>1, <1>6, NewBranch
  <2>3. \A q \in Request \ {r} : pc[q] \in Working => head[q] # head[r]
    BY <1>6, NewBranch
  <2>4. \A h \in Head \ {head[r]} : tree'[h] = tree[h] /\ root'[h] = root[h]
                                     /\ open'[h] = open[h]
    BY <1>1, <1>6, NewBranch
  <2>5. pc'[r] \notin Working
    BY <1>3 DEF Working
  <2> QED BY <1>3, <1>4, <2>1, <2>2, <2>3, <2>4, <2>5, CallInv
<1> QED BY <1>5, <1>6 DEF CreateBranchFails

LEMMA GetUpdatedFilesInv ==
    ASSUME IInv, NEW r \in Request, GetUpdatedFiles(r)
    PROVE  IInv'
<1> DEFINE there == {f \in Written(changes[r]) : tree[head[r]][f] # Absent}
<1>1. /\ pc[r] = "tree" /\ found' = [found EXCEPT ![r] = there]
      /\ UNCHANGED <<provider, base, tree, root, open, asked, head, changes, failures,
                     outdated, overtaken, spoiled>>
  BY DEF GetUpdatedFiles, Go, gitVars, obsVars
<1>2. PICK s \in {"clean", "commit"} : pc' = [pc EXCEPT ![r] = s]
  BY DEF GetUpdatedFiles, Go
<1>3. there \subseteq DOMAIN changes[r] /\ there \in SUBSET File
  <2>1. changes[r] \in ChangeSet
    BY DEF IInv, TInv
  <2> QED BY <2>1, ChangeSetType DEF Written
<1> HIDE DEF there
<1>4. TInv'
  BY <1>1, <1>2, <1>3 DEF IInv, TInv, Steps
<1>5. Others(r) /\ pc'[r] = s /\ found'[r] = there
  BY <1>1, <1>2 DEF Others, IInv, TInv
<1>6. BranchOK(r) /\ asked[r] \in Proposal
      /\ \A q \in Request \ {r} : pc[q] \in Working => head[q] # head[r]
  BY <1>1 DEF IInv, BranchInv, Alone, AskedInv, Working
<1>7. BranchOK(r)' /\ asked'[r] \in Proposal /\ head'[r] = head[r]
  BY <1>1, <1>2, <1>3, <1>5, <1>6 DEF BranchOK
<1>8. open'[head[r]] = None
  BY <1>1, <1>6 DEF BranchOK
<1> QED BY <1>1, <1>4, <1>5, <1>6, <1>7, <1>8, CallInv

\* A commit of files of the request.
LEMMA PushBranch ==
    ASSUME IInv, NEW r \in Request, pc[r] \in Working, pc[r] # "propose",
           NEW ch \in ChangeSet, DOMAIN ch \subseteq DOMAIN changes[r],
           Push(head[r], ch)
    PROVE  /\ tree' \in [Head -> Files \cup {None}]
           /\ tree'[head[r]] \in Files
           /\ tree'[head[r]] = Applied(tree[head[r]], ch)
           /\ \A f \in File \ DOMAIN changes[r] : tree'[head[r]][f] = root[head[r]][f]
           /\ \A h \in Head \ {head[r]} : tree'[h] = tree[h]
<1>1. /\ tree[head[r]] \in Files /\ head[r] \in Head
      /\ \A f \in File \ DOMAIN changes[r] : tree[head[r]][f] = root[head[r]][f]
      /\ tree \in [Head -> Files \cup {None}]
  BY DEF IInv, TInv, BranchInv, BranchOK
<1>2. tree' = [tree EXCEPT ![head[r]] = Applied(tree[head[r]], ch)]
  BY DEF Push
<1>3. Applied(tree[head[r]], ch) \in Files
      /\ \A f \in File \ DOMAIN ch :
            Applied(tree[head[r]], ch)[f] = tree[head[r]][f]
  BY <1>1, AppliedType
<1> QED BY <1>1, <1>2, <1>3

\* A working call: its request, and that no other call has its branch.
LEMMA WorkingCall ==
    ASSUME IInv, NEW r \in Request, pc[r] \in Working
    PROVE  /\ BranchOK(r) /\ asked[r] \in Proposal /\ changes[r] \in ChangeSet
           /\ head[r] \in Head
           /\ \A q \in Request \ {r} : pc[q] \in Working => head[q] # head[r]
BY DEF IInv, TInv, BranchInv, Alone, AskedInv, Working

LEMMA CommitInv ==
    ASSUME IInv, NEW r \in Request, CommitClean(r) \/ Commit(r)
    PROVE  IInv'
<1>1. UNCHANGED <<provider, base, root, open, asked, head, changes, found, failures,
                  outdated, overtaken, spoiled>>
  BY DEF CommitClean, Commit, obsVars
<1>2. pc[r] \in Working /\ pc[r] # "propose"
  BY DEF CommitClean, Commit, Go, Working
<1>3. /\ BranchOK(r) /\ asked[r] \in Proposal /\ changes[r] \in ChangeSet
      /\ head[r] \in Head
      /\ \A q \in Request \ {r} : pc[q] \in Working => head[q] # head[r]
  BY <1>2, WorkingCall
<1>4. open'[head[r]] = None /\ asked'[r] \in Proposal /\ head'[r] = head[r]
  BY <1>1, <1>3 DEF BranchOK
<1>5. CASE CommitClean(r)
  <2>1. pc[r] = "clean" /\ pc' = [pc EXCEPT ![r] = "commit"] /\ Push(head[r], Clean(r))
    BY <1>5 DEF CommitClean, Go
  <2>2. Clean(r) \in ChangeSet /\ DOMAIN Clean(r) \subseteq DOMAIN changes[r]
    BY <1>3, <2>1, CleanType DEF BranchOK, IInv
  <2>3. TInv'
    BY <1>1, <1>2, <2>1, <2>2, PushBranch DEF IInv, TInv, Steps
  <2>4. Others(r) /\ pc'[r] = "commit"
    BY <1>1, <2>1 DEF Others, IInv, TInv
  <2>5. BranchOK(r)'
    BY <1>1, <1>2, <1>3, <2>1, <2>2, <2>4, PushBranch DEF BranchOK
  <2>6. \A h \in Head \ {head[r]} : tree'[h] = tree[h] /\ root'[h] = root[h]
                                     /\ open'[h] = open[h]
    BY <1>1, <1>2, <2>1, <2>2, PushBranch
  <2> QED BY <1>3, <1>4, <2>3, <2>4, <2>5, <2>6, CallInv
<1>6. CASE Commit(r)
  <2>1. pc[r] = "commit" /\ pc' = [pc EXCEPT ![r] = "propose"]
        /\ Push(head[r], changes[r])
    BY <1>6 DEF Commit, Go
  <2>2. TInv'
    BY <1>1, <1>2, <1>3, <2>1, PushBranch DEF IInv, TInv, Steps
  <2>3. Others(r) /\ pc'[r] = "propose"
    BY <1>1, <2>1 DEF Others, IInv, TInv
  <2>4. tree'[head[r]] = Applied(root[head[r]], changes[r])
    <3>1. tree'[head[r]] = Applied(tree[head[r]], changes[r])
      BY <1>2, <1>3, <2>1, PushBranch
    <3>2. \A f \in File \ DOMAIN changes[r] : tree[head[r]][f] = root[head[r]][f]
      BY <1>3 DEF BranchOK
    <3> QED BY <3>1, <3>2, AppliedSame
  <2>5. BranchOK(r)'
    BY <1>1, <1>2, <1>3, <2>1, <2>3, <2>4, PushBranch DEF BranchOK
  <2>6. \A h \in Head \ {head[r]} : tree'[h] = tree[h] /\ root'[h] = root[h]
                                     /\ open'[h] = open[h]
    BY <1>1, <1>2, <1>3, <2>1, PushBranch
  <2> QED BY <1>3, <1>4, <2>2, <2>3, <2>5, <2>6, CallInv
<1> QED BY <1>5, <1>6

\* The pull request of a call that has come to it.
LEMMA OpenRequest ==
    ASSUME IInv, NEW r \in Request, pc[r] = "propose", Open(r), tree' = tree, root' = root
    PROVE  /\ open' \in [Head -> Opened \cup {None}]
           /\ tree'[head[r]] # None
           /\ tree'[head[r]] = Applied(root'[head[r]], open'[head[r]].changes)
           /\ \A h \in Head \ {head[r]} : tree'[h] = tree[h] /\ root'[h] = root[h]
                                           /\ open'[h] = open[h]
<1>1. /\ BranchOK(r) /\ asked[r] \in Proposal /\ changes[r] \in ChangeSet
      /\ head[r] \in Head
  BY WorkingCall DEF Working
<1>2. [asked |-> asked[r], changes |-> changes[r]] \in Opened
  BY <1>1 DEF Opened
<1>3. open \in [Head -> Opened \cup {None}]
      /\ open' = [open EXCEPT ![head[r]] = [asked |-> asked[r], changes |-> changes[r]]]
  BY DEF Open, IInv, TInv
<1>4. tree[head[r]] # None /\ tree[head[r]] = Applied(root[head[r]], changes[r])
  BY <1>1, NoneIsNoFiles DEF BranchOK
<1> QED BY <1>1, <1>2, <1>3, <1>4

LEMMA ProposeInv ==
    ASSUME IInv, NEW r \in Request, Propose(r)
    PROVE  IInv'
<1>1. /\ pc[r] = "propose" /\ Open(r) /\ pc' = [pc EXCEPT ![r] = "done"]
      /\ asked' = [asked EXCEPT ![r] = None] /\ head' = [head EXCEPT ![r] = NoName]
      /\ changes' = [changes EXCEPT ![r] = Nothing] /\ found' = [found EXCEPT ![r] = {}]
      /\ outdated' = outdated \ {r}
      /\ UNCHANGED <<provider, base, tree, root, failures, overtaken, spoiled>>
  BY DEF Propose, Go
<1>2. NoName \in Head
  BY DEF Head
<1>3. TInv'
  BY <1>1, <1>2, OpenRequest, NothingType DEF IInv, TInv, Steps
<1>4. Others(r) /\ pc'[r] = "done"
  BY <1>1 DEF Others, IInv, TInv
<1>5. pc'[r] \notin Working
  BY <1>4 DEF Working
<1>6. \A q \in Request \ {r} : pc[q] \in Working => head[q] # head[r]
  BY <1>1, WorkingCall DEF Working
<1>7. /\ tree'[head[r]] # None
      /\ tree'[head[r]] = Applied(root'[head[r]], open'[head[r]].changes)
      /\ \A h \in Head \ {head[r]} : tree'[h] = tree[h] /\ root'[h] = root[h]
                                      /\ open'[h] = open[h]
  BY <1>1, OpenRequest
<1> QED BY <1>3, <1>4, <1>5, <1>6, <1>7, CallInv

LEMMA StepFailsInv ==
    ASSUME IInv, NEW r \in Request, StepFails(r)
    PROVE  IInv'
<1>1. /\ pc[r] \in Working /\ Fail(r)
      /\ UNCHANGED <<provider, base, root, asked, head, changes, found, outdated,
                     overtaken, spoiled>>
  BY DEF StepFails, Working, obsVars
<1>2. failures' \in 0 .. MaxFailures /\ pc' = [pc EXCEPT ![r] = "failed"]
  BY <1>1, FailType DEF IInv
<1>3. Others(r) /\ pc'[r] = "failed" /\ pc'[r] \notin Working
  BY <1>1, <1>2 DEF Others, IInv, TInv, Working
<1>4. /\ BranchOK(r) /\ asked[r] \in Proposal /\ changes[r] \in ChangeSet
      /\ \A q \in Request \ {r} : pc[q] \in Working => head[q] # head[r]
  BY <1>1, WorkingCall
<1>5. asked'[r] \in Proposal
  BY <1>1, <1>4
<1>6. CASE UNCHANGED <<tree, open>>
  <2>1. TInv'
    BY <1>1, <1>2, <1>6 DEF IInv, TInv, Steps
  <2> QED BY <1>1, <1>3, <1>5, <1>6, <2>1, QuietInv
<1>7. ASSUME NEW ch \in ChangeSet, DOMAIN ch \subseteq DOMAIN changes[r],
             pc[r] # "propose", Push(head[r], ch), open' = open
      PROVE  IInv'
  <2>1. TInv'
    BY <1>1, <1>2, <1>7, PushBranch DEF IInv, TInv, Steps
  <2>2. open'[head[r]] = None
    BY <1>4, <1>7 DEF BranchOK
  <2>3. \A h \in Head \ {head[r]} : tree'[h] = tree[h] /\ root'[h] = root[h]
                                     /\ open'[h] = open[h]
    BY <1>1, <1>7, PushBranch
  <2> QED BY <1>3, <1>4, <1>5, <2>1, <2>2, <2>3, CallInv
<1>8. CASE pc[r] = "clean" /\ Push(head[r], Clean(r)) /\ open' = open
  <2>1. Clean(r) \in ChangeSet /\ DOMAIN Clean(r) \subseteq DOMAIN changes[r]
    BY <1>4, <1>8, CleanType DEF BranchOK, IInv
  <2> QED BY <1>7, <1>8, <2>1
<1>9. CASE pc[r] = "commit" /\ Push(head[r], changes[r]) /\ open' = open
  BY <1>4, <1>7, <1>9
<1>10. CASE pc[r] = "propose" /\ Open(r) /\ tree' = tree
  <2>1. TInv'
    BY <1>1, <1>2, <1>10, OpenRequest DEF IInv, TInv, Steps
  <2>2. /\ tree'[head[r]] # None
        /\ tree'[head[r]] = Applied(root'[head[r]], open'[head[r]].changes)
        /\ \A h \in Head \ {head[r]} : tree'[h] = tree[h] /\ root'[h] = root[h]
                                        /\ open'[h] = open[h]
    BY <1>1, <1>10, OpenRequest
  <2> QED BY <1>3, <1>4, <1>5, <2>1, <2>2, CallInv
<1> QED BY <1>6, <1>8, <1>9, <1>10 DEF StepFails

LEMMA ReviewerInv ==
    ASSUME IInv, NEW h \in Head, Merge(h) \/ Close(h) \/ DeleteBranch(h)
    PROVE  IInv'
<1>1. /\ ~Busy(h) /\ UNCHANGED <<provider, failures, overtaken>> /\ UNCHANGED callVars
      /\ UNCHANGED <<pc, asked, head, changes, found>>
  BY DEF Merge, Close, DeleteBranch, obsVars, callVars
<1>2. /\ open'[h] = None /\ open' \in [Head -> Opened \cup {None}]
      /\ \A k \in Head \ {h} : open'[k] = open[k]
  BY DEF Merge, Close, DeleteBranch, IInv, TInv
<1>3. /\ tree' \in [Head -> Files \cup {None}] /\ root' \in [Head -> Files \cup {None}]
      /\ \A k \in Head \ {h} : tree'[k] = tree[k] /\ root'[k] = root[k]
  BY DEF Merge, Close, DeleteBranch, DropBranch, IInv, TInv
<1>4. base' \in Files
  <2>1. base \in Files
    BY DEF IInv, TInv
  <2>2. CASE Merge(h)
    <3>1. tree[h] \in Files
      BY <2>2 DEF Merge, IInv, TInv, ProposesRequest
    <3>2. Merged(h) \in Files
      BY <2>1, <3>1 DEF Merged, Files
    <3> QED BY <2>2, <3>2 DEF Merge
  <2>3. CASE Close(h) \/ DeleteBranch(h)
    BY <2>1, <2>3 DEF Close, DeleteBranch
  <2> QED BY <2>2, <2>3
<1>5. outdated' \in SUBSET Request
  BY DEF Merge, Close, DeleteBranch, obsVars, Outdates, IInv, TInv
<1>6. spoiled' \in BOOLEAN
  <2>1. CASE Merge(h)
    <3>1. spoiled' = (spoiled \/ h \in overtaken)
      BY <2>1 DEF Merge
    <3> QED BY <3>1
  <2>2. CASE Close(h) \/ DeleteBranch(h)
    BY <2>2 DEF Close, DeleteBranch, obsVars, IInv, TInv
  <2> QED BY <2>1, <2>2
<1>7. TInv'
  BY <1>1, <1>2, <1>3, <1>4, <1>5, <1>6 DEF IInv, TInv
<1> QED BY <1>1, <1>2, <1>3, <1>7, ReviewInv

LEMMA NextInv == IInv /\ [Next]_vars => IInv'
<1> SUFFICES ASSUME IInv, [Next]_vars PROVE IInv'
  OBVIOUS
<1>1. ASSUME NEW r \in Request, Create(r) \/ Edit(r) \/ Delete(r) PROVE IInv'
  BY <1>1, RequestInv
<1>2. ASSUME NEW r \in Request, CallStep(r) PROVE IInv'
  BY <1>2, PrepareInv, CreateBranchInv, CreateBranchFailsInv, GetUpdatedFilesInv,
     CommitInv, StepFailsInv, ProposeInv DEF CallStep
<1>3. ASSUME NEW r \in Request, Retry(r) PROVE IInv'
  BY <1>3, PrepareInv
<1>4. ASSUME NEW h \in Head, Merge(h) \/ Close(h) \/ DeleteBranch(h) PROVE IInv'
  BY <1>4, ReviewerInv
<1>5. CASE UNCHANGED vars
  <2>1. UNCHANGED <<provider, base, tree, root, open, pc, asked, head, changes, found,
                    failures, outdated, overtaken, spoiled>>
    BY <1>5 DEF vars, gitVars, callVars, obsVars
  <2>2. TInv'
    BY <2>1 DEF IInv, TInv
  <2>3. BranchInv'
    BY <2>1 DEF IInv, BranchInv, BranchOK
  <2>4. Alone' /\ AskedInv' /\ ProposesRequest'
    BY <2>1 DEF IInv, Alone, AskedInv, ProposesRequest
  <2> QED BY <2>2, <2>3, <2>4 DEF IInv
<1> QED BY <1>1, <1>2, <1>3, <1>4, <1>5 DEF Next

LEMMA PullRequestsInvariance == Spec => []IInv
<1> QED BY InitInv, NextInv, PTL DEF Spec

\* The git server and the calls stay in their states, and files have contents
\* that some request may ask for, for any requests and clusters.
THEOREM TypeCorrect == Spec => []TypeOK
<1>1. ASSUME TInv PROVE TypeOK
  <2>1. \A h \in Head : open[h] # None => open[h].asked \in Proposal
    BY <1>1 DEF TInv, Opened
  <2>2. \A r \in Request :
          /\ DOMAIN changes[r] \subseteq File
          /\ \A f \in File : f \in DOMAIN changes[r] => changes[r][f] \in Contents
    <3>1. \A r \in Request : changes[r] \in ChangeSet
      BY <1>1 DEF TInv
    <3> QED BY <3>1, ChangeSetType
  <2> QED BY <1>1, <2>1, <2>2 DEF TInv, TypeOK, Steps
<1>2. IInv => TypeOK
  BY <1>1 DEF IInv
<1> QED BY <1>2, PullRequestsInvariance, PTL

\* Every open pull request proposes what its request asks for and nothing
\* else, for any number of requests that share branches, fail at any call and
\* are sent again, and with each provider (CreatePullRequest of pkg/git: a
\* branch that exists is an error).
THEOREM OnlyItsRequest == Spec => []ProposesRequest
<1>1. IInv => ProposesRequest
  BY DEF IInv
<1> QED BY <1>1, PullRequestsInvariance, PTL

-----------------------------------------------------------------------------
(* What the base branch has.                                               *)

\* What a cluster of value v has in file f.
Shape(v, f) == IF v # Absent /\ f \in FilesOf(v) THEN Generated(v, f) ELSE Absent

\* Cluster c has the files of its manifest and no others.
ClusterOK(files, c) ==
    LET v == files[Manifest(c)] IN
    /\ v # Absent => v \in Value /\ v.cluster = c
    /\ \A p \in Part : files[<<c, p>>] = Shape(v, <<c, p>>)

Consistent(files) == \A c \in Cluster : ClusterOK(files, c)

LEMMA FilesOfMember ==
    ASSUME NEW v \in Value
    PROVE  /\ v.cluster \in Cluster /\ v # Absent
           /\ FilesOf(v) \subseteq {v.cluster} \X Part
           /\ Manifest(v.cluster) \in FilesOf(v)
           /\ Generated(v, Manifest(v.cluster)) = v
           /\ \A f : Generated(v, f) # Absent
<1>1. v \in AllValues /\ v.cluster \in Cluster /\ v.kustomizations \in SUBSET Kustomization
  BY PullRequestsAssumption DEF AllValues
<1>2. FilesOf(v) \subseteq {v.cluster} \X Part
  BY <1>1 DEF FilesOf, Rendered, Kustomizations, Profiles, Manifest, Part
<1>3. Manifest(v.cluster) \in FilesOf(v)
  BY DEF FilesOf, Rendered
<1>4. Generated(v, Manifest(v.cluster)) = v
  BY DEF Generated, Manifest
<1>5. \A f : Generated(v, f) \in AllValues
  <2> TAKE f
  <2>1. [v EXCEPT !.kustomizations = {}] \in AllValues
    BY <1>1 DEF AllValues
  <2>2. [v EXCEPT !.profiles = {}, !.kustomizations = {f[2]} \cap Kustomization] \in AllValues
    BY <1>1 DEF AllValues
  <2> QED BY <1>1, <2>1, <2>2 DEF Generated
<1> QED BY <1>1, <1>2, <1>3, <1>4, <1>5, PullRequestsAssumption

\* The manifest has the value that decides about the rest of the files.
LEMMA ConsistentFollows == Consistent(base) => BaseFollows
<1> SUFFICES ASSUME Consistent(base), NEW c \in Cluster
             PROVE  LET here == {f \in {c} \X Part : base[f] # Absent}
                        v    == base[Manifest(c)]
                    IN IF v = Absent
                       THEN here = {}
                       ELSE here = FilesOf(v) /\ \A f \in here : base[f] = Generated(v, f)
  BY DEF BaseFollows
<1> DEFINE v == base[Manifest(c)]
<1>1. ClusterOK(base, c)
  BY DEF Consistent
<1>2. \A f \in {c} \X Part : base[f] = Shape(v, f)
  BY <1>1 DEF ClusterOK
<1>3. CASE v = Absent
  BY <1>2, <1>3 DEF Shape
<1>4. CASE v # Absent
  <2>1. v \in Value /\ v.cluster = c
    BY <1>1, <1>4 DEF ClusterOK
  <2>2. FilesOf(v) \subseteq {c} \X Part /\ \A f : Generated(v, f) # Absent
    BY <2>1, FilesOfMember
  <2> QED BY <1>2, <1>4, <2>2 DEF Shape
<1> QED BY <1>3, <1>4

\* The kinds of files never mix, so that an edit deletes the files that the
\* new values do not have.
LEMMA DeletedFiles ==
    ASSUME NEW new \in Value, NEW old \in Value
    PROVE  Deleted(old, new) = FilesOf(old) \ FilesOf(new)
<1>1. \A v \in Value : v.kustomizations \in SUBSET Kustomization
  BY PullRequestsAssumption DEF AllValues
<1>2. \A v \in Value : \A f :
        /\ f \in Rendered(v) => f[2] = "manifest"
        /\ f \in Profiles(v) => f[2] = "profiles"
        /\ f \in Kustomizations(v) => f[2] # "manifest" /\ f[2] # "profiles"
  BY <1>1, PullRequestsAssumption DEF Rendered, Profiles, Kustomizations, Manifest
<1>3. \A f \in Rendered(old) : f \notin Profiles(new) /\ f \notin Kustomizations(new)
  BY <1>2
<1>4. \A f \in Profiles(old) : f \notin Rendered(new) /\ f \notin Kustomizations(new)
  BY <1>2
<1>5. \A f \in Kustomizations(old) : f \notin Rendered(new) /\ f \notin Profiles(new)
  BY <1>2
<1> QED BY <1>3, <1>4, <1>5 DEF Deleted, FilesOf

LEMMA WrittenFiles ==
    ASSUME NEW files, NEW new \in Value, NEW old \in Value \cup {None}, NEW f \in File
    PROVE  Applied(files, GetFiles(new, old))[f] =
             IF f \in FilesOf(new) THEN Generated(new, f)
             ELSE IF old # None /\ f \in FilesOf(old) THEN Absent ELSE files[f]
<1> DEFINE deleted == IF old = None THEN {} ELSE Deleted(old, new)
           ch == GetFiles(new, old)
<1>1. deleted = IF old = None THEN {} ELSE FilesOf(old) \ FilesOf(new)
  BY DeletedFiles
<1>2. ch = [g \in FilesOf(new) \cup deleted |->
               IF g \in deleted THEN Absent ELSE Generated(new, g)]
  BY DEF GetFiles
<1>3. Applied(files, ch)[f] = IF f \in DOMAIN ch THEN ch[f] ELSE files[f]
  BY DEF Applied
<1> HIDE DEF ch, deleted
<1>4. CASE f \in FilesOf(new)
  BY <1>1, <1>2, <1>3, <1>4 DEF ch
<1>5. CASE f \notin FilesOf(new)
  BY <1>1, <1>2, <1>3, <1>5 DEF ch
<1> QED BY <1>4, <1>5

\* What a creation, an edit, or an edit that moves a cluster leaves.
LEMMA WriteConsistent ==
    ASSUME Consistent(base), NEW new \in Value, NEW old \in Value \cup {None}, NEW c \in Cluster,
           old # None => old = base[Manifest(c)],
           old = None \/ new.cluster # c => base[Manifest(new.cluster)] = Absent
    PROVE  Consistent(Applied(base, GetFiles(new, old)))
<1> DEFINE after == Applied(base, GetFiles(new, old))
<1>0. old # None => old.cluster = c /\ old # Absent
  BY FilesOfMember DEF Consistent, ClusterOK
<1>1. \A f \in File :
        after[f] = IF f \in FilesOf(new) THEN Generated(new, f)
                   ELSE IF old # None /\ f \in FilesOf(old) THEN Absent ELSE base[f]
  BY WrittenFiles
<1> HIDE DEF after
<1> SUFFICES ASSUME NEW d \in Cluster PROVE ClusterOK(after, d)
  BY DEF Consistent, after
<1>2. /\ \A p \in Part : <<d, p>> \in File
      /\ Manifest(d) \in File /\ Manifest(d) = <<d, "manifest">> /\ "manifest" \in Part
  BY DEF File, Manifest, Part
<1>3. \A p \in Part : base[<<d, p>>] = Shape(base[Manifest(d)], <<d, p>>)
  BY DEF Consistent, ClusterOK
<1>4. CASE d = new.cluster
  <2>1. after[Manifest(d)] = new
    BY <1>1, <1>2, <1>4, FilesOfMember
  <2>2. ASSUME NEW p \in Part PROVE after[<<d, p>>] = Shape(new, <<d, p>>)
    <3>1. CASE <<d, p>> \in FilesOf(new)
      BY <1>1, <1>2, <3>1, FilesOfMember DEF Shape
    <3>2. CASE <<d, p>> \notin FilesOf(new)
      <4>1. CASE old = None \/ d # c
        BY <1>1, <1>2, <1>3, <1>4, <3>2, <4>1 DEF Shape
      <4>2. CASE old # None /\ d = c
        BY <1>1, <1>2, <1>3, <3>2, <4>2 DEF Shape
      <4> QED BY <4>1, <4>2
    <3> QED BY <3>1, <3>2
  <2> QED BY <1>4, <2>1, <2>2 DEF ClusterOK
<1>5. CASE d # new.cluster
  <2>1. \A p \in Part : <<d, p>> \notin FilesOf(new)
    BY <1>5, FilesOfMember
  <2>2. CASE old # None /\ d = c
    <3>1. \A p \in Part : after[<<d, p>>] = Absent
      BY <1>1, <1>2, <1>3, <2>1, <2>2 DEF Shape
    <3> QED BY <1>2, <3>1 DEF ClusterOK, Shape
  <2>3. CASE old = None \/ d # c
    <3>1. \A p \in Part : old # None => <<d, p>> \notin FilesOf(old)
      BY <1>0, <2>3, FilesOfMember
    <3>2. \A p \in Part : after[<<d, p>>] = base[<<d, p>>]
      BY <1>1, <1>2, <2>1, <3>1
    <3> QED BY <1>2, <3>2 DEF Consistent, ClusterOK
  <2> QED BY <2>2, <2>3
<1> QED BY <1>4, <1>5

LEMMA DeleteConsistent ==
    ASSUME Consistent(base), NEW c \in Cluster
    PROVE  Consistent(Applied(base, Deletion(c)))
<1> DEFINE S == {c} \X ({"manifest"} \cup {p \in Part \ {"manifest"} :
                                              base[<<c, p>>] # Absent})
           after == Applied(base, Deletion(c))
<1>1. Deletion(c) = [f \in S |-> Absent]
  BY DEF Deletion
<1>2. \A f \in File : after[f] = IF f \in S THEN Absent ELSE base[f]
  BY <1>1 DEF Applied
<1> HIDE DEF after
<1> SUFFICES ASSUME NEW d \in Cluster PROVE ClusterOK(after, d)
  BY DEF Consistent, after
<1>3. /\ \A p \in Part : <<d, p>> \in File
      /\ Manifest(d) = <<d, "manifest">> /\ "manifest" \in Part
  BY DEF File, Manifest, Part
<1>4. CASE d = c
  <2>1. \A p \in Part : after[<<d, p>>] = Absent
    BY <1>2, <1>3, <1>4
  <2> QED BY <1>3, <2>1 DEF ClusterOK, Shape
<1>5. CASE d # c
  <2>1. \A p \in Part : after[<<d, p>>] = base[<<d, p>>]
    BY <1>2, <1>3, <1>5
  <2> QED BY <1>3, <2>1 DEF Consistent, ClusterOK
<1> QED BY <1>4, <1>5

LEMMA NothingConsistent ==
    ASSUME NEW files, Consistent(files)
    PROVE  Consistent(Applied(files, Nothing))
<1>1. \A f \in File : Applied(files, Nothing)[f] = files[f]
  BY DEF Applied, Nothing
<1> DEFINE after == Applied(files, Nothing)
<1> HIDE DEF after
<1> SUFFICES ASSUME NEW d \in Cluster PROVE ClusterOK(after, d)
  BY DEF Consistent, after
<1>2. /\ \A p \in Part : <<d, p>> \in File
      /\ Manifest(d) = <<d, "manifest">> /\ "manifest" \in Part
  BY DEF File, Manifest, Part
<1>3. \A p \in Part : after[<<d, p>>] = files[<<d, p>>]
  BY <1>1, <1>2 DEF after
<1> QED BY <1>2, <1>3 DEF Consistent, ClusterOK

\* Changes to clusters that have stayed as they were.
LEMMA ElsewhereConsistent ==
    ASSUME NEW a, NEW b, NEW ch, NEW R,
           Consistent(b), Consistent(Applied(a, ch)),
           \A f \in DOMAIN ch : f[1] \in R,
           \A f \in File : f[1] \in R => b[f] = a[f]
    PROVE  Consistent(Applied(b, ch))
<1> SUFFICES ASSUME NEW d \in Cluster PROVE ClusterOK(Applied(b, ch), d)
  BY DEF Consistent
<1>1. /\ \A p \in Part : <<d, p>> \in File /\ <<d, p>>[1] = d
      /\ Manifest(d) = <<d, "manifest">> /\ "manifest" \in Part
  BY DEF File, Manifest, Part
<1>2. CASE d \in R
  <2>1. \A p \in Part : Applied(b, ch)[<<d, p>>] = Applied(a, ch)[<<d, p>>]
    BY <1>1, <1>2 DEF Applied
  <2> QED BY <1>1, <2>1 DEF Consistent, ClusterOK
<1>3. CASE d \notin R
  <2>1. \A p \in Part : Applied(b, ch)[<<d, p>>] = b[<<d, p>>]
    BY <1>1, <1>3 DEF Applied
  <2> QED BY <1>1, <2>1 DEF Consistent, ClusterOK
<1> QED BY <1>2, <1>3

\* A merge replaces all the files of a cluster or none: if any file differs
\* the manifest does, and so the base branch has all of one side.
LEMMA MergeConsistent ==
    ASSUME Consistent(base), NEW h, Consistent(root[h]), Consistent(tree[h]), Mergeable(h)
    PROVE  Consistent(Merged(h))
<1> SUFFICES ASSUME NEW d \in Cluster PROVE ClusterOK(Merged(h), d)
  BY DEF Consistent
<1>1. /\ \A p \in Part : <<d, p>> \in File
      /\ Manifest(d) = <<d, "manifest">> /\ "manifest" \in Part
  BY DEF File, Manifest, Part
<1>2. ClusterOK(base, d) /\ ClusterOK(root[h], d) /\ ClusterOK(tree[h], d)
  BY DEF Consistent
<1>3. CASE Manifest(d) \in Changed(h)
  <2>1. base[Manifest(d)] = root[h][Manifest(d)] \/ base[Manifest(d)] = tree[h][Manifest(d)]
    BY <1>3 DEF Mergeable
  <2>2. \/ \A p \in Part : base[<<d, p>>] = root[h][<<d, p>>]
        \/ \A p \in Part : base[<<d, p>>] = tree[h][<<d, p>>]
    BY <1>2, <2>1 DEF ClusterOK
  <2>3. \A p \in Part : Merged(h)[<<d, p>>] = tree[h][<<d, p>>]
    BY <1>1, <2>2 DEF Merged, Changed
  <2> QED BY <1>1, <1>2, <2>3 DEF ClusterOK
<1>4. CASE Manifest(d) \notin Changed(h)
  <2>1. root[h][Manifest(d)] = tree[h][Manifest(d)]
    BY <1>1, <1>4 DEF Changed
  <2>2. \A p \in Part : root[h][<<d, p>>] = tree[h][<<d, p>>]
    BY <1>2, <2>1 DEF ClusterOK
  <2>3. \A p \in Part : Merged(h)[<<d, p>>] = base[<<d, p>>]
    BY <1>1, <2>2 DEF Merged, Changed
  <2> QED BY <1>1, <1>2, <2>3 DEF ClusterOK
<1> QED BY <1>3, <1>4

-----------------------------------------------------------------------------

\* Branch h was made from a consistent base, and the changes keep it so.
HeadOK(h, ch) == Consistent(root[h]) /\ Consistent(Applied(root[h], ch))

\* A call changes files of the clusters that it has read, and has no changes
\* before it has read them.
ChangesInv ==
    \A r \in Request :
        /\ pc[r] \in {"idle", "list", "done"} => changes[r] = Nothing
        /\ \A f \in DOMAIN changes[r] : f[1] \in Reads(asked[r])

\* The base branch is consistent, and stays so with the changes of any call
\* that is not outdated, and of any branch that was made for one.
KeepsInv ==
    ~spoiled =>
        /\ Consistent(base)
        /\ \A r \in Request \ outdated : Consistent(Applied(base, changes[r]))
        /\ \A r \in Request :
              pc[r] \in Working /\ head[r] \notin overtaken => HeadOK(head[r], changes[r])
        /\ \A h \in Head \ overtaken : open[h] # None => HeadOK(h, open[h].changes)

BaseInv == ChangesInv /\ KeepsInv

LEMMA InitBase == Init => BaseInv
<1> SUFFICES ASSUME Init PROVE BaseInv
  OBVIOUS
<1>1. ChangesInv
  BY DEF Init, ChangesInv, Nothing
<1>2. Consistent(base)
  <2>1. \A c \in Cluster, p \in Part : base[<<c, p>>] = Absent
    BY DEF Init, File
  <2>2. \A c \in Cluster : Manifest(c) = <<c, "manifest">> /\ "manifest" \in Part
    BY DEF Manifest, Part
  <2> QED BY <2>1, <2>2 DEF Consistent, ClusterOK, Shape
<1>3. KeepsInv
  BY <1>2, NothingConsistent DEF Init, KeepsInv, Working
<1> QED BY <1>1, <1>3 DEF BaseInv

\* A step of call r that makes no branch and merges none.
LEMMA CallBase ==
    ASSUME BaseInv, IInv, NEW r \in Request,
           UNCHANGED <<base, root, overtaken, spoiled>>,
           \A q \in Request \ {r} :
              /\ pc'[q] = pc[q] /\ asked'[q] = asked[q] /\ head'[q] = head[q]
              /\ changes'[q] = changes[q]
              /\ q \in outdated' <=> q \in outdated,
           pc'[r] \in {"idle", "list", "done"} => changes'[r] = Nothing,
           \A f \in DOMAIN changes'[r] : f[1] \in Reads(asked'[r]),
           ~spoiled /\ r \notin outdated' => Consistent(Applied(base, changes'[r])),
           pc'[r] \in Working =>
              pc[r] \in Working /\ head'[r] = head[r] /\ changes'[r] = changes[r],
           \A h \in Head :
              \/ open'[h] = open[h]
              \/ h = head[r] /\ pc[r] \in Working /\ open'[h].changes = changes[r]
    PROVE  BaseInv'
<1>1. ChangesInv'
  BY DEF BaseInv, ChangesInv, Reads
<1>2. \A h, ch : HeadOK(h, ch)' <=> HeadOK(h, ch')
  BY DEF HeadOK, Consistent, ClusterOK, Shape, FilesOf, Applied
<1>3. ASSUME ~spoiled'
      PROVE  /\ Consistent(base)'
             /\ \A q \in Request \ outdated' : Consistent(Applied(base, changes[q]))'
             /\ \A q \in Request :
                   (pc[q] \in Working /\ head[q] \notin overtaken => HeadOK(head[q], changes[q]))'
             /\ \A h \in Head \ overtaken' : (open[h] # None => HeadOK(h, open[h].changes))'
  <2>0. KeepsInv /\ ~spoiled
    BY <1>3 DEF BaseInv
  <2>1. Consistent(base)'
    BY <2>0 DEF KeepsInv, Consistent, ClusterOK
  <2>2. ASSUME NEW q \in Request \ outdated' PROVE Consistent(Applied(base', changes'[q]))
    BY <2>0, <2>2 DEF KeepsInv
  <2>3. ASSUME NEW q \in Request, pc'[q] \in Working, head'[q] \notin overtaken'
        PROVE  Consistent(root'[head'[q]]) /\ Consistent(Applied(root'[head'[q]], changes'[q]))
    BY <2>0, <2>3 DEF KeepsInv, HeadOK
  <2>4. ASSUME NEW h \in Head \ overtaken', open'[h] # None
        PROVE  Consistent(root'[h]) /\ Consistent(Applied(root'[h], open'[h].changes))
    BY <2>0, <2>4 DEF KeepsInv, HeadOK
  <2> QED BY <2>1, <2>2, <2>3, <2>4 DEF HeadOK
<1> QED BY <1>1, <1>3 DEF BaseInv, KeepsInv

LEMMA GetFilesDomain ==
    ASSUME NEW a \in Proposal, a.new # None
    PROVE  \A f \in DOMAIN GetFiles(a.new, a.old) : f[1] \in Reads(a)
<1>1. a.new \in Value /\ a.old \in Value \cup {None}
  BY DEF Proposal
<1>2. DOMAIN GetFiles(a.new, a.old) \subseteq
        FilesOf(a.new) \cup IF a.old = None THEN {} ELSE FilesOf(a.old)
  BY <1>1, DeletedFiles DEF GetFiles
<1>3. \A v \in Value : \A f \in FilesOf(v) : f[1] = v.cluster
  BY FilesOfMember
<1> QED BY <1>1, <1>2, <1>3 DEF Reads

LEMMA AskBase ==
    ASSUME BaseInv, IInv, NEW r \in Request, NEW a \in Proposal, NEW h, Ask(r, a, h),
           ~spoiled /\ a.new # None => Consistent(Applied(base, GetFiles(a.new, a.old)))
    PROVE  BaseInv'
<1>1. /\ UNCHANGED <<base, root, open, overtaken, spoiled, outdated>>
      /\ asked' = [asked EXCEPT ![r] = a] /\ head' = [head EXCEPT ![r] = h]
      /\ pc[r] = "idle"
      /\ pc' = [pc EXCEPT ![r] = IF a.new = None THEN "list" ELSE "branch"]
      /\ changes' = IF a.new = None THEN changes
                    ELSE [changes EXCEPT ![r] = GetFiles(a.new, a.old)]
  BY DEF Ask, Go, gitVars, obsVars
<1>2. \A q \in Request \ {r} :
        /\ pc'[q] = pc[q] /\ asked'[q] = asked[q] /\ head'[q] = head[q]
        /\ changes'[q] = changes[q]
  BY <1>1 DEF IInv, TInv
<1>3. asked'[r] = a /\ pc'[r] = IF a.new = None THEN "list" ELSE "branch"
  BY <1>1 DEF IInv, TInv
<1>4. CASE a.new = None
  <2>1. changes'[r] = Nothing
    BY <1>1, <1>4 DEF BaseInv, ChangesInv
  <2>2. ~spoiled => Consistent(Applied(base, changes'[r]))
    BY <2>1, NothingConsistent DEF BaseInv, KeepsInv
  <2>3. \A f \in DOMAIN changes'[r] : f[1] \in Reads(asked'[r])
    BY <2>1 DEF Nothing
  <2> QED BY <1>1, <1>2, <1>3, <1>4, <2>1, <2>2, <2>3, CallBase DEF Working
<1>5. CASE a.new # None
  <2>1. changes'[r] = GetFiles(a.new, a.old)
    BY <1>1, <1>5 DEF IInv, TInv
  <2>2. \A f \in DOMAIN changes'[r] : f[1] \in Reads(asked'[r])
    BY <1>3, <1>5, <2>1, GetFilesDomain
  <2> QED BY <1>1, <1>2, <1>3, <1>5, <2>1, <2>2, CallBase DEF Working
<1> QED BY <1>4, <1>5

LEMMA RequestBase ==
    ASSUME BaseInv, IInv, NEW r \in Request, Create(r) \/ Edit(r) \/ Delete(r)
    PROVE  BaseInv'
<1>0. ~spoiled => Consistent(base)
  BY DEF BaseInv, KeepsInv
<1>1. CASE Create(r)
  <2>1. PICK v \in Value :
          /\ base[Manifest(v.cluster)] = Absent
          /\ Ask(r, [new |-> v, old |-> None, cluster |-> v.cluster],
                 HeadOf(r, NameOf[v.cluster]))
    BY <1>1 DEF Create
  <2> DEFINE a == [new |-> v, old |-> None, cluster |-> v.cluster]
  <2>2. v.cluster \in Cluster
    BY FilesOfMember
  <2>3. a \in Proposal
    BY <2>2 DEF Proposal
  <2>4. ~spoiled => Consistent(Applied(base, GetFiles(v, None)))
    BY <1>0, <2>1, <2>2, WriteConsistent
  <2> QED BY <2>1, <2>3, <2>4, AskBase
<1>2. CASE Edit(r)
  <2>1. PICK v \in Value, c \in Cluster :
          /\ base[Manifest(c)] \in Value \ {v}
          /\ v.cluster # c => base[Manifest(v.cluster)] = Absent
          /\ Ask(r, [new |-> v, old |-> base[Manifest(c)], cluster |-> c],
                 HeadOf(r, NameOf[v.cluster]))
    BY <1>2 DEF Edit
  <2> DEFINE a == [new |-> v, old |-> base[Manifest(c)], cluster |-> c]
  <2>2. a \in Proposal
    BY <2>1 DEF Proposal
  <2>3. base[Manifest(c)] # None
    BY <2>1, PullRequestsAssumption
  <2>4. ~spoiled => Consistent(Applied(base, GetFiles(v, base[Manifest(c)])))
    BY <1>0, <2>1, <2>3, WriteConsistent
  <2> QED BY <2>1, <2>2, <2>4, AskBase
<1>3. CASE Delete(r)
  <2>1. PICK c \in Cluster :
          \E name : Ask(r, [new |-> None, old |-> None, cluster |-> c], HeadOf(r, name))
    BY <1>3 DEF Delete
  <2>2. PICK name : Ask(r, [new |-> None, old |-> None, cluster |-> c], HeadOf(r, name))
    BY <2>1
  <2>3. [new |-> None, old |-> None, cluster |-> c] \in Proposal
    BY DEF Proposal
  <2> QED BY <2>2, <2>3, AskBase
<1> QED BY <1>1, <1>2, <1>3

LEMMA PrepareBase ==
    ASSUME BaseInv, IInv, NEW r \in Request, List(r) \/ Retry(r)
    PROVE  BaseInv'
<1>0. ~spoiled => Consistent(base)
  BY DEF BaseInv, KeepsInv
<1>1. /\ UNCHANGED <<base, root, open, overtaken, spoiled, asked, head>>
      /\ outdated' \subseteq outdated /\ outdated \ {r} \subseteq outdated'
      /\ asked[r] \in Proposal
  BY DEF List, Retry, Go, gitVars, obsVars, IInv, AskedInv
<1>2. PICK t \in {"branch", "list"} : pc' = [pc EXCEPT ![r] = t]
  BY DEF List, Retry, Go
<1>3. pc'[r] = t /\ t \notin Working /\ \A q \in Request \ {r} : pc'[q] = pc[q]
  BY <1>2 DEF IInv, TInv, Working
<1>4. \/ changes' = [changes EXCEPT ![r] = Deletion(asked[r].cluster)] /\ t = "branch"
      \/ changes' = [changes EXCEPT ![r] = Nothing]
      \/ changes' = changes /\ outdated' = outdated /\ t = "branch"
  BY <1>3 DEF List, Retry, Go, obsVars, IInv, TInv
<1>5. \A q \in Request \ {r} : changes'[q] = changes[q]
  BY <1>4 DEF IInv, TInv
<1>6. /\ \A f \in DOMAIN changes'[r] : f[1] \in Reads(asked[r])
      /\ ~spoiled /\ r \notin outdated' => Consistent(Applied(base, changes'[r]))
      /\ t = "list" => changes'[r] = Nothing
  <2>1. changes \in [Request -> ChangeSet] /\ asked[r].cluster \in Cluster
    BY <1>1 DEF IInv, TInv, Proposal
  <2>2. CASE changes'[r] = Deletion(asked[r].cluster) /\ t = "branch"
    <3>1. \A f \in DOMAIN Deletion(asked[r].cluster) : f[1] = asked[r].cluster
      BY DEF Deletion
    <3> QED BY <1>0, <2>1, <2>2, <3>1, DeleteConsistent DEF Reads
  <2>3. CASE changes'[r] = Nothing
    BY <1>0, <2>3, NothingConsistent DEF Nothing
  <2>4. CASE changes' = changes /\ outdated' = outdated /\ t = "branch"
    BY <2>4 DEF BaseInv, ChangesInv, KeepsInv
  <2> QED BY <1>4, <2>1, <2>2, <2>3, <2>4
<1> QED BY <1>1, <1>3, <1>5, <1>6, CallBase

\* The steps between, which leave the changes of the call as they are.
LEMMA StepBase ==
    ASSUME BaseInv, IInv, NEW r \in Request,
           \/ ListFails(r) \/ GetUpdatedFiles(r) \/ CommitClean(r) \/ Commit(r)
           \/ CommitRefused(r) \/ StepFails(r)
           \/ CreateBranchFails(r) /\ UNCHANGED <<tree, root, overtaken>>
    PROVE  BaseInv'
<1>1. UNCHANGED <<base, root, overtaken, spoiled, asked, head, changes, outdated>>
  BY DEF ListFails, GetUpdatedFiles, CommitClean, Commit, CommitRefused, StepFails,
         CreateBranchFails, gitVars, obsVars
<1>2. PICK t : pc' = [pc EXCEPT ![r] = t] /\ (t \in Working => pc[r] \in Working)
               /\ t \notin {"idle", "list", "done"}
  BY DEF ListFails, GetUpdatedFiles, CommitClean, Commit, CommitRefused, StepFails,
         CreateBranchFails, Go, Fail, Working
<1>3. pc'[r] = t /\ \A q \in Request \ {r} : pc'[q] = pc[q]
  BY <1>2 DEF IInv, TInv
<1>4. \A h \in Head :
         \/ open'[h] = open[h]
         \/ h = head[r] /\ pc[r] \in Working /\ open'[h].changes = changes[r]
  <2>1. CASE StepFails(r) /\ pc[r] = "propose" /\ Open(r)
    BY <2>1 DEF Open, Working, IInv, TInv
  <2>2. CASE open' = open
    BY <2>2
  <2> QED BY <2>1, <2>2
          DEF ListFails, GetUpdatedFiles, CommitClean, Commit, CommitRefused, StepFails,
              CreateBranchFails, gitVars
<1>5. /\ \A f \in DOMAIN changes'[r] : f[1] \in Reads(asked'[r])
      /\ ~spoiled /\ r \notin outdated' => Consistent(Applied(base, changes'[r]))
  BY <1>1 DEF BaseInv, ChangesInv, KeepsInv
<1> QED BY <1>1, <1>2, <1>3, <1>4, <1>5, CallBase

LEMMA ProposeBase ==
    ASSUME BaseInv, IInv, NEW r \in Request, Propose(r)
    PROVE  BaseInv'
<1>1. /\ UNCHANGED <<base, root, overtaken, spoiled>> /\ outdated' = outdated \ {r}
      /\ pc[r] = "propose" /\ pc' = [pc EXCEPT ![r] = "done"]
      /\ asked' = [asked EXCEPT ![r] = None] /\ head' = [head EXCEPT ![r] = NoName]
      /\ changes' = [changes EXCEPT ![r] = Nothing] /\ Open(r)
  BY DEF Propose, Go
<1>2. /\ pc'[r] = "done" /\ changes'[r] = Nothing
      /\ \A q \in Request \ {r} :
            /\ pc'[q] = pc[q] /\ asked'[q] = asked[q] /\ head'[q] = head[q]
            /\ changes'[q] = changes[q] /\ (q \in outdated' <=> q \in outdated)
  BY <1>1 DEF IInv, TInv
<1>3. \A f \in DOMAIN changes'[r] : f[1] \in Reads(asked'[r])
  BY <1>2 DEF Nothing
<1>4. ~spoiled => Consistent(Applied(base, changes'[r]))
  BY <1>2, NothingConsistent DEF BaseInv, KeepsInv
<1>5. \A h \in Head :
         open'[h] = open[h] \/ (h = head[r] /\ open'[h].changes = changes[r])
  BY <1>1 DEF Open, IInv, TInv
<1>6. pc[r] \in Working /\ pc'[r] \notin Working
  BY <1>1, <1>2 DEF Working
<1> QED BY <1>1, <1>2, <1>3, <1>4, <1>5, <1>6, CallBase

\* A branch is made: if the call is not outdated, what the base branch has
\* now is what it was prepared for.
LEMMA BranchBase ==
    ASSUME BaseInv, IInv, NEW r \in Request, MakeBranch(r),
           CreateBranch(r) \/ CreateBranchFails(r)
    PROVE  BaseInv'
<1>1. /\ UNCHANGED <<base, open, spoiled, asked, head, changes, outdated>>
      /\ \A q \in Request \ {r} : pc'[q] = pc[q]
      /\ pc'[r] \notin {"idle", "list", "done"}
  BY DEF CreateBranch, CreateBranchFails, Go, Fail, IInv, TInv
<1>2. ChangesInv'
  BY <1>1 DEF BaseInv, ChangesInv
<1>3. /\ root'[head[r]] = base /\ open[head[r]] = None
      /\ \A h \in Head \ {head[r]} :
            root'[h] = root[h] /\ (h \in overtaken' <=> h \in overtaken)
      /\ \A q \in Request \ {r} : pc[q] \in Working => head[q] # head[r]
      /\ head[r] \notin overtaken' => r \notin outdated
      /\ \A q \in Request : head[q] \in Head
  BY NewBranch DEF MakeBranch, IInv, TInv
<1>4. ASSUME ~spoiled
      PROVE  /\ Consistent(base)
             /\ \A q \in Request \ outdated : Consistent(Applied(base, changes[q]))
             /\ \A q \in Request : pc'[q] \in Working /\ head[q] \notin overtaken' =>
                   Consistent(root'[head[q]]) /\ Consistent(Applied(root'[head[q]], changes[q]))
             /\ \A h \in Head \ overtaken' : open[h] # None =>
                   Consistent(root'[h]) /\ Consistent(Applied(root'[h], open[h].changes))
  <2>1. KeepsInv
    BY DEF BaseInv
  <2>2. ASSUME NEW q \in Request, pc'[q] \in Working, head[q] \notin overtaken'
        PROVE  Consistent(root'[head[q]]) /\ Consistent(Applied(root'[head[q]], changes[q]))
    <3>1. CASE q = r
      BY <1>3, <1>4, <2>1, <2>2, <3>1 DEF KeepsInv
    <3>2. CASE q # r
      BY <1>1, <1>3, <1>4, <2>1, <2>2, <3>2 DEF KeepsInv, HeadOK
    <3> QED BY <3>1, <3>2
  <2>3. ASSUME NEW h \in Head \ overtaken', open[h] # None
        PROVE  Consistent(root'[h]) /\ Consistent(Applied(root'[h], open[h].changes))
    BY <1>3, <1>4, <2>1, <2>3 DEF KeepsInv, HeadOK
  <2> QED BY <1>4, <2>1, <2>2, <2>3 DEF KeepsInv
<1>5. KeepsInv'
  BY <1>1, <1>4 DEF KeepsInv, HeadOK
<1> QED BY <1>2, <1>5 DEF BaseInv

LEMMA MergeBase ==
    ASSUME BaseInv, IInv, NEW h \in Head, Merge(h)
    PROVE  BaseInv'
<1>1. /\ open[h] # None /\ Mergeable(h) /\ ~Busy(h) /\ base' = Merged(h)
      /\ open' = [open EXCEPT ![h] = None]
      /\ root' = root \/ root' = [root EXCEPT ![h] = None]
      /\ outdated' = outdated \cup Outdates(h)
      /\ spoiled' = (spoiled \/ h \in overtaken)
      /\ UNCHANGED <<pc, asked, head, changes, found, overtaken>>
  BY DEF Merge, DropBranch, callVars
<1>2. ChangesInv'
  BY <1>1 DEF BaseInv, ChangesInv
<1>3. /\ open'[h] = None
      /\ \A k \in Head \ {h} : root'[k] = root[k] /\ open'[k] = open[k]
      /\ \A q \in Request : pc[q] \in Working => head[q] \in Head \ {h}
  BY <1>1 DEF IInv, TInv, Busy, Working
<1>4. ASSUME ~spoiled'
      PROVE  /\ Consistent(base')
             /\ \A q \in Request \ outdated' : Consistent(Applied(base', changes[q]))
             /\ \A q \in Request : pc[q] \in Working /\ head[q] \notin overtaken =>
                   Consistent(root'[head[q]]) /\ Consistent(Applied(root'[head[q]], changes[q]))
             /\ \A k \in Head \ overtaken : open'[k] # None =>
                   Consistent(root'[k]) /\ Consistent(Applied(root'[k], open'[k].changes))
  <2>1. KeepsInv /\ ~spoiled /\ h \notin overtaken
    BY <1>1, <1>4 DEF BaseInv
  <2>2. Consistent(root[h]) /\ Consistent(tree[h])
    BY <1>1, <2>1 DEF KeepsInv, HeadOK, IInv, ProposesRequest
  <2>3. Consistent(base')
    BY <1>1, <2>1, <2>2, MergeConsistent DEF KeepsInv
  <2>4. ASSUME NEW q \in Request \ outdated' PROVE Consistent(Applied(base', changes[q]))
    <3>1. CASE pc[q] \in {"idle", "list", "done"}
      BY <2>3, <3>1, NothingConsistent DEF BaseInv, ChangesInv
    <3>2. CASE pc[q] \notin {"idle", "list", "done"}
      <4>1. \A f \in Changed(h) : f[1] \in Reads(asked[q]) => tree[h][f] = base[f]
        BY <1>1, <2>4, <3>2 DEF Outdates
      <4>2. \A f \in File : f[1] \in Reads(asked[q]) => base'[f] = base[f]
        BY <1>1, <4>1 DEF Merged
      <4>3. Consistent(Applied(base, changes[q]))
        BY <1>1, <2>1, <2>4 DEF KeepsInv
      <4>4. \A f \in DOMAIN changes[q] : f[1] \in Reads(asked[q])
        BY DEF BaseInv, ChangesInv
      <4> QED BY <2>3, <4>2, <4>3, <4>4, ElsewhereConsistent
    <3> QED BY <3>1, <3>2
  <2>5. ASSUME NEW q \in Request, pc[q] \in Working, head[q] \notin overtaken
        PROVE  Consistent(root'[head[q]]) /\ Consistent(Applied(root'[head[q]], changes[q]))
    BY <1>3, <2>1, <2>5 DEF KeepsInv, HeadOK
  <2>6. ASSUME NEW k \in Head \ overtaken, open'[k] # None
        PROVE  Consistent(root'[k]) /\ Consistent(Applied(root'[k], open'[k].changes))
    BY <1>3, <2>1, <2>6 DEF KeepsInv, HeadOK
  <2> QED BY <2>3, <2>4, <2>5, <2>6
<1>5. KeepsInv'
  BY <1>1, <1>4 DEF KeepsInv, HeadOK
<1> QED BY <1>2, <1>5 DEF BaseInv

LEMMA ReviewBase ==
    ASSUME BaseInv, IInv, NEW h \in Head, Close(h) \/ DeleteBranch(h)
    PROVE  BaseInv'
<1>1. /\ UNCHANGED <<base, pc, asked, head, changes, found, outdated, overtaken, spoiled>>
      /\ ~Busy(h)
  BY DEF Close, DeleteBranch, callVars, obsVars
<1>2. ChangesInv'
  BY <1>1 DEF BaseInv, ChangesInv
<1>3. /\ open'[h] = None
      /\ \A k \in Head \ {h} : root'[k] = root[k] /\ open'[k] = open[k]
      /\ \A q \in Request : pc[q] \in Working => head[q] \in Head \ {h}
  BY <1>1 DEF Close, DeleteBranch, DropBranch, IInv, TInv, Busy, Working
<1>4. KeepsInv'
  BY <1>1, <1>3 DEF BaseInv, KeepsInv, HeadOK
<1> QED BY <1>2, <1>4 DEF BaseInv

LEMMA NextBase == BaseInv /\ IInv /\ [Next]_vars => BaseInv'
<1> SUFFICES ASSUME BaseInv, IInv, [Next]_vars PROVE BaseInv'
  OBVIOUS
<1>1. ASSUME NEW r \in Request, CallStep(r) PROVE BaseInv'
  <2>1. CASE CreateBranch(r) \/ CreateBranchFails(r)
    <3>1. MakeBranch(r) \/ (CreateBranchFails(r) /\ UNCHANGED <<tree, root, overtaken>>)
      BY <2>1 DEF CreateBranch, CreateBranchFails
    <3> QED BY <2>1, <3>1, BranchBase, StepBase
  <2>2. CASE ~(CreateBranch(r) \/ CreateBranchFails(r))
    BY <1>1, <2>2, PrepareBase, StepBase, ProposeBase DEF CallStep
  <2> QED BY <2>1, <2>2
<1>2. CASE UNCHANGED vars
  <2>1. UNCHANGED <<base, root, open, pc, asked, head, changes, outdated, overtaken, spoiled>>
    BY <1>2 DEF vars, gitVars, callVars, obsVars
  <2> QED BY <2>1 DEF BaseInv, ChangesInv, KeepsInv, HeadOK
<1> QED BY <1>1, <1>2, RequestBase, PrepareBase, MergeBase, ReviewBase DEF Next

\* As long as no request is merged that was prepared from files which had
\* changed before its branch was made, the base branch has the files of the
\* values of each cluster, all and no others, for any requests and reviewers
\* (the handlers generate and delete the files of the clusters they read).
THEOREM BaseIsWhole == Spec => []BaseFollows
<1>1. BaseInv => BaseFollows
  BY ConsistentFollows DEF BaseInv, KeepsInv, BaseFollows
<1> QED BY InitBase, NextBase, PullRequestsInvariance, <1>1, PTL DEF Spec
-----------------------------------------------------------------------------
(* What a merge does to the clusters, seen without their files.            *)

\* The manifest of a cluster has a value of that cluster, or is not there.
ManifestsOK(files) ==
    \A c \in Cluster :
        files[Manifest(c)] = Absent
            \/ (files[Manifest(c)] \in Value /\ files[Manifest(c)].cluster = c)

\* A request as a client can send it.
AskedOK(a) ==
    /\ a \in Proposal
    /\ a.new = None => a.old = None
    /\ a.new # None /\ a.old = None => a.cluster = a.new.cluster
    /\ a.old # None => a.old.cluster = a.cluster /\ a.old # a.new

\* The changes make of the manifests what is asked for.
ManifestsAsked(a, ch) ==
    /\ \A c \in Cluster : Manifest(c) \in DOMAIN ch =>
          c \in Repo!Touched(a) /\ ch[Manifest(c)] = Repo!Wants(a, c)
    /\ a.new # None => \A c \in Repo!Touched(a) : Manifest(c) \in DOMAIN ch

\* What is to be replaced is what is there.
Seen(files, a) ==
    a.new # None => \A c \in Repo!Touched(a) : files[Manifest(c)] = Repo!Replaces(a, c)

\* A call that is not outdated replaces what the base branch has, and what
\* its branch was made from if that was not made too late.
CallSees(r) ==
    pc[r] \notin {"idle", "done"} =>
        /\ AskedOK(asked[r]) /\ ManifestsAsked(asked[r], changes[r])
        /\ pc[r] = "list" => asked[r].new = None
        /\ r \notin outdated => Seen(base, asked[r])
        /\ pc[r] \in Working /\ head[r] \notin overtaken => Seen(root[head[r]], asked[r])

HeadSees(h) ==
    open[h] # None =>
        /\ AskedOK(open[h].asked) /\ ManifestsAsked(open[h].asked, open[h].changes)
        /\ h \notin overtaken => Seen(root[h], open[h].asked)

SeesInv ==
    /\ ManifestsOK(base)
    /\ \A r \in Request : CallSees(r)
    /\ \A h \in Head : HeadSees(h)

-----------------------------------------------------------------------------

LEMMA ManifestInjective ==
    \A c, d : Manifest(c) = Manifest(d) => c = d
BY DEF Manifest

LEMMA ManifestFile ==
    \A c \in Cluster : Manifest(c) \in File /\ Manifest(c)[1] = c /\ Manifest(c)[2] = "manifest"
BY DEF Manifest, File, Part

\* The clusters a request is about.
LEMMA TouchedClusters ==
    ASSUME NEW a, AskedOK(a)
    PROVE  /\ Repo!Touched(a) \subseteq Cluster
           /\ Repo!Touched(a) \subseteq Reads(a)
           /\ a.cluster \in Repo!Touched(a)
           /\ a.new # None => a.new.cluster \in Repo!Touched(a)
           /\ \A c \in Repo!Touched(a) : c = a.cluster \/ (a.new # None /\ c = a.new.cluster)
<1>1. a.cluster \in Cluster /\ a.new \in Value \cup {None}
  BY DEF AskedOK, Proposal
<1>2. \A v \in Value : v.cluster \in Cluster
  BY FilesOfMember
<1> QED BY <1>1, <1>2 DEF Repo!Touched, Reads

\* A write changes what it is about.
LEMMA WantsOther ==
    ASSUME NEW a, AskedOK(a), a.new # None, NEW c \in Repo!Touched(a)
    PROVE  Repo!Wants(a, c) # Repo!Replaces(a, c)
<1>1. a.new \in Value /\ a.old \in Value \cup {None}
  BY DEF AskedOK, Proposal
<1>2. \A v \in Value : v # Absent
  BY FilesOfMember
<1>3. c = a.cluster \/ c = a.new.cluster
  BY TouchedClusters
<1> QED BY <1>1, <1>2, <1>3 DEF AskedOK, Repo!Wants, Repo!Replaces

LEMMA WantsType ==
    ASSUME NEW a, AskedOK(a), NEW c
    PROVE  \/ Repo!Wants(a, c) = Absent
           \/ Repo!Wants(a, c) \in Value /\ Repo!Wants(a, c).cluster = c
BY DEF AskedOK, Proposal, Repo!Wants

\* The files of a write have the manifests that it asks for.
LEMMA GetFilesAsked ==
    ASSUME NEW a, AskedOK(a), a.new # None
    PROVE  ManifestsAsked(a, GetFiles(a.new, a.old))
<1> DEFINE deleted == IF a.old = None THEN {} ELSE Deleted(a.old, a.new)
           ch == GetFiles(a.new, a.old)
<1>1. a.new \in Value /\ a.old \in Value \cup {None}
  BY DEF AskedOK, Proposal
<1>2. deleted = IF a.old = None THEN {} ELSE FilesOf(a.old) \ FilesOf(a.new)
  BY <1>1, DeletedFiles
<1>3. ch = [f \in FilesOf(a.new) \cup deleted |->
               IF f \in deleted THEN Absent ELSE Generated(a.new, f)]
  BY DEF GetFiles
<1>4. \A v \in Value, c \in Cluster :
         /\ Manifest(c) \in FilesOf(v) <=> c = v.cluster
         /\ Generated(v, Manifest(v.cluster)) = v
  <2> TAKE v \in Value, c \in Cluster
  <2>1. \A f \in FilesOf(v) : f[1] = v.cluster
    BY FilesOfMember
  <2> QED BY <2>1, ManifestFile, FilesOfMember
<1> HIDE DEF deleted, ch
<1>5. DOMAIN ch = FilesOf(a.new) \cup deleted
  BY <1>3
<1>6. ASSUME NEW c \in Cluster, Manifest(c) \in DOMAIN ch
      PROVE  c \in Repo!Touched(a) /\ ch[Manifest(c)] = Repo!Wants(a, c)
  <2>1. CASE c = a.new.cluster
    <3>1. Manifest(c) \in FilesOf(a.new) /\ Generated(a.new, Manifest(c)) = a.new
      BY <1>1, <1>4, <2>1
    <3>2. ch[Manifest(c)] = a.new
      BY <1>2, <1>3, <3>1
    <3> QED BY <2>1, <3>2, TouchedClusters DEF Repo!Wants
  <2>2. CASE c # a.new.cluster
    <3>1. Manifest(c) \notin FilesOf(a.new)
      BY <1>1, <1>4, <2>2
    <3>2. Manifest(c) \in deleted /\ a.old # None /\ Manifest(c) \in FilesOf(a.old)
      BY <1>2, <1>5, <1>6, <3>1
    <3>3. c = a.cluster
      BY <1>1, <1>4, <3>2 DEF AskedOK
    <3>4. ch[Manifest(c)] = Absent
      BY <1>3, <3>2
    <3> QED BY <2>2, <3>3, <3>4, TouchedClusters DEF Repo!Wants
  <2> QED BY <2>1, <2>2
<1>7. ASSUME NEW c \in Repo!Touched(a)
      PROVE  Manifest(c) \in DOMAIN ch
  <2>1. c \in Cluster /\ (c = a.cluster \/ c = a.new.cluster)
    BY TouchedClusters
  <2>2. CASE c = a.new.cluster
    BY <1>1, <1>4, <1>5, <2>1, <2>2
  <2>3. CASE c # a.new.cluster
    <3>1. a.old # None /\ c = a.old.cluster
      BY <2>1, <2>3 DEF AskedOK
    <3>2. Manifest(c) \in FilesOf(a.old) /\ Manifest(c) \notin FilesOf(a.new)
      BY <1>1, <1>4, <2>1, <2>3, <3>1
    <3> QED BY <1>2, <1>5, <3>1, <3>2
  <2> QED BY <2>2, <2>3
<1> QED BY <1>6, <1>7 DEF ManifestsAsked, ch

LEMMA DeletionAsked ==
    ASSUME NEW a, a.new = None
    PROVE  ManifestsAsked(a, Deletion(a.cluster)) /\ ManifestsAsked(a, Nothing)
<1>1. \A f \in DOMAIN Deletion(a.cluster) : f[1] = a.cluster /\ Deletion(a.cluster)[f] = Absent
  BY DEF Deletion
<1>2. DOMAIN Nothing = {}
  BY DEF Nothing
<1> QED BY <1>1, <1>2, ManifestFile DEF ManifestsAsked, Repo!Touched, Repo!Wants

-----------------------------------------------------------------------------

LEMMA InitSees == Init => SeesInv
<1> SUFFICES ASSUME Init PROVE SeesInv
  OBVIOUS
<1>1. ManifestsOK(base)
  BY ManifestFile DEF Init, ManifestsOK
<1> QED BY <1>1 DEF Init, SeesInv, CallSees, HeadSees

\* A step of call r: what it has to see to itself.
LEMMA CallKeepsSees ==
    ASSUME IInv, SeesInv, NEW r \in Request, base' = base,
           \A q \in Request \ {r} :
              /\ pc'[q] = pc[q] /\ asked'[q] = asked[q] /\ head'[q] = head[q]
              /\ changes'[q] = changes[q] /\ (q \in outdated' <=> q \in outdated),
           \A h \in Head \ {head[r]} :
              root'[h] = root[h] /\ open'[h] = open[h] /\ (h \in overtaken' <=> h \in overtaken),
           \/ root' = root /\ overtaken' = overtaken
           \/ \A q \in Request \ {r} : pc[q] \in Working => head[q] # head[r],
           CallSees(r)',
           UNCHANGED <<root, open, overtaken>> \/ \A h \in {head[r]} : HeadSees(h)'
    PROVE  SeesInv'
<1>1. \A q \in Request : head[q] \in Head
  BY DEF IInv, TInv
<1>2. ASSUME NEW q \in Request PROVE CallSees(q)'
  <2>1. CASE q = r
    BY <2>1
  <2>2. CASE q # r
    <3>1. CallSees(q)
      BY DEF SeesInv
    <3>2. pc[q] \in Working =>
             root'[head[q]] = root[head[q]] /\ (head[q] \in overtaken' <=> head[q] \in overtaken)
      BY <1>1, <2>2
    <3> QED BY <2>2, <3>1, <3>2 DEF CallSees
  <2> QED BY <2>1, <2>2
<1>3. ASSUME NEW h \in Head PROVE HeadSees(h)'
  <2>1. HeadSees(h)
    BY DEF SeesInv
  <2>2. CASE h # head[r] \/ UNCHANGED <<root, open, overtaken>>
    <3>1. root'[h] = root[h] /\ open'[h] = open[h] /\ (h \in overtaken' <=> h \in overtaken)
      BY <2>2
    <3> QED BY <2>1, <3>1 DEF HeadSees
  <2>3. CASE h = head[r] /\ \A k \in {head[r]} : HeadSees(k)'
    BY <2>3
  <2> QED BY <2>2, <2>3
<1>4. ManifestsOK(base)'
  BY DEF SeesInv, ManifestsOK
<1> QED BY <1>2, <1>3, <1>4 DEF SeesInv

LEMMA AskSees ==
    ASSUME IInv, BaseInv, SeesInv, NEW r \in Request, NEW a, NEW h, Ask(r, a, h),
           AskedOK(a), Seen(base, a)
    PROVE  SeesInv'
<1>1. /\ UNCHANGED <<base, root, open, overtaken, outdated>>
      /\ asked' = [asked EXCEPT ![r] = a] /\ head' = [head EXCEPT ![r] = h]
      /\ pc[r] = "idle"
      /\ pc' = [pc EXCEPT ![r] = IF a.new = None THEN "list" ELSE "branch"]
      /\ changes' = IF a.new = None THEN changes
                    ELSE [changes EXCEPT ![r] = GetFiles(a.new, a.old)]
  BY DEF Ask, Go, gitVars, obsVars
<1>2. \A q \in Request \ {r} :
        /\ pc'[q] = pc[q] /\ asked'[q] = asked[q] /\ head'[q] = head[q]
        /\ changes'[q] = changes[q]
  BY <1>1 DEF IInv, TInv
<1>3. asked'[r] = a /\ pc'[r] = IF a.new = None THEN "list" ELSE "branch"
  BY <1>1 DEF IInv, TInv
<1>4. ManifestsAsked(a, changes'[r])
  <2>1. CASE a.new = None
    <3>1. changes'[r] = Nothing
      BY <1>1, <2>1 DEF BaseInv, ChangesInv
    <3> QED BY <2>1, <3>1, DeletionAsked
  <2>2. CASE a.new # None
    <3>1. changes'[r] = GetFiles(a.new, a.old)
      BY <1>1, <2>2 DEF IInv, TInv
    <3> QED BY <2>2, <3>1, GetFilesAsked
  <2> QED BY <2>1, <2>2
<1>5. Seen(base', a)
  BY <1>1
<1>6. CallSees(r)'
  BY <1>3, <1>4, <1>5 DEF CallSees, Working
<1> QED BY <1>1, <1>2, <1>6, CallKeepsSees

LEMMA RequestSees ==
    ASSUME IInv, BaseInv, SeesInv, NEW r \in Request, Create(r) \/ Edit(r) \/ Delete(r)
    PROVE  SeesInv'
<1>0. None \notin Value /\ \A v \in Value : v.cluster \in Cluster
  BY PullRequestsAssumption, FilesOfMember
<1>1. CASE Create(r)
  <2>1. PICK v \in Value :
          /\ base[Manifest(v.cluster)] = Absent
          /\ Ask(r, [new |-> v, old |-> None, cluster |-> v.cluster],
                 HeadOf(r, NameOf[v.cluster]))
    BY <1>1 DEF Create
  <2> DEFINE a == [new |-> v, old |-> None, cluster |-> v.cluster]
  <2>2. AskedOK(a)
    BY <1>0 DEF AskedOK, Proposal
  <2>3. Seen(base, a)
    <3>1. Repo!Touched(a) = {v.cluster}
      BY <1>0 DEF Repo!Touched
    <3>2. Repo!Replaces(a, v.cluster) = Absent
      BY DEF Repo!Replaces
    <3> QED BY <2>1, <3>1, <3>2 DEF Seen
  <2> QED BY <2>1, <2>2, <2>3, AskSees
<1>2. CASE Edit(r)
  <2>1. PICK v \in Value, c \in Cluster :
          /\ base[Manifest(c)] \in Value \ {v}
          /\ v.cluster # c => base[Manifest(v.cluster)] = Absent
          /\ Ask(r, [new |-> v, old |-> base[Manifest(c)], cluster |-> c],
                 HeadOf(r, NameOf[v.cluster]))
    BY <1>2 DEF Edit
  <2> DEFINE a == [new |-> v, old |-> base[Manifest(c)], cluster |-> c]
  <2>2. base[Manifest(c)].cluster = c
    BY <2>1, FilesOfMember DEF SeesInv, ManifestsOK
  <2>3. AskedOK(a)
    BY <1>0, <2>1, <2>2 DEF AskedOK, Proposal
  <2>4. Seen(base, a)
    <3>1. Repo!Touched(a) = {c, v.cluster} /\ a.old # None
      BY <1>0, <2>1 DEF Repo!Touched
    <3>2. Repo!Replaces(a, c) = base[Manifest(c)]
          /\ (v.cluster # c => Repo!Replaces(a, v.cluster) = Absent)
      BY <3>1 DEF Repo!Replaces
    <3> QED BY <2>1, <3>1, <3>2 DEF Seen
  <2> QED BY <2>1, <2>3, <2>4, AskSees
<1>3. CASE Delete(r)
  <2>1. PICK c \in Cluster :
          \E name : Ask(r, [new |-> None, old |-> None, cluster |-> c], HeadOf(r, name))
    BY <1>3 DEF Delete
  <2>2. PICK name : Ask(r, [new |-> None, old |-> None, cluster |-> c], HeadOf(r, name))
    BY <2>1
  <2> DEFINE a == [new |-> None, old |-> None, cluster |-> c]
  <2>3. AskedOK(a) /\ Seen(base, a)
    BY DEF AskedOK, Proposal, Seen
  <2> QED BY <2>2, <2>3, AskSees
<1> QED BY <1>1, <1>2, <1>3

\* A call whose branch stays what it was made from.
LEMMA StepSees ==
    ASSUME IInv, BaseInv, SeesInv, NEW r \in Request,
           \/ List(r) \/ ListFails(r) \/ GetUpdatedFiles(r) \/ CommitClean(r) \/ Commit(r)
           \/ CommitRefused(r) \/ StepFails(r) \/ Retry(r)
           \/ CreateBranchFails(r) /\ UNCHANGED <<tree, root, overtaken>>
    PROVE  SeesInv'
<1>1. UNCHANGED <<base, root, overtaken, asked, head>>
  BY DEF List, ListFails, GetUpdatedFiles, CommitClean, Commit, CommitRefused,
         StepFails, Retry, CreateBranchFails, gitVars, obsVars
<1>2. PICK t : /\ pc' = [pc EXCEPT ![r] = t]
               /\ t \in Working => pc[r] \in Working
               /\ t = "list" => asked[r].new = None
               /\ pc[r] \notin {"idle", "done"}
  BY DEF List, ListFails, GetUpdatedFiles, CommitClean, Commit, CommitRefused,
         StepFails, Retry, CreateBranchFails, Go, Fail, Working
<1>3. pc'[r] = t /\ \A q \in Request \ {r} : pc'[q] = pc[q]
  BY <1>2 DEF IInv, TInv
<1>4. CallSees(r) /\ AskedOK(asked[r]) /\ ManifestsAsked(asked[r], changes[r])
  BY <1>2 DEF SeesInv, CallSees
<1>5. /\ \A q \in Request \ {r} :
            changes'[q] = changes[q] /\ (q \in outdated' <=> q \in outdated)
      /\ ManifestsAsked(asked[r], changes'[r])
      /\ r \notin outdated' => Seen(base, asked[r])
  <2>1. CASE changes' = changes /\ outdated' = outdated
    BY <1>2, <1>4, <2>1 DEF CallSees
  <2>2. CASE List(r)
    <3>1. asked[r].new = None
      BY <1>4, <2>2 DEF List, Go, CallSees
    <3>2. /\ changes' = [changes EXCEPT ![r] = Deletion(asked[r].cluster)]
          /\ outdated' = outdated \ {r}
      BY <2>2 DEF List
    <3>3. changes'[r] = Deletion(asked[r].cluster)
          /\ \A q \in Request \ {r} : changes'[q] = changes[q]
      BY <3>2 DEF IInv, TInv
    <3> QED BY <3>1, <3>2, <3>3, DeletionAsked DEF Seen
  <2>3. CASE Retry(r) /\ asked[r].new = None
    <3>1. /\ changes' = [changes EXCEPT ![r] = Nothing]
          /\ outdated' = outdated
      BY <2>3 DEF Retry, obsVars
    <3>2. changes'[r] = Nothing /\ \A q \in Request \ {r} : changes'[q] = changes[q]
      BY <3>1 DEF IInv, TInv
    <3> QED BY <2>3, <3>1, <3>2, DeletionAsked DEF Seen
  <2> QED BY <2>1, <2>2, <2>3
          DEF ListFails, GetUpdatedFiles, CommitClean, Commit, CommitRefused, StepFails,
              Retry, CreateBranchFails, obsVars
<1>6. CallSees(r)'
  BY <1>1, <1>2, <1>3, <1>4, <1>5 DEF CallSees
<1>7. UNCHANGED open \/ (StepFails(r) /\ pc[r] = "propose" /\ Open(r))
  BY DEF List, ListFails, GetUpdatedFiles, CommitClean, Commit, CommitRefused,
         StepFails, Retry, CreateBranchFails, gitVars
<1>8. /\ \A h \in Head \ {head[r]} : open'[h] = open[h]
      /\ UNCHANGED open \/ \A h \in {head[r]} : HeadSees(h)'
  <2>1. CASE UNCHANGED open
    BY <2>1
  <2>2. CASE pc[r] = "propose" /\ Open(r)
    <3>1. /\ open'[head[r]] = [asked |-> asked[r], changes |-> changes[r]]
          /\ \A h \in Head \ {head[r]} : open'[h] = open[h]
      BY <2>2 DEF Open, IInv, TInv
    <3>2. head[r] \notin overtaken => Seen(root[head[r]], asked[r])
      BY <1>4, <2>2 DEF CallSees, Working
    <3> QED BY <1>1, <1>4, <3>1, <3>2 DEF HeadSees
  <2> QED BY <1>7, <2>1, <2>2
<1> QED BY <1>1, <1>3, <1>5, <1>6, <1>8, CallKeepsSees

LEMMA ProposeSees ==
    ASSUME IInv, SeesInv, NEW r \in Request, Propose(r)
    PROVE  SeesInv'
<1>1. /\ UNCHANGED <<base, root, overtaken>> /\ outdated' = outdated \ {r}
      /\ pc[r] = "propose" /\ pc' = [pc EXCEPT ![r] = "done"]
      /\ asked' = [asked EXCEPT ![r] = None] /\ head' = [head EXCEPT ![r] = NoName]
      /\ changes' = [changes EXCEPT ![r] = Nothing] /\ Open(r)
  BY DEF Propose, Go
<1>2. /\ pc'[r] = "done"
      /\ \A q \in Request \ {r} :
            /\ pc'[q] = pc[q] /\ asked'[q] = asked[q] /\ head'[q] = head[q]
            /\ changes'[q] = changes[q] /\ (q \in outdated' <=> q \in outdated)
  BY <1>1 DEF IInv, TInv
<1>3. /\ open'[head[r]] = [asked |-> asked[r], changes |-> changes[r]]
      /\ \A h \in Head \ {head[r]} : open'[h] = open[h]
  BY <1>1 DEF Open, IInv, TInv
<1>4. /\ AskedOK(asked[r]) /\ ManifestsAsked(asked[r], changes[r])
      /\ head[r] \notin overtaken => Seen(root[head[r]], asked[r])
  BY <1>1 DEF SeesInv, CallSees, Working
<1>5. \A h \in {head[r]} : HeadSees(h)'
  BY <1>1, <1>3, <1>4 DEF HeadSees
<1>6. CallSees(r)'
  BY <1>2 DEF CallSees
<1> QED BY <1>1, <1>2, <1>3, <1>5, <1>6, CallKeepsSees

\* A branch is made of the base branch as it is, which a call that is not
\* outdated has seen.
LEMMA BranchSees ==
    ASSUME IInv, SeesInv, NEW r \in Request, MakeBranch(r),
           CreateBranch(r) \/ CreateBranchFails(r)
    PROVE  SeesInv'
<1>1. /\ UNCHANGED <<base, open, asked, head, changes, outdated>>
      /\ \A q \in Request \ {r} : pc'[q] = pc[q]
      /\ pc[r] = "branch" /\ pc'[r] \notin {"idle", "list", "done"}
  BY DEF CreateBranch, CreateBranchFails, Go, Fail, IInv, TInv
<1>2. /\ root'[head[r]] = base /\ open[head[r]] = None
      /\ \A h \in Head \ {head[r]} :
            root'[h] = root[h] /\ (h \in overtaken' <=> h \in overtaken)
      /\ \A q \in Request \ {r} : pc[q] \in Working => head[q] # head[r]
      /\ head[r] \notin overtaken' => r \notin outdated
  BY NewBranch DEF MakeBranch, IInv, TInv
<1>3. /\ AskedOK(asked[r]) /\ ManifestsAsked(asked[r], changes[r])
      /\ r \notin outdated => Seen(base, asked[r])
  BY <1>1 DEF SeesInv, CallSees
<1>4. CallSees(r)'
  BY <1>1, <1>2, <1>3 DEF CallSees
<1>5. \A h \in {head[r]} : HeadSees(h)'
  BY <1>1, <1>2 DEF HeadSees
<1> QED BY <1>1, <1>2, <1>4, <1>5, CallKeepsSees

\* What a merge does to the manifests: some of those that its request is
\* about become what it wants, and nothing else.
LEMMA MergeManifests ==
    ASSUME IInv, SeesInv, NEW h \in Head, open[h] # None,
           NEW c \in Cluster
    PROVE  /\ Manifest(c) \in Changed(h) =>
                 /\ c \in Repo!Touched(open[h].asked)
                 /\ Merged(h)[Manifest(c)] = Repo!Wants(open[h].asked, c)
           /\ Manifest(c) \notin Changed(h) => Merged(h)[Manifest(c)] = base[Manifest(c)]
           /\ c \in Repo!Touched(open[h].asked) /\ open[h].asked.new # None =>
                 tree[h][Manifest(c)] = Repo!Wants(open[h].asked, c)
<1> DEFINE a == open[h].asked
           ch == open[h].changes
<1>1. ManifestsAsked(a, ch) /\ tree[h] = Applied(root[h], ch)
  BY DEF SeesInv, HeadSees, IInv, ProposesRequest
<1>2. Manifest(c) \in File
  BY ManifestFile
<1>3. tree[h][Manifest(c)] =
        IF Manifest(c) \in DOMAIN ch THEN ch[Manifest(c)] ELSE root[h][Manifest(c)]
  BY <1>1, <1>2 DEF Applied
<1>4. Merged(h)[Manifest(c)] =
        IF Manifest(c) \in Changed(h) THEN tree[h][Manifest(c)] ELSE base[Manifest(c)]
  BY <1>2 DEF Merged
<1>5. Manifest(c) \in Changed(h) => Manifest(c) \in DOMAIN ch
  BY <1>2, <1>3 DEF Changed
<1> QED BY <1>1, <1>3, <1>4, <1>5 DEF ManifestsAsked

LEMMA MergeSees ==
    ASSUME IInv, SeesInv, NEW h \in Head, Merge(h)
    PROVE  SeesInv'
<1>1. /\ open[h] # None /\ ~Busy(h) /\ base' = Merged(h)
      /\ open' = [open EXCEPT ![h] = None]
      /\ root' = root \/ root' = [root EXCEPT ![h] = None]
      /\ outdated' = outdated \cup Outdates(h)
      /\ UNCHANGED <<pc, asked, head, changes, overtaken>>
  BY DEF Merge, DropBranch, callVars
<1>2. /\ open'[h] = None
      /\ \A k \in Head \ {h} : root'[k] = root[k] /\ open'[k] = open[k]
      /\ \A q \in Request : pc[q] \in Working => head[q] \in Head \ {h}
  BY <1>1 DEF IInv, TInv, Busy, Working
<1>3. ManifestsOK(base')
  <2>1. SUFFICES ASSUME NEW c \in Cluster
                 PROVE  \/ base'[Manifest(c)] = Absent
                        \/ base'[Manifest(c)] \in Value /\ base'[Manifest(c)].cluster = c
    BY DEF ManifestsOK
  <2>2. CASE Manifest(c) \in Changed(h)
    <3>1. AskedOK(open[h].asked)
      BY <1>1 DEF SeesInv, HeadSees
    <3> QED BY <1>1, <2>2, <3>1, MergeManifests, WantsType
  <2>3. CASE Manifest(c) \notin Changed(h)
    BY <1>1, <2>3, MergeManifests DEF SeesInv, ManifestsOK
  <2> QED BY <2>2, <2>3
<1>4. ASSUME NEW q \in Request PROVE CallSees(q)'
  <2>1. CallSees(q)
    BY DEF SeesInv
  <2>2. ASSUME pc[q] \notin {"idle", "done"}, q \notin outdated' PROVE Seen(base', asked[q])
    <3>1. AskedOK(asked[q]) /\ Seen(base, asked[q])
      BY <1>1, <2>1, <2>2 DEF CallSees
    <3>2. CASE pc[q] = "list"
      BY <2>1, <3>2 DEF CallSees, Seen
    <3>3. CASE pc[q] # "list"
      <4>1. \A f \in Changed(h) : f[1] \in Reads(asked[q]) => tree[h][f] = base[f]
        BY <1>1, <2>2, <3>3 DEF Outdates
      <4>2. \A f \in File : f[1] \in Reads(asked[q]) => base'[f] = base[f]
        BY <1>1, <4>1 DEF Merged
      <4>3. \A c \in Repo!Touched(asked[q]) : base'[Manifest(c)] = base[Manifest(c)]
        BY <3>1, <4>2, TouchedClusters, ManifestFile
      <4> QED BY <3>1, <4>3 DEF Seen
    <3> QED BY <3>2, <3>3
  <2> QED BY <1>1, <1>2, <2>1, <2>2 DEF CallSees
<1>5. ASSUME NEW k \in Head PROVE HeadSees(k)'
  BY <1>1, <1>2 DEF SeesInv, HeadSees
<1> QED BY <1>3, <1>4, <1>5 DEF SeesInv

LEMMA ReviewSees ==
    ASSUME IInv, SeesInv, NEW h \in Head, Close(h) \/ DeleteBranch(h)
    PROVE  SeesInv'
<1>1. /\ UNCHANGED <<base, pc, asked, head, changes, found, outdated, overtaken>>
      /\ ~Busy(h)
  BY DEF Close, DeleteBranch, callVars, obsVars
<1>2. /\ open'[h] = None
      /\ \A k \in Head \ {h} : root'[k] = root[k] /\ open'[k] = open[k]
      /\ \A q \in Request : pc[q] \in Working => head[q] \in Head \ {h}
  BY <1>1 DEF Close, DeleteBranch, DropBranch, IInv, TInv, Busy, Working
<1>3. \A q \in Request : CallSees(q)'
  BY <1>1, <1>2 DEF SeesInv, CallSees
<1>4. \A k \in Head : HeadSees(k)'
  BY <1>1, <1>2 DEF SeesInv, HeadSees
<1> QED BY <1>1, <1>3, <1>4 DEF SeesInv

LEMMA NextSees == SeesInv /\ BaseInv /\ IInv /\ [Next]_vars => SeesInv'
<1> SUFFICES ASSUME SeesInv, BaseInv, IInv, [Next]_vars PROVE SeesInv'
  OBVIOUS
<1>1. ASSUME NEW r \in Request, CallStep(r) PROVE SeesInv'
  <2>1. CASE CreateBranch(r) \/ CreateBranchFails(r)
    <3>1. MakeBranch(r) \/ (CreateBranchFails(r) /\ UNCHANGED <<tree, root, overtaken>>)
      BY <2>1 DEF CreateBranch, CreateBranchFails
    <3> QED BY <2>1, <3>1, BranchSees, StepSees
  <2>2. CASE ~(CreateBranch(r) \/ CreateBranchFails(r))
    BY <1>1, <2>2, StepSees, ProposeSees DEF CallStep
  <2> QED BY <2>1, <2>2
<1>2. CASE UNCHANGED vars
  <2>1. UNCHANGED <<base, root, open, pc, asked, head, changes, outdated, overtaken>>
    BY <1>2 DEF vars, gitVars, callVars, obsVars
  <2>2. \A r \in Request : CallSees(r)'
    BY <2>1 DEF SeesInv, CallSees
  <2>3. \A h \in Head : HeadSees(h)'
    BY <2>1 DEF SeesInv, HeadSees
  <2> QED BY <2>1, <2>2, <2>3 DEF SeesInv
<1> QED BY <1>1, <1>2, RequestSees, StepSees, MergeSees, ReviewSees DEF Next

LEMMA SeesAlways == Spec => [](IInv /\ SeesInv)
<1>1. Spec => []BaseInv
  BY InitBase, NextBase, PullRequestsInvariance, PTL DEF Spec
<1> QED BY InitSees, NextSees, PullRequestsInvariance, <1>1, PTL DEF Spec

-----------------------------------------------------------------------------

LEMMA ShownProposal ==
    ASSUME NEW a \in Proposal, NEW x, NEW S
    PROVE  /\ [asked |-> a, stale |-> x \in S] \in [asked : Repo!Proposal, stale : BOOLEAN]
           /\ [asked |-> a, stale |-> x \in S] # None
<1>1. (x \in S) \in BOOLEAN
  OBVIOUS
<1>2. [asked |-> a, stale |-> x \in S] \in [asked : Proposal, stale : BOOLEAN]
  BY <1>1
<1>3. Proposal = Repo!Proposal
  BY DEF Proposal, Repo!Proposal
<1> QED BY <1>2, <1>3, PullRequestsAssumption

\* A pull request that is merged.
LEMMA MergeLands ==
    ASSUME IInv, SeesInv, NEW h \in Head, Merge(h)
    PROVE  Repo!Land(h) \/ Repo!LandAnyhow(h)
<1> DEFINE a == open[h].asked
           C == {c \in Cluster : Manifest(c) \in Changed(h)}
           shown == [k \in Head |-> IF open[k] = None THEN None
                                   ELSE [asked |-> open[k].asked, stale |-> k \in overtaken]]
<1>1. /\ open[h] # None /\ Mergeable(h) /\ base' = Merged(h)
      /\ open' = [open EXCEPT ![h] = None] /\ overtaken' = overtaken
      /\ AskedOK(a)
  BY DEF Merge, SeesInv, HeadSees
<1>2. shown[h].asked = a /\ shown[h].stale = (h \in overtaken) /\ shown[h] # None
  <2>1. shown[h] = [asked |-> a, stale |-> h \in overtaken]
    BY <1>1
  <2>2. shown[h] # None
    BY <1>1, <2>1, ShownProposal DEF AskedOK
  <2> QED BY <2>1, <2>2
<1>3. Repo!Settle(h)
  <2>1. shown' = [shown EXCEPT ![h] = None]
    BY <1>1 DEF IInv, TInv
  <2> QED BY <1>2, <2>1 DEF Repo!Settle
<1>4. C \subseteq Repo!Touched(a) /\ Repo!Become(a, C)
  <2>1. \A c \in Cluster : base'[Manifest(c)] =
           IF c \in C THEN Repo!Wants(a, c) ELSE base[Manifest(c)]
    BY <1>1, MergeManifests
  <2>2. C \subseteq Repo!Touched(a)
    BY <1>1, MergeManifests
  <2> QED BY <2>1, <2>2 DEF Repo!Become
<1>5. CASE a.new = None \/ h \in overtaken
  BY <1>2, <1>3, <1>4, <1>5 DEF Repo!LandAnyhow
<1>6. CASE a.new # None /\ h \notin overtaken
  <2>1. ASSUME NEW c \in Repo!Touched(a)
        PROVE  /\ c \in C
               /\ base[Manifest(c)] \in {Repo!Replaces(a, c), Repo!Wants(a, c)}
    <3>1. c \in Cluster /\ Manifest(c) \in File
      BY <1>1, TouchedClusters, ManifestFile
    <3>2. root[h][Manifest(c)] = Repo!Replaces(a, c)
      BY <1>1, <1>6 DEF SeesInv, HeadSees, Seen
    <3>3. tree[h][Manifest(c)] = Repo!Wants(a, c)
      BY <1>1, <1>6, <3>1, MergeManifests
    <3>4. Manifest(c) \in Changed(h)
      BY <1>1, <1>6, <3>1, <3>2, <3>3, WantsOther DEF Changed
    <3> QED BY <1>1, <3>1, <3>2, <3>3, <3>4 DEF Mergeable
  <2>2. C = Repo!Touched(a)
    BY <1>4, <2>1
  <2>3. \A c \in Repo!Touched(a) : c \in Cluster
    BY <1>1, TouchedClusters
  <2> QED BY <1>2, <1>3, <1>4, <1>6, <2>1, <2>2, <2>3 DEF Repo!Land
<1> QED BY <1>5, <1>6

\* A step that merges nothing.
LEMMA OpenRefines ==
    ASSUME IInv, IInv', NEW h \in Head, base' = base,
           \A k \in Head \ {h} : open'[k] = open[k] /\ (k \in overtaken' <=> k \in overtaken),
           \/ open[h] = None
           \/ open'[h] = None
           \/ open'[h] = open[h] /\ (h \in overtaken' <=> h \in overtaken)
    PROVE  [Repo!RepositoryNext]_(Repo!repositoryVars)
<1> DEFINE shown == [k \in Head |-> IF open[k] = None THEN None
                                   ELSE [asked |-> open[k].asked, stale |-> k \in overtaken]]
           seen == [c \in Cluster |-> base[Manifest(c)]]
<1>1. seen' = seen
  OBVIOUS
<1>2. \A k \in Head \ {h} : shown'[k] = shown[k]
  OBVIOUS
<1>3. /\ open[h] = None => shown[h] = None
      /\ open'[h] = None => shown'[h] = None
      /\ open[h] # None => shown[h] # None
      /\ open'[h] # None => shown'[h] \in [asked : Repo!Proposal, stale : BOOLEAN]
  <2>1. /\ open[h] # None => open[h].asked \in Proposal
        /\ open'[h] # None => open'[h].asked \in Proposal
    BY DEF IInv, TInv, Opened
  <2> QED BY <2>1, ShownProposal
<1>4. CASE open[h] = None /\ open'[h] # None
  <2>1. shown' = [shown EXCEPT ![h] = shown'[h]]
    <3>1. shown = [k \in Head |-> shown[k]] /\ shown' = [k \in Head |-> shown'[k]]
      OBVIOUS
    <3> HIDE DEF shown
    <3> QED BY <1>2, <3>1
  <2>2. shown[h] = None /\ shown'[h] \in [asked : Repo!Proposal, stale : BOOLEAN]
    BY <1>3, <1>4
  <2>3. Repo!ProposeChange(h)
    BY <1>1, <2>1, <2>2 DEF Repo!ProposeChange
  <2> QED BY <2>3 DEF Repo!RepositoryNext
<1>5. CASE open[h] # None /\ open'[h] = None
  <2>1. shown' = [shown EXCEPT ![h] = None]
    BY <1>2, <1>3, <1>5
  <2>2. Repo!Withdraw(h)
    BY <1>1, <1>3, <1>5, <2>1 DEF Repo!Withdraw, Repo!Settle
  <2> QED BY <2>2 DEF Repo!RepositoryNext
<1>6. CASE shown'[h] = shown[h]
  <2>1. shown' = shown
    BY <1>2, <1>6
  <2> QED BY <1>1, <2>1 DEF Repo!repositoryVars
<1>7. CASE open'[h] = open[h] /\ (h \in overtaken' <=> h \in overtaken)
  BY <1>6, <1>7
<1> QED BY <1>3, <1>4, <1>5, <1>6, <1>7

LEMMA CallRefines ==
    ASSUME IInv, IInv', NEW r \in Request,
           Create(r) \/ Edit(r) \/ Delete(r) \/ CallStep(r) \/ Retry(r)
    PROVE  [Repo!RepositoryNext]_(Repo!repositoryVars)
<1>1. head[r] \in Head
  BY DEF IInv, TInv
<1>2. base' = base
  BY DEF Create, Edit, Delete, Ask, CallStep, Retry, List, ListFails, CreateBranch,
         CreateBranchFails, GetUpdatedFiles, CommitClean, Commit, CommitRefused,
         StepFails, Propose, gitVars
<1>3. CASE UNCHANGED <<open, overtaken>>
  BY <1>1, <1>2, <1>3, OpenRefines
<1>4. CASE MakeBranch(r) /\ open' = open
  <2>1. open[head[r]] = None
        /\ \A k \in Head \ {head[r]} : k \in overtaken' <=> k \in overtaken
    BY <1>4, NewBranch DEF MakeBranch
  <2> QED BY <1>1, <1>2, <1>4, <2>1, OpenRefines
<1>5. CASE Open(r) /\ overtaken' = overtaken
  <2>1. open[head[r]] = None /\ \A k \in Head \ {head[r]} : open'[k] = open[k]
    BY <1>5 DEF Open, IInv, TInv
  <2> QED BY <1>1, <1>2, <1>5, <2>1, OpenRefines
<1> QED BY <1>3, <1>4, <1>5
        DEF Create, Edit, Delete, Ask, CallStep, Retry, List, ListFails, CreateBranch,
            CreateBranchFails, GetUpdatedFiles, CommitClean, Commit, CommitRefused,
            StepFails, Propose, gitVars, obsVars

LEMMA ReviewRefines ==
    ASSUME IInv, IInv', NEW h \in Head, Close(h) \/ DeleteBranch(h)
    PROVE  [Repo!RepositoryNext]_(Repo!repositoryVars)
<1>1. base' = base /\ overtaken' = overtaken
  BY DEF Close, DeleteBranch, obsVars
<1>2. \/ open' = open
      \/ open'[h] = None /\ \A k \in Head \ {h} : open'[k] = open[k]
  BY DEF Close, DeleteBranch, IInv, TInv
<1> QED BY <1>1, <1>2, OpenRefines

\* A pull request does to the clusters of its request what that asks for, all
\* of it and to no other cluster; and a write whose branch was made before
\* anything it had read was changed replaces only what its client has seen,
\* for any requests that share clusters and branches, merged in any order
\* (Repository, seen through the manifests that the handlers generate).
THEOREM RefinesRepository == Spec => LandsAsAsked
<1>1. Init => Repo!RepositoryInit
  <2> SUFFICES ASSUME Init PROVE Repo!RepositoryInit
    OBVIOUS
  <2>1. \A c \in Cluster : base[Manifest(c)] = Absent
    BY ManifestFile DEF Init
  <2>2. \A h \in Head : open[h] = None
    BY DEF Init
  <2> QED BY <2>1, <2>2 DEF Repo!RepositoryInit
<1>2. IInv /\ SeesInv /\ IInv' /\ [Next]_vars => [Repo!RepositoryNext]_(Repo!repositoryVars)
  <2> SUFFICES ASSUME IInv, SeesInv, IInv', [Next]_vars
               PROVE  [Repo!RepositoryNext]_(Repo!repositoryVars)
    OBVIOUS
  <2>1. ASSUME NEW h \in Head, Merge(h)
        PROVE  Repo!RepositoryNext
    BY <2>1, MergeLands DEF Repo!RepositoryNext
  <2>2. CASE UNCHANGED vars
    <3>1. UNCHANGED <<base, open, overtaken>>
      BY <2>2 DEF vars, gitVars, obsVars
    <3> QED BY <3>1 DEF Repo!repositoryVars
  <2> QED BY <2>1, <2>2, CallRefines, ReviewRefines DEF Next
<1> QED BY <1>1, <1>2, SeesAlways, PTL DEF Spec, LandsAsAsked, Repo!RepositorySpec

=============================================================================
