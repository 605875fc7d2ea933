------------------------------ MODULE Repository ------------------------------
(***************************************************************************)
(* What the clusters service promises of the git repository that Flux      *)
(* follows, seen cluster by cluster and without its files: a cluster has a *)
(* value or is absent, and gets another only when an open proposal lands.  *)
(* A proposal lands whole, it changes the clusters that it is about and no *)
(* others, and what it replaces is what its author has seen there, unless  *)
(* it was already stale when it was proposed.                              *)
(***************************************************************************)
CONSTANTS
    Cluster,
    Head,         \* branches, each with one open proposal at most
    Value,        \* what can be asked for: a value names its cluster
    Absent, None

VARIABLES
    clusters,     \* the value of each cluster, or Absent
    proposed      \* the open proposal of each branch, or None

repositoryVars == <<clusters, proposed>>

\* A new value for a cluster, or its deletion (no new value); for an edit
\* also the value that it replaces, and the cluster that it may move from.
Proposal == [new : Value \cup {None}, old : Value \cup {None}, cluster : Cluster]

\* The clusters that a proposal changes, what each becomes, and what its
\* author has seen there.
Touched(a) == {a.cluster} \cup {v.cluster : v \in {a.new} \ {None}}

Wants(a, c) == IF a.new # None /\ c = a.new.cluster THEN a.new ELSE Absent

Replaces(a, c) == IF a.old # None /\ c = a.cluster THEN a.old ELSE Absent

RepositoryInit ==
    /\ clusters = [c \in Cluster |-> Absent]
    /\ proposed = [h \in Head |-> None]

ProposeChange(h) ==
    /\ proposed[h] = None /\ proposed'[h] \in [asked : Proposal, stale : BOOLEAN]
    /\ proposed' = [proposed EXCEPT ![h] = proposed'[h]]
    /\ UNCHANGED clusters

\* A proposal is open no more, merged or not.
Settle(h) == proposed[h] # None /\ proposed' = [proposed EXCEPT ![h] = None]

Withdraw(h) == Settle(h) /\ UNCHANGED clusters

Become(a, C) ==
    clusters' = [c \in Cluster |-> IF c \in C THEN Wants(a, c) ELSE clusters[c]]

\* Nothing is lost of what others have done to the clusters since: each is as
\* it was seen, or already as it is wanted.
Land(h) ==
    /\ Settle(h)
    /\ LET a == proposed[h].asked IN
       /\ a.new # None /\ ~proposed[h].stale
       /\ \A c \in Touched(a) : clusters[c] \in {Replaces(a, c), Wants(a, c)}
       /\ Become(a, Touched(a))

\* A deletion does nothing to a cluster that had already gone, and is back;
\* a stale proposal may also replace what nobody has seen.
LandAnyhow(h) ==
    /\ Settle(h)
    /\ LET a == proposed[h].asked IN
       /\ a.new = None \/ proposed[h].stale
       /\ \E C \in SUBSET Touched(a) : Become(a, C)

RepositoryNext ==
    \E h \in Head : ProposeChange(h) \/ Withdraw(h) \/ Land(h) \/ LandAnyhow(h)

RepositorySpec == RepositoryInit /\ [][RepositoryNext]_repositoryVars
=============================================================================
