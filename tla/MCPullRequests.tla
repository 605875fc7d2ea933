---------------------------- MODULE MCPullRequests ----------------------------
(***************************************************************************)
(* PullRequests with two clusters of the same name, each with or without a *)
(* kustomization.                                                          *)
(***************************************************************************)
EXTENDS PullRequests, TLC

CONSTANTS c1, c2, k, n, r1, r2, r3

SameName == (c1 :> n) @@ (c2 :> n)

With(cluster, kustomizations) ==
    [cluster |-> cluster, kustomizations |-> kustomizations, profiles |-> {}]

SmallValues == {With(c1, {}), With(c1, {k}), With(c2, {k})}

Requests == Permutations(Request \ Named)
=============================================================================
