----------------------------- MODULE MCBootstrap -----------------------------
(***************************************************************************)
(* Bootstrap with commands that ask for little, and for everything.        *)
(***************************************************************************)
EXTENDS Bootstrap, TLC

CONSTANT v

Bare == [auth |-> FALSE, silent |-> TRUE, export |-> FALSE,
         bootstrapFlux |-> TRUE, version |-> v, password |-> TRUE,
         oidc |-> FALSE, components |-> <<>>]

Everything ==
    [Bare EXCEPT !.oidc = TRUE, !.components = <<"policy-agent", "tf-controller">>]

Auth == [Bare EXCEPT !.auth = TRUE, !.version = NoVersion, !.password = FALSE]

Commands ==
    {Bare, Everything, Auth,
     [Bare EXCEPT !.version = NoVersion],
     [Everything EXCEPT !.export = TRUE, !.bootstrapFlux = FALSE],
     [Bare EXCEPT !.silent = FALSE, !.password = FALSE],
     [Bare EXCEPT !.silent = FALSE, !.components = <<"policy-agent">>],
     [Bare EXCEPT !.silent = FALSE, !.export = TRUE, !.components = <<"none">>]}
=============================================================================
