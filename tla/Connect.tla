------------------------------- MODULE Connect -------------------------------
(***************************************************************************)
(* Leaf clusters, from the commands that connect and disconnect them to    *)
(* the list of clusters that the other modules start from:                 *)
(*                                                                         *)
(*   - "gitops connect cluster" and "gitops disconnect cluster"            *)
(*     (pkg/cluster/connector), each a sequence of calls of the API server *)
(*     of the leaf cluster and of the management cluster, after any of     *)
(*     which the command may end: a call fails or times out, with or       *)
(*     without effect, or the command is interrupted;                      *)
(*   - the fetcher (pkg/cluster/fetcher), one pass over the GitopsClusters *)
(*     of the management cluster and the secrets they refer to;            *)
(*   - external: the token controller of the leaf cluster, the cluster     *)
(*     controller, which sets the conditions of a GitopsCluster, and the   *)
(*     administrator who runs the commands, one at a time.                 *)
(***************************************************************************)
EXTENDS Naturals, FiniteSets

CONSTANTS
    Cluster,     \* the GitopsClusters
    Managed,     \* those that the commands are run for
    Misreported, \* those whose conditions are true although they have no
                 \* secret, such as CAPI clusters without a kubeconfig
    Alternate,   \* after a command that failed the other one is run
    MaxGoals,    \* bound on how often the administrator changes the goal
    MaxFailures  \* bound on failing calls and interrupted commands

ASSUME ConnectAssumption ==
    /\ Managed \subseteq Cluster /\ Misreported \subseteq Cluster \ Managed
    /\ Alternate \in BOOLEAN
    /\ MaxGoals \in Nat /\ MaxFailures \in Nat

VARIABLES
    \* the leaf clusters
    account,   \* the service account: none, ours (labelled) or foreign
    binding,   \* the cluster role binding: none, ours or foreign
    token,     \* the token secret: none, empty, or with the token of the
               \* account (current) or of one that was deleted (stale)
    \* the management cluster
    secret,    \* the secret of the GitopsCluster: none, empty, current, stale
    connected, \* the conditions Ready and ClusterConnectivity
    \* the commands
    goal, goals,
    pc,        \* where the command is
    target,    \* its cluster
    hand,      \* the token it holds
    failed,    \* the last command of a cluster that ended with an error
    \* the fetcher, and the list of clusters
    fetching, candidates, found, listed,
    failures

leafVars  == <<account, binding, token>>
hubVars   == <<secret, connected>>
userVars  == <<goal, goals>>
fetchVars == <<fetching, candidates, found, listed>>
vars == <<leafVars, hubVars, userVars, pc, target, hand, failed, fetchVars,
          failures>>

ConnectSteps == {"account", "binding", "token", "poll", "secret", "update"}
DisconnectSteps == {"checkAccount", "checkBinding", "deleteAccount",
                    "deleteBinding", "deleteSecret"}
Goals == {"connect", "disconnect"}

TypeOK ==
    /\ account \in [Cluster -> {"none", "ours", "foreign"}]
    /\ binding \in [Cluster -> {"none", "ours", "foreign"}]
    /\ token \in [Cluster -> {"none", "empty", "current", "stale"}]
    /\ secret \in [Cluster -> {"none", "empty", "current", "stale"}]
    /\ connected \in SUBSET Cluster
    /\ goal \in [Managed -> Goals] /\ goals \in 0 .. MaxGoals
    /\ pc \in {"idle"} \cup ConnectSteps \cup DisconnectSteps
    /\ target \in Cluster
    /\ hand \in {"none", "current", "stale"}
    /\ failed \in [Managed -> Goals \cup {"none"}]
    /\ fetching \in BOOLEAN
    /\ candidates \in SUBSET Cluster
    /\ found \in SUBSET Cluster /\ listed \in SUBSET Cluster
    /\ failures \in 0 .. MaxFailures

\* The cluster can be used through the secret of its GitopsCluster.
Usable(c) == account[c] # "none" /\ binding[c] = "ours" /\ secret[c] = "current"

Clean(c) == account[c] = "none" /\ binding[c] = "none" /\ secret[c] = "none"

\* Another account or binding of the same name, and a secret without data,
\* may be there before.  The clusters that no command is run for have been
\* connected, or are misreported.
Init ==
    /\ account \in [Cluster -> {"none", "ours", "foreign"}]
    /\ binding \in [Cluster -> {"none", "ours", "foreign"}]
    /\ secret \in [Cluster -> {"none", "empty", "current"}]
    /\ token = [c \in Cluster |-> IF c \in Managed \cup Misreported THEN "none"
                                 ELSE "current"]
    /\ \A c \in Cluster :
        CASE c \in Managed ->
               account[c] # "ours" /\ binding[c] # "ours" /\ secret[c] # "current"
          [] c \in Misreported -> Clean(c)
          [] OTHER -> account[c] = "ours" /\ Usable(c)
    /\ connected = Cluster \ Managed
    /\ goal = [c \in Managed |-> "connect"] /\ goals = 0
    /\ pc = "idle" /\ target \in Managed /\ hand = "none"
    /\ failed = [c \in Managed |-> "none"]
    /\ fetching = FALSE /\ candidates = {} /\ found = {} /\ listed = {}
    /\ failures = 0

Fail == failures < MaxFailures /\ failures' = failures + 1

Reached(c) == IF goal[c] = "connect" THEN Usable(c) ELSE Clean(c)

-----------------------------------------------------------------------------
(* The administrator.                                                      *)

Other(g) == IF g = "connect" THEN "disconnect" ELSE "connect"

ChangeGoal(c) ==
    /\ pc = "idle" /\ goals < MaxGoals
    /\ goals' = goals + 1
    /\ goal' = [goal EXCEPT ![c] = Other(@)]
    /\ failed' = [failed EXCEPT ![c] = "none"]
    /\ UNCHANGED <<leafVars, hubVars, pc, target, hand, fetchVars, failures>>

Command(c) ==
    IF Alternate /\ failed[c] # "none" THEN Other(failed[c]) ELSE goal[c]

\* The configurations are loaded and the GitopsCluster is read.
Begin(c) ==
    /\ pc = "idle" /\ ~Reached(c)
    /\ target' = c
    /\ pc' = IF Command(c) = "connect" THEN "account" ELSE "checkAccount"
    /\ UNCHANGED <<leafVars, hubVars, userVars, hand, failed, fetchVars, failures>>

-----------------------------------------------------------------------------
(* The commands.                                                           *)

CommandFrame == UNCHANGED <<connected, userVars, target, fetchVars>>

\* Mutant: the steps of a command are not its own.
Wander(step) == pc' = "connected" /\ UNCHANGED failed

Go(step) == pc' = step /\ UNCHANGED failed

Error ==
    /\ pc' = "idle"
    /\ failed' = [failed EXCEPT ![target] =
                    IF pc \in ConnectSteps THEN "connect" ELSE "disconnect"]

Success == pc' = "idle" /\ failed' = [failed EXCEPT ![target] = "none"]

\* A call does not return, or the command is interrupted.
Interrupt ==
    /\ pc # "idle"
    /\ Fail /\ Error
    /\ hand' = "none"
    /\ UNCHANGED <<leafVars, secret>> /\ CommandFrame

\* Mutant: an account that exists is an error.
OnlyNewAccount(c) ==
    IF account[c] = "none"
    THEN Go("binding") /\ account' = [account EXCEPT ![c] = "ours"]
    ELSE Error /\ UNCHANGED account

\* Mutant: an account that could not be created is not an error.
NoAccount(c) == Go("binding") /\ UNCHANGED account

NewAccount(c) ==
    /\ account' = [account EXCEPT ![c] = IF @ = "none" THEN "ours" ELSE @]
    /\ Go("binding")

\* createServiceAccount: one that exists will do.
CreateServiceAccount ==
    /\ pc = "account"
    /\ NewAccount(target)
    /\ UNCHANGED <<binding, token, secret, hand, failures>> /\ CommandFrame

\* createClusterRoleBinding: one that exists will do.
CreateClusterRoleBinding ==
    /\ pc = "binding"
    /\ binding' = [binding EXCEPT ![target] = IF @ = "none" THEN "ours" ELSE @]
    /\ Go("token")
    /\ UNCHANGED <<account, token, secret, hand, failures>> /\ CommandFrame

\* Mutant: a token secret that exists will do as well.
ReuseToken(c) ==
    Go("poll") /\ token' = [token EXCEPT ![c] = IF @ = "none" THEN "empty" ELSE @]

NewToken(c) ==
    IF token[c] = "none"
    THEN Go("poll") /\ token' = [token EXCEPT ![c] = "empty"]
    ELSE Error /\ UNCHANGED token

\* createSecret: one that exists is an error.
CreateSecret ==
    /\ pc = "token"
    /\ NewToken(target)
    /\ UNCHANGED <<account, binding, secret, hand, failures>> /\ CommandFrame

\* The token is there, or the secret has been deleted in the meantime.
PollToken ==
    /\ pc = "poll" /\ token[target] # "empty"
    /\ IF token[target] = "none"
       THEN Error /\ UNCHANGED hand
       ELSE Go("secret") /\ hand' = token[target]
    /\ UNCHANGED <<leafVars, secret, failures>> /\ CommandFrame

\* createOrUpdateGitOpsClusterSecret: Get, then Create when there is none.
GetOrCreateSecret ==
    /\ pc = "secret"
    /\ secret' = [secret EXCEPT ![target] = IF @ = "none" THEN hand ELSE @]
    /\ Go("update")
    /\ UNCHANGED <<leafVars, hand, failures>> /\ CommandFrame

\* Update.  A secret without data has a nil map, and writing to it panics.
UpdateSecret ==
    /\ pc = "update"
    /\ IF secret[target] = "empty"
       THEN Error /\ UNCHANGED secret
       ELSE Success /\ secret' = [secret EXCEPT ![target] = hand]
    /\ hand' = "none"
    /\ UNCHANGED <<leafVars, failures>> /\ CommandFrame

\* Mutant: the label is not looked at.
Exists(s) == s # "none"

Labelled(s) == s = "ours"

CheckServiceAccountName ==
    /\ pc = "checkAccount"
    /\ IF Labelled(account[target]) THEN Go("checkBinding") ELSE Error
    /\ UNCHANGED <<leafVars, secret, hand, failures>> /\ CommandFrame

CheckClusterRoleBindingName ==
    /\ pc = "checkBinding"
    /\ IF Labelled(binding[target]) THEN Go("deleteAccount") ELSE Error
    /\ UNCHANGED <<leafVars, secret, hand, failures>> /\ CommandFrame

\* The tokens of the account are no longer accepted.
Revoked(s) == IF s = "current" THEN "stale" ELSE s

\* deleteServiceAccount; nothing to delete is an error.
DeleteServiceAccount ==
    /\ pc = "deleteAccount"
    /\ IF account[target] = "none"
       THEN Error /\ UNCHANGED <<account, token, secret>>
       ELSE /\ account' = [account EXCEPT ![target] = "none"]
            /\ token' = [token EXCEPT ![target] = Revoked(@)]
            /\ secret' = [secret EXCEPT ![target] = Revoked(@)]
            /\ Go("deleteBinding")
    /\ UNCHANGED <<binding, hand, failures>> /\ CommandFrame

DeleteClusterRoleBinding ==
    /\ pc = "deleteBinding"
    /\ IF binding[target] = "none" THEN Error /\ UNCHANGED binding
       ELSE Go("deleteSecret") /\ binding' = [binding EXCEPT ![target] = "none"]
    /\ UNCHANGED <<account, token, secret, hand, failures>> /\ CommandFrame

DeleteGitOpsClusterSecret ==
    /\ pc = "deleteSecret"
    /\ IF secret[target] = "none" THEN Error /\ UNCHANGED secret
       ELSE Success /\ secret' = [secret EXCEPT ![target] = "none"]
    /\ UNCHANGED <<leafVars, hand, failures>> /\ CommandFrame

CommandStep ==
    \/ CreateServiceAccount \/ CreateClusterRoleBinding \/ CreateSecret
    \/ PollToken \/ GetOrCreateSecret \/ UpdateSecret
    \/ CheckServiceAccountName \/ CheckClusterRoleBindingName
    \/ DeleteServiceAccount \/ DeleteClusterRoleBinding
    \/ DeleteGitOpsClusterSecret

-----------------------------------------------------------------------------
(* The controllers: the token controller fills the token secret of an      *)
(* account that exists, and deletes one whose account does not.            *)

TokenController(c) ==
    /\ \/ /\ token[c] = "empty" /\ account[c] # "none"
          /\ token' = [token EXCEPT ![c] = "current"]
       \/ /\ token[c] = "stale" \/ (token[c] = "empty" /\ account[c] = "none")
          /\ token' = [token EXCEPT ![c] = "none"]
    /\ UNCHANGED <<account, binding, hubVars, userVars, pc, target, hand, failed,
                   fetchVars, failures>>

ClusterController(c) ==
    /\ c \notin Misreported
    /\ (c \in connected) # Usable(c)
    /\ connected' = IF Usable(c) THEN connected \cup {c} ELSE connected \ {c}
    /\ UNCHANGED <<leafVars, secret, userVars, pc, target, hand, failed, fetchVars,
                   failures>>

-----------------------------------------------------------------------------
(* Fetch, which the clusters manager calls again and again.                *)

FetchFrame == UNCHANGED <<leafVars, hubVars, userVars, pc, target, hand, failed>>

\* leafClusters: the GitopsClusters that are ready and connected.
ListGitopsClusters ==
    /\ ~fetching
    /\ fetching' = TRUE /\ candidates' = connected /\ found' = {}
    /\ UNCHANGED <<listed, failures>> /\ FetchFrame

\* The listing failed: no clusters.
ListFails ==
    /\ ~fetching
    /\ Fail
    /\ listed' = {}
    /\ UNCHANGED <<fetching, candidates, found>> /\ FetchFrame

\* Mutant: the clusters after a cluster without a secret are not looked at.
StopLooking(c) == candidates' = {}

NextCluster(c) == candidates' = candidates \ {c}

\* The secret of one of them; a cluster whose secret is missing or empty, or
\* for which no client can be made, is left out.
FetchCluster(c) ==
    /\ fetching /\ c \in candidates
    /\ \/ /\ secret[c] \in {"current", "stale"}
          /\ candidates' = candidates \ {c}
          /\ found' = found \cup {c} /\ UNCHANGED failures
       \/ /\ IF secret[c] \in {"current", "stale"} THEN Fail ELSE UNCHANGED failures
          /\ NextCluster(c)
          /\ UNCHANGED found
    /\ UNCHANGED <<fetching, listed>> /\ FetchFrame

FetchReturns ==
    /\ fetching /\ candidates = {}
    /\ listed' = found
    /\ fetching' = FALSE /\ found' = {}
    /\ UNCHANGED <<candidates, failures>> /\ FetchFrame

FetchStep ==
    \/ ListGitopsClusters \/ ListFails \/ FetchReturns
    \/ \E c \in Cluster : FetchCluster(c)

-----------------------------------------------------------------------------

Next ==
    \/ CommandStep \/ Interrupt \/ FetchStep
    \/ \E c \in Managed : ChangeGoal(c) \/ Begin(c)
    \/ \E c \in Cluster : TokenController(c) \/ ClusterController(c)

Spec == Init /\ [][Next]_vars

\* The administrator does not give up, the controllers act, and the clusters
\* manager fetches again and again.
FairSpec ==
    /\ Spec
    /\ WF_vars(CommandStep) /\ WF_vars(FetchStep)
    /\ \A c \in Managed : WF_vars(Begin(c))
    /\ \A c \in Cluster : WF_vars(TokenController(c)) /\ WF_vars(ClusterController(c))

-----------------------------------------------------------------------------
(* Properties.                                                             *)

\* A command that connects ends with success only when the secret of the
\* GitopsCluster has a token that the leaf cluster accepts, whatever commands
\* that ended half way have left behind (ConnectCluster).
ConnectIsTrue ==
    [][pc = "update" /\ failed'[target] = "none" /\ pc' = "idle" =>
        account[target] # "none" /\ secret'[target] = "current"]_vars

\* Accounts and bindings that carry another label are never deleted, and
\* while one is there the other resource of the command is not deleted
\* either: both names are checked before the first deletion
\* (DisconnectCluster).
ForeignKept ==
    [][\A c \in Managed :
        account[c] = "foreign" \/ binding[c] = "foreign" =>
            /\ account[c] # "none" => account'[c] = account[c]
            /\ binding[c] # "none" => binding'[c] = binding[c]]_vars

\* A command that disconnects ends with success only when nothing is left of
\* what it deletes, in either cluster: it never skips what is not there.
DisconnectIsTrue ==
    [][pc = "deleteSecret" /\ failed'[target] = "none" /\ pc' = "idle" =>
        account'[target] = "none" /\ binding'[target] = "none"
            /\ secret'[target] = "none"]_vars

\* There is no account, but there is something else, as a disconnect leaves it
\* that has ended half way.
Leftover(c) ==
    /\ account[c] = "none" /\ ~Clean(c)
    /\ ~(target = c /\ pc \in {"deleteBinding", "deleteSecret"})

\* Why repeating disconnect is of no use then: the account is the first that is
\* checked, so that what is left stays as it is until connect makes an account
\* again (DisconnectCluster, createServiceAccount).
LeftoversStay ==
    [][\A c \in Cluster : Leftover(c) =>
        \/ Leftover(c)' /\ binding'[c] = binding[c] /\ secret'[c] = secret[c]
        \/ pc = "account" /\ target = c /\ account'[c] = "ours"]_vars

NoForeign(c) == account[c] # "foreign" /\ binding[c] # "foreign"

\* Whatever an interrupted command has left, running the two commands in turn
\* gets the administrator where he wants to be (ConnectCluster and
\* DisconnectCluster, with the token controller between them).
EventuallyReached ==
    \A c \in Managed : NoForeign(c) => <>[](Reached(c) /\ pc = "idle")

\* A cluster that stays usable is in the list in the end, whatever state the
\* other clusters are in, and one that does not is not (Fetch).
EventuallyListed ==
    \A c \in Cluster :
        /\ <>[]Usable(c) => <>[](c \in listed)
        /\ <>[](secret[c] # "current") => <>[](c \notin listed)

\* connector.go:144-145 of DisconnectCluster: "The Service account, Cluster
\* Role binding and secret are deleted in the remote cluster and secret
\* containing token in hub cluster is deleted" -- by an administrator who
\* repeats the command until it has succeeded.
EventuallyDisconnected ==
    \A c \in Managed :
        Usable(c) /\ NoForeign(c) /\ pc = "idle" /\ goal[c] = "disconnect"
            ~> Clean(c)
=============================================================================
