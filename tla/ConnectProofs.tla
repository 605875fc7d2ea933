----------------------------- MODULE ConnectProofs -----------------------------
(***************************************************************************)
(* Proofs about Connect, for any clusters, changes of goal and failures.   *)
(***************************************************************************)
EXTENDS Connect, TLAPS

\* Once `connect' has seen to the account, the account is there; the token it
\* waits for is one that it has asked for itself, and so one that the account
\* still has when the token is in its hand.
ConnectInv ==
    /\ pc \in {"binding", "token", "poll", "secret", "update"} =>
          account[target] # "none"
    /\ pc = "poll" => token[target] # "stale"
    /\ pc \in {"secret", "update"} => hand = "current"

\* What `disconnect' deletes is what it has checked.
DisconnectInv ==
    /\ pc \in {"checkBinding", "deleteAccount"} => account[target] = "ours"
    /\ pc \in {"deleteBinding", "deleteSecret"} => account[target] = "none"
    /\ pc \in {"deleteAccount", "deleteBinding"} => binding[target] = "ours"
    /\ pc = "deleteSecret" => binding[target] = "none"

IInv == TypeOK /\ target \in Managed /\ ConnectInv /\ DisconnectInv

LEMMA InitInv == Init => IInv
<1> SUFFICES ASSUME Init PROVE IInv
  OBVIOUS
<1>1. target \in Cluster
  BY ConnectAssumption DEF Init
<1>2. token \in [Cluster -> {"none", "empty", "current", "stale"}]
  BY DEF Init
<1>3. secret \in [Cluster -> {"none", "empty", "current", "stale"}]
  BY DEF Init
<1>4. goal \in [Managed -> Goals] /\ failed \in [Managed -> Goals \cup {"none"}]
  BY DEF Init, Goals
<1>5. goals \in 0 .. MaxGoals /\ failures \in 0 .. MaxFailures
  BY ConnectAssumption DEF Init
<1>6. connected \in SUBSET Cluster /\ fetching \in BOOLEAN
  BY DEF Init
<1>7. TypeOK
  BY <1>1, <1>2, <1>3, <1>4, <1>5, <1>6 DEF Init, TypeOK
<1>8. target \in Managed /\ ConnectInv /\ DisconnectInv
  BY DEF Init, ConnectInv, DisconnectInv
<1> QED BY <1>7, <1>8 DEF IInv

\* An end with an error, and with success.
LEMMA ErrorType ==
    ASSUME IInv, Error
    PROVE  pc' = "idle" /\ failed' \in [Managed -> Goals \cup {"none"}]
           /\ failed'[target] # "none"
BY DEF IInv, TypeOK, Error, Goals

LEMMA SuccessType ==
    ASSUME IInv, Success
    PROVE  pc' = "idle" /\ failed' \in [Managed -> Goals \cup {"none"}]
BY DEF IInv, TypeOK, Success

\* A command that has come to its end, whatever it leaves.
LEMMA EndInv ==
    ASSUME IInv, pc' = "idle", failed' \in [Managed -> Goals \cup {"none"}],
           CommandFrame, account' \in [Cluster -> {"none", "ours", "foreign"}],
           binding' \in [Cluster -> {"none", "ours", "foreign"}],
           token' \in [Cluster -> {"none", "empty", "current", "stale"}],
           secret' \in [Cluster -> {"none", "empty", "current", "stale"}],
           hand' \in {"none", "current", "stale"}, failures' \in 0 .. MaxFailures
    PROVE  IInv'
<1>1. TypeOK'
  BY DEF IInv, TypeOK, CommandFrame, userVars, fetchVars
<1>2. target' \in Managed /\ ConnectInv' /\ DisconnectInv'
  BY DEF IInv, CommandFrame, ConnectInv, DisconnectInv
<1> QED BY <1>1, <1>2 DEF IInv

\* A command that goes on.
LEMMA GoInv ==
    ASSUME IInv, NEW step \in ConnectSteps \cup DisconnectSteps, Go(step), CommandFrame,
           account' \in [Cluster -> {"none", "ours", "foreign"}],
           binding' \in [Cluster -> {"none", "ours", "foreign"}],
           token' \in [Cluster -> {"none", "empty", "current", "stale"}],
           secret' \in [Cluster -> {"none", "empty", "current", "stale"}],
           hand' \in {"none", "current", "stale"}, UNCHANGED failures
    PROVE  TypeOK' /\ target' \in Managed /\ target' = target /\ pc' = step
<1>1. pc' = step /\ UNCHANGED <<failed, connected, goal, goals, target>>
      /\ UNCHANGED <<fetching, candidates, found, listed, failures>>
  BY DEF Go, CommandFrame, userVars, fetchVars
<1> QED BY <1>1 DEF IInv, TypeOK

LEMMA ConnectStepInv ==
    ASSUME IInv, \/ CreateServiceAccount \/ CreateClusterRoleBinding \/ CreateSecret
                 \/ PollToken \/ GetOrCreateSecret \/ UpdateSecret
    PROVE  IInv'
<1>1. /\ account \in [Cluster -> {"none", "ours", "foreign"}]
      /\ binding \in [Cluster -> {"none", "ours", "foreign"}]
      /\ token \in [Cluster -> {"none", "empty", "current", "stale"}]
      /\ secret \in [Cluster -> {"none", "empty", "current", "stale"}]
      /\ hand \in {"none", "current", "stale"} /\ failures \in 0 .. MaxFailures
      /\ target \in Cluster
  BY DEF IInv, TypeOK
<1>2. CASE CreateServiceAccount
  <2>1. /\ account' \in [Cluster -> {"none", "ours", "foreign"}]
        /\ account'[target] # "none" /\ Go("binding") /\ CommandFrame
        /\ UNCHANGED <<binding, token, secret, hand, failures>>
    BY <1>1, <1>2 DEF CreateServiceAccount, NewAccount
  <2>2. TypeOK' /\ target' \in Managed /\ target' = target /\ pc' = "binding"
    BY <1>1, <2>1, GoInv DEF ConnectSteps
  <2> QED BY <2>1, <2>2 DEF IInv, ConnectInv, DisconnectInv
<1>3. CASE CreateClusterRoleBinding
  <2>1. /\ binding' \in [Cluster -> {"none", "ours", "foreign"}]
        /\ pc = "binding" /\ Go("token") /\ CommandFrame
        /\ UNCHANGED <<account, token, secret, hand, failures>>
    BY <1>1, <1>3 DEF CreateClusterRoleBinding
  <2>2. TypeOK' /\ target' \in Managed /\ target' = target /\ pc' = "token"
    BY <1>1, <2>1, GoInv DEF ConnectSteps
  <2> QED BY <2>1, <2>2 DEF IInv, ConnectInv, DisconnectInv
<1>4. CASE CreateSecret
  <2>1. /\ pc = "token" /\ NewToken(target) /\ CommandFrame
        /\ UNCHANGED <<account, binding, secret, hand, failures>>
    BY <1>4 DEF CreateSecret
  <2>2. CASE token[target] = "none"
    <3>1. /\ token' \in [Cluster -> {"none", "empty", "current", "stale"}]
          /\ token'[target] = "empty" /\ Go("poll")
      BY <1>1, <2>1, <2>2 DEF NewToken
    <3>2. TypeOK' /\ target' \in Managed /\ target' = target /\ pc' = "poll"
      BY <1>1, <2>1, <3>1, GoInv DEF ConnectSteps
    <3> QED BY <2>1, <3>1, <3>2 DEF IInv, ConnectInv, DisconnectInv
  <2>3. CASE token[target] # "none"
    BY <1>1, <2>1, <2>3, ErrorType, EndInv DEF NewToken
  <2> QED BY <2>2, <2>3
<1>5. CASE PollToken
  <2>1. /\ pc = "poll" /\ token[target] # "empty" /\ CommandFrame
        /\ UNCHANGED <<account, binding, token, secret, failures>>
    BY <1>5 DEF PollToken, leafVars
  <2>2. CASE token[target] = "none"
    BY <1>1, <1>5, <2>1, <2>2, ErrorType, EndInv DEF PollToken
  <2>3. CASE token[target] # "none"
    <3>1. hand' = "current" /\ Go("secret")
      BY <1>1, <1>5, <2>1, <2>3 DEF PollToken, IInv, ConnectInv
    <3>2. TypeOK' /\ target' \in Managed /\ target' = target /\ pc' = "secret"
      BY <1>1, <2>1, <3>1, GoInv DEF ConnectSteps
    <3> QED BY <2>1, <3>1, <3>2 DEF IInv, ConnectInv, DisconnectInv
  <2> QED BY <2>2, <2>3
<1>6. CASE GetOrCreateSecret
  <2>1. /\ pc = "secret" /\ Go("update") /\ CommandFrame
        /\ UNCHANGED <<account, binding, token, hand, failures>>
    BY <1>6 DEF GetOrCreateSecret, leafVars
  <2>2. secret' \in [Cluster -> {"none", "empty", "current", "stale"}]
    BY <1>1, <1>6 DEF GetOrCreateSecret
  <2>3. TypeOK' /\ target' \in Managed /\ target' = target /\ pc' = "update"
    BY <1>1, <2>1, <2>2, GoInv DEF ConnectSteps
  <2> QED BY <2>1, <2>3 DEF IInv, ConnectInv, DisconnectInv
<1>7. CASE UpdateSecret
  <2>1. /\ secret' \in [Cluster -> {"none", "empty", "current", "stale"}]
        /\ hand' = "none" /\ hand' \in {"none", "current", "stale"}
        /\ (Error \/ Success)
        /\ CommandFrame /\ UNCHANGED <<account, binding, token, failures>>
    BY <1>1, <1>7 DEF UpdateSecret, leafVars
  <2>2. pc' = "idle" /\ failed' \in [Managed -> Goals \cup {"none"}]
    BY <2>1, ErrorType, SuccessType
  <2> QED BY <1>1, <2>1, <2>2, EndInv
<1> QED BY <1>2, <1>3, <1>4, <1>5, <1>6, <1>7

LEMMA DisconnectStepInv ==
    ASSUME IInv, \/ CheckServiceAccountName \/ CheckClusterRoleBindingName
                 \/ DeleteServiceAccount \/ DeleteClusterRoleBinding
                 \/ DeleteGitOpsClusterSecret \/ Interrupt
    PROVE  IInv'
<1>1. /\ account \in [Cluster -> {"none", "ours", "foreign"}]
      /\ binding \in [Cluster -> {"none", "ours", "foreign"}]
      /\ token \in [Cluster -> {"none", "empty", "current", "stale"}]
      /\ secret \in [Cluster -> {"none", "empty", "current", "stale"}]
      /\ hand \in {"none", "current", "stale"} /\ failures \in 0 .. MaxFailures
      /\ target \in Cluster
  BY DEF IInv, TypeOK
<1>2. CASE CheckServiceAccountName
  <2>1. CommandFrame /\ UNCHANGED <<account, binding, token, secret, hand, failures>>
    BY <1>2 DEF CheckServiceAccountName, leafVars
  <2>2. CASE account[target] = "ours"
    <3>1. Go("checkBinding")
      BY <1>2, <2>2 DEF CheckServiceAccountName, Labelled
    <3>2. TypeOK' /\ target' \in Managed /\ target' = target /\ pc' = "checkBinding"
      BY <1>1, <2>1, <3>1, GoInv DEF DisconnectSteps
    <3> QED BY <2>1, <2>2, <3>2 DEF IInv, ConnectInv, DisconnectInv
  <2>3. CASE account[target] # "ours"
    BY <1>1, <1>2, <2>1, <2>3, ErrorType, EndInv DEF CheckServiceAccountName, Labelled
  <2> QED BY <2>2, <2>3
<1>3. CASE CheckClusterRoleBindingName
  <2>1. /\ pc = "checkBinding" /\ CommandFrame
        /\ UNCHANGED <<account, binding, token, secret, hand, failures>>
    BY <1>3 DEF CheckClusterRoleBindingName, leafVars
  <2>2. CASE binding[target] = "ours"
    <3>1. Go("deleteAccount")
      BY <1>3, <2>2 DEF CheckClusterRoleBindingName, Labelled
    <3>2. TypeOK' /\ target' \in Managed /\ target' = target /\ pc' = "deleteAccount"
      BY <1>1, <2>1, <3>1, GoInv DEF DisconnectSteps
    <3> QED BY <2>1, <2>2, <3>2 DEF IInv, ConnectInv, DisconnectInv
  <2>3. CASE binding[target] # "ours"
    BY <1>1, <1>3, <2>1, <2>3, ErrorType, EndInv
       DEF CheckClusterRoleBindingName, Labelled
  <2> QED BY <2>2, <2>3
<1>4. CASE DeleteServiceAccount
  <2>1. /\ pc = "deleteAccount" /\ CommandFrame
        /\ UNCHANGED <<binding, hand, failures>>
    BY <1>4 DEF DeleteServiceAccount
  <2>2. CASE account[target] = "none"
    BY <1>1, <1>4, <2>1, <2>2, ErrorType, EndInv DEF DeleteServiceAccount
  <2>3. CASE account[target] # "none"
    <3>1. /\ account' \in [Cluster -> {"none", "ours", "foreign"}]
          /\ account'[target] = "none" /\ Go("deleteBinding")
      BY <1>1, <1>4, <2>3 DEF DeleteServiceAccount
    <3>2. /\ token' \in [Cluster -> {"none", "empty", "current", "stale"}]
          /\ secret' \in [Cluster -> {"none", "empty", "current", "stale"}]
      BY <1>1, <1>4, <2>3 DEF DeleteServiceAccount, Revoked
    <3>3. TypeOK' /\ target' \in Managed /\ target' = target /\ pc' = "deleteBinding"
      BY <1>1, <2>1, <3>1, <3>2, GoInv DEF DisconnectSteps
    <3> QED BY <2>1, <3>1, <3>3 DEF IInv, ConnectInv, DisconnectInv
  <2> QED BY <2>2, <2>3
<1>5. CASE DeleteClusterRoleBinding
  <2>1. /\ pc = "deleteBinding" /\ CommandFrame
        /\ UNCHANGED <<account, token, secret, hand, failures>>
    BY <1>5 DEF DeleteClusterRoleBinding
  <2>2. CASE binding[target] = "none"
    BY <1>1, <1>5, <2>1, <2>2, ErrorType, EndInv DEF DeleteClusterRoleBinding
  <2>3. CASE binding[target] # "none"
    <3>1. /\ binding' \in [Cluster -> {"none", "ours", "foreign"}]
          /\ binding'[target] = "none" /\ Go("deleteSecret")
      BY <1>1, <1>5, <2>3 DEF DeleteClusterRoleBinding
    <3>2. TypeOK' /\ target' \in Managed /\ target' = target /\ pc' = "deleteSecret"
      BY <1>1, <2>1, <3>1, GoInv DEF DisconnectSteps
    <3> QED BY <2>1, <3>1, <3>2 DEF IInv, ConnectInv, DisconnectInv
  <2> QED BY <2>2, <2>3
<1>6. CASE DeleteGitOpsClusterSecret
  <2>1. /\ secret' \in [Cluster -> {"none", "empty", "current", "stale"}]
        /\ (Error \/ Success)
        /\ CommandFrame /\ UNCHANGED <<account, binding, token, hand, failures>>
    BY <1>1, <1>6 DEF DeleteGitOpsClusterSecret, leafVars
  <2>2. pc' = "idle" /\ failed' \in [Managed -> Goals \cup {"none"}]
    BY <2>1, ErrorType, SuccessType
  <2> QED BY <1>1, <2>1, <2>2, EndInv
<1>7. CASE Interrupt
  <2>1. failures < MaxFailures /\ failures' = failures + 1
    BY <1>7 DEF Interrupt, Fail
  <2>2. failures' \in 0 .. MaxFailures
    BY <1>1, <2>1, ConnectAssumption
  <2>3. /\ Error /\ hand' = "none" /\ CommandFrame
        /\ UNCHANGED <<account, binding, token, secret>>
    BY <1>7 DEF Interrupt, leafVars
  <2> QED BY <1>1, <2>2, <2>3, ErrorType, EndInv
<1> QED BY <1>2, <1>3, <1>4, <1>5, <1>6, <1>7

\* The clusters, the secrets and the commands are let alone.
LEMMA OthersInv ==
    ASSUME IInv, FetchStep \/ \E c \in Managed : ChangeGoal(c) \/ Begin(c)
    PROVE  IInv'
<1>1. CASE FetchStep
  <2>1. UNCHANGED <<account, binding, token, secret, connected, goal, goals, pc,
                    target, hand, failed>>
    BY <1>1 DEF FetchStep, ListGitopsClusters, ListFails, FetchReturns, FetchCluster,
                FetchFrame, leafVars, hubVars, userVars
  <2>2. failures' = failures \/ Fail
    BY <1>1 DEF FetchStep, ListGitopsClusters, ListFails, FetchReturns, FetchCluster
  <2>3. failures' \in 0 .. MaxFailures
    BY <2>2, ConnectAssumption DEF IInv, TypeOK, Fail
  <2>4. fetching' \in BOOLEAN
    BY <1>1 DEF IInv, TypeOK, FetchStep, ListGitopsClusters, ListFails, FetchReturns,
                FetchCluster
  <2>5. candidates' \in SUBSET Cluster /\ found' \in SUBSET Cluster
        /\ listed' \in SUBSET Cluster
    BY <1>1 DEF IInv, TypeOK, FetchStep, ListGitopsClusters, ListFails, FetchReturns,
                FetchCluster, NextCluster
  <2>6. TypeOK'
    BY <2>1, <2>3, <2>4, <2>5 DEF IInv, TypeOK
  <2>7. target' \in Managed /\ ConnectInv' /\ DisconnectInv'
    BY <2>1 DEF IInv, ConnectInv, DisconnectInv
  <2> QED BY <2>6, <2>7 DEF IInv
<1>2. ASSUME NEW c \in Managed, ChangeGoal(c) PROVE IInv'
  <2>1. /\ goals' \in 0 .. MaxGoals /\ goal' \in [Managed -> Goals]
        /\ failed' \in [Managed -> Goals \cup {"none"}]
    BY <1>2, ConnectAssumption DEF IInv, TypeOK, ChangeGoal, Other, Goals
  <2>2. UNCHANGED <<account, binding, token, secret, connected, pc, target, hand,
                    fetching, candidates, found, listed, failures>>
    BY <1>2 DEF ChangeGoal, leafVars, hubVars, fetchVars
  <2>3. TypeOK'
    BY <2>1, <2>2 DEF IInv, TypeOK
  <2>4. target' \in Managed /\ ConnectInv' /\ DisconnectInv'
    BY <2>2 DEF IInv, ConnectInv, DisconnectInv
  <2> QED BY <2>3, <2>4 DEF IInv
<1>3. ASSUME NEW c \in Managed, Begin(c) PROVE IInv'
  <2>1. /\ pc' \in {"account", "checkAccount"} /\ target' = c
        /\ UNCHANGED <<account, binding, token, secret, connected, goal, goals, hand,
                       failed, fetching, candidates, found, listed, failures>>
    BY <1>3 DEF Begin, leafVars, hubVars, userVars, fetchVars
  <2>2. c \in Cluster /\ pc' \in ConnectSteps \cup DisconnectSteps
    BY <2>1, ConnectAssumption DEF ConnectSteps, DisconnectSteps
  <2>3. TypeOK'
    BY <2>1, <2>2 DEF IInv, TypeOK
  <2>4. target' \in Managed /\ ConnectInv' /\ DisconnectInv'
    BY <2>1 DEF ConnectInv, DisconnectInv
  <2> QED BY <2>3, <2>4 DEF IInv
<1> QED BY <1>1, <1>2, <1>3

\* The controllers: no token of an account that is there goes stale.
LEMMA ControllersInv ==
    ASSUME IInv, NEW c \in Cluster, TokenController(c) \/ ClusterController(c)
    PROVE  IInv'
<1>1. CASE TokenController(c)
  <2>1. UNCHANGED <<account, binding, secret, connected, goal, goals, pc, target, hand,
                    failed, fetching, candidates, found, listed, failures>>
    BY <1>1 DEF TokenController, hubVars, userVars, fetchVars
  <2>2. token' \in [Cluster -> {"none", "empty", "current", "stale"}]
        /\ (token[target] # "stale" => token'[target] # "stale")
    BY <1>1 DEF TokenController, IInv, TypeOK
  <2>3. TypeOK'
    BY <2>1, <2>2 DEF IInv, TypeOK
  <2>4. target' \in Managed /\ ConnectInv' /\ DisconnectInv'
    BY <2>1, <2>2 DEF IInv, ConnectInv, DisconnectInv
  <2> QED BY <2>3, <2>4 DEF IInv
<1>2. CASE ClusterController(c)
  <2>1. UNCHANGED <<account, binding, token, secret, goal, goals, pc, target, hand,
                    failed, fetching, candidates, found, listed, failures>>
    BY <1>2 DEF ClusterController, leafVars, userVars, fetchVars
  <2>2. connected' \in SUBSET Cluster
    BY <1>2 DEF ClusterController, IInv, TypeOK
  <2>3. TypeOK'
    BY <2>1, <2>2 DEF IInv, TypeOK
  <2>4. target' \in Managed /\ ConnectInv' /\ DisconnectInv'
    BY <2>1 DEF IInv, ConnectInv, DisconnectInv
  <2> QED BY <2>3, <2>4 DEF IInv
<1> QED BY <1>1, <1>2

LEMMA NextInv == IInv /\ [Next]_vars => IInv'
<1> SUFFICES ASSUME IInv, [Next]_vars PROVE IInv'
  OBVIOUS
<1>1. CASE CommandStep
  BY <1>1, ConnectStepInv, DisconnectStepInv DEF CommandStep
<1>2. CASE Interrupt
  BY <1>2, DisconnectStepInv
<1>3. CASE FetchStep \/ \E c \in Managed : ChangeGoal(c) \/ Begin(c)
  BY <1>3, OthersInv
<1>4. CASE \E c \in Cluster : TokenController(c) \/ ClusterController(c)
  BY <1>4, ControllersInv
<1>5. CASE UNCHANGED vars
  <2>1. UNCHANGED <<account, binding, token, secret, connected, goal, goals, pc, target,
                    hand, failed, fetching, candidates, found, listed, failures>>
    BY <1>5 DEF vars, leafVars, hubVars, userVars, fetchVars
  <2>2. TypeOK'
    BY <2>1 DEF IInv, TypeOK
  <2>3. target' \in Managed /\ ConnectInv' /\ DisconnectInv'
    BY <2>1 DEF IInv, ConnectInv, DisconnectInv
  <2> QED BY <2>2, <2>3 DEF IInv
<1> QED BY <1>1, <1>2, <1>3, <1>4, <1>5 DEF Next

LEMMA ConnectInvariance == Spec => []IInv
<1> QED BY InitInv, NextInv, PTL DEF Spec

\* The commands stay in their steps and the secrets in their states, for any
\* clusters and however often a command ends half way.
THEOREM TypeCorrect == Spec => []TypeOK
<1>1. IInv => TypeOK
  BY DEF IInv
<1> QED BY <1>1, ConnectInvariance, PTL

\* `connect' ends with success only if the secret of the GitopsCluster has a
\* token of an account that is there (ConnectCluster): a stale token that an
\* earlier command left is never taken.
THEOREM SuccessIsConnected == Spec => ConnectIsTrue
<1> DEFINE Act == pc = "update" /\ failed'[target] = "none" /\ pc' = "idle" =>
                    account[target] # "none" /\ secret'[target] = "current"
<1>1. IInv /\ [Next]_vars => [Act]_vars
  <2> SUFFICES ASSUME IInv, Next, pc = "update", pc' = "idle", failed'[target] = "none"
               PROVE  account[target] # "none" /\ secret'[target] = "current"
    BY DEF Act
  <2>1. account[target] # "none" /\ hand = "current" /\ target \in Cluster
        /\ secret \in [Cluster -> {"none", "empty", "current", "stale"}]
    BY DEF IInv, TypeOK, ConnectInv
  <2>2. UpdateSecret
    <3>1. ~Interrupt
      BY ErrorType DEF Interrupt
    <3>2. pc' # pc
      OBVIOUS
    <3> QED BY <3>1, <3>2
          DEF Next, CommandStep, CreateServiceAccount, CreateClusterRoleBinding,
              CreateSecret, PollToken, GetOrCreateSecret, CheckServiceAccountName,
              CheckClusterRoleBindingName, DeleteServiceAccount,
              DeleteClusterRoleBinding, DeleteGitOpsClusterSecret, FetchStep,
              ListGitopsClusters, ListFails, FetchReturns, FetchCluster, FetchFrame,
              ChangeGoal, Begin, TokenController, ClusterController
  <2>3. secret' = [secret EXCEPT ![target] = hand]
    BY <2>2, ErrorType DEF UpdateSecret
  <2> QED BY <2>1, <2>3
<1> QED BY <1>1, ConnectInvariance, PTL DEF Spec, ConnectIsTrue

\* `disconnect' never deletes an account or a binding that connect did not
\* create, and leaves both alone if one of them is foreign (DisconnectCluster
\* checks both labels before the first deletion).
THEOREM NeverDeletesForeign == Spec => ForeignKept
<1> DEFINE Act == \A c \in Managed :
                    account[c] = "foreign" \/ binding[c] = "foreign" =>
                        /\ account[c] # "none" => account'[c] = account[c]
                        /\ binding[c] # "none" => binding'[c] = binding[c]
<1>1. IInv /\ [Next]_vars => [Act]_vars
  <2> SUFFICES ASSUME IInv, Next, NEW c \in Managed,
                      account[c] = "foreign" \/ binding[c] = "foreign"
               PROVE  /\ account[c] # "none" => account'[c] = account[c]
                      /\ binding[c] # "none" => binding'[c] = binding[c]
    BY DEF Act
  <2>1. /\ c \in Cluster /\ target \in Cluster
        /\ account \in [Cluster -> {"none", "ours", "foreign"}]
        /\ binding \in [Cluster -> {"none", "ours", "foreign"}]
    BY ConnectAssumption DEF IInv, TypeOK
  <2>2. CASE CreateServiceAccount
    BY <2>1, <2>2 DEF CreateServiceAccount, NewAccount
  <2>3. CASE CreateClusterRoleBinding
    BY <2>1, <2>3 DEF CreateClusterRoleBinding
  <2>4. CASE DeleteServiceAccount
    <3>1. account[target] = "ours" /\ binding[target] = "ours" /\ binding' = binding
      BY <2>4 DEF DeleteServiceAccount, IInv, DisconnectInv
    <3>2. c # target
      BY <3>1
    <3> QED BY <2>1, <2>4, <3>1, <3>2 DEF DeleteServiceAccount
  <2>5. CASE DeleteClusterRoleBinding
    <3>1. account[target] = "none" /\ binding[target] = "ours" /\ account' = account
      BY <2>5 DEF DeleteClusterRoleBinding, IInv, DisconnectInv
    <3>2. c # target
      BY <3>1
    <3> QED BY <2>1, <2>5, <3>1, <3>2 DEF DeleteClusterRoleBinding
  <2>6. CASE ~(CreateServiceAccount \/ CreateClusterRoleBinding
               \/ DeleteServiceAccount \/ DeleteClusterRoleBinding)
    <3>1. UNCHANGED <<account, binding>>
      BY <2>6 DEF Next, CommandStep, CreateSecret, PollToken, GetOrCreateSecret,
              UpdateSecret, CheckServiceAccountName, CheckClusterRoleBindingName,
              DeleteGitOpsClusterSecret, Interrupt, FetchStep,
              ListGitopsClusters, ListFails, FetchReturns, FetchCluster, FetchFrame,
              ChangeGoal, Begin, TokenController, ClusterController, leafVars
    <3> QED BY <3>1
  <2> QED BY <2>2, <2>3, <2>4, <2>5, <2>6
<1> QED BY <1>1, ConnectInvariance, PTL DEF Spec, ForeignKept

\* `disconnect' ends with success only if neither the account, nor the binding,
\* nor the secret is left (DisconnectCluster): whatever deletion it does not get
\* to do ends it with an error.
THEOREM SuccessIsDisconnected == Spec => DisconnectIsTrue
<1> DEFINE Act == pc = "deleteSecret" /\ failed'[target] = "none" /\ pc' = "idle" =>
                    account'[target] = "none" /\ binding'[target] = "none"
                        /\ secret'[target] = "none"
<1>1. IInv /\ [Next]_vars => [Act]_vars
  <2> SUFFICES ASSUME IInv, Next, pc = "deleteSecret", pc' = "idle",
                      failed'[target] = "none"
               PROVE  /\ account'[target] = "none" /\ binding'[target] = "none"
                      /\ secret'[target] = "none"
    BY DEF Act
  <2>1. /\ account[target] = "none" /\ binding[target] = "none" /\ target \in Cluster
        /\ secret \in [Cluster -> {"none", "empty", "current", "stale"}]
    BY DEF IInv, TypeOK, DisconnectInv
  <2>2. DeleteGitOpsClusterSecret
    <3>1. ~Interrupt
      BY ErrorType DEF Interrupt
    <3> QED BY <3>1
          DEF Next, CommandStep, CreateServiceAccount, CreateClusterRoleBinding,
              CreateSecret, PollToken, GetOrCreateSecret, UpdateSecret,
              CheckServiceAccountName, CheckClusterRoleBindingName,
              DeleteServiceAccount, DeleteClusterRoleBinding, FetchStep,
              ListGitopsClusters, ListFails, FetchReturns, FetchCluster, FetchFrame,
              ChangeGoal, Begin, TokenController, ClusterController
  <2>3. secret' = [secret EXCEPT ![target] = "none"] /\ UNCHANGED <<account, binding>>
    BY <2>2, ErrorType DEF DeleteGitOpsClusterSecret, leafVars
  <2> QED BY <2>1, <2>3
<1> QED BY <1>1, ConnectInvariance, PTL DEF Spec, DisconnectIsTrue

\* What a disconnect that ended half way has left behind stays as it is, however
\* often the command is run again, until `connect' has made an account: the
\* first thing that DisconnectCluster checks is an account that is not there.
THEOREM OnlyConnectGoesOn == Spec => LeftoversStay
<1> DEFINE Act(c) == \/ Leftover(c)' /\ binding'[c] = binding[c] /\ secret'[c] = secret[c]
                     \/ pc = "account" /\ target = c /\ account'[c] = "ours"
<1>1. ASSUME IInv, Next, NEW c \in Cluster, Leftover(c)
      PROVE  Act(c)
  <2>1. /\ target \in Cluster /\ account[c] = "none"
        /\ account \in [Cluster -> {"none", "ours", "foreign"}]
        /\ binding \in [Cluster -> {"none", "ours", "foreign"}]
        /\ secret \in [Cluster -> {"none", "empty", "current", "stale"}]
    BY <1>1 DEF IInv, TypeOK, Leftover
  <2>2. target = c => pc \in {"idle", "account", "checkAccount"}
    BY <1>1, <2>1
    DEF IInv, TypeOK, ConnectInv, DisconnectInv, ConnectSteps, DisconnectSteps, Leftover
  <2>3. ASSUME account'[c] = account[c], binding'[c] = binding[c], secret'[c] = secret[c],
               target' = c => pc' \notin {"deleteBinding", "deleteSecret"}
        PROVE  Act(c)
    BY <1>1, <2>3 DEF Leftover, Clean
  <2>4. CASE target = c /\ (CommandStep \/ Interrupt)
    <3>1. CASE CreateServiceAccount
      BY <2>1, <2>4, <3>1 DEF CreateServiceAccount, NewAccount
    <3>2. CASE CheckServiceAccountName
      BY <2>1, <2>3, <2>4, <3>2
      DEF CheckServiceAccountName, Labelled, Error, CommandFrame, leafVars
    <3>3. CASE Interrupt
      BY <2>3, <3>3 DEF Interrupt, Error, CommandFrame, leafVars
    <3> QED BY <2>2, <2>4, <3>1, <3>2, <3>3
        DEF CommandStep, CreateClusterRoleBinding, CreateSecret, PollToken,
            GetOrCreateSecret, UpdateSecret, CheckClusterRoleBindingName,
            DeleteServiceAccount, DeleteClusterRoleBinding, DeleteGitOpsClusterSecret
  <2>5. CASE target # c /\ (CommandStep \/ Interrupt)
    <3>1. target' = target
      BY <2>5 DEF CommandStep, CreateServiceAccount, CreateClusterRoleBinding,
              CreateSecret, PollToken, GetOrCreateSecret, UpdateSecret,
              CheckServiceAccountName, CheckClusterRoleBindingName,
              DeleteServiceAccount, DeleteClusterRoleBinding,
              DeleteGitOpsClusterSecret, Interrupt, CommandFrame
    <3>2. /\ account'[c] = account[c] /\ binding'[c] = binding[c]
          /\ secret'[c] = secret[c]
      BY <2>1, <2>5 DEF CommandStep, CreateServiceAccount, NewAccount,
              CreateClusterRoleBinding, CreateSecret, PollToken, GetOrCreateSecret,
              UpdateSecret, CheckServiceAccountName, CheckClusterRoleBindingName,
              DeleteServiceAccount, DeleteClusterRoleBinding,
              DeleteGitOpsClusterSecret, Interrupt, leafVars
    <3> QED BY <2>3, <2>5, <3>1, <3>2
  <2>6. CASE \/ FetchStep \/ \E d \in Managed : ChangeGoal(d) \/ Begin(d)
             \/ \E d \in Cluster : TokenController(d) \/ ClusterController(d)
    <3>1. UNCHANGED <<account, binding, secret>>
      BY <2>6 DEF FetchStep, ListGitopsClusters, ListFails, FetchReturns, FetchCluster,
              FetchFrame, ChangeGoal, Begin, TokenController, ClusterController,
              leafVars, hubVars
    <3>2. target' = c => pc' \notin {"deleteBinding", "deleteSecret"}
      BY <1>1, <2>6 DEF FetchStep, ListGitopsClusters, ListFails, FetchReturns,
              FetchCluster, FetchFrame, ChangeGoal, Begin, TokenController,
              ClusterController, Leftover
    <3> QED BY <2>3, <3>1, <3>2
  <2> QED BY <1>1, <2>4, <2>5, <2>6 DEF Next
<1>2. IInv /\ [Next]_vars => [\A c \in Cluster : Leftover(c) => Act(c)]_vars
  BY <1>1
<1> QED BY <1>2, ConnectInvariance, PTL DEF Spec, LeftoversStay
=============================================================================
