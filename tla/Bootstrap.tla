------------------------------ MODULE Bootstrap ------------------------------
(***************************************************************************)
(* The commands `gitops bootstrap' and `gitops bootstrap auth' of          *)
(* pkg/bootstrap: what they find is read once (Build), then the steps of   *)
(* the workflow run in order, and what a step puts out is written (secrets *)
(* to the cluster, files to the git repository) before the next one runs.  *)
(* An administrator who is not done runs a command again.                  *)
(*                                                                         *)
(* Left out: the questions whose answers change nothing that is kept here  *)
(* (credentials, repository and discovery URL; a wrong answer is a call    *)
(* that fails), and what is printed, exported manifests included.          *)
(*                                                                         *)
(* External: the git server and library, Flux, the administrator.          *)
(***************************************************************************)
EXTENDS Naturals, Sequences

CONSTANTS
    Version,      \* that can be asked for
    NoVersion,    \* the empty string: the chart's latest
    Command,      \* the commands that are run, by their flags
    None,
    MaxFailures   \* bound on failing calls

Component == {"none", "policy-agent", "tf-controller"}

AllCommands ==
    [auth : BOOLEAN, silent : BOOLEAN, export : BOOLEAN,
     bootstrapFlux : BOOLEAN, version : Version \cup {NoVersion},
     password : BOOLEAN, oidc : BOOLEAN, components : Seq(Component)]

Release == [version : Version \cup {NoVersion}, oidc : BOOLEAN,
            terraformUI : BOOLEAN]

\* `bootstrap auth' has no flags for the version and the components.
ASSUME BootstrapAssumption ==
    /\ Command \subseteq AllCommands /\ None \notin AllCommands
    /\ \A c \in Command : c.auth => c.version = NoVersion /\ c.components = <<>>
    /\ NoVersion \notin Version /\ None \notin Release /\ MaxFailures \in Nat

\* The files that the steps write: the HelmRepository, the HelmRelease of
\* Weave GitOps, and the manifests of the extra components.
Files == [repository : BOOLEAN, release : Release \cup {None},
          agent : BOOLEAN, terraform : BOOLEAN]

NoFiles == [repository |-> FALSE, release |-> None,
            agent |-> FALSE, terraform |-> FALSE]

VARIABLES
    flux,      \* Flux is bootstrapped
    repo,      \* the files in the git repository
    cluster,   \* those that Flux has applied
    adminSecret, oidcSecret,
    refuses,   \* the git library does not commit what changes nothing
    goal,      \* what the administrator wants to run
    command,   \* what runs
    config,    \* what Build found
    pc,        \* the step of the workflow
    todo,      \* components that are still to be installed
    outputs,   \* of the step, still to be written
    pushed,    \* the first of them is in git, Flux is being told
    result,    \* of the last command
    failures

worldVars   == <<flux, repo, cluster, adminSecret, oidcSecret>>
commandVars == <<command, config, pc, todo, outputs, pushed, result>>
vars == <<worldVars, commandVars, refuses, goal, failures>>

Config == [flux : BOOLEAN, admin : BOOLEAN,
           version : Version \cup {NoVersion}, existing : SUBSET Component]

File   == [type : {"repository", "agent", "terraform"}]
              \cup [type : {"release"}, content : Release]
Secret == [type : {"adminSecret", "oidcSecret"}]

StepName == {"askFlux", "fluxCreds", "adminCreds", "installWge", "oidc",
             "componentsExtra", "uiDomain"}

TypeOK ==
    /\ flux \in BOOLEAN /\ repo \in Files /\ cluster \in Files
    /\ adminSecret \in BOOLEAN /\ oidcSecret \in BOOLEAN
    /\ refuses \in BOOLEAN /\ goal \in Command
    /\ command \in AllCommands \cup {None} /\ config \in Config \cup {None}
    /\ pc \in StepName \cup {"idle"}
    /\ todo \in Seq(Component) /\ outputs \in Seq(File \cup Secret)
    /\ pushed \in BOOLEAN
    /\ result \in {"none", "succeeded", "failed"}
    /\ failures \in 0 .. MaxFailures

Init ==
    /\ flux \in BOOLEAN
    /\ repo = NoFiles /\ cluster = NoFiles
    /\ adminSecret = FALSE /\ oidcSecret = FALSE
    /\ refuses \in BOOLEAN /\ goal \in Command
    /\ command = None /\ config = None /\ pc = "idle"
    /\ todo = <<>> /\ outputs = <<>> /\ pushed = FALSE
    /\ result = "none" /\ failures = 0

-----------------------------------------------------------------------------
(* The workflow.                                                           *)

End(r) ==
    /\ pc' = "idle" /\ result' = r
    /\ todo' = <<>> /\ outputs' = <<>> /\ pushed' = FALSE
    /\ UNCHANGED <<command, config>>

Error == End("failed")

\* A call that fails ends the command.
CallFails ==
    /\ failures < MaxFailures /\ failures' = failures + 1
    /\ Error

After ==
    CASE pc = "askFlux"         -> "fluxCreds"
      [] pc = "fluxCreds"       -> IF command.auth THEN "oidc" ELSE "adminCreds"
      [] pc = "adminCreds"      -> "installWge"
      [] pc = "installWge"      -> "oidc"
      [] pc = "oidc"            -> IF command.auth THEN "end" ELSE "componentsExtra"
      [] pc = "componentsExtra" -> "uiDomain"
      [] pc = "uiDomain"        -> "end"

\* (mutant) The last step has a next one.
RunOn ==
    /\ pc' = After /\ outputs' = <<>> /\ pushed' = FALSE
    /\ UNCHANGED <<command, config, todo, result>>

NextStep ==
    IF After = "end"
    THEN End("succeeded")
    ELSE /\ pc' = After /\ outputs' = <<>> /\ pushed' = FALSE
         /\ UNCHANGED <<command, config, todo, result>>

At(step) == pc = step /\ outputs = <<>>

\* (mutant) What is put out is written in export mode too.
PutAnyway(out) ==
    IF out = <<>>
    THEN NextStep
    ELSE /\ outputs' = out
         /\ UNCHANGED <<command, config, pc, todo, pushed, result>>

\* The outputs of a step, which are written unless the mode is export.
Put(out) ==
    IF out = <<>> \/ command.export
    THEN NextStep
    ELSE /\ outputs' = out
         /\ UNCHANGED <<command, config, pc, todo, pushed, result>>

Found ==
    [flux     |-> flux,
     admin    |-> adminSecret,
     version  |-> IF flux /\ cluster.release # None
                  THEN cluster.release.version ELSE NoVersion,
     existing |-> {c \in {"policy-agent", "tf-controller"} :
                      /\ flux
                      /\ c = "policy-agent"  => cluster.agent
                      /\ c = "tf-controller" => cluster.terraform}]

\* The components that are asked for, by flag or by answer.
Requested(c) ==
    IF c.auth \/ c.silent \/ c.components # <<>>
    THEN {c.components}
    ELSE {<<answer>> : answer \in Component}

\* Build, and the steps that Bootstrap prepares: a silent command with a
\* password for credentials that exist is refused.
Begin(c) ==
    /\ pc = "idle"
    /\ command' = c /\ config' = Found
    /\ todo' \in Requested(c) /\ outputs' = <<>> /\ pushed' = FALSE
    /\ IF ~c.auth /\ c.silent /\ c.password /\ adminSecret
       THEN pc' = "idle" /\ result' = "failed"
       ELSE pc' = (IF c.auth THEN "fluxCreds" ELSE "askFlux") /\ result' = "none"
    /\ UNCHANGED <<worldVars, refuses, goal, failures>>

\* Without Flux: a silent command needs the flag, an interactive one a yes,
\* and that not in export mode.
AskBootstrapFlux ==
    /\ At("askFlux")
    /\ \/ config.flux /\ NextStep
       \/ ~config.flux /\ command.silent /\ command.bootstrapFlux /\ NextStep
       \/ ~config.flux /\ ~command.silent /\ ~command.export /\ NextStep
       \/ ~config.flux /\ ~(command.silent /\ command.bootstrapFlux) /\ Error
    /\ UNCHANGED <<worldVars, refuses, goal, failures>>

\* flux bootstrap git, for which `auth' may have no repository: nothing is
\* done then.
BootstrapFlux ==
    /\ At("fluxCreds") /\ ~config.flux
    /\ flux' = TRUE \/ (command.auth /\ flux' = flux)
    /\ NextStep
    /\ UNCHANGED <<repo, cluster, adminSecret, oidcSecret, refuses, goal, failures>>

BootstrapFluxFails ==
    /\ At("fluxCreds") /\ ~config.flux
    /\ flux' \in BOOLEAN /\ CallFails
    /\ UNCHANGED <<repo, cluster, adminSecret, oidcSecret, refuses, goal>>

HasFlux ==
    /\ At("fluxCreds") /\ config.flux
    /\ NextStep
    /\ UNCHANGED <<worldVars, refuses, goal, failures>>

\* (mutant) Nothing is done, and nothing said, without a password.
CreateWithPassword ==
    /\ At("adminCreds")
    /\ \/ /\ command.password \/ (~command.silent /\ ~config.admin)
          /\ Put(<<[type |-> "adminSecret"]>>)
       \/ ~command.password /\ NextStep
    /\ UNCHANGED <<worldVars, refuses, goal, failures>>

\* (mutant) The credentials that exist do not do.
CreateOrRefuse ==
    /\ At("adminCreds")
    /\ \/ /\ command.password \/ (~command.silent /\ ~config.admin)
          /\ Put(<<[type |-> "adminSecret"]>>)
       \/ ~command.password /\ Error
    /\ UNCHANGED <<worldVars, refuses, goal, failures>>

\* An interactive command asks for the password that it has not, unless
\* there are credentials; the answer may be empty.
CreateCredentials ==
    /\ At("adminCreds")
    /\ \/ /\ command.password \/ (~command.silent /\ ~config.admin)
          /\ Put(<<[type |-> "adminSecret"]>>)
       \/ /\ ~command.password
          /\ IF config.admin THEN NextStep ELSE Error
    /\ UNCHANGED <<worldVars, refuses, goal, failures>>

ReleaseFile(r) == [type |-> "release", content |-> r]

\* The release that is installed has the version of the flag: the one that
\* an interactive command asks for is not used.
InstallWge ==
    /\ At("installWge")
    /\ IF config.version # NoVersion
       THEN NextStep
       ELSE Put(<<[type |-> "repository"],
                  ReleaseFile([version     |-> command.version,
                               oidc        |-> FALSE,
                               terraformUI |-> FALSE])>>)
    /\ UNCHANGED <<worldVars, refuses, goal, failures>>

\* (mutant) The file before the secret.
OidcFileFirst ==
    <<ReleaseFile([cluster.release EXCEPT !.version = command.version,
                                          !.oidc    = TRUE]),
      [type |-> "oidcSecret"]>>

\* The values are those of the release in the cluster, the version is that of
\* the command.
OidcOutputs ==
    <<[type |-> "oidcSecret"],
      ReleaseFile([cluster.release EXCEPT !.version = command.version,
                                          !.oidc    = TRUE])>>

\* (mutant) A release without a version is none here either.
ConfigureKnownVersion ==
    /\ At("oidc")
    /\ \/ /\ ~command.auth /\ ~command.oidc /\ NextStep
       \/ /\ command.auth \/ command.oidc \/ ~command.silent
          /\ IF oidcSecret THEN NextStep
             ELSE IF cluster.release = None \/ config.version = NoVersion THEN Error
             ELSE Put(OidcOutputs)
    /\ UNCHANGED <<worldVars, refuses, goal, failures>>

\* NewInstallOIDCStep and NewOIDCConfigStep: without all the flags a silent
\* command does no OIDC, and an interactive one asks.
CreateOIDCConfig ==
    /\ At("oidc")
    /\ \/ /\ ~command.auth /\ ~command.oidc /\ NextStep
       \/ /\ command.auth \/ command.oidc \/ ~command.silent
          /\ IF oidcSecret THEN NextStep
             ELSE IF cluster.release = None THEN Error
             ELSE Put(OidcOutputs)
    /\ UNCHANGED <<worldVars, refuses, goal, failures>>

TerraformOutputs ==
    <<[type |-> "terraform"],
      ReleaseFile([cluster.release EXCEPT !.version     = command.version,
                                          !.terraformUI = TRUE])>>

\* A step of its own for each component, whose outputs are not exported.
InstallComponent ==
    /\ At("componentsExtra") /\ todo # <<>> /\ Head(todo) # "none"
    /\ IF Head(todo) \notin config.existing
             /\ Head(todo) = "tf-controller" /\ cluster.release = None
       THEN Error
       ELSE /\ todo' = Tail(todo)
            /\ outputs' =
                 IF Head(todo) \in config.existing \/ command.export THEN <<>>
                 ELSE IF Head(todo) = "policy-agent" THEN <<[type |-> "agent"]>>
                 ELSE TerraformOutputs
            /\ UNCHANGED <<command, config, pc, pushed, result>>
    /\ UNCHANGED <<worldVars, refuses, goal, failures>>

ComponentsInstalled ==
    /\ At("componentsExtra")
    /\ todo # <<>> => Head(todo) = "none"
    /\ NextStep
    /\ UNCHANGED <<worldVars, refuses, goal, failures>>

\* The release is reconciled, which fails if there is none.
CheckUIDomain ==
    /\ At("uiDomain")
    /\ IF command.export \/ cluster.release # None THEN NextStep ELSE Error
    /\ UNCHANGED <<worldVars, refuses, goal, failures>>

StepFails ==
    /\ pc # "idle" /\ CallFails
    /\ UNCHANGED <<worldVars, refuses, goal>>

-----------------------------------------------------------------------------
(* defaultOutputStep: one output after the other.                          *)

Output == Head(outputs)

Written ==
    IF Tail(outputs) = <<>> /\ pc # "componentsExtra"
    THEN NextStep
    ELSE /\ outputs' = Tail(outputs) /\ pushed' = FALSE
         /\ UNCHANGED <<command, config, pc, todo, result>>

CreateAdminSecret ==
    /\ outputs # <<>> /\ Output.type = "adminSecret"
    /\ IF adminSecret THEN Error /\ UNCHANGED adminSecret
                      ELSE adminSecret' = TRUE /\ Written
    /\ UNCHANGED <<flux, repo, cluster, oidcSecret, refuses, goal, failures>>

CreateOidcSecret ==
    /\ outputs # <<>> /\ Output.type = "oidcSecret"
    /\ IF oidcSecret THEN Error /\ UNCHANGED oidcSecret
                     ELSE oidcSecret' = TRUE /\ Written
    /\ UNCHANGED <<flux, repo, cluster, adminSecret, refuses, goal, failures>>

WithFile ==
    CASE Output.type = "repository" -> [repo EXCEPT !.repository = TRUE]
      [] Output.type = "release"    -> [repo EXCEPT !.release = Output.content]
      [] Output.type = "agent"      -> [repo EXCEPT !.agent = TRUE]
      [] Output.type = "terraform"  -> [repo EXCEPT !.terraform = TRUE]

IsFile == outputs # <<>> /\ Output.type \notin {"adminSecret", "oidcSecret"}

\* A clone, a commit and a push.
CommitFile ==
    /\ IsFile /\ ~pushed
    /\ repo' = WithFile
    /\ IF ~flux \/ (refuses /\ repo' = repo)
       THEN Error
       ELSE /\ pushed' = TRUE
            /\ UNCHANGED <<command, config, pc, todo, outputs, result>>
    /\ UNCHANGED <<flux, cluster, adminSecret, oidcSecret, refuses, goal, failures>>

\* The answer to the push is lost.
PushAnswerLost ==
    /\ IsFile /\ ~pushed /\ flux
    /\ repo' = WithFile /\ CallFails
    /\ UNCHANGED <<flux, cluster, adminSecret, oidcSecret, refuses, goal>>

\* (mutant) Flux is told, and not waited for.
TellFlux ==
    /\ IsFile /\ pushed
    /\ Written
    /\ UNCHANGED <<worldVars, refuses, goal, failures>>

\* `flux reconcile' returns when the files are applied.
ReconcileFlux ==
    /\ IsFile /\ pushed
    /\ cluster' = repo /\ Written
    /\ UNCHANGED <<flux, repo, adminSecret, oidcSecret, refuses, goal, failures>>

CommandStep ==
    \/ AskBootstrapFlux \/ BootstrapFlux \/ BootstrapFluxFails \/ HasFlux
    \/ CreateCredentials \/ InstallWge \/ CreateOIDCConfig
    \/ InstallComponent \/ ComponentsInstalled \/ CheckUIDomain
    \/ CreateAdminSecret \/ CreateOidcSecret
    \/ CommitFile \/ PushAnswerLost \/ ReconcileFlux \/ StepFails

-----------------------------------------------------------------------------
(* External: Flux, and an administrator who repeats the command, without   *)
(* the password once there are credentials, and who removes the secret of  *)
(* an OIDC that is not configured, as the command says.                    *)

FluxApplies ==
    /\ flux /\ cluster # repo
    /\ cluster' = repo
    /\ UNCHANGED <<flux, repo, adminSecret, oidcSecret, commandVars, refuses,
                   goal, failures>>

ChangeGoal ==
    /\ pc = "idle" /\ goal' \in Command
    /\ UNCHANGED <<worldVars, commandVars, refuses, failures>>

Repeat == Begin([goal EXCEPT !.password = @ /\ ~adminSecret])

Oidc(files) == files.release # None /\ files.release.oidc

RemoveOidcSecret ==
    /\ pc = "idle" /\ goal.auth
    /\ oidcSecret /\ ~Oidc(repo) /\ ~Oidc(cluster)
    /\ oidcSecret' = FALSE /\ result' = "none"
    /\ UNCHANGED <<flux, repo, cluster, adminSecret, command, config, pc, todo,
                   outputs, pushed, refuses, goal, failures>>

Next ==
    \/ CommandStep \/ Begin(goal) \/ Repeat
    \/ FluxApplies \/ ChangeGoal \/ RemoveOidcSecret

Spec == Init /\ [][Next]_vars

Fairness ==
    /\ WF_vars(CommandStep) /\ WF_vars(Repeat)
    /\ WF_vars(FluxApplies) /\ SF_vars(RemoveOidcSecret)

FairSpec == Spec /\ Fairness

-----------------------------------------------------------------------------
(* What is promised.                                                       *)

\* A command that reports success has done what it was asked for (Bootstrap):
\* Flux, credentials, a release, the components with the page of Terraform,
\* and the secret of OIDC.  What is found (a release, a secret, a component)
\* is taken for finished.
SuccessIsTrue ==
    result = "succeeded" /\ ~command.export =>
        /\ command.auth \/ (flux /\ adminSecret /\ repo.release # None)
        /\ command.oidc \/ command.auth => oidcSecret
        /\ \A i \in DOMAIN command.components :
              (\A j \in 1 .. i : command.components[j] # "none") =>
                  /\ command.components[i] = "policy-agent" => repo.agent
                  /\ command.components[i] = "tf-controller" =>
                        /\ repo.terraform
                        /\ repo.release.terraformUI \/ "tf-controller" \in config.existing

\* OIDC is never configured in the release without the secret that it names
\* (createOIDCConfig, defaultOutputStep).
OidcHasSecret == Oidc(repo) \/ Oidc(cluster) => oidcSecret

\* modes.go:7, "do not mutate any system": a command that exports changes
\* nothing, unless it finds no Flux.
ExportWritesNothing ==
    [][command # None /\ command.export /\ config.flux /\ CommandStep
        => UNCHANGED <<flux, repo, adminSecret, oidcSecret>>]_vars

\* No command takes OIDC out of the release (createOIDCConfig,
\* installTerraform read the values that are there), if every call worked,
\* but one that does not find a version.
OidcKept ==
    [][Oidc(repo) /\ ~Oidc(repo') =>
        failures > 0 \/ config.version = NoVersion]_vars

\* The commit of the HelmRepository worked, that of the release did not, and
\* nothing is committed that changes nothing.
Stuck == refuses /\ repo.repository /\ repo.release = None

\* An administrator who repeats a command that has all its answers gets Weave
\* GitOps and its credentials in the end, wherever earlier commands stopped.
EventuallyInstalled ==
    \A c \in Command :
        ~c.auth /\ c.silent /\ ~c.export /\ c.bootstrapFlux /\ c.password =>
            ([]~Stuck /\ <>[](goal = c)
                => <>[](cluster.release # None /\ adminSecret))

\* An administrator who repeats `auth', and removes the secret when told so,
\* has OIDC configured in the end.
EventuallyOidc ==
    \A c \in Command :
        c.auth /\ ~c.export =>
            (<>[](goal = c /\ repo.release # None)
                => <>[](oidcSecret /\ Oidc(cluster)))
=============================================================================
