--------------------------- MODULE BootstrapProofs ---------------------------
(***************************************************************************)
(* Proofs about Bootstrap, for any commands and any number of failures.    *)
(***************************************************************************)
EXTENDS Bootstrap, TLAPS

\* What is still to be written does not name a secret that will not be there.
SecretFirst(out) ==
    \A i \in 1 .. Len(out) :
        out[i].type = "release" /\ out[i].content.oidc =>
            oidcSecret \/ \E j \in 1 .. i - 1 : out[j].type = "oidcSecret"

OutputsInv == SecretFirst(outputs)

IdleInv == /\ pc = "idle" => outputs = <<>>
           /\ pc # "idle" => command \in AllCommands

\* The part of the invariant that is about what the commands write to.
WorldInv == /\ flux \in BOOLEAN /\ repo \in Files /\ cluster \in Files
            /\ adminSecret \in BOOLEAN /\ oidcSecret \in BOOLEAN
            /\ OidcHasSecret

IInv == TypeOK /\ IdleInv /\ OidcHasSecret /\ OutputsInv

LEMMA InitInv == Init => IInv
<1> SUFFICES ASSUME Init PROVE IInv
  OBVIOUS
<1>1. NoFiles \in Files
  BY DEF NoFiles, Files
<1>3. TypeOK
  <2>1. flux \in BOOLEAN /\ repo \in Files /\ cluster \in Files
        /\ adminSecret \in BOOLEAN /\ oidcSecret \in BOOLEAN
    BY <1>1 DEF Init
  <2>2. refuses \in BOOLEAN /\ goal \in Command
        /\ command \in AllCommands \cup {None} /\ config \in Config \cup {None}
        /\ pc \in StepName \cup {"idle"} /\ pushed \in BOOLEAN
    BY DEF Init
  <2>3. todo \in Seq(Component) /\ outputs \in Seq(File \cup Secret)
        /\ result \in {"none", "succeeded", "failed"}
    BY DEF Init
  <2>4. failures \in 0 .. MaxFailures
    BY BootstrapAssumption DEF Init
  <2> QED BY <2>1, <2>2, <2>3, <2>4 DEF TypeOK
<1>2. IdleInv /\ OidcHasSecret /\ OutputsInv
  BY DEF Init, IdleInv, OidcHasSecret, OutputsInv, SecretFirst, Oidc, NoFiles
<1> QED BY <1>3, <1>2 DEF IInv

LEMMA SameWorld ==
    ASSUME IInv, UNCHANGED worldVars
    PROVE  WorldInv'
BY DEF IInv, TypeOK, WorldInv, OidcHasSecret, Oidc, worldVars

LEMMA AfterType == ASSUME pc \in StepName PROVE After \in StepName \cup {"end"}
BY DEF StepName, After

\* The end of a command and the next step of its workflow write nothing.
LEMMA NextStepInv ==
    ASSUME IInv, pc # "idle", NextStep \/ Error, WorldInv', UNCHANGED <<refuses, goal>>,
           failures' \in 0 .. MaxFailures
    PROVE  IInv'
<1>1. pc \in StepName /\ command \in AllCommands \cup {None}
      /\ config \in Config \cup {None} /\ todo \in Seq(Component)
      /\ result \in {"none", "succeeded", "failed"}
  BY DEF IInv, TypeOK
<1>2. /\ pc' \in StepName \cup {"idle"} /\ outputs' = <<>> /\ pushed' = FALSE
      /\ command' = command /\ config' = config /\ todo' \in Seq(Component)
      /\ result' \in {"none", "succeeded", "failed"}
  <2>1. CASE NextStep
    <3>1. CASE After = "end"
      <4>1. pc' = "idle" /\ result' = "succeeded" /\ todo' = <<>> /\ outputs' = <<>>
            /\ pushed' = FALSE /\ command' = command /\ config' = config
        BY <2>1, <3>1 DEF NextStep, End
      <4>2. todo' \in Seq(Component)
        BY <4>1
      <4> QED BY <4>1, <4>2
    <3>2. CASE After # "end"
      <4>1. pc' = After /\ result' = result /\ todo' = todo /\ outputs' = <<>>
            /\ pushed' = FALSE /\ command' = command /\ config' = config
        BY <2>1, <3>2 DEF NextStep
      <4> QED BY <1>1, <3>2, <4>1, AfterType
    <3> QED BY <3>1, <3>2
  <2>2. CASE Error
    <3>1. pc' = "idle" /\ result' = "failed" /\ todo' = <<>> /\ outputs' = <<>>
          /\ pushed' = FALSE /\ command' = command /\ config' = config
      BY <2>2 DEF Error, End
    <3>2. todo' \in Seq(Component)
      BY <3>1
    <3> QED BY <3>1, <3>2
  <2> QED BY <2>1, <2>2
<1>3. TypeOK'
  <2>1. flux' \in BOOLEAN /\ repo' \in Files /\ cluster' \in Files
        /\ adminSecret' \in BOOLEAN /\ oidcSecret' \in BOOLEAN
        /\ refuses' \in BOOLEAN /\ goal' \in Command
    BY DEF IInv, TypeOK, WorldInv
  <2>2. outputs' \in Seq(File \cup Secret)
    BY <1>2
  <2>3. pushed' \in BOOLEAN
    BY <1>2
  <2> QED BY <1>1, <1>2, <2>1, <2>2, <2>3 DEF TypeOK
<1>4. IdleInv' /\ OidcHasSecret' /\ OutputsInv'
  BY <1>2 DEF IInv, IdleInv, WorldInv, OutputsInv, SecretFirst
<1> QED BY <1>3, <1>4 DEF IInv

\* A step whose outputs are written puts the secret first.
LEMMA PutInv ==
    ASSUME IInv, pc # "idle", NEW out \in Seq(File \cup Secret), SecretFirst(out),
           Put(out), UNCHANGED <<worldVars, refuses, goal, failures>>
    PROVE  IInv'
<1>1. failures' \in 0 .. MaxFailures
  BY DEF IInv, TypeOK
<1>2. CASE NextStep
  BY <1>1, <1>2, SameWorld, NextStepInv
<1>3. CASE ~NextStep
  <2>1. outputs' = out
        /\ UNCHANGED <<command, config, pc, todo, pushed, result>>
    BY <1>3 DEF Put
  <2>2. TypeOK'
    BY <2>1 DEF IInv, TypeOK, worldVars
  <2>3. IdleInv' /\ OidcHasSecret' /\ OutputsInv'
    BY <2>1 DEF IInv, IdleInv, OidcHasSecret, OutputsInv, SecretFirst, Oidc, worldVars
  <2> QED BY <2>2, <2>3 DEF IInv
<1> QED BY <1>2, <1>3

LEMMA RequestedType ==
    ASSUME NEW c \in AllCommands, NEW t \in Requested(c)
    PROVE  t \in Seq(Component)
<1>1. c.components \in Seq(Component)
  BY DEF AllCommands
<1>2. \A answer \in Component : <<answer>> \in Seq(Component)
  OBVIOUS
<1> QED BY <1>1, <1>2 DEF Requested

LEMMA BeginInv ==
    ASSUME IInv, NEW c \in AllCommands, Begin(c)
    PROVE  IInv'
<1>1. /\ pc' \in StepName \cup {"idle"} /\ outputs' = <<>> /\ pushed' = FALSE
      /\ command' = c /\ result' \in {"none", "succeeded", "failed"}
      /\ UNCHANGED <<worldVars, refuses, goal, failures>>
  BY DEF Begin, StepName
<1>2. todo' \in Seq(Component)
  BY RequestedType DEF Begin
<1>3. config' \in Config
  <2>1. /\ flux \in BOOLEAN /\ adminSecret \in BOOLEAN
        /\ cluster.release \in Release \cup {None}
    BY DEF IInv, TypeOK, Files
  <2>2. Found.version \in Version \cup {NoVersion}
    BY <2>1 DEF Found, Release
  <2>3. Found.existing \in SUBSET Component
    BY DEF Found, Component
  <2>4. Found = [flux |-> flux, admin |-> adminSecret, version |-> Found.version,
                 existing |-> Found.existing]
    BY DEF Found
  <2>5. Found \in Config
    BY <2>1, <2>2, <2>3, <2>4 DEF Config
  <2> QED BY <2>5 DEF Begin
<1>4. TypeOK'
  <2>1. outputs' \in Seq(File \cup Secret)
    BY <1>1
  <2>2. pushed' \in BOOLEAN
    BY <1>1
  <2> QED BY <1>1, <1>2, <1>3, <2>1, <2>2 DEF IInv, TypeOK, worldVars
<1>5. IdleInv' /\ OidcHasSecret' /\ OutputsInv'
  BY <1>1 DEF IInv, IdleInv, OidcHasSecret, OutputsInv, SecretFirst, Oidc, worldVars
<1> QED BY <1>4, <1>5 DEF IInv

\* The outputs of the steps.
LEMMA AdminOutputs ==
    /\ <<[type |-> "adminSecret"]>> \in Seq(File \cup Secret)
    /\ SecretFirst(<<[type |-> "adminSecret"]>>)
<1>1. [type |-> "adminSecret"] \in File \cup Secret
  BY DEF Secret
<1> QED BY <1>1 DEF SecretFirst

LEMMA ReleaseFileType ==
    ASSUME NEW r \in Release
    PROVE  /\ ReleaseFile(r) \in File
           /\ ReleaseFile(r).type = "release" /\ ReleaseFile(r).content = r
BY DEF ReleaseFile, File

\* A release made from the one in the cluster has OIDC if that has.
LEMMA FromCluster ==
    ASSUME IInv, pc # "idle", cluster.release # None
    PROVE  /\ [cluster.release EXCEPT !.version = command.version, !.oidc = TRUE]
                \in Release
           /\ [cluster.release EXCEPT !.version = command.version,
                                      !.terraformUI = TRUE] \in Release
           /\ [cluster.release EXCEPT !.version = command.version,
                                      !.terraformUI = TRUE].oidc => oidcSecret
<1>1. cluster.release \in Release /\ command.version \in Version \cup {NoVersion}
  BY DEF IInv, TypeOK, Files, IdleInv, AllCommands
<1>2. cluster.release.oidc => oidcSecret
  BY DEF IInv, OidcHasSecret, Oidc
<1> QED BY <1>1, <1>2 DEF Release

LEMMA OidcOutputsType ==
    ASSUME IInv, pc # "idle", cluster.release # None
    PROVE  OidcOutputs \in Seq(File \cup Secret) /\ SecretFirst(OidcOutputs)
<1> DEFINE file == ReleaseFile([cluster.release EXCEPT !.version = command.version,
                                                       !.oidc    = TRUE])
           secretOut == [type |-> "oidcSecret"]
<1>1. file \in File
  BY FromCluster, ReleaseFileType
<1>2. secretOut \in Secret /\ secretOut.type = "oidcSecret"
  BY DEF Secret
<1> HIDE DEF file, secretOut
<1>3. <<secretOut, file>> \in Seq(File \cup Secret)
  BY <1>1, <1>2
<1>4. SecretFirst(<<secretOut, file>>)
  <2>1. SUFFICES ASSUME NEW i \in 1 .. Len(<<secretOut, file>>),
                        <<secretOut, file>>[i].type = "release"
                 PROVE  \E j \in 1 .. i - 1 : <<secretOut, file>>[j].type = "oidcSecret"
    BY DEF SecretFirst
  <2>2. i = 2
    BY <1>2, <2>1
  <2>3. 1 \in 1 .. i - 1 /\ <<secretOut, file>>[1].type = "oidcSecret"
    BY <1>2, <2>2
  <2> QED BY <2>3
<1>5. OidcOutputs = <<secretOut, file>>
  BY DEF OidcOutputs, file, secretOut
<1> QED BY <1>3, <1>4, <1>5

LEMMA TerraformOutputsType ==
    ASSUME IInv, pc # "idle", cluster.release # None
    PROVE  TerraformOutputs \in Seq(File \cup Secret) /\ SecretFirst(TerraformOutputs)
<1> DEFINE r == [cluster.release EXCEPT !.version = command.version,
                                        !.terraformUI = TRUE]
           manifest == [type |-> "terraform"]
<1>1. r \in Release /\ (r.oidc => oidcSecret)
  BY FromCluster
<1>2. manifest \in File /\ manifest.type = "terraform"
  BY DEF File
<1>3. TerraformOutputs = <<manifest, ReleaseFile(r)>>
  BY DEF TerraformOutputs
<1> HIDE DEF r, manifest
<1>4. /\ ReleaseFile(r) \in File /\ ReleaseFile(r).type = "release"
      /\ ReleaseFile(r).content = r
  BY <1>1, ReleaseFileType
<1>5. <<manifest, ReleaseFile(r)>> \in Seq(File \cup Secret)
  BY <1>2, <1>4
<1>6. SecretFirst(<<manifest, ReleaseFile(r)>>)
  <2>1. SUFFICES ASSUME NEW i \in 1 .. Len(<<manifest, ReleaseFile(r)>>),
                        <<manifest, ReleaseFile(r)>>[i].type = "release",
                        <<manifest, ReleaseFile(r)>>[i].content.oidc
                 PROVE  oidcSecret
    BY DEF SecretFirst
  <2>2. i = 2
    BY <1>2, <2>1
  <2> QED BY <1>1, <1>4, <2>1, <2>2
<1> QED BY <1>3, <1>5, <1>6

LEMMA WgeOutputs ==
    ASSUME IInv, pc # "idle"
    PROVE  LET out == <<[type |-> "repository"],
                        ReleaseFile([version     |-> command.version,
                                     oidc        |-> FALSE,
                                     terraformUI |-> FALSE])>>
           IN out \in Seq(File \cup Secret) /\ SecretFirst(out)
<1> DEFINE r == [version |-> command.version, oidc |-> FALSE, terraformUI |-> FALSE]
           manifest == [type |-> "repository"]
<1>1. r \in Release /\ ~r.oidc
  BY DEF IInv, IdleInv, AllCommands, Release
<1>2. manifest \in File /\ manifest.type = "repository"
  BY DEF File
<1> HIDE DEF r, manifest
<1>4. /\ ReleaseFile(r) \in File /\ ReleaseFile(r).type = "release"
      /\ ReleaseFile(r).content = r
  BY <1>1, ReleaseFileType
<1>5. <<manifest, ReleaseFile(r)>> \in Seq(File \cup Secret)
  BY <1>2, <1>4
<1>6. SecretFirst(<<manifest, ReleaseFile(r)>>)
  <2>1. SUFFICES ASSUME NEW i \in 1 .. Len(<<manifest, ReleaseFile(r)>>),
                        <<manifest, ReleaseFile(r)>>[i].type = "release",
                        <<manifest, ReleaseFile(r)>>[i].content.oidc
                 PROVE  FALSE
    BY DEF SecretFirst
  <2>2. i = 2
    BY <1>2, <2>1
  <2> QED BY <1>1, <1>4, <2>1, <2>2
<1> QED BY <1>5, <1>6 DEF r, manifest

\* An output has been written, and the secret is there if that was it.
LEMMA WrittenInv ==
    ASSUME IInv, outputs # <<>>, Written, WorldInv',
           UNCHANGED <<refuses, goal, failures>>,
           oidcSecret => oidcSecret', Output.type = "oidcSecret" => oidcSecret'
    PROVE  IInv'
<1>1. pc # "idle" /\ failures' \in 0 .. MaxFailures /\ outputs \in Seq(File \cup Secret)
  BY DEF IInv, TypeOK, IdleInv
<1>2. CASE NextStep
  BY <1>1, <1>2, NextStepInv
<1>3. CASE ~NextStep
  <2>1. outputs' = Tail(outputs) /\ pushed' = FALSE
        /\ UNCHANGED <<command, config, pc, todo, result>>
    BY <1>3 DEF Written
  <2>2. TypeOK'
    <3>1. outputs' \in Seq(File \cup Secret)
      BY <1>1, <2>1
    <3>2. pushed' \in BOOLEAN
      BY <2>1
    <3> QED BY <2>1, <3>1, <3>2 DEF IInv, TypeOK, WorldInv
  <2>3. OutputsInv'
    <3>1. SUFFICES ASSUME NEW i \in 1 .. Len(outputs'), outputs'[i].type = "release",
                          outputs'[i].content.oidc, ~oidcSecret'
                   PROVE  \E j \in 1 .. i - 1 : outputs'[j].type = "oidcSecret"
      BY DEF OutputsInv, SecretFirst
    <3>2. \A n \in 1 .. Len(outputs') : outputs'[n] = outputs[n + 1]
          /\ Len(outputs) = Len(outputs') + 1
      BY <1>1, <2>1
    <3>3. i + 1 \in 1 .. Len(outputs) /\ outputs[i + 1].type = "release"
          /\ outputs[i + 1].content.oidc
      BY <3>1, <3>2
    <3>4. PICK j \in 1 .. (i + 1) - 1 : outputs[j].type = "oidcSecret"
      BY <3>1, <3>3 DEF IInv, OutputsInv, SecretFirst
    <3>5. j # 1
      BY <3>1, <3>4 DEF Output
    <3>6. j - 1 \in 1 .. i - 1 /\ j - 1 \in 1 .. Len(outputs')
      BY <3>1, <3>4, <3>5
    <3>7. outputs'[j - 1] = outputs[(j - 1) + 1] /\ (j - 1) + 1 = j
      BY <3>2, <3>6
    <3> QED BY <3>4, <3>6, <3>7
  <2>4. IdleInv' /\ OidcHasSecret'
    BY <1>1, <2>1 DEF IInv, IdleInv, WorldInv
  <2> QED BY <2>2, <2>3, <2>4 DEF IInv
<1> QED BY <1>2, <1>3

\* The steps that write nothing themselves.
LEMMA StepsInv ==
    ASSUME IInv, \/ AskBootstrapFlux \/ BootstrapFlux \/ BootstrapFluxFails \/ HasFlux
                 \/ CreateCredentials \/ InstallWge \/ CreateOIDCConfig
                 \/ ComponentsInstalled \/ CheckUIDomain \/ StepFails
    PROVE  IInv'
<1> DEFINE Same == UNCHANGED <<worldVars, refuses, goal, failures>>
<1>0. failures \in 0 .. MaxFailures
  BY DEF IInv, TypeOK
<1>1. ASSUME pc # "idle", NextStep \/ Error, Same PROVE IInv'
  BY <1>0, <1>1, SameWorld, NextStepInv
<1>2. ASSUME pc # "idle", CallFails, WorldInv', UNCHANGED <<refuses, goal>> PROVE IInv'
  <2>1. failures' \in 0 .. MaxFailures /\ Error
    BY <1>0, <1>2, BootstrapAssumption DEF CallFails
  <2> QED BY <1>2, <2>1, NextStepInv
<1>3. CASE AskBootstrapFlux
  BY <1>1, <1>3 DEF AskBootstrapFlux, At
<1>4. CASE BootstrapFlux
  <2>1. pc # "idle" /\ WorldInv'
    BY <1>4 DEF BootstrapFlux, At, IInv, TypeOK, WorldInv, OidcHasSecret, Oidc
  <2> QED BY <1>0, <1>4, <2>1, NextStepInv DEF BootstrapFlux
<1>5. CASE BootstrapFluxFails
  <2>1. pc # "idle" /\ WorldInv'
    BY <1>5 DEF BootstrapFluxFails, At, IInv, TypeOK, WorldInv, OidcHasSecret, Oidc
  <2> QED BY <1>2, <1>5, <2>1 DEF BootstrapFluxFails
<1>6. CASE HasFlux
  BY <1>1, <1>6 DEF HasFlux, At
<1>7. CASE CreateCredentials
  <2>1. pc # "idle" /\ Same
    BY <1>7 DEF CreateCredentials, At
  <2>2. CASE Put(<<[type |-> "adminSecret"]>>)
    BY <2>1, <2>2, AdminOutputs, PutInv
  <2>3. CASE NextStep \/ Error
    BY <1>1, <2>1, <2>3
  <2> QED BY <1>7, <2>2, <2>3 DEF CreateCredentials
<1>8. CASE InstallWge
  <2>1. pc # "idle" /\ Same
    BY <1>8 DEF InstallWge, At
  <2>2. CASE NextStep
    BY <1>1, <2>1, <2>2
  <2>3. CASE ~NextStep
    BY <1>8, <2>1, <2>3, WgeOutputs, PutInv DEF InstallWge
  <2> QED BY <2>2, <2>3
<1>9. CASE CreateOIDCConfig
  <2>1. pc # "idle" /\ Same
    BY <1>9 DEF CreateOIDCConfig, At
  <2>2. CASE NextStep \/ Error
    BY <1>1, <2>1, <2>2
  <2>3. CASE cluster.release # None /\ Put(OidcOutputs)
    BY <2>1, <2>3, OidcOutputsType, PutInv
  <2> QED BY <1>9, <2>2, <2>3 DEF CreateOIDCConfig
<1>10. CASE ComponentsInstalled
  BY <1>1, <1>10 DEF ComponentsInstalled, At
<1>11. CASE CheckUIDomain
  BY <1>1, <1>11 DEF CheckUIDomain, At
<1>12. CASE StepFails
  BY <1>2, <1>12, SameWorld DEF StepFails
<1> QED BY <1>3, <1>4, <1>5, <1>6, <1>7, <1>8, <1>9, <1>10, <1>11, <1>12

LEMMA InstallComponentInv ==
    ASSUME IInv, InstallComponent
    PROVE  IInv'
<1>1. pc # "idle" /\ todo # <<>> /\ UNCHANGED <<worldVars, refuses, goal, failures>>
      /\ failures' \in 0 .. MaxFailures /\ todo \in Seq(Component)
  BY DEF InstallComponent, At, IInv, TypeOK
<1>2. CASE Error
  BY <1>1, <1>2, SameWorld, NextStepInv
<1>3. CASE ~Error
  <2>1. todo' = Tail(todo) /\ UNCHANGED <<command, config, pc, pushed, result>>
        /\ \/ outputs' = <<>>
           \/ outputs' = <<[type |-> "agent"]>>
           \/ cluster.release # None /\ outputs' = TerraformOutputs
    <3>1. Head(todo) \in Component /\ Head(todo) # "none"
      BY <1>1 DEF InstallComponent
    <3> QED BY <1>3, <3>1 DEF InstallComponent, Component
  <2>2. outputs' \in Seq(File \cup Secret) /\ SecretFirst(outputs')
    <3>1. CASE outputs' = <<>>
      BY <3>1 DEF SecretFirst
    <3>2. CASE outputs' = <<[type |-> "agent"]>>
      <4>1. [type |-> "agent"] \in File
        BY DEF File
      <4> QED BY <3>2, <4>1 DEF SecretFirst
    <3>3. CASE cluster.release # None /\ outputs' = TerraformOutputs
      BY <1>1, <3>3, TerraformOutputsType
    <3> QED BY <2>1, <3>1, <3>2, <3>3
  <2>3. todo' \in Seq(Component)
    BY <1>1, <2>1
  <2>4. TypeOK'
    BY <1>1, <2>1, <2>2, <2>3 DEF IInv, TypeOK, worldVars
  <2>5. IdleInv' /\ OidcHasSecret' /\ OutputsInv'
    BY <1>1, <2>1, <2>2
       DEF IInv, IdleInv, OidcHasSecret, OutputsInv, SecretFirst, Oidc, worldVars
  <2> QED BY <2>4, <2>5 DEF IInv
<1> QED BY <1>2, <1>3

LEMMA WithFileInv ==
    ASSUME IInv, IsFile
    PROVE  WithFile \in Files /\ (Oidc(WithFile) => oidcSecret)
<1>1. Output \in File \cup Secret /\ Output = outputs[1] /\ 1 \in 1 .. Len(outputs)
  BY DEF IInv, TypeOK, IsFile, Output
<1>2. Output \in File
  BY <1>1 DEF IsFile, Secret
<1>3. repo \in Files /\ (Oidc(repo) => oidcSecret)
  BY DEF IInv, TypeOK, OidcHasSecret
<1>4. CASE Output.type = "release"
  <2>1. Output.content \in Release
    BY <1>2, <1>4 DEF File
  <2>2. WithFile = [repo EXCEPT !.release = Output.content]
    BY <1>4 DEF WithFile
  <2>3. WithFile \in Files /\ WithFile.release = Output.content
    BY <1>3, <2>1, <2>2 DEF Files
  <2>4. Output.content.oidc => oidcSecret
    BY <1>1, <1>4 DEF IInv, OutputsInv, SecretFirst
  <2> QED BY <2>3, <2>4 DEF Oidc
<1>5. CASE Output.type # "release"
  <2>1. Output.type \in {"repository", "agent", "terraform"}
    BY <1>2, <1>5 DEF File
  <2>2. WithFile \in Files /\ WithFile.release = repo.release
    BY <1>3, <2>1 DEF WithFile, Files
  <2> QED BY <1>3, <2>2 DEF Oidc
<1> QED BY <1>4, <1>5

\* The writing of an output, and what comes after it.
LEMMA OutputsStepInv ==
    ASSUME IInv, \/ CreateAdminSecret \/ CreateOidcSecret
                 \/ CommitFile \/ PushAnswerLost \/ ReconcileFlux
    PROVE  IInv'
<1>1. /\ failures \in 0 .. MaxFailures
      /\ flux \in BOOLEAN /\ repo \in Files /\ cluster \in Files
      /\ adminSecret \in BOOLEAN /\ oidcSecret \in BOOLEAN
      /\ Oidc(repo) \/ Oidc(cluster) => oidcSecret
  BY DEF IInv, TypeOK, OidcHasSecret
<1>2. outputs # <<>> /\ pc # "idle"
  BY DEF IInv, IdleInv, CreateAdminSecret, CreateOidcSecret, CommitFile,
         PushAnswerLost, ReconcileFlux, IsFile
<1>3. ASSUME NextStep \/ Error, WorldInv', UNCHANGED <<refuses, goal, failures>>
      PROVE  IInv'
  <2>1. failures' \in 0 .. MaxFailures /\ UNCHANGED <<refuses, goal>>
    BY <1>1, <1>3
  <2> QED BY <1>2, <1>3, <2>1, NextStepInv
<1>4. CASE CreateAdminSecret
  <2>1. WorldInv' /\ Output.type = "adminSecret" /\ oidcSecret' = oidcSecret
        /\ UNCHANGED <<refuses, goal, failures>>
    BY <1>1, <1>4 DEF CreateAdminSecret, WorldInv, OidcHasSecret, Oidc
  <2>2. CASE Error
    BY <1>3, <2>1, <2>2
  <2>3. CASE Written
    BY <1>2, <2>1, <2>3, WrittenInv
  <2> QED BY <1>4, <2>2, <2>3 DEF CreateAdminSecret
<1>5. CASE CreateOidcSecret
  <2>1. WorldInv' /\ oidcSecret' /\ UNCHANGED <<refuses, goal, failures>>
    BY <1>1, <1>5 DEF CreateOidcSecret, WorldInv, OidcHasSecret, Oidc
  <2>2. CASE Error
    BY <1>3, <2>1, <2>2
  <2>3. CASE Written
    BY <1>2, <2>1, <2>3, WrittenInv
  <2> QED BY <1>5, <2>2, <2>3 DEF CreateOidcSecret
<1>6. ASSUME IsFile, repo' = WithFile, UNCHANGED <<flux, cluster, adminSecret, oidcSecret>>
      PROVE  WorldInv'
  <2>1. repo' \in Files /\ (Oidc(repo') => oidcSecret)
    BY <1>6, WithFileInv
  <2> QED BY <1>1, <1>6, <2>1 DEF WorldInv, OidcHasSecret, Oidc
<1>7. CASE CommitFile
  <2>1. WorldInv' /\ oidcSecret' = oidcSecret /\ UNCHANGED <<refuses, goal, failures>>
    BY <1>6, <1>7 DEF CommitFile
  <2>2. CASE Error
    BY <1>3, <2>1, <2>2
  <2>3. CASE ~Error
    <3>1. pushed' = TRUE /\ UNCHANGED <<command, config, pc, todo, outputs, result>>
      BY <1>7, <2>3 DEF CommitFile
    <3>2. pushed' \in BOOLEAN
      BY <3>1
    <3>3. TypeOK'
      BY <2>1, <3>1, <3>2 DEF IInv, TypeOK, WorldInv
    <3>4. IdleInv' /\ OutputsInv' /\ OidcHasSecret'
      BY <2>1, <3>1 DEF IInv, IdleInv, OutputsInv, SecretFirst, WorldInv
    <3> QED BY <3>3, <3>4 DEF IInv
  <2> QED BY <2>2, <2>3
<1>8. CASE PushAnswerLost
  <2>1. WorldInv' /\ CallFails /\ UNCHANGED <<refuses, goal>>
    BY <1>6, <1>8 DEF PushAnswerLost
  <2>2. failures' \in 0 .. MaxFailures /\ Error
    BY <1>1, <2>1, BootstrapAssumption DEF CallFails
  <2> QED BY <1>2, <2>1, <2>2, NextStepInv
<1>9. CASE ReconcileFlux
  <2>1. Written /\ oidcSecret' = oidcSecret /\ Output.type # "oidcSecret"
        /\ UNCHANGED <<refuses, goal, failures>>
    BY <1>9 DEF ReconcileFlux, IsFile
  <2>2. WorldInv'
    BY <1>1, <1>9 DEF ReconcileFlux, WorldInv, OidcHasSecret, Oidc
  <2> QED BY <1>2, <2>1, <2>2, WrittenInv
<1> QED BY <1>4, <1>5, <1>7, <1>8, <1>9

\* A step of Flux or of the administrator between two commands.
LEMMA FrameInv ==
    ASSUME IInv, WorldInv', goal' \in Command, result' \in {"none", "succeeded", "failed"},
           UNCHANGED <<command, config, pc, todo, outputs, pushed, refuses, failures>>,
           oidcSecret => oidcSecret' \/ outputs = <<>>
    PROVE  IInv'
<1>1. TypeOK'
  BY DEF IInv, TypeOK, WorldInv
<1>2. IdleInv' /\ OidcHasSecret' /\ OutputsInv'
  BY DEF IInv, IdleInv, WorldInv, OutputsInv, SecretFirst
<1> QED BY <1>1, <1>2 DEF IInv

LEMMA NextInv == IInv /\ [Next]_vars => IInv'
<1> SUFFICES ASSUME IInv, [Next]_vars PROVE IInv'
  OBVIOUS
<1>1. goal \in Command /\ goal \in AllCommands /\ WorldInv
      /\ result \in {"none", "succeeded", "failed"}
  BY BootstrapAssumption DEF IInv, TypeOK, WorldInv
<1>2. CASE CommandStep
  BY <1>2, StepsInv, InstallComponentInv, OutputsStepInv DEF CommandStep
<1>3. CASE Begin(goal)
  BY <1>1, <1>3, BeginInv
<1>4. CASE Repeat
  <2>1. [goal EXCEPT !.password = @ /\ ~adminSecret] \in AllCommands
    <3>1. (goal.password /\ ~adminSecret) \in BOOLEAN
      OBVIOUS
    <3> QED BY <1>1, <3>1 DEF AllCommands
  <2> QED BY <1>4, <2>1, BeginInv DEF Repeat
<1>5. CASE FluxApplies
  <2>1. WorldInv'
    BY <1>1, <1>5 DEF FluxApplies, WorldInv, OidcHasSecret, Oidc
  <2> QED BY <1>1, <1>5, <2>1, FrameInv DEF FluxApplies, commandVars
<1>6. CASE ChangeGoal
  BY <1>1, <1>6, SameWorld, FrameInv DEF ChangeGoal, commandVars, worldVars
<1>7. CASE RemoveOidcSecret
  <2>1. WorldInv' /\ outputs = <<>>
    BY <1>1, <1>7 DEF RemoveOidcSecret, WorldInv, OidcHasSecret, Oidc, IInv, IdleInv
  <2> QED BY <1>1, <1>7, <2>1, FrameInv DEF RemoveOidcSecret
<1>8. CASE UNCHANGED vars
  <2>1. UNCHANGED worldVars /\ UNCHANGED <<refuses, goal, failures>>
        /\ UNCHANGED <<command, config, pc, todo, outputs, pushed, result>>
    BY <1>8 DEF vars, commandVars
  <2>2. WorldInv' /\ oidcSecret' = oidcSecret
    BY <2>1, SameWorld DEF worldVars
  <2> QED BY <1>1, <2>1, <2>2, FrameInv
<1> QED BY <1>2, <1>3, <1>4, <1>5, <1>6, <1>7, <1>8 DEF Next

LEMMA BootstrapInvariance == Spec => []IInv
<1> QED BY InitInv, NextInv, PTL DEF Spec

\* Whatever the commands are and whichever calls fail, the workflow stays in
\* its steps, and what it commits are files of the form Files.
THEOREM TypeCorrect == Spec => []TypeOK
<1>1. IInv => TypeOK
  BY DEF IInv
<1> QED BY <1>1, BootstrapInvariance, PTL

\* The release never names an OIDC secret that is not in the cluster, neither
\* in git nor as Flux has applied it, wherever commands stop and whatever the
\* administrator does in between (createOIDCConfig writes the secret first,
\* and the later steps carry on what they find in the cluster).
THEOREM OidcNeedsSecret == Spec => []OidcHasSecret
<1>1. IInv => OidcHasSecret
  BY DEF IInv
<1> QED BY <1>1, BootstrapInvariance, PTL

-----------------------------------------------------------------------------
(* A command that exports writes nothing.                                  *)

\* What it puts out is printed, never kept to be written.
ExportInv == command # None /\ command.export => outputs = <<>>

LEMMA ExportStep == ExportInv /\ [Next]_vars => ExportInv'
<1> SUFFICES ASSUME ExportInv, [Next]_vars PROVE ExportInv'
  OBVIOUS
<1>1. ASSUME NextStep \/ Error PROVE ExportInv'
  BY <1>1 DEF NextStep, Error, End, ExportInv
<1>2. ASSUME NEW out, Put(out) PROVE ExportInv'
  BY <1>1, <1>2 DEF Put, ExportInv
<1>3. CASE CommandStep
  <2>1. CASE \/ AskBootstrapFlux \/ BootstrapFlux \/ HasFlux \/ ComponentsInstalled
             \/ CheckUIDomain
    BY <1>1, <2>1 DEF AskBootstrapFlux, BootstrapFlux, HasFlux, ComponentsInstalled,
                      CheckUIDomain
  <2>2. CASE BootstrapFluxFails \/ StepFails \/ PushAnswerLost
    BY <1>1, <2>2 DEF BootstrapFluxFails, StepFails, PushAnswerLost, CallFails
  <2>3. CASE CreateCredentials \/ InstallWge \/ CreateOIDCConfig
    BY <1>1, <1>2, <2>3 DEF CreateCredentials, InstallWge, CreateOIDCConfig
  <2>4. CASE InstallComponent
    BY <1>1, <2>4 DEF InstallComponent, ExportInv
  <2>5. CASE CreateAdminSecret \/ CreateOidcSecret \/ CommitFile \/ ReconcileFlux
    <3>1. outputs # <<>>
      BY <2>5 DEF CreateAdminSecret, CreateOidcSecret, CommitFile, ReconcileFlux, IsFile
    <3>2. \/ NextStep \/ Error \/ command' = command
      BY <2>5 DEF CreateAdminSecret, CreateOidcSecret, CommitFile, ReconcileFlux, Written
    <3> QED BY <1>1, <3>1, <3>2 DEF ExportInv
  <2> QED BY <1>3, <2>1, <2>2, <2>3, <2>4, <2>5 DEF CommandStep
<1>4. CASE Begin(goal) \/ Repeat
  BY <1>4 DEF Begin, Repeat, ExportInv
<1>5. CASE FluxApplies \/ ChangeGoal \/ RemoveOidcSecret \/ UNCHANGED vars
  BY <1>5 DEF FluxApplies, ChangeGoal, RemoveOidcSecret, vars, commandVars, ExportInv
<1> QED BY <1>3, <1>4, <1>5 DEF Next

\* No command that exports writes to the cluster or to git, unless it finds
\* no Flux, whatever it is asked for and finds (Bootstrap, defaultOutputStep).
THEOREM ExportIsDry == Spec => ExportWritesNothing
<1>1. Init => ExportInv
  BY DEF Init, ExportInv
<1>2. ExportInv /\ [Next]_vars =>
        [command # None /\ command.export /\ config.flux /\ CommandStep
            => UNCHANGED <<flux, repo, adminSecret, oidcSecret>>]_vars
  <2> SUFFICES ASSUME ExportInv, command # None, command.export, config.flux, CommandStep
               PROVE  UNCHANGED <<flux, repo, adminSecret, oidcSecret>>
    OBVIOUS
  <2>1. outputs = <<>>
    BY DEF ExportInv
  <2> QED BY <2>1 DEF CommandStep, AskBootstrapFlux, BootstrapFlux, BootstrapFluxFails,
             HasFlux, CreateCredentials, InstallWge, CreateOIDCConfig, InstallComponent,
             ComponentsInstalled, CheckUIDomain, CreateAdminSecret, CreateOidcSecret,
             CommitFile, PushAnswerLost, ReconcileFlux, StepFails, IsFile, worldVars
<1> QED BY <1>1, <1>2, ExportStep, PTL DEF Spec, ExportWritesNothing

-----------------------------------------------------------------------------
(* A command that reports success has done what it was asked for.          *)

\* `auth' takes the steps that it has, and no components.
AuthInv ==
    command # None =>
        /\ command.auth => command.components = <<>>
        /\ command.auth => pc \in {"idle", "fluxCreds", "oidc"}

\* Git has everything that Flux has applied.
AppliedInv ==
    /\ cluster.release # None => repo.release # None
    /\ cluster.agent => repo.agent
    /\ cluster.terraform => repo.terraform

\* What Build has found stays.
FoundInv ==
    pc # "idle" =>
        /\ result = "none"
        /\ config.flux => flux
        /\ pc \in {"askFlux", "fluxCreds"} => flux = config.flux
        /\ config.admin => adminSecret
        /\ config.version # NoVersion => repo.release # None
        /\ "policy-agent" \in config.existing => repo.agent
        /\ "tf-controller" \in config.existing => repo.terraform

PushedInv == pushed => IsFile /\ repo = WithFile

Acts == pc # "idle" /\ ~command.export

\* What the steps before this one have done.
DoneInv ==
    Acts =>
        /\ command.auth \/ pc \in {"askFlux", "fluxCreds"} \/ flux
        /\ command.auth \/ pc \in {"askFlux", "fluxCreds", "adminCreds"} \/ adminSecret
        /\ \/ command.auth \/ pc \in {"askFlux", "fluxCreds", "adminCreds", "installWge"}
           \/ repo.release # None
        /\ pc \in {"componentsExtra", "uiDomain"} /\ command.oidc => oidcSecret

ReleaseFiles == {ReleaseFile(r) : r \in Release}

\* What a step has still to write.
ShapeInv ==
    outputs # <<>> =>
        \/ pc = "adminCreds" /\ outputs = <<[type |-> "adminSecret"]>>
        \/ /\ pc = "installWge"
           /\ \E f \in ReleaseFiles :
                 outputs = <<[type |-> "repository"], f>> \/ outputs = <<f>>
        \/ /\ pc = "oidc"
           /\ \E f \in ReleaseFiles : \/ outputs = <<[type |-> "oidcSecret"], f>>
                                      \/ outputs = <<f>> /\ oidcSecret
        \/ /\ pc = "componentsExtra"
           /\ \/ outputs = <<[type |-> "agent"]>>
              \/ \E f \in ReleaseFiles :
                   /\ f.content.terraformUI
                   /\ outputs = <<[type |-> "terraform"], f>> \/ outputs = <<f>>

Writes(type) == \E i \in 1 .. Len(outputs) : outputs[i].type = type

\* Component x is there, or about to be written.
Installed(x) ==
    /\ x = "policy-agent" => repo.agent \/ Writes("agent")
    /\ x = "tf-controller" =>
        /\ repo.terraform \/ Writes("terraform")
        /\ \/ repo.release.terraformUI
           \/ "tf-controller" \in config.existing \/ Writes("release")

Seen == Len(command.components) - Len(todo)

\* The components that are asked for are those that have been seen to, and
\* those that are still to be installed.
TodoInv ==
    Acts /\ command.components # <<>> =>
        /\ Len(todo) <= Len(command.components)
        /\ \A i \in 1 .. Len(todo) : todo[i] = command.components[Seen + i]
        /\ pc \notin {"componentsExtra", "uiDomain"} => Seen = 0
        /\ \A i \in 1 .. Seen : Installed(command.components[i])
        /\ pc = "uiDomain" => todo = <<>> \/ Head(todo) = "none"

SuccessInv ==
    /\ AuthInv /\ AppliedInv /\ FoundInv /\ PushedInv
    /\ DoneInv /\ ShapeInv /\ TodoInv /\ SuccessIsTrue

LEMMA NoOutput == \A type : outputs = <<>> => ~Writes(type)
BY DEF Writes

LEMMA SuccessInit == Init => SuccessInv
<1> SUFFICES ASSUME Init PROVE SuccessInv
  OBVIOUS
<1>1. AuthInv /\ FoundInv /\ DoneInv /\ TodoInv /\ SuccessIsTrue
  BY DEF Init, AuthInv, FoundInv, Acts, DoneInv, TodoInv, SuccessIsTrue
<1>2. AppliedInv
  BY DEF Init, AppliedInv, NoFiles
<1>3. PushedInv /\ ShapeInv
  BY DEF Init, PushedInv, ShapeInv
<1> QED BY <1>1, <1>2, <1>3 DEF SuccessInv

\* A command that ends with an error.
LEMMA ErrorSuccess ==
    ASSUME SuccessInv, Error, AppliedInv'
    PROVE  SuccessInv'
<1>1. pc' = "idle" /\ result' = "failed" /\ outputs' = <<>> /\ pushed' = FALSE
      /\ command' = command
  BY DEF Error, End
<1>2. AuthInv' /\ FoundInv' /\ DoneInv' /\ TodoInv' /\ SuccessIsTrue'
  BY <1>1 DEF SuccessInv, AuthInv, FoundInv, Acts, DoneInv, TodoInv, SuccessIsTrue
<1>3. PushedInv' /\ ShapeInv'
  BY <1>1 DEF PushedInv, ShapeInv
<1> QED BY <1>2, <1>3 DEF SuccessInv

\* A step has done its part.
StepDone ==
    /\ pc = "askFlux" => flux' = flux
    /\ pc = "fluxCreds" => command.auth \/ command.export \/ flux'
    /\ pc = "adminCreds" => command.export \/ adminSecret'
    /\ pc = "installWge" => command.export \/ repo.release # None
    /\ pc = "oidc" /\ (command.auth \/ command.oidc) => command.export \/ oidcSecret'
    /\ pc = "componentsExtra" => todo = <<>> \/ Head(todo) = "none"
    /\ pc = "componentsExtra" => \A type : ~Writes(type)

Kept == /\ repo' = repo
        /\ flux => flux'
        /\ adminSecret => adminSecret'
        /\ oidcSecret => oidcSecret'

LEMMA NextStepSuccess ==
    ASSUME IInv, SuccessInv, pc # "idle", NextStep, StepDone, Kept, AppliedInv'
    PROVE  SuccessInv'
<1>1. pc \in StepName /\ command \in AllCommands /\ command # None /\ todo \in Seq(Component)
      /\ result = "none"
  BY BootstrapAssumption DEF IInv, TypeOK, IdleInv, SuccessInv, FoundInv
<1>2. outputs' = <<>> /\ pushed' = FALSE /\ UNCHANGED <<command, config>>
  BY DEF NextStep, End
<1>3. PushedInv' /\ ShapeInv'
  BY <1>2 DEF PushedInv, ShapeInv
<1>4. CASE After = "end"
  <2>1. pc' = "idle" /\ result' = "succeeded"
    BY <1>4 DEF NextStep, End
  <2>2. pc = "uiDomain" \/ (pc = "oidc" /\ command.auth)
    BY <1>1, <1>4 DEF After, StepName
  <2>3. AuthInv' /\ FoundInv' /\ DoneInv' /\ TodoInv'
    BY <1>2, <2>1 DEF SuccessInv, AuthInv, FoundInv, Acts, DoneInv, TodoInv
  <2>4. SuccessIsTrue'
    <3> SUFFICES ASSUME ~command.export
                 PROVE
        /\ command.auth \/ (flux' /\ adminSecret' /\ repo'.release # None)
        /\ command.oidc \/ command.auth => oidcSecret'
        /\ \A i \in DOMAIN command.components :
              (\A j \in 1 .. i : command.components[j] # "none") =>
                  /\ command.components[i] = "policy-agent" => repo'.agent
                  /\ command.components[i] = "tf-controller" =>
                        /\ repo'.terraform
                        /\ repo'.release.terraformUI \/ "tf-controller" \in config'.existing
      BY <1>2 DEF SuccessIsTrue
    <3>1. CASE pc = "oidc" /\ command.auth
      <4>1. command.components = <<>>
        BY <1>1, <3>1 DEF SuccessInv, AuthInv
      <4> QED BY <3>1, <4>1 DEF StepDone
    <3>2. CASE pc = "uiDomain"
      <4>1. ~command.auth /\ flux' /\ adminSecret' /\ repo'.release # None
            /\ (command.oidc => oidcSecret')
        BY <1>1, <3>2 DEF SuccessInv, AuthInv, DoneInv, Acts, Kept
      <4>2. ASSUME NEW i \in DOMAIN command.components,
                   \A j \in 1 .. i : command.components[j] # "none"
            PROVE  Installed(command.components[i])
        <5>1. command.components \in Seq(Component) /\ command.components # <<>>
              /\ i \in 1 .. Len(command.components)
          BY <1>1, <4>2 DEF AllCommands
        <5>2. i <= Seen
          <6> SUFFICES ASSUME i > Seen PROVE FALSE
            BY <1>1, <5>1 DEF Seen
          <6>1. Len(todo) > 0 /\ todo # <<>> /\ Seen \in Nat
            BY <1>1, <3>2, <5>1 DEF Seen, SuccessInv, TodoInv, Acts
          <6>2. todo[1] = "none" /\ todo[1] = command.components[Seen + 1]
            BY <1>1, <3>2, <5>1, <6>1 DEF SuccessInv, TodoInv, Acts
          <6> QED BY <4>2, <5>1, <6>1, <6>2
        <5> QED BY <1>1, <3>2, <5>1, <5>2 DEF SuccessInv, TodoInv, Acts, Seen
      <4>3. \A type : ~Writes(type)
        BY <3>2, NoOutput DEF SuccessInv, ShapeInv
      <4> QED BY <1>2, <4>1, <4>2, <4>3 DEF Installed, Kept
    <3> QED BY <2>2, <3>1, <3>2
  <2> QED BY <1>3, <2>3, <2>4 DEF SuccessInv
<1>5. CASE After # "end"
  <2>1. pc' = After /\ result' = "none" /\ todo' = todo
    BY <1>1, <1>5 DEF NextStep
  <2>2. AuthInv' /\ SuccessIsTrue'
    BY <1>1, <1>2, <1>5, <2>1 DEF SuccessInv, AuthInv, SuccessIsTrue, After, StepName
  <2>3. FoundInv'
    BY <1>1, <1>2, <2>1 DEF SuccessInv, FoundInv, Kept, StepDone, After, StepName
  <2>4. DoneInv'
    BY <1>1, <1>2, <1>5, <2>1
       DEF SuccessInv, DoneInv, AuthInv, Acts, Kept, StepDone, After, StepName
  <2>5. TodoInv'
    <3> SUFFICES ASSUME ~command.export, command.components # <<>>
                 PROVE  TodoInv'
      BY <1>2 DEF TodoInv, Acts
    <3>1. TodoInv /\ Acts /\ Seen' = Seen /\ command' = command
      BY <1>2, <2>1 DEF SuccessInv, Acts, Seen
    <3>2. ~command.auth
      BY <1>1 DEF SuccessInv, AuthInv
    <3>3. pc' \in {"componentsExtra", "uiDomain"} => pc \in {"oidc", "componentsExtra"}
      BY <1>1, <2>1 DEF After, StepName
    <3>4. pc' = "uiDomain" => pc = "componentsExtra"
      BY <1>1, <2>1 DEF After, StepName
    <3>5. pc \in {"componentsExtra", "uiDomain"} => pc' \in {"uiDomain", "end"}
      BY <1>1, <2>1 DEF After, StepName
    <3>6. \A i \in 1 .. Seen : Installed(command.components[i])'
      <4>1. CASE pc = "componentsExtra"
        BY <1>2, <3>1, <4>1 DEF TodoInv, Installed, StepDone, Kept
      <4>2. CASE pc # "componentsExtra"
        <5>1. pc # "uiDomain"
          BY <1>1, <1>5 DEF After
        <5> QED BY <3>1, <4>2, <5>1 DEF TodoInv
      <4> QED BY <4>1, <4>2
    <3>7. pc' = "uiDomain" => todo' = <<>> \/ Head(todo') = "none"
      BY <2>1, <3>4 DEF StepDone
    <3>8. pc' \notin {"componentsExtra", "uiDomain"} => Seen = 0
      BY <1>1, <1>5, <3>1, <2>1 DEF TodoInv, After, StepName
    <3> QED BY <2>1, <3>1, <3>6, <3>7, <3>8 DEF TodoInv
  <2> QED BY <1>3, <2>2, <2>3, <2>4, <2>5 DEF SuccessInv
<1> QED BY <1>4, <1>5

\* A step has decided what it writes.
LEMMA PutSuccess ==
    ASSUME IInv, SuccessInv, pc \in {"adminCreds", "installWge", "oidc"},
           outputs = <<>>, NEW out, out # <<>>, Put(out), UNCHANGED worldVars,
           ~command.export /\ outputs' = out => ShapeInv'
    PROVE  SuccessInv'
<1>1. AppliedInv' /\ Kept
  BY DEF SuccessInv, AppliedInv, Kept, worldVars
<1>2. CASE command.export
  BY <1>1, <1>2, NextStepSuccess DEF Put, StepDone, worldVars
<1>3. CASE ~command.export
  <2>1. outputs' = out /\ UNCHANGED <<command, config, pc, todo, pushed, result>>
    BY <1>3 DEF Put
  <2>2. ~pushed
    BY DEF SuccessInv, PushedInv, IsFile
  <2>3. AuthInv' /\ FoundInv' /\ DoneInv' /\ SuccessIsTrue'
    BY <2>1 DEF SuccessInv, AuthInv, FoundInv, DoneInv, Acts, SuccessIsTrue, worldVars
  <2>4. TodoInv'
    <3>1. Seen = 0 \/ command.components = <<>>
      BY <1>3 DEF SuccessInv, TodoInv, Acts
    <3> QED BY <1>3, <2>1, <3>1 DEF SuccessInv, TodoInv, Acts, Seen
  <2>5. PushedInv' /\ ShapeInv'
    BY <1>3, <2>1, <2>2 DEF PushedInv
  <2> QED BY <1>1, <2>3, <2>4, <2>5 DEF SuccessInv
<1> QED BY <1>2, <1>3

\* A command begins.
LEMMA BeginSuccess ==
    ASSUME IInv, SuccessInv, NEW c \in AllCommands, c.auth => c.components = <<>>, Begin(c)
    PROVE  SuccessInv'
<1>1. /\ command' = c /\ config' = Found /\ outputs' = <<>> /\ pushed' = FALSE
      /\ UNCHANGED worldVars /\ todo' \in Requested(c)
      /\ \/ pc' = "idle" /\ result' = "failed"
         \/ /\ pc' = (IF c.auth THEN "fluxCreds" ELSE "askFlux")
            /\ result' = "none"
  BY DEF Begin
<1>2. PushedInv' /\ ShapeInv' /\ AuthInv' /\ SuccessIsTrue'
  BY <1>1 DEF PushedInv, ShapeInv, AuthInv, SuccessIsTrue
<1>3. AppliedInv'
  BY <1>1 DEF SuccessInv, AppliedInv, worldVars
<1>4. FoundInv'
  BY <1>1 DEF SuccessInv, AppliedInv, FoundInv, Found, worldVars
<1>5. DoneInv'
  BY <1>1 DEF DoneInv, Acts
<1>6. TodoInv'
  <2> SUFFICES ASSUME c.components # <<>>
               PROVE  TodoInv'
    BY <1>1 DEF TodoInv
  <2>1. todo' = c.components /\ c.components \in Seq(Component)
    BY <1>1 DEF Requested, AllCommands
  <2>2. Seen' = 0 /\ pc' \notin {"componentsExtra", "uiDomain"}
    BY <1>1, <2>1 DEF Seen
  <2> QED BY <1>1, <2>1, <2>2 DEF TodoInv
<1> QED BY <1>2, <1>3, <1>4, <1>5, <1>6 DEF SuccessInv

\* The steps that decide.
LEMMA StepsSuccess ==
    ASSUME IInv, SuccessInv,
           \/ AskBootstrapFlux \/ BootstrapFlux \/ BootstrapFluxFails \/ HasFlux
           \/ CreateCredentials \/ InstallWge \/ CreateOIDCConfig
           \/ ComponentsInstalled \/ CheckUIDomain \/ StepFails
    PROVE  SuccessInv'
<1>0. AppliedInv /\ (outputs = <<>> => \A type : ~Writes(type))
  BY NoOutput DEF SuccessInv
<1>1. UNCHANGED worldVars => AppliedInv' /\ Kept
  BY <1>0 DEF AppliedInv, Kept, worldVars
<1>2. ASSUME pc # "idle", NextStep, StepDone, UNCHANGED worldVars PROVE SuccessInv'
  BY <1>1, <1>2, NextStepSuccess
<1>3. ASSUME Error, UNCHANGED worldVars PROVE SuccessInv'
  BY <1>1, <1>3, ErrorSuccess
<1>4. CASE AskBootstrapFlux
  BY <1>2, <1>3, <1>4 DEF AskBootstrapFlux, At, StepDone, worldVars
<1>5. CASE BootstrapFlux
  <2>1. pc = "fluxCreds" /\ NextStep /\ (command.auth \/ flux') /\ (flux => flux')
        /\ UNCHANGED <<repo, cluster, adminSecret, oidcSecret>>
    BY <1>5 DEF BootstrapFlux, At
  <2>2. AppliedInv' /\ Kept /\ StepDone
    BY <1>0, <2>1 DEF AppliedInv, Kept, StepDone
  <2> QED BY <2>1, <2>2, NextStepSuccess
<1>6. CASE BootstrapFluxFails
  <2>1. AppliedInv' /\ Error
    BY <1>0, <1>6 DEF BootstrapFluxFails, CallFails, AppliedInv
  <2> QED BY <2>1, ErrorSuccess
<1>7. CASE HasFlux
  <2>1. pc = "fluxCreds" /\ NextStep /\ UNCHANGED worldVars /\ flux
    BY <1>7 DEF HasFlux, At, SuccessInv, FoundInv
  <2> QED BY <1>2, <2>1 DEF StepDone, worldVars
<1>8. CASE CreateCredentials
  <2>1. pc = "adminCreds" /\ outputs = <<>> /\ UNCHANGED worldVars
    BY <1>8 DEF CreateCredentials, At
  <2>2. CASE Put(<<[type |-> "adminSecret"]>>)
    <3> DEFINE out == <<[type |-> "adminSecret"]>>
    <3>1. ~command.export /\ outputs' = out => ShapeInv'
      BY <2>1, <2>2 DEF ShapeInv, Put
    <3>2. Put(out) /\ out # <<>>
      BY <2>2
    <3> HIDE DEF out
    <3> QED BY <2>1, <3>1, <3>2, PutSuccess
  <2>3. CASE config.admin /\ NextStep
    BY <1>2, <2>1, <2>3 DEF StepDone, SuccessInv, FoundInv, worldVars
  <2> QED BY <1>3, <1>8, <2>1, <2>2, <2>3 DEF CreateCredentials
<1>9. CASE InstallWge
  <2>1. pc = "installWge" /\ outputs = <<>> /\ UNCHANGED worldVars
    BY <1>9 DEF InstallWge, At
  <2>2. CASE config.version # NoVersion
    BY <1>2, <1>9, <2>1, <2>2 DEF InstallWge, StepDone, SuccessInv, FoundInv, worldVars
  <2>3. CASE config.version = NoVersion
    <3> DEFINE f == ReleaseFile([version     |-> command.version,
                                 oidc        |-> FALSE,
                                 terraformUI |-> FALSE])
               out == <<[type |-> "repository"], f>>
    <3>1. Put(out)
      BY <1>9, <2>3 DEF InstallWge
    <3>2. f \in ReleaseFiles
      <4>1. command \in AllCommands
        BY <2>1 DEF IInv, IdleInv
      <4> QED BY <4>1 DEF ReleaseFiles, Release, AllCommands
    <3>3. ~command.export /\ outputs' = out => ShapeInv'
      BY <2>1, <3>1, <3>2 DEF ShapeInv, Put, NextStep, End
    <3> QED BY <2>1, <3>1, <3>3, PutSuccess
  <2> QED BY <2>2, <2>3
<1>10. CASE CreateOIDCConfig
  <2>1. pc = "oidc" /\ outputs = <<>> /\ UNCHANGED worldVars
    BY <1>10 DEF CreateOIDCConfig, At
  <2>2. CASE NextStep /\ (oidcSecret \/ (~command.auth /\ ~command.oidc))
    BY <1>2, <2>1, <2>2 DEF StepDone, worldVars
  <2>3. CASE cluster.release # None /\ Put(OidcOutputs)
    <3> DEFINE f == ReleaseFile([cluster.release EXCEPT !.version = command.version,
                                                        !.oidc    = TRUE])
    <3>1. OidcOutputs = <<[type |-> "oidcSecret"], f>>
      BY DEF OidcOutputs
    <3>2. f \in ReleaseFiles
      <4>1. command \in AllCommands /\ cluster.release \in Release
        BY <2>1, <2>3 DEF IInv, IdleInv, TypeOK, Files
      <4> QED BY <4>1 DEF ReleaseFiles, Release, AllCommands
    <3>3. ~command.export /\ outputs' = OidcOutputs => ShapeInv'
      BY <2>1, <2>3, <3>1, <3>2 DEF ShapeInv, Put, NextStep, End
    <3> QED BY <2>1, <2>3, <3>1, <3>3, PutSuccess
  <2> QED BY <1>3, <1>10, <2>1, <2>2, <2>3 DEF CreateOIDCConfig
<1>11. CASE ComponentsInstalled
  BY <1>0, <1>2, <1>11 DEF ComponentsInstalled, At, StepDone
<1>12. CASE CheckUIDomain
  BY <1>2, <1>3, <1>12 DEF CheckUIDomain, At, StepDone
<1>13. CASE StepFails
  BY <1>3, <1>13 DEF StepFails, CallFails
<1> QED BY <1>4, <1>5, <1>6, <1>7, <1>8, <1>9, <1>10, <1>11, <1>12, <1>13

\* Sequences of one and of two outputs.
LEMMA ShortTails ==
    \A a, b : /\ Tail(<<a>>) = <<>> /\ Tail(<<a, b>>) = <<b>>
              /\ Head(<<a>>) = a /\ Head(<<a, b>>) = a
              /\ <<a>> # <<>> /\ <<a, b>> # <<>>
OBVIOUS

LEMMA ShortWrites ==
    ASSUME NEW type
    PROVE  /\ \A a : outputs = <<a>> => (Writes(type) <=> a.type = type)
           /\ \A a, b : outputs = <<a, b>> =>
                 (Writes(type) <=> a.type = type \/ b.type = type)
<1>1. ASSUME NEW a, outputs = <<a>> PROVE Writes(type) <=> a.type = type
  <2>1. Len(outputs) = 1 /\ outputs[1] = a
    BY <1>1
  <2> QED BY <2>1 DEF Writes
<1>2. ASSUME NEW a, NEW b, outputs = <<a, b>>
      PROVE  Writes(type) <=> a.type = type \/ b.type = type
  <2>1. Len(outputs) = 2 /\ outputs[1] = a /\ outputs[2] = b
    BY <1>2
  <2>2. 1 \in 1 .. 2 /\ 2 \in 1 .. 2 /\ \A i \in 1 .. 2 : i = 1 \/ i = 2
    OBVIOUS
  <2> QED BY <2>1, <2>2 DEF Writes
<1> QED BY <1>1, <1>2

LEMMA InstallSuccess ==
    ASSUME IInv, SuccessInv, InstallComponent
    PROVE  SuccessInv'
<1>1. pc = "componentsExtra" /\ outputs = <<>> /\ todo # <<>> /\ UNCHANGED worldVars
      /\ todo \in Seq(Component) /\ ~pushed /\ Head(todo) \in Component \ {"none"}
      /\ command \in AllCommands
  BY DEF InstallComponent, At, IInv, TypeOK, IdleInv, SuccessInv, PushedInv, IsFile
<1>2. AppliedInv'
  BY <1>1 DEF SuccessInv, AppliedInv, worldVars
<1>3. CASE Error
  BY <1>2, <1>3, ErrorSuccess
<1>4. CASE ~Error
  <2>1. /\ todo' = Tail(todo) /\ UNCHANGED <<command, config, pc, pushed, result>>
        /\ \/ Head(todo) \in config.existing /\ outputs' = <<>>
           \/ command.export /\ outputs' = <<>>
           \/ Head(todo) = "policy-agent" /\ outputs' = <<[type |-> "agent"]>>
           \/ Head(todo) = "tf-controller" /\ cluster.release # None
              /\ outputs' = TerraformOutputs
    BY <1>1, <1>4 DEF InstallComponent, Component
  <2> DEFINE f == ReleaseFile([cluster.release EXCEPT !.version     = command.version,
                                                      !.terraformUI = TRUE])
  <2>2. cluster.release # None => /\ f \in ReleaseFiles /\ f.content.terraformUI
                                  /\ f.type = "release"
    <3> SUFFICES ASSUME cluster.release # None
                 PROVE  f \in ReleaseFiles /\ f.content.terraformUI /\ f.type = "release"
      OBVIOUS
    <3>1. cluster.release \in Release
      BY DEF IInv, TypeOK, Files
    <3> QED BY <1>1, <3>1 DEF ReleaseFile, ReleaseFiles, Release, AllCommands
  <2>3. TerraformOutputs = <<[type |-> "terraform"], f>>
    BY DEF TerraformOutputs
  <2> HIDE DEF f
  <2>4. ShapeInv' /\ PushedInv'
    BY <1>1, <2>1, <2>2, <2>3 DEF ShapeInv, PushedInv
  <2>5. AuthInv' /\ FoundInv' /\ DoneInv' /\ SuccessIsTrue'
    BY <1>1, <2>1 DEF SuccessInv, AuthInv, FoundInv, DoneInv, Acts, SuccessIsTrue, worldVars
  <2>6. TodoInv'
    <3> SUFFICES ASSUME ~command.export, command.components # <<>>
                 PROVE  TodoInv'
      BY <2>1 DEF TodoInv, Acts
    <3>1. /\ Len(todo) <= Len(command.components)
          /\ \A i \in 1 .. Len(todo) : todo[i] = command.components[Seen + i]
          /\ \A i \in 1 .. Seen : Installed(command.components[i])
      BY <1>1 DEF SuccessInv, TodoInv, Acts
    <3>2. /\ Len(todo) \in Nat /\ Len(todo) > 0 /\ Len(todo') = Len(todo) - 1
          /\ Len(command.components) \in Nat
          /\ \A i \in 1 .. Len(todo') : todo'[i] = todo[i + 1]
      BY <1>1, <2>1 DEF AllCommands
    <3>3. Seen' = Seen + 1 /\ Seen \in Nat
      <4>1. Seen' = Len(command.components) - Len(todo')
        BY <2>1 DEF Seen
      <4> QED BY <3>1, <3>2, <4>1 DEF Seen
    <3>4. \A i \in 1 .. Len(todo') : todo'[i] = command.components[Seen' + i]
      BY <3>1, <3>2, <3>3
    <3>5. \A x : Installed(x) => Installed(x)'
      BY <1>1, <2>1, NoOutput DEF Installed, worldVars
    <3>6. ASSUME NEW x, x = Head(todo) PROVE Installed(x)'
      <4>1. CASE x \in config.existing /\ outputs' = <<>>
        BY <1>1, <2>1, <3>6, <4>1 DEF Installed, SuccessInv, FoundInv, worldVars
      <4>2. CASE x = "policy-agent" /\ outputs' = <<[type |-> "agent"]>>
        <5>1. Len(outputs') = 1 /\ outputs'[1].type = "agent" /\ 1 \in 1 .. 1
          BY <4>2
        <5>2. Writes("agent")'
          BY <5>1 DEF Writes
        <5> QED BY <4>2, <5>2 DEF Installed
      <4>3. CASE x = "tf-controller" /\ cluster.release # None
                 /\ outputs' = TerraformOutputs
        <5>1. /\ Len(outputs') = 2 /\ 1 \in 1 .. 2 /\ 2 \in 1 .. 2
              /\ outputs'[1].type = "terraform" /\ outputs'[2].type = "release"
          BY <2>2, <2>3, <4>3
        <5>2. Writes("terraform")' /\ Writes("release")'
          BY <5>1 DEF Writes
        <5> QED BY <4>3, <5>2 DEF Installed
      <4> QED BY <2>1, <3>6, <4>1, <4>2, <4>3
    <3>7. command.components[Seen + 1] = Head(todo)
      <4>1. todo[1] = Head(todo) /\ 1 \in 1 .. Len(todo)
        BY <1>1, <3>2
      <4> QED BY <3>1, <4>1
    <3>8. ASSUME NEW i \in 1 .. Seen', NEW x, x = command.components[i]
          PROVE  Installed(x)'
      <4>1. i \in 1 .. Seen \/ i = Seen + 1
        BY <3>3, <3>8
      <4>2. Installed(x) \/ x = Head(todo)
        BY <3>1, <3>7, <3>8, <4>1
      <4> QED BY <3>5, <3>6, <4>2
    <3>9. (\A i \in 1 .. Seen : Installed(command.components[i]))'
      BY <2>1, <3>8 DEF Installed
    <3> QED BY <1>1, <2>1, <3>1, <3>2, <3>3, <3>4, <3>9 DEF TodoInv
  <2> QED BY <1>2, <2>4, <2>5, <2>6 DEF SuccessInv
<1> QED BY <1>3, <1>4

\* An output is written; the step may have another one.
LEMMA WrittenSuccess ==
    ASSUME IInv, SuccessInv, outputs # <<>>, Written, Kept, flux' = flux, AppliedInv',
           Output.type = "adminSecret" => adminSecret',
           Output.type = "oidcSecret" => oidcSecret',
           IsFile => repo = WithFile
    PROVE  SuccessInv'
<1>1. pc # "idle" /\ outputs \in Seq(File \cup Secret)
  BY DEF IInv, TypeOK, IdleInv
<1>2. IsFile => /\ Output.type = "agent" => repo.agent
                /\ Output.type = "terraform" => repo.terraform
                /\ Output.type = "release" => repo.release = Output.content
  <2>1. repo \in Files
    BY DEF IInv, TypeOK
  <2> QED BY <2>1 DEF WithFile, Files
<1>3. \A f \in ReleaseFiles : f.type = "release" /\ f.content # None
  BY BootstrapAssumption DEF ReleaseFiles, ReleaseFile
<1>4. CASE Tail(outputs) = <<>> /\ pc # "componentsExtra"
  <2>1. NextStep
    BY <1>4 DEF Written
  <2>2. \/ pc = "adminCreds" /\ adminSecret'
        \/ pc = "installWge" /\ repo.release # None
        \/ pc = "oidc" /\ oidcSecret'
    <3>1. CASE pc = "adminCreds"
      BY <3>1 DEF SuccessInv, ShapeInv, Output
    <3>2. CASE pc = "installWge"
      <4>1. PICK f \in ReleaseFiles : outputs = <<f>>
        BY <1>4, <3>2, ShortTails DEF SuccessInv, ShapeInv
      <4>2. Output = f
        BY <4>1, ShortTails DEF Output
      <4> QED BY <1>2, <1>3, <3>2, <4>2 DEF IsFile
    <3>3. CASE pc = "oidc"
      BY <1>4, <3>3, ShortTails DEF SuccessInv, ShapeInv, Kept
    <3> QED BY <1>4, <3>1, <3>2, <3>3 DEF SuccessInv, ShapeInv
  <2> QED BY <1>1, <2>1, <2>2, NextStepSuccess DEF StepDone
<1>5. CASE ~(Tail(outputs) = <<>> /\ pc # "componentsExtra")
  <2>1. outputs' = Tail(outputs) /\ pushed' = FALSE
        /\ UNCHANGED <<command, config, pc, todo, result>>
        /\ (Tail(outputs) # <<>> \/ pc = "componentsExtra")
    BY <1>5 DEF Written
  <2>2. PushedInv' /\ AuthInv' /\ SuccessIsTrue'
    BY <1>1, <2>1 DEF SuccessInv, PushedInv, AuthInv, FoundInv, SuccessIsTrue
  <2>3. FoundInv' /\ DoneInv'
    BY <2>1 DEF SuccessInv, FoundInv, DoneInv, Acts, Kept
  <2>4. ShapeInv'
    <3>1. CASE pc = "installWge"
      <4>1. PICK f \in ReleaseFiles : outputs = <<[type |-> "repository"], f>>
        BY <2>1, <3>1, ShortTails DEF SuccessInv, ShapeInv
      <4>2. outputs' = <<f>>
        BY <2>1, <4>1, ShortTails
      <4> QED BY <2>1, <3>1, <4>2 DEF ShapeInv
    <3>2. CASE pc = "oidc"
      <4>1. PICK f \in ReleaseFiles : outputs = <<[type |-> "oidcSecret"], f>>
        BY <2>1, <3>2, ShortTails DEF SuccessInv, ShapeInv
      <4>2. outputs' = <<f>> /\ oidcSecret'
        BY <2>1, <4>1, ShortTails DEF Output
      <4> QED BY <2>1, <3>2, <4>2 DEF ShapeInv
    <3>3. CASE pc = "componentsExtra"
      <4>1. CASE outputs = <<[type |-> "agent"]>>
        BY <2>1, <4>1, ShortTails DEF ShapeInv
      <4>2. CASE outputs # <<[type |-> "agent"]>>
        <5>1. PICK f \in ReleaseFiles :
                  /\ f.content.terraformUI
                  /\ outputs = <<[type |-> "terraform"], f>> \/ outputs = <<f>>
          BY <3>3, <4>2 DEF SuccessInv, ShapeInv
        <5>2. outputs' = <<f>> \/ outputs' = <<>>
          BY <2>1, <5>1, ShortTails
        <5> QED BY <2>1, <3>3, <5>1, <5>2 DEF ShapeInv
      <4> QED BY <4>1, <4>2
    <3>4. CASE pc = "adminCreds"
      BY <2>1, <3>4, ShortTails DEF SuccessInv, ShapeInv
    <3> QED BY <3>1, <3>2, <3>3, <3>4 DEF SuccessInv, ShapeInv
  <2>5. TodoInv'
    <3>1. CASE pc # "componentsExtra"
      <4>1. pc # "uiDomain"
        BY <3>1 DEF SuccessInv, ShapeInv
      <4> QED BY <2>1, <3>1, <4>1 DEF SuccessInv, TodoInv, Acts, Seen
    <3>2. CASE pc = "componentsExtra"
      <4>1. \/ outputs = <<[type |-> "agent"]>>
            \/ \E f \in ReleaseFiles :
                  /\ f.content.terraformUI
                  /\ outputs = <<[type |-> "terraform"], f>> \/ outputs = <<f>>
        BY <3>2 DEF SuccessInv, ShapeInv
      <4>2. \A x : Installed(x) => Installed(x)'
        <5>1. CASE outputs = <<[type |-> "agent"]>>
          <6>1. repo.agent /\ ~Writes("terraform") /\ ~Writes("release")
            BY <1>2, <5>1, ShortTails, ShortWrites DEF Output, IsFile
          <6> QED BY <2>1, <6>1 DEF Installed, Kept
        <5>2. ASSUME NEW f \in ReleaseFiles, f.content.terraformUI,
                     outputs = <<[type |-> "terraform"], f>>
              PROVE  \A x : Installed(x) => Installed(x)'
          <6>1. repo.terraform /\ ~Writes("agent")
            BY <1>2, <1>3, <5>2, ShortTails, ShortWrites DEF Output, IsFile
          <6>2. Writes("release")'
            <7>1. Len(outputs') = 1 /\ outputs'[1] = f /\ 1 \in 1 .. 1
              BY <2>1, <5>2
            <7> QED BY <1>3, <7>1 DEF Writes
          <6> QED BY <2>1, <6>1, <6>2 DEF Installed, Kept
        <5>3. ASSUME NEW f \in ReleaseFiles, f.content.terraformUI, outputs = <<f>>
              PROVE  \A x : Installed(x) => Installed(x)'
          <6>1. repo.release.terraformUI /\ ~Writes("agent") /\ ~Writes("terraform")
            BY <1>2, <1>3, <5>3, ShortTails, ShortWrites DEF Output, IsFile
          <6> QED BY <2>1, <6>1 DEF Installed, Kept
        <5> QED BY <4>1, <5>1, <5>2, <5>3
      <4> QED BY <2>1, <3>2, <4>2 DEF SuccessInv, TodoInv, Acts, Seen
    <3> QED BY <3>1, <3>2
  <2> QED BY <2>2, <2>3, <2>4, <2>5 DEF SuccessInv
<1> QED BY <1>4, <1>5

\* A file is of one of four types.
LEMMA FileTypes ==
    ASSUME IInv, IsFile
    PROVE  Output.type \in {"repository", "release", "agent", "terraform"}
<1>1. Output \in File \cup Secret
  BY DEF IInv, TypeOK, IsFile, Output
<1> QED BY <1>1 DEF File, Secret, IsFile

\* Git never loses what it has.
LEMMA WithFileGrows ==
    ASSUME IInv, SuccessInv, IsFile
    PROVE  /\ repo.release # None => WithFile.release # None
           /\ repo.agent => WithFile.agent
           /\ repo.terraform => WithFile.terraform
           /\ \/ WithFile.release = repo.release
              \/ Output.type = "release" /\ WithFile.release = Output.content
<1>1. repo \in Files /\ Output = outputs[1] /\ outputs # <<>>
  BY DEF IInv, TypeOK, IsFile, Output
<1>2. Output.type = "release" => Output.content # None
  <2>1. \A f \in ReleaseFiles : f.content # None
    BY BootstrapAssumption DEF ReleaseFiles, ReleaseFile
  <2> QED BY <1>1, <2>1, ShortTails DEF SuccessInv, ShapeInv, Output
<1>3. Output.type \in {"repository", "release", "agent", "terraform"}
  BY FileTypes
<1> QED BY <1>1, <1>2, <1>3 DEF WithFile, Files

LEMMA CommitSuccess ==
    ASSUME IInv, SuccessInv, CommitFile
    PROVE  SuccessInv'
<1>1. /\ IsFile /\ outputs # <<>> /\ pc # "idle" /\ repo' = WithFile /\ repo \in Files
      /\ UNCHANGED <<flux, cluster, adminSecret, oidcSecret>>
  BY DEF CommitFile, IsFile, IInv, IdleInv, TypeOK
<1>2. AppliedInv'
  BY <1>1, WithFileGrows DEF SuccessInv, AppliedInv
<1>3. CASE Error
  BY <1>2, <1>3, ErrorSuccess
<1>4. CASE ~Error
  <2>1. pushed' = TRUE /\ UNCHANGED <<command, config, pc, todo, outputs, result>>
    BY <1>4 DEF CommitFile
  <2>2. AuthInv' /\ ShapeInv'
    BY <1>1, <2>1 DEF SuccessInv, AuthInv, ShapeInv
  <2>3. FoundInv' /\ DoneInv' /\ SuccessIsTrue'
    BY <1>1, <2>1, WithFileGrows
       DEF SuccessInv, FoundInv, DoneInv, Acts, SuccessIsTrue
  <2>4. PushedInv'
    <3>1. IsFile' /\ Output' = Output
      BY <1>1, <2>1 DEF IsFile, Output
    <3>2. WithFile' = repo'
      <4>1. CASE Output.type = "release"
        <5>1. repo' = [repo EXCEPT !.release = Output.content]
          BY <1>1, <4>1 DEF WithFile
        <5>2. WithFile' = [repo' EXCEPT !.release = Output.content]
          BY <3>1, <4>1 DEF WithFile
        <5> QED BY <1>1, <5>1, <5>2 DEF Files
      <4>2. CASE Output.type = "repository"
        <5>1. repo' = [repo EXCEPT !.repository = TRUE]
          BY <1>1, <4>2 DEF WithFile
        <5>2. WithFile' = [repo' EXCEPT !.repository = TRUE]
          BY <3>1, <4>2 DEF WithFile
        <5> QED BY <1>1, <5>1, <5>2 DEF Files
      <4>3. CASE Output.type = "agent"
        <5>1. repo' = [repo EXCEPT !.agent = TRUE]
          BY <1>1, <4>3 DEF WithFile
        <5>2. WithFile' = [repo' EXCEPT !.agent = TRUE]
          BY <3>1, <4>3 DEF WithFile
        <5> QED BY <1>1, <5>1, <5>2 DEF Files
      <4>4. CASE Output.type = "terraform"
        <5>1. repo' = [repo EXCEPT !.terraform = TRUE]
          BY <1>1, <4>4 DEF WithFile
        <5>2. WithFile' = [repo' EXCEPT !.terraform = TRUE]
          BY <3>1, <4>4 DEF WithFile
        <5> QED BY <1>1, <5>1, <5>2 DEF Files
      <4> QED BY <1>1, <4>1, <4>2, <4>3, <4>4, FileTypes
    <3> QED BY <3>1, <3>2 DEF PushedInv
  <2>5. TodoInv'
    <3>1. CASE pc # "componentsExtra"
      <4>1. pc # "uiDomain"
        BY <1>1, <3>1 DEF SuccessInv, ShapeInv
      <4> QED BY <1>1, <2>1, <3>1, <4>1 DEF SuccessInv, TodoInv, Acts, Seen
    <3>2. CASE pc = "componentsExtra"
      <4>1. Output.type = "release" => Output.content.terraformUI
        BY <1>1, <3>2, ShortTails DEF SuccessInv, ShapeInv, Output
      <4>2. \A x : Installed(x) => Installed(x)'
        BY <1>1, <2>1, <4>1, WithFileGrows DEF Installed, Writes
      <4>3. Seen' = Seen
        BY <2>1 DEF Seen
      <4>4. Acts /\ command.components # <<>> =>
                (\A i \in 1 .. Seen : Installed(command.components[i]))'
        <5> SUFFICES ASSUME Acts, command.components # <<>>,
                            NEW i \in 1 .. Seen, NEW x, x = command.components[i]
                     PROVE  Installed(x)'
          BY <2>1, <4>3 DEF Installed
        <5> QED BY <4>2 DEF SuccessInv, TodoInv
      <4> QED BY <2>1, <4>3, <4>4 DEF SuccessInv, TodoInv, Acts
    <3> QED BY <3>1, <3>2
  <2> QED BY <1>2, <2>2, <2>3, <2>4, <2>5 DEF SuccessInv
<1> QED BY <1>3, <1>4

LEMMA OutputsSuccess ==
    ASSUME IInv, SuccessInv, \/ CreateAdminSecret \/ CreateOidcSecret
                             \/ CommitFile \/ PushAnswerLost \/ ReconcileFlux
    PROVE  SuccessInv'
<1>1. CASE CreateAdminSecret \/ CreateOidcSecret
  <2>1. /\ outputs # <<>> /\ ~IsFile /\ UNCHANGED <<flux, repo, cluster>>
        /\ (adminSecret => adminSecret') /\ (oidcSecret => oidcSecret')
    BY <1>1 DEF CreateAdminSecret, CreateOidcSecret, IsFile
  <2>2. AppliedInv' /\ Kept
    BY <2>1 DEF SuccessInv, AppliedInv, Kept
  <2>3. CASE Error
    BY <2>2, <2>3, ErrorSuccess
  <2>4. CASE ~Error
    <3>1. /\ Written
          /\ Output.type = "adminSecret" => adminSecret'
          /\ Output.type = "oidcSecret" => oidcSecret'
      BY <1>1, <2>4 DEF CreateAdminSecret, CreateOidcSecret
    <3> QED BY <2>1, <2>2, <3>1, WrittenSuccess
  <2> QED BY <2>3, <2>4
<1>2. CASE CommitFile
  BY <1>2, CommitSuccess
<1>3. CASE PushAnswerLost
  <2>1. AppliedInv' /\ Error
    BY <1>3, WithFileGrows DEF PushAnswerLost, CallFails, SuccessInv, AppliedInv
  <2> QED BY <2>1, ErrorSuccess
<1>4. CASE ReconcileFlux
  <2>1. /\ outputs # <<>> /\ IsFile /\ Written /\ repo = WithFile
        /\ cluster' = repo /\ UNCHANGED <<flux, repo, adminSecret, oidcSecret>>
    BY <1>4 DEF ReconcileFlux, IsFile, SuccessInv, PushedInv
  <2>2. AppliedInv' /\ Kept
    BY <2>1 DEF AppliedInv, Kept
  <2> QED BY <2>1, <2>2, WrittenSuccess DEF IsFile
<1> QED BY <1>1, <1>2, <1>3, <1>4

LEMMA SameSuccess ==
    ASSUME SuccessInv, AppliedInv', UNCHANGED <<flux, repo, adminSecret, oidcSecret>>,
           UNCHANGED <<command, config, pc, todo, outputs, pushed, result>>
    PROVE  SuccessInv'
<1>1. AuthInv' /\ FoundInv' /\ ShapeInv'
  BY DEF SuccessInv, AuthInv, FoundInv, ShapeInv
<1>2. PushedInv' /\ DoneInv'
  BY DEF SuccessInv, PushedInv, IsFile, WithFile, Output, DoneInv, Acts
<1>3. TodoInv'
  BY DEF SuccessInv, TodoInv, Acts, Seen, Installed, Writes
<1>4. SuccessIsTrue'
  BY DEF SuccessInv, SuccessIsTrue
<1> QED BY <1>1, <1>2, <1>3, <1>4 DEF SuccessInv

LEMMA SuccessStep == IInv /\ SuccessInv /\ [Next]_vars => SuccessInv'
<1> SUFFICES ASSUME IInv, SuccessInv, [Next]_vars PROVE SuccessInv'
  OBVIOUS
<1>1. goal \in AllCommands /\ (goal.auth => goal.components = <<>>)
  BY BootstrapAssumption DEF IInv, TypeOK
<1>2. CASE CommandStep
  BY <1>2, StepsSuccess, InstallSuccess, OutputsSuccess DEF CommandStep
<1>3. CASE Begin(goal)
  BY <1>1, <1>3, BeginSuccess
<1>4. CASE Repeat
  <2> DEFINE c == [goal EXCEPT !.password = @ /\ ~adminSecret]
  <2>1. c \in AllCommands /\ (c.auth => c.components = <<>>)
    <3>1. (goal.password /\ ~adminSecret) \in BOOLEAN
      OBVIOUS
    <3> QED BY <1>1, <3>1 DEF AllCommands
  <2>2. Begin(c)
    BY <1>4 DEF Repeat
  <2> HIDE DEF c
  <2> QED BY <2>1, <2>2, BeginSuccess
<1>5. CASE FluxApplies
  <2>1. AppliedInv' /\ UNCHANGED <<flux, repo, adminSecret, oidcSecret>>
        /\ UNCHANGED <<command, config, pc, todo, outputs, pushed, result>>
    BY <1>5 DEF FluxApplies, AppliedInv, commandVars
  <2> QED BY <2>1, SameSuccess
<1>6. CASE ChangeGoal \/ UNCHANGED vars
  <2>1. UNCHANGED <<flux, repo, cluster, adminSecret, oidcSecret>>
        /\ UNCHANGED <<command, config, pc, todo, outputs, pushed, result>>
    BY <1>6 DEF ChangeGoal, vars, worldVars, commandVars
  <2>2. AppliedInv'
    BY <2>1 DEF SuccessInv, AppliedInv
  <2> QED BY <2>1, <2>2, SameSuccess
<1>7. CASE RemoveOidcSecret
  <2>1. /\ pc = "idle" /\ pc' = "idle" /\ result' = "none" /\ outputs = <<>> /\ outputs' = <<>>
        /\ UNCHANGED <<repo, cluster, command, pushed>>
    BY <1>7 DEF RemoveOidcSecret, IInv, IdleInv
  <2> QED BY <2>1 DEF SuccessInv, AuthInv, AppliedInv, FoundInv, PushedInv, IsFile,
        DoneInv, Acts, ShapeInv, TodoInv, SuccessIsTrue
<1> QED BY <1>2, <1>3, <1>4, <1>5, <1>6, <1>7 DEF Next

\* A command that reports success has done what it was asked for: Flux,
\* credentials, a release, the components in their order and the secret of
\* OIDC, for any commands, answers, failing calls and what earlier commands
\* have left behind (Bootstrap).
THEOREM SuccessMeansDone == Spec => []SuccessIsTrue
<1>1. SuccessInv => SuccessIsTrue
  BY DEF SuccessInv
<1> QED BY <1>1, BootstrapInvariance, SuccessInit, SuccessStep, PTL DEF Spec

-----------------------------------------------------------------------------
(* No command takes OIDC out of the release.                               *)

ReleasesOut == {i \in 1 .. Len(outputs) : outputs[i].type = "release"}

\* A release with OIDC comes from one that Flux has applied, and as long as
\* every call works Flux knows of it when the next command starts.
OidcInv ==
    /\ ~flux => cluster.release = None /\ ~pushed
    /\ \A i \in ReleasesOut : outputs[i].content.oidc => flux
    /\ Oidc(repo) => flux
    /\ failures = 0 /\ Oidc(repo) =>
          /\ Oidc(cluster) \/ pushed
          /\ \A i \in ReleasesOut :
                outputs[i].content.oidc \/ config.version = NoVersion

LEMMA OidcInit == Init => OidcInv
BY DEF Init, OidcInv, Oidc, NoFiles, ReleasesOut

\* Steps that commit nothing and decide nothing.
LEMMA OidcFrame ==
    ASSUME IInv, OidcInv, repo' = repo, flux => flux', failures' \in Nat,
           failures' = failures \/ failures' # 0,
           cluster' = cluster \/ (flux' /\ cluster' = repo),
           pushed' => pushed, pushed => pushed' \/ cluster' = repo \/ failures' # 0,
           \/ outputs' = <<>>
           \/ outputs' = outputs /\ config' = config
           \/ outputs # <<>> /\ outputs' = Tail(outputs) /\ config' = config
    PROVE  OidcInv'
<1>1. /\ ~flux' => cluster'.release = None /\ ~pushed'
      /\ Oidc(repo') => flux'
      /\ failures' = 0 /\ Oidc(repo') => Oidc(cluster') \/ pushed'
  BY DEF OidcInv, Oidc
<1>2. ASSUME NEW i \in ReleasesOut'
      PROVE  /\ outputs'[i].content.oidc => flux'
             /\ failures' = 0 /\ Oidc(repo') =>
                   outputs'[i].content.oidc \/ config'.version = NoVersion
  <2>1. CASE outputs' = <<>>
    BY <1>2, <2>1 DEF ReleasesOut
  <2>2. CASE outputs' = outputs /\ config' = config
    <3>1. i \in ReleasesOut
      BY <1>2, <2>2 DEF ReleasesOut
    <3> QED BY <2>2, <3>1 DEF OidcInv, Oidc
  <2>3. CASE outputs # <<>> /\ outputs' = Tail(outputs) /\ config' = config
    <3>1. i + 1 \in 1 .. Len(outputs) /\ outputs'[i] = outputs[i + 1]
      <4>1. outputs \in Seq(File \cup Secret)
        BY DEF IInv, TypeOK
      <4> QED BY <1>2, <2>3, <4>1 DEF ReleasesOut
    <3>2. i + 1 \in ReleasesOut
      BY <1>2, <3>1 DEF ReleasesOut
    <3> QED BY <2>3, <3>1, <3>2 DEF OidcInv, Oidc
  <2> QED BY <2>1, <2>2, <2>3
<1>3. \A i \in ReleasesOut' :
         /\ outputs'[i].content.oidc => flux'
         /\ failures' = 0 /\ Oidc(repo') =>
               outputs'[i].content.oidc \/ config'.version = NoVersion
  BY <1>2
<1> QED BY <1>1, <1>3 DEF OidcInv, Oidc

\* A step decides what it writes.
LEMMA OidcOut ==
    ASSUME OidcInv, UNCHANGED <<worldVars, failures>>, UNCHANGED <<pushed, config>>,
           ~pushed,
           \A i \in ReleasesOut' :
               /\ outputs'[i].content.oidc => flux
               /\ Oidc(cluster) => outputs'[i].content.oidc \/ config.version = NoVersion
    PROVE  OidcInv'
BY DEF OidcInv, Oidc, worldVars

LEMMA TerraformKeeps ==
    ASSUME IInv, cluster.release # None, command \in AllCommands
    PROVE  LET f == TerraformOutputs[2] IN
           /\ TerraformOutputs = <<[type |-> "terraform"], f>>
           /\ f.type = "release" /\ f.content.oidc = cluster.release.oidc
<1>1. cluster.release \in Release
  BY DEF IInv, TypeOK, Files
<1> QED BY <1>1 DEF TerraformOutputs, ReleaseFile, Release

LEMMA OidcCommand ==
    ASSUME IInv, SuccessInv, OidcInv, CommandStep, ~CommitFile, ~PushAnswerLost
    PROVE  OidcInv'
<1>0. failures \in Nat /\ (outputs = <<>> => ~pushed) /\ (pushed => IsFile)
  BY DEF IInv, TypeOK, SuccessInv, PushedInv, IsFile
<1>1. ASSUME NextStep \/ Error, ~pushed \/ cluster' = repo, repo' = repo, flux => flux',
             failures' = failures, cluster' = cluster \/ (flux' /\ cluster' = repo)
      PROVE  OidcInv'
  <2>1. outputs' = <<>> /\ pushed' = FALSE
    BY <1>1 DEF NextStep, Error, End
  <2> QED BY <1>0, <1>1, <2>1, OidcFrame
<1>2. CASE \/ AskBootstrapFlux \/ HasFlux \/ ComponentsInstalled \/ CheckUIDomain
  BY <1>0, <1>1, <1>2 DEF AskBootstrapFlux, HasFlux, ComponentsInstalled,
                          CheckUIDomain, At, worldVars
<1>3. CASE BootstrapFlux
  BY <1>0, <1>1, <1>3 DEF BootstrapFlux, At
<1>4. CASE StepFails \/ BootstrapFluxFails
  <2>1. /\ failures' # 0 /\ failures' \in Nat /\ outputs' = <<>> /\ pushed' = FALSE
        /\ repo' = repo /\ cluster' = cluster
    BY <1>0, <1>4 DEF StepFails, BootstrapFluxFails, CallFails, Error, End, worldVars
  <2>2. flux => flux'
    BY <1>4 DEF StepFails, BootstrapFluxFails, At, worldVars, SuccessInv, FoundInv
  <2> QED BY <2>1, <2>2, OidcFrame
<1>5. CASE CreateCredentials \/ InstallWge \/ CreateOIDCConfig
  <2>1. UNCHANGED <<worldVars, failures>> /\ outputs = <<>> /\ ~pushed /\ pc # "idle"
    BY <1>0, <1>5 DEF CreateCredentials, InstallWge, CreateOIDCConfig, At
  <2>2. CASE NextStep \/ Error
    BY <1>1, <2>1, <2>2 DEF worldVars
  <2>3. ASSUME NEW out, Put(out), ~NextStep
        PROVE  outputs' = out /\ UNCHANGED <<pushed, config>>
    BY <2>3 DEF Put
  <2>4. CASE CreateCredentials /\ ~NextStep /\ ~Error
    <3>1. outputs' = <<[type |-> "adminSecret"]>> /\ UNCHANGED <<pushed, config>>
      BY <2>3, <2>4 DEF CreateCredentials
    <3>2. ReleasesOut' = {}
      BY <3>1 DEF ReleasesOut
    <3> QED BY <2>1, <3>1, <3>2, OidcOut
  <2>5. CASE InstallWge /\ ~NextStep /\ ~Error
    <3> DEFINE r == [version     |-> command.version,
                     oidc        |-> FALSE,
                     terraformUI |-> FALSE]
    <3>1. outputs' = <<[type |-> "repository"], ReleaseFile(r)>>
          /\ config.version = NoVersion /\ UNCHANGED <<pushed, config>>
      BY <2>3, <2>5 DEF InstallWge
    <3>2. \A i \in ReleasesOut' : outputs'[i] = ReleaseFile(r)
      BY <3>1 DEF ReleasesOut
    <3>3. ReleaseFile(r).content.oidc = FALSE
      BY DEF ReleaseFile
    <3> QED BY <2>1, <3>1, <3>2, <3>3, OidcOut
  <2>6. CASE CreateOIDCConfig /\ ~NextStep /\ ~Error
    <3> DEFINE r == [cluster.release EXCEPT !.version = command.version, !.oidc = TRUE]
    <3>1. outputs' = <<[type |-> "oidcSecret"], ReleaseFile(r)>>
          /\ cluster.release # None /\ UNCHANGED <<pushed, config>>
      BY <2>3, <2>6 DEF CreateOIDCConfig, OidcOutputs
    <3>2. \A i \in ReleasesOut' : outputs'[i] = ReleaseFile(r)
      BY <3>1 DEF ReleasesOut
    <3>3. ReleaseFile(r).content.oidc = TRUE
      <4>1. cluster.release \in Release
        BY <3>1 DEF IInv, TypeOK, Files
      <4> QED BY <4>1 DEF ReleaseFile, Release
    <3>4. flux
      BY <3>1 DEF OidcInv
    <3> QED BY <2>1, <3>1, <3>2, <3>3, <3>4, OidcOut
  <2> QED BY <1>5, <2>2, <2>4, <2>5, <2>6
<1>6. CASE InstallComponent
  <2>1. UNCHANGED <<worldVars, failures>> /\ outputs = <<>> /\ ~pushed /\ pc # "idle"
        /\ todo # <<>> /\ Head(todo) \in Component \ {"none"} /\ command \in AllCommands
    BY <1>0, <1>6 DEF InstallComponent, At, IInv, TypeOK, IdleInv
  <2>2. CASE Error
    BY <1>1, <2>1, <2>2 DEF worldVars
  <2>3. CASE ~Error
    <3>1. /\ UNCHANGED <<pushed, config>>
          /\ \/ outputs' = <<>>
             \/ outputs' = <<[type |-> "agent"]>>
             \/ cluster.release # None /\ outputs' = TerraformOutputs
      BY <1>6, <2>1, <2>3 DEF InstallComponent, Component
    <3>2. CASE outputs' = <<>> \/ outputs' = <<[type |-> "agent"]>>
      <4>1. ReleasesOut' = {}
        BY <3>2 DEF ReleasesOut
      <4> QED BY <2>1, <3>1, <4>1, OidcOut
    <3>3. CASE cluster.release # None /\ outputs' = TerraformOutputs
      <4> DEFINE f == TerraformOutputs[2]
      <4>1. outputs' = <<[type |-> "terraform"], f>>
            /\ f.content.oidc = cluster.release.oidc
        BY <2>1, <3>3, TerraformKeeps
      <4> HIDE DEF f
      <4>2. \A i \in ReleasesOut' : outputs'[i] = f
        BY <4>1 DEF ReleasesOut
      <4>3. flux
        BY <3>3 DEF OidcInv
      <4> QED BY <2>1, <3>1, <3>3, <4>1, <4>2, <4>3, OidcOut DEF Oidc
    <3> QED BY <3>1, <3>2, <3>3
  <2> QED BY <2>2, <2>3
<1>7. CASE CreateAdminSecret \/ CreateOidcSecret \/ ReconcileFlux
  <2>1. /\ repo' = repo /\ flux' = flux /\ failures' = failures /\ outputs # <<>>
        /\ \/ cluster' = cluster /\ ~pushed
           \/ cluster' = repo /\ pushed
        /\ Error \/ Written
    BY <1>0, <1>7 DEF CreateAdminSecret, CreateOidcSecret, ReconcileFlux, IsFile
  <2>2. flux' \/ cluster' = cluster
    BY <2>1 DEF OidcInv
  <2>3. CASE NextStep \/ Error
    BY <1>1, <2>1, <2>2, <2>3
  <2>4. CASE ~NextStep /\ ~Error
    <3>1. outputs' = Tail(outputs) /\ config' = config /\ pushed' = FALSE
      BY <2>1, <2>4 DEF Written
    <3> QED BY <1>0, <2>1, <2>2, <3>1, OidcFrame
  <2> QED BY <2>3, <2>4
<1> QED BY <1>2, <1>3, <1>4, <1>5, <1>6, <1>7 DEF CommandStep

\* A commit whose release has no OIDC is one of a command that found no
\* version, if git had OIDC and every call has worked.
LEMMA FileKeepsOidc ==
    ASSUME IInv, SuccessInv, OidcInv, IsFile, failures = 0, Oidc(repo),
           config.version # NoVersion
    PROVE  Oidc(WithFile)
<1>1. CASE Output.type = "release"
  <2>1. Output = outputs[1] /\ 1 \in ReleasesOut
    BY <1>1 DEF IInv, TypeOK, IsFile, Output, ReleasesOut
  <2>2. Output.content.oidc
    BY <2>1 DEF OidcInv
  <2>3. Output.content # None /\ WithFile.release = Output.content
    BY <1>1, WithFileGrows, FileTypes DEF WithFile, Oidc, IInv, TypeOK, Files
  <2> QED BY <2>2, <2>3 DEF Oidc
<1>2. CASE Output.type # "release"
  BY <1>2, WithFileGrows DEF Oidc
<1> QED BY <1>1, <1>2

LEMMA OidcCommit ==
    ASSUME IInv, SuccessInv, OidcInv, CommitFile \/ PushAnswerLost
    PROVE  OidcInv'
<1>1. /\ IsFile /\ ~pushed /\ repo' = WithFile /\ failures \in Nat /\ outputs # <<>>
      /\ pc # "idle" /\ UNCHANGED <<flux, cluster>>
  BY DEF CommitFile, PushAnswerLost, IsFile, IInv, IdleInv, TypeOK
<1>2. Oidc(repo') => flux
  <2>1. CASE WithFile.release = repo.release
    BY <1>1, <2>1 DEF OidcInv, Oidc
  <2>2. CASE Output.type = "release" /\ WithFile.release = Output.content
    <3>1. Output = outputs[1] /\ 1 \in ReleasesOut
      BY <1>1, <2>2 DEF IInv, TypeOK, Output, ReleasesOut
    <3> QED BY <1>1, <2>2, <3>1 DEF OidcInv, Oidc
  <2> QED BY <1>1, <2>1, <2>2, WithFileGrows
<1>3. CASE PushAnswerLost
  <2>1. failures' # 0 /\ outputs' = <<>> /\ pushed' = FALSE
    BY <1>1, <1>3 DEF PushAnswerLost, CallFails, Error, End
  <2> QED BY <1>1, <1>2, <2>1 DEF OidcInv, ReleasesOut
<1>4. CASE CommitFile /\ Error
  <2>1. outputs' = <<>> /\ pushed' = FALSE /\ failures' = failures
    BY <1>4 DEF CommitFile, Error, End
  <2>2. Oidc(repo') => repo' = repo
    BY <1>2, <1>4 DEF CommitFile, Error, End
  <2> QED BY <1>1, <1>2, <2>1, <2>2 DEF OidcInv, ReleasesOut, Oidc
<1>5. CASE CommitFile /\ ~Error
  <2>1. flux /\ pushed' = TRUE /\ UNCHANGED <<config, outputs, failures>>
    BY <1>5 DEF CommitFile
  <2>2. ReleasesOut' = ReleasesOut
    BY <2>1 DEF ReleasesOut
  <2>3. ASSUME failures = 0, Oidc(repo'), NEW i \in ReleasesOut
        PROVE  outputs[i].content.oidc \/ config.version = NoVersion
    <3>1. CASE Oidc(repo)
      BY <2>3, <3>1 DEF OidcInv
    <3>2. CASE ~Oidc(repo)
      <4>1. Output.type = "release" /\ repo'.release = Output.content
        BY <1>1, <2>3, <3>2, WithFileGrows DEF Oidc
      <4>2. Output.content.oidc
        BY <2>3, <4>1 DEF Oidc
      <4>3. PICK f \in ReleaseFiles : outputs = <<f>>
        BY <1>1, <4>1, ShortTails DEF SuccessInv, ShapeInv, Output
      <4>4. Output = f /\ outputs[i] = f
        BY <2>3, <4>3 DEF Output, ReleasesOut
      <4> QED BY <4>2, <4>4
    <3> QED BY <3>1, <3>2
  <2> QED BY <1>1, <2>1, <2>2, <2>3 DEF OidcInv
<1> QED BY <1>3, <1>4, <1>5

LEMMA OidcStep == IInv /\ SuccessInv /\ OidcInv /\ [Next]_vars => OidcInv'
<1> SUFFICES ASSUME IInv, SuccessInv, OidcInv, [Next]_vars PROVE OidcInv'
  OBVIOUS
<1>1. failures \in Nat /\ (pc = "idle" => outputs = <<>> /\ ~pushed)
  BY DEF IInv, IdleInv, TypeOK, SuccessInv, PushedInv, IsFile
<1>2. CASE CommandStep
  BY <1>2, OidcCommand, OidcCommit
<1>3. CASE Begin(goal) \/ Repeat
  <2>1. outputs' = <<>> /\ pushed' = FALSE /\ ~pushed /\ UNCHANGED <<worldVars, failures>>
    BY <1>1, <1>3 DEF Begin, Repeat
  <2> QED BY <1>1, <2>1, OidcFrame DEF worldVars
<1>4. CASE FluxApplies
  <2>1. /\ flux /\ cluster' = repo /\ UNCHANGED <<flux, repo, failures>>
        /\ UNCHANGED <<outputs, config, pushed>>
    BY <1>4 DEF FluxApplies, commandVars
  <2> QED BY <1>1, <2>1, OidcFrame
<1>5. CASE ChangeGoal \/ RemoveOidcSecret \/ UNCHANGED vars
  <2>1. /\ UNCHANGED <<flux, repo, cluster, failures>> /\ UNCHANGED <<outputs, pushed>>
        /\ (outputs' = <<>> \/ config' = config)
    BY <1>1, <1>5 DEF ChangeGoal, RemoveOidcSecret, vars, worldVars, commandVars
  <2> QED BY <1>1, <2>1, OidcFrame
<1> QED BY <1>2, <1>3, <1>4, <1>5 DEF Next

\* No command takes OIDC out of the release that is in git, as long as every
\* call has worked, but one that finds no version: the values of a release are
\* read from the cluster, and what is committed is there when the next command
\* starts (createOIDCConfig, installTerraform).
THEOREM OidcStays == Spec => OidcKept
<1>1. IInv /\ SuccessInv /\ OidcInv /\ [Next]_vars =>
        [Oidc(repo) /\ ~Oidc(repo') => failures > 0 \/ config.version = NoVersion]_vars
  <2> SUFFICES ASSUME IInv, SuccessInv, OidcInv, Next, Oidc(repo), ~Oidc(repo'),
                      ~(failures > 0), config.version # NoVersion
               PROVE  FALSE
    OBVIOUS
  <2>1. failures = 0
    BY DEF IInv, TypeOK
  <2>2. CASE CommitFile \/ PushAnswerLost
    <3>1. IsFile /\ repo' = WithFile
      BY <2>2 DEF CommitFile, PushAnswerLost
    <3> QED BY <2>1, <3>1, FileKeepsOidc DEF Oidc
  <2>3. CASE ~CommitFile /\ ~PushAnswerLost
    <3>1. repo' = repo
      BY <2>3 DEF Next, CommandStep, AskBootstrapFlux, BootstrapFlux, BootstrapFluxFails,
             HasFlux, CreateCredentials, InstallWge, CreateOIDCConfig, InstallComponent,
             ComponentsInstalled, CheckUIDomain, CreateAdminSecret, CreateOidcSecret,
             ReconcileFlux, StepFails, worldVars, Begin, Repeat, FluxApplies,
             ChangeGoal, RemoveOidcSecret
    <3> QED BY <3>1 DEF Oidc
  <2> QED BY <2>2, <2>3
<1> QED BY <1>1, BootstrapInvariance, SuccessInit, SuccessStep, OidcInit, OidcStep, PTL
        DEF Spec, OidcKept
=============================================================================
