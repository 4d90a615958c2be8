------------------------------ MODULE Rollout ------------------------------
(***************************************************************************)
(* How a push waits until its change is deployed: Build and                *)
(* WaitForBuildToFinish, PatchCurrentDC from the read of the               *)
(* DeploymentConfig on, StartDeployment, WaitAndGetDC and IsDCRolledOut.   *)
(*                                                                         *)
(* Several clients push to one component.  The controllers of the cluster  *)
(* start a deployment when the template or the image has changed, and      *)
(* report on it in the DeploymentConfig's status.                          *)
(*                                                                         *)
(* Abstracted: a template is the set of the clients whose change it has    *)
(* and the number of its image; replica counts, which only choose the      *)
(* wording of the debug log while a rollout is not finished.               *)
(***************************************************************************)
EXTENDS Naturals, FiniteSets

CONSTANTS
  Clients,     \* pushes to the component
  Sources,     \* the kinds of component: a subset of {"local", "git"}
  Patient,     \* a timeout comes only when nothing more would happen
  MaxImages,   \* bound on the new images the builder image gets
  MaxFaults    \* bound on lost watches, refused calls, failed builds and rollouts

ASSUME SourcesAssumption == Sources \subseteq {"local", "git"}
ASSUME PatientAssumption == Patient \in BOOLEAN
ASSUME BoundsAssumption  == MaxImages \in Nat /\ MaxFaults \in Nat

VARIABLES
  source,   \* the kind of the component
  same,     \* pushes of a configuration that is deployed already
  dc,       \* the DeploymentConfig
  images,   \* new images of the builder image
  pc,       \* what each push does next
  copy,     \* the DeploymentConfig it has read
  build,    \* the phase of its build
  seen,     \* the event its watch has delivered that ends its wait
  lost,     \* pushes one of whose watches was closed
  result,   \* how it ended
  used,     \* the DeploymentConfig its wait ended with
  faults    \* lost watches, refused calls, failed builds and rollouts

cluster == <<dc, images, seen>>
vars    == <<source, same, cluster, pc, copy, build, lost, result, used, faults>>

\* The reasons of the Progressing condition when a rollout is over.
Available == "NewReplicationControllerAvailable"
Failures  == {"ProgressDeadlineExceeded", "RolloutCancelled", "DeploymentConfigPaused"}
Reasons   == Failures \cup {Available, "ReplicationControllerUpdated"}

Template == [changes : SUBSET Clients, image : 0..MaxImages]

\* `latest` is the version of the deployment asked for, `started` and `deployed`
\* those of the replication controller there is.
DC == [template : Template, deployed : Template, latest : Nat, started : Nat,
       generation : Nat, observed : Nat, reason : Reasons]

NoDC == [latest |-> 0]

Fault == faults < MaxFaults /\ faults' = faults + 1

-----------------------------------------------------------------------------
(* The cluster.                                                            *)

Watching(c) == pc[c] = "wait" /\ c \notin lost

\* The revision to wait for.
DesiredRevision_Current(c) == copy[c].latest             \* mutant
DesiredRevision(c) == copy[c].latest + 1

\* Every odo DeploymentConfig has an image trigger, so version 0 waits for it.
IsDCRolledOut(d, desired) ==
  /\ d.latest > 0 /\ d.latest >= desired
  /\ d.generation <= d.observed
  /\ d.reason \in Failures \cup {Available}

\* An event that does not end the loop of WaitAndGetDC changes nothing: of what
\* an open watch delivers, the first event that does is kept.
Sees(c, d) == IF IsDCRolledOut(d, DesiredRevision(c)) THEN d ELSE NoDC

Store(d) ==
  /\ dc' = d
  /\ seen' = [c \in Clients |-> IF Watching(c) /\ seen[c] = NoDC THEN Sees(c, d)
                                                               ELSE seen[c]]

\* A specification that has changed, or a deployment asked for, is a new
\* generation.
Changed(d)      == [d EXCEPT !.generation = @ + 1]
Instantiated(d) == [Changed(d) EXCEPT !.latest = @ + 1]

\* The ConfigChange trigger.
Trigger == /\ dc.template # dc.deployed /\ dc.latest = dc.started
           /\ Store(Instantiated(dc))
           /\ UNCHANGED <<images, faults>>

\* The ImageChange trigger, which git components have switched off.
NewImage == /\ source = "local" /\ images < MaxImages
            /\ images' = images + 1
            /\ Store(Instantiated([dc EXCEPT !.template.image = images + 1]))
            /\ UNCHANGED faults

\* The deployment controller takes note of the specification, and starts the
\* deployment that is asked for.
Observe ==
  /\ dc.observed < dc.generation
  /\ Store(IF dc.started < dc.latest
           THEN [dc EXCEPT !.observed = dc.generation, !.started = dc.latest,
                           !.deployed = dc.template,
                           !.reason = "ReplicationControllerUpdated"]
           ELSE [dc EXCEPT !.observed = dc.generation])
  /\ UNCHANGED <<images, faults>>

RolloutEnds ==
  /\ dc.reason = "ReplicationControllerUpdated"
  /\ \/ Store([dc EXCEPT !.reason = Available]) /\ UNCHANGED faults
     \/ Fault /\ \E r \in Failures : Store([dc EXCEPT !.reason = r])
  /\ UNCHANGED images

ClusterStep == /\ Trigger \/ NewImage \/ Observe \/ RolloutEnds
               /\ UNCHANGED <<source, same, pc, copy, build, lost, result, used>>

BuildEnds(c) ==
  /\ build[c] = "Running"
  /\ \/ build' = [build EXCEPT ![c] = "Complete"] /\ UNCHANGED faults
     \/ Fault /\ build' = [build EXCEPT ![c] = "Failed"]
  /\ UNCHANGED <<source, same, cluster, pc, copy, lost, result, used>>

\* The server closes a watch of a push.
LoseWatch(c) ==
  /\ pc[c] \in {"wait build", "wait"} /\ c \notin lost /\ Fault
  /\ lost' = lost \cup {c}
  /\ UNCHANGED <<source, same, cluster, pc, copy, build, result, used>>

-----------------------------------------------------------------------------
(* A push.                                                                 *)

Goto(c, next) == pc' = [pc EXCEPT ![c] = next]

Ends(c, r) == Goto(c, "done") /\ result' = [result EXCEPT ![c] = r]

\* Any call to the API may be refused.
Refused(c) ==
  /\ pc[c] \in {"read", "build", "wait build", "update", "deploy"} /\ Fault
  /\ Ends(c, "failed")
  /\ UNCHANGED <<source, same, cluster, copy, build, lost, used>>

\* Update reads the DeploymentConfig first.
Read(c) ==
  /\ pc[c] = "read"
  /\ copy' = [copy EXCEPT ![c] = dc]
  /\ Goto(c, IF source = "git" THEN "build" ELSE "update")
  /\ UNCHANGED <<source, same, cluster, build, lost, result, used, faults>>

StartBuild(c) ==
  /\ pc[c] = "build"
  /\ build' = [build EXCEPT ![c] = "Running"]
  /\ Goto(c, "follow log")
  /\ UNCHANGED <<source, same, cluster, copy, lost, result, used, faults>>

\* The log ends with the build, or its stream breaks.
FollowBuildLog(c) ==
  /\ pc[c] = "follow log"
  /\ \/ build[c] # "Running" /\ Goto(c, "wait build") /\ UNCHANGED <<result, faults>>
     \/ Fault /\ Goto(c, "wait build") /\ UNCHANGED result
     \/ Fault /\ Ends(c, "failed")
  /\ UNCHANGED <<source, same, cluster, copy, build, lost, used>>

\* Mutant: a cancelled or failed build only ends the wait.
WaitForBuildToFinish_AnyEnd(c) ==
  /\ pc[c] = "wait build"
  /\ build[c] # "Running" \/ c \in lost
  /\ Goto(c, "update")
  /\ UNCHANGED <<source, same, cluster, copy, build, lost, result, used, faults>>

\* No timeout.  When the watch is closed the loop is left, and nil returned.
WaitForBuildToFinish(c) ==
  /\ pc[c] = "wait build"
  /\ \/ (build[c] = "Complete" \/ c \in lost) /\ Goto(c, "update") /\ UNCHANGED result
     \/ build[c] = "Failed" /\ Ends(c, "failed")
  /\ UNCHANGED <<source, same, cluster, copy, build, lost, used, faults>>

Patched(c) == IF c \in same THEN copy[c].template
                            ELSE [copy[c].template EXCEPT !.changes = @ \cup {c}]

\* A rollout is waited for when the template is another one than was read, and
\* always for git.
NeedsWait_Always(c) == TRUE                               \* mutant
NeedsWait(c) == Patched(c) # copy[c].template

\* The update of a DeploymentConfig somebody has changed since it was read is
\* refused.
Update(c) ==
  /\ pc[c] = "update"
  /\ IF dc # copy[c]
     THEN Ends(c, "failed") /\ UNCHANGED <<dc, seen>>
     ELSE /\ IF Patched(c) = dc.template
             THEN UNCHANGED <<dc, seen>>
             ELSE Store(Changed([dc EXCEPT !.template = Patched(c)]))
          /\ CASE source = "git" -> Goto(c, "deploy") /\ UNCHANGED result
               [] source # "git" /\ NeedsWait(c) -> Goto(c, "watch") /\ UNCHANGED result
               [] OTHER -> Ends(c, "ok")
  /\ UNCHANGED <<source, same, images, copy, build, lost, used, faults>>

\* A git component's image has the same name after a build: the deployment is
\* asked for, whether the template has changed or not.
StartDeployment(c) ==
  /\ pc[c] = "deploy"
  /\ Store(Instantiated(dc))
  /\ Goto(c, "watch")
  /\ UNCHANGED <<source, same, images, copy, build, lost, result, used, faults>>

\* The first event is the DeploymentConfig as it is.  An error of Watch is
\* returned by way of `defer w.Stop()`, which panics: there is no watch.
Watch(c) ==
  /\ pc[c] = "watch"
  /\ \/ /\ seen' = [seen EXCEPT ![c] = Sees(c, dc)]
        /\ lost' = lost \ {c}
        /\ Goto(c, "wait")
        /\ UNCHANGED <<result, faults>>
     \/ Fault /\ Ends(c, "panicked") /\ UNCHANGED <<seen, lost>>
  /\ UNCHANGED <<source, same, dc, images, copy, build, used>>

\* The loop ends with the first such event.
WaitAndGetDC(c) ==
  /\ pc[c] = "wait" /\ seen[c] # NoDC
  /\ Ends(c, "ok")
  /\ used' = [used EXCEPT ![c] = seen[c]]
  /\ UNCHANGED <<source, same, cluster, copy, build, lost, faults>>

\* Nothing more will be delivered that could end the wait.
Settled(c) ==
  /\ seen[c] = NoDC
  /\ \/ c \in lost
     \/ /\ dc.template = dc.deployed /\ dc.latest = dc.started
        /\ dc.observed = dc.generation /\ dc.reason # "ReplicationControllerUpdated"

\* A closed watch makes the loop spin until then.
TimesOut_Never(c) == FALSE /\ UNCHANGED vars              \* mutant
TimesOut(c) ==
  /\ pc[c] = "wait"
  /\ Patient => Settled(c)
  /\ Ends(c, "timeout")
  /\ UNCHANGED <<source, same, cluster, copy, build, lost, used, faults>>

-----------------------------------------------------------------------------
Init ==
  /\ source \in Sources /\ same \in SUBSET Clients
  /\ \E v \in {0, 1} :
       dc = [template |-> [changes |-> {}, image |-> 0],
             deployed |-> [changes |-> {}, image |-> 0],
             latest |-> v, started |-> v, generation |-> 1, observed |-> 1,
             reason |-> Available]
  /\ images = 0 /\ lost = {} /\ faults = 0
  /\ pc = [c \in Clients |-> "read"] /\ result = [c \in Clients |-> "none"]
  /\ copy = [c \in Clients |-> NoDC] /\ used = [c \in Clients |-> NoDC]
  /\ build = [c \in Clients |-> "none"] /\ seen = [c \in Clients |-> NoDC]

PushStep(c) ==
  \/ Read(c) \/ StartBuild(c) \/ FollowBuildLog(c) \/ WaitForBuildToFinish(c)
  \/ Update(c) \/ StartDeployment(c) \/ Watch(c) \/ WaitAndGetDC(c) \/ TimesOut(c)

Next == \/ ClusterStep
        \/ \E c \in Clients : BuildEnds(c) \/ LoseWatch(c) \/ Refused(c) \/ PushStep(c)

\* odo goes on, and builds end.  Rollouts need not, but for a patient timeout,
\* which stands for one that is long enough.
Fairness == /\ \A c \in Clients : WF_vars(PushStep(c)) /\ WF_vars(BuildEnds(c))
            /\ Patient => WF_vars(ClusterStep)

Spec == Init /\ [][Next]_vars /\ Fairness

-----------------------------------------------------------------------------
(* What a push promises.                                                   *)

TypeOK ==
  /\ source \in Sources /\ same \subseteq Clients /\ lost \subseteq Clients
  /\ dc \in DC /\ dc.started <= dc.latest /\ dc.observed <= dc.generation
  /\ pc \in [Clients -> {"read", "build", "follow log", "wait build", "update",
                         "deploy", "watch", "wait", "done"}]
  /\ build \in [Clients -> {"none", "Running", "Complete", "Failed"}]
  /\ \A c \in Clients : pc[c] = "done" <=> result[c] # "none"
  /\ result \in [Clients -> {"none", "ok", "failed", "timeout", "panicked"}]
  /\ \A c \in Clients :
       {copy[c], used[c], seen[c]} \subseteq DC \cup {NoDC}
  /\ images \in 0..MaxImages /\ faults \in 0..MaxFaults

\* A push whose wait ends with an available rollout sees its own change
\* deployed, and a deployment newer than the one it began with: not one that
\* another push or a new image has started, nor the condition of an old one.
RolledOutHasChange ==
  \A c \in Clients : used[c] # NoDC /\ used[c].reason = Available =>
    /\ used[c].started > copy[c].latest
    /\ c \notin same => c \in used[c].deployed.changes

\* A git push asks for a deployment only once its build is complete, unless it
\* has lost sight of the build.
FailedBuildIsNotDeployed ==
  \A c \in Clients :
    source = "git" /\ pc[c] \in {"update", "deploy"} =>
      build[c] = "Complete" \/ c \in lost

\* "if they are same, we don't wait as new deployment won't run and we will wait
\* till timeout" (occlient.go): no push waits in vain for a deployment that is
\* not coming; with a patient timeout, only a lost watch leads to it...
NoVainWait == \A c \in Clients : result[c] = "timeout" => c \in lost

\* ... or a deployment that was asked for, but not started, when the
\* DeploymentConfig was read: it takes the change along, and the revision after
\* it, which the push waits for, never comes.
TimeoutMeansLostWatch ==
  \A c \in Clients :
    result[c] = "timeout" => c \in lost \/ copy[c].started < copy[c].latest

\* Every push ends, whatever becomes of its build, its rollout and its watches.
PushesEnd == <>(\A c \in Clients : pc[c] = "done")

\* "IsDCRolledOut indicates whether the deployment config is rolled out or not"
\* (utils.go).
OkMeansAvailable ==
  \A c \in Clients : result[c] = "ok" /\ used[c] # NoDC => used[c].reason = Available

\* "block and waits for build to finish" (occlient.go).
BuildIsAwaited ==
  \A c \in Clients : source = "git" /\ pc[c] = "update" => build[c] = "Complete"

\* "Returns: Updated DC and errors if any" (occlient.go).
ErrorsAreReturned == \A c \in Clients : result[c] # "panicked"

=============================================================================
