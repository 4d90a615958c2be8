--------------------------- MODULE RolloutProofs ---------------------------
(* What is proved about Rollout, for any number of pushes, of new images and *)
(* of faults.                                                                *)
EXTENDS Rollout, TLAPS

\* A DeploymentConfig whose deployment is still to be started has not been
\* taken note of; what is deployed came from the template.
Sound(d) ==
  /\ d \in DC /\ d.started <= d.latest /\ d.observed <= d.generation
  /\ d.started < d.latest => d.observed < d.generation
  /\ d.deployed.changes \subseteq d.template.changes

Active == {"build", "follow log", "wait build", "update", "deploy", "watch", "wait"}

\* What a push has read is not newer than what there is.
CopyInv(c) ==
  pc[c] \in Active =>
    copy[c] \in DC /\ copy[c].latest <= dc.latest /\ copy[c].started <= dc.started

\* From its update on, the change of a push is in the template, and in whatever
\* is deployed after the deployment it had read.
ChangeInv(c) ==
  pc[c] \in {"deploy", "watch", "wait"} /\ c \notin same =>
    /\ c \in dc.template.changes
    /\ dc.started > copy[c].latest => c \in dc.deployed.changes

\* A push that waits has asked for a deployment, or its change will; unless one
\* was asked for, and not started, when it read the DeploymentConfig.
ComingInv(c) ==
  pc[c] \in {"watch", "wait"} =>
    \/ copy[c].started < copy[c].latest
    \/ dc.latest > copy[c].latest
    \/ c \in dc.template.changes \ dc.deployed.changes

\* A DeploymentConfig that ends the wait of a push has its change.
Fits(c, d) == d # NoDC => /\ d.started > copy[c].latest
                          /\ c \notin same => c \in d.deployed.changes

SeenInv(c) ==
  /\ seen[c] \in DC \cup {NoDC} /\ used[c] \in DC \cup {NoDC}
  /\ seen[c] # NoDC => pc[c] \in {"wait", "done"}
  /\ used[c] # NoDC => pc[c] = "done"
  /\ Fits(c, seen[c]) /\ Fits(c, used[c])

\* An open watch delivers the DeploymentConfig there is.
WatchInv(c) ==
  Watching(c) /\ IsDCRolledOut(dc, DesiredRevision(c)) => seen[c] # NoDC

BuildInv(c) ==
  source = "git" /\ pc[c] \in {"update", "deploy"} => build[c] = "Complete" \/ c \in lost

TimeoutInv(c) ==
  Patient /\ result[c] = "timeout" => c \in lost \/ copy[c].started < copy[c].latest

PlaceInv(c) ==
  /\ pc[c] = "read" => copy[c] = NoDC
  /\ pc[c] = "done" <=> result[c] # "none"

ClientInv(c) ==
  /\ PlaceInv(c) /\ CopyInv(c) /\ ChangeInv(c) /\ ComingInv(c) /\ SeenInv(c)
  /\ WatchInv(c) /\ BuildInv(c) /\ TimeoutInv(c)

\* The shape of the variables that are not about one push.
Shape ==
  /\ source \in Sources /\ same \subseteq Clients /\ lost \subseteq Clients
  /\ pc \in [Clients -> Active \cup {"read", "done"}]
  /\ build \in [Clients -> {"none", "Running", "Complete", "Failed"}]
  /\ result \in [Clients -> {"none", "ok", "failed", "timeout", "panicked"}]
  /\ copy \in [Clients -> DC \cup {NoDC}]
  /\ DOMAIN used = Clients /\ DOMAIN seen = Clients
  /\ images \in 0..MaxImages /\ faults \in 0..MaxFaults

IInv == Shape /\ Sound(dc) /\ \A c \in Clients : ClientInv(c)

-----------------------------------------------------------------------------
(* What every change of the DeploymentConfig has in common.                *)

\* d comes after dc: nothing is undone, and a deployment that starts takes the
\* whole template.
Follows(d) ==
  /\ Sound(d)
  /\ dc.latest <= d.latest /\ dc.template.changes \subseteq d.template.changes
  /\ \/ d.started = dc.started /\ d.deployed = dc.deployed
     \/ d.started = dc.latest /\ dc.started < dc.latest /\ d.deployed = d.template

LEMMA DCType ==
  ASSUME NEW d \in DC
  PROVE  /\ d.latest \in Nat /\ d.started \in Nat
         /\ d.generation \in Nat /\ d.observed \in Nat
         /\ d.template \in Template /\ d.deployed \in Template
  BY DEF DC

\* The push q does nothing while the DeploymentConfig becomes d.
Rests(q) ==
  /\ pc'[q] = pc[q] /\ copy'[q] = copy[q] /\ build'[q] = build[q]
  /\ result'[q] = result[q] /\ used'[q] = used[q]
  /\ q \in lost' <=> q \in lost
  /\ UNCHANGED <<source, same>>

\* The invariants of a push that only looks on.
LEMMA LooksOn ==
  ASSUME IInv, NEW q \in Clients, Rests(q), NEW d, Follows(d), Store(d)
  PROVE  ClientInv(q)'
  <1> DEFINE r == DesiredRevision(q)
  <1>1. /\ ClientInv(q) /\ dc' = d /\ seen'[q] = IF Watching(q) /\ seen[q] = NoDC
                                                THEN Sees(q, d) ELSE seen[q]
    BY DEF IInv, Store
  <1>2. /\ dc \in DC /\ d \in DC /\ dc.started <= dc.latest
        /\ dc.latest \in Nat /\ dc.started \in Nat /\ d.latest \in Nat /\ d.started \in Nat
        /\ d.observed \in Nat /\ d.generation \in Nat
    BY DCType DEF IInv, Sound, Follows
  <1>3. pc[q] \in Active => copy[q].latest \in Nat /\ copy[q].started \in Nat
    BY <1>1, DCType DEF ClientInv, CopyInv
  <1>4. PlaceInv(q)' /\ BuildInv(q)' /\ TimeoutInv(q)'
    BY <1>1 DEF Rests, ClientInv, PlaceInv, BuildInv, TimeoutInv
  <1>5. CopyInv(q)'
    BY <1>1, <1>2, <1>3 DEF Rests, ClientInv, CopyInv, Follows
  <1>6. ChangeInv(q)'
    <2>1. SUFFICES ASSUME pc[q] \in {"deploy", "watch", "wait"}, q \notin same
                   PROVE  /\ q \in d.template.changes
                          /\ d.started > copy[q].latest => q \in d.deployed.changes
      BY <1>1 DEF Rests, ChangeInv
    <2>2. /\ q \in dc.template.changes
          /\ dc.started > copy[q].latest => q \in dc.deployed.changes
      BY <1>1, <2>1 DEF ClientInv, ChangeInv
    <2>3. QED
      BY <2>2 DEF Follows
  <1>7. ComingInv(q)'
    <2>1. SUFFICES ASSUME pc[q] \in {"watch", "wait"}, ~(copy[q].started < copy[q].latest)
                   PROVE  d.latest > copy[q].latest \/ q \in d.template.changes \ d.deployed.changes
      BY <1>1 DEF Rests, ComingInv
    <2>2. dc.latest > copy[q].latest \/ q \in dc.template.changes \ dc.deployed.changes
      BY <1>1, <2>1 DEF ClientInv, ComingInv
    <2>3. /\ copy[q].started <= dc.started
          /\ copy[q].latest \in Nat /\ copy[q].started \in Nat
      BY <1>1, <1>3, <2>1 DEF ClientInv, CopyInv, Active
    <2>4. CASE d.started = dc.started /\ d.deployed = dc.deployed
      BY <1>2, <2>2, <2>3, <2>4 DEF Follows
    <2>5. CASE d.started = dc.latest /\ dc.started < dc.latest
      <3>1. d.latest >= dc.latest
        BY <1>2 DEF Follows
      <3>2. QED
        BY <1>2, <2>1, <2>3, <2>5, <3>1
    <2>6. QED
      BY <2>4, <2>5 DEF Follows
  <1>8. Sees(q, d) # NoDC /\ Watching(q) => Sees(q, d) = d /\ Fits(q, d)
    <2>1. SUFFICES ASSUME IsDCRolledOut(d, r), pc[q] = "wait" PROVE Fits(q, d)
      BY DEF Sees, Watching
    <2>2. d.started > copy[q].latest
      BY <1>2, <1>3, <2>1 DEF IsDCRolledOut, DesiredRevision, Follows, Sound, Active
    <2>3. q \notin same => q \in d.deployed.changes
      BY <1>1, <1>6, <2>1, <2>2 DEF ChangeInv, Rests
    <2>4. QED
      BY <2>2, <2>3 DEF Fits
  <1>9. SeenInv(q)'
    BY <1>1, <1>2, <1>8 DEF Rests, ClientInv, SeenInv, Fits, Watching
  <1>10. WatchInv(q)'
    <2>1. SUFFICES ASSUME Watching(q), IsDCRolledOut(d, r) PROVE seen'[q] # NoDC
      BY <1>1 DEF WatchInv, Watching, Rests, IsDCRolledOut, DesiredRevision
    <2>2. d # NoDC
      BY <1>2, <2>1 DEF IsDCRolledOut, NoDC
    <2>3. QED
      BY <1>1, <2>1, <2>2 DEF Sees
  <1>11. QED
    BY <1>4, <1>5, <1>6, <1>7, <1>9, <1>10 DEF ClientInv

\* The same while the DeploymentConfig stays as it is.
LEMMA Sleeps ==
  ASSUME IInv, NEW q \in Clients, Rests(q), dc' = dc, seen'[q] = seen[q]
  PROVE  ClientInv(q)'
  <1>1. ClientInv(q)
    BY DEF IInv
  <1>2. PlaceInv(q)' /\ CopyInv(q)' /\ ChangeInv(q)' /\ ComingInv(q)' /\ BuildInv(q)'
    BY <1>1 DEF Rests, ClientInv, PlaceInv, CopyInv, ChangeInv, ComingInv, BuildInv
  <1>3. SeenInv(q)' /\ TimeoutInv(q)'
    BY <1>1 DEF Rests, ClientInv, SeenInv, Fits, TimeoutInv
  <1>4. WatchInv(q)'
    BY <1>1 DEF Rests, ClientInv, WatchInv, Watching, IsDCRolledOut, DesiredRevision
  <1>5. QED
    BY <1>2, <1>3, <1>4 DEF ClientInv

-----------------------------------------------------------------------------
(* The changes of the DeploymentConfig.                                    *)

LEMMA NextGeneration ==
  ASSUME NEW e \in DC
  PROVE  /\ Changed(e) \in DC
         /\ Changed(e).template = e.template /\ Changed(e).deployed = e.deployed
         /\ Changed(e).latest = e.latest /\ Changed(e).started = e.started
         /\ Changed(e).generation = e.generation + 1
         /\ Changed(e).observed = e.observed
  BY DCType DEF Changed, DC

LEMMA NextDeployment ==
  ASSUME NEW e \in DC
  PROVE  /\ Instantiated(e) \in DC
         /\ Instantiated(e).template = e.template /\ Instantiated(e).deployed = e.deployed
         /\ Instantiated(e).latest = e.latest + 1 /\ Instantiated(e).started = e.started
         /\ Instantiated(e).generation = e.generation + 1
         /\ Instantiated(e).observed = e.observed
  <1>1. Changed(e) \in DC /\ Changed(e).latest \in Nat
    BY NextGeneration, DCType
  <1>2. QED
    BY <1>1, NextGeneration DEF Instantiated, DC

LEMMA TemplateChanges ==
  ASSUME Sound(dc), NEW T \in Template, dc.template.changes \subseteq T.changes
  PROVE  LET d == Changed([dc EXCEPT !.template = T])
         IN  Follows(d) /\ Follows(Instantiated([dc EXCEPT !.template = T]))
  <1> DEFINE e == [dc EXCEPT !.template = T]
  <1>1. dc \in DC /\ dc.latest \in Nat /\ dc.started \in Nat
          /\ dc.generation \in Nat /\ dc.observed \in Nat
    BY DCType DEF Sound
  <1>2. /\ e \in DC /\ e.template = T /\ e.deployed = dc.deployed
        /\ e.latest = dc.latest /\ e.started = dc.started
        /\ e.generation = dc.generation /\ e.observed = dc.observed
    BY <1>1 DEF DC
  <1>3. /\ Changed(e) \in DC /\ Changed(e).template = T /\ Changed(e).deployed = dc.deployed
        /\ Changed(e).latest = dc.latest /\ Changed(e).started = dc.started
        /\ Changed(e).generation = dc.generation + 1 /\ Changed(e).observed = dc.observed
    BY <1>2, NextGeneration
  <1>4. Follows(Changed(e))
    BY <1>1, <1>3 DEF Sound, Follows
  <1> DEFINE f == Instantiated(e)
  <1>5. /\ f \in DC /\ f.template = T /\ f.deployed = dc.deployed
        /\ f.latest = dc.latest + 1 /\ f.started = dc.started
        /\ f.generation = dc.generation + 1 /\ f.observed = dc.observed
    BY <1>2, NextDeployment
  <1>6. Follows(f)
    BY <1>1, <1>5 DEF Sound, Follows
  <1>7. QED
    BY <1>4, <1>6

LEMMA DeploymentAsked ==
  ASSUME Sound(dc) PROVE Follows(Instantiated(dc))
  <1>1. [dc EXCEPT !.template = dc.template] = dc /\ dc.template \in Template
    BY DEF Sound, DC
  <1>2. QED
    BY <1>1, TemplateChanges

LEMMA ImageArrives ==
  ASSUME Sound(dc), NEW i \in 0..MaxImages
  PROVE  Follows(Instantiated([dc EXCEPT !.template.image = i]))
  <1> DEFINE T == [dc.template EXCEPT !.image = i]
  <1>1. T \in Template /\ T.changes = dc.template.changes
    BY DEF Sound, DC, Template
  <1>2. [dc EXCEPT !.template.image = i] = [dc EXCEPT !.template = T]
    OBVIOUS
  <1>3. QED
    BY <1>1, <1>2, TemplateChanges

LEMMA ControllerObserves ==
  ASSUME Sound(dc), dc.observed < dc.generation
  PROVE  /\ dc.started < dc.latest =>
              Follows([dc EXCEPT !.observed = dc.generation, !.started = dc.latest,
                                 !.deployed = dc.template,
                                 !.reason = "ReplicationControllerUpdated"])
         /\ ~(dc.started < dc.latest) => Follows([dc EXCEPT !.observed = dc.generation])
  <1> DEFINE d == [dc EXCEPT !.observed = dc.generation, !.started = dc.latest,
                             !.deployed = dc.template,
                             !.reason = "ReplicationControllerUpdated"]
             e == [dc EXCEPT !.observed = dc.generation]
  <1>1. dc \in DC /\ dc.latest \in Nat /\ dc.started \in Nat
          /\ dc.generation \in Nat /\ dc.observed \in Nat
    BY DCType DEF Sound
  <1>2. "ReplicationControllerUpdated" \in Reasons
    BY DEF Reasons
  <1>3. /\ d \in DC /\ d.template = dc.template /\ d.deployed = dc.template
        /\ d.latest = dc.latest /\ d.started = dc.latest
        /\ d.generation = dc.generation /\ d.observed = dc.generation
    BY <1>1, <1>2 DEF DC
  <1>4. /\ e \in DC /\ e.template = dc.template /\ e.deployed = dc.deployed
        /\ e.latest = dc.latest /\ e.started = dc.started
        /\ e.generation = dc.generation /\ e.observed = dc.generation
    BY <1>1 DEF DC
  <1>5. dc.started < dc.latest => Follows(d)
    BY <1>1, <1>3 DEF Sound, Follows
  <1>6. ~(dc.started < dc.latest) => Follows(e)
    BY <1>1, <1>4 DEF Sound, Follows
  <1>7. QED
    BY <1>5, <1>6

LEMMA RolloutReports ==
  ASSUME Sound(dc), NEW r \in Reasons PROVE Follows([dc EXCEPT !.reason = r])
  <1> DEFINE d == [dc EXCEPT !.reason = r]
  <1>1. dc \in DC /\ dc.latest \in Nat
    BY DCType DEF Sound
  <1>2. /\ d \in DC /\ d.template = dc.template /\ d.deployed = dc.deployed
        /\ d.latest = dc.latest /\ d.started = dc.started
        /\ d.generation = dc.generation /\ d.observed = dc.observed
    BY <1>1 DEF DC
  <1>3. QED
    BY <1>1, <1>2 DEF Sound, Follows

-----------------------------------------------------------------------------
(* Steps of the cluster and of others than the pushes.                     *)

\* A step in which every push only looks on.
LEMMA AllLookOn ==
  ASSUME IInv, Shape', \A q \in Clients : Rests(q), NEW d, Follows(d), Store(d)
  PROVE  IInv'
  BY LooksOn DEF IInv, Follows, Store

LEMMA ClusterKeeps == ASSUME IInv, ClusterStep PROVE IInv'
  <1>1. /\ Sound(dc) /\ images \in Nat /\ faults \in 0..MaxFaults /\ MaxFaults \in Nat
        /\ UNCHANGED <<source, same, pc, copy, build, lost, result, used>>
        /\ \A q \in Clients : Rests(q)
    BY BoundsAssumption DEF IInv, Shape, ClusterStep, Rests
  <1>2. ASSUME NEW d, Follows(d), Store(d), images' \in 0..MaxImages, faults' \in 0..MaxFaults
        PROVE  IInv'
    <2>1. Shape'
      BY <1>1, <1>2 DEF IInv, Shape, Store
    <2>2. QED
      BY <1>1, <1>2, <2>1, AllLookOn
  <1>3. CASE Trigger
    BY <1>1, <1>2, <1>3, DeploymentAsked DEF Trigger, IInv, Shape
  <1>4. CASE NewImage
    <2>1. images + 1 \in 0..MaxImages
      BY <1>1, <1>4, BoundsAssumption DEF NewImage
    <2>2. QED
      BY <1>1, <1>2, <1>4, <2>1, ImageArrives DEF NewImage
  <1>5. CASE Observe
    <2>1. UNCHANGED <<images, faults>> /\ images \in 0..MaxImages
      BY <1>5 DEF Observe, IInv, Shape
    <2>2. CASE dc.started < dc.latest
      BY <1>1, <1>2, <1>5, <2>1, <2>2, ControllerObserves DEF Observe
    <2>3. CASE ~(dc.started < dc.latest)
      BY <1>1, <1>2, <1>5, <2>1, <2>3, ControllerObserves DEF Observe
    <2>4. QED
      BY <2>2, <2>3
  <1>6. CASE RolloutEnds
    <2>1. images' \in 0..MaxImages /\ faults' \in 0..MaxFaults
      BY <1>1, <1>6 DEF RolloutEnds, Fault, IInv, Shape
    <2>2. \E r \in Reasons : Store([dc EXCEPT !.reason = r])
      BY <1>6 DEF RolloutEnds, Reasons
    <2>3. QED
      BY <1>1, <1>2, <2>1, <2>2, RolloutReports
  <1>7. QED
    BY <1>3, <1>4, <1>5, <1>6 DEF ClusterStep

-----------------------------------------------------------------------------
(* The steps of a push c, and what happens to it.                          *)

OthersRest(c) == \A q \in Clients \ {c} : Rests(q)

\* A step that leaves the DeploymentConfig alone.
LEMMA OwnStep ==
  ASSUME IInv, NEW c \in Clients, Shape', dc' = dc, OthersRest(c),
         \A q \in Clients \ {c} : seen'[q] = seen[q], ClientInv(c)'
  PROVE  IInv'
  BY Sleeps DEF IInv, OthersRest, Sound

\* A step that changes it.
LEMMA OwnChange ==
  ASSUME IInv, NEW c \in Clients, Shape', OthersRest(c), ClientInv(c)',
         NEW d, Follows(d), Store(d)
  PROVE  IInv'
  BY LooksOn DEF IInv, OthersRest, Follows, Store

\* Before its wait a push has not seen anything, and at its end it has not used
\* what it has not seen.
LEMMA NothingSeen ==
  ASSUME IInv, NEW c \in Clients
  PROVE  /\ pc[c] \notin {"wait", "done"} => seen[c] = NoDC
         /\ pc[c] # "done" => used[c] = NoDC
         /\ pc[c] # "done" <=> result[c] = "none"
         /\ ClientInv(c)
         /\ pc[c] \in Active => copy[c].latest \in Nat /\ copy[c].started \in Nat
         /\ dc.latest \in Nat /\ dc.started \in Nat
  BY DCType DEF IInv, ClientInv, SeenInv, PlaceInv, CopyInv, Sound

\* A push that ends without the DeploymentConfig of a wait.
LEMMA EndsKeeps ==
  ASSUME IInv, NEW c \in Clients, NEW r \in {"ok", "failed", "timeout", "panicked"},
         Ends(c, r), UNCHANGED <<source, same, dc, images, copy, build, lost, used>>,
         seen' = seen, faults' \in 0..MaxFaults, pc[c] # "done",
         r = "timeout" /\ Patient => c \in lost \/ copy[c].started < copy[c].latest
  PROVE  IInv'
  <1>1. /\ pc' = [pc EXCEPT ![c] = "done"] /\ result' = [result EXCEPT ![c] = r]
        /\ pc'[c] = "done" /\ result'[c] = r
    BY DEF Ends, Goto, IInv, Shape
  <1>2. Shape' /\ OthersRest(c)
    BY <1>1 DEF IInv, Shape, OthersRest, Rests
  <1>3. PlaceInv(c)' /\ CopyInv(c)' /\ ChangeInv(c)' /\ ComingInv(c)' /\ WatchInv(c)'
          /\ BuildInv(c)'
    BY <1>1 DEF PlaceInv, CopyInv, ChangeInv, ComingInv, WatchInv, Watching, BuildInv, Active
  <1>4. SeenInv(c)' /\ TimeoutInv(c)'
    BY <1>1, NothingSeen DEF ClientInv, SeenInv, Fits, TimeoutInv
  <1>5. QED
    BY <1>1, <1>2, <1>3, <1>4, OwnStep DEF ClientInv

LEMMA FaultType == ASSUME IInv, Fault PROVE faults' \in 0..MaxFaults
  BY BoundsAssumption DEF IInv, Shape, Fault

LEMMA RefusedKeeps == ASSUME IInv, NEW c \in Clients, Refused(c) PROVE IInv'
  BY EndsKeeps, FaultType DEF Refused, cluster

LEMMA BuildEndsKeeps == ASSUME IInv, NEW c \in Clients, BuildEnds(c) PROVE IInv'
  <1>1. /\ faults' \in 0..MaxFaults /\ build[c] = "Running"
        /\ \E b \in {"Complete", "Failed"} : build' = [build EXCEPT ![c] = b]
    BY FaultType DEF BuildEnds, IInv, Shape
  <1>2. Shape' /\ OthersRest(c)
    BY <1>1 DEF BuildEnds, cluster, IInv, Shape, OthersRest, Rests
  <1>3. BuildInv(c)'
    BY <1>1, NothingSeen DEF BuildEnds, ClientInv, BuildInv
  <1>4. PlaceInv(c)' /\ CopyInv(c)' /\ ChangeInv(c)' /\ ComingInv(c)' /\ SeenInv(c)' /\ TimeoutInv(c)'
    BY NothingSeen DEF BuildEnds, cluster, ClientInv, PlaceInv, CopyInv, ChangeInv, ComingInv,
                       SeenInv, Fits, TimeoutInv
  <1>5. WatchInv(c)'
    BY NothingSeen DEF BuildEnds, cluster, ClientInv, WatchInv, Watching, IsDCRolledOut,
                       DesiredRevision
  <1>6. QED
    BY <1>2, <1>3, <1>4, <1>5, OwnStep DEF ClientInv, BuildEnds, cluster

LEMMA LoseWatchKeeps == ASSUME IInv, NEW c \in Clients, LoseWatch(c) PROVE IInv'
  <1>1. lost' = lost \cup {c}
    BY DEF LoseWatch
  <1>2. Shape' /\ OthersRest(c)
    BY <1>1, FaultType DEF LoseWatch, cluster, IInv, Shape, OthersRest, Rests
  <1>3. PlaceInv(c)' /\ CopyInv(c)' /\ ChangeInv(c)' /\ ComingInv(c)' /\ SeenInv(c)'
    BY NothingSeen DEF LoseWatch, cluster, ClientInv, PlaceInv, CopyInv, ChangeInv, ComingInv,
                       SeenInv, Fits
  <1>4. BuildInv(c)' /\ TimeoutInv(c)' /\ WatchInv(c)'
    BY <1>1 DEF BuildInv, TimeoutInv, WatchInv, Watching
  <1>5. QED
    BY <1>2, <1>3, <1>4, OwnStep DEF ClientInv, LoseWatch, cluster

LEMMA ReadKeeps == ASSUME IInv, NEW c \in Clients, Read(c) PROVE IInv'
  <1>1. /\ copy' = [copy EXCEPT ![c] = dc] /\ copy'[c] = dc /\ pc[c] = "read"
        /\ pc'[c] \in {"build", "update"} /\ pc' = [pc EXCEPT ![c] = pc'[c]]
        /\ pc'[c] = "update" => source # "git"
        /\ UNCHANGED <<source, same, dc, images, seen, build, lost, result, used, faults>>
    BY DEF Read, Goto, cluster, IInv, Shape
  <1>2. Shape' /\ OthersRest(c)
    BY <1>1 DEF IInv, Shape, OthersRest, Rests, Sound, Active
  <1>3. ClientInv(c)'
    <2>1. seen'[c] = NoDC /\ used'[c] = NoDC /\ result'[c] = "none"
      BY <1>1, NothingSeen
    <2>2. PlaceInv(c)' /\ CopyInv(c)' /\ ChangeInv(c)' /\ ComingInv(c)' /\ BuildInv(c)'
      BY <1>1, <2>1, NothingSeen DEF PlaceInv, CopyInv, ChangeInv, ComingInv, BuildInv, IInv, Sound
    <2>3. SeenInv(c)' /\ WatchInv(c)' /\ TimeoutInv(c)'
      BY <1>1, <2>1 DEF SeenInv, Fits, WatchInv, Watching, TimeoutInv
    <2>4. QED
      BY <2>2, <2>3 DEF ClientInv
  <1>4. QED
    BY <1>1, <1>2, <1>3, OwnStep

\* A push of a git component goes on to the next call.
LEMMA GoesOn ==
  ASSUME IInv, NEW c \in Clients, NEW next \in {"follow log", "wait build", "update"},
         Goto(c, next), pc[c] \in {"build", "follow log", "wait build"}, Shape',
         UNCHANGED <<source, same, dc, images, seen, copy, lost, result, used>>,
         \A q \in Clients \ {c} : build'[q] = build[q],
         next = "update" => build'[c] = "Complete" \/ c \in lost
  PROVE  IInv'
  <1>1. pc' = [pc EXCEPT ![c] = next] /\ pc'[c] = next
    BY DEF Goto, IInv, Shape
  <1>2. OthersRest(c)
    BY <1>1 DEF OthersRest, Rests, IInv, Shape
  <1>3. seen'[c] = NoDC /\ used'[c] = NoDC /\ result'[c] = "none" /\ copy'[c] = copy[c]
    BY NothingSeen
  <1>4. PlaceInv(c)' /\ CopyInv(c)' /\ ChangeInv(c)' /\ ComingInv(c)' /\ BuildInv(c)'
    BY <1>1, <1>3, NothingSeen DEF ClientInv, PlaceInv, CopyInv, ChangeInv, ComingInv, BuildInv, Active
  <1>5. SeenInv(c)' /\ WatchInv(c)' /\ TimeoutInv(c)'
    BY <1>1, <1>3 DEF SeenInv, Fits, WatchInv, Watching, TimeoutInv
  <1>6. QED
    BY <1>2, <1>4, <1>5, OwnStep DEF ClientInv

LEMMA StartBuildKeeps == ASSUME IInv, NEW c \in Clients, StartBuild(c) PROVE IInv'
  <1>1. Shape'
    BY DEF StartBuild, Goto, cluster, IInv, Shape, Active
  <1>2. QED
    BY <1>1, GoesOn DEF StartBuild, cluster, IInv, Shape

LEMMA FollowKeeps == ASSUME IInv, NEW c \in Clients, FollowBuildLog(c) PROVE IInv'
  <1>1. faults' \in 0..MaxFaults
    BY FaultType DEF FollowBuildLog, IInv, Shape
  <1>2. CASE Goto(c, "wait build") /\ UNCHANGED result
    <2>1. Shape'
      BY <1>1, <1>2 DEF FollowBuildLog, Goto, cluster, IInv, Shape, Active
    <2>2. QED
      BY <1>2, <2>1, GoesOn DEF FollowBuildLog, cluster
  <1>3. CASE Ends(c, "failed")
    BY <1>1, <1>3, EndsKeeps DEF FollowBuildLog, cluster
  <1>4. QED
    BY <1>2, <1>3 DEF FollowBuildLog

LEMMA WaitBuildKeeps == ASSUME IInv, NEW c \in Clients, WaitForBuildToFinish(c) PROVE IInv'
  <1>1. faults' \in 0..MaxFaults
    BY DEF WaitForBuildToFinish, IInv, Shape
  <1>2. CASE (build[c] = "Complete" \/ c \in lost) /\ Goto(c, "update") /\ UNCHANGED result
    <2>1. Shape'
      BY <1>1, <1>2 DEF WaitForBuildToFinish, Goto, cluster, IInv, Shape, Active
    <2>2. QED
      BY <1>2, <2>1, GoesOn DEF WaitForBuildToFinish, cluster
  <1>3. CASE Ends(c, "failed")
    BY <1>1, <1>3, EndsKeeps DEF WaitForBuildToFinish, cluster
  <1>4. QED
    BY <1>2, <1>3 DEF WaitForBuildToFinish

\* The template a push writes has its change, unless there is nothing to change.
LEMMA PatchedType ==
  ASSUME NEW c \in Clients, copy[c] \in DC
  PROVE  /\ Patched(c) \in Template
         /\ copy[c].template.changes \subseteq Patched(c).changes
         /\ c \notin same => c \in Patched(c).changes
         /\ Patched(c) # copy[c].template => c \notin same /\ c \notin copy[c].template.changes
  <1> DEFINE old == copy[c].template
             new == [old EXCEPT !.changes = @ \cup {c}]
  <1>1. old \in Template
    BY DCType
  <1>2. new \in Template /\ new.changes = old.changes \cup {c} /\ new.image = old.image
    BY <1>1 DEF Template
  <1>3. c \in old.changes => new = old
    BY <1>1, <1>2 DEF Template
  <1>4. QED
    BY <1>1, <1>2, <1>3 DEF Patched

\* An update that is accepted: what the push has read is what there is.
LEMMA AcceptedKeeps ==
  ASSUME IInv, NEW c \in Clients, pc[c] = "update", dc = copy[c],
         NEW next \in {"deploy", "watch"}, Goto(c, next),
         next = "watch" => Patched(c) # copy[c].template,
         UNCHANGED <<source, same, images, copy, build, lost, result, used, faults>>,
         NEW d, dc' = d, d.template = Patched(c), d.started = dc.started,
         d.latest = dc.latest, d.deployed = dc.deployed, seen'[c] = NoDC, DOMAIN seen' = Clients
  PROVE  Shape' /\ OthersRest(c) /\ ClientInv(c)'
  <1>1. pc' = [pc EXCEPT ![c] = next] /\ pc'[c] = next
    BY DEF Goto, IInv, Shape
  <1>2. Shape' /\ OthersRest(c)
    BY <1>1 DEF IInv, Shape, OthersRest, Rests, Active
  <1>3. /\ copy[c] \in DC /\ used'[c] = NoDC /\ result'[c] = "none" /\ Sound(dc)
        /\ dc.latest \in Nat /\ dc.started \in Nat
    BY NothingSeen DEF IInv, Sound
  <1>4. PlaceInv(c)' /\ CopyInv(c)'
    BY <1>1, <1>3 DEF PlaceInv, CopyInv
  <1>5. ChangeInv(c)'
    BY <1>1, <1>3, PatchedType DEF ChangeInv, Sound
  <1>6. ComingInv(c)'
    BY <1>1, <1>3, PatchedType DEF ComingInv, Sound
  <1>7. SeenInv(c)' /\ WatchInv(c)' /\ TimeoutInv(c)'
    BY <1>1, <1>3 DEF SeenInv, Fits, WatchInv, Watching, TimeoutInv
  <1>8. BuildInv(c)'
    BY <1>1, NothingSeen DEF ClientInv, BuildInv
  <1>9. QED
    BY <1>2, <1>4, <1>5, <1>6, <1>7, <1>8 DEF ClientInv

LEMMA UpdateKeeps == ASSUME IInv, NEW c \in Clients, Update(c) PROVE IInv'
  <1>1. /\ pc[c] = "update" /\ faults' \in 0..MaxFaults /\ seen[c] = NoDC
        /\ copy[c] \in DC /\ DOMAIN seen = Clients
        /\ UNCHANGED <<source, same, images, copy, build, lost, used, faults>>
    BY NothingSeen DEF Update, IInv, Shape, CopyInv, ClientInv, Active
  <1>2. CASE dc # copy[c]
    BY <1>1, <1>2, EndsKeeps DEF Update
  <1>3. CASE dc = copy[c] /\ Patched(c) = dc.template
    <2>1. dc' = dc /\ seen' = seen
      BY <1>3 DEF Update
    <2>2. CASE Ends(c, "ok")
      BY <1>1, <2>1, <2>2, EndsKeeps
    <2>3. CASE Goto(c, "deploy") /\ UNCHANGED result
      BY <1>1, <1>3, <2>1, <2>3, AcceptedKeeps, OwnStep
    <2>4. QED
      BY <1>3, <2>2, <2>3 DEF Update, NeedsWait
  <1>4. CASE dc = copy[c] /\ Patched(c) # dc.template
    <2> DEFINE e == [dc EXCEPT !.template = Patched(c)]
               d == Changed(e)
    <2>1. Store(d) /\ UNCHANGED result
      BY <1>4 DEF Update, NeedsWait
    <2>2. \E next \in {"deploy", "watch"} : Goto(c, next)
      BY <1>4 DEF Update, NeedsWait
    <2>3. Sound(dc) /\ Patched(c) \in Template /\ dc.template.changes \subseteq Patched(c).changes
      BY <1>1, <1>4, PatchedType DEF IInv
    <2>4. Follows(d)
      BY <2>3, TemplateChanges
    <2>5. /\ e \in DC /\ e.template = Patched(c) /\ e.started = dc.started
          /\ e.latest = dc.latest /\ e.deployed = dc.deployed
      BY <2>3 DEF Sound, DC
    <2>6. /\ d.template = Patched(c) /\ d.started = dc.started
          /\ d.latest = dc.latest /\ d.deployed = dc.deployed
      BY <2>5, NextGeneration
    <2>7. seen'[c] = NoDC /\ dc' = d /\ DOMAIN seen' = Clients
      BY <1>1, <2>1 DEF Store, Watching
    <2>8. Shape' /\ OthersRest(c) /\ ClientInv(c)'
      BY <1>1, <1>4, <2>1, <2>2, <2>6, <2>7, AcceptedKeeps
    <2>9. QED
      BY <2>1, <2>4, <2>8, OwnChange
  <1>5. QED
    BY <1>2, <1>3, <1>4

LEMMA StartDeploymentKeeps == ASSUME IInv, NEW c \in Clients, StartDeployment(c) PROVE IInv'
  <1> DEFINE d == Instantiated(dc)
  <1>1. /\ pc[c] = "deploy" /\ pc' = [pc EXCEPT ![c] = "watch"] /\ pc'[c] = "watch"
        /\ UNCHANGED <<source, same, images, copy, build, lost, result, used, faults>>
        /\ Store(d) /\ dc' = d
    BY DEF StartDeployment, Goto, Store, IInv, Shape
  <1>2. /\ Follows(d) /\ d.latest = dc.latest + 1 /\ d.started = dc.started
        /\ d.template = dc.template /\ d.deployed = dc.deployed /\ d \in DC
    BY DeploymentAsked, NextDeployment DEF IInv, Sound
  <1>3. /\ seen'[c] = NoDC /\ used'[c] = NoDC /\ result'[c] = "none" /\ DOMAIN seen' = Clients
        /\ copy[c] \in DC /\ copy[c].latest <= dc.latest /\ copy[c].started <= dc.started
        /\ copy[c].latest \in Nat /\ copy[c].started \in Nat /\ dc.latest \in Nat /\ dc.started \in Nat
    BY <1>1, NothingSeen DEF Store, Watching, IInv, Shape, ClientInv, CopyInv, Active
  <1>4. Shape' /\ OthersRest(c)
    BY <1>1, <1>3 DEF IInv, Shape, OthersRest, Rests, Active
  <1>5. PlaceInv(c)' /\ CopyInv(c)' /\ ComingInv(c)'
    BY <1>1, <1>2, <1>3 DEF PlaceInv, CopyInv, ComingInv
  <1>6. ChangeInv(c)'
    BY <1>1, <1>2, <1>3, NothingSeen DEF ClientInv, ChangeInv
  <1>7. SeenInv(c)' /\ WatchInv(c)' /\ TimeoutInv(c)' /\ BuildInv(c)'
    BY <1>1, <1>3 DEF SeenInv, Fits, WatchInv, Watching, TimeoutInv, BuildInv
  <1>8. QED
    BY <1>1, <1>2, <1>4, <1>5, <1>6, <1>7, OwnChange DEF ClientInv

\* What ends the wait of a push has its change.
LEMMA SeenFits ==
  ASSUME IInv, NEW c \in Clients, pc[c] \in {"watch", "wait"},
         IsDCRolledOut(dc, DesiredRevision(c))
  PROVE  Fits(c, dc)
  <1>1. Sound(dc) /\ ChangeInv(c) /\ copy[c].latest \in Nat
    BY NothingSeen DEF IInv, ClientInv, Active
  <1>2. dc.latest \in Nat /\ dc.started \in Nat /\ dc.generation \in Nat /\ dc.observed \in Nat
    BY <1>1, DCType DEF Sound
  <1>3. dc.started > copy[c].latest
    BY <1>1, <1>2 DEF IsDCRolledOut, DesiredRevision, Sound
  <1>4. QED
    BY <1>1, <1>3 DEF ChangeInv, Fits

LEMMA WatchKeeps == ASSUME IInv, NEW c \in Clients, Watch(c) PROVE IInv'
  <1>1. /\ pc[c] = "watch"
        /\ UNCHANGED <<source, same, dc, images, copy, build, used>>
    BY DEF Watch
  <1>2. CASE Fault /\ Ends(c, "panicked") /\ UNCHANGED <<seen, lost>>
    BY <1>1, <1>2, FaultType, EndsKeeps
  <1>3. CASE /\ seen' = [seen EXCEPT ![c] = Sees(c, dc)]
             /\ lost' = lost \ {c}
             /\ Goto(c, "wait")
             /\ UNCHANGED <<result, faults>>
    <2>1. pc' = [pc EXCEPT ![c] = "wait"] /\ pc'[c] = "wait" /\ seen'[c] = Sees(c, dc)
      BY <1>3 DEF Goto, IInv, Shape
    <2>2. Shape' /\ OthersRest(c)
      BY <1>1, <1>3, <2>1 DEF IInv, Shape, OthersRest, Rests, Active
    <2>3. /\ used'[c] = NoDC /\ result'[c] = "none" /\ ClientInv(c) /\ dc \in DC
          /\ dc.latest \in Nat
      BY <1>1, <1>3, NothingSeen DEF IInv, Sound
    <2>4. PlaceInv(c)' /\ CopyInv(c)' /\ ChangeInv(c)' /\ ComingInv(c)' /\ BuildInv(c)' /\ TimeoutInv(c)'
      BY <1>1, <2>1, <2>3 DEF ClientInv, PlaceInv, CopyInv, ChangeInv, ComingInv, BuildInv,
                              TimeoutInv, Active
    <2>5. SeenInv(c)'
      BY <1>1, <2>1, <2>3, SeenFits DEF SeenInv, Fits, Sees
    <2>6. WatchInv(c)'
      BY <1>1, <2>1, <2>3 DEF WatchInv, Sees, IsDCRolledOut, DesiredRevision, NoDC
    <2>7. QED
      BY <1>1, <1>3, <2>2, <2>4, <2>5, <2>6, OwnStep DEF ClientInv
  <1>4. QED
    BY <1>2, <1>3 DEF Watch

LEMMA WaitKeeps == ASSUME IInv, NEW c \in Clients, WaitAndGetDC(c) PROVE IInv'
  <1>1. /\ pc[c] = "wait" /\ seen[c] # NoDC
        /\ pc' = [pc EXCEPT ![c] = "done"] /\ pc'[c] = "done"
        /\ result' = [result EXCEPT ![c] = "ok"] /\ result'[c] = "ok"
        /\ used' = [used EXCEPT ![c] = seen[c]] /\ used'[c] = seen[c]
        /\ UNCHANGED <<source, same, dc, images, seen, copy, build, lost, faults>>
    BY DEF WaitAndGetDC, Ends, Goto, cluster, IInv, Shape
  <1>2. Shape' /\ OthersRest(c)
    BY <1>1 DEF IInv, Shape, OthersRest, Rests
  <1>3. PlaceInv(c)' /\ CopyInv(c)' /\ ChangeInv(c)' /\ ComingInv(c)' /\ WatchInv(c)'
          /\ BuildInv(c)' /\ TimeoutInv(c)'
    BY <1>1 DEF PlaceInv, CopyInv, ChangeInv, ComingInv, WatchInv, Watching, BuildInv, Active,
                TimeoutInv
  <1>4. SeenInv(c)'
    BY <1>1, NothingSeen DEF ClientInv, SeenInv, Fits
  <1>5. QED
    BY <1>1, <1>2, <1>3, <1>4, OwnStep DEF ClientInv

\* A push that waits while nothing more can happen has lost its watch: an open
\* one would have shown it the DeploymentConfig there is.
LEMMA TimesOutKeeps == ASSUME IInv, NEW c \in Clients, TimesOut(c) PROVE IInv'
  <1>1. ASSUME Patient, c \notin lost PROVE copy[c].started < copy[c].latest
    <2>1. /\ pc[c] = "wait" /\ seen[c] = NoDC
          /\ dc.template = dc.deployed /\ dc.latest = dc.started
          /\ dc.observed = dc.generation /\ dc.reason # "ReplicationControllerUpdated"
      BY <1>1 DEF TimesOut, Settled
    <2>2. /\ ComingInv(c) /\ WatchInv(c) /\ Sound(dc) /\ copy[c].latest \in Nat
          /\ dc.latest \in Nat /\ dc.observed \in Nat
      BY <2>1, NothingSeen, DCType DEF ClientInv, Active, IInv, Sound
    <2>3. SUFFICES ASSUME dc.latest > copy[c].latest PROVE FALSE
      BY <2>1, <2>2 DEF ComingInv
    <2>4. dc.reason \in Failures \cup {Available}
      BY <2>1, <2>2 DEF Sound, DC, Reasons
    <2>5. IsDCRolledOut(dc, DesiredRevision(c))
      BY <2>1, <2>2, <2>3, <2>4 DEF IsDCRolledOut, DesiredRevision
    <2>6. QED
      BY <1>1, <2>1, <2>2, <2>5 DEF WatchInv, Watching
  <1>2. faults' \in 0..MaxFaults
    BY DEF TimesOut, IInv, Shape
  <1>3. QED
    BY <1>1, <1>2, EndsKeeps DEF TimesOut, cluster

-----------------------------------------------------------------------------
(* The theorems.                                                           *)

LEMMA InitIInv == Init => IInv
  <1> SUFFICES ASSUME Init PROVE IInv
    OBVIOUS
  <1>1. PICK v \in {0, 1} :
          dc = [template |-> [changes |-> {}, image |-> 0],
                deployed |-> [changes |-> {}, image |-> 0],
                latest |-> v, started |-> v, generation |-> 1, observed |-> 1,
                reason |-> Available]
    BY DEF Init
  <1>2. [changes |-> {}, image |-> 0] \in Template
    BY BoundsAssumption DEF Template
  <1>3. dc \in DC
    BY <1>1, <1>2 DEF DC, Reasons
  <1>4. Sound(dc)
    BY <1>1, <1>3 DEF Sound
  <1>5. Shape
    BY BoundsAssumption DEF Init, Shape
  <1>6. ASSUME NEW c \in Clients PROVE ClientInv(c)
    BY DEF Init, ClientInv, PlaceInv, CopyInv, ChangeInv, ComingInv, SeenInv, Fits, WatchInv,
           Watching, BuildInv, TimeoutInv, Active
  <1>7. QED
    BY <1>4, <1>5, <1>6 DEF IInv

LEMMA StutterKeeps == ASSUME IInv, UNCHANGED vars PROVE IInv'
  <1>1. Shape' /\ dc' = dc /\ \A q \in Clients : Rests(q) /\ seen'[q] = seen[q]
    BY DEF vars, cluster, IInv, Shape, Rests
  <1>2. QED
    BY <1>1, Sleeps DEF IInv, Sound

LEMMA Inductive == IInv /\ [Next]_vars => IInv'
  <1> SUFFICES ASSUME IInv, [Next]_vars PROVE IInv'
    OBVIOUS
  <1>1. CASE ClusterStep
    BY <1>1, ClusterKeeps
  <1>2. ASSUME NEW c \in Clients, BuildEnds(c) \/ LoseWatch(c) \/ Refused(c) PROVE IInv'
    BY <1>2, BuildEndsKeeps, LoseWatchKeeps, RefusedKeeps
  <1>3. ASSUME NEW c \in Clients, PushStep(c) PROVE IInv'
    BY <1>3, ReadKeeps, StartBuildKeeps, FollowKeeps, WaitBuildKeeps, UpdateKeeps,
       StartDeploymentKeeps, WatchKeeps, WaitKeeps, TimesOutKeeps DEF PushStep
  <1>4. CASE UNCHANGED vars
    BY <1>4, StutterKeeps
  <1>5. QED
    BY <1>1, <1>2, <1>3, <1>4 DEF Next

LEMMA Invariance == Spec => []IInv
  BY InitIInv, Inductive, PTL DEF Spec

\* The types, and that a DeploymentConfig is never ahead of what was asked for.
THEOREM TypeCorrect == Spec => []TypeOK
  <1>1. IInv => TypeOK
    BY DEF IInv, Shape, Sound, ClientInv, PlaceInv, SeenInv, Active, TypeOK
  <1>2. QED
    BY <1>1, Invariance, PTL

\* WaitAndGetDC of PatchCurrentDC: whoever else pushes, and whatever deployments
\* the triggers start, a push that waited ends with a deployment that has its
\* change and is newer than the one it began with.
THEOREM RolloutHasTheChange == Spec => []RolledOutHasChange
  <1>1. IInv => RolledOutHasChange
    BY DEF IInv, ClientInv, SeenInv, Fits, RolledOutHasChange
  <1>2. QED
    BY <1>1, Invariance, PTL

\* WaitForBuildToFinish: no deployment is asked for after a build that failed or
\* still runs, unless the watch of the build was lost.
THEOREM FailedBuildsAreNotDeployed == Spec => []FailedBuildIsNotDeployed
  <1>1. IInv => FailedBuildIsNotDeployed
    BY DEF IInv, ClientInv, BuildInv, FailedBuildIsNotDeployed
  <1>2. QED
    BY <1>1, Invariance, PTL

\* With a timeout that is long enough, a push times out only if it lost its
\* watch or met a deployment that was asked for and not started.
THEOREM PatientTimeouts == ASSUME Patient PROVE Spec => []TimeoutMeansLostWatch
  <1>1. IInv => TimeoutMeansLostWatch
    BY DEF IInv, ClientInv, TimeoutInv, TimeoutMeansLostWatch
  <1>2. QED
    BY <1>1, Invariance, PTL

=============================================================================
