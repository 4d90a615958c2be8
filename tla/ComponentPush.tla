--------------------------- MODULE ComponentPush ---------------------------
(***************************************************************************)
(* `odo push` and `odo delete` of one component: pkg/component             *)
(* (CreateComponent, Update, ApplyConfig, Delete), pkg/storage (Push),     *)
(* pkg/url and the calls of pkg/occlient they make.                        *)
(*                                                                         *)
(* A command is a sequence of API calls.  Each call is a step, and between *)
(* two of them the command may be stopped for good (an error of the API, a *)
(* timeout, ^C) or another client may link or unlink a secret.  The        *)
(* commands of ONE user follow each other, each push with a configuration  *)
(* of its own: the local file is only edited between commands.             *)
(*                                                                         *)
(* Abstracted: the path of a storage stands for its name (the file holds   *)
(* each path once), "local" stands for local and binary sources, and a     *)
(* group of reads that no other client can disturb is a single step.       *)
(* Pushes are plain ones: --config and --source, which leave a part of the *)
(* push out, are not modelled.                                             *)
(***************************************************************************)
EXTENDS Naturals, Sequences, FiniteSets, Functions, RangeLoop

CONSTANTS
  Sources,     \* the kinds of source the user's configurations use
  Storages,    \* names of storages
  Sizes,       \* sizes of storages, as users write them
  Canonical,   \* how the cluster writes a size, or None for one it refuses
  Urls,        \* names of URLs
  Ports,       \* ports of URLs
  Envs,        \* sets of environment variables, each taken as one value
  Refs,        \* references of the git repository
  Secrets,     \* secrets that links name
  None,        \* no size, no port, no environment variables, no reference
  MaxFaults    \* bound on the commands or calls that fail

ASSUME SourcesAssumption == Sources \subseteq {"local", "git"}
ASSUME NoneAssumption    == None \notin Sizes \cup Ports \cup Envs \cup Refs
\* ParseQuantity and Quantity.String: "1024Mi" comes back as "1Gi".
ASSUME SizesAssumption ==
  /\ Canonical \in [Sizes \cup {None} -> Sizes \cup {None}]
  /\ Canonical[None] = None
  /\ \A z \in Sizes : Canonical[Canonical[z]] = Canonical[z]
ASSUME FaultsAssumption  == MaxFaults \in Nat
ASSUME StoragesAssumption == IsFiniteSet(Storages)

VARIABLES
  dc,        \* the DeploymentConfig; its source is an annotation
  pvc,       \* the size of each storage's PersistentVolumeClaim, or None
  routes,    \* the port of each URL's Route, or None
  build,     \* the reference the BuildConfig builds; {} without BuildConfig
  objects,   \* which of the other objects of the component exist
  pc,        \* the API call the user's command makes next; "idle" without one
  want,      \* the configuration of the push, and of the last one when idle
  left,      \* what the loop the push is in has still to visit
  seen,      \* the DeploymentConfig the push has read
  fresh,     \* nobody has written the DeploymentConfig since it was read
  result,    \* how the last command ended, or how the running one fares
  clean,     \* ghost: no command has stopped halfway
  faults     \* failures so far

cluster == <<dc, pvc, routes, build, objects>>
command == <<want, left, seen, fresh>>
vars    == <<dc, pvc, routes, build, objects, pc, want, left, seen, fresh,
             result, clean, faults>>

-----------------------------------------------------------------------------
(* Data.                                                                   *)

\* The sizes that a claim can have.
Quantities == {z \in Sizes : Canonical[z] = z}

Partial(S, T) == [S -> T \cup {None}]
Defined(f)    == {x \in DOMAIN f : f[x] # None}

Config == [source : Sources, storage : Partial(Storages, Sizes),
           urls : Partial(Urls, Ports), env : Envs \cup {None},
           ref : Refs \cup {None}]

DC   == [source : {"none", "local", "git"}, mounts : Seq(Storages),
         env : Envs \cup {None}, links : SUBSET Secrets]
NoDC == [source |-> "none", mounts |-> <<>>, env |-> None, links |-> {}]

Deployed   == dc.source # "none"
Mounted(d) == Range(d.mounts)

\* The objects that exist once or not at all.  "root" is the claim of the
\* volume that supervisord and the sources of a local component live in.
Objects == {"imageStream", "service", "secrets", "root"}

\* component.Exists reads every component of the application, and storage.List
\* fails on a mount whose claim is gone (it forgives the root volume).
Readable(d) == \A s \in Mounted(d) : pvc[s] # None

\* The pod can start: every claim that it mounts exists.
PodCanRun == /\ Readable(dc)
             /\ dc.source = "local" => "root" \in objects

Kinds == <<"DeploymentConfigs", "Routes", "BuildConfigs", "ImageStreams",
           "Services", "PersistentVolumeClaims", "Secrets">>

PushSteps == {"exists", "storageDelete", "storageCreate", "imageStream",
              "createBuildConfig", "createDC", "service", "secrets", "getDC",
              "updateBuildConfig", "deleteBuildConfig", "root", "build",
              "patchDC", "rollout", "deleteRoot", "urlCreate", "urlDelete",
              "source"}

TypeOK ==
  /\ dc \in DC /\ seen \in DC
  /\ pvc \in Partial(Storages, Quantities)
  /\ routes \in Partial(Urls, Ports)
  /\ build \in SUBSET (Refs \cup {None}) /\ Cardinality(build) <= 1
  /\ objects \subseteq Objects
  /\ pc \in PushSteps \cup Range(Kinds) \cup {"idle", "find"}
  /\ want \in Config
  /\ left \subseteq Storages \cup Urls
  /\ fresh \in BOOLEAN /\ clean \in BOOLEAN
  /\ result \in {"none", "running", "pushed", "deleted", "failed"}
  /\ faults \in 0..MaxFaults

Init ==
  /\ dc = NoDC /\ seen = NoDC
  /\ pvc = [s \in Storages |-> None]
  /\ routes = [u \in Urls |-> None]
  /\ build = {} /\ objects = {}
  /\ pc = "idle" /\ want \in Config /\ left = {}
  /\ fresh = FALSE /\ clean = TRUE
  /\ result = "none" /\ faults = 0

-----------------------------------------------------------------------------
(* How a command ends.                                                     *)

EndsWith(r) ==
  /\ pc' = "idle" /\ result' = r
  /\ left' = {} /\ seen' = NoDC /\ fresh' = FALSE
  /\ UNCHANGED want

\* A push that fails before it has changed anything leaves no trace.
Fails ==
  /\ EndsWith("failed")
  /\ clean' = (clean /\ pc \in {"exists", "find"})
  /\ UNCHANGED faults

Goto(next) == /\ pc' = next
              /\ UNCHANGED <<result, clean, faults>>

\* The loop of this step goes on.
Visit(x) == left' = left \ {x} /\ Goto(pc)

-----------------------------------------------------------------------------
(* Storage: storage.Push.                                                  *)

ToMount(d)   == Defined(want.storage) \ Mounted(d)
ToUnmount(d) == Mounted(d) \ Defined(want.storage)

\* What follows the storage of a new component, or of one that exists.
AfterStorage == IF Deployed THEN "getDC" ELSE "imageStream"

StorageCreateFrom ==
  /\ left' = ToMount(dc)
  /\ Goto(IF ToMount(dc) = {} THEN AfterStorage ELSE "storageCreate")

\* Mutant: a storage of another size is replaced by a new one.
StorageDelete_Resizes(s) ==
  /\ pc = "storageDelete" /\ s \in left
  /\ pvc' = [pvc EXCEPT ![s] = Canonical[want.storage[s]]]
  /\ IF left = {s} THEN StorageCreateFrom ELSE Visit(s)
  /\ UNCHANGED <<dc, routes, build, objects, want, seen, fresh>>

\* A mounted storage that the configuration no longer has: its claim is
\* deleted now, although the DeploymentConfig still mounts it.  One with
\* another size ends the push, whatever was deleted before it, and so does one
\* of the same size that the configuration does not write as the cluster does.
StorageDelete(s) ==
  /\ pc = "storageDelete" /\ s \in left
  /\ \/ /\ want.storage[s] \notin {None, pvc[s]}
        /\ Fails
        /\ UNCHANGED pvc
     \/ /\ want.storage[s] \in {None, pvc[s]}
        /\ pvc' = IF want.storage[s] = None THEN [pvc EXCEPT ![s] = None]
                                            ELSE pvc
        /\ IF left = {s} THEN StorageCreateFrom
                         ELSE Visit(s)
        /\ UNCHANGED <<want, seen, fresh>>
  /\ UNCHANGED <<dc, routes, build, objects>>

\* CreatePVC parses the size, and asks for a claim that must not exist yet.
StorageCreate(s) ==
  /\ pc = "storageCreate" /\ s \in left
  /\ IF pvc[s] # None \/ Canonical[want.storage[s]] = None
     THEN Fails /\ UNCHANGED pvc
     ELSE /\ pvc' = [pvc EXCEPT ![s] = Canonical[want.storage[s]]]
          /\ IF left = {s} THEN left' = {} /\ Goto(AfterStorage)
                           ELSE Visit(s)
          /\ UNCHANGED <<want, seen, fresh>>
  /\ UNCHANGED <<dc, routes, build, objects>>

-----------------------------------------------------------------------------
(* A push begins: PushOptions.Validate and                                 *)
(* createCmpIfNotExistsAndApplyCmpConfig.                                  *)

Push(c) ==
  /\ pc = "idle"
  /\ pc' = "exists" /\ want' = c /\ result' = "running"
  /\ UNCHANGED <<cluster, left, seen, fresh, clean, faults>>

CheckExists ==
  /\ pc = "exists"
  /\ \/ /\ ~Readable(dc)
        /\ Fails
     \/ /\ Readable(dc)
        /\ IF Mounted(dc) = {} THEN StorageCreateFrom
                               ELSE left' = Mounted(dc) /\ Goto("storageDelete")
        /\ UNCHANGED <<want, seen, fresh>>
  /\ UNCHANGED cluster

-----------------------------------------------------------------------------
(* Creating a component: CreateComponent, NewAppS2I for git and            *)
(* BootstrapSupervisoredS2I for local sources.                             *)

\* Create an object that must not exist yet.
CreateObject(o, next) ==
  /\ IF o \in objects
     THEN Fails /\ UNCHANGED objects                      \* AlreadyExists
     ELSE /\ objects' = objects \cup {o}
          /\ Goto(next)
          /\ UNCHANGED command
  /\ UNCHANGED <<dc, pvc, routes, build>>

CreateImageStream ==
  /\ pc = "imageStream"
  /\ CreateObject("imageStream",
        IF want.source = "git" THEN "createBuildConfig" ELSE "createDC")

CreateBuildConfig ==
  /\ pc = "createBuildConfig"
  /\ IF build # {}
     THEN Fails /\ UNCHANGED build                        \* AlreadyExists
     ELSE /\ build' = {want.ref}
          /\ Goto(IF Deployed THEN "build" ELSE "createDC")
          /\ UNCHANGED command
  /\ UNCHANGED <<dc, pvc, routes, objects>>

\* The new mounts are appended in the order of a Go map: any order.
Orders(S) == {f \in [1..Cardinality(S) -> S] : Range(f) = S}

CreateDC ==
  /\ pc = "createDC"
  /\ \E order \in Orders(ToMount(NoDC)) :
        dc' = [source |-> want.source, mounts |-> order,
               env |-> want.env, links |-> {}]
  /\ Goto("service")
  /\ UNCHANGED <<pvc, routes, build, objects, command>>

CreateService == pc = "service" /\ CreateObject("service", "secrets")

\* createSecrets: one secret for each port.
CreateSecrets ==
  /\ pc = "secrets"
  /\ CreateObject("secrets", IF want.source = "git" THEN "build" ELSE "root")

-----------------------------------------------------------------------------
(* URLs: ApplyConfigCreateURL, then applyConfigDeleteURL.                  *)

\* The end of a push: local sources are copied to the pod at the end.
AfterUrls ==
  IF want.source = "local"
  THEN /\ Goto("source")
       /\ left' = {} /\ UNCHANGED <<want, seen, fresh>>
  ELSE EndsWith("pushed") /\ UNCHANGED <<clean, faults>>

Surplus(r) == Defined(r) \ Defined(want.urls)

UrlDeleteFrom(r) ==
  IF Surplus(r) = {}
  THEN AfterUrls
  ELSE /\ left' = Surplus(r)
       /\ Goto("urlDelete")
       /\ UNCHANGED <<want, seen, fresh>>

\* Mutant: nothing is done for a configuration without URLs.
UrlsFrom_OnlyWithUrls ==
  IF Defined(want.urls) = {}
  THEN AfterUrls
  ELSE /\ left' = Defined(want.urls)
       /\ Goto("urlCreate")
       /\ UNCHANGED <<want, seen, fresh>>

UrlsFrom ==
  IF Defined(want.urls) = {}
  THEN UrlDeleteFrom(routes)
  ELSE /\ left' = Defined(want.urls)
       /\ Goto("urlCreate")
       /\ UNCHANGED <<want, seen, fresh>>

\* A URL that exists under its name is left alone, whatever its port.
UrlCreated(u) ==
  IF routes[u] # None THEN routes ELSE [routes EXCEPT ![u] = want.urls[u]]

UrlCreate(u) ==
  /\ pc = "urlCreate" /\ u \in left
  /\ routes' = UrlCreated(u)
  /\ IF left = {u}
     THEN UrlDeleteFrom(routes')
     ELSE Visit(u) /\ UNCHANGED <<want, seen, fresh>>
  /\ UNCHANGED <<dc, pvc, build, objects>>

UrlDelete(u) ==
  /\ pc = "urlDelete" /\ u \in left
  /\ routes' = [routes EXCEPT ![u] = None]
  /\ IF left = {u}
     THEN AfterUrls
     ELSE Visit(u) /\ UNCHANGED <<want, seen, fresh>>
  /\ UNCHANGED <<dc, pvc, build, objects>>

\* PushLocal waits for the pod to run before it copies (module Watch).
PushSource ==
  /\ pc = "source"
  /\ \/ PodCanRun /\ EndsWith("pushed") /\ UNCHANGED <<clean, faults>>
     \/ ~PodCanRun /\ Fails
  /\ UNCHANGED cluster

-----------------------------------------------------------------------------
(* Updating a component: Update and the functions it calls.                *)

\* Update reads the DeploymentConfig once; the rest of the push works on that
\* copy.  The old and the new kind of source decide the way.
GetDC ==
  /\ pc = "getDC"
  /\ seen' = dc /\ fresh' = TRUE
  /\ Goto(CASE dc.source = "local" /\ want.source = "git" -> "createBuildConfig"
            [] dc.source = "git" /\ want.source = "local" -> "deleteBuildConfig"
            [] dc.source = "git" /\ want.source = "git"   -> "updateBuildConfig"
            [] OTHER                                      -> "patchDC")
  /\ UNCHANGED <<cluster, want, left>>

\* The source of the BuildConfig is replaced by one that has only the URL.
UpdateBuildConfig ==
  /\ pc = "updateBuildConfig"
  /\ IF build = {}
     THEN Fails /\ UNCHANGED build                        \* NotFound
     ELSE build' = {None} /\ Goto("build") /\ UNCHANGED command
  /\ UNCHANGED <<dc, pvc, routes, objects>>

DeleteBuildConfig ==
  /\ pc = "deleteBuildConfig"
  /\ build' = {}
  /\ Goto("root")
  /\ UNCHANGED <<dc, pvc, routes, objects, command>>

\* The claim of the root volume: the last call of the creation of a local
\* component, and made again when a git component becomes local.
CreateRoot ==
  /\ pc = "root"
  /\ IF seen # NoDC
     THEN CreateObject("root", "patchDC")
     ELSE /\ IF "root" \in objects
             THEN Fails /\ UNCHANGED objects              \* AlreadyExists
             ELSE objects' = objects \cup {"root"} /\ UrlsFrom
          /\ UNCHANGED <<dc, pvc, routes, build>>

\* StartBuild and the wait for the build.
Build ==
  /\ pc = "build" /\ build # {}
  /\ Goto(IF seen = NoDC THEN "rollout" ELSE "patchDC")
  /\ UNCHANGED <<cluster, command>>

\* addOrRemoveVolumeAndVolumeMount removes from the slice it ranges over.
Unmount(s, gone) == RangeLoop(s, gone)

\* What a push keeps of the links: the generated DeploymentConfig of a git
\* component has none, the one of a local component has those that were read.
LinksKept == IF want.source = "git" THEN {} ELSE seen.links

\* The API refuses to update a DeploymentConfig that somebody else has written
\* since it was read.
Conflict_Overwrites == FALSE                              \* mutant
Conflict == ~fresh

\* PatchCurrentDC: Update of the DeploymentConfig that was read.  No environment
\* variable is passed to it.  A local component whose pod template has not
\* changed is not rolled out again.
PatchDC ==
  /\ pc = "patchDC"
  /\ LET u == Unmount(seen.mounts, ToUnmount(seen)) IN
     IF u.panic \/ Conflict
     THEN Fails /\ UNCHANGED dc
     ELSE /\ \E order \in Orders(ToMount(seen)) :
               dc' = [source |-> want.source,
                      mounts |-> Slice(u) \o order,
                      env |-> None, links |-> LinksKept]
          /\ IF want.source = "local" /\ dc' = seen
             THEN UrlsFrom
             ELSE Goto("rollout") /\ UNCHANGED command
  /\ UNCHANGED <<pvc, routes, build, objects>>

\* StartDeployment for git sources, and the wait for the new version: a pod
\* that cannot start makes it time out.
Rollout ==
  /\ pc = "rollout"
  /\ CASE ~PodCanRun -> Fails
       [] PodCanRun /\ seen.source = "local" /\ want.source = "git" ->
            Goto("deleteRoot") /\ UNCHANGED command
       [] OTHER -> UrlsFrom
  /\ UNCHANGED cluster

\* Mutant: the clean-up is left out.
DeleteRoot_Forgets ==
  /\ pc = "deleteRoot"
  /\ UrlsFrom
  /\ UNCHANGED cluster

\* UpdateDCToGit cleans up after supervisord.
DeleteRoot ==
  /\ pc = "deleteRoot"
  /\ IF "root" \notin objects
     THEN Fails /\ UNCHANGED objects                      \* NotFound
     ELSE objects' = objects \ {"root"} /\ UrlsFrom
  /\ UNCHANGED <<dc, pvc, routes, build>>

-----------------------------------------------------------------------------
(* `odo delete`: DeleteOptions, then client.Delete.  Each kind of object   *)
(* is deleted by its labels; a call that fails is noted and the next one   *)
(* is made all the same.                                                   *)

Delete ==
  /\ pc = "idle"
  /\ pc' = "find" /\ result' = "running"
  /\ UNCHANGED <<cluster, command, clean, faults>>

Find ==
  /\ pc = "find"
  /\ IF Deployed /\ Readable(dc)
     THEN Goto(Kinds[1]) /\ UNCHANGED command
     ELSE Fails
  /\ UNCHANGED cluster

Removes(kind) ==
  CASE kind = "ImageStreams"           -> {"imageStream"}
    [] kind = "Services"               -> {"service"}
    [] kind = "PersistentVolumeClaims" -> {"root"}
    [] kind = "Secrets"                -> {"secrets"}
    [] OTHER                           -> {}

DeleteKind(kind) ==
  /\ dc'      = IF kind = "DeploymentConfigs" THEN NoDC ELSE dc
  /\ pvc'     = IF kind = "PersistentVolumeClaims"
                THEN [s \in Storages |-> None] ELSE pvc
  /\ routes'  = IF kind = "Routes" THEN [u \in Urls |-> None] ELSE routes
  /\ build'   = IF kind = "BuildConfigs" THEN {} ELSE build
  /\ objects' = objects \ Removes(kind)

\* The step after the i-th kind, with the result so far.
DeleteNext(i, r) ==
  IF i < Len(Kinds)
  THEN pc' = Kinds[i + 1] /\ result' = r /\ UNCHANGED command
  ELSE EndsWith(IF r = "running" THEN "deleted" ELSE r)

\* Mutant: the list of errors is dropped.
DeleteStep_ForgetsErrors(i) ==
  /\ pc = Kinds[i]
  /\ \/ /\ DeleteKind(pc)
        /\ DeleteNext(i, result)
        /\ UNCHANGED <<clean, faults>>
     \/ /\ faults < MaxFaults
        /\ faults' = faults + 1 /\ clean' = FALSE
        /\ DeleteNext(i, result)
        /\ UNCHANGED cluster

DeleteStep(i) ==
  /\ pc = Kinds[i]
  /\ \/ /\ DeleteKind(pc)
        /\ DeleteNext(i, result)
        /\ UNCHANGED <<clean, faults>>
     \/ /\ faults < MaxFaults
        /\ faults' = faults + 1 /\ clean' = FALSE
        /\ DeleteNext(i, "failed")
        /\ UNCHANGED cluster

-----------------------------------------------------------------------------
(* The environment.                                                        *)

\* An API call of a push fails, or the command is interrupted.
Stop ==
  /\ pc # "idle" /\ faults < MaxFaults
  /\ EndsWith("failed")
  /\ clean' = (clean /\ pc \in {"exists", "find"})
  /\ faults' = faults + 1
  /\ UNCHANGED cluster

\* Another client links or unlinks a secret at any time (module ServiceLink).
Link(s) ==
  /\ Deployed /\ s \notin dc.links
  /\ dc' = [dc EXCEPT !.links = @ \cup {s}]
  /\ fresh' = FALSE
  /\ UNCHANGED <<pvc, routes, build, objects, pc, want, left, seen, result,
                 clean, faults>>

Unlink(s) ==
  /\ Deployed /\ s \in dc.links
  /\ dc' = [dc EXCEPT !.links = @ \ {s}]
  /\ fresh' = FALSE
  /\ UNCHANGED <<pvc, routes, build, objects, pc, want, left, seen, result,
                 clean, faults>>

-----------------------------------------------------------------------------

Begins == Delete \/ \E c \in Config : Push(c)

PushStep ==
  \/ CheckExists
  \/ \E s \in Storages : StorageDelete(s) \/ StorageCreate(s)
  \/ CreateImageStream \/ CreateBuildConfig \/ CreateDC
  \/ CreateService \/ CreateSecrets \/ CreateRoot
  \/ GetDC \/ UpdateBuildConfig \/ DeleteBuildConfig
  \/ Build \/ PatchDC \/ Rollout \/ DeleteRoot
  \/ \E u \in Urls : UrlCreate(u) \/ UrlDelete(u)
  \/ PushSource

Next ==
  \/ Begins
  \/ PushStep
  \/ Find \/ \E i \in DOMAIN Kinds : DeleteStep(i)
  \/ Stop
  \/ \E s \in Secrets : Link(s) \/ Unlink(s)

Spec == Init /\ [][Next]_vars

-----------------------------------------------------------------------------
(* What pushing and deleting promise.                                      *)

Idle == pc = "idle"

NothingExists ==
  /\ Defined(pvc) = {} /\ Defined(routes) = {}
  /\ build = {} /\ objects = {}

\* A push that reports success has made the cluster match the configuration,
\* whatever failed halfway in earlier pushes: the kind of source, exactly the
\* storages with their sizes, exactly the URLs, and a pod that can run
\* ("Changes successfully pushed to component", push.go).
PushedMatchesConfig ==
  Idle /\ result = "pushed" =>
    /\ dc.source = want.source
    /\ Mounted(dc) = Defined(want.storage)
    /\ \A s \in Mounted(dc) : pvc[s] = Canonical[want.storage[s]]
    /\ Defined(routes) = Defined(want.urls)
    /\ PodCanRun
    /\ want.source = "git" => build # {}

\* As long as no command has stopped halfway, the objects of the component are
\* exactly those its DeploymentConfig calls for: no claim that nobody mounts,
\* no mount without claim, no volume mounted twice, no remains of the other
\* kind of source, and nothing at all without DeploymentConfig.
CleanMeansExact ==
  Idle /\ clean =>
    IF Deployed
    THEN /\ Defined(pvc) = Mounted(dc)
         /\ IsInjective(dc.mounts)
         /\ objects = {"imageStream", "service", "secrets"}
                        \cup (IF dc.source = "local" THEN {"root"} ELSE {})
         /\ build # {} <=> dc.source = "git"
    ELSE NothingExists

\* A delete that reports success has left nothing behind, whatever commands
\* have stopped halfway before it.
DeletedLeavesNothing ==
  Idle /\ result = "deleted" => ~Deployed /\ NothingExists

\* The data of a storage is lost only to a push whose configuration has no such
\* storage, or to a delete: never to a change of its size, of the kind of
\* source, or to a push that is repeated after a failure.
StorageKept ==
  [][\A s \in Storages :
       pvc[s] # None /\ pvc'[s] # pvc[s] =>
         \/ pc = "PersistentVolumeClaims"
         \/ pc \in PushSteps /\ want.storage[s] = None]_vars

\* A push with local sources never drops a link, even one that is made between
\* its read and its update of the DeploymentConfig.
LinksSurviveLocalPush ==
  [][want.source = "local" /\ pc \in PushSteps /\ pc' # pc
       => dc.links \subseteq dc'.links]_vars

\* What can be seen of a component: the kind of source, the size of each storage
\* that is mounted, and the names of the URLs.
Description == [source : {"local", "git"}, storage : Partial(Storages, Quantities), urls : SUBSET Urls]
Wanted == [source |-> want.source,
           storage |-> [s \in Storages |-> Canonical[want.storage[s]]],
           urls |-> Defined(want.urls)]
Shown  == [source |-> dc.source,
           storage |-> [s \in Storages |-> IF s \in Mounted(dc) THEN pvc[s] ELSE None],
           urls |-> Defined(routes)]

NotThere == [source |-> "none"]
Broken   == [source |-> "broken"]
Unknown  == [source |-> "unknown"]

\* No push leaves a component whose pod cannot start or whose sources have no
\* build, nor any object without a component.
Seen == IF Deployed
        THEN IF PodCanRun /\ (dc.source = "git" => build # {}) THEN Shown ELSE Broken
        ELSE IF NothingExists THEN NotThere ELSE Broken

\* A command's first change comes after this.
Undecided == pc \in {"idle", "exists", "find"}

Wish == IF Idle THEN Unknown ELSE IF pc \in PushSteps THEN Wanted ELSE NotThere
Live == IF Undecided THEN Seen ELSE Unknown
Said == IF ~Idle THEN "running" ELSE IF result \in {"pushed", "deleted"} THEN "done" ELSE result

Promise == INSTANCE Reconcile WITH
  Wishes <- Description, Absent <- NotThere, Nothing <- Unknown, Unsettled <- Unknown,
  Broken <- Broken, wish <- Wish, works <- ~Undecided, live <- Live, said <- Said, intact <- clean

\* Whoever runs push and delete can rely on their messages ("Changes successfully
\* pushed to component", push.go; "Component %s from application %s has been
\* deleted", delete.go): a command that fails before its first change has changed
\* nothing, and one that succeeds leaves the component it was asked for, also
\* where earlier ones stopped halfway.
CommandsReconcile == Promise!Spec

-----------------------------------------------------------------------------
(* What the repository says and the code does not do.                      *)

\* "we choose the env variables in the config over the one present in the DC so
\* the local config is reflected on the cluster" (component.go, Update).
EnvIsPushed == Idle /\ result = "pushed" => dc.env = want.env

\* "we make sure that configurations such as: volumes, environment variables
\* are correctly copied over" (occlient.go, PatchCurrentDC): a push with git
\* sources keeps the environment that links inject.
LinksSurviveGitPush ==
  [][want.source = "git" /\ pc \in PushSteps /\ pc' # pc
       => dc.links \subseteq dc'.links]_vars

\* "Delete an existing component." (delete.go): `odo delete` does not refuse a
\* component that exists.
DeletableWhenItExists == Idle /\ Deployed => Readable(dc)

\* "If the component does not exist, we will create it for the first time."
\* (push.go): nothing that is already there stands in the way.
CreatableWhenItDoesNot == Idle /\ ~Deployed => NothingExists

\* "so other components can later inject the secret into the environment and
\* have the coordinates to communicate with this component" (createSecrets):
\* a component that was pushed has its service and its secrets.
PushedIsReachable ==
  Idle /\ result = "pushed" => {"service", "secrets"} \subseteq objects

\* "applies url config onto component" (ApplyConfigCreateURL): also the port of
\* a URL whose name is there.
UrlPortIsPushed ==
  Idle /\ result = "pushed" => \A u \in Urls : routes[u] = want.urls[u]

\* "Use a specific ref e.g. commit, branch or tag of the git repository"
\* (create.go, --ref): a push builds that reference.
RefIsBuilt ==
  Idle /\ result = "pushed" /\ want.source = "git" => build = {want.ref}

-----------------------------------------------------------------------------
(* The inductive invariants behind LinksSurviveLocalPush and               *)
(* DeletedLeavesNothing.                                                   *)

\* The steps of an update between its read and its write, those after its
\* write, and those of a creation that come before the DeploymentConfig.
ReadSteps == {"createBuildConfig", "updateBuildConfig", "deleteBuildConfig",
              "root", "build", "patchDC"}
LateSteps == {"rollout", "deleteRoot", "urlCreate", "urlDelete", "source"}
NewSteps  == {"imageStream", "createDC"}

\* A push creates the DeploymentConfig only while there is none, and until its
\* write an update knows the DeploymentConfig, or that somebody changed it.
ReadInv ==
  /\ pvc \in Partial(Storages, Quantities)
  /\ want \in Config
  /\ pc \in PushSteps \cup Range(Kinds) \cup {"idle", "find"}
  /\ DOMAIN dc = {"source", "mounts", "env", "links"}
  /\ ~Deployed => dc = NoDC
  /\ pc = "getDC" => Deployed
  /\ pc \in NewSteps => ~Deployed
  /\ fresh => \/ pc \in LateSteps
              \/ pc \in ReadSteps /\ seen = dc /\ Deployed

\* What the first n calls of a delete have removed when none has failed.
Gone(n) ==
  /\ n >= 1 => ~Deployed
  /\ n >= 2 => Defined(routes) = {}
  /\ n >= 3 => build = {}
  /\ n >= 4 => "imageStream" \notin objects
  /\ n >= 5 => "service" \notin objects
  /\ n >= 6 => Defined(pvc) = {} /\ "root" \notin objects
  /\ n >= 7 => "secrets" \notin objects

DeleteInv ==
  /\ objects \subseteq Objects
  /\ \A i \in DOMAIN Kinds : pc = Kinds[i] /\ result = "running" => Gone(i - 1)
  /\ Idle /\ result = "deleted" => Gone(7)
  /\ ~Idle => result \in {"running", "failed"}

-----------------------------------------------------------------------------
(* The inductive invariants behind PushedMatchesConfig and CleanMeansExact. *)

\* The claims of these storages are what the configuration asks for.
AsWanted(S) == \A s \in S : pvc[s] = Canonical[want.storage[s]]

\* A claim that has been visited is as wanted; after the storage part of a push
\* all of them are, those of the old mounts (deleted or kept) and the new ones.
Stored == PushSteps \ {"exists", "storageDelete", "storageCreate"}

StorageInv ==
  /\ pc = "storageDelete" => /\ left # {} /\ left \subseteq Mounted(dc)
                             /\ AsWanted(Mounted(dc) \ left)
  /\ pc = "storageCreate" => /\ left # {} /\ left \subseteq ToMount(dc)
                             /\ AsWanted((Mounted(dc) \cup Defined(want.storage)) \ left)
  /\ pc \in Stored => AsWanted(Mounted(dc) \cup Defined(want.storage))

\* The DeploymentConfig has the source and the storages of the configuration.
Written == dc.source = want.source /\ Defined(want.storage) \subseteq Mounted(dc)

\* An update has read a DeploymentConfig, a creation has not: `seen` tells the
\* steps that both make apart.
Unread  == {"idle", "exists", "storageDelete", "storageCreate", "imageStream",
            "createDC", "service", "secrets", "getDC"}
Updates == {"updateBuildConfig", "deleteBuildConfig"}

SourceInv ==
  /\ pc \in Unread => seen = NoDC
  /\ pc \in Updates => seen # NoDC
  /\ pc = "createBuildConfig" => want.source = "git" /\ (Deployed <=> seen # NoDC)
  /\ pc \in {"root", "build"} /\ seen = NoDC => Written
  /\ pc \in {"service", "secrets"} \cup LateSteps => Written
  /\ pc \in {"deleteBuildConfig", "root", "source"} => want.source = "local"
  /\ pc \in {"updateBuildConfig", "build", "deleteRoot"} => want.source = "git"
  /\ pc \in {"patchDC"} \cup LateSteps /\ want.source = "git" => build # {}
  /\ pc = "deleteRoot" => PodCanRun
  /\ pc \in {"urlCreate", "urlDelete"} /\ want.source = "git" => PodCanRun

RoutesInv ==
  /\ pc = "urlCreate" => /\ left # {} /\ left \subseteq Defined(want.urls)
                         /\ Defined(want.urls) \ left \subseteq Defined(routes)
  /\ pc = "urlDelete" => /\ left # {} /\ left = Surplus(routes)
                         /\ Defined(want.urls) \subseteq Defined(routes)
  /\ pc = "source" => Defined(routes) = Defined(want.urls)

\* The objects of a component with this source, beside its claims and routes.
Base == {"imageStream", "service", "secrets"}
RootOf(source) == IF source = "local" THEN {"root"} ELSE {}
Complete(source) == /\ objects = Base \cup RootOf(source)
                    /\ build # {} <=> source = "git"

\* While no command has stopped halfway: which claims there are, and how far the
\* other objects have come.
ClaimsInv ==
  clean =>
    /\ pc \in {"idle", "exists", "find"} => Defined(pvc) = Mounted(dc)
    /\ pc = "storageDelete" => Defined(pvc) \subseteq Mounted(dc)
    /\ pc = "storageCreate" =>
         Defined(pvc) \subseteq Mounted(dc) \cup (Defined(want.storage) \ left)
    /\ pc \in Stored => Defined(pvc) \subseteq Defined(want.storage)

Before == {"idle", "exists", "find", "storageDelete", "storageCreate", "getDC"}

ObjectsInv ==
  clean =>
    /\ pc \in Before => IF Deployed THEN Complete(dc.source)
                                     ELSE build = {} /\ objects = {}
    /\ pc \in {"idle", "exists", "find"} /\ ~Deployed => Defined(routes) = {}
    /\ pc = "imageStream" => build = {} /\ objects = {}
    /\ pc = "createBuildConfig" =>
         IF Deployed THEN seen.source = "local" /\ Complete("local")
                     ELSE build = {} /\ objects = {"imageStream"}
    /\ pc \in {"createDC", "service", "secrets"} =>
         /\ build # {} <=> want.source = "git"
         /\ objects = {"imageStream"} \cup
                      (IF pc = "secrets" THEN {"service"} ELSE {})
    /\ pc \in {"updateBuildConfig", "deleteBuildConfig"} =>
         seen.source = "git" /\ Complete("git")
    /\ pc = "root" => seen.source # "local" /\ build = {} /\ objects = Base
    /\ pc = "build" => objects = Base \cup RootOf(seen.source)
    /\ pc \in {"patchDC", "rollout", "deleteRoot"} =>
         /\ build # {} <=> want.source = "git"
         /\ objects = Base \cup RootOf(seen.source) \cup RootOf(want.source)
    /\ pc = "deleteRoot" => seen.source = "local"
    /\ pc \in {"urlCreate", "urlDelete", "source"} => Complete(want.source)
    /\ pc \in Range(Kinds) \cup {"find"} => result = "running"

=============================================================================
