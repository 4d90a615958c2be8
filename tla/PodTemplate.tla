---------------------------- MODULE PodTemplate ----------------------------
(***************************************************************************)
(* The DeploymentConfig that pushes write for a component: how             *)
(* pkg/occlient generates it (templates.go, NewAppS2I,                     *)
(* BootstrapSupervisoredS2I) and how an update makes the next one from the *)
(* one there is (UpdateDCToGit, UpdateDCToSupervisor, PatchCurrentDC).     *)
(*                                                                         *)
(* One component, pushed again and again with other settings; links are    *)
(* added and removed in between.                                           *)
(*                                                                         *)
(* Abstracted: a push is one step (its steps and failures are those of     *)
(* ComponentPush); the seven S2I variables of every container are one,     *)
(* "s2i"; a volume has the name of its claim; a push unmounts at most one  *)
(* storage (ComponentPush!Unmount is about several).                       *)
(*                                                                         *)
(* TemplateInit, TemplateNext and TemplateSpec have the module's name in   *)
(* theirs because PodProofs extends PodWait as well.                       *)
(***************************************************************************)
EXTENDS Naturals, SequencesExt, FiniteSets

CONSTANTS
  Types,      \* builder images
  Locations,  \* source locations
  Storages,   \* storages, each at a path of its own
  Ports,      \* lists of ports, each taken as one value
  Quantities, \* of a resource
  UserVars,   \* variables of the user; "s2i" may be among them
  Secrets,    \* what can be linked
  None        \* nothing

Shared == "shared"   \* supervisordVolumeName, an empty directory
Root   == "root"     \* getAppRootVolumeName

ASSUME TypesAssumption == Types # {} /\ Locations # {} /\ None \notin Ports \cup Quantities
ASSUME StoragesAssumption == IsFiniteSet(Storages) /\ Storages \cap {Shared, Root} = {}
ASSUME VarsAssumption == IsFiniteSet(UserVars) /\ "user" \notin Types

VARIABLES
  pushed,  \* the settings of the last push, None before it
  dc,      \* the DeploymentConfig
  build    \* the BuildConfig

templateVars == <<pushed, dc, build>>

Settings ==
  [source : {"local", "binary", "git"}, location : Locations, type : Types,
   storage : SUBSET Storages, ports : Ports \cup {None}, env : SUBSET UserVars,
   min : Quantities \cup {None}, max : Quantities \cup {None}]

\* The elements of s that are in `keep`, in their order: the loops that append
\* what passes a test.  (The provers cannot look into SelectSeq.)
Kept(s, keep) ==
  LET upTo[i \in 0..Len(s)] ==
        IF i = 0 THEN <<>>
        ELSE IF s[i] \in keep THEN Append(upTo[i - 1], s[i]) ELSE upTo[i - 1]
  IN  upTo[Len(s)]

Without(s, drop) == Kept(s, Range(s) \ drop)

-----------------------------------------------------------------------------
(* Environment variables: sequences of [name, value].                      *)

Var(n, v) == [name |-> n, value |-> v]
Names(s)  == {s[i].name : i \in DOMAIN s}

\* The last value with that name.
Lookup(s, n) == s[CHOOSE i \in DOMAIN s : s[i].name = n /\
                    \A j \in DOMAIN s : s[j].name = n => j <= i]

\* The old variables keep their places, each name once; the new ones follow, but
\* for those whose name is there.
UniqueAppend_Appends(old, new) == old \o new               \* mutant
UniqueAppend(old, new) ==
  LET all  == old \o new
      once == {i \in DOMAIN all : \A j \in DOMAIN old : j < i => old[j].name # all[i].name}
      at   == Kept([i \in DOMAIN all |-> i], once)
  IN  [k \in DOMAIN at |-> Lookup(all, all[at[k]].name)]

\* The first variable of that name.
DeleteVar(s, n) ==
  IF n \notin Names(s) THEN s
  ELSE RemoveAt(s, CHOOSE i \in DOMAIN s : s[i].name = n /\
                     \A j \in DOMAIN s : s[j].name = n => i <= j)

\* GetS2IMetaInfoFromBuilderImg: what the labels of the builder image say.
S2IVar(type) == Var("s2i", type)
BackupDir    == Var("backup", "default")

\* The variables of a supervised container: a binary has no source to back up.
SupervisedEnv(user, w) ==
  LET env == UniqueAppend(user, <<S2IVar(w.type)>>)
  IN  IF w.source = "local" THEN UniqueAppend(env, <<BackupDir>>) ELSE env

\* Update passes no variables of the user on.
UpdatedEnv(w) ==
  LET env == SupervisedEnv(<<>>, w)
  IN  IF w.source = "local" THEN env ELSE DeleteVar(env, "backup")

\* GetInputEnvVarsFromStrings, with the names in some order.
UserEnv(w) == LET names == SetToSeq(w.env) IN [i \in DOMAIN names |-> Var(names[i], "user")]

-----------------------------------------------------------------------------
(* templates.go.                                                           *)

\* GetResourceRequirementsFromCmpSettings: never nil, empty lists stay nil.
Requirements(w) == [requests |-> w.min, limits |-> w.max]

\* The DeploymentConfig's labels and annotations.
Meta(w) == [source |-> w.source, location |-> w.location, type |-> w.type]

PortsOf(w, otherwise) == IF w.ports # None THEN w.ports ELSE otherwise

\* GetExposedPorts of the builder image.
ImagePorts == "image ports"

GenerateSupervisord(w, ports, env, envFrom) ==
  [meta |-> Meta(w), command |-> "supervisord", image |-> w.type, automatic |-> TRUE,
   containers |-> {"component", "copy-files-to-volume"},
   ports |-> ports, env |-> env, envFrom |-> envFrom, resources |-> Requirements(w),
   mounts |-> <<Shared>>, volumes |-> <<Shared>>, inits |-> <<>>]

\* The image is the one the BuildConfig makes; a new image starts nothing.
GenerateGit(w, ports, env) ==
  [meta |-> Meta(w), command |-> "run", image |-> "built", automatic |-> FALSE,
   containers |-> {"component"},
   ports |-> ports, env |-> env, envFrom |-> <<>>, resources |-> Requirements(w),
   mounts |-> <<>>, volumes |-> <<>>, inits |-> <<>>]

GenerateBuild(w) == [location |-> w.location, type |-> w.type]

AddVolumeCopyInit(d)  == [d EXCEPT !.inits = Append(@, [name |-> "copy-files-to-volume", volume |-> Root])]
AddSupervisordInit(d) == [d EXCEPT !.inits = Append(@, [name |-> "copy-supervisord", volume |-> Shared])]
AddVolume(d)          == [d EXCEPT !.volumes = Append(@, Root)]
AddVolumeMount(d)     == [d EXCEPT !.mounts = Append(@, Root)]

Bootstrapped(d) == AddVolumeMount(AddVolume(AddSupervisordInit(AddVolumeCopyInit(d))))

\* Only what a push has to say is replaced.
UpdateSupervisord_KeepsLimits(d, w, ports, env) ==         \* mutant
  [d EXCEPT !.meta = Meta(w), !.ports = ports, !.env = env]

UpdateSupervisord(d, w, ports, env) ==
  [d EXCEPT !.meta = Meta(w), !.ports = ports, !.env = env,
            !.resources = Requirements(w)]

-----------------------------------------------------------------------------
(* Volumes and mounts; a mount is that of a volume to its path.            *)

\* What the DeploymentConfig there is has, and the new one has not.
CopyVolumes_All(new, old) ==                               \* mutant
  [new EXCEPT !.mounts = @ \o old.mounts, !.volumes = @ \o old.volumes]

CopyVolumes(new, old) ==
  LET missing(s, has) == Without(s, {Shared} \cup Range(has))
  IN  [new EXCEPT !.mounts  = @ \o missing(old.mounts, new.mounts),
                  !.volumes = @ \o missing(old.volumes, new.volumes)]

\* Without the volume and the mount there is nothing to be removed, and the
\* update fails.
HasTraces(d) == Root \in Range(d.volumes) /\ Root \in Range(d.mounts)

RemoveTraces(d) ==
  [d EXCEPT !.volumes = Without(@, {Root}),
            !.mounts  = Without(@, {Root}),
            !.inits   = Kept(@, {i \in Range(@) : i.name # "copy-files-to-volume"})]

Mounted(d) == Range(d.mounts) \cap Storages

\* The storages that are in the settings and not mounted, in any order, after
\* the unmount of the one that is mounted and no more in the settings.
Remounted(d, add, remove) ==
  {[d EXCEPT !.mounts  = Without(@, remove) \o order,
             !.volumes = Without(@, remove) \o order] :
     order \in SetToSeqs(add)}

-----------------------------------------------------------------------------
(* Pushes.                                                                 *)

\* CreateFromGit and CreateFromPath: what the first push may create.
Created(w) ==
  LET base == IF w.source = "git"
              THEN GenerateGit(w, PortsOf(w, ImagePorts), UserEnv(w))
              ELSE Bootstrapped(GenerateSupervisord(w, PortsOf(w, ImagePorts),
                                                    SupervisedEnv(UserEnv(w), w), <<>>))
  IN  Remounted(base, w.storage, {})

Create(w) ==
  /\ dc = None
  /\ dc' \in Created(w)
  /\ build' = IF w.source = "git" THEN GenerateBuild(w) ELSE None
  /\ pushed' = w

\* PatchCurrentDC: the last thing before the update is the (un)mounting.
Patched(new, w) == Remounted(new, w.storage \ Mounted(dc), Mounted(dc) \ w.storage)

\* Update passes no variables on; the ports default to those there are.
ToGit(w) ==
  LET new == CopyVolumes(GenerateGit(w, PortsOf(w, dc.ports), <<>>), dc) IN
  /\ w.source = "git"
  /\ IF dc.meta.source # "git"
     THEN /\ build' = GenerateBuild(w)
          /\ HasTraces(new)
          /\ dc' \in Patched(RemoveTraces(new), w)
     ELSE /\ build' = [build EXCEPT !.location = w.location]
          /\ dc' \in Patched(new, w)

ToSupervised(w) ==
  LET ports == PortsOf(w, dc.ports)
      env   == UpdatedEnv(w)
      new   == IF dc.meta.source = "git"
               THEN Bootstrapped(GenerateSupervisord(w, ports, env, dc.envFrom))
               ELSE UpdateSupervisord(dc, w, ports, env)
  IN  /\ w.source # "git"
      /\ build' = None
      /\ dc' \in Patched(CopyVolumes(new, dc), w)

\* The user has edited the settings since the last push.
Update(w) ==
  /\ dc # None
  /\ Cardinality(Mounted(dc) \ w.storage) <= 1
  /\ ToGit(w) \/ ToSupervised(w)
  /\ pushed' = w

\* LinkSecret and UnlinkSecret: a secret is linked once.
Link ==
  /\ dc # None
  /\ \E s \in Secrets \ Range(dc.envFrom) : dc' = [dc EXCEPT !.envFrom = Append(@, s)]
  /\ UNCHANGED <<pushed, build>>

Unlink ==
  /\ dc # None
  /\ \E s \in Range(dc.envFrom) :
       dc' = [dc EXCEPT !.envFrom = Without(@, {s})]
  /\ UNCHANGED <<pushed, build>>

TemplateInit == pushed = None /\ dc = None /\ build = None

TemplateNext == Link \/ Unlink \/ \E w \in Settings : Create(w) \/ Update(w)

TemplateSpec == TemplateInit /\ [][TemplateNext]_templateVars

-----------------------------------------------------------------------------
(* What the template promises.                                             *)

TemplateTypeOK ==
  /\ pushed \in Settings \cup {None}
  /\ dc # None => /\ dc.meta \in [source : {"local", "binary", "git"},
                                  location : Locations, type : Types]
                  /\ dc.ports \in Ports \cup {ImagePorts}
                  /\ Range(dc.envFrom) \subseteq Secrets
                  /\ Range(dc.volumes) \cup Range(dc.mounts) \subseteq
                       Storages \cup {Shared, Root}
  /\ build # None => build \in [location : Locations, type : Types]

\* What an update is meant to leave alone, and the variables of the user, which
\* it drops (ComponentPush!EnvIsPushed), are left out of the comparison.
Comparable(d) ==
  [d EXCEPT !.mounts = Range(@), !.volumes = Range(@), !.envFrom = <<>>, !.ports = "",
            !.env = {e \in Range(@) : e.value # "user"}]

\* "ApplyConfig applies the component config onto component dc" (component.go):
\* after any series of pushes, from source to source, with storages that come
\* and go, the component is deployed as a push of its settings to an empty
\* project would deploy it.
AsIfCreated ==
  dc # None =>
    /\ Comparable(dc) \in {Comparable(d) : d \in Created(pushed)}
    /\ build = IF pushed.source = "git" THEN GenerateBuild(pushed) ELSE None
    /\ pushed.ports # None => dc.ports = pushed.ports

\* The API accepts the template: no volume and no mount path is there twice,
\* every mount, those of the init containers too, is of a volume of the pod,
\* and no volume is left that nothing mounts.
TemplateIsValid ==
  dc # None =>
    /\ IsInjective(dc.volumes) /\ IsInjective(dc.mounts)
    /\ Range(dc.volumes) = Range(dc.mounts)
    /\ \A i \in DOMAIN dc.inits : dc.inits[i].volume \in Range(dc.volumes)

\* Each variable is there once, and what odo sets wins over what the user does:
\* the scripts in the container get the paths of the builder image, and odo has
\* them look for a backup of the sources only when sources were pushed.
OneValueEach ==
  dc # None =>
    /\ BackupDir \in Range(dc.env) <=> pushed.source = "local"
    /\ \A i, j \in DOMAIN dc.env : dc.env[i].name = dc.env[j].name => i = j
    /\ pushed.source # "git" => S2IVar(pushed.type) \in Range(dc.env)

=============================================================================
