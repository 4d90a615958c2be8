# odo: a verification project

odo is a command line program for developers on OpenShift.  It keeps the wishes
of the developer in a local file (`.odo/config.yaml`) and brings a component on
the cluster in line with them.  This directory holds TLA+ modules of the parts
of odo where order, interleaving and failure matter, TLC configurations that
check them on small instances, and TLAPS proofs of their most important
properties.  Paths below are relative to `src/`.

Contents: 1 Inventory, 2 Modules and code, 3 Runs, 4 Proofs, 5 Where the code
differs from what it says, 6 Not modelled, 7 Plan.

## 1 Inventory

odo has no server.  Each command is a process that lives for seconds (`odo
watch` for hours); all lasting state is in the cluster's objects and in files of
the developer.  Two commands, of one or of several users, meet only in the
cluster, one API call at a time.

| component | state | operations | interacts with | hard behaviour | correct when |
|---|---|---|---|---|---|
| watch (`pkg/component/watch.go`) | changedFiles, deletedPaths, dirty, lastChange, watchError under changeLock; fsnotify's queue; ExtChan | WatchAndPush, its event goroutine, addRecursiveWatch | PushLocal with the lock held | two goroutines, edits during a push, debounce, failed pushes, return with the lock held | no change is lost silently; when quiet the pod has the tree; a stop request ends it |
| push of sources (`component.go` PushLocal, `occlient.go` CopyFile, makeTar, PropagateDeletes) | the files in the pod | rm, tar through a pipe, assemble-and-restart | watch, push, the kubelet | files change under the tar; partial extraction; `os.Exit` in a goroutine | as above |
| component push (`component.go` CreateComponent, Update, ApplyConfig; `occlient.go` NewAppS2I, BootstrapSupervisoredS2I, UpdateDCTo*, PatchCurrentDC) | DeploymentConfig, BuildConfig, ImageStream, Service, Secrets, root claim | create, update between local and git sources | storage, urls, waits | about twenty calls with no transaction: errors, interrupts, other clients in between; retries | a successful push matches the configuration; no remains; data and links survive |
| component delete (`occlient.go` Delete) | the same objects | delete by labels, kind by kind | the existence check of storage and component lists | goes on after an error; stops halfway | success leaves nothing |
| storage (`pkg/storage`, `occlient/volumes.go`) | claims, mounts | Push, Create, Delete, List, mounting in the DeploymentConfig | push, delete | claim and mount change at different times; slice changed while ranged over | claims are exactly those mounted |
| urls (`pkg/url`) | Routes | Create, Delete, List, Exists | push | create before delete; matched by name only | routes are exactly those of the file |
| services and links (`pkg/service`, `cli/service`, `cli/component/*link.go`) | ServiceInstances, ServiceBindings, secrets, envFrom of the DeploymentConfigs | service create/delete/list, link, unlink | catalog, push | several clients, stale reads, index patches, a wait without timeout | bindings have instances; links are unique, resolve, and go only on request, unless commands overlap |
| builds and rollouts (`occlient.go` Build, WaitForBuildToFinish, PatchCurrentDC, WaitAndGetDC, `utils.go` IsDCRolledOut) | the DeploymentConfig read before, the revision to wait for, watch channels | build, update, ask for a deployment, wait | push, the deployment controller, image triggers, other pushes | the revision is guessed from an earlier read; closed channels; timeouts | a push that ends well has its change deployed; it ends |
| waits for pods (`occlient.go` WaitAndGetPod, `pkg/log`, `cli/component/common_link.go`) | two channels, a goroutine, a timer, the spinner with its goroutine and channel | wait for a phase, end the spinner | push, link | late answers, both goroutines end the spinner, the old pod still runs | the answer is the new pod; one mark, the right one; nothing is left behind |
| pod templates (`occlient/templates.go`, `occlient.go` UpdateDCTo*, `volumes.go`) | the DeploymentConfig's template, the BuildConfig | generate, update in place | push, link | an update keeps a part and replaces a part | after any updates, what a creation would have made |
| local configuration, preferences (`pkg/config`, `pkg/preference`, `pkg/util/config_util.go`) | two YAML files, a copy in memory per process | create, set, unset, storages, URLs, environment, delete --all | every command | rewritten in place; several terminals; a process that dies; slices changed while ranged over | a command changes only its own key; a file is never left half written |
| projects, applications (`pkg/project`, `pkg/application`, `cli/project`, `cli/application`, `context.go`) | the kubeconfig's namespace, projects, labels | create, set, delete, list, app delete, the project of a push | every command | projects start and end in the background; the namespace is shared by all terminals; watches end | a command works where it was told; "deleted" means gone |
| builder images (`pkg/catalog`, `occlient.go` GetImageStream and its callers) | two lists of image streams, the type in the configuration | catalog, validation in create, resolution in push | the API server, imports | lists and Gets are separate requests, of spec and of status | what is accepted can be used, and is what was asked for |
| helpers (`pkg/util`) | none | random names, DNS names, quantities, ports, globs | all | boundaries | equal to their definition |
| create flags, describe, completion, login, notify, log, entry points | none of their own | queries, text | all | - | - |

`PROJECT.json` lists all of them with their files and, under `hazards`, the
lines where something can go wrong that a test would hardly reach.

## 2 Modules and code

### Watch.tla

`odo watch` with the PushLocal it calls for every batch: three actors.

* The developer writes, deletes and renames files; fsnotify queues an event for
  each (`Write`, `Delete`, `Rename`: external).
* The event goroutine (watch.go 160-256) has something in `hand`, then takes the
  lock and updates the lists (`HandleUpdate`, `HandleRemove`, `HandleStop`,
  `HandleError`).  `LockFree` is the lock: the main loop holds it during a push
  and for ever once it has returned.
* The main loop (269-320): `QuietPeriod` is the debounce, `TickReturn` the
  return of watchError, `TickPush` a push's start, then one action for each call
  of PushLocal that can fail or be overtaken by an edit: `StartPush`,
  `PropagateDeletes`, `TarHeader`/`TarFile` per file, `TarExit`, `CopyFile`,
  `Build`, and their failures.  `EndPush` and `AbandonBatch` empty the lists.

A path is a member of `Files`, a content a member of `Contents` or `Absent`.
`lost` is a history variable: the files whose change the program itself gave up
(a failed push; a deletion of a file that is already listed as changed).  The
lists of the code are sets here: only membership reaches rm and tar.

The source of the component is a directory, as `TickPush` takes it; the branch
for a single file (watch.go 300-303), which pushes that file whatever changed, is
left out.  The files of the model are not directories themselves.  Two error paths
of the handlers are left out because no run of the program reaches them: the globs
were compiled by the first walk before any event can come (IsGlobExpMatch, 215), and
filepath.Rel (238) gets two absolute paths.  An ignore pattern that does not
compile shows another way: the error ends the walk of addRecursiveWatch unseen
(`filepath.Walk`'s result is not used), and odo watches nothing.  When a copy
fails, the model ends the tar goroutine with it; in the program that goroutine may
live on until its next write to the pipe, in which it fails; it changes neither
the pod nor the lists.

### ServiceLink.tla

`odo service create`, `odo service delete`, `odo link`, `odo unlink`, run by any
number of clients.  One step is one API call; `pc[p]` names the next call of
client p, `snap[p]` the envFrom its Get has returned, `todo[p]` what the loop of
a service deletion has still to unlink.  `envFrom` is a sequence because the
unlink patch works by index: `PatchDC` applies the patch to the list as it is at
that moment (`LinkPatch`, `UnlinkPatch`, `FirstIndex`).  `ApiError` lets the next
call fail and follows the code's error path (`OnError`: some commands end,
`service create --wait` goes on to wait, a failed unlink is only a warning);
`Interrupt` ends the command where it is.  `Provision` and `Unbind` are the
service catalog.  The cluster removes an object when its deletion is accepted.
`alone` is a ghost variable: no command has yet been started while another ran.

### ComponentPush.tla and Reconcile.tla

`odo push` and `odo delete` of one component.  One user runs commands one after
the other, each push with any configuration (`Config`): source, storages with
sizes, URLs with ports, environment, git reference.  `pc` is the next API call;
the tree of calls is that of createCmpIfNotExistsAndApplyCmpConfig: existence
check, storage.Push (`StorageDelete`, `StorageCreate`), then a creation
(`CreateImageStream` ... `CreateRoot`) or an update (`GetDC` ... `DeleteRoot`,
one way for each pair of old and new source), then the URLs and, for local
sources, the copy.  `seen` is the DeploymentConfig an update has read and
`fresh` says nobody has written it since (the resourceVersion).  `Unmount` is
addOrRemoveVolumeAndVolumeMount, whose loop ranges over a slice that its body
shortens (module RangeLoop).  `Stop` is a failed call or an interrupt between any two
calls; the delete notes a failed call and goes on (`DeleteStep`).  `Link` and
`Unlink` are another client (module ServiceLink).  `clean` is a ghost variable:
no command has stopped halfway; a command that fails before it has changed
anything leaves it true.

A size is what the configuration says, a string; the cluster keeps the quantity
it stands for.  `Canonical` is that conversion (ParseQuantity and
Quantity.String): a size has one canonical form, and a string that is no size has
none, so that the creation of its claim fails.  storage.Push compares the string
of the configuration with the canonical form of the claim, as strings.

Abstracted: the path of a storage is its name (the file holds a path once);
local and binary sources are one kind; the order in which new volumes are
mounted is any order (a Go map); ports, resource limits and the image are left
out; a rollout succeeds when the pod can start, else it times out (the ways the
wait itself can be wrong are in module Rollout); a linked secret
is taken to exist (ServiceLink is about that); the container's environment is
one value; pushes are plain ones (`--config` and `--source` leave a part of the
push out and are not modelled).

Reconcile is what the two commands promise: `Ask` for a component, or for none,
then `Refuse` with nothing changed, or `Begin` and end with `Succeed`, the
component that was asked for, or with `Stop`, any component.  `CommandsReconcile`
says that ComponentPush implements it.  Under the mapping `Promise` the component
that runs (`Seen`) is its description, the kind of source, the sizes of the
mounted storages and the names of the URLs; or `NotThere`, when there is not one
object of it; or `Broken`.  A command works on it from the step that leaves
`Undecided`.

### LocalConfig.tla, Settings.tla and RangeLoop.tla

The two settings files, and every command that changes them, run from
`Terminals`.  A command is `Start`, `Context` (the command's own read of the
configuration, with the refusals that come before any question), `Read` (the file
is read into `mem`), `Ask` (a question the user may decline), `Write` (the file
is opened and truncated, `Empty`), `Save` (the copy is written over what is
there) or `Remove`; `Die` ends a process anywhere.  `DeleteLoop` is the deletion
from a slice that is being ranged over.  A list is there or not (`has`): deleting
its last entry leaves it, empty, and only `config unset` makes it nil again, which
is what IsSet and a second `unset` see.

`Over` is what two writes to one file make of it: one document, or a short
one with the end of a longer one behind it (`Torn`).  What such a file reads as
follows the YAML library: it fails to parse, or the keys of the remains override or
add to those of the document (`Blends`), and since `Storage` and `Url` come last
in the file, a list may go on with entries of the other document, the first of
them cut (`Continued`), also with entries of the other list (`Stripped`).
`Reads` is all of these; `mixed` is a ghost variable: some command has read such
a file as anything but its short document.

RangeLoop is that loop, as Go runs it: `Turn` is one turn, `Shift` what a removal
does to the array under the slice, `RangeLoop` the state after the last turn.
`Unmount` (ComponentPush) and `DeleteLoop` (LocalConfig) are its uses.

`Settings` is the abstract specification: a file is a set of settings, a command
changes it in one step as if it were alone, a crash loses all or nothing.
`CommandsAreAtomic` says that LocalConfig with one terminal implements it, for
each of the two files (`Local`, `Preference`); the refinement mapping `Abstract`
takes the document of the process that is writing from its memory.

### Rollout.tla

Several pushes to one component.  `Read` is GetDeploymentConfigFromName before
the update, `StartBuild`, `FollowBuildLog` and `WaitForBuildToFinish` the build
of git sources, `Update` PatchCurrentDC with its version check, `StartDeployment`
the instantiation, `Watch` and `WaitAndGetDC` the wait for `DesiredRevision`,
`TimesOut` its timeout.  `Refused` is a refused call, with what the code does
then: an error, or the panic on a watch that was not opened.  `LoseWatch` closes
a channel.  The cluster (external) is `Trigger`, `NewImage`, `Observe`,
`RolloutEnds`, `BuildEnds`.  `seen` is the first event a watch has delivered that
satisfies IsDCRolledOut: the events before it have no effect.

### PodWait.tla

WaitAndGetPod with its goroutine (`Receive`, `RoutineEnds`, `Close`), the main
goroutine (`Begin`, `Answered`, `TimesOut`, then the deferred `Unwatch` and
`MainEnds`), the spinner's goroutine (`SpinnerStops`), and the caller (`Proceed`: a
link waits twice).  The unbuffered channels are rendezvous: the send and the
receive are one step.  `EndChecks`, `EndStops` and `EndMarks` are the three
steps of Status.End, which both goroutines run without synchronisation.  The
pods and what the watches deliver are external.

### PodTemplate.tla

The DeploymentConfig as pushes write it: `Create` (NewAppS2I,
BootstrapSupervisoredS2I with the Generate* functions of templates.go),
`Update` (`ToGit`, `ToSupervised`, with what PatchCurrentDC carries over) and the
links in between.  One push is one step; its interruptions are those of
ComponentPush.  `Created` is the reference: the templates a push of the same
settings to an empty project would make.  `Kept` is the Go loop that appends
what passes a test (volumes, mounts, init containers, secrets); `SupervisedEnv`
are the variables of a creation, `UpdatedEnv` those of an update, which passes
none of the user's on.

### Project.tla

`odo project create | set | delete | list`, the project of `odo push`, `odo app
delete`, step by step from several terminals.  `current` is the namespace in the
shared kubeconfig, `ns` the namespace a command has read when it started.
`RequestDeletion`, `WatchDeletion` and `AwaitDeletion` are DeleteProject: a
deletion, then a watch, then events; `WatchLost` is the server ending the watch.
`DeleteKind` is Client.Delete, kind by kind, with `NoteFailure`.  `Ready` and
`Finish` are the cluster.  `since` records what happened to the project after
the command's request.

`Arguments` is what NewContext finds: the project named on the command line or in
the directory and, when neither names one, that of the kubeconfig at the start of
the command (`home`); `Told` is the project these name.  `app delete -o json`
shows nothing and asks nobody (`ValidateApp` goes straight to the sweep);
`Approved` is an answer, `--force`, or `-o json`.

### BuilderImage.tla

The catalog's lists (`ReadList`, four requests in a fixed order), what it offers
(`OfferImages`), the check of a type against two such lists (`CheckType`,
`CheckVersion`), and the resolution in a push (`GetStream`, `GetFallback`,
`GetImage`), while image streams are created, imported, tagged, hidden and
removed.  The catalog reads the tags of a stream's spec, the push those of its
status.  A type given by digest (`name@sha256:...`) does not get as far as
ParseImageName's branch for it: ParseComponentImageName, which the check of a type
comes before, cuts at the colon, so `Parses` has tags only.

### MC modules and proofs

Each `MC` module defines the small sets and the symmetry of its configurations;
`WatchProofs`, `ServiceLinkProofs`, `ComponentPushProofs`, `LocalConfigProofs`,
`RolloutProofs`, `PodProofs` (PodWait and PodTemplate), `ProjectProofs` and
`BuilderImageProofs` hold the theorems.
Definitions whose name has an underscore (`EndPush_KeepsArchive`) are variants
of the definition below them with a plausible mistake; no specification uses
them.  Each shows that the property named in `PROJECT.json` notices the mistake.

## 3 Runs

| run | configuration | instance | what it shows |
|---|---|---|---|
| watch | MCWatch | 1 watched and 1 ignored file, 2 contents, 3 edits, 1 fault, FairSpec | nothing is silently lost; quiet means synced; every change is pushed or accounted for; a stop ends the watch; ignored paths of the pod are untouched |
| services | MCServiceLink | 2 clients, 1 service, a component secret, 2 components, 4 commands, 1 fault, FairSpec | a binding never outlives its instance; between the two calls of a creation or deletion a client is alone there; until two commands overlap links are unique, and resolve when nothing failed; commands end but for the wait for a secret that cannot come |
| links_race | MCServiceLinkRace | 2 clients, 1 component, 6 commands, no fault | counterexample to LinkRemovedOnRequest: the patch does not avoid the race it is said to avoid |
| push | MCComponentPush | 2 storages, 3 sizes of which two are one quantity written differently, 1 URL, both sources, 1 linked secret, 1 fault | what exists after any sequence of pushes and deletes; data and links are kept; a command is refused, done as asked or reported as failed (Reconcile) |
| push_env | MCComponentPushDocs | 1 environment, 1 fault | counterexample to EnvIsPushed |
| config | MCLocalConfig | 1 terminal, both files, 4 commands, 1 death | the commands on each file are the atomic steps of Settings, also when a process dies |
| config_two | MCLocalConfigTwo | 2 terminals, 4 commands, 1 death | what survives when commands overlap: entries stay unique until a command has read a mixture of two documents, a file is empty only while it is written or after a death |
| podwait | MCPodWait | a push or a link, with and without spinner, 3 undelivered events, 2 faults | the answer is the new pod, one right mark, every wait returns and leaves no goroutine but after a timeout |
| rollout | MCRollout | 2 pushes, both sources, 1 new image, 1 fault, patient timeout | a push ends well only with its own change deployed; no deployment after a failed build; why a push may time out; every push ends |
| template | MCPodTemplate | local, binary, git; 2 storages, 2 locations, ports, resources, user variables, 1 secret | after any pushes the template is one a creation would make; mounts and volumes agree; each variable is there once |
| project | MCProject | 2 terminals, 2 projects, 1 application, 2 commands of any kind, 1 fault, FairSpec | "deleted" means gone; app delete that succeeds leaves nothing; commands work where they were told, or where the kubeconfig was when they started; the wait of a deletion ends |
| image | MCBuilderImage | 2 tags, 1 change of a stream, 1 fault, 2 commands | what is accepted can be resolved, to what was asked for; one failure hides nothing; hidden tags are not offered |

Bounds, and why they are enough:

* *Watch.* `MaxEdits` and `MaxFaults` are in the guards of `Edit` and `Fault`.
  Three edits give the cases that matter for a file: changed while it is
  archived, changed and deleted in one batch, deleted and made again across two
  batches, renamed onto the other.  The proofs are for any number of files.
* *ServiceLink.* `MaxCommands` and `MaxFaults` bound `Start` and the failures.
  A service's objects do not interact with another's.  Four commands of two
  clients make two overlapping creations and deletions, and, one after the other,
  a service linked to both components before it is deleted, or a secret linked
  again behind another one.  MCServiceLinkOne has the same link invariants for one
  client with seven commands and three secrets.
* *ComponentPush.* The loop in `Unmount` shows its panic and its skip from two
  adjacent removals on.  Two sizes and a second spelling of one are the three
  outcomes of the comparison.  The run has no git reference: nothing that it
  checks reads one; MCComponentPushDocs has.  There is no bound on the number of
  commands: only failures are bounded (`MaxFaults`).
* *LocalConfig.* Two names and two places make every clash of entries; two
  terminals with two commands each make every overlap of two reads and two
  writes, and four commands the mixture of two documents with an entry twice
  (section 5).  The parameters stand for the kinds the code distinguishes: plain,
  parsed, a pair, of the preferences.
* *Rollout.* Two pushes and one new image are the three ways a revision can be
  taken by somebody else; one fault is one lost watch, refused call, failed build
  or failed rollout.
* *PodWait.* A watch delivers at most the end of the old pod and two phases of
  the new one, so 3 undelivered events are no restriction in practice.
* *PodTemplate.* No bound on the pushes; two storages give a set that grows,
  shrinks and is exchanged.  The user's variables have the names of odo's own,
  which is where one could hide the other.
* *Project.* Two terminals with a command each are every overlap of two
  commands; the second project is where a switched namespace leads.
* *BuilderImage.* One stream name in two namespaces is where the code can
  confuse streams; one change between two requests makes every list stale.
* *Symmetry* permutes contents, files, clients, storages, sizes, terminals or
  values; it is used only in runs without liveness properties.

Deadlock: `ComponentPush` never stops, and deadlock is checked.  `ServiceLink`,
`LocalConfig`, `Project` and `BuilderImage` stop when their commands are used
up, `Watch`, `Rollout` and `PodWait` when the program has returned; in
`PodTemplate` an update may leave everything as it is, which is no deadlock in
the code.  These say CHECK_DEADLOCK FALSE.

Fairness.  The Go scheduler runs a runnable goroutine, timers fire, and an API
call answers or fails: so every specification with liveness has weak fairness of
odo's own next step, and nothing else unless it is named here.

* `Watch!FairSpec`: the goroutine's receive and handle steps, the quiet period,
  the tick, the steps of PushLocal.  Nothing makes the developer edit or stop.
* `ServiceLink!FairSpec`: the next step of every running command and the service
  catalog; nobody has to start a command.
* `Rollout`: the steps of a push and the end of a build, which the wait for a
  build has no timeout for; the cluster's other steps only where the timeout is
  `Patient`, that is, longer than they take.
* `PodWait`: the main goroutine, the goroutine of each wait, the spinner's.
  Neither the pods nor the faults have to do anything.
* `Project!FairSpec`: the steps of odo, except the user's answer to a question,
  and the end of every watch (the API server closes watches after some minutes).
  `PatientSpec` has a server that removes projects and never ends a watch.

No strong fairness is used.

## 4 Proofs

All theorems are for every value of the constants that meets the assumptions of
the module.

*WatchProofs.*  `IInv == TypeOK /\ QueueInv /\ PhaseInv /\ CoverInv` is inductive
(`Inductive`), which gives `TypeCorrect`, `NoSilentLoss`, `QuietMeansSynced` and
`IgnoredAreSafe`.  NothingSilentlyLost is not inductive: a difference between
tree and pod can be of two kinds, repaired by a copy or by a deletion, and only a
queue whose last event for a path tells whether the path exists (`QueueInv`) ends
in the right list.  `CoverInv` says for each file which list holds it, also while
the archive is being made; `PhaseInv` ties the lists to the phase of the push.
The lemma of each conjunct has one step per action; those about one file
(`EditCover`, `HandleCover`, `AbandonCover`, `PushCover`) carry the argument.

*ServiceLinkProofs.*  `IInv` adds to the properties where a command can be
(`CommandInv`) and, as long as no two commands have overlapped, that one client at
most is busy (`AloneInv`), patches what it has read and links only what is not
linked (`SnapInv`).  It gives `TypeCorrect`, `BindingsKeepTheirInstance` and
`ServicesHaveOneOwner` for every interleaving, and `LinksAreUnique`,
`UnlinkRemovesItsLink` and `LinkedServicesExist` while `alone`, without which all
three are false: UnlinkRemovesItsLink is about what run links_race refutes for
commands that overlap.  LinksResolve speaks of the moments between commands;
`ResolveInv` says what makes it true: while nothing failed, a link to a service that is gone belongs to a component that the
running deletion still has to unlink, with as many patches left for it as it has
such links, and a link that is being made is to a service that is there.

*ComponentPushProofs.*  `ReadInv`: until its write an update knows the
DeploymentConfig or knows that somebody changed it, and a creation runs only
without one; it gives `LocalPushKeepsLinks` and, for the configuration a storage
is deleted under, `DataIsKept`.  `DeleteInv`: after n calls of a delete without
an error the first n kinds are gone, and no push step can run in between; it
gives `DeleteIsComplete`; TLC checks that property as a part of
CommandsReconcile.

`PushInv` is TypeOK, ReadInv and, for each part of a configuration, that what the
push has made of it stays made until its end: the claims of the storages
(`StorageInv`), the source and its image (`SourceInv`), the routes
(`RoutesInv`).  It gives `TypeCorrect` and `PushesMatch`.  As long as no command
has stopped halfway, `ClaimsInv` and `ObjectsInv` say at every call which claims
and objects exist, also in the middle of a push or a delete; with PushInv,
DeleteInv and `MountsOnce` (no storage is mounted twice, whatever failed before)
this gives `CleanIsExact`.  The assumptions are that `Storages` is finite, as a
file holds finitely many, and `SizesAssumption`: `Canonical` of a canonical size is
that size, and a size may have no canonical form.

`CommandsAreReconciled` is the refinement of Reconcile.  Its lemmas follow the
ways a command goes on: `PushStepEnds` tells how each call of a push continues or
ends it, and `PushReconciles`, `DeleteReconciles`, `RefusalReconciles` and
`StopReconciles` which abstract step that is.  A step from an existence check is
`Begin` or `Refuse`, the last step `Succeed` or `Stop`, and everything between
is a stutter, except a call of a delete that fails (`Falter`).  A success is what
was asked for because of PushedMatchesConfig and DeletedLeavesNothing in the
state it leads to; a delete that noted an error before its last call is `Stop`
because ObjectsInv excludes that error while `clean` holds.

These, and the proofs about LocalConfig, need to know what the loop of RangeLoop
leaves.  Its states are a recursive function over the turns, and the library's
induction cannot be cited here; but the least turn at which a claim fails exists
(`Least`, from the well-foundedness of the naturals), so `TurnsExist` and
`TurnsFacts` give the loop's equations, and `LoopKeeps` and `LoopRemovesOne` what
holds after its last turn, each by a least counterexample.

*LocalConfigProofs.*  `NeverLeftEmpty`, for any number of terminals: a file is
empty only while a command writes it or after a death.  The property is inductive
with the shape of the state (`Shape`): `WritersStay` shows that whoever emptied a
file is still at its `Save` after any step of the others, and what `Save` leaves is
never empty, whatever it meets in the file (`OverIsNotEmpty`).

`EntriesStayUnique`, for any number of terminals: TypeOK and EntriesUnique, under
`NoLists` (nobody uses `config set storage`, whose entries have no name, so that
two of them clash; the configuration MCLocalConfigList shows such an entry).
EntriesUnique speaks of what the files hold and the commands have in memory, until
a command has read the remains of two documents as one (`mixed`); without the
exception it is false (TornIsUnique, section 5).  It is not inductive:
`EntriesInv` adds that what a command has checked of its copy still holds when it
changes it (`Fits`), and that the short document of a torn file, which a later
command may read, has unique entries too.  A deletion by name then finds just
one entry of the name, the case in which the loop neither skips nor panics
(`LoopRemovesOne`, `DeleteFacts`): uniqueness is what the deletion relies on, and
the deletion keeps it.

`CommandsAtomic`: for one terminal, and under NoLists, LocalConfig implements
Settings for both files.  `OneInv` says that a command changes what is in the
file now: its copy is what reading the file would give, a file that is being
saved is empty, none is torn.  `AppliedContent` shows that each command changes
the content as its step of Settings does, `StepView` that every other step of
LocalConfig leaves the content alone, removes the file or loses it; so `Write` is
the step of Settings, `Save` a stutter, `Die` at the save `Lose`.

*RolloutProofs.*  For any number of pushes.  `IInv` is `Shape`, `Sound(dc)` (a
deployment asked for and not started has not been observed; what is deployed came
from the template) and, for each push, `ClientInv`.  Its parts follow a change on
its way: what a push has read is no newer than the cluster (`CopyInv`); from the
update on its change is in the template, and in every deployment after the one it
had read (`ChangeInv`); such a deployment is there or coming (`ComingInv`); the
event that ends a wait has the change (`SeenInv`), and an open watch has delivered
it if it is there (`WatchInv`).  RolledOutHasChange alone is not inductive: nothing
in it relates the number of a deployment to what is in its template.  Every step
of the cluster or of another push is a `Follows`, under which a push `LooksOn`, so
that only a push's own steps need an argument of their own.  `PatientTimeouts`
comes from ComingInv and WatchInv: when nothing more will happen, what was coming
has come.

*PodProofs, PodWait.*  For any number of events and faults.  AnswerIsNewPod needs
the content of the queues: what a watch can still deliver is among `Shown`, and a
running old pod is in a queue only in the first wait of a link, which waits for a
pending pod (`QueueInv`, `OnlyTheNewPod`).  MarkMatches needs who is where:
`RunningRoutine` shows that a goroutine that still does something belongs to the
current wait, and `MarkInv` that, without a timeout, the spinner's line is shown
exactly as long as neither has marked it.

*PodProofs, PodTemplate.*  For any images, storages, variables and secrets and any
series of pushes and links.  `TemplateInv` says what the settings of the last push
determine of the DeploymentConfig: `Framed` that it is their `Template` but for
the image, the ports, the links, the variables and the two lists; `EnvOf` what
those variables are; `Holds` that each list has just the volumes of these
settings, each once.  None of the three invariants is inductive without it: an
update carries lists and variables over, so that a volume too many would be
copied again and again.  Each kind of update is followed through its calls:
`CopyFacts`, `StripFacts`, `UpdatedFramed`, `PatchedFacts`, `RelinkedFacts`, on
the lemmas about lists (`KeptFacts`, `ConcatFacts`, `UniqueAppendFacts`).  What
the loop `Kept` leaves is shown by the least turn at which it would be wrong, as
for RangeLoop above; `Kept` and `UniqueAppend` are for that reason recursive
functions and explicit sequences.
It gives the type invariant (`TemplateTypeCorrect`), TemplateIsValid
(`TemplatesAreValid`) and OneValueEach (`ValuesAreUnique`).  AsIfCreated needs
`OfType` besides, that the image which runs is the settings': an update replaces
neither the image of a supervised container nor the builder image of a
BuildConfig.  So `DeployedAsIfCreated` is about the behaviours in which no push
changes the type of the component (`[][SameType]_pushed`); in the others
AsIfCreated is false (MCPodTemplateType), and the run has one type.
`DeployedButTheType` says of all behaviours that nothing but the image and the
builder can then differ.

*ProjectProofs.*  For any number of terminals, projects, commands and refused
requests.  `IInv` says for each terminal where its command can be (`PlaceInv`),
that its namespace is the one of its flag, of its directory, or else of the
kubeconfig (`NsInv`),
and that its watch holds no deletion older than its request (`GoneInv`); the last
is what DeletedMeansGone needs, because the wait reads only the type of an event.
Nearly every step of a command ends it or moves it to another label, so the
lemmas `EndKeeps`, `PassesOn` and `GotoKeeps` do most of the work.
`WorksOnlyWhereTold` follows from `NsInv` step by step: `NsInv` keeps the project
of a command without flag and directory at the kubeconfig's when it started, and
`PlaceInv` says that a sweep was agreed to or asked for with `-o json`.  SweptClean needs `SInv`
besides: the kinds a sweep no longer has to delete are gone, unless it noted a
failure or an object was added since (`SweepInv`), and there are no kinds it does
not know (`KindInv`).  The type invariant (`TypeCorrect`) adds to it that a command
that needs a project or an application was given one (`NamesInv`).

*BuilderImageProofs.*  For any set of tags and any number of changes, failures
and commands.  `IInv` says what a command has in hand at each of its requests.
`StreamInv` relates the tags the catalog reads of a stream to those the push reads;
`ReadInv` says that the lists read so far are what the streams hold, as long as no
stream changed, and that a list without an answer is a fault; `SearchInv` what a
push knows of its type and of the first namespace when it asks the second;
`FoundInv` what the images found so far are.  The properties speak of the end of a command
and follow from these without another step.

Every type invariant is proved or checked by a run, or both.

Only model-checked: liveness (ChangesReachPod, StopHonoured, CommandsEnd,
RoutinesEnd, WaitReturns, PushesEnd, DeleteReturns), which is beyond the provers
used here.  Every other property of a passing run is a theorem.  The properties
of section 5 are refuted by TLC; there is nothing to prove.

## 5 Where the code differs from what it says

Listed as findings, with the quotations in `PROJECT.json`: push_env, the second
push drops the environment variables; and links_race, "the whole point of using
patch is to avoid race conditions" (occlient.go 2400).  Two clients link a component
that has no link; each has read an empty envFrom, each patch writes the whole of
it, and the second removes the first one's link.  An unlink by index removes
what is at that index when it arrives.

Further ones, each with a property that TLC refutes in the configuration named.
Where a configuration has several, one is active and the others are commented
out.

| configuration | property | what happens |
|---|---|---|
| MCWatchStale | NoStaleFiles | a file modified and deleted in one batch stays in the pod (watch.go 237) |
| MCWatchExit | PushNeverExits | an error while archiving ends the process (occlient.go 2815) although a failed push is meant not to break the watch |
| MCServiceLinkDelete | DeletableWhenListed | a service without binding, which link tells the user to delete, cannot be deleted (occlient.go 2085) |
| MCServiceLinkStatus | LinkedIsListed | only the first envFrom entry of the first linked component counts (service.go 265) |
| MCComponentPushDocs | DeletableWhenItExists | two storages removed in one push make the component unreadable, thus neither pushable nor deletable |
| MCComponentPushDocs | CreatableWhenItDoesNot | a creation, or a delete, that stopped halfway can be neither repeated nor undone |
| MCComponentPushDocs | LinksSurviveGitPush | a push with git sources drops every link (occlient.go 1489) |
| MCComponentPushDocs | PushedIsReachable | a creation that stopped after the DeploymentConfig is completed by an update, which makes neither service nor secrets |
| MCComponentPushDocs | UrlPortIsPushed | a URL whose port changed keeps its old port (component.go 616) |
| MCComponentPushDocs | RefIsBuilt | the second push of git sources forgets the reference (occlient.go 1305) |
| MCLocalConfigLost | OldVarsKept | two terminals: the second write undoes the first one's variable ("keeping the old env vars as well", config/set.go) |
| MCLocalConfigTwo, with it for EntriesUnique | TornIsUnique | two terminals: n1 and n2 are added in one, n2 in the other, which has read an empty list; both truncate, the longer document is written first, and the file may read as n2 twice (config.go 72) |
| MCLocalConfigList | StoragesHaveNames | `config set storage` stores an entry without a name |
| MCLocalConfigProject | ProjectAsChosen | the project chosen in the dialogue of create is not the one written |
| MCPodWaitDebug | WaitReturns | with debug output the spinner has no goroutine, and the second stop blocks for ever (spinner.go 120) |
| MCPodWaitLink | LinkSeesRollout | a new pod that runs before link begins to wait for a pending one makes it time out |
| MCRolloutDocs | BuildIsAwaited | a closed watch ends the wait for a build as if it had succeeded (occlient.go 1771) |
| MCRolloutDocs | OkMeansAvailable | a rollout that exceeded its deadline, was cancelled or paused counts as rolled out (utils.go 62) |
| MCRolloutDocs | ErrorsAreReturned | a watch that is refused panics in w.Stop (occlient.go 1793) |
| MCRolloutDocs | NoVainWait | a deployment that was asked for and not started when the configuration was read takes the change along; the revision after it never comes |
| MCPodTemplateType | AsIfCreated | a component whose type changes is not what a creation would make |
| MCProjectLate | DeleteReturns | a project that is gone before the watch is opened is waited for until the server ends the watch |
| MCProjectDocs | ReadyWhenSaid | `project create --wait` returns before the project is ready: the watch it made is shadowed (create.go 95, occlient.go 511) |
| MCProjectDocs | DeletedAppIsGone | `app delete` leaves the services it lists as "will be deleted" (application.go 103) |
| MCProjectDocs | FlagIsAProject | a project given by flag is used though it does not exist (context.go 179) |
| MCProjectDocs | ShownWhereTheyAre | `project list` shows applications of the current project with every project (project.go 58) |
| MCBuilderImagePanic | ErrorsOut | a stream in the current namespace without the tag, and a refused Get in the other, end in a call of a method on a nil error (occlient.go 697) |
| MCBuilderImageHidden | HiddenIsNotOffered | a tag hidden in one namespace is offered when the other has a tag of that name (catalog.go 193) |

Noted while reading, with no state space to check: a storage of size `1024Mi` is
created by the first push and refused as a mismatch with `1Gi` by every later one,
though nothing changed (storage.go 412; run push has such configurations, and
finds that nothing else goes wrong with them); `odo watch --delay 0` is
accepted and documented, and time.NewTicker panics on it (watch.go 270); a stop
sent after WatchAndPush has returned panics, since it closes ExtChan (158);
a request together with only a minimum or only a maximum replaces both bounds by
the request (util.go 359); `odo project delete` switches the current project
before it asks, and stays switched when the user declines.

## 6 Not modelled

* addRecursiveWatch: Watch starts with every watch registered.  Directories that
  appear while the tree is walked are the next module of the plan.
* The flags and dialogues of `odo create`, `odo update`, `odo describe`: they
  check, ask, and call what LocalConfig models.
* The watch and the push of a single file (a binary component), see Watch above.
* Random names, DNS names, quantities and globs of `pkg/util`: functions of one
  call; the parsing of a type is part of BuilderImage.
* Completion, service catalog listings, login, notification, log, argument
  parsing: they read or print.
* `--config` and `--source` pushes, which leave a part of the push out.

The vendored fsnotify, the API server, its controllers, the service catalog and
the kubelet are modelled only as far as `src/pkg` uses them, and marked external
in `PROJECT.json`.

## 7 Plan

Done, in this order: Watch, ServiceLink, ComponentPush, LocalConfig with
Settings, PodWait, Rollout, PodTemplate, Project, BuilderImage; proofs of all of
their safety properties, and of the refinements of Settings and Reconcile.

Next, most important first:

1. **RecursiveWatch** - addRecursiveWatch against directories made, renamed and
   removed while it walks; composed with Watch through the set of watched
   directories.
2. **Push as a whole** - ComponentPush with Rollout in place of a wait that
   succeeds or fails, for one storage and one URL.

The number of runs is kept at about a dozen.  New modules take the place of runs whose
configuration stays beside them, and runs of one module are merged where one
instance answers both questions.
