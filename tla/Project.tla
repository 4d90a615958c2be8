----------------------------- MODULE Project -----------------------------
(***************************************************************************)
(* Projects and applications: `odo project create | set | delete | list`,  *)
(* the part of `odo push` that makes the project it needs, and `odo app    *)
(* delete`, run from several terminals against one cluster.                *)
(*                                                                         *)
(* The terminals share one kubeconfig, whose namespace is the current      *)
(* project, and the cluster, on which a project is made and removed in     *)
(* the background: a request only starts either.  A command reads its      *)
(* namespace once, when it starts, and works on it to the end.             *)
(***************************************************************************)
EXTENDS Naturals, Sequences, FiniteSets

CONSTANTS
  Terminals,    \* the shells odo is run from
  Projects,     \* names of projects
  Apps,         \* names of applications
  None,         \* no project in the directory, or no --project flag
  Jobs,         \* the commands an instance runs: a subset of JobKinds
  MaxCommands,  \* how many commands are started
  MaxFaults     \* how many requests the API server refuses for no reason

ASSUME NoneIsNoProject == None \notin Projects

JobKinds == {"create", "set", "delete", "list", "push", "app delete"}

ASSUME JobsAreKnown == Jobs \subseteq JobKinds

VARIABLES
  phase,    \* what the cluster says of each project
  objs,     \* the objects that carry an application label
  current,  \* namespace of the current context in the kubeconfig
  pc,       \* where the command of each terminal is
  job,      \* its arguments
  ns,       \* client.Namespace
  todo,     \* kinds of objects it has still to make or delete
  failed,   \* some request of it failed
  seen,     \* the watch of DeleteProject: its events, and whether it is open
  shown,    \* what `project list -o json` printed
  commands, faults,
  since     \* what happened to the project since the command's own request

vars == <<phase, objs, current, pc, job, ns, todo, failed, seen, shown,
          commands, faults, since>>

Phases == {"none", "starting", "active", "terminating"}

\* "other" stands for every labelled kind that Delete sweeps apart from
\* deployment configs; "instance" is a service instance.
Kinds == {"dc", "other", "instance"}

Objects == [project : Projects, app : Apps, kind : Kinds]

Events == {"added", "modified", "deleted", "error"}

Closed == [events |-> <<>>, open |-> FALSE]

NoJob == [kind |-> "none", project |-> None, dir |-> None, flag |-> None,
          home |-> None, app |-> None, wait |-> FALSE, json |-> FALSE,
          agreed |-> FALSE]

Nothing == [ready |-> FALSE, gone |-> FALSE, added |-> FALSE]

-----------------------------------------------------------------------------
(* What the API server answers. *)

\* GetProject: a project not found or forbidden is no error, just nil.
Exists(n) == phase[n] \in {"active", "terminating"}

\* The application labels of one kind of object in a namespace.
LabelValues(n, k) == {o.app : o \in {x \in objs : x.project = n /\ x.kind = k}}

\* ListInProject: deployment configs and service instances are looked at.
AppsIn(n) == LabelValues(n, "dc") \cup LabelValues(n, "instance")

MayFail == faults < MaxFaults /\ faults' = faults + 1

Works == faults' = faults

\* A watch on one project by name: the terminals that see what happens to n.
Watching(n) == {t \in Terminals : seen[t].open /\ job[t].project = n}

Send(n, es) ==
  seen' = [t \in Terminals |->
             IF t \in Watching(n)
             THEN [seen[t] EXCEPT !.events = @ \o es] ELSE seen[t]]

-----------------------------------------------------------------------------
Goto(t, label) == pc' = [pc EXCEPT ![t] = label]

\* The command prints its result; what it was asked and did stay visible.
End(t, ok) ==
  /\ Goto(t, IF ok THEN "done" ELSE "error")
  /\ seen' = [seen EXCEPT ![t] = Closed]

\* resolveProject: the flag, else the directory, else the kubeconfig.  What
\* project.Exists says of it is not looked at.
ResolveProject(dir, flag) ==
  IF flag # None THEN flag ELSE IF dir # None THEN dir ELSE current

FirstStep(kind) ==
  CASE kind = "create" -> "request"
    [] kind \in {"set", "delete"} -> "validate"
    [] kind = "list" -> "names"
    [] kind = "push" -> "check"
    [] kind = "app delete" -> "exists"

\* What NewContext finds: the command line, the directory, and, if neither names
\* a project, that of the kubeconfig, `home`.  Only application commands take
\* --project; a directory to push has a project in its configuration; the
\* directory does not matter to a command that names its project.  `-o json` is
\* tried for `app delete`, whose steps it changes, and there without --project.
Arguments ==
  {j \in [kind : Jobs, project : Projects \cup {None}, dir : Projects \cup {None},
          flag : Projects \cup {None}, home : Projects \cup {None},
          app : Apps \cup {None}, wait : BOOLEAN, json : BOOLEAN, agreed : {FALSE}] :
     /\ (j.project # None) <=> (j.kind \in {"create", "set", "delete"})
     /\ (j.home # None) <=> (j.project = None /\ j.dir = None /\ j.flag = None)
     /\ (j.app # None) <=> (j.kind \in {"push", "app delete"})
     /\ j.kind = "push" => j.dir # None
     /\ j.dir # None => j.kind \in {"list", "push", "app delete"}
     /\ j.flag # None => j.kind = "app delete"
     /\ j.wait => j.kind = "create"
     /\ j.json => j.kind = "app delete" /\ j.flag = None}

Start(t, j) ==
  /\ pc[t] \in {"idle", "done", "error"}
  /\ commands < MaxCommands
  /\ j.home \in {current, None}
  /\ commands' = commands + 1
  /\ job' = [job EXCEPT ![t] = j]
  /\ ns' = [ns EXCEPT ![t] = ResolveProject(j.dir, j.flag)]
  /\ Goto(t, FirstStep(j.kind))
  /\ failed' = [failed EXCEPT ![t] = FALSE]
  /\ todo' = [todo EXCEPT ![t] = <<>>]
  /\ since' = [since EXCEPT ![t] = Nothing]
  /\ UNCHANGED <<phase, objs, current, seen, shown, faults>>

-----------------------------------------------------------------------------
(* odo project create, set and delete *)

\* ProjectRequests().Create: the project is there, and not usable yet.
RequestProject(n) ==
  /\ phase[n] = "none"
  /\ phase' = [phase EXCEPT ![n] = "starting"]

\* CreateNewProject.  With --wait the watch it opens first is assigned to a
\* variable of the inner block: after the request there is nothing to wait on,
\* so both ways of it are the same.
CreateNewProject(t) ==
  /\ pc[t] = "request"
  /\ \/ /\ Works
        /\ RequestProject(job[t].project)
        /\ Send(job[t].project, <<"added">>)
        /\ Goto(t, "switch")
     \/ /\ \/ Works /\ phase[job[t].project] # "none"
           \/ MayFail
        /\ End(t, FALSE)
        /\ UNCHANGED phase
  /\ UNCHANGED <<objs, current, job, ns, todo, failed, shown, commands, since>>

\* Validate of set and delete.
ValidateProject(t) ==
  /\ pc[t] = "validate"
  /\ \/ Works /\ Exists(job[t].project) /\ Goto(t, "switch") /\ UNCHANGED seen
     \/ Works /\ ~Exists(job[t].project) /\ End(t, FALSE)
     \/ MayFail /\ End(t, FALSE)
  /\ UNCHANGED <<phase, objs, current, job, ns, todo, failed, shown, commands, since>>

\* SetCurrentProject: the kubeconfig and the client.
SetCurrent(t) ==
  /\ current' = job[t].project
  /\ ns' = [ns EXCEPT ![t] = job[t].project]

\* The end of create and of set.
UseProject(t) ==
  /\ pc[t] = "switch" /\ job[t].kind # "delete"
  /\ \/ Works /\ SetCurrent(t) /\ End(t, TRUE)
     \/ MayFail /\ End(t, FALSE) /\ UNCHANGED <<current, ns>>
  /\ UNCHANGED <<phase, objs, job, todo, failed, shown, commands, since>>

\* `project delete` switches before it asks, to list what will be deleted.
ShowProject(t) ==
  /\ pc[t] = "switch" /\ job[t].kind = "delete"
  /\ \/ Works /\ SetCurrent(t) /\ Goto(t, "info") /\ UNCHANGED seen
     \/ MayFail /\ End(t, FALSE) /\ UNCHANGED <<current, ns>>
  /\ UNCHANGED <<phase, objs, job, todo, failed, shown, commands, since>>

\* printDeleteProjectInfo and printDeleteAppInfo: reads only.  In a project
\* that is gone they are refused.
PrintDeleteInfo(t) ==
  /\ pc[t] = "info"
  /\ \/ Works /\ Exists(ns[t]) /\ Goto(t, "ask") /\ UNCHANGED seen
     \/ Works /\ ~Exists(ns[t]) /\ End(t, FALSE)
     \/ MayFail /\ End(t, FALSE)
  /\ UNCHANGED <<phase, objs, current, job, ns, todo, failed, shown, commands, since>>

ToSweep == <<"dc", "other">>

\* ui.Proceed, or --force.
Proceed(t) ==
  /\ pc[t] = "ask"
  /\ \/ /\ job' = [job EXCEPT ![t].agreed = TRUE]
        /\ Goto(t, IF job[t].kind = "delete" THEN "delete" ELSE "sweep")
        /\ todo' = [todo EXCEPT ![t] = IF job[t].kind = "delete" THEN <<>> ELSE ToSweep]
        /\ UNCHANGED seen
     \/ End(t, job[t].kind # "delete") /\ UNCHANGED <<job, todo>>
  /\ UNCHANGED <<phase, objs, current, ns, failed, shown, commands, faults, since>>

\* DeleteProject, its request: the project starts to go away.  Of one that is
\* on its way already the server may say either.
RequestDeletion(t) ==
  LET n == job[t].project IN
  /\ pc[t] = "delete"
  /\ \/ /\ Works
        /\ phase[n] # "none"
        /\ phase' = [phase EXCEPT ![n] = "terminating"]
        /\ Send(n, <<"modified">>)
        /\ Goto(t, "watch")
     \/ /\ \/ Works /\ phase[n] \in {"none", "terminating"}
           \/ MayFail
        /\ End(t, FALSE)
        /\ UNCHANGED phase
  /\ UNCHANGED <<objs, current, job, ns, todo, failed, shown, commands, since>>

\* Only then is the watch opened: it starts from what is there now.
WatchDeletion(t) ==
  /\ pc[t] = "watch"
  /\ \/ /\ Works
        /\ seen' = [seen EXCEPT ![t] = [events |-> <<>>, open |-> TRUE]]
        /\ Goto(t, "await")
     \/ MayFail /\ End(t, FALSE)
  /\ UNCHANGED <<phase, objs, current, job, ns, todo, failed, shown, commands, since>>

\* A bug: the phase is tested, and the type of the event is not.
EndsTheWait_Any(e) == e \in Events

\* The event that ends the wait: the project object comes with an empty phase.
\* An error event carries a Status, no Project, and is passed over.
EndsTheWait(e) == e = "deleted"

AwaitDeletion(t) ==
  /\ pc[t] = "await"
  /\ seen[t].events # <<>>
  /\ IF EndsTheWait(Head(seen[t].events))
     THEN End(t, TRUE)
     ELSE seen' = [seen EXCEPT ![t].events = Tail(@)] /\ UNCHANGED pc
  /\ UNCHANGED <<phase, objs, current, job, ns, todo, failed, shown, commands,
                 faults, since>>

\* A bug: a closed channel is read again, and is closed still.
WatchLost_Retries(t) == pc[t] = "await" /\ seen[t] = Closed /\ UNCHANGED vars

\* A closed channel: "received unexpected signal".
WatchLost(t) ==
  /\ pc[t] = "await"
  /\ seen[t] = Closed
  /\ End(t, FALSE)
  /\ UNCHANGED <<phase, objs, current, job, ns, todo, failed, shown, commands,
                 faults, since>>

-----------------------------------------------------------------------------
(* odo project list *)

\* GetProjectNames, then for each of them ListInProject of the client's own
\* namespace.
DescribeProjects(t, names) ==
  {[project |-> n, active |-> n = ns[t], apps |-> AppsIn(ns[t])] : n \in names}

ListProjects(t) ==
  /\ pc[t] = "names"
  /\ shown' = [shown EXCEPT ![t] =
       DescribeProjects(t, {n \in Projects : Exists(n)})]
  /\ End(t, TRUE)
  /\ UNCHANGED <<phase, objs, current, job, ns, todo, failed, commands, faults, since>>

-----------------------------------------------------------------------------
(* odo push, as far as the project goes *)

ToPush == <<"other", "dc">>

PushTo(t) ==
  /\ ns' = [ns EXCEPT ![t] = job[t].dir]
  /\ todo' = [todo EXCEPT ![t] = ToPush]
  /\ Goto(t, "apply")

\* PushOptions.Complete
CheckProject(t) ==
  /\ pc[t] = "check"
  /\ \/ Works /\ Exists(job[t].dir) /\ PushTo(t) /\ UNCHANGED seen
     \/ Works /\ ~Exists(job[t].dir) /\ Goto(t, "make") /\ UNCHANGED <<ns, todo, seen>>
     \/ MayFail /\ End(t, FALSE) /\ UNCHANGED <<ns, todo>>
  /\ UNCHANGED <<phase, objs, current, job, failed, shown, commands, since>>

MakeProject(t) ==
  /\ pc[t] = "make"
  /\ \/ /\ Works
        /\ RequestProject(job[t].dir)
        /\ Send(job[t].dir, <<"added">>)
        /\ PushTo(t)
     \/ /\ \/ Works /\ phase[job[t].dir] # "none"
           \/ MayFail
        /\ End(t, FALSE)
        /\ UNCHANGED <<phase, ns, todo>>
  /\ UNCHANGED <<objs, current, job, failed, shown, commands, since>>

\* Creating the component's objects, the deployment config last.  A project
\* that is still starting may take them or not.
Apply(t) ==
  LET o == [project |-> ns[t], app |-> job[t].app, kind |-> Head(todo[t])] IN
  /\ pc[t] = "apply"
  /\ \/ /\ Works
        /\ phase[ns[t]] \in {"starting", "active"}
        /\ objs' = objs \cup {o}
        /\ todo' = [todo EXCEPT ![t] = Tail(@)]
        /\ IF Len(todo[t]) = 1 THEN End(t, TRUE) ELSE UNCHANGED <<pc, seen>>
        /\ since' = [s \in Terminals |->
             IF ns[s] = o.project /\ job[s].app = o.app
             THEN [since[s] EXCEPT !.added = TRUE] ELSE since[s]]
     \/ /\ \/ Works /\ phase[ns[t]] # "active"
           \/ MayFail
        /\ End(t, FALSE)
        /\ UNCHANGED <<objs, todo, since>>
  /\ UNCHANGED <<phase, current, job, ns, failed, shown, commands>>

-----------------------------------------------------------------------------
(* odo app delete *)

\* Validate.  Without the service catalog only the deployment configs count.
\* With `-o json` nothing is shown and nobody asked.
ValidateApp(t) ==
  /\ pc[t] = "exists"
  /\ \/ /\ Works
        /\ Exists(ns[t]) /\ job[t].app \in AppsIn(ns[t])
        /\ Goto(t, IF job[t].json THEN "sweep" ELSE "info")
        /\ todo' = [todo EXCEPT ![t] = IF job[t].json THEN ToSweep ELSE <<>>]
        /\ UNCHANGED seen
     \/ /\ \/ Works /\ ~(Exists(ns[t]) /\ job[t].app \in AppsIn(ns[t]))
           \/ MayFail
        /\ End(t, FALSE)
        /\ UNCHANGED todo
  /\ UNCHANGED <<phase, objs, current, job, ns, failed, shown, commands, since>>

\* A bug: the namespace is taken from the kubeconfig again.
DeleteCollection_Current(n, a, k) ==
  objs' = {o \in objs : ~(o.project = current /\ o.app = a /\ o.kind = k)}

\* Client.Delete: one collection after the other; a failure is noted and the
\* sweep goes on.
DeleteCollection(n, a, k) ==
  objs' = {o \in objs : ~(o.project = n /\ o.app = a /\ o.kind = k)}

\* A bug: the error of one collection is dropped.
NoteFailure_Drops(t) == UNCHANGED failed

NoteFailure(t) == failed' = [failed EXCEPT ![t] = TRUE]

DeleteKind(t) ==
  /\ pc[t] = "sweep"
  /\ todo[t] # <<>>
  /\ \/ /\ Works
        /\ Exists(ns[t])
        /\ DeleteCollection(ns[t], job[t].app, Head(todo[t]))
        /\ UNCHANGED failed
     \/ /\ \/ Works /\ ~Exists(ns[t])
           \/ MayFail
        /\ NoteFailure(t)
        /\ UNCHANGED objs
  /\ todo' = [todo EXCEPT ![t] = Tail(@)]
  /\ since' = IF Len(todo[t]) = 2
              THEN [since EXCEPT ![t].added = FALSE] ELSE since
  /\ UNCHANGED <<phase, current, pc, job, ns, seen, shown, commands>>

DeleteEnds(t) ==
  /\ pc[t] = "sweep"
  /\ todo[t] = <<>>
  /\ End(t, ~failed[t])
  /\ UNCHANGED <<phase, objs, current, job, ns, todo, failed, shown, commands,
                 faults, since>>

-----------------------------------------------------------------------------
(* The cluster *)

Requested(t) == pc[t] \in {"watch", "await"}

Ready(n) ==
  /\ phase[n] = "starting"
  /\ phase' = [phase EXCEPT ![n] = "active"]
  /\ Send(n, <<"modified">>)
  /\ since' = [t \in Terminals |->
       IF job[t].project = n THEN [since[t] EXCEPT !.ready = TRUE] ELSE since[t]]
  /\ UNCHANGED <<objs, current, pc, job, ns, todo, failed, shown, commands, faults>>

\* The last finalizer goes, then the namespace.
Finish(n) ==
  /\ phase[n] = "terminating"
  /\ phase' = [phase EXCEPT ![n] = "none"]
  /\ objs' = {o \in objs : o.project # n}
  /\ Send(n, <<"modified", "deleted">>)
  /\ since' = [t \in Terminals |->
       IF job[t].project = n /\ Requested(t)
       THEN [since[t] EXCEPT !.gone = TRUE] ELSE since[t]]
  /\ UNCHANGED <<current, pc, job, ns, todo, failed, shown, commands, faults>>

\* The server ends every watch after a while, at times with an error event.
CloseWatch(t) ==
  /\ seen[t].open
  /\ \E es \in {<<>>, <<"error">>} :
       seen' = [seen EXCEPT ![t] = [events |-> @.events \o es, open |-> FALSE]]
  /\ UNCHANGED <<phase, objs, current, pc, job, ns, todo, failed, shown, commands,
                 faults, since>>

\* `odo service create` in a project: a service instance of the application.
CreateInstance(n, a) ==
  LET o == [project |-> n, app |-> a, kind |-> "instance"] IN
  /\ phase[n] = "active"
  /\ o \notin objs
  /\ objs' = objs \cup {o}
  /\ since' = [t \in Terminals |->
       IF ns[t] = n /\ job[t].app = a THEN [since[t] EXCEPT !.added = TRUE] ELSE since[t]]
  /\ UNCHANGED <<phase, current, pc, job, ns, todo, failed, seen, shown, commands, faults>>

-----------------------------------------------------------------------------
Init ==
  /\ phase \in [Projects -> {"none", "active"}]
  /\ objs = {}
  /\ current \in Projects
  /\ pc = [t \in Terminals |-> "idle"]
  /\ job = [t \in Terminals |-> NoJob]
  /\ ns = [t \in Terminals |-> None]
  /\ todo = [t \in Terminals |-> <<>>]
  /\ failed = [t \in Terminals |-> FALSE]
  /\ seen = [t \in Terminals |-> Closed]
  /\ shown = [t \in Terminals |-> {}]
  /\ commands = 0
  /\ faults = 0
  /\ since = [t \in Terminals |-> Nothing]

Step(t) ==
  \/ CreateNewProject(t) \/ ValidateProject(t) \/ UseProject(t) \/ ShowProject(t)
  \/ PrintDeleteInfo(t) \/ Proceed(t)
  \/ RequestDeletion(t) \/ WatchDeletion(t) \/ AwaitDeletion(t) \/ WatchLost(t)
  \/ ListProjects(t)
  \/ CheckProject(t) \/ MakeProject(t) \/ Apply(t)
  \/ ValidateApp(t) \/ DeleteKind(t) \/ DeleteEnds(t)

Cluster ==
  \/ \E n \in Projects : Ready(n) \/ Finish(n)
  \/ \E t \in Terminals : CloseWatch(t)
  \/ \E n \in Projects, a \in Apps : CreateInstance(n, a)

Next ==
  \/ \E t \in Terminals : Step(t)
  \/ \E t \in Terminals, j \in Arguments : Start(t, j)
  \/ Cluster

Spec == Init /\ [][Next]_vars

\* odo goes on, except that nobody need answer its question; the server gives
\* up every watch in the end, whatever becomes of the project.
FairSpec ==
  /\ Spec
  /\ \A t \in Terminals : WF_vars(Step(t)) /\ WF_vars(CloseWatch(t))

\* The same, with a server that removes projects and leaves watches open.
PatientSpec ==
  /\ Spec
  /\ \A t \in Terminals : WF_vars(Step(t))
  /\ \A n \in Projects : WF_vars(Finish(n))

-----------------------------------------------------------------------------
(* The user has agreed, or with `-o json` is not asked. *)
Approved(t) == job[t].agreed \/ job[t].json

(* Every variable keeps its shape; a command that deletes has been agreed to, *)
(* and an open watch belongs to a command that waits for a deletion.          *)
TypeOK ==
  /\ phase \in [Projects -> Phases]
  /\ objs \subseteq Objects
  /\ current \in Projects
  /\ ns \in [Terminals -> Projects \cup {None}]
  /\ failed \in [Terminals -> BOOLEAN]
  /\ \A t \in Terminals :
       /\ pc[t] \in {"delete", "watch", "await"} => job[t].agreed
       /\ pc[t] = "sweep" => Approved(t)
       /\ seen[t].open => pc[t] = "await"
       /\ seen[t].events \in Seq(Events)
       /\ todo[t] \in Seq(Kinds)
       /\ pc[t] = "apply" => todo[t] # <<>>

(* `project delete` that says "Deleted project" is right: the project was      *)
(* gone at some moment after its request, whatever other terminals did to the  *)
(* name meanwhile (DeleteProject reads the type of the event, not the phase).  *)
DeletedMeansGone ==
  \A t \in Terminals :
    job[t].kind = "delete" /\ pc[t] = "done" => since[t].gone

(* `app delete` that ends without an error has removed every component object  *)
(* of the application in its project, unless a push added some meanwhile:      *)
(* Client.Delete goes on after a failure, and must not forget it.              *)
SweptClean ==
  \A t \in Terminals :
    job[t].kind = "app delete" /\ Approved(t) /\ pc[t] = "done" /\ ~since[t].added
    => \/ phase[ns[t]] = "none"
       \/ \A o \in objs : o.project = ns[t] /\ o.app = job[t].app => o.kind = "instance"

(* Objects come and go only where somebody said so: a command works on the     *)
(* project of its flag, of its directory, or else of the kubeconfig when it    *)
(* was started, though other terminals switch the current project under it,    *)
(* and a project is given up only by a `project delete` of that very name      *)
(* which was agreed to.                                                        *)
Told(t, n) ==
  CASE job[t].kind = "delete"             -> job[t].project = n
    [] job[t].kind = "push"               -> job[t].dir = n
    [] job[t].kind \notin {"delete", "push"} ->
         n = IF job[t].flag # None THEN job[t].flag
             ELSE IF job[t].dir # None THEN job[t].dir ELSE job[t].home

ObjectsWhereTold ==
  \A o \in (objs \ objs') \cup (objs' \ objs) :
     \/ \E t \in Terminals :
          /\ pc[t] \in {"sweep", "apply"}
          /\ Told(t, o.project) /\ o.app = job[t].app
          /\ pc[t] = "sweep" => Approved(t)
     \/ phase[o.project] = "terminating" /\ phase'[o.project] = "none"
     \/ o.kind = "instance" /\ o \in objs'

ProjectsWhereTold ==
  \A n \in Projects :
    phase'[n] = "terminating" /\ phase[n] # "terminating" =>
      \E t \in Terminals :
        job[t].kind = "delete" /\ job[t].agreed /\ Told(t, n) /\ pc[t] = "delete"

WorksWhereTold == [][ObjectsWhereTold /\ ProjectsWhereTold]_vars

(* The wait of `project delete` ends: the event comes, or the server gives up  *)
(* the watch and the closed channel ends it (occlient.go:2138).  Under         *)
(* PatientSpec it is false: a project that is gone before the watch is opened  *)
(* leaves nothing to wait for.                                                 *)
DeleteReturns ==
  \A t \in Terminals : (pc[t] = "await") ~> (pc[t] \in {"done", "error"})

-----------------------------------------------------------------------------
(* What the documentation says and the code does not do. *)

(* --wait: "Wait until the project is ready" (cli/project/create.go:95).       *)
ReadyWhenSaid ==
  \A t \in Terminals :
    job[t].kind = "create" /\ job[t].wait /\ pc[t] = "done" => since[t].ready

(* "This application has following service that will be deleted"               *)
(* (cli/application/application.go:103): after it, there is no application.    *)
DeletedAppIsGone ==
  \A t \in Terminals :
    job[t].kind = "app delete" /\ Approved(t) /\ pc[t] = "done" /\ ~since[t].added
    => phase[ns[t]] = "none" \/ job[t].app \notin AppsIn(ns[t])

(* "check that the specified project exists and use it" (context.go:179).      *)
FlagIsAProject ==
  [][\A t \in Terminals :
       pc'[t] = "exists" /\ pc[t] # "exists" /\ job'[t].flag # None => Exists(job'[t].flag)]_vars

(* "Get apps from project" (pkg/project/project.go:58): each project is shown  *)
(* with its own applications.                                                  *)
ShownWhereTheyAre ==
  [][\A t \in Terminals : pc[t] = "names" /\ pc'[t] = "done" =>
       \A r \in shown'[t] : r.apps = AppsIn(r.project)]_vars

=============================================================================
