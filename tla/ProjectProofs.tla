--------------------------- MODULE ProjectProofs ---------------------------
(* What is proved about Project, for any number of terminals, projects,      *)
(* applications, commands and refused requests.                              *)
EXTENDS Project, SequenceTheorems, TLAPS

Labels == {"idle", "request", "validate", "switch", "info", "ask", "delete", "watch",
           "await", "names", "check", "make", "apply", "exists", "sweep", "done", "error"}

JobTypes == [kind : JobKinds \cup {"none"}, project : Projects \cup {None},
             dir : Projects \cup {None}, flag : Projects \cup {None},
             home : Projects \cup {None},
             app : Apps \cup {None}, wait : BOOLEAN, json : BOOLEAN, agreed : BOOLEAN]

Marks == [ready : BOOLEAN, gone : BOOLEAN, added : BOOLEAN]
Views == [events : Seq(Events), open : BOOLEAN]

\* Events that do not end the wait for a deletion.
Quiet == Events \ {"deleted"}

Shape ==
  /\ phase \in [Projects -> Phases]
  /\ pc \in [Terminals -> Labels] /\ job \in [Terminals -> JobTypes]
  /\ seen \in [Terminals -> Views] /\ since \in [Terminals -> Marks]
  /\ DOMAIN ns = Terminals

\* The commands that get to a label.
KindsAt(label) ==
  CASE label = "request" -> {"create"}
    [] label = "validate" -> {"set", "delete"}
    [] label = "switch" -> {"create", "set", "delete"}
    [] label \in {"info", "ask"} -> {"delete", "app delete"}
    [] label \in {"delete", "watch", "await"} -> {"delete"}
    [] label = "names" -> {"list"}
    [] label \in {"check", "make", "apply"} -> {"push"}
    [] label \in {"exists", "sweep"} -> {"app delete"}
    [] OTHER -> JobKinds \cup {"none"}

\* Where a command can be, and what it has been told by then.
PlaceInv(t) ==
  /\ job[t].kind \in KindsAt(pc[t])
  /\ pc[t] \in {"delete", "watch", "await"} => job[t].agreed
  /\ pc[t] = "sweep" => Approved(t)
  /\ job[t].kind = "push" => job[t].dir # None /\ job[t].flag = None
  /\ seen[t].open => pc[t] = "await"

\* The namespace is the one of the flag or of the directory, if there is one;
\* only a command without either goes by the kubeconfig it started with.
NsInv(t) ==
  /\ pc[t] = "apply" => ns[t] = job[t].dir
  /\ job[t].kind = "app delete" =>
       /\ job[t].flag # None => ns[t] = job[t].flag
       /\ job[t].flag = None /\ job[t].dir # None => ns[t] = job[t].dir
       /\ job[t].flag = None /\ job[t].dir = None => ns[t] = job[t].home

\* What a watch holds of a deletion happened after the request.
GoneInv(t) ==
  /\ job[t].kind = "delete" /\ pc[t] = "done" => since[t].gone
  /\ pc[t] = "await" => since[t].gone \/ seen[t].events \in Seq(Quiet)

TInv(t) == PlaceInv(t) /\ NsInv(t) /\ GoneInv(t)

IInv == Shape /\ \A t \in Terminals : TInv(t)

-----------------------------------------------------------------------------
\* A terminal that only looks on, while its watch and its marks may change.
LEMMA LooksOn ==
  ASSUME IInv, NEW q \in Terminals,
         pc'[q] = pc[q], job'[q] = job[q], ns'[q] = ns[q],
         seen'[q].open => seen[q].open,
         since[q].gone => since'[q].gone,
         \/ pc[q] = "await" => since'[q].gone
         \/ seen[q].events \in Seq(Quiet) => seen'[q].events \in Seq(Quiet)
  PROVE  TInv(q)'
  <1>1. TInv(q)
    BY DEF IInv
  <1>2. PlaceInv(q)'
    BY <1>1 DEF TInv, PlaceInv, Approved
  <1>3. NsInv(q)'
    BY <1>1 DEF TInv, NsInv
  <1>4. GoneInv(q)'
    BY <1>1 DEF TInv, GoneInv
  <1>5. QED
    BY <1>2, <1>3, <1>4 DEF TInv

\* An event that ends nobody's wait is sent.
LEMMA SendIsQuiet ==
  ASSUME IInv, NEW n, NEW e \in Quiet, Send(n, <<e>>)
  PROVE  /\ seen' \in [Terminals -> Views]
         /\ \A q \in Terminals :
              /\ seen'[q].open = seen[q].open
              /\ seen[q].events \in Seq(Quiet) => seen'[q].events \in Seq(Quiet)
              /\ ~seen[q].open => seen'[q] = seen[q]
  <1>1. ASSUME NEW q \in Terminals
        PROVE  /\ seen'[q] \in Views /\ seen'[q].open = seen[q].open
               /\ seen[q].events \in Seq(Quiet) => seen'[q].events \in Seq(Quiet)
               /\ ~seen[q].open => seen'[q] = seen[q]
    <2>1. seen[q] \in Views /\ <<e>> \in Seq(Quiet) /\ <<e>> \in Seq(Events)
      BY DEF IInv, Shape, Quiet
    <2>2. CASE q \notin Watching(n)
      BY <2>1, <2>2 DEF Send
    <2>3. CASE q \in Watching(n)
      <3>1. seen'[q] = [seen[q] EXCEPT !.events = seen[q].events \o <<e>>] /\ seen[q].open
        BY <2>3 DEF Send, Watching
      <3>2. seen[q].events \o <<e>> \in Seq(Events)
        BY <2>1, ConcatProperties DEF Views
      <3>3. seen[q].events \in Seq(Quiet) => seen[q].events \o <<e>> \in Seq(Quiet)
        BY <2>1, ConcatProperties
      <3>4. QED
        BY <2>1, <3>1, <3>2, <3>3 DEF Views
    <2>4. QED
      BY <2>2, <2>3
  <1>2. seen' = [q \in Terminals |-> seen'[q]]
    BY DEF Send
  <1>3. QED
    BY <1>1, <1>2

\* A command that ends: nobody else notices.
LEMMA EndKeeps ==
  ASSUME IInv, NEW t \in Terminals, NEW ok \in BOOLEAN, End(t, ok),
         UNCHANGED <<phase, job>>, DOMAIN ns' = Terminals,
         \/ UNCHANGED since
         \/ /\ since' \in [Terminals -> Marks]
            /\ \A q \in Terminals : since[q].gone => since'[q].gone,
         \A q \in Terminals \ {t} : ns'[q] = ns[q],
         job[t].kind # "app delete" \/ ns'[t] = ns[t],
         ok => job[t].kind # "delete" \/ since[t].gone
  PROVE  IInv'
  <1>1. Closed \in Views /\ ~Closed.open
    <2>1. <<>> \in Seq(Events)
      BY EmptySeq
    <2>2. QED
      BY <2>1 DEF Closed, Views
  <1>2. /\ pc' = [pc EXCEPT ![t] = IF ok THEN "done" ELSE "error"]
        /\ seen' = [seen EXCEPT ![t] = Closed]
    BY DEF End, Goto
  <1>3. Shape'
    BY <1>1, <1>2 DEF IInv, Shape, Labels
  <1>4. ASSUME NEW q \in Terminals, q # t PROVE TInv(q)'
    <2>1. /\ pc'[q] = pc[q] /\ job'[q] = job[q] /\ ns'[q] = ns[q]
          /\ seen'[q] = seen[q]
          /\ since[q].gone => since'[q].gone
      BY <1>2, <1>4 DEF IInv, Shape
    <2>2. QED
      BY <2>1, LooksOn
  <1>5. TInv(t)'
    <2>1. /\ pc'[t] = IF ok THEN "done" ELSE "error"
          /\ seen'[t] = Closed /\ TInv(t) /\ job[t] \in JobTypes
      BY <1>2 DEF IInv, Shape
    <2>2. PlaceInv(t)'
      BY <1>1, <2>1 DEF TInv, PlaceInv, KindsAt, JobTypes
    <2>3. NsInv(t)' /\ GoneInv(t)'
      BY <2>1 DEF TInv, NsInv, GoneInv
    <2>4. QED
      BY <2>2, <2>3 DEF TInv
  <1>6. QED
    BY <1>3, <1>4, <1>5 DEF IInv

\* A command that goes on to another label, and whose watch stays as it is.
LEMMA GotoKeeps ==
  ASSUME IInv, NEW t \in Terminals, NEW label \in Labels \ {"done", "await"},
         Goto(t, label), pc[t] # "await",
         phase' \in [Projects -> Phases],
         seen' \in [Terminals -> Views], UNCHANGED since,
         job' \in [Terminals -> JobTypes], DOMAIN ns' = Terminals,
         \A q \in Terminals :
           /\ seen'[q].open = seen[q].open
           /\ seen[q].events \in Seq(Quiet) => seen'[q].events \in Seq(Quiet)
           /\ q # t => job'[q] = job[q] /\ ns'[q] = ns[q],
         job'[t].kind \in KindsAt(label),
         label \in {"delete", "watch"} => job'[t].agreed,
         label = "sweep" => Approved(t)',
         job'[t].kind = "push" => job'[t].dir # None /\ job'[t].flag = None,
         NsInv(t)'
  PROVE  IInv'
  <1>1. pc' = [pc EXCEPT ![t] = label]
    BY DEF Goto
  <1>2. Shape'
    BY <1>1 DEF IInv, Shape
  <1>3. ASSUME NEW q \in Terminals, q # t PROVE TInv(q)'
    <2>1. pc'[q] = pc[q] /\ job'[q] = job[q] /\ ns'[q] = ns[q] /\ since'[q] = since[q]
      BY <1>1, <1>3 DEF IInv, Shape
    <2>2. QED
      BY <2>1, LooksOn
  <1>4. TInv(t)'
    <2>1. pc'[t] = label /\ ~seen[t].open
      BY <1>1 DEF IInv, Shape, TInv, PlaceInv
    <2>2. PlaceInv(t)'
      BY <2>1 DEF PlaceInv
    <2>3. GoneInv(t)'
      BY <2>1 DEF GoneInv
    <2>4. QED
      BY <2>2, <2>3 DEF TInv
  <1>5. QED
    BY <1>2, <1>3, <1>4 DEF IInv

\* What the label of a command says of it.
LEMMA AtLabel ==
  ASSUME IInv, NEW t \in Terminals
  PROVE  /\ PlaceInv(t) /\ NsInv(t) /\ GoneInv(t)
         /\ job[t] \in JobTypes /\ job[t].kind \in KindsAt(pc[t])
         /\ pc[t] # "await" => ~seen[t].open
         /\ pc \in [Terminals -> Labels] /\ phase \in [Projects -> Phases]
         /\ seen \in [Terminals -> Views] /\ job \in [Terminals -> JobTypes]
         /\ DOMAIN ns = Terminals
  BY DEF IInv, Shape, TInv, PlaceInv

-----------------------------------------------------------------------------
(* The commands.                                                           *)

LEMMA StartKeeps == ASSUME IInv, NEW t \in Terminals, NEW j \in Arguments, Start(t, j) PROVE IInv'
  <1>1. /\ j \in JobTypes /\ j.kind \in JobKinds /\ j.home \in {current, None}
        /\ j.kind = "app delete" /\ j.dir = None /\ j.flag = None => j.home # None
        /\ j.kind = "push" => j.dir # None /\ j.flag = None
    BY JobsAreKnown DEF Arguments, JobTypes, Start
  <1>2. /\ pc[t] # "await" /\ pc' = [pc EXCEPT ![t] = FirstStep(j.kind)]
        /\ job' = [job EXCEPT ![t] = j]
        /\ ns' = [ns EXCEPT ![t] = ResolveProject(j.dir, j.flag)]
        /\ since' = [since EXCEPT ![t] = Nothing]
        /\ UNCHANGED <<phase, seen>>
    BY DEF Start, Goto
  <1>3. /\ FirstStep(j.kind) \in {"request", "validate", "names", "check", "exists"}
        /\ j.kind \in KindsAt(FirstStep(j.kind)) /\ Nothing \in Marks
    BY <1>1 DEF FirstStep, KindsAt, JobKinds, Nothing, Marks
  <1>4. Shape'
    BY <1>1, <1>2, <1>3 DEF IInv, Shape, Labels
  <1>5. ASSUME NEW q \in Terminals, q # t PROVE TInv(q)'
    <2>1. /\ pc'[q] = pc[q] /\ job'[q] = job[q] /\ ns'[q] = ns[q] /\ seen'[q] = seen[q]
          /\ since'[q] = since[q]
      BY <1>2, <1>5 DEF IInv, Shape
    <2>2. QED
      BY <2>1, LooksOn
  <1>6. TInv(t)'
    <2>1. /\ pc'[t] = FirstStep(j.kind) /\ job'[t] = j /\ seen'[t] = seen[t] /\ ~seen[t].open
          /\ ns'[t] = ResolveProject(j.dir, j.flag)
      BY <1>2, AtLabel DEF IInv, Shape
    <2>2. PlaceInv(t)' /\ NsInv(t)' /\ GoneInv(t)'
      BY <1>1, <1>3, <2>1 DEF PlaceInv, NsInv, GoneInv, ResolveProject
    <2>3. QED
      BY <2>2 DEF TInv
  <1>7. QED
    BY <1>4, <1>5, <1>6 DEF IInv

LEMMA CreateKeeps == ASSUME IInv, NEW t \in Terminals, CreateNewProject(t) PROVE IInv'
  <1>1. pc[t] = "request" /\ job[t].kind = "create" /\ UNCHANGED <<job, ns, since>>
    BY AtLabel DEF CreateNewProject, KindsAt
  <1>2. CASE RequestProject(job[t].project) /\ Send(job[t].project, <<"added">>) /\ Goto(t, "switch")
    <2>1. /\ "added" \in Quiet /\ phase' \in [Projects -> Phases]
      BY <1>2, AtLabel DEF Quiet, Events, RequestProject, Phases
    <2>2. /\ seen' \in [Terminals -> Views]
          /\ \A q \in Terminals :
               /\ seen'[q].open = seen[q].open
               /\ seen[q].events \in Seq(Quiet) => seen'[q].events \in Seq(Quiet)
      BY <1>2, <2>1, SendIsQuiet
    <2>3. NsInv(t)' /\ "create" \in KindsAt("switch") /\ "switch" \in Labels \ {"done", "await"}
      BY <1>1, <1>2, AtLabel DEF NsInv, KindsAt, Labels, Goto
    <2>4. QED
      BY <1>1, <1>2, <2>1, <2>2, <2>3, AtLabel, GotoKeeps
  <1>3. CASE End(t, FALSE) /\ UNCHANGED phase
    BY <1>1, <1>3, AtLabel, EndKeeps
  <1>4. QED
    BY <1>2, <1>3 DEF CreateNewProject

\* A step that only goes on to another label.
LEMMA PassesOn ==
  ASSUME IInv, NEW t \in Terminals, NEW label \in Labels \ {"done", "await", "apply"},
         Goto(t, label), pc[t] # "await",
         UNCHANGED <<phase, seen, since, job>>, DOMAIN ns' = Terminals,
         \A q \in Terminals \ {t} : ns'[q] = ns[q],
         job[t].kind # "app delete" \/ ns'[t] = ns[t],
         job[t].kind \in KindsAt(label), label \notin {"delete", "watch", "sweep"}
  PROVE  IInv'
  <1>1. pc'[t] = label
    BY AtLabel DEF Goto
  <1>2. NsInv(t)'
    BY <1>1, AtLabel DEF NsInv
  <1>3. job[t].kind = "push" => job[t].dir # None /\ job[t].flag = None
    BY AtLabel DEF PlaceInv
  <1>4. QED
    BY <1>2, <1>3, AtLabel, GotoKeeps

LEMMA ValidateKeeps == ASSUME IInv, NEW t \in Terminals, ValidateProject(t) PROVE IInv'
  <1>1. /\ pc[t] = "validate" /\ job[t].kind \in {"set", "delete"}
        /\ UNCHANGED <<phase, job, ns, since>> /\ "switch" \in Labels
        /\ job[t].kind \in KindsAt("switch")
    BY AtLabel DEF ValidateProject, KindsAt, Labels
  <1>2. CASE Goto(t, "switch") /\ UNCHANGED seen
    BY <1>1, <1>2, AtLabel, PassesOn
  <1>3. CASE End(t, FALSE)
    BY <1>1, <1>3, AtLabel, EndKeeps
  <1>4. QED
    BY <1>2, <1>3 DEF ValidateProject

LEMMA UseKeeps == ASSUME IInv, NEW t \in Terminals, UseProject(t) PROVE IInv'
  <1>1. /\ pc[t] = "switch" /\ job[t].kind \in {"create", "set"}
        /\ UNCHANGED <<phase, job, since>>
    BY AtLabel DEF UseProject, KindsAt
  <1>2. DOMAIN ns' = Terminals /\ \A q \in Terminals \ {t} : ns'[q] = ns[q]
    BY AtLabel DEF UseProject, SetCurrent
  <1>3. PICK ok \in BOOLEAN : End(t, ok)
    BY DEF UseProject
  <1>4. QED
    BY <1>1, <1>2, <1>3, EndKeeps

LEMMA ShowKeeps == ASSUME IInv, NEW t \in Terminals, ShowProject(t) PROVE IInv'
  <1>1. /\ pc[t] = "switch" /\ job[t].kind = "delete" /\ "delete" \in KindsAt("info")
        /\ UNCHANGED <<phase, job, since>> /\ "info" \in Labels
    BY DEF ShowProject, KindsAt, Labels
  <1>2. DOMAIN ns' = Terminals /\ \A q \in Terminals \ {t} : ns'[q] = ns[q]
    BY AtLabel DEF ShowProject, SetCurrent
  <1>3. CASE Goto(t, "info") /\ UNCHANGED seen
    BY <1>1, <1>2, <1>3, PassesOn
  <1>4. CASE End(t, FALSE)
    BY <1>1, <1>2, <1>4, EndKeeps
  <1>5. QED
    BY <1>3, <1>4 DEF ShowProject

LEMMA InfoKeeps == ASSUME IInv, NEW t \in Terminals, PrintDeleteInfo(t) PROVE IInv'
  <1>1. /\ pc[t] = "info" /\ job[t].kind \in KindsAt("ask") /\ "ask" \in Labels
        /\ UNCHANGED <<phase, job, ns, since>>
    BY AtLabel DEF PrintDeleteInfo, KindsAt, Labels
  <1>2. CASE Goto(t, "ask") /\ UNCHANGED seen
    BY <1>1, <1>2, AtLabel, PassesOn
  <1>3. CASE End(t, FALSE)
    BY <1>1, <1>3, AtLabel, EndKeeps
  <1>4. QED
    BY <1>2, <1>3 DEF PrintDeleteInfo

\* The user agrees, and the command may delete.
LEMMA ProceedKeeps == ASSUME IInv, NEW t \in Terminals, Proceed(t) PROVE IInv'
  <1>1. /\ pc[t] = "ask" /\ job[t].kind \in {"delete", "app delete"}
        /\ UNCHANGED <<phase, ns, since>> /\ job[t] \in JobTypes /\ DOMAIN job = Terminals
    BY AtLabel DEF Proceed, KindsAt
  <1>2. CASE /\ job' = [job EXCEPT ![t].agreed = TRUE]
             /\ Goto(t, IF job[t].kind = "delete" THEN "delete" ELSE "sweep")
             /\ UNCHANGED seen
    <2> DEFINE label == IF job[t].kind = "delete" THEN "delete" ELSE "sweep"
               j == [job[t] EXCEPT !.agreed = TRUE]
    <2>1. /\ j \in JobTypes /\ j.agreed /\ j.kind = job[t].kind /\ j.dir = job[t].dir
          /\ j.flag = job[t].flag /\ j.home = job[t].home
      BY <1>1 DEF JobTypes
    <2>2. job' = [job EXCEPT ![t] = j]
      BY <1>2
    <2>3. /\ job'[t] = j /\ job' \in [Terminals -> JobTypes]
          /\ \A q \in Terminals \ {t} : job'[q] = job[q]
      BY <2>1, <2>2, AtLabel
    <2>4. label \in Labels \ {"done", "await", "apply"} /\ j.kind \in KindsAt(label)
      <3>1. CASE job[t].kind = "delete"
        <4>1. label = "delete" /\ j.kind = "delete"
          BY <3>1, <2>1
        <4>2. "delete" \in Labels \ {"done", "await", "apply"} /\ "delete" \in KindsAt("delete")
          BY DEF Labels, KindsAt
        <4>3. QED
          BY <4>1, <4>2
      <3>2. CASE job[t].kind = "app delete"
        <4>1. label = "sweep" /\ j.kind = "app delete"
          BY <3>2, <2>1
        <4>2. "sweep" \in Labels \ {"done", "await", "apply"} /\ "app delete" \in KindsAt("sweep")
          BY DEF Labels, KindsAt
        <4>3. QED
          BY <4>1, <4>2
      <3>3. QED
        BY <1>1, <3>1, <3>2
    <2>5. NsInv(t)'
      <3>1. pc'[t] = label
        BY <1>2, AtLabel DEF Goto
      <3>2. /\ job'[t].kind = job[t].kind /\ job'[t].dir = job[t].dir
            /\ job'[t].flag = job[t].flag /\ job'[t].home = job[t].home
            /\ pc'[t] # "apply" /\ ns'[t] = ns[t]
        BY <1>1, <2>1, <2>3, <2>4, <3>1
      <3>3. QED
        BY <3>2, AtLabel DEF NsInv
    <2>6. Approved(t)'
      BY <2>1, <2>3 DEF Approved
    <2>7. QED
      BY <1>1, <1>2, <2>1, <2>3, <2>4, <2>5, <2>6, AtLabel, GotoKeeps
  <1>3. CASE End(t, job[t].kind # "delete") /\ UNCHANGED job
    BY <1>1, <1>3, AtLabel, EndKeeps
  <1>4. QED
    BY <1>2, <1>3 DEF Proceed

LEMMA RequestKeeps == ASSUME IInv, NEW t \in Terminals, RequestDeletion(t) PROVE IInv'
  <1> DEFINE n == job[t].project
  <1>1. /\ pc[t] = "delete" /\ job[t].kind = "delete" /\ UNCHANGED <<job, ns, since>>
        /\ job[t].agreed
    BY AtLabel DEF RequestDeletion, KindsAt, PlaceInv
  <1>2. CASE /\ phase' = [phase EXCEPT ![n] = "terminating"]
             /\ Send(n, <<"modified">>) /\ Goto(t, "watch")
    <2>1. /\ "modified" \in Quiet /\ phase' \in [Projects -> Phases]
      BY <1>2, AtLabel DEF Quiet, Events, Phases
    <2>2. /\ seen' \in [Terminals -> Views]
          /\ \A q \in Terminals :
               /\ seen'[q].open = seen[q].open
               /\ seen[q].events \in Seq(Quiet) => seen'[q].events \in Seq(Quiet)
      BY <1>2, <2>1, SendIsQuiet
    <2>3. NsInv(t)' /\ "delete" \in KindsAt("watch") /\ "watch" \in Labels \ {"done", "await"}
      BY <1>1, <1>2, AtLabel DEF NsInv, KindsAt, Labels, Goto
    <2>4. QED
      BY <1>1, <1>2, <2>1, <2>2, <2>3, AtLabel, GotoKeeps
  <1>3. CASE End(t, FALSE) /\ UNCHANGED phase
    BY <1>1, <1>3, AtLabel, EndKeeps
  <1>4. QED
    BY <1>2, <1>3 DEF RequestDeletion

LEMMA WatchKeeps == ASSUME IInv, NEW t \in Terminals, WatchDeletion(t) PROVE IInv'
  <1>1. /\ pc[t] = "watch" /\ job[t].kind = "delete" /\ UNCHANGED <<phase, job, ns, since>>
        /\ job[t].agreed
    BY AtLabel DEF WatchDeletion, KindsAt, PlaceInv
  <1>2. CASE /\ seen' = [seen EXCEPT ![t] = [events |-> <<>>, open |-> TRUE]]
             /\ Goto(t, "await")
    <2>1. <<>> \in Seq(Events) /\ <<>> \in Seq(Quiet)
      BY EmptySeq
    <2>2. [events |-> <<>>, open |-> TRUE] \in Views
      BY <2>1 DEF Views
    <2>3. Shape'
      BY <1>1, <1>2, <2>2 DEF IInv, Shape, Labels, Goto
    <2>4. ASSUME NEW q \in Terminals, q # t PROVE TInv(q)'
      <3>1. /\ pc'[q] = pc[q] /\ job'[q] = job[q] /\ ns'[q] = ns[q] /\ seen'[q] = seen[q]
            /\ since'[q] = since[q]
        BY <1>1, <1>2, <2>4, AtLabel DEF Goto
      <3>2. QED
        BY <3>1, LooksOn
    <2>5. TInv(t)'
      <3>1. /\ pc'[t] = "await" /\ seen'[t].events = <<>> /\ job'[t] = job[t]
            /\ "delete" \in KindsAt("await")
        BY <1>1, <1>2, AtLabel DEF Goto, KindsAt
      <3>2. QED
        BY <1>1, <2>1, <3>1 DEF TInv, PlaceInv, NsInv, GoneInv
    <2>6. QED
      BY <2>3, <2>4, <2>5 DEF IInv
  <1>3. CASE End(t, FALSE)
    BY <1>1, <1>3, AtLabel, EndKeeps
  <1>4. QED
    BY <1>2, <1>3 DEF WatchDeletion

\* The event that ends the wait is one of those that came after the deletion.
LEMMA AwaitKeeps == ASSUME IInv, NEW t \in Terminals, AwaitDeletion(t) PROVE IInv'
  <1> DEFINE es == seen[t].events
  <1>1. /\ pc[t] = "await" /\ job[t].kind = "delete" /\ es # <<>>
        /\ UNCHANGED <<phase, job, ns, since>> /\ es \in Seq(Events) /\ seen[t] \in Views
        /\ since[t].gone \/ es \in Seq(Quiet)
    BY AtLabel DEF AwaitDeletion, KindsAt, GoneInv, Views
  <1>2. CASE Head(es) = "deleted" /\ End(t, TRUE)
    <2>1. since[t].gone
      <3>1. SUFFICES ASSUME es \in Seq(Quiet) PROVE FALSE
        BY <1>1
      <3>2. Head(es) \in Quiet
        BY <1>1, <3>1, HeadTailProperties
      <3>3. QED
        BY <1>2, <3>2 DEF Quiet
    <2>2. QED
      BY <1>1, <1>2, <2>1, AtLabel, EndKeeps
  <1>3. CASE seen' = [seen EXCEPT ![t].events = Tail(es)] /\ UNCHANGED pc
    <2> DEFINE v == [seen[t] EXCEPT !.events = Tail(es)]
    <2>1. /\ Tail(es) \in Seq(Events)
          /\ es \in Seq(Quiet) => Tail(es) \in Seq(Quiet)
      BY <1>1, HeadTailProperties
    <2>2. v \in Views /\ v.open = seen[t].open /\ v.events = Tail(es)
      BY <1>1, <2>1 DEF Views
    <2>3. seen' = [seen EXCEPT ![t] = v]
      BY <1>3
    <2>4. Shape'
      BY <1>1, <1>3, <2>2, <2>3 DEF IInv, Shape
    <2>5. ASSUME NEW q \in Terminals PROVE TInv(q)'
      <3>1. /\ seen'[q].open = seen[q].open
            /\ seen[q].events \in Seq(Quiet) => seen'[q].events \in Seq(Quiet)
        BY <2>1, <2>2, <2>3, AtLabel
      <3>2. QED
        BY <1>1, <1>3, <3>1, LooksOn
    <2>6. QED
      BY <2>4, <2>5 DEF IInv
  <1>4. QED
    BY <1>2, <1>3 DEF AwaitDeletion, EndsTheWait

LEMMA LostKeeps == ASSUME IInv, NEW t \in Terminals, WatchLost(t) PROVE IInv'
  BY AtLabel, EndKeeps DEF WatchLost

LEMMA ListKeeps == ASSUME IInv, NEW t \in Terminals, ListProjects(t) PROVE IInv'
  <1>1. job[t].kind = "list" /\ End(t, TRUE) /\ UNCHANGED <<phase, job, ns, since>>
    BY AtLabel DEF ListProjects, KindsAt
  <1>2. QED
    BY <1>1, AtLabel, EndKeeps

\* A push goes to the project of its directory.
LEMMA PushToKeeps ==
  ASSUME IInv, NEW t \in Terminals, pc[t] \in {"check", "make"}, PushTo(t),
         UNCHANGED <<job, since>>, phase' \in [Projects -> Phases],
         seen' \in [Terminals -> Views],
         \A q \in Terminals :
           /\ seen'[q].open = seen[q].open
           /\ seen[q].events \in Seq(Quiet) => seen'[q].events \in Seq(Quiet)
  PROVE  IInv'
  <1>1. /\ job[t].kind = "push" /\ job[t].dir # None /\ job[t].flag = None
        /\ "push" \in KindsAt("apply") /\ "apply" \in Labels \ {"done", "await"}
    BY AtLabel DEF KindsAt, PlaceInv, Labels
  <1>2. /\ ns' = [ns EXCEPT ![t] = job[t].dir] /\ Goto(t, "apply")
    BY DEF PushTo
  <1>3. NsInv(t)'
    BY <1>1, <1>2, AtLabel DEF NsInv
  <1>4. DOMAIN ns' = Terminals /\ \A q \in Terminals \ {t} : ns'[q] = ns[q]
    BY <1>2, AtLabel
  <1>5. QED
    BY <1>1, <1>2, <1>3, <1>4, AtLabel, GotoKeeps

LEMMA CheckKeeps == ASSUME IInv, NEW t \in Terminals, CheckProject(t) PROVE IInv'
  <1>1. /\ pc[t] = "check" /\ job[t].kind = "push" /\ UNCHANGED <<phase, job, since>>
        /\ "push" \in KindsAt("make") /\ "make" \in Labels
    BY AtLabel DEF CheckProject, KindsAt, Labels
  <1>2. CASE PushTo(t) /\ UNCHANGED seen
    BY <1>1, <1>2, AtLabel, PushToKeeps
  <1>3. CASE Goto(t, "make") /\ UNCHANGED <<ns, seen>>
    BY <1>1, <1>3, AtLabel, PassesOn
  <1>4. CASE End(t, FALSE) /\ UNCHANGED ns
    BY <1>1, <1>4, AtLabel, EndKeeps
  <1>5. QED
    BY <1>2, <1>3, <1>4 DEF CheckProject

LEMMA MakeKeeps == ASSUME IInv, NEW t \in Terminals, MakeProject(t) PROVE IInv'
  <1>1. pc[t] = "make" /\ job[t].kind = "push" /\ UNCHANGED <<job, since>>
    BY AtLabel DEF MakeProject, KindsAt
  <1>2. CASE RequestProject(job[t].dir) /\ Send(job[t].dir, <<"added">>) /\ PushTo(t)
    <2>1. "added" \in Quiet /\ phase' \in [Projects -> Phases]
      BY <1>2, AtLabel DEF Quiet, Events, RequestProject, Phases
    <2>2. QED
      BY <1>1, <1>2, <2>1, SendIsQuiet, PushToKeeps
  <1>3. CASE End(t, FALSE) /\ UNCHANGED <<phase, ns>>
    BY <1>1, <1>3, AtLabel, EndKeeps
  <1>4. QED
    BY <1>2, <1>3 DEF MakeProject

LEMMA ExistsKeeps == ASSUME IInv, NEW t \in Terminals, ValidateApp(t) PROVE IInv'
  <1>1. /\ pc[t] = "exists" /\ job[t].kind \in KindsAt("info") /\ "info" \in Labels
        /\ job[t].kind = "app delete" /\ UNCHANGED <<phase, job, ns, since>>
    BY AtLabel DEF ValidateApp, KindsAt, Labels
  <1>2. CASE ~job[t].json /\ Goto(t, "info") /\ UNCHANGED seen
    BY <1>1, <1>2, AtLabel, PassesOn
  <1>3. CASE job[t].json /\ Goto(t, "sweep") /\ UNCHANGED seen
    <2>1. /\ "sweep" \in Labels \ {"done", "await"} /\ job[t].kind \in KindsAt("sweep")
          /\ Approved(t)'
      BY <1>1, <1>3 DEF Labels, KindsAt, Approved
    <2>2. NsInv(t)'
      BY <1>1, <1>3, AtLabel DEF NsInv, Goto
    <2>3. job[t].kind = "push" => job[t].dir # None /\ job[t].flag = None
      BY AtLabel DEF PlaceInv
    <2>4. QED
      BY <1>1, <1>3, <2>1, <2>2, <2>3, AtLabel, GotoKeeps
  <1>4. CASE End(t, FALSE)
    BY <1>1, <1>4, AtLabel, EndKeeps
  <1>5. QED
    BY <1>2, <1>3, <1>4 DEF ValidateApp

\* Only marks change, and what is gone stays gone.
LEMMA MarksKeep ==
  ASSUME IInv, UNCHANGED <<phase, pc, job, ns, seen>>, since' \in [Terminals -> Marks],
         \A q \in Terminals : since[q].gone => since'[q].gone
  PROVE  IInv'
  BY LooksOn DEF IInv, Shape

\* A push adds an object, and ends with the last one.
LEMMA ApplyKeeps == ASSUME IInv, NEW t \in Terminals, Apply(t) PROVE IInv'
  <1> DEFINE Here(s) == ns[s] = ns[t] /\ job[s].app = job[t].app
  <1>1. job[t].kind = "push" /\ UNCHANGED <<phase, job, ns>>
    BY AtLabel DEF Apply, KindsAt
  <1>2. CASE /\ since' = [s \in Terminals |->
                  IF Here(s) THEN [since[s] EXCEPT !.added = TRUE] ELSE since[s]]
             /\ End(t, TRUE) \/ UNCHANGED <<pc, seen>>
    <2>1. /\ since' \in [Terminals -> Marks]
          /\ \A q \in Terminals : since[q].gone => since'[q].gone
      <3>1. \A q \in Terminals : since[q] \in Marks
        BY DEF IInv, Shape
      <3>2. QED
        BY <1>2, <3>1 DEF Marks
    <2>2. CASE End(t, TRUE)
      BY <1>1, <2>1, <2>2, AtLabel, EndKeeps
    <2>3. CASE UNCHANGED <<pc, seen>>
      BY <1>1, <2>1, <2>3, MarksKeep
    <2>4. QED
      BY <1>2, <2>2, <2>3
  <1>3. CASE End(t, FALSE) /\ UNCHANGED since
    BY <1>1, <1>3, AtLabel, EndKeeps
  <1>4. QED
    BY <1>2, <1>3 DEF Apply

LEMMA DeleteKindKeeps == ASSUME IInv, NEW t \in Terminals, DeleteKind(t) PROVE IInv'
  <1>1. /\ UNCHANGED <<phase, pc, job, ns, seen>>
        /\ \/ since' = [since EXCEPT ![t].added = FALSE]
           \/ since' = since
    BY DEF DeleteKind
  <1>2. since \in [Terminals -> Marks]
    BY DEF IInv, Shape
  <1>3. /\ since' \in [Terminals -> Marks]
        /\ \A q \in Terminals : since[q].gone => since'[q].gone
    BY <1>1, <1>2 DEF Marks
  <1>4. QED
    BY <1>1, <1>3, MarksKeep

LEMMA DeleteEndsKeeps == ASSUME IInv, NEW t \in Terminals, DeleteEnds(t) PROVE IInv'
  <1>1. job[t].kind = "app delete" /\ UNCHANGED <<phase, job, ns, since>>
    BY AtLabel DEF DeleteEnds, KindsAt
  <1>2. PICK ok \in BOOLEAN : End(t, ok)
    <2>1. End(t, TRUE) \/ End(t, FALSE)
      BY DEF DeleteEnds, End
    <2>2. QED
      BY <2>1
  <1>3. QED
    BY <1>1, <1>2, AtLabel, EndKeeps

-----------------------------------------------------------------------------
(* The cluster.                                                            *)

LEMMA ReadyKeeps == ASSUME IInv, NEW n \in Projects, Ready(n) PROVE IInv'
  <1>1. /\ UNCHANGED <<pc, job, ns>> /\ Send(n, <<"modified">>)
        /\ phase' = [phase EXCEPT ![n] = "active"]
        /\ since' = [q \in Terminals |->
             IF job[q].project = n THEN [since[q] EXCEPT !.ready = TRUE] ELSE since[q]]
    BY DEF Ready
  <1>2. "modified" \in Quiet
    BY DEF Quiet, Events
  <1>3. /\ seen' \in [Terminals -> Views]
        /\ \A q \in Terminals :
             /\ seen'[q].open = seen[q].open
             /\ seen[q].events \in Seq(Quiet) => seen'[q].events \in Seq(Quiet)
    BY <1>1, <1>2, SendIsQuiet
  <1>4. /\ since' \in [Terminals -> Marks]
        /\ \A q \in Terminals : since[q].gone => since'[q].gone
    <2>1. \A q \in Terminals : since[q] \in Marks
      BY DEF IInv, Shape
    <2>2. QED
      BY <1>1, <2>1 DEF Marks
  <1>5. Shape'
    BY <1>1, <1>3, <1>4 DEF IInv, Shape, Phases
  <1>6. ASSUME NEW q \in Terminals PROVE TInv(q)'
    BY <1>1, <1>3, <1>4, LooksOn
  <1>7. QED
    BY <1>5, <1>6 DEF IInv

\* The project goes, and whoever watches it has asked for that before.
LEMMA FinishKeeps == ASSUME IInv, NEW n \in Projects, Finish(n) PROVE IInv'
  <1> DEFINE es == <<"modified", "deleted">>
  <1>1. /\ UNCHANGED <<pc, job, ns>> /\ Send(n, es)
        /\ phase' = [phase EXCEPT ![n] = "none"]
        /\ since' = [q \in Terminals |->
             IF job[q].project = n /\ Requested(q)
             THEN [since[q] EXCEPT !.gone = TRUE] ELSE since[q]]
    BY DEF Finish
  <1>2. /\ since' \in [Terminals -> Marks]
        /\ \A q \in Terminals : since[q].gone => since'[q].gone
        /\ \A q \in Watching(n) : since'[q].gone
    <2>1. \A q \in Terminals : since[q] \in Marks
      BY DEF IInv, Shape
    <2>2. \A q \in Watching(n) : q \in Terminals /\ job[q].project = n /\ Requested(q)
      BY AtLabel DEF Watching, Requested
    <2>3. QED
      BY <1>1, <2>1, <2>2 DEF Marks
  <1>3. ASSUME NEW q \in Terminals
        PROVE  /\ seen'[q] \in Views /\ seen'[q].open = seen[q].open
               /\ q \in Watching(n) \/ seen'[q] = seen[q]
    <2>1. seen[q] \in Views /\ es \in Seq(Events)
      BY DEF IInv, Shape, Events
    <2>2. CASE q \notin Watching(n)
      BY <1>1, <2>1, <2>2 DEF Send
    <2>3. CASE q \in Watching(n)
      <3>1. seen'[q] = [seen[q] EXCEPT !.events = seen[q].events \o es]
        BY <1>1, <2>3 DEF Send
      <3>2. seen[q].events \o es \in Seq(Events)
        BY <2>1, ConcatProperties DEF Views
      <3>3. QED
        BY <2>1, <2>3, <3>1, <3>2 DEF Views
    <2>4. QED
      BY <2>2, <2>3
  <1>4. seen' = [q \in Terminals |-> seen'[q]]
    BY <1>1 DEF Send
  <1>5. seen' \in [Terminals -> Views]
    BY <1>3, <1>4
  <1>6. Shape'
    BY <1>1, <1>2, <1>5 DEF IInv, Shape, Phases
  <1>7. ASSUME NEW q \in Terminals PROVE TInv(q)'
    BY <1>1, <1>2, <1>3, LooksOn
  <1>8. QED
    BY <1>6, <1>7 DEF IInv

LEMMA CloseKeeps == ASSUME IInv, NEW t \in Terminals, CloseWatch(t) PROVE IInv'
  <1>1. UNCHANGED <<phase, pc, job, ns, since>>
    BY DEF CloseWatch
  <1>2. PICK es \in {<<>>, <<"error">>} :
          seen' = [seen EXCEPT ![t] = [events |-> seen[t].events \o es, open |-> FALSE]]
    BY DEF CloseWatch
  <1>3. seen[t] \in Views /\ es \in Seq(Events) /\ es \in Seq(Quiet)
    <2>1. <<"error">> \in Seq(Events) /\ <<"error">> \in Seq(Quiet)
      BY DEF Events, Quiet
    <2>2. <<>> \in Seq(Events) /\ <<>> \in Seq(Quiet)
      BY EmptySeq
    <2>3. QED
      BY <1>2, <2>1, <2>2, AtLabel
  <1>4. /\ seen[t].events \o es \in Seq(Events)
        /\ seen[t].events \in Seq(Quiet) => seen[t].events \o es \in Seq(Quiet)
    BY <1>3, ConcatProperties DEF Views
  <1>5. Shape'
    BY <1>1, <1>2, <1>4 DEF IInv, Shape, Views
  <1>6. ASSUME NEW q \in Terminals PROVE TInv(q)'
    <2>1. /\ seen'[q].open => seen[q].open
          /\ seen[q].events \in Seq(Quiet) => seen'[q].events \in Seq(Quiet)
      BY <1>2, <1>4, AtLabel
    <2>2. QED
      BY <1>1, <2>1, LooksOn
  <1>7. QED
    BY <1>5, <1>6 DEF IInv

LEMMA CreateInstanceKeeps ==
  ASSUME IInv, NEW n \in Projects, NEW a \in Apps, CreateInstance(n, a) PROVE IInv'
  <1>1. /\ UNCHANGED <<phase, pc, job, ns, seen>>
        /\ since' = [q \in Terminals |->
             IF ns[q] = n /\ job[q].app = a
             THEN [since[q] EXCEPT !.added = TRUE] ELSE since[q]]
    BY DEF CreateInstance
  <1>2. \A q \in Terminals : since[q] \in Marks
    BY DEF IInv, Shape
  <1>3. /\ since' \in [Terminals -> Marks]
        /\ \A q \in Terminals : since[q].gone => since'[q].gone
    BY <1>1, <1>2 DEF Marks
  <1>4. QED
    BY <1>1, <1>3, MarksKeep

-----------------------------------------------------------------------------
(* The invariant.                                                          *)

LEMMA InitIInv == Init => IInv
  <1> SUFFICES ASSUME Init PROVE IInv
    OBVIOUS
  <1>1. <<>> \in Seq(Events)
    BY EmptySeq
  <1>2. Closed \in Views /\ Nothing \in Marks /\ NoJob \in JobTypes
    BY <1>1 DEF Closed, Views, Nothing, Marks, NoJob, JobTypes
  <1>3. Shape
    BY <1>2 DEF Init, Shape, Phases, Labels
  <1>4. ASSUME NEW t \in Terminals PROVE TInv(t)
    <2>1. pc[t] = "idle" /\ job[t] = NoJob /\ ns[t] = None /\ seen[t] = Closed
      BY DEF Init
    <2>2. PlaceInv(t)
      BY <2>1 DEF PlaceInv, KindsAt, NoJob, Closed
    <2>3. NsInv(t) /\ GoneInv(t)
      BY <2>1 DEF NsInv, GoneInv, NoJob
    <2>4. QED
      BY <2>2, <2>3 DEF TInv
  <1>5. QED
    BY <1>3, <1>4 DEF IInv

LEMMA Inductive == IInv /\ [Next]_vars => IInv'
  <1> SUFFICES ASSUME IInv, [Next]_vars PROVE IInv'
    OBVIOUS
  <1>1. ASSUME NEW t \in Terminals, Step(t) PROVE IInv'
    BY <1>1, CreateKeeps, ValidateKeeps, UseKeeps, ShowKeeps, InfoKeeps, ProceedKeeps,
       RequestKeeps, WatchKeeps, AwaitKeeps, LostKeeps, ListKeeps, CheckKeeps, MakeKeeps,
       ApplyKeeps, ExistsKeeps, DeleteKindKeeps, DeleteEndsKeeps DEF Step
  <1>2. ASSUME NEW t \in Terminals, NEW j \in Arguments, Start(t, j) PROVE IInv'
    BY <1>2, StartKeeps
  <1>3. CASE Cluster
    BY <1>3, ReadyKeeps, FinishKeeps, CloseKeeps, CreateInstanceKeeps DEF Cluster
  <1>4. CASE UNCHANGED vars
    BY <1>4 DEF vars, IInv, Shape, TInv, PlaceInv, NsInv, GoneInv, Approved
  <1>5. QED
    BY <1>1, <1>2, <1>3, <1>4 DEF Next

LEMMA Invariance == Spec => []IInv
  BY InitIInv, Inductive, PTL DEF Spec

(* "Deleted project" is printed only after the project was gone at some moment *)
(* since the request: DeleteProject ends on the type of the event, and a watch *)
(* opened after the request holds no older one (occlient.go:2102).             *)
THEOREM DeletedIsGone == Spec => []DeletedMeansGone
  <1>1. IInv => DeletedMeansGone
    BY DEF IInv, TInv, GoneInv, DeletedMeansGone
  <1>2. QED
    BY <1>1, Invariance, PTL

-----------------------------------------------------------------------------
(* Where commands work.                                                    *)

LEMMA ObjectsStep == IInv /\ [Next]_vars => ObjectsWhereTold \/ UNCHANGED objs
  <1> SUFFICES ASSUME IInv, [Next]_vars PROVE ObjectsWhereTold \/ UNCHANGED objs
    OBVIOUS
  <1>1. ASSUME NEW t \in Terminals, Apply(t) PROVE ObjectsWhereTold \/ UNCHANGED objs
    <2>1. /\ pc[t] = "apply" /\ job[t].kind = "push" /\ ns[t] = job[t].dir
          /\ job[t].flag = None
      BY <1>1, AtLabel DEF Apply, KindsAt, PlaceInv, NsInv
    <2>2. Told(t, ns[t])
      BY <2>1 DEF Told
    <2>3. \/ UNCHANGED objs
          \/ objs' = objs \cup {[project |-> ns[t], app |-> job[t].app, kind |-> Head(todo[t])]}
      BY <1>1 DEF Apply
    <2>4. QED
      BY <2>1, <2>2, <2>3 DEF ObjectsWhereTold
  <1>2. ASSUME NEW t \in Terminals, DeleteKind(t) PROVE ObjectsWhereTold \/ UNCHANGED objs
    <2>1. /\ pc[t] = "sweep" /\ job[t].kind = "app delete" /\ Approved(t)
          /\ NsInv(t)
      BY <1>2, AtLabel DEF DeleteKind, KindsAt, PlaceInv
    <2>2. Told(t, ns[t])
      BY <2>1 DEF Told, NsInv
    <2>3. \/ UNCHANGED objs
          \/ objs' = {o \in objs : ~(o.project = ns[t] /\ o.app = job[t].app /\ o.kind = Head(todo[t]))}
      BY <1>2 DEF DeleteKind, DeleteCollection
    <2>4. QED
      BY <2>1, <2>2, <2>3 DEF ObjectsWhereTold
  <1>3. ASSUME NEW n \in Projects, Finish(n) PROVE ObjectsWhereTold \/ UNCHANGED objs
    <2>1. /\ phase[n] = "terminating" /\ phase'[n] = "none"
          /\ objs' = {o \in objs : o.project # n}
      BY <1>3, AtLabel DEF Finish, IInv, Shape
    <2>2. QED
      BY <2>1 DEF ObjectsWhereTold
  <1>4. ASSUME NEW n \in Projects, NEW a \in Apps, CreateInstance(n, a)
        PROVE  ObjectsWhereTold \/ UNCHANGED objs
    <2>1. objs' = objs \cup {[project |-> n, app |-> a, kind |-> "instance"]}
      BY <1>4 DEF CreateInstance
    <2>2. QED
      BY <2>1 DEF ObjectsWhereTold
  <1>5. ASSUME NEW t \in Terminals, Step(t) PROVE ObjectsWhereTold \/ UNCHANGED objs
    BY <1>1, <1>2, <1>5 DEF Step, CreateNewProject, ValidateProject, UseProject, ShowProject,
       PrintDeleteInfo, Proceed, RequestDeletion, WatchDeletion, AwaitDeletion, WatchLost,
       ListProjects, CheckProject, MakeProject, ValidateApp, DeleteEnds
  <1>6. CASE Cluster
    BY <1>3, <1>4, <1>6 DEF Cluster, Ready, CloseWatch
  <1>7. CASE \E t \in Terminals, j \in Arguments : Start(t, j)
    BY <1>7 DEF Start
  <1>8. QED
    BY <1>5, <1>6, <1>7 DEF Next, vars

LEMMA ProjectsStep == IInv /\ [Next]_vars => ProjectsWhereTold
  <1> SUFFICES ASSUME IInv, [Next]_vars PROVE ProjectsWhereTold
    OBVIOUS
  <1>1. phase \in [Projects -> Phases]
    BY DEF IInv, Shape
  <1>2. ASSUME NEW t \in Terminals, RequestDeletion(t) PROVE ProjectsWhereTold
    <2>1. /\ pc[t] = "delete" /\ job[t].kind = "delete" /\ job[t].agreed
      BY <1>2, AtLabel DEF RequestDeletion, KindsAt, PlaceInv
    <2>2. Told(t, job[t].project)
      BY <2>1 DEF Told
    <2>3. \/ UNCHANGED phase
          \/ phase' = [phase EXCEPT ![job[t].project] = "terminating"]
      BY <1>2 DEF RequestDeletion
    <2>4. QED
      BY <1>1, <2>1, <2>2, <2>3 DEF ProjectsWhereTold
  <1>3. ASSUME UNCHANGED phase PROVE ProjectsWhereTold
    BY <1>3 DEF ProjectsWhereTold
  <1>4. ASSUME NEW n, NEW v, v # "terminating", phase' = [phase EXCEPT ![n] = v]
        PROVE  ProjectsWhereTold
    BY <1>1, <1>4 DEF ProjectsWhereTold
  <1>5. ASSUME NEW t \in Terminals, Step(t) PROVE ProjectsWhereTold
    <2>1. CASE CreateNewProject(t) \/ MakeProject(t)
      <3>1. \/ phase' = [phase EXCEPT ![job[t].project] = "starting"]
            \/ phase' = [phase EXCEPT ![job[t].dir] = "starting"]
            \/ UNCHANGED phase
        BY <2>1 DEF CreateNewProject, MakeProject, RequestProject
      <3>2. QED
        BY <1>3, <1>4, <3>1
    <2>2. CASE ~(CreateNewProject(t) \/ MakeProject(t) \/ RequestDeletion(t))
      BY <1>3, <1>5, <2>2 DEF Step, ValidateProject, UseProject, ShowProject,
         PrintDeleteInfo, Proceed, WatchDeletion, AwaitDeletion, WatchLost,
         ListProjects, CheckProject, Apply, ValidateApp, DeleteKind, DeleteEnds
    <2>3. QED
      BY <1>2, <2>1, <2>2
  <1>6. ASSUME NEW n \in Projects, Ready(n) \/ Finish(n) PROVE ProjectsWhereTold
    <2>1. \/ phase' = [phase EXCEPT ![n] = "active"]
          \/ phase' = [phase EXCEPT ![n] = "none"]
      BY <1>6 DEF Ready, Finish
    <2>2. QED
      BY <1>4, <2>1
  <1>7. CASE Cluster
    BY <1>3, <1>6, <1>7 DEF Cluster, CloseWatch, CreateInstance
  <1>8. CASE \E t \in Terminals, j \in Arguments : Start(t, j)
    BY <1>3, <1>8 DEF Start
  <1>9. QED
    BY <1>3, <1>5, <1>7, <1>8 DEF Next, vars

(* Whatever other terminals make the current project meanwhile, a command      *)
(* touches only objects of the project it was started on, which without a flag *)
(* and a directory is the kubeconfig's at that moment, and a project is given  *)
(* up only by an agreed `project delete` of its name (resolveProject in        *)
(* context.go:175, Delete in occlient.go:1864, DeleteProject).                 *)
THEOREM WorksOnlyWhereTold == Spec => WorksWhereTold
  <1>1. IInv /\ [Next]_vars => [ObjectsWhereTold /\ ProjectsWhereTold]_vars
    <2>1. UNCHANGED objs => ObjectsWhereTold
      BY DEF ObjectsWhereTold
    <2>2. QED
      BY <2>1, ObjectsStep, ProjectsStep
  <1>2. QED
    BY <1>1, Invariance, PTL DEF Spec, WorksWhereTold

-----------------------------------------------------------------------------
(* What the sweep of an application leaves behind.                         *)

\* Objects of the application that a sweep of t should have removed by now.
Left(t, kinds) ==
  {o \in objs : o.project = ns[t] /\ o.app = job[t].app /\ o.kind \in kinds}

Sweeping(t) ==
  /\ job[t].kind = "app delete"
  /\ job[t].agreed \/ (job[t].json /\ pc[t] # "exists")

\* What is not to do any more has been removed, unless that failed or somebody
\* has pushed since.
SweepInv(t) ==
  Sweeping(t) =>
    /\ pc[t] \in {"sweep", "done", "error"}
    /\ pc[t] = "sweep" =>
         \/ todo[t] = <<"dc", "other">>
         \/ todo[t] = <<"other">> /\ (failed[t] \/ since[t].added \/ Left(t, {"dc"}) = {})
         \/ todo[t] = <<>> /\ (failed[t] \/ since[t].added \/ Left(t, {"dc", "other"}) = {})
    /\ pc[t] = "done" => since[t].added \/ Left(t, {"dc", "other"}) = {}

\* A push makes what it has to make, so that no other kind of object is there.
PushInv(t) == pc[t] = "apply" => todo[t] = <<"other", "dc">> \/ todo[t] = <<"dc">>

KindInv == \A o \in objs : o.kind \in Kinds

SInv ==
  /\ IInv /\ DOMAIN todo = Terminals /\ DOMAIN failed = Terminals
  /\ KindInv /\ \A t \in Terminals : SweepInv(t) /\ PushInv(t)

\* Nothing that concerns the sweep of q happens.
Apart(q) ==
  /\ pc'[q] = pc[q] /\ job'[q] = job[q] /\ ns'[q] = ns[q]
  /\ todo'[q] = todo[q] /\ failed'[q] = failed[q]

Unseen(q) ==
  \/ since'[q].added
  \/ /\ since'[q].added = since[q].added
     /\ \A o \in objs' : o \in objs \/ o.project # ns[q] \/ o.app # job[q].app

LEMMA SweepLooksOn ==
  ASSUME SInv, NEW q \in Terminals, Apart(q), Unseen(q)
  PROVE  SweepInv(q)'
  <1>1. SweepInv(q)
    BY DEF SInv
  <1>2. CASE since'[q].added
    BY <1>1, <1>2 DEF SweepInv, Sweeping, Apart
  <1>3. CASE ~since'[q].added
    <2>1. ASSUME NEW kinds PROVE Left(q, kinds)' \subseteq Left(q, kinds)
      BY <1>3 DEF Left, Apart, Unseen
    <2>2. /\ Left(q, {"dc"}) = {} => Left(q, {"dc"})' = {}
          /\ Left(q, {"dc", "other"}) = {} => Left(q, {"dc", "other"})' = {}
      BY <2>1
    <2>3. QED
      BY <1>1, <1>3, <2>2 DEF SweepInv, Sweeping, Apart, Unseen
  <1>4. QED
    BY <1>2, <1>3

\* A command changes only what is its own.
LEMMA StepIsOwn ==
  ASSUME SInv, NEW t \in Terminals, Step(t) \/ \E j \in Arguments : Start(t, j)
  PROVE  /\ DOMAIN todo' = Terminals /\ DOMAIN failed' = Terminals
         /\ \A q \in Terminals \ {t} : Apart(q)
  <1> USE AtLabel DEF Apart, SInv, Goto, End
  <1>1. CASE \E j \in Arguments : Start(t, j)
    BY <1>1 DEF Start
  <1>2. CASE CreateNewProject(t) \/ ValidateProject(t) \/ PrintDeleteInfo(t) \/ ValidateApp(t)
    BY <1>2 DEF CreateNewProject, ValidateProject, PrintDeleteInfo, ValidateApp
  <1>3. CASE UseProject(t) \/ ShowProject(t)
    BY <1>3 DEF UseProject, ShowProject, SetCurrent
  <1>4. CASE Proceed(t)
    BY <1>4 DEF Proceed
  <1>5. CASE RequestDeletion(t) \/ WatchDeletion(t) \/ AwaitDeletion(t) \/ WatchLost(t)
             \/ ListProjects(t)
    BY <1>5 DEF RequestDeletion, WatchDeletion, AwaitDeletion, WatchLost, ListProjects
  <1>6. CASE CheckProject(t) \/ MakeProject(t)
    BY <1>6 DEF CheckProject, MakeProject, PushTo
  <1>7. CASE Apply(t)
    BY <1>7 DEF Apply
  <1>8. CASE DeleteKind(t) \/ DeleteEnds(t)
    BY <1>8 DEF DeleteKind, DeleteEnds, NoteFailure
  <1>9. QED
    BY <1>1, <1>2, <1>3, <1>4, <1>5, <1>6, <1>7, <1>8 DEF Step

\* Only a push or a service made meanwhile adds an object, and it leaves a mark.
LEMMA StepIsSeen ==
  ASSUME SInv, NEW t \in Terminals, Step(t) \/ \E j \in Arguments : Start(t, j),
         NEW q \in Terminals \ {t}
  PROVE  Unseen(q)
  <1>1. CASE UNCHANGED objs /\ (UNCHANGED since \/ \E v : since' = [since EXCEPT ![t] = v])
    BY <1>1 DEF Unseen, SInv, IInv, Shape
  <1>2. CASE \E j \in Arguments : Start(t, j)
    BY <1>1, <1>2 DEF Start
  <1>3. CASE Apply(t)
    <2> DEFINE o == [project |-> ns[t], app |-> job[t].app, kind |-> Head(todo[t])]
    <2>1. CASE UNCHANGED <<objs, since>>
      BY <2>1 DEF Unseen
    <2>2. CASE /\ objs' = objs \cup {o}
               /\ since' = [s \in Terminals |->
                    IF ns[s] = o.project /\ job[s].app = o.app
                    THEN [since[s] EXCEPT !.added = TRUE] ELSE since[s]]
      <3>1. since[q] \in Marks
        BY DEF SInv, IInv, Shape
      <3>2. QED
        BY <2>2, <3>1 DEF Unseen, Marks
    <2>3. QED
      BY <1>3, <2>1, <2>2 DEF Apply
  <1>4. CASE DeleteKind(t)
    <2>1. objs' \subseteq objs /\ since'[q] = since[q]
      BY <1>4 DEF DeleteKind, DeleteCollection, SInv, IInv, Shape
    <2>2. QED
      BY <2>1 DEF Unseen
  <1>5. CASE Step(t) /\ ~Apply(t) /\ ~DeleteKind(t)
    <2>1. UNCHANGED <<objs, since>>
      BY <1>5 DEF Step, CreateNewProject, ValidateProject, UseProject, ShowProject,
         PrintDeleteInfo, Proceed, RequestDeletion, WatchDeletion, AwaitDeletion, WatchLost,
         ListProjects, CheckProject, MakeProject, ValidateApp, DeleteEnds
    <2>2. QED
      BY <2>1 DEF Unseen
  <1>6. QED
    BY <1>2, <1>3, <1>4, <1>5

LEMMA DeleteKindSweeps == ASSUME SInv, NEW t \in Terminals, DeleteKind(t) PROVE SweepInv(t)'
  <1>1. /\ pc[t] = "sweep" /\ job[t].kind = "app delete" /\ Sweeping(t) /\ SweepInv(t)
        /\ UNCHANGED <<pc, job, ns>>
    BY AtLabel DEF DeleteKind, KindsAt, PlaceInv, SInv, Approved, Sweeping
  <1>2. \/ failed'[t]
        \/ /\ failed' = failed
           /\ objs' = {o \in objs : ~(o.project = ns[t] /\ o.app = job[t].app
                                      /\ o.kind = Head(todo[t]))}
    BY DEF DeleteKind, NoteFailure, DeleteCollection, SInv
  <1>3. failed[t] => failed'[t]
    BY <1>2
  <1>4. CASE todo[t] = <<"dc", "other">>
    <2>1. todo'[t] = <<"other">>
      BY <1>4 DEF DeleteKind, SInv
    <2>2. failed'[t] \/ Left(t, {"dc"})' = {}
      <3>1. Head(todo[t]) = "dc"
        BY <1>4
      <3>2. failed'[t] \/ \A o \in objs' : ~(o.project = ns[t] /\ o.app = job[t].app /\ o.kind = "dc")
        BY <1>2, <3>1
      <3>3. QED
        BY <1>1, <3>2 DEF Left
    <2>3. QED
      BY <1>1, <2>1, <2>2 DEF SweepInv
  <1>5. CASE todo[t] = <<"other">> /\ (failed[t] \/ since[t].added \/ Left(t, {"dc"}) = {})
    <2>1. todo'[t] = <<>> /\ since' = since
      BY <1>5 DEF DeleteKind, SInv
    <2>2. failed'[t] \/ since'[t].added \/ Left(t, {"dc", "other"})' = {}
      <3>1. Head(todo[t]) = "other"
        BY <1>5
      <3>2. SUFFICES ASSUME ~failed'[t], ~since'[t].added PROVE Left(t, {"dc", "other"})' = {}
        OBVIOUS
      <3>3. \A o \in objs : ~(o.project = ns[t] /\ o.app = job[t].app /\ o.kind = "dc")
        BY <1>3, <1>5, <2>1, <3>2 DEF Left
      <3>4. /\ objs' \subseteq objs
            /\ \A o \in objs' : ~(o.project = ns[t] /\ o.app = job[t].app /\ o.kind = "other")
        BY <1>2, <3>1, <3>2
      <3>5. QED
        BY <1>1, <3>3, <3>4 DEF Left
    <2>3. QED
      BY <1>1, <2>1, <2>2 DEF SweepInv
  <1>6. QED
    BY <1>1, <1>4, <1>5 DEF SweepInv, Sweeping, DeleteKind

LEMMA StepSweeps ==
  ASSUME SInv, NEW t \in Terminals, Step(t) \/ \E j \in Arguments : Start(t, j)
  PROVE  SweepInv(t)'
  <1>1. SweepInv(t) /\ DOMAIN todo = Terminals /\ DOMAIN failed = Terminals
    BY DEF SInv
  <1>2. CASE \E j \in Arguments : Start(t, j)
    <2>1. PICK j \in Arguments : job'[t] = j /\ pc'[t] = FirstStep(j.kind)
      BY <1>2, AtLabel DEF Start, Goto, SInv
    <2>2. FirstStep("app delete") = "exists"
      BY DEF FirstStep
    <2>3. QED
      BY <2>1, <2>2 DEF Arguments, SweepInv, Sweeping
  <1>3. CASE Proceed(t)
    <2>1. pc[t] = "ask" /\ pc \in [Terminals -> Labels]
      BY <1>3, AtLabel DEF Proceed, SInv
    <2>2. CASE UNCHANGED job
      BY <1>1, <2>1, <2>2 DEF SweepInv, Sweeping
    <2>3. CASE job' = [job EXCEPT ![t].agreed = TRUE]
      <3>1. job'[t].kind = job[t].kind
        BY <2>3, AtLabel DEF SInv, JobTypes
      <3>2. CASE job[t].kind = "app delete" /\ ~job[t].agreed
        <4>1. \/ pc'[t] = "sweep" /\ todo'[t] = <<"dc", "other">>
              \/ UNCHANGED job
          BY <1>1, <1>3, <2>1, <3>2 DEF Proceed, Goto, End, ToSweep
        <4>2. QED
          BY <2>2, <3>1, <4>1 DEF SweepInv
      <3>3. CASE job[t].kind # "app delete"
        BY <3>1, <3>3 DEF SweepInv, Sweeping
      <3>4. QED
        BY <1>1, <2>1, <3>2, <3>3 DEF SweepInv, Sweeping
    <2>4. QED
      BY <1>3, <2>2, <2>3 DEF Proceed
  <1>4. CASE DeleteKind(t)
    BY <1>4, DeleteKindSweeps
  <1>5. CASE DeleteEnds(t)
    <2>1. /\ pc[t] = "sweep" /\ todo[t] = <<>> /\ UNCHANGED <<job, ns, objs, since>>
          /\ pc'[t] = IF ~failed[t] THEN "done" ELSE "error"
      BY <1>5, AtLabel DEF DeleteEnds, End, Goto, SInv
    <2>2. <<>> # <<"dc", "other">> /\ <<>> # <<"other">>
      OBVIOUS
    <2>3. Left(t, {"dc", "other"})' = Left(t, {"dc", "other"})
      BY <2>1 DEF Left
    <2>4. QED
      BY <1>1, <2>1, <2>2, <2>3 DEF SweepInv, Sweeping
  <1>6. CASE ValidateApp(t)
    <2>1. /\ pc[t] = "exists" /\ UNCHANGED job /\ ~job[t].agreed
          /\ job[t].kind = "app delete"
      BY <1>1, <1>6, AtLabel DEF ValidateApp, SInv, KindsAt, SweepInv, Sweeping
    <2>2. \/ job[t].json /\ pc'[t] = "sweep" /\ todo'[t] = <<"dc", "other">>
          \/ ~job[t].json
          \/ pc'[t] = "error"
      BY <1>1, <1>6, AtLabel DEF ValidateApp, Goto, End, ToSweep, SInv
    <2>3. QED
      BY <2>1, <2>2 DEF SweepInv, Sweeping
  <1>7. CASE Step(t) /\ ~Proceed(t) /\ ~DeleteKind(t) /\ ~DeleteEnds(t) /\ ~ValidateApp(t)
    <2>1. UNCHANGED job /\ pc[t] \notin {"sweep", "done", "error"}
      BY <1>7 DEF Step, CreateNewProject, ValidateProject, UseProject, ShowProject,
         PrintDeleteInfo, RequestDeletion, WatchDeletion, AwaitDeletion, WatchLost,
         ListProjects, CheckProject, MakeProject, Apply
    <2>2. pc[t] = "exists" => ~Step(t)
      BY <1>7 DEF Step, CreateNewProject, ValidateProject, UseProject, ShowProject,
         PrintDeleteInfo, RequestDeletion, WatchDeletion, AwaitDeletion, WatchLost,
         ListProjects, CheckProject, MakeProject, Apply
    <2>3. QED
      BY <1>1, <1>7, <2>1, <2>2 DEF SweepInv, Sweeping
  <1>8. QED
    BY <1>2, <1>3, <1>4, <1>5, <1>6, <1>7

LEMMA StepPushes ==
  ASSUME SInv, NEW t \in Terminals, Step(t) \/ \E j \in Arguments : Start(t, j)
  PROVE  PushInv(t)' /\ KindInv'
  <1>1. PushInv(t) /\ KindInv /\ pc \in [Terminals -> Labels] /\ DOMAIN todo = Terminals
    BY AtLabel DEF SInv
  <1>2. CASE Apply(t)
    <2>1. Head(todo[t]) \in Kinds
      BY <1>1, <1>2 DEF Apply, PushInv, Kinds
    <2>2. CASE End(t, FALSE) /\ UNCHANGED objs
      BY <1>1, <2>2 DEF End, Goto, PushInv, KindInv
    <2>3. CASE /\ objs' = objs \cup {[project |-> ns[t], app |-> job[t].app, kind |-> Head(todo[t])]}
               /\ todo' = [todo EXCEPT ![t] = Tail(todo[t])]
               /\ IF Len(todo[t]) = 1 THEN End(t, TRUE) ELSE UNCHANGED <<pc, seen>>
      <3>1. KindInv'
        BY <1>1, <2>1, <2>3 DEF KindInv
      <3>2. CASE todo[t] = <<"dc">>
        <4>1. pc'[t] = "done"
          BY <1>1, <2>3, <3>2 DEF End, Goto
        <4>2. QED
          BY <3>1, <4>1 DEF PushInv
      <3>3. CASE todo[t] = <<"other", "dc">>
        <4>1. todo'[t] = <<"dc">>
          BY <1>1, <2>3, <3>3
        <4>2. QED
          BY <3>1, <4>1 DEF PushInv
      <3>4. QED
        BY <1>1, <1>2, <3>2, <3>3 DEF Apply, PushInv
    <2>4. QED
      BY <1>2, <2>2, <2>3 DEF Apply
  <1>3. CASE CheckProject(t) \/ MakeProject(t)
    <2>1. UNCHANGED objs
      BY <1>3 DEF CheckProject, MakeProject
    <2>2. pc'[t] # "apply" \/ todo'[t] = <<"other", "dc">>
      BY <1>1, <1>3 DEF CheckProject, MakeProject, PushTo, ToPush, Goto, End
    <2>3. QED
      BY <1>1, <2>1, <2>2 DEF PushInv, KindInv
  <1>4. CASE \E j \in Arguments : Start(t, j)
    <2>1. PICK j \in Arguments : pc' = [pc EXCEPT ![t] = FirstStep(j.kind)] /\ UNCHANGED objs
      BY <1>4 DEF Start, Goto
    <2>2. FirstStep(j.kind) # "apply"
      BY JobsAreKnown DEF Arguments, FirstStep, JobKinds
    <2>3. QED
      BY <1>1, <2>1, <2>2 DEF PushInv, KindInv
  <1>5. CASE Step(t) /\ ~Apply(t) /\ ~CheckProject(t) /\ ~MakeProject(t)
    <2>1. objs' \subseteq objs
      BY <1>5 DEF Step, CreateNewProject, ValidateProject, UseProject, ShowProject,
         PrintDeleteInfo, Proceed, RequestDeletion, WatchDeletion, AwaitDeletion, WatchLost,
         ListProjects, ValidateApp, DeleteEnds, DeleteKind, DeleteCollection
    <2>2. pc'[t] # "apply"
      BY <1>1, <1>5 DEF Step, CreateNewProject, ValidateProject, UseProject, ShowProject,
         PrintDeleteInfo, Proceed, RequestDeletion, WatchDeletion, AwaitDeletion, WatchLost,
         ListProjects, ValidateApp, DeleteEnds, DeleteKind, Goto, End
    <2>3. QED
      BY <1>1, <2>1, <2>2 DEF PushInv, KindInv
  <1>6. QED
    BY <1>2, <1>3, <1>4, <1>5

LEMMA ClusterPushes ==
  ASSUME SInv, Cluster PROVE KindInv' /\ \A q \in Terminals : PushInv(q)'
  <1>1. \/ objs' \subseteq objs
        \/ \E n, a : objs' = objs \cup {[project |-> n, app |-> a, kind |-> "instance"]}
    BY DEF Cluster, Ready, Finish, CloseWatch, CreateInstance
  <1>2. UNCHANGED <<pc, todo>>
    BY DEF Cluster, Ready, Finish, CloseWatch, CreateInstance
  <1>3. QED
    BY <1>1, <1>2 DEF SInv, KindInv, PushInv, Kinds

\* The cluster touches no command, and marks what it adds.
LEMMA ClusterSweeps ==
  ASSUME SInv, Cluster, NEW q \in Terminals
  PROVE  SweepInv(q)'
  <1>1. UNCHANGED <<pc, job, ns, todo, failed>>
    BY DEF Cluster, Ready, Finish, CloseWatch, CreateInstance
  <1>2. since[q] \in Marks
    BY DEF SInv, IInv, Shape
  <1>3. CASE \E n \in Projects : Ready(n) \/ Finish(n)
    <2>1. objs' \subseteq objs /\ since'[q].added = since[q].added
      BY <1>2, <1>3 DEF Ready, Finish, Marks
    <2>2. QED
      BY <1>1, <2>1, SweepLooksOn DEF Apart, Unseen
  <1>4. CASE \E t \in Terminals : CloseWatch(t)
    BY <1>1, <1>4, SweepLooksOn DEF CloseWatch, Apart, Unseen
  <1>5. ASSUME NEW n \in Projects, NEW a \in Apps, CreateInstance(n, a)
        PROVE  SweepInv(q)'
    <2> DEFINE o == [project |-> n, app |-> a, kind |-> "instance"]
    <2>1. /\ objs' = objs \cup {o} /\ o.project = n /\ o.app = a
          /\ since' = [t \in Terminals |->
               IF ns[t] = n /\ job[t].app = a
               THEN [since[t] EXCEPT !.added = TRUE] ELSE since[t]]
      BY <1>5 DEF CreateInstance
    <2>2. ASSUME ns[q] = n, job[q].app = a PROVE since'[q].added
      BY <1>2, <2>1, <2>2 DEF Marks
    <2>3. ASSUME ~(ns[q] = n /\ job[q].app = a)
          PROVE  since'[q] = since[q] /\ (o.project # ns[q] \/ o.app # job[q].app)
      BY <2>1, <2>3
    <2>4. Unseen(q)
      BY <2>1, <2>2, <2>3 DEF Unseen
    <2>5. QED
      BY <1>1, <2>4, SweepLooksOn DEF Apart
  <1>6. QED
    BY <1>3, <1>4, <1>5 DEF Cluster

LEMMA SweepInductive == SInv /\ [Next]_vars => SInv'
  <1> SUFFICES ASSUME SInv, [Next]_vars PROVE SInv'
    OBVIOUS
  <1>1. ASSUME NEW t \in Terminals, Step(t) \/ \E j \in Arguments : Start(t, j)
        PROVE  /\ DOMAIN todo' = Terminals /\ DOMAIN failed' = Terminals
               /\ KindInv' /\ \A q \in Terminals : SweepInv(q)' /\ PushInv(q)'
    <2>1. SweepInv(t)' /\ PushInv(t)' /\ KindInv'
      BY <1>1, StepSweeps, StepPushes
    <2>2. ASSUME NEW q \in Terminals \ {t} PROVE SweepInv(q)' /\ PushInv(q)'
      <3>1. Apart(q) /\ Unseen(q)
        BY <1>1, StepIsOwn, StepIsSeen
      <3>2. PushInv(q)'
        BY <3>1 DEF SInv, Apart, PushInv
      <3>3. QED
        BY <3>1, <3>2, SweepLooksOn
    <2>3. DOMAIN todo' = Terminals /\ DOMAIN failed' = Terminals
      BY <1>1, StepIsOwn
    <2>4. QED
      BY <2>1, <2>2, <2>3
  <1>2. CASE Cluster
    <2>1. UNCHANGED <<todo, failed>>
      BY <1>2 DEF Cluster, Ready, Finish, CloseWatch, CreateInstance
    <2>2. QED
      BY <1>2, <2>1, ClusterSweeps, ClusterPushes, Inductive DEF SInv
  <1>3. CASE UNCHANGED vars
    <2>1. \A q \in Terminals : SweepInv(q)'
      BY <1>3, SweepLooksOn DEF vars, Apart, Unseen
    <2>2. QED
      BY <1>3, <2>1, Inductive DEF vars, SInv, KindInv, PushInv
  <1>4. QED
    BY <1>1, <1>2, <1>3, Inductive DEF Next, SInv

\* At the start no terminal sweeps or pushes.
LEMMA InitSInv == Init => SInv
  <1>1. Init => DOMAIN todo = Terminals /\ DOMAIN failed = Terminals /\ KindInv
    BY DEF Init, KindInv
  <1>2. ASSUME Init, NEW t \in Terminals PROVE SweepInv(t) /\ PushInv(t)
    <2>1. pc[t] = "idle" /\ job[t].kind = "none"
      BY <1>2 DEF Init, NoJob
    <2>2. QED
      BY <2>1 DEF SweepInv, Sweeping, PushInv
  <1>3. QED
    BY <1>1, <1>2, InitIInv DEF SInv

(* `app delete` that ends without an error has removed every component object  *)
(* of the application from its project, or somebody pushed one meanwhile:      *)
(* Delete goes on after a failure and returns it in the end                    *)
(* (occlient.go:2009).                                                         *)
THEOREM SweepsLeaveNothing == Spec => []SweptClean
  <1>1. Init => SInv
    BY InitSInv
  <1>2. SInv => SweptClean
    <2>1. ASSUME SInv, NEW t \in Terminals, Sweeping(t), pc[t] = "done", ~since[t].added,
                 NEW o \in objs, o.project = ns[t], o.app = job[t].app
          PROVE  o.kind = "instance"
      <3>1. Left(t, {"dc", "other"}) = {} /\ o.kind \in Kinds
        BY <2>1 DEF SInv, SweepInv, KindInv
      <3>2. QED
        BY <2>1, <3>1 DEF Left, Kinds
    <2>2. QED
      BY <2>1 DEF SweptClean, Sweeping, Approved
  <1>3. QED
    BY <1>1, <1>2, SweepInductive, PTL DEF Spec

-----------------------------------------------------------------------------
(* Types.                                                                  *)

\* A command that needs a project or an application was given one.
NamesInv(t) ==
  /\ job[t].kind \in {"create", "set", "delete"} => job[t].project # None
  /\ job[t].kind \in {"push", "app delete"} => job[t].app # None

Typed ==
  /\ objs \subseteq Objects /\ current \in Projects
  /\ ns \in [Terminals -> Projects \cup {None}]
  /\ failed \in [Terminals -> BOOLEAN]
  /\ todo \in [Terminals -> Seq(Kinds)]

FInv == SInv /\ Typed /\ \A t \in Terminals : NamesInv(t)

\* Steps that touch none of it.
LEMMA TypedStays ==
  ASSUME FInv, objs' \subseteq objs, UNCHANGED <<current, ns, failed, todo>>
  PROVE  Typed'
  BY DEF FInv, Typed

\* A push that applies has something left to apply.
LEMMA SomethingToDo ==
  ASSUME NEW s, s = <<"other", "dc">> \/ s = <<"dc">>
  PROVE  s # <<>>
  <1>1. CASE s = <<"other", "dc">>
    <2>1. Len(s) = 2
      BY <1>1
    <2>2. Len(<<>>) = 0
      OBVIOUS
    <2>3. QED
      BY <2>1, <2>2
  <1>2. CASE s = <<"dc">>
    <2>1. Len(s) = 1
      BY <1>2
    <2>2. Len(<<>>) = 0
      OBVIOUS
    <2>3. QED
      BY <2>1, <2>2
  <1>3. QED
    BY <1>1, <1>2

LEMMA TodoFacts ==
  /\ <<>> \in Seq(Kinds)
  /\ <<"dc", "other">> \in Seq(Kinds) /\ <<"other", "dc">> \in Seq(Kinds)
  /\ \A s \in Seq(Kinds) : s # <<>> => Head(s) \in Kinds /\ Tail(s) \in Seq(Kinds)
  <1>1. <<>> \in Seq(Kinds)
    BY EmptySeq
  <1>2. <<"dc", "other">> \in Seq(Kinds) /\ <<"other", "dc">> \in Seq(Kinds)
    BY DEF Kinds
  <1>3. \A s \in Seq(Kinds) : s # <<>> => Head(s) \in Kinds /\ Tail(s) \in Seq(Kinds)
    BY HeadTailProperties
  <1>4. QED
    BY <1>1, <1>2, <1>3

\* The arguments of a command stay what they were, but for the agreement.
LEMMA NamesStep ==
  ASSUME FInv, [Next]_vars, NEW q \in Terminals
  PROVE  NamesInv(q)'
  <1>1. NamesInv(q) /\ job \in [Terminals -> JobTypes]
    BY AtLabel DEF FInv, SInv
  <1>2. ASSUME NEW t \in Terminals, NEW j \in Arguments, Start(t, j) PROVE NamesInv(q)'
    <2>1. job' = [job EXCEPT ![t] = j]
      BY <1>2 DEF Start
    <2>2. /\ j.kind \in {"create", "set", "delete"} => j.project # None
          /\ j.kind \in {"push", "app delete"} => j.app # None
      BY DEF Arguments
    <2>3. QED
      BY <1>1, <2>1, <2>2 DEF NamesInv
  <1>3. ASSUME NEW t \in Terminals, Proceed(t) PROVE NamesInv(q)'
    <2>1. UNCHANGED job \/ job' = [job EXCEPT ![t].agreed = TRUE]
      BY <1>3 DEF Proceed
    <2>2. job'[q].kind = job[q].kind /\ job'[q].project = job[q].project
          /\ job'[q].app = job[q].app
      BY <1>1, <2>1 DEF JobTypes
    <2>3. QED
      BY <1>1, <2>2 DEF NamesInv
  <1>4. CASE UNCHANGED job
    BY <1>1, <1>4 DEF NamesInv
  <1>5. ASSUME NEW t \in Terminals, Step(t), ~Proceed(t) PROVE UNCHANGED job
    BY <1>5 DEF Step, CreateNewProject, ValidateProject, UseProject, ShowProject,
       PrintDeleteInfo, RequestDeletion, WatchDeletion, AwaitDeletion, WatchLost,
       ListProjects, CheckProject, MakeProject, Apply, ValidateApp, DeleteEnds, DeleteKind
  <1>6. CASE Cluster
    BY <1>4, <1>6 DEF Cluster, Ready, Finish, CloseWatch, CreateInstance
  <1>7. QED
    BY <1>2, <1>3, <1>4, <1>5, <1>6 DEF Next, vars

LEMMA StepTyped ==
  ASSUME FInv, NEW t \in Terminals, Step(t)
  PROVE  Typed'
  <1>1. /\ NamesInv(t) /\ PlaceInv(t) /\ NsInv(t) /\ PushInv(t) /\ job[t] \in JobTypes
        /\ job[t].kind \in KindsAt(pc[t])
    BY AtLabel DEF FInv, SInv
  <1>2. ASSUME SetCurrent(t), job[t].project \in Projects, UNCHANGED <<objs, failed, todo>>
        PROVE  Typed'
    BY <1>2 DEF SetCurrent, FInv, Typed
  <1>3. CASE UseProject(t) \/ ShowProject(t)
    <2>1. job[t].kind \in {"create", "set", "delete"}
      BY <1>1, <1>3 DEF UseProject, ShowProject, KindsAt
    <2>2. job[t].project \in Projects
      BY <1>1, <2>1 DEF NamesInv, JobTypes
    <2>3. UNCHANGED <<objs, failed, todo>> /\ (SetCurrent(t) \/ UNCHANGED <<current, ns>>)
      BY <1>3 DEF UseProject, ShowProject
    <2>4. QED
      BY <1>2, <2>2, <2>3, TypedStays
  <1>4. CASE Proceed(t) \/ ValidateApp(t)
    <2>1. /\ todo' = todo \/ \E l \in {<<>>, <<"dc", "other">>} : todo' = [todo EXCEPT ![t] = l]
          /\ UNCHANGED <<objs, current, ns, failed>>
      BY <1>4 DEF Proceed, ValidateApp, ToSweep
    <2>2. QED
      BY <2>1, TodoFacts DEF FInv, Typed
  <1>5. CASE CheckProject(t) \/ MakeProject(t)
    <2>1. job[t].kind = "push"
      BY <1>1, <1>5 DEF CheckProject, MakeProject, KindsAt
    <2>2. job[t].dir \in Projects
      BY <1>1, <2>1 DEF PlaceInv, JobTypes
    <2>3. UNCHANGED <<objs, current, failed>> /\ (PushTo(t) \/ UNCHANGED <<ns, todo>>)
      BY <1>5 DEF CheckProject, MakeProject
    <2>4. CASE PushTo(t)
      BY <2>2, <2>3, <2>4, TodoFacts DEF PushTo, ToPush, FInv, Typed
    <2>5. QED
      BY <2>3, <2>4, TypedStays
  <1>6. CASE Apply(t)
    <2>1. job[t].kind = "push" /\ pc[t] = "apply"
      BY <1>1, <1>6 DEF Apply, KindsAt
    <2>2. /\ ns[t] \in Projects /\ job[t].app \in Apps
      BY <1>1, <2>1 DEF PlaceInv, NsInv, NamesInv, JobTypes
    <2>3. todo[t] \in Seq(Kinds) /\ todo[t] # <<>>
      <3>1. todo[t] \in Seq(Kinds)
        BY <1>1 DEF FInv, Typed
      <3>2. todo[t] = <<"other", "dc">> \/ todo[t] = <<"dc">>
        BY <1>1, <2>1 DEF PushInv
      <3>3. QED
        BY <3>1, <3>2, SomethingToDo
    <2>4. Head(todo[t]) \in Kinds /\ Tail(todo[t]) \in Seq(Kinds)
      BY <2>3, TodoFacts
    <2>5. UNCHANGED <<current, ns, failed>>
      BY <1>6 DEF Apply
    <2>6. CASE UNCHANGED <<objs, todo>>
      BY <2>5, <2>6, TypedStays
    <2>7. CASE /\ objs' = objs \cup {[project |-> ns[t], app |-> job[t].app,
                                      kind |-> Head(todo[t])]}
               /\ todo' = [todo EXCEPT ![t] = Tail(todo[t])]
      <3>1. [project |-> ns[t], app |-> job[t].app, kind |-> Head(todo[t])] \in Objects
        BY <2>2, <2>4 DEF Objects
      <3>2. todo' \in [Terminals -> Seq(Kinds)]
        BY <2>4, <2>7 DEF FInv, Typed
      <3>3. objs' \subseteq Objects
        BY <2>7, <3>1 DEF FInv, Typed
      <3>4. QED
        BY <2>5, <3>2, <3>3 DEF FInv, Typed
    <2>8. QED
      BY <1>6, <2>6, <2>7 DEF Apply
  <1>7. CASE DeleteKind(t)
    <2>1. /\ objs' \subseteq objs /\ UNCHANGED <<current, ns>>
          /\ failed' = failed \/ failed' = [failed EXCEPT ![t] = TRUE]
          /\ todo[t] # <<>> /\ todo' = [todo EXCEPT ![t] = Tail(todo[t])]
      BY <1>7 DEF DeleteKind, DeleteCollection, NoteFailure
    <2>2. Tail(todo[t]) \in Seq(Kinds)
      BY <2>1, TodoFacts DEF FInv, Typed
    <2>3. todo' \in [Terminals -> Seq(Kinds)]
      BY <2>1, <2>2 DEF FInv, Typed
    <2>4. QED
      BY <2>1, <2>3 DEF FInv, Typed
  <1>8. CASE CreateNewProject(t) \/ ValidateProject(t) \/ PrintDeleteInfo(t)
             \/ RequestDeletion(t) \/ WatchDeletion(t) \/ AwaitDeletion(t) \/ WatchLost(t)
             \/ ListProjects(t) \/ DeleteEnds(t)
    <2>1. UNCHANGED <<objs, current, ns, failed, todo>>
      BY <1>8 DEF CreateNewProject, ValidateProject, PrintDeleteInfo, RequestDeletion,
         WatchDeletion, AwaitDeletion, WatchLost, ListProjects, DeleteEnds
    <2>2. QED
      BY <2>1, TypedStays
  <1>9. QED
    BY <1>3, <1>4, <1>5, <1>6, <1>7, <1>8 DEF Step

LEMMA StartTyped ==
  ASSUME FInv, NEW t \in Terminals, NEW j \in Arguments, Start(t, j)
  PROVE  Typed'
  <1>1. ResolveProject(j.dir, j.flag) \in Projects \cup {None}
    BY DEF ResolveProject, Arguments, FInv, Typed
  <1>2. QED
    BY <1>1, TodoFacts DEF Start, FInv, Typed

LEMMA ClusterTyped == ASSUME FInv, Cluster PROVE Typed'
  <1>1. UNCHANGED <<current, ns, failed, todo>>
    BY DEF Cluster, Ready, Finish, CloseWatch, CreateInstance
  <1>2. \/ objs' \subseteq objs
        \/ \E n \in Projects, a \in Apps :
             objs' = objs \cup {[project |-> n, app |-> a, kind |-> "instance"]}
    BY DEF Cluster, Ready, Finish, CloseWatch, CreateInstance
  <1>3. \A n \in Projects, a \in Apps : [project |-> n, app |-> a, kind |-> "instance"] \in Objects
    BY DEF Objects, Kinds
  <1>4. objs' \subseteq Objects
    BY <1>2, <1>3 DEF FInv, Typed
  <1>5. QED
    BY <1>1, <1>4 DEF FInv, Typed

(* Every variable keeps its type, for any number of terminals, projects and    *)
(* commands: a command that switches, pushes or deletes has a project to do it *)
(* in (resolveProject, SetCurrentProject), and a push that goes on has a kind  *)
(* of object left to make.                                                     *)
THEOREM TypeCorrect == Spec => []TypeOK
  <1>1. Init => FInv
    <2>1. ASSUME Init PROVE Typed /\ \A t \in Terminals : NamesInv(t)
      BY <2>1, TodoFacts DEF Init, Typed, NamesInv, NoJob
    <2>2. QED
      BY <2>1, InitSInv DEF FInv
  <1>2. FInv /\ [Next]_vars => FInv'
    <2>1. FInv /\ [Next]_vars => Typed'
      <3>1. ASSUME FInv, UNCHANGED vars PROVE Typed'
        BY <3>1, TypedStays DEF vars
      <3>2. QED
        BY <3>1, StepTyped, StartTyped, ClusterTyped DEF Next
    <2>2. QED
      BY <2>1, NamesStep, SweepInductive DEF FInv
  <1>3. FInv => TypeOK
    <2>1. ASSUME FInv, NEW t \in Terminals
          PROVE  /\ pc[t] \in {"delete", "watch", "await"} => job[t].agreed
                 /\ pc[t] = "sweep" => Approved(t)
                 /\ seen[t].open => pc[t] = "await"
                 /\ seen[t].events \in Seq(Events)
                 /\ todo[t] \in Seq(Kinds)
                 /\ pc[t] = "apply" => todo[t] # <<>>
      <3>1. PlaceInv(t) /\ PushInv(t) /\ seen[t] \in Views
        BY <2>1, AtLabel DEF FInv, SInv, IInv, Shape
      <3>2. todo[t] \in Seq(Kinds)
        BY <2>1 DEF FInv, Typed
      <3>3. pc[t] = "apply" => todo[t] # <<>>
        BY <3>1, SomethingToDo DEF PushInv
      <3>4. QED
        BY <3>1, <3>2, <3>3 DEF PlaceInv, Views
    <2>2. FInv => phase \in [Projects -> Phases]
      BY AtLabel DEF FInv, SInv, IInv, Shape
    <2>3. QED
      BY <2>1, <2>2 DEF FInv, Typed, TypeOK
  <1>4. QED
    BY <1>1, <1>2, <1>3, PTL DEF Spec

=============================================================================
