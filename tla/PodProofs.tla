----------------------------- MODULE PodProofs -----------------------------
(* What is proved about the pods: PodWait, for any number of events and of   *)
(* faults, any output, and a timeout that may come at any moment; and        *)
(* PodTemplate, for any images, storages, variables and secrets.             *)
EXTENDS PodWait, PodTemplate, SequenceTheorems, FiniteSetTheorems, WellFoundedInduction,
        NaturalsInduction, TLAPS

Steps == {"none", "receive", "check", "stop", "mark", "send pod", "send error",
          "close", "done"}
Ending == {"check", "stop", "mark", "send pod"}

Events == [pod : {"old", "new", "none"}, phase : Phases \cup {"Status"}]

Shape ==
  /\ command \in Commands /\ mode \in Modes
  /\ pods \in [old : {"none", "Running"}, new : Phases \cup {"none"}]
  /\ wait \in Waits
  /\ main \in {"begin", "select", "unwatch", "check", "stop", "mark", "ended", "done"}
  /\ result \in {"none", "ok", "error", "timeout"}
  /\ routine \in [Waits -> Steps]
  /\ status \in [Waits -> BOOLEAN] /\ spinning \in [Waits -> BOOLEAN]
  /\ stops \in [Waits -> 0..1]
  /\ DOMAIN found = Waits /\ DOMAIN marks = Waits
  /\ watch \in [Waits -> [open : BOOLEAN, queue : Seq(Events)]]
  /\ faults \in 0..MaxFaults

\* The deployment is recreated, and the second wait of a link begins when the
\* new pod has been seen.
PodInv ==
  /\ pods.new # "none" => pods.old = "none"
  /\ command = "push" => pods.old = "none"
  /\ wait = 2 => command = "link" /\ pods.old = "none"

\* What the watch of wait w can deliver while the old pod is in phase `old`: a
\* running old pod only in the first wait of a link.
Shown(w, old) ==
  {e \in Events :
     /\ e.pod = "old" => e.phase = "Running" /\ w = 1 /\ command = "link"
     /\ e.pod = "new" => old = "none"
     /\ e.pod = "none" => e.phase = "Status"}

QueueInv(w) ==
  /\ watch[w].queue \in Seq(Shown(w, pods.old))
  /\ Len(watch[w].queue) <= MaxEvents
  /\ w > wait \/ (w = wait /\ main = "begin") => ~watch[w].open

\* A goroutine that ends its spinner has found the new pod; one of a wait that
\* is over has nothing more to do than to close its channels.
RoutineInv(w) ==
  /\ w > wait \/ (w = wait /\ main = "begin") =>
       routine[w] = "none" /\ ~status[w] /\ marks[w] = <<>>
  /\ routine[w] \in Ending =>
       found[w] = Event("new", Desired(command)[w]) /\ pods.old = "none"
  /\ w < wait => routine[w] \in {"close", "done"}

\* Which of the two goroutines of the current wait marks it.
MarkInv ==
  result # "timeout" =>
    /\ main \in {"begin", "select"} <=> result = "none"
    /\ main = "select" =>
         /\ routine[wait] \in Ending \cup {"receive", "send error"}
         /\ IF routine[wait] = "send pod"
            THEN ~status[wait] /\ marks[wait] = <<"success">>
            ELSE status[wait] /\ marks[wait] = <<>>
    /\ main \in {"unwatch", "check", "stop", "mark"} =>
         IF result = "ok"
         THEN ~status[wait] /\ marks[wait] = <<"success">> /\ main \notin {"stop", "mark"}
         ELSE status[wait] /\ marks[wait] = <<>>
    /\ main \notin {"begin", "select"} => routine[wait] \in {"none", "close", "done"}
    /\ main \in {"ended", "done"} =>
         marks[wait] = <<IF result = "ok" THEN "success" ELSE "failure">>

AnswerInv ==
  /\ result = "ok" => answer = Event("new", Phase) /\ pods.old = "none" /\ routine[wait] # "none"
  /\ main \in {"begin", "select"} => result = "none"

IInv == Shape /\ PodInv /\ (\A w \in Waits : QueueInv(w) /\ RoutineInv(w)) /\ MarkInv /\ AnswerInv

-----------------------------------------------------------------------------
LEMMA ShownType ==
  ASSUME NEW w \in Waits, NEW old
  PROVE  /\ Shown(w, old) \subseteq Events
         /\ Seq(Shown(w, old)) \subseteq Seq(Events)
         /\ Seq(Shown(w, old)) \subseteq Seq(Shown(w, "none"))
  <1>1. Shown(w, old) \subseteq Events /\ Shown(w, old) \subseteq Shown(w, "none")
    BY DEF Shown
  <1>2. QED
    BY <1>1, SeqMonotonic

\* What the invariants say of the constants.
LEMMA Constants ==
  ASSUME IInv
  PROVE  /\ command \in {"push", "link"} /\ wait \in 1..Len(Desired(command))
         /\ Phase \in {"Pending", "Running"} /\ Phase = Desired(command)[wait]
         /\ MaxFaults \in Nat /\ MaxEvents \in Nat \ {0}
  BY CommandsAssumption, BoundsAssumption DEF IInv, Shape, PodInv, Desired, Phase, Waits

\* One more event in every open watch.
LEMMA Announced ==
  ASSUME IInv, NEW e, NEW old \in {"none", "Running"}, Announce(e), Room,
         old = pods.old \/ old = "none",
         \A w \in Waits : watch[w].open => e \in Shown(w, old)
  PROVE  /\ watch' \in [Waits -> [open : BOOLEAN, queue : Seq(Events)]]
         /\ \A w \in Waits : /\ watch'[w].open = watch[w].open
                             /\ watch'[w].queue \in Seq(Shown(w, old))
                             /\ Len(watch'[w].queue) <= MaxEvents
  <1>1. ASSUME NEW w \in Waits
        PROVE  /\ watch'[w] \in [open : BOOLEAN, queue : Seq(Events)]
               /\ watch'[w].open = watch[w].open
               /\ watch'[w].queue \in Seq(Shown(w, old))
               /\ Len(watch'[w].queue) <= MaxEvents
    <2> DEFINE q == watch[w].queue
    <2>1. /\ watch[w] \in [open : BOOLEAN, queue : Seq(Events)] /\ MaxEvents \in Nat
          /\ q \in Seq(Shown(w, pods.old)) /\ Len(q) <= MaxEvents /\ Len(q) < MaxEvents
      BY Constants DEF IInv, Shape, QueueInv, Room
    <2>2. q \in Seq(Shown(w, old))
      BY <2>1, ShownType
    <2>3. CASE ~watch[w].open
      BY <2>1, <2>2, <2>3 DEF Announce
    <2>4. CASE watch[w].open
      <3>1. watch'[w] = [watch[w] EXCEPT !.queue = Append(@, e)] /\ e \in Shown(w, old)
        BY <2>4 DEF Announce
      <3>2. Append(q, e) \in Seq(Shown(w, old)) /\ Len(Append(q, e)) = Len(q) + 1
        BY <2>2, <3>1, AppendProperties
      <3>3. Append(q, e) \in Seq(Events) /\ Len(q) \in Nat
        BY <2>1, <3>2, ShownType, LenProperties
      <3>4. watch'[w].open = watch[w].open /\ watch'[w].queue = Append(q, e)
        BY <2>1, <3>1
      <3>5. watch'[w] \in [open : BOOLEAN, queue : Seq(Events)]
        BY <2>1, <3>1, <3>3
      <3>6. Len(q) + 1 <= MaxEvents
        BY <2>1, <3>3
      <3>7. QED
        BY <3>2, <3>4, <3>5, <3>6
    <2>5. QED
      BY <2>3, <2>4
  <1>2. DOMAIN watch' = Waits
    BY DEF Announce
  <1>3. watch' = [w \in Waits |-> watch'[w]]
    BY DEF Announce
  <1>4. QED
    BY <1>1, <1>3

LEMMA PodKeeps == ASSUME IInv, PodStep PROVE IInv'
  <1>1. /\ UNCHANGED <<command, mode, wait, main, result, answer, routine, found, status,
                       spinning, stops, marks, faults>>
        /\ Room /\ Shape /\ PodInv /\ command \in {"push", "link"}
    BY Constants DEF PodStep, mainVars, OldGoes, NewTurns, IInv
  <1>2. PICK e \in Events : Announce(e) /\
          \/ e.pod = "old" /\ e.phase = pods.old /\ pods.old # "none"
               /\ pods' = [pods EXCEPT !.old = "none"]
          \/ e.pod = "new" /\ pods.old = "none"
               /\ \E p \in Phases : pods' = [pods EXCEPT !.new = p]
    BY <1>1 DEF PodStep, OldGoes, NewTurns, Event, Events, Phases, Shape
  <1>3. /\ pods' \in [old : {"none", "Running"}, new : Phases \cup {"none"}]
        /\ pods'.old = "none" /\ PodInv'
    BY <1>1, <1>2 DEF Shape, PodInv
  <1>4. ASSUME NEW w \in Waits, watch[w].open PROVE e \in Shown(w, "none")
    <2>1. CASE e.pod = "new"
      BY <2>1 DEF Shown
    <2>2. CASE e.pod = "old"
      <3>1. pods.old = "Running" /\ e.phase = "Running" /\ wait = 1 /\ command = "link"
        BY <1>1, <1>2, <2>2 DEF Shape, PodInv, Waits
      <3>2. w = 1
        BY <1>4, <3>1 DEF IInv, QueueInv, Waits
      <3>3. QED
        BY <2>2, <3>1, <3>2 DEF Shown
    <2>3. QED
      BY <1>2, <2>1, <2>2
  <1>5. /\ watch' \in [Waits -> [open : BOOLEAN, queue : Seq(Events)]]
        /\ \A w \in Waits : /\ watch'[w].open = watch[w].open
                            /\ watch'[w].queue \in Seq(Shown(w, "none"))
                            /\ Len(watch'[w].queue) <= MaxEvents
    BY <1>1, <1>2, <1>4, Announced
  <1>6. Shape'
    BY <1>1, <1>3, <1>5 DEF Shape
  <1>7. ASSUME NEW w \in Waits PROVE QueueInv(w)' /\ RoutineInv(w)'
    <2>1. Shown(w, pods.old)' = Shown(w, "none")
      BY <1>1, <1>3 DEF Shown
    <2>2. QED
      BY <1>1, <1>3, <1>5, <2>1 DEF IInv, QueueInv, RoutineInv
  <1>8. MarkInv' /\ AnswerInv'
    BY <1>1, <1>3 DEF IInv, MarkInv, AnswerInv, Phase
  <1>9. QED
    BY <1>3, <1>6, <1>7, <1>8 DEF IInv

\* A step in which nothing happens to the pods and to the watches.
LEMMA QueuesStay ==
  ASSUME IInv, UNCHANGED <<command, pods, watch>>, NEW w \in Waits,
         w > wait' \/ (w = wait' /\ main' = "begin") => w > wait \/ (w = wait /\ main = "begin")
  PROVE  QueueInv(w)'
  BY DEF IInv, QueueInv, Shown

LEMMA WatchFaultKeeps == ASSUME IInv, NEW w \in Waits, WatchFault(w) PROVE IInv'
  <1> DEFINE q == watch[w].queue
             e == Event("none", "Status")
  <1>1. /\ UNCHANGED <<command, mode, pods, wait, main, result, answer, routine, found,
                       status, spinning, stops, marks>>
        /\ faults' \in 0..MaxFaults /\ watch[w].open /\ Shape /\ MaxEvents \in Nat
        /\ DOMAIN watch = Waits
        /\ watch[w] \in [open : BOOLEAN, queue : Seq(Events)]
        /\ q \in Seq(Shown(w, pods.old)) /\ Len(q) <= MaxEvents /\ Len(q) \in Nat
    BY Constants, LenProperties DEF WatchFault, mainVars, IInv, Shape, QueueInv
  <1>2. PICK v \in [open : BOOLEAN, queue : Seq(Events)] :
          /\ watch' = [watch EXCEPT ![w] = v]
          /\ v.queue \in Seq(Shown(w, pods.old)) /\ Len(v.queue) <= MaxEvents
    <2>1. CASE watch' = [watch EXCEPT ![w].open = FALSE]
      <3> DEFINE v == [watch[w] EXCEPT !.open = FALSE]
      <3>1. v \in [open : BOOLEAN, queue : Seq(Events)] /\ v.queue = q
        BY <1>1
      <3>2. watch' = [watch EXCEPT ![w] = v]
        BY <2>1
      <3>3. QED
        BY <1>1, <3>1, <3>2
    <2>2. CASE Room /\ watch' = [watch EXCEPT ![w].queue = Append(@, e)]
      <3> DEFINE v == [watch[w] EXCEPT !.queue = Append(q, e)]
      <3>1. e \in Shown(w, pods.old) /\ Len(q) + 1 <= MaxEvents
        BY <1>1, <2>2 DEF Shown, Event, Events, Room
      <3>2. Append(q, e) \in Seq(Shown(w, pods.old)) /\ Len(Append(q, e)) = Len(q) + 1
        BY <1>1, <3>1, AppendProperties
      <3>3. Append(q, e) \in Seq(Events)
        BY <3>2, ShownType
      <3>4. v \in [open : BOOLEAN, queue : Seq(Events)] /\ v.queue = Append(q, e)
        BY <1>1, <3>3
      <3>5. watch' = [watch EXCEPT ![w] = v]
        BY <2>2
      <3>6. QED
        BY <3>1, <3>2, <3>4, <3>5
    <2>3. QED
      BY <2>1, <2>2 DEF WatchFault
  <1>3. Shape' /\ PodInv' /\ MarkInv' /\ AnswerInv'
    BY <1>1, <1>2 DEF IInv, Shape, PodInv, MarkInv, AnswerInv, Phase
  <1>4. ASSUME NEW x \in Waits PROVE QueueInv(x)' /\ RoutineInv(x)'
    <2>1. RoutineInv(x)'
      BY <1>1 DEF IInv, RoutineInv
    <2>2. ~(w > wait \/ (w = wait /\ main = "begin"))
      BY <1>1 DEF IInv, QueueInv
    <2>3. Shown(x, pods.old)' = Shown(x, pods.old)
      BY <1>1 DEF Shown
    <2>4. CASE x = w
      <3>1. watch'[x] = v
        BY <1>1, <1>2, <2>4
      <3>2. QED
        BY <1>1, <1>2, <2>1, <2>2, <2>3, <2>4, <3>1 DEF QueueInv
    <2>5. CASE x # w
      <3>1. watch'[x] = watch[x] /\ QueueInv(x)
        BY <1>1, <1>2, <2>5 DEF IInv
      <3>2. QED
        BY <1>1, <2>1, <2>3, <3>1 DEF QueueInv
    <2>6. QED
      BY <2>1, <2>4, <2>5
  <1>5. QED
    BY <1>3, <1>4 DEF IInv

LEMMA BeginKeeps == ASSUME IInv, Begin PROVE IInv'
  <1>1. /\ main = "begin" /\ result = "none" /\ Shape /\ PodInv
        /\ command \in {"push", "link"} /\ wait \in Waits
        /\ routine[wait] = "none" /\ marks[wait] = <<>>
        /\ status' = [status EXCEPT ![wait] = TRUE] /\ spinning' \in [Waits -> BOOLEAN]
        /\ UNCHANGED <<command, mode, pods, wait, answer, found, stops, marks>>
    BY Constants DEF Begin, Shows, IInv, Shape, MarkInv, AnswerInv, RoutineInv
  <1>2. CASE /\ watch' = [watch EXCEPT ![wait] = [open |-> TRUE, queue |-> Initially]]
             /\ routine' = [routine EXCEPT ![wait] = "receive"]
             /\ main' = "select"
             /\ UNCHANGED <<result, faults>>
    <2> DEFINE S == Shown(wait, pods.old)
    <2>1. Initially \in Seq(S) /\ Len(Initially) <= 1
      <3>1. pods.old # "none" => Event("old", pods.old) \in S /\ pods.new = "none"
        BY <1>1 DEF Shown, Event, Events, Phases, Shape, PodInv, Waits
      <3>2. pods.new # "none" => Event("new", pods.new) \in S /\ pods.old = "none"
        BY <1>1 DEF Shown, Event, Events, Shape, PodInv
      <3>3. CASE pods.old # "none"
        <4>1. Initially = <<Event("old", pods.old)>>
          BY <3>1, <3>3, <<Event("old", pods.old)>> \in Seq(S), ConcatEmptySeq DEF Initially
        <4>2. QED
          BY <3>1, <3>3, <4>1
      <3>4. CASE pods.old = "none" /\ pods.new # "none"
        <4>1. Initially = <<Event("new", pods.new)>>
          BY <3>4, ConcatEmptySeq DEF Initially
        <4>2. QED
          BY <3>2, <3>4, <4>1
      <3>5. CASE pods.old = "none" /\ pods.new = "none"
        <4>1. Initially = <<>>
          BY <3>5, ConcatEmptySeq DEF Initially
        <4>2. QED
          BY <4>1
      <3>6. QED
        BY <3>3, <3>4, <3>5
    <2>2. Len(Initially) <= MaxEvents
      BY <2>1, Constants, LenProperties
    <2>3. Initially \in Seq(Events)
      BY <1>1, <2>1, ShownType
    <2>4. Shape'
      BY <1>1, <1>2, <2>3 DEF Shape, Steps
    <2>5. PodInv' /\ MarkInv' /\ AnswerInv'
      BY <1>1, <1>2 DEF Shape, PodInv, MarkInv, AnswerInv
    <2>6. ASSUME NEW w \in Waits PROVE QueueInv(w)' /\ RoutineInv(w)'
      <3>1. Shown(w, pods.old)' = Shown(w, pods.old)
        BY <1>1 DEF Shown
      <3>2. RoutineInv(w)'
        BY <1>1, <1>2 DEF IInv, Shape, RoutineInv, Ending, Waits
      <3>3. CASE w = wait
        <4>1. watch'[w] = [open |-> TRUE, queue |-> Initially]
          BY <1>1, <1>2, <3>3 DEF Shape
        <4>2. QED
          BY <1>1, <1>2, <2>1, <2>2, <3>1, <3>2, <3>3, <4>1 DEF QueueInv, Waits
      <3>4. CASE w # wait
        <4>1. watch'[w] = watch[w] /\ QueueInv(w)
          BY <1>1, <1>2, <3>4 DEF IInv, Shape
        <4>2. QED
          BY <1>1, <1>2, <3>1, <3>2, <3>4, <4>1 DEF QueueInv
      <3>5. QED
        BY <3>2, <3>3, <3>4
    <2>7. QED
      BY <2>4, <2>5, <2>6 DEF IInv
  <1>3. CASE /\ faults < MaxFaults
             /\ faults' = faults + 1
             /\ result' = "error"
             /\ main' = "check"
             /\ UNCHANGED <<watch, routine>>
    <2>1. Shape'
      BY <1>1, <1>3, Constants DEF Shape
    <2>2. PodInv' /\ MarkInv' /\ AnswerInv'
      BY <1>1, <1>3 DEF Shape, PodInv, MarkInv, AnswerInv
    <2>3. ASSUME NEW w \in Waits PROVE QueueInv(w)' /\ RoutineInv(w)'
      BY <1>1, <1>3, QueuesStay DEF IInv, Shape, RoutineInv, Ending
    <2>4. QED
      BY <2>1, <2>2, <2>3 DEF IInv
  <1>4. QED
    BY <1>2, <1>3 DEF Begin

LEMMA AnsweredKeeps == ASSUME IInv, Answered PROVE IInv'
  <1>1. /\ main = "select" /\ routine[wait] \in {"send pod", "send error"} /\ main' = "unwatch"
        /\ routine' = [routine EXCEPT ![wait] = "close"]
        /\ routine[wait] = "send pod" => result' = "ok" /\ answer' = found[wait]
        /\ routine[wait] # "send pod" => result' = "error"
        /\ UNCHANGED <<command, mode, pods, faults, wait, found, watch, status, spinning,
                       stops, marks>>
        /\ Shape /\ PodInv /\ MarkInv /\ wait \in Waits /\ RoutineInv(wait)
    BY DEF Answered, podVars, IInv, Shape
  <1>2. Shape' /\ PodInv'
    BY <1>1 DEF Shape, PodInv, Steps
  <1>3. result # "timeout"
    BY <1>1 DEF AnswerInv, IInv
  <1>4. MarkInv'
    BY <1>1, <1>3 DEF Shape, MarkInv
  <1>5. AnswerInv'
    BY <1>1 DEF Shape, AnswerInv, RoutineInv, Ending, Phase
  <1>6. ASSUME NEW w \in Waits PROVE QueueInv(w)' /\ RoutineInv(w)'
    BY <1>1, QueuesStay DEF IInv, Shape, RoutineInv, Ending
  <1>7. QED
    BY <1>2, <1>4, <1>5, <1>6 DEF IInv

LEMMA TimesOutKeeps == ASSUME IInv, TimesOut PROVE IInv'
  <1>1. /\ main = "select" /\ main' = "unwatch" /\ result' = "timeout"
        /\ UNCHANGED <<command, mode, pods, faults, wait, answer, routine, found, watch,
                       status, spinning, stops, marks>>
    BY DEF TimesOut, podVars
  <1>2. Shape' /\ PodInv' /\ MarkInv' /\ AnswerInv'
    BY <1>1 DEF IInv, Shape, PodInv, MarkInv, AnswerInv
  <1>3. ASSUME NEW w \in Waits PROVE QueueInv(w)' /\ RoutineInv(w)'
    BY <1>1, QueuesStay DEF IInv, RoutineInv
  <1>4. QED
    BY <1>2, <1>3 DEF IInv

LEMMA UnwatchKeeps == ASSUME IInv, Unwatch PROVE IInv'
  <1> DEFINE v == [watch[wait] EXCEPT !.open = FALSE]
  <1>1. /\ main = "unwatch" /\ main' = "check"
        /\ watch' = [watch EXCEPT ![wait] = v] /\ wait \in Waits
        /\ UNCHANGED <<command, mode, pods, faults, wait, result, answer, routine, found,
                       status, spinning, stops, marks>>
        /\ v \in [open : BOOLEAN, queue : Seq(Events)] /\ v.queue = watch[wait].queue /\ ~v.open
    BY DEF Unwatch, podVars, IInv, Shape
  <1>2. Shape' /\ PodInv' /\ MarkInv' /\ AnswerInv'
    BY <1>1 DEF IInv, Shape, PodInv, MarkInv, AnswerInv, Phase
  <1>3. ASSUME NEW w \in Waits PROVE QueueInv(w)' /\ RoutineInv(w)'
    <2>1. RoutineInv(w)'
      BY <1>1 DEF IInv, RoutineInv
    <2>2. Shown(w, pods.old)' = Shown(w, pods.old)
      BY <1>1 DEF Shown
    <2>3. watch'[w].queue = watch[w].queue /\ (watch'[w].open => watch[w].open)
      BY <1>1 DEF IInv, Shape
    <2>4. QED
      BY <1>1, <2>1, <2>2, <2>3 DEF IInv, QueueInv
  <1>4. QED
    BY <1>2, <1>3 DEF IInv

\* s.End of the main goroutine: what routine[wait] may be is MarkInv's.
LEMMA MainEndsKeeps == ASSUME IInv, MainEnds PROVE IInv'
  <1>1. /\ UNCHANGED <<command, mode, pods, faults, wait, result, answer, routine, found,
                       watch, spinning>>
        /\ Shape /\ PodInv /\ MarkInv /\ wait \in Waits
        /\ main \in {"check", "stop", "mark"}
        /\ main' \in {"stop", "mark", "ended"}
    BY DEF MainEnds, EndChecks, podVars, IInv, Shape
  <1>2. ASSUME NEW w \in Waits PROVE QueueInv(w)'
    BY <1>1, QueuesStay
  <1>3. CASE main = "check" /\ EndChecks(wait, main') /\ UNCHANGED <<stops, marks, status>>
    <2>1. Shape' /\ PodInv' /\ AnswerInv'
      BY <1>1, <1>3 DEF IInv, Shape, PodInv, AnswerInv, Phase
    <2>2. MarkInv'
      <3>1. CASE ~status[wait]
        BY <1>1, <1>3, <3>1 DEF MarkInv, EndChecks
      <3>2. CASE status[wait]
        BY <1>1, <1>3, <3>2 DEF MarkInv, EndChecks
      <3>3. QED
        BY <3>1, <3>2
    <2>3. ASSUME NEW w \in Waits PROVE RoutineInv(w)'
      BY <1>1, <1>3 DEF IInv, RoutineInv
    <2>4. QED
      BY <1>2, <2>1, <2>2, <2>3 DEF IInv
  <1>4. CASE main = "stop" /\ EndStops(wait) /\ main' = "mark" /\ UNCHANGED <<marks, status>>
    <2>1. Shape' /\ PodInv' /\ AnswerInv' /\ MarkInv'
      BY <1>1, <1>4 DEF IInv, Shape, PodInv, AnswerInv, Phase, MarkInv, EndStops
    <2>2. ASSUME NEW w \in Waits PROVE RoutineInv(w)'
      BY <1>1, <1>4 DEF IInv, RoutineInv
    <2>3. QED
      BY <1>2, <2>1, <2>2 DEF IInv
  <1>5. CASE main = "mark" /\ EndMarks(wait, "failure") /\ main' = "ended" /\ UNCHANGED stops
    <2>1. Shape' /\ PodInv' /\ AnswerInv'
      BY <1>1, <1>5 DEF IInv, Shape, PodInv, AnswerInv, Phase, EndMarks
    <2>2. MarkInv'
      <3>1. marks'[wait] = Append(marks[wait], "failure")
        BY <1>1, <1>5 DEF EndMarks, Shape
      <3>2. Append(<<>>, "failure") = <<"failure">>
        OBVIOUS
      <3>3. result # "timeout" => result # "ok" /\ marks[wait] = <<>>
        BY <1>1, <1>5 DEF MarkInv
      <3>4. result # "timeout" => routine[wait] \in {"none", "close", "done"} /\ result # "none"
        BY <1>1, <1>5 DEF MarkInv
      <3>5. QED
        BY <1>1, <1>5, <3>1, <3>2, <3>3, <3>4 DEF MarkInv
    <2>3. ASSUME NEW w \in Waits PROVE RoutineInv(w)'
      BY <1>1, <1>5 DEF IInv, RoutineInv, EndMarks, Shape
    <2>4. QED
      BY <1>2, <2>1, <2>2, <2>3 DEF IInv
  <1>6. QED
    BY <1>3, <1>4, <1>5 DEF MainEnds

\* The second wait of a link begins when the new pod was seen: the old one is
\* gone by then.
LEMMA ProceedKeeps == ASSUME IInv, Proceed PROVE IInv'
  <1>1. /\ main = "ended" /\ Shape /\ PodInv /\ MarkInv /\ AnswerInv /\ wait \in Waits
        /\ command \in {"push", "link"}
        /\ UNCHANGED <<command, mode, pods, faults, routine, found, watch, status, spinning,
                       stops, marks>>
    BY Constants DEF Proceed, podVars, IInv, Shape
  <1>2. CASE result = "ok" /\ wait < Len(Desired(command))
    <2>1. wait = 1 /\ command = "link" /\ pods.old = "none" /\ routine[1] \in {"close", "done"}
      BY <1>1, <1>2 DEF Waits, Desired, AnswerInv, MarkInv
    <2>2. wait' = 2 /\ main' = "begin" /\ result' = "none"
      BY <1>2, <2>1 DEF Proceed
    <2>3. Shape' /\ PodInv' /\ MarkInv' /\ AnswerInv'
      BY <1>1, <2>1, <2>2 DEF Shape, PodInv, MarkInv, AnswerInv, Waits
    <2>4. ASSUME NEW w \in Waits PROVE QueueInv(w)' /\ RoutineInv(w)'
      <3>1. QueueInv(w)'
        BY <1>1, <2>1, <2>2, QueuesStay DEF Waits
      <3>2. RoutineInv(w) /\ w \in {1, 2}
        BY DEF IInv, Waits
      <3>3. ASSUME w = 1 PROVE RoutineInv(w)'
        <4>1. ~(w > wait') /\ ~(w = wait')
          BY <2>2, <3>3
        <4>2. routine' = routine
          BY <1>1
        <4>3. routine'[w] \in {"close", "done"}
          BY <2>1, <3>3, <4>2
        <4>4. QED
          BY <4>1, <4>3 DEF RoutineInv, Ending
      <3>4. ASSUME w = 2 PROVE RoutineInv(w)'
        <4>1. /\ routine[w] = "none" /\ ~status[w] /\ marks[w] = <<>>
              /\ ~(w < wait') /\ UNCHANGED <<routine, status, marks>>
          BY <1>1, <2>1, <2>2, <3>2, <3>4 DEF RoutineInv
        <4>2. QED
          BY <4>1 DEF RoutineInv, Ending
      <3>5. QED
        BY <3>1, <3>2, <3>3, <3>4
    <2>5. QED
      BY <2>3, <2>4 DEF IInv
  <1>3. CASE ~(result = "ok" /\ wait < Len(Desired(command)))
    <2>1. main' = "done" /\ UNCHANGED <<wait, result, answer>>
      BY <1>3 DEF Proceed
    <2>2. Shape' /\ PodInv' /\ MarkInv' /\ AnswerInv'
      BY <1>1, <2>1 DEF Shape, PodInv, MarkInv, AnswerInv, Phase
    <2>3. ASSUME NEW w \in Waits PROVE QueueInv(w)' /\ RoutineInv(w)'
      BY <1>1, <2>1, QueuesStay DEF IInv, RoutineInv
    <2>4. QED
      BY <2>2, <2>3 DEF IInv
  <1>4. QED
    BY <1>2, <1>3

-----------------------------------------------------------------------------
(* The goroutines.                                                         *)

\* A goroutine that still does something belongs to the current wait.
LEMMA RunningRoutine ==
  ASSUME IInv, NEW w \in Waits, routine[w] \notin {"none", "close", "done"}
  PROVE  w = wait /\ main # "begin" /\ (result # "timeout" => main = "select")
  <1>1. RoutineInv(w) /\ MarkInv /\ AnswerInv /\ Shape
    BY DEF IInv
  <1>2. ~(w < wait) /\ ~(w > wait \/ (w = wait /\ main = "begin"))
    BY <1>1 DEF RoutineInv
  <1>3. w = wait
    BY <1>1, <1>2 DEF Shape, Waits
  <1>4. QED
    BY <1>1, <1>2, <1>3 DEF MarkInv

\* Of what a watch delivers, only the new pod is in the phase that is waited for.
LEMMA OnlyTheNewPod ==
  ASSUME IInv, NEW e \in Shown(wait, pods.old), Verdict(wait, e) \in Ending
  PROVE  e = Event("new", Desired(command)[wait]) /\ pods.old = "none" /\ Verdict(wait, e) = "check"
  <1>1. /\ command \in {"push", "link"} /\ wait \in Waits /\ PodInv
        /\ e \in Events
    BY Constants DEF IInv, Shape, Shown
  <1>2. e.phase = Desired(command)[wait] /\ Verdict(wait, e) = "check"
    BY DEF Verdict, Ending
  <1>3. e.pod # "none"
    BY <1>1, <1>2, Constants DEF Shown
  <1>4. e.pod # "old"
    <2>1. SUFFICES ASSUME e.pod = "old" PROVE FALSE
      OBVIOUS
    <2>2. e.phase = "Running" /\ wait = 1 /\ command = "link"
      BY <2>1 DEF Shown
    <2>3. QED
      BY <1>2, <2>2 DEF Desired
  <1>5. e.pod = "new" /\ pods.old = "none"
    BY <1>1, <1>3, <1>4 DEF Events, Shown
  <1>6. QED
    BY <1>1, <1>2, <1>5 DEF Events, Event

LEMMA ReceiveKeeps == ASSUME IInv, NEW w \in Waits, Receive(w) PROVE IInv'
  <1> DEFINE early == w > wait \/ (w = wait /\ main = "begin")
  <1>1. /\ routine[w] = "receive" /\ w = wait /\ Shape /\ main # "begin" /\ ~early
        /\ PodInv /\ MarkInv /\ AnswerInv /\ RoutineInv(w)
        /\ UNCHANGED <<command, mode, pods, faults, wait, main, result, answer, status,
                       spinning, stops, marks>>
    BY RunningRoutine DEF Receive, podVars, mainVars, IInv, RoutineInv
  <1>2. PICK next \in Ending \cup {"receive", "send error"} :
          /\ routine' = [routine EXCEPT ![w] = next]
          /\ next # "send pod"
          /\ next \in Ending => found'[w] = Event("new", Desired(command)[w]) /\ pods.old = "none"
          /\ DOMAIN found' = Waits /\ \A x \in Waits \ {w} : found'[x] = found[x]
          /\ watch' \in [Waits -> [open : BOOLEAN, queue : Seq(Events)]]
          /\ \A x \in Waits \ {w} : watch'[x] = watch[x]
          /\ watch'[w].queue \in Seq(Shown(w, pods.old))
          /\ Len(watch'[w].queue) <= MaxEvents
    <2> DEFINE q == watch[w].queue
    <2>1. /\ q \in Seq(Shown(w, pods.old)) /\ Len(q) <= MaxEvents /\ MaxEvents \in Nat
          /\ DOMAIN watch = Waits /\ DOMAIN found = Waits
          /\ watch \in [Waits -> [open : BOOLEAN, queue : Seq(Events)]]
          /\ watch[w] \in [open : BOOLEAN, queue : Seq(Events)]
      BY <1>1, Constants DEF IInv, Shape, QueueInv
    <2>2. CASE q # <<>> /\ watch' = [watch EXCEPT ![w].queue = Tail(@)]
                 /\ found' = [found EXCEPT ![w] = Head(q)]
                 /\ routine' = [routine EXCEPT ![w] = Verdict(w, Head(q))]
      <3>1. /\ Head(q) \in Shown(w, pods.old) /\ Tail(q) \in Seq(Shown(w, pods.old))
            /\ Len(Tail(q)) = Len(q) - 1 /\ Len(q) \in Nat
        BY <2>1, <2>2, HeadTailProperties, LenProperties
      <3>2. Verdict(w, Head(q)) \in Ending \cup {"receive", "send error"}
        BY DEF Verdict, Ending
      <3>3. Verdict(w, Head(q)) # "send pod"
        BY DEF Verdict
      <3>4. Verdict(w, Head(q)) \in Ending =>
              found'[w] = Event("new", Desired(command)[w]) /\ pods.old = "none"
        BY <1>1, <2>1, <2>2, <3>1, OnlyTheNewPod
      <3> DEFINE v == [watch[w] EXCEPT !.queue = Tail(q)]
      <3>5. Tail(q) \in Seq(Events)
        BY <3>1, ShownType
      <3>6. v \in [open : BOOLEAN, queue : Seq(Events)] /\ v.queue = Tail(q)
        BY <2>1, <3>5
      <3>7. watch' = [watch EXCEPT ![w] = v] /\ watch'[w] = v
        BY <2>1, <2>2
      <3>8. Len(Tail(q)) <= MaxEvents
        BY <2>1, <3>1
      <3>9. QED
        BY <2>1, <2>2, <3>1, <3>2, <3>3, <3>4, <3>6, <3>7, <3>8
    <2>3. CASE /\ routine' = [routine EXCEPT ![w] = "send error"]
               /\ UNCHANGED <<watch, found>>
      BY <2>1, <2>3 DEF Ending
    <2>4. QED
      BY <2>2, <2>3 DEF Receive
  <1>3. Shape'
    BY <1>1, <1>2 DEF Shape, Steps, Ending
  <1>4. PodInv' /\ MarkInv' /\ AnswerInv'
    BY <1>1, <1>2 DEF Shape, PodInv, MarkInv, AnswerInv, Phase, Ending
  <1>5. ASSUME NEW x \in Waits PROVE QueueInv(x)' /\ RoutineInv(x)'
    <2>1. Shown(x, pods.old)' = Shown(x, pods.old)
      BY <1>1 DEF Shown
    <2>2. CASE x = w
      <3>1. QueueInv(x)'
        <4>1. ~early /\ wait' = wait /\ main' = main
          BY <1>1
        <4>2. /\ watch'[x].queue \in Seq(Shown(x, pods.old))
              /\ Len(watch'[x].queue) <= MaxEvents
          BY <1>2, <2>2
        <4>3. QED
          BY <2>1, <2>2, <4>1, <4>2 DEF QueueInv
      <3>2. routine'[x] = next
        BY <1>1, <1>2, <2>2 DEF Shape
      <3>3. RoutineInv(x)'
        BY <1>1, <1>2, <2>2, <3>2 DEF RoutineInv, Shape, Waits
      <3>4. QED
        BY <3>1, <3>3
    <2>3. CASE x # w
      <3>1. /\ watch'[x] = watch[x] /\ found'[x] = found[x] /\ routine'[x] = routine[x]
            /\ QueueInv(x) /\ RoutineInv(x)
        BY <1>1, <1>2, <2>3 DEF IInv, Shape
      <3>2. QueueInv(x)'
        BY <1>1, <2>1, <3>1 DEF QueueInv
      <3>3. RoutineInv(x)'
        BY <1>1, <3>1 DEF RoutineInv
      <3>4. QED
        BY <3>2, <3>3
    <2>4. QED
      BY <2>2, <2>3
  <1>6. QED
    BY <1>3, <1>4, <1>5 DEF IInv

LEMMA RoutineEndsKeeps == ASSUME IInv, NEW w \in Waits, RoutineEnds(w) PROVE IInv'
  <1>1. /\ routine[w] \in {"check", "stop", "mark"} /\ w = wait /\ main # "begin"
        /\ Shape /\ PodInv /\ MarkInv /\ AnswerInv /\ RoutineInv(w)
        /\ UNCHANGED <<command, mode, pods, faults, wait, main, result, answer, found, watch,
                       spinning>>
    BY RunningRoutine DEF RoutineEnds, podVars, mainVars, IInv
  <1>2. PICK next \in Ending : routine' = [routine EXCEPT ![w] = next]
    BY DEF RoutineEnds, Ending, EndChecks
  <1>3. ASSUME NEW x \in Waits PROVE QueueInv(x)'
    BY <1>1, QueuesStay
  <1>4. ASSUME DOMAIN marks' = Waits, status' \in [Waits -> BOOLEAN], stops' \in [Waits -> 0..1],
               MarkInv', \A x \in Waits \ {w} : marks'[x] = marks[x] /\ status'[x] = status[x]
        PROVE  IInv'
    <2>1. Shape' /\ PodInv' /\ AnswerInv'
      BY <1>1, <1>2, <1>4 DEF Shape, PodInv, AnswerInv, Phase, Steps, Ending
    <2>2. ASSUME NEW x \in Waits PROVE RoutineInv(x)'
      BY <1>1, <1>2, <1>4 DEF IInv, RoutineInv, Shape, Ending, Waits
    <2>3. QED
      BY <1>3, <1>4, <2>1, <2>2 DEF IInv
  <1>5. CASE routine[w] = "check" /\ UNCHANGED <<stops, marks, status>>
    <2>1. result # "timeout" => routine'[w] # "send pod"
      BY <1>1, <1>5 DEF RoutineEnds, EndChecks, MarkInv, Ending, Shape
    <2>2. MarkInv'
      BY <1>1, <1>2, <1>5, <2>1 DEF MarkInv, Shape, Ending
    <2>3. QED
      BY <1>1, <1>4, <1>5, <2>2 DEF Shape
  <1>6. CASE routine[w] = "stop"
    <2>1. EndStops(w) /\ routine' = [routine EXCEPT ![w] = "mark"] /\ UNCHANGED <<marks, status>>
      BY <1>6 DEF RoutineEnds
    <2>2. MarkInv'
      BY <1>1, <1>6, <2>1 DEF MarkInv, Shape, Ending
    <2>3. QED
      BY <1>1, <1>4, <2>1, <2>2 DEF Shape, EndStops
  <1>7. CASE routine[w] = "mark"
    <2>1. /\ marks' = [marks EXCEPT ![w] = Append(@, "success")]
          /\ status' = [status EXCEPT ![w] = FALSE]
          /\ routine' = [routine EXCEPT ![w] = "send pod"] /\ UNCHANGED stops
      BY <1>7 DEF RoutineEnds, EndMarks
    <2>2. Append(<<>>, "success") = <<"success">>
      OBVIOUS
    <2>3. marks'[w] = Append(marks[w], "success") /\ ~status'[w] /\ routine'[w] = "send pod"
      BY <1>1, <2>1 DEF Shape
    <2>4. result # "timeout" => main = "select" /\ result = "none" /\ marks[w] = <<>>
      BY <1>1, <1>7 DEF MarkInv
    <2>5. MarkInv'
      BY <1>1, <2>2, <2>3, <2>4 DEF MarkInv, Ending
    <2>6. QED
      BY <1>1, <1>4, <2>1, <2>5 DEF Shape
  <1>8. QED
    BY <1>1, <1>5, <1>6, <1>7 DEF RoutineEnds

LEMMA CloseKeeps == ASSUME IInv, NEW w \in Waits, Close(w) PROVE IInv'
  <1>1. /\ routine[w] = "close" /\ routine' = [routine EXCEPT ![w] = "done"] /\ Shape
        /\ PodInv /\ MarkInv /\ AnswerInv /\ wait \in Waits
        /\ UNCHANGED <<command, mode, pods, faults, wait, main, result, answer, found, watch,
                       status, spinning, stops, marks>>
    BY DEF Close, podVars, mainVars, IInv, Shape
  <1>2. Shape' /\ PodInv' /\ AnswerInv'
    BY <1>1 DEF Shape, PodInv, AnswerInv, Phase, Steps
  <1>3. MarkInv'
    BY <1>1 DEF Shape, MarkInv, Ending
  <1>4. ASSUME NEW x \in Waits PROVE QueueInv(x)' /\ RoutineInv(x)'
    <2>1. QueueInv(x)'
      BY <1>1, QueuesStay
    <2>2. RoutineInv(w) /\ RoutineInv(x)
      BY DEF IInv
    <2>3. RoutineInv(x)'
      <3>1. CASE x = w
        BY <1>1, <2>2, <3>1 DEF RoutineInv, Shape, Ending
      <3>2. CASE x # w
        <4>1. routine'[x] = routine[x]
          BY <1>1, <3>2 DEF Shape
        <4>2. QED
          BY <1>1, <2>2, <4>1 DEF RoutineInv
      <3>3. QED
        BY <3>1, <3>2
    <2>4. QED
      BY <2>1, <2>3
  <1>5. QED
    BY <1>2, <1>3, <1>4 DEF IInv

LEMMA SpinnerKeeps == ASSUME IInv, NEW w \in Waits, SpinnerStops(w) PROVE IInv'
  <1>1. /\ stops' = [stops EXCEPT ![w] = 0] /\ spinning' = [spinning EXCEPT ![w] = FALSE]
        /\ UNCHANGED <<command, mode, pods, faults, wait, main, result, answer, routine, found,
                       watch, status, marks>>
    BY DEF SpinnerStops, podVars, mainVars
  <1>2. Shape'
    BY <1>1 DEF IInv, Shape
  <1>3. PodInv' /\ MarkInv' /\ AnswerInv'
    BY <1>1 DEF IInv, PodInv, MarkInv, AnswerInv, Phase
  <1>4. ASSUME NEW x \in Waits PROVE QueueInv(x)' /\ RoutineInv(x)'
    BY <1>1, QueuesStay DEF IInv, RoutineInv
  <1>5. QED
    BY <1>2, <1>3, <1>4 DEF IInv

LEMMA StutterKeeps == ASSUME IInv, UNCHANGED vars PROVE IInv'
  <1>1. UNCHANGED <<command, mode, pods, faults, wait, main, result, answer, routine, found,
                    watch, status, spinning, stops, marks>>
    BY DEF vars, podVars, mainVars
  <1>2. Shape' /\ PodInv' /\ MarkInv' /\ AnswerInv'
    BY <1>1 DEF IInv, Shape, PodInv, MarkInv, AnswerInv, Phase
  <1>3. ASSUME NEW x \in Waits PROVE QueueInv(x)' /\ RoutineInv(x)'
    BY <1>1, QueuesStay DEF IInv, RoutineInv
  <1>4. QED
    BY <1>2, <1>3 DEF IInv

-----------------------------------------------------------------------------
LEMMA InitIInv == ASSUME Init PROVE IInv
  <1>1. Shape
    <2>1. <<>> \in Seq(Events)
      OBVIOUS
    <2>2. command \in {"push", "link"} /\ 0 \in 0..MaxFaults
      BY CommandsAssumption, BoundsAssumption DEF Init
    <2>3. QED
      BY <2>1, <2>2 DEF Init, Shape, Steps, Phases, Waits
  <1>2. PodInv /\ MarkInv /\ AnswerInv
    BY DEF Init, PodInv, MarkInv, AnswerInv, Waits
  <1>3. ASSUME NEW w \in Waits PROVE QueueInv(w) /\ RoutineInv(w)
    <2>1. watch[w].queue = <<>> /\ ~watch[w].open /\ Len(<<>>) = 0
      BY DEF Init
    <2>2. QueueInv(w)
      BY <2>1, BoundsAssumption DEF QueueInv
    <2>3. RoutineInv(w)
      <3>1. routine[w] = "none" /\ ~status[w] /\ marks[w] = <<>> /\ ~(w < wait)
        BY DEF Init, Waits
      <3>2. QED
        BY <3>1 DEF RoutineInv, Ending
    <2>4. QED
      BY <2>2, <2>3
  <1>4. QED
    BY <1>1, <1>2, <1>3 DEF IInv

LEMMA Inductive == ASSUME IInv, [Next]_vars PROVE IInv'
  <1>1. CASE PodStep
    BY <1>1, PodKeeps
  <1>2. CASE MainStep
    BY <1>2, BeginKeeps, AnsweredKeeps, TimesOutKeeps, UnwatchKeeps, MainEndsKeeps, ProceedKeeps
    DEF MainStep
  <1>3. ASSUME NEW w \in Waits, WatchFault(w) \/ RoutineStep(w) \/ SpinnerStops(w) PROVE IInv'
    BY <1>3, WatchFaultKeeps, ReceiveKeeps, RoutineEndsKeeps, CloseKeeps, SpinnerKeeps
    DEF RoutineStep
  <1>4. CASE UNCHANGED vars
    BY <1>4, StutterKeeps
  <1>5. QED
    BY <1>1, <1>2, <1>3, <1>4 DEF Next

LEMMA Invariance == Spec => []IInv
  <1>1. Init => IInv
    BY InitIInv
  <1>2. IInv /\ [Next]_vars => IInv'
    BY Inductive
  <1>3. QED
    BY <1>1, <1>2, PTL DEF Spec

-----------------------------------------------------------------------------
\* A wait of WaitAndGetPod has its state's type: the spinner's channel never
\* holds more than its capacity of one, and a wait is one of the command's.
THEOREM TypeCorrect == Spec => []TypeOK
  <1>1. ASSUME IInv PROVE TypeOK
    <2>1. Shape /\ \A w \in Waits : QueueInv(w)
      BY <1>1 DEF IInv
    <2>2. wait \in 1..Len(Desired(command))
      BY <1>1, Constants
    <2>3. QED
      BY <2>1, <2>2 DEF Shape, QueueInv, Steps, TypeOK
  <1>2. QED
    BY <1>1, Invariance, PTL

\* The pod a push or a link ends with is the new one, in the phase the wait was
\* for (common_link.go, WaitAndGetPod): a running old pod is only among what the
\* first wait of a link sees, and that one waits for a pending pod.
THEOREM AnswersAreNew == Spec => []AnswerIsNewPod
  <1>1. ASSUME IInv PROVE AnswerIsNewPod
    BY <1>1 DEF IInv, AnswerInv, AnswerIsNewPod
  <1>2. QED
    BY <1>1, Invariance, PTL

\* Both goroutines may call s.End (deferred in WaitAndGetPod, and before the pod
\* is sent): without a timeout there is one mark, and the right one.
THEOREM MarksMatch == Spec => []MarkMatches
  <1>1. ASSUME IInv PROVE MarkMatches
    BY <1>1 DEF IInv, MarkInv, MarkMatches
  <1>2. QED
    BY <1>1, Invariance, PTL


-----------------------------------------------------------------------------
(* Templates: sequences.                                                   *)

\* A set of naturals has a least element.
LEMMA Least ==
  ASSUME NEW S \in SUBSET Nat, S # {}
  PROVE  \E x \in S : \A y \in S : x <= y
  <1>. DEFINE R == OpToRel(<, Nat)
  <1>1. \E x \in S : \A y \in S : ~ (<<y, x>> \in R)
    <2>1. IsWellFoundedOn(R, Nat)
      BY NatLessThanWellFounded
    <2>. HIDE DEF R
    <2>2. QED
      BY <2>1, WFMin
  <1>2. \A x, y \in Nat : <<y, x>> \in R <=> y < x
    BY DEF OpToRel
  <1>. HIDE DEF R
  <1>3. PICK x \in S : \A y \in S : ~ (<<y, x>> \in R)
    BY <1>1
  <1>4. ASSUME NEW y \in S PROVE x <= y
    <2>1. ~(y < x)
      BY <1>2, <1>3
    <2>2. QED
      BY <2>1
  <1>5. QED
    BY <1>4

\* What the loop of Kept has after each turn.
KeepOne(r, e, keep) == IF e \in keep THEN Append(r, e) ELSE r

AreKept(f, s, keep, n) ==
  f = [i \in 0..n |-> IF i = 0 THEN <<>> ELSE KeepOne(f[i - 1], s[i], keep)]

\* The turns are there: the first m of them, for every m.
LEMMA KeptExist ==
  ASSUME NEW s, NEW keep
  PROVE  \A m \in Nat : \E f : AreKept(f, s, keep, m)
  <1>. DEFINE Wrong == {m \in Nat : ~ \E f : AreKept(f, s, keep, m)}
  <1>1. SUFFICES ASSUME Wrong # {} PROVE FALSE
    OBVIOUS
  <1>2. PICK m \in Wrong : \A k \in Wrong : m <= k
    <2>1. Wrong \in SUBSET Nat
      OBVIOUS
    <2>. HIDE DEF Wrong
    <2>2. QED
      BY <1>1, <2>1, Least
  <1>3. m \in Nat /\ \A f : ~AreKept(f, s, keep, m)
    OBVIOUS
  <1>4. CASE m = 0
    <2>. DEFINE f == [i \in 0..0 |-> <<>>]
    <2>1. AreKept(f, s, keep, 0)
      BY DEF AreKept
    <2>2. QED
      BY <1>3, <1>4, <2>1
  <1>5. CASE m # 0
    <2>1. m - 1 \in Nat /\ m - 1 \notin Wrong
      <3>1. m - 1 \in Nat /\ ~(m <= m - 1)
        BY <1>3, <1>5
      <3>2. QED
        BY <1>2, <3>1
    <2>2. PICK g : AreKept(g, s, keep, m - 1)
      BY <2>1
    <2>. DEFINE f == [i \in 0..m |-> IF i = m THEN KeepOne(g[m - 1], s[m], keep) ELSE g[i]]
    <2>3. \A i \in 0..(m - 1) : g[i] = IF i = 0 THEN <<>> ELSE KeepOne(g[i - 1], s[i], keep)
      BY <2>2 DEF AreKept
    <2>4. \A i \in 0..(m - 1) : f[i] = g[i]
      BY <1>3
    <2>5. ASSUME NEW i \in 0..m
          PROVE  f[i] = IF i = 0 THEN <<>> ELSE KeepOne(f[i - 1], s[i], keep)
      <3>1. CASE i = m
        <4>1. f[i] = KeepOne(g[m - 1], s[m], keep)
          BY <3>1
        <4>2. m - 1 \in 0..(m - 1)
          BY <1>3, <1>5
        <4>3. f[m - 1] = g[m - 1]
          BY <2>4, <4>2
        <4>. HIDE DEF f
        <4>4. QED
          BY <1>5, <3>1, <4>1, <4>3
      <3>2. CASE i # m
        <4>1. i \in 0..(m - 1) /\ (i # 0 => i - 1 \in 0..(m - 1))
          BY <1>3, <3>2
        <4>2. f[i] = g[i] /\ (i # 0 => f[i - 1] = g[i - 1])
          BY <2>4, <4>1
        <4>. HIDE DEF f
        <4>3. QED
          BY <2>3, <4>1, <4>2
      <3>3. QED
        BY <3>1, <3>2
    <2>6. f = [i \in 0..m |-> f[i]]
      OBVIOUS
    <2>. HIDE DEF f
    <2>7. AreKept(f, s, keep, m)
      BY <2>5, <2>6 DEF AreKept
    <2>8. QED
      BY <1>3, <2>7
  <1>6. QED
    BY <1>4, <1>5

LEMMA KeptTurns ==
  ASSUME NEW s, NEW keep, Len(s) \in Nat
  PROVE  \E f : /\ Kept(s, keep) = f[Len(s)]
                /\ f[0] = <<>>
                /\ \A i \in 1..Len(s) : f[i] = KeepOne(f[i - 1], s[i], keep)
  <1>1. \E f : AreKept(f, s, keep, Len(s))
    BY KeptExist
  <1>. DEFINE f == CHOOSE f : AreKept(f, s, keep, Len(s))
  <1>2. Kept(s, keep) = f[Len(s)]
    BY DEF Kept, AreKept, KeepOne
  <1>3. AreKept(f, s, keep, Len(s))
    BY <1>1
  <1>. HIDE DEF f
  <1>4. f[0] = <<>> /\ \A i \in 1..Len(s) : f[i] = KeepOne(f[i - 1], s[i], keep)
    BY <1>3 DEF AreKept
  <1>5. QED
    BY <1>2, <1>4

\* What Kept promises.
KeptWell(r, s, keep, S, n) ==
  /\ r \in Seq(S)
  /\ Range(r) = {s[j] : j \in 1..n} \cap keep
  /\ (\A j, k \in 1..n : s[j] = s[k] => j = k) => IsInjective(r)

LEMMA AppendFacts ==
  ASSUME NEW S, NEW r \in Seq(S), NEW e \in S
  PROVE  /\ Append(r, e) \in Seq(S)
         /\ Range(Append(r, e)) = Range(r) \cup {e}
         /\ IsInjective(r) /\ e \notin Range(r) => IsInjective(Append(r, e))
  <1>1. /\ Append(r, e) \in Seq(S) /\ Len(Append(r, e)) = Len(r) + 1
        /\ \A i \in 1..Len(r) : Append(r, e)[i] = r[i]
        /\ Append(r, e)[Len(r) + 1] = e
    BY AppendProperties
  <1>2. Len(r) \in Nat /\ DOMAIN r = 1..Len(r) /\ DOMAIN Append(r, e) = 1..(Len(r) + 1)
    BY <1>1, LenProperties
  <1>. DEFINE t == Append(r, e)
  <1>. HIDE DEF t
  <1>3. Range(t) = Range(r) \cup {e}
    <2>1. ASSUME NEW x \in Range(t) PROVE x \in Range(r) \cup {e}
      BY <1>1, <1>2 DEF Range, t
    <2>2. ASSUME NEW x \in Range(r) PROVE x \in Range(t)
      <3>1. PICK i \in 1..Len(r) : r[i] = x
        BY <1>2 DEF Range
      <3>2. i \in 1..(Len(r) + 1) /\ t[i] = x
        BY <1>1, <1>2, <3>1 DEF t
      <3>3. QED
        BY <1>2, <3>2 DEF Range, t
    <2>3. e \in Range(t)
      <3>1. Len(r) + 1 \in 1..(Len(r) + 1)
        BY <1>2
      <3>2. QED
        BY <1>1, <1>2, <3>1 DEF Range, t
    <2>4. QED
      BY <2>1, <2>2, <2>3
  <1>4. ASSUME IsInjective(r), e \notin Range(r) PROVE IsInjective(t)
    <2>1. \A i, j \in 1..Len(r) : r[i] = r[j] => i = j
      BY <1>2, <1>4 DEF IsInjective
    <2>2. \A i \in 1..Len(r) : r[i] # e
      BY <1>2, <1>4 DEF Range
    <2>3. ASSUME NEW i \in 1..(Len(r) + 1), NEW j \in 1..(Len(r) + 1), t[i] = t[j]
          PROVE  i = j
      BY <1>1, <1>2, <2>1, <2>2, <2>3 DEF t
    <2>4. QED
      BY <1>2, <2>3 DEF IsInjective, t
  <1>5. QED
    BY <1>1, <1>3, <1>4 DEF t

LEMMA KeptFacts ==
  ASSUME NEW S, NEW s \in Seq(S), NEW keep
  PROVE  /\ Kept(s, keep) \in Seq(S)
         /\ Range(Kept(s, keep)) = Range(s) \cap keep
         /\ IsInjective(s) => IsInjective(Kept(s, keep))
  <1>1. Len(s) \in Nat /\ DOMAIN s = 1..Len(s) /\ \A i \in 1..Len(s) : s[i] \in S
    BY LenProperties, ElementOfSeq
  <1>2. PICK f : /\ Kept(s, keep) = f[Len(s)] /\ f[0] = <<>>
                 /\ \A i \in 1..Len(s) : f[i] = KeepOne(f[i - 1], s[i], keep)
    BY <1>1, KeptTurns
  <1>. DEFINE Wrong == {m \in 0..Len(s) : ~KeptWell(f[m], s, keep, S, m)}
  <1>3. Wrong = {}
    <2>1. SUFFICES ASSUME Wrong # {} PROVE FALSE
      OBVIOUS
    <2>2. PICK m \in Wrong : \A k \in Wrong : m <= k
      <3>1. Wrong \in SUBSET Nat
        OBVIOUS
      <3>. HIDE DEF Wrong
      <3>2. QED
        BY <2>1, <3>1, Least
    <2>3. m \in 0..Len(s) /\ ~KeptWell(f[m], s, keep, S, m)
      OBVIOUS
    <2>4. CASE m = 0
      <3>1. KeptWell(<<>>, s, keep, S, 0)
        BY EmptySeq DEF KeptWell, Range, IsInjective
      <3>2. QED
        BY <1>2, <2>3, <2>4, <3>1
    <2>5. CASE m # 0
      <3>1. m - 1 \in 0..Len(s) /\ m \in 1..Len(s) /\ ~(m <= m - 1)
        BY <1>1, <2>3, <2>5
      <3>2. KeptWell(f[m - 1], s, keep, S, m - 1)
        BY <2>2, <3>1
      <3>3. f[m] = KeepOne(f[m - 1], s[m], keep) /\ s[m] \in S
        BY <1>1, <1>2, <3>1
      <3>4. KeptWell(f[m], s, keep, S, m)
        <4>. DEFINE r == f[m - 1]
                    seen == {s[j] : j \in 1..(m - 1)}
        <4>1. {s[j] : j \in 1..m} = seen \cup {s[m]}
          BY <3>1
        <4>2. r \in Seq(S) /\ Range(r) = seen \cap keep
          BY <3>2 DEF KeptWell
        <4>3. ASSUME \A j, k \in 1..m : s[j] = s[k] => j = k
              PROVE  IsInjective(r) /\ s[m] \notin seen
          <5>1. \A j \in 1..(m - 1) : j \in 1..m /\ m \in 1..m /\ j # m
            BY <3>1
          <5>2. QED
            BY <3>2, <4>3, <5>1 DEF KeptWell
        <4>. HIDE DEF r, seen
        <4>4. CASE s[m] \in keep
          <5>1. f[m] = Append(r, s[m])
            BY <3>3, <4>4 DEF KeepOne, r
          <5>2. Append(r, s[m]) \in Seq(S) /\ Range(Append(r, s[m])) = Range(r) \cup {s[m]}
                /\ (IsInjective(r) /\ s[m] \notin Range(r) => IsInjective(Append(r, s[m])))
            BY <3>3, <4>2, AppendFacts
          <5>3. QED
            BY <4>1, <4>2, <4>3, <4>4, <5>1, <5>2 DEF KeptWell
        <4>5. CASE s[m] \notin keep
          <5>1. f[m] = r
            BY <3>3, <4>5 DEF KeepOne, r
          <5>2. QED
            BY <4>1, <4>2, <4>3, <4>5, <5>1 DEF KeptWell
        <4>6. QED
          BY <4>4, <4>5
      <3>5. QED
        BY <2>3, <3>4
    <2>6. QED
      BY <2>4, <2>5
  <1>4. KeptWell(Kept(s, keep), s, keep, S, Len(s))
    BY <1>1, <1>2, <1>3
  <1>5. QED
    BY <1>1, <1>4 DEF KeptWell, Range, IsInjective

LEMMA WithoutFacts ==
  ASSUME NEW S, NEW s \in Seq(S), NEW drop
  PROVE  /\ Without(s, drop) \in Seq(S)
         /\ Range(Without(s, drop)) = Range(s) \ drop
         /\ IsInjective(s) => IsInjective(Without(s, drop))
  BY KeptFacts DEF Without

LEMMA ConcatFacts ==
  ASSUME NEW S, NEW s \in Seq(S), NEW t \in Seq(S)
  PROVE  /\ s \o t \in Seq(S)
         /\ Range(s \o t) = Range(s) \cup Range(t)
         /\ IsInjective(s) /\ IsInjective(t) /\ Range(s) \cap Range(t) = {} => IsInjective(s \o t)
  <1>. DEFINE c == s \o t
              m == Len(s)
              n == Len(t)
  <1>1. /\ c \in Seq(S) /\ Len(c) = m + n
        /\ \A i \in 1..(m + n) : c[i] = IF i <= m THEN s[i] ELSE t[i - m]
    BY ConcatProperties
  <1>2. /\ m \in Nat /\ n \in Nat
        /\ DOMAIN s = 1..m /\ DOMAIN t = 1..n /\ DOMAIN c = 1..(m + n)
    BY <1>1, LenProperties
  <1>. HIDE DEF c, m, n
  <1>3. Range(c) = Range(s) \cup Range(t)
    <2>1. ASSUME NEW i \in 1..(m + n) PROVE c[i] \in Range(s) \cup Range(t)
      <3>1. CASE i <= m
        <4>1. i \in 1..m /\ c[i] = s[i]
          BY <1>1, <1>2, <3>1
        <4>2. QED
          BY <1>2, <4>1 DEF Range
      <3>2. CASE ~(i <= m)
        <4>1. i - m \in 1..n /\ c[i] = t[i - m]
          BY <1>1, <1>2, <3>2
        <4>2. QED
          BY <1>2, <4>1 DEF Range
      <3>3. QED
        BY <3>1, <3>2
    <2>2. ASSUME NEW i \in 1..m PROVE s[i] \in Range(c)
      <3>1. i \in 1..(m + n) /\ c[i] = s[i]
        BY <1>1, <1>2
      <3>2. QED
        BY <1>2, <3>1 DEF Range
    <2>3. ASSUME NEW i \in 1..n PROVE t[i] \in Range(c)
      <3>1. i + m \in 1..(m + n) /\ ~(i + m <= m) /\ (i + m) - m = i
        BY <1>2
      <3>2. c[i + m] = t[i]
        <4>1. c[i + m] = t[(i + m) - m]
          BY <1>1, <3>1
        <4>2. QED
          BY <3>1, <4>1
      <3>3. QED
        BY <1>2, <3>1, <3>2 DEF Range
    <2>4. QED
      BY <1>2, <2>1, <2>2, <2>3 DEF Range
  <1>4. ASSUME IsInjective(s), IsInjective(t), Range(s) \cap Range(t) = {}
        PROVE  IsInjective(c)
    <2>1. \A i, j \in 1..m : s[i] = s[j] => i = j
      BY <1>2, <1>4 DEF IsInjective
    <2>2. \A i, j \in 1..n : t[i] = t[j] => i = j
      BY <1>2, <1>4 DEF IsInjective
    <2>3. \A i \in 1..m, j \in 1..n : s[i] # t[j]
      BY <1>2, <1>4 DEF Range
    <2>4. ASSUME NEW i \in 1..(m + n), NEW j \in 1..(m + n), c[i] = c[j]
          PROVE  i = j
      <3>1. i <= m \/ i - m \in 1..n
        BY <1>2
      <3>2. j <= m \/ j - m \in 1..n
        BY <1>2
      <3>3. QED
        BY <1>1, <1>2, <2>1, <2>2, <2>3, <2>4, <3>1, <3>2
    <2>5. QED
      BY <1>2, <2>4 DEF IsInjective
  <1>5. QED
    BY <1>1, <1>3, <1>4 DEF c

\* The orders storages can be mounted in.
LEMMA OrderFacts ==
  ASSUME NEW S, IsFiniteSet(S)
  PROVE  /\ SetToSeqs(S) # {}
         /\ \A s \in SetToSeqs(S) : s \in Seq(S) /\ Range(s) = S /\ IsInjective(s)
  <1>1. Cardinality(S) \in Nat /\ \E f : f \in Bijection(1..Cardinality(S), S)
    BY FS_CardinalityType DEF ExistsBijection
  <1>. DEFINE n == Cardinality(S)
  <1>2. PICK f \in Bijection(1..n, S) : TRUE
    BY <1>1
  <1>3. f \in SetToSeqs(S)
    BY <1>2 DEF SetToSeqs, Bijection, Injection, IsInjective, Surjection
  <1>4. ASSUME NEW s \in SetToSeqs(S)
        PROVE  s \in Seq(S) /\ Range(s) = S /\ IsInjective(s)
    <2>1. s \in [1..n -> S] /\ \A i, j \in 1..n : i # j => s[i] # s[j]
      BY DEF SetToSeqs
    <2>2. n \in Nat /\ IsFiniteSet(1..n) /\ Cardinality(1..n) = n
      BY <1>1, FS_Interval
    <2>3. s \in Injection(1..n, S)
      BY <2>1 DEF Injection, IsInjective
    <2>4. s \in Surjection(1..n, S)
      BY <2>2, <2>3, FS_Injection
    <2>. HIDE DEF n
    <2>5. s \in Seq(S)
      BY <2>1, <2>2
    <2>6. Range(s) = S /\ IsInjective(s)
      BY <2>1, <2>3, <2>4 DEF Surjection, Injection, Range
    <2>7. QED
      BY <2>5, <2>6
  <1>5. QED
    BY <1>3, <1>4

-----------------------------------------------------------------------------
(* Templates: the variables of a container.                                *)

UniqueNames(s) == \A i, j \in DOMAIN s : s[i].name = s[j].name => i = j

LEMMA ConcatOne ==
  ASSUME NEW V, NEW old \in Seq(V), NEW new \in Seq(V), Len(new) = 1
  PROVE  /\ Len(old) \in Nat /\ DOMAIN old = 1..Len(old)
         /\ DOMAIN (old \o new) = 1..(Len(old) + 1)
         /\ \A j \in 1..Len(old) : (old \o new)[j] = old[j] /\ old[j] \in V
         /\ (old \o new)[Len(old) + 1] = new[1] /\ new[1] \in V
  <1>. DEFINE n == Len(old)
              all == old \o new
  <1>1. /\ n \in Nat /\ DOMAIN old = 1..n /\ \A j \in 1..n : old[j] \in V
        /\ new[1] \in V
    <2>1. 1 \in 1..Len(new)
      OBVIOUS
    <2>2. new[1] \in V
      BY <2>1, ElementOfSeq
    <2>3. QED
      BY <2>2, LenProperties, ElementOfSeq
  <1>2. /\ all \in Seq(V) /\ Len(all) = n + 1
        /\ \A j \in 1..(n + 1) : all[j] = IF j <= n THEN old[j] ELSE new[j - n]
    BY ConcatProperties
  <1>3. DOMAIN all = 1..(n + 1)
    BY <1>2, LenProperties
  <1>. HIDE DEF n, all
  <1>4. \A j \in 1..n : j \in 1..(n + 1) /\ j <= n
    BY <1>1
  <1>5. n + 1 \in 1..(n + 1) /\ ~(n + 1 <= n) /\ (n + 1) - n = 1
    BY <1>1
  <1>6. all[n + 1] = new[1]
    <2>1. all[n + 1] = new[(n + 1) - n]
      BY <1>2, <1>5
    <2>2. QED
      BY <1>5, <2>1
  <1>7. QED
    BY <1>1, <1>2, <1>3, <1>4, <1>6 DEF n, all

\* The last value of a name, when one variable follows old ones of different
\* names.
LastWins(all, e) ==
  \A i \in DOMAIN all :
    Lookup(all, all[i].name) = IF all[i].name = e.name THEN e ELSE all[i]

LEMMA LookupFacts ==
  ASSUME NEW V, NEW old \in Seq(V), NEW new \in Seq(V), UniqueNames(old),
         Len(new) = 1
  PROVE  LastWins(old \o new, new[1])
  <1>. DEFINE n == Len(old)
              e == new[1]
              all == old \o new
  <1>1. /\ n \in Nat /\ DOMAIN old = 1..n /\ DOMAIN all = 1..(n + 1)
        /\ \A j \in 1..n : all[j] = old[j]
        /\ all[n + 1] = e
    BY ConcatOne
  <1>. HIDE DEF n, e, all
  <1>. SUFFICES ASSUME NEW i \in DOMAIN all
                PROVE  Lookup(all, all[i].name) = IF all[i].name = e.name THEN e ELSE all[i]
    BY DEF LastWins, e, all
  <1>. DEFINE m == all[i].name
              last == CHOOSE k \in DOMAIN all : all[k].name = m /\
                        \A j \in DOMAIN all : all[j].name = m => j <= k
  <1>2. Lookup(all, m) = all[last]
    BY DEF Lookup
  <1>3. i \in 1..(n + 1)
    BY <1>1
  <1>4. CASE m = e.name
    <2>1. \E k \in DOMAIN all : all[k].name = m /\
                        \A j \in DOMAIN all : all[j].name = m => j <= k
      <3>1. n + 1 \in DOMAIN all /\ \A j \in DOMAIN all : j <= n + 1
        BY <1>1
      <3>2. QED
        BY <1>1, <1>4, <3>1
    <2>2. last \in DOMAIN all /\ \A j \in DOMAIN all : all[j].name = m => j <= last
      BY <2>1
    <2>3. n + 1 \in DOMAIN all /\ all[n + 1].name = m
      BY <1>1, <1>4
    <2>4. last = n + 1
      <3>. HIDE DEF last
      <3>1. n + 1 <= last
        BY <2>2, <2>3
      <3>2. QED
        BY <1>1, <2>2, <3>1
    <2>5. QED
      BY <1>1, <1>2, <1>4, <2>4
  <1>5. CASE m # e.name
    <2>1. i \in 1..n
      BY <1>1, <1>3, <1>5
    <2>2. ASSUME NEW j \in DOMAIN all, all[j].name = m PROVE j = i
      <3>1. j \in 1..n
        BY <1>1, <1>5, <2>2
      <3>2. QED
        BY <1>1, <2>1, <2>2, <3>1 DEF UniqueNames
    <2>3. i \in DOMAIN all /\ all[i].name = m /\ i <= i
      BY <1>1, <2>1
    <2>4. \E k \in DOMAIN all : all[k].name = m /\
                        \A j \in DOMAIN all : all[j].name = m => j <= k
      <3>. HIDE DEF m
      <3>1. QED
        BY <2>2, <2>3
    <2>5. last \in DOMAIN all /\ all[last].name = m
      BY <2>4
    <2>6. last = i
      <3>. HIDE DEF last
      <3>1. QED
        BY <2>2, <2>5
    <2>7. QED
      BY <1>2, <1>5, <2>6
  <1>6. QED
    BY <1>4, <1>5

LEMMA UniqueAppendFacts ==
  ASSUME NEW V, NEW old \in Seq(V), NEW new \in Seq(V), UniqueNames(old),
         Len(new) = 1
  PROVE  /\ UniqueAppend(old, new) \in Seq(V)
         /\ UniqueNames(UniqueAppend(old, new))
         /\ Range(UniqueAppend(old, new)) = {x \in Range(old) : x.name # new[1].name} \cup {new[1]}
  <1>. DEFINE n == Len(old)
              e == new[1]
              all == old \o new
              once == {i \in DOMAIN all : \A j \in DOMAIN old : j < i => old[j].name # all[i].name}
              places == [i \in DOMAIN all |-> i]
              at == Kept(places, once)
              L(i) == Lookup(all, all[i].name)
              r == [k \in DOMAIN at |-> L(at[k])]
  <1>1. /\ n \in Nat /\ DOMAIN old = 1..n /\ DOMAIN all = 1..(n + 1)
        /\ \A j \in 1..n : all[j] = old[j] /\ old[j] \in V
        /\ all[n + 1] = e /\ e \in V
    BY ConcatOne
  <1>2. UniqueAppend(old, new) = r
    BY DEF UniqueAppend
  <1>3. /\ at \in Seq(1..(n + 1)) /\ Range(at) = once /\ IsInjective(at)
    <2>1. places \in Seq(1..(n + 1))
      BY <1>1
    <2>2. Range(places) = 1..(n + 1) /\ IsInjective(places)
      BY <1>1 DEF Range, IsInjective
    <2>3. once \subseteq 1..(n + 1)
      BY <1>1
    <2>. HIDE DEF places, once, n
    <2>4. /\ at \in Seq(1..(n + 1)) /\ Range(at) = Range(places) \cap once
          /\ IsInjective(places) => IsInjective(at)
      BY <2>1, KeptFacts
    <2>. HIDE DEF at
    <2>5. QED
      BY <2>2, <2>3, <2>4
  <1>4. \A i \in 1..(n + 1) : L(i) = IF all[i].name = e.name THEN e ELSE all[i]
    <2>1. LastWins(all, e)
      BY LookupFacts
    <2>. HIDE DEF all, e
    <2>2. QED
      BY <1>1, <2>1 DEF LastWins
  <1>5. \A i \in 1..(n + 1) : L(i) \in V /\ L(i).name = all[i].name
    <2>1. ASSUME NEW i \in 1..(n + 1) PROVE all[i] \in V
      BY <1>1
    <2>. HIDE DEF L, all, e
    <2>2. QED
      BY <1>1, <1>4, <2>1
  <1>6. /\ 1..n \subseteq once
        /\ n + 1 \in once <=> \A j \in 1..n : old[j].name # e.name
    BY <1>1 DEF UniqueNames
  <1>7. ASSUME NEW i \in once, NEW j \in once, all[i].name = all[j].name
        PROVE  i = j
    <2>1. i \in 1..(n + 1) /\ j \in 1..(n + 1)
      BY <1>1
    <2>2. (i \in 1..n \/ i = n + 1) /\ (j \in 1..n \/ j = n + 1)
      BY <1>1, <2>1
    <2>3. CASE i \in 1..n /\ j \in 1..n
      BY <1>1, <1>7, <2>3 DEF UniqueNames
    <2>4. CASE i \in 1..n /\ j = n + 1
      BY <1>1, <1>6, <1>7, <2>4
    <2>5. CASE i = n + 1 /\ j \in 1..n
      BY <1>1, <1>6, <1>7, <2>5
    <2>6. QED
      BY <2>2, <2>3, <2>4, <2>5
  <1>8. once \subseteq 1..(n + 1)
    BY <1>1
  <1>9. Len(at) \in Nat /\ DOMAIN at = 1..Len(at) /\ \A k \in DOMAIN at : at[k] \in once
    <2>. HIDE DEF at
    <2>1. QED
      BY <1>3, LenProperties DEF Range
  <1>. HIDE DEF n, at, once, L, all, e
  <1>10. r \in Seq(V)
    <2>1. r \in [1..Len(at) -> V]
      BY <1>5, <1>8, <1>9
    <2>. HIDE DEF r
    <2>2. QED
      BY <1>9, <2>1
  <1>11. UniqueNames(r)
    <2>1. ASSUME NEW i \in DOMAIN r, NEW j \in DOMAIN r, r[i].name = r[j].name
          PROVE  i = j
      <3>1. at[i] \in once /\ at[j] \in once /\ i \in DOMAIN at /\ j \in DOMAIN at
        BY <1>9
      <3>2. all[at[i]].name = all[at[j]].name
        BY <1>5, <1>8, <2>1, <3>1
      <3>3. at[i] = at[j]
        BY <1>7, <3>1, <3>2
      <3>4. QED
        BY <1>3, <3>1, <3>3 DEF IsInjective
    <2>2. QED
      BY <2>1 DEF UniqueNames
  <1>12. Range(r) = {L(i) : i \in once}
    BY <1>3 DEF Range
  <1>13. {L(i) : i \in once} = {x \in Range(old) : x.name # e.name} \cup {e}
    <2>1. ASSUME NEW i \in once
          PROVE  L(i) \in {x \in Range(old) : x.name # e.name} \cup {e}
      <3>1. i \in 1..(n + 1)
        BY <1>8
      <3>2. CASE all[i].name = e.name
        BY <1>4, <3>1, <3>2
      <3>3. CASE all[i].name # e.name
        <4>1. i \in 1..n /\ L(i) = old[i]
          BY <1>1, <1>4, <3>1, <3>3
        <4>2. QED
          BY <1>1, <3>3, <4>1 DEF Range
      <3>4. QED
        BY <3>2, <3>3
    <2>2. ASSUME NEW x \in Range(old), x.name # e.name
          PROVE  \E i \in once : L(i) = x
      <3>1. PICK i \in 1..n : old[i] = x
        BY <1>1 DEF Range
      <3>2. i \in once /\ i \in 1..(n + 1) /\ all[i] = x
        BY <1>1, <1>6, <3>1
      <3>3. QED
        BY <1>4, <2>2, <3>2
    <2>3. \E i \in once : L(i) = e
      <3>1. CASE \E j \in 1..n : old[j].name = e.name
        <4>1. PICK j \in 1..n : old[j].name = e.name
          BY <3>1
        <4>2. j \in once /\ j \in 1..(n + 1) /\ all[j].name = e.name
          BY <1>1, <1>6, <4>1
        <4>3. QED
          BY <1>4, <4>2
      <3>2. CASE \A j \in 1..n : old[j].name # e.name
        <4>1. n + 1 \in once /\ n + 1 \in 1..(n + 1) /\ all[n + 1].name = e.name
          BY <1>1, <1>6, <3>2
        <4>2. QED
          BY <1>4, <4>1
      <3>3. QED
        BY <3>1, <3>2
    <2>4. QED
      BY <2>1, <2>2, <2>3
  <1>14. QED
    BY <1>2, <1>10, <1>11, <1>12, <1>13 DEF e

\* What a container has: names once, and of odo's own variables those that its
\* source and type ask for.
Vars == [name : UserVars \cup {"s2i", "backup"}, value : Types \cup {"user", "default"}]

OdoVars(w) ==
  (IF w.source = "git" THEN {} ELSE {S2IVar(w.type)}) \cup
  (IF w.source = "local" THEN {BackupDir} ELSE {})

EnvOf(env, w) ==
  /\ env \in Seq(Vars) /\ UniqueNames(env)
  /\ {e \in Range(env) : e.value # "user"} = OdoVars(w)

OfUser(env) ==
  env \in Seq(Vars) /\ UniqueNames(env) /\ \A e \in Range(env) : e.value = "user"

LEMMA UserEnvFacts == ASSUME NEW w \in Settings PROVE OfUser(UserEnv(w))
  <1>. DEFINE names == SetToSeq(w.env)
              n == Cardinality(w.env)
              env == [i \in DOMAIN names |-> Var(names[i], "user")]
  <1>1. w.env \subseteq UserVars /\ IsFiniteSet(w.env)
    BY VarsAssumption, FS_Subset DEF Settings
  <1>2. n \in Nat /\ \E f : f \in Bijection(1..n, w.env)
    BY <1>1, FS_CardinalityType DEF ExistsBijection
  <1>3. \E f \in [1..n -> w.env] : IsInjective(f)
    BY <1>2 DEF Bijection, Injection
  <1>4. names \in [1..n -> w.env] /\ IsInjective(names)
    BY <1>3 DEF SetToSeq
  <1>. HIDE DEF names, n
  <1>5. \A i \in 1..n : names[i] \in UserVars
    BY <1>1, <1>4
  <1>6. env \in [1..n -> Vars]
    BY <1>4, <1>5 DEF Vars, Var
  <1>7. env \in Seq(Vars)
    <2>. HIDE DEF env
    <2>1. QED
      BY <1>2, <1>6
  <1>8. UniqueNames(env)
    BY <1>4 DEF UniqueNames, IsInjective, Var
  <1>9. \A e \in Range(env) : e.value = "user"
    BY DEF Range, Var
  <1>10. QED
    BY <1>7, <1>8, <1>9 DEF OfUser, UserEnv, names

LEMMA EmptyOfUser == OfUser(<<>>) /\ Range(<<>>) = {}
  BY EmptySeq DEF OfUser, UniqueNames, Range

\* One variable of odo after others.
LEMMA AppendedFacts ==
  ASSUME NEW env \in Seq(Vars), UniqueNames(env), NEW v \in Vars
  PROVE  /\ UniqueAppend(env, <<v>>) \in Seq(Vars) /\ UniqueNames(UniqueAppend(env, <<v>>))
         /\ Range(UniqueAppend(env, <<v>>)) = {x \in Range(env) : x.name # v.name} \cup {v}
  <1>. DEFINE new == <<v>>
  <1>1. new \in Seq(Vars) /\ Len(new) = 1 /\ new[1] = v
    OBVIOUS
  <1>. HIDE DEF new
  <1>2. /\ UniqueAppend(env, new) \in Seq(Vars) /\ UniqueNames(UniqueAppend(env, new))
        /\ Range(UniqueAppend(env, new)) = {x \in Range(env) : x.name # v.name} \cup {v}
    BY <1>1, UniqueAppendFacts
  <1>3. QED
    BY <1>2 DEF new

LEMMA OdoVarFacts ==
  ASSUME NEW w \in Settings
  PROVE  /\ S2IVar(w.type) \in Vars /\ S2IVar(w.type).name = "s2i"
         /\ S2IVar(w.type).value # "user"
         /\ BackupDir \in Vars /\ BackupDir.name = "backup" /\ BackupDir.value # "user"
  BY VarsAssumption DEF Settings, Vars, S2IVar, BackupDir, Var

\* What odo adds to the user's variables.
LEMMA SupervisedFacts ==
  ASSUME NEW w \in Settings, w.source # "git", NEW user, OfUser(user)
  PROVE  /\ EnvOf(SupervisedEnv(user, w), w)
         /\ Range(user) = {} => \A e \in Range(SupervisedEnv(user, w)) : e.value # "user"
  <1>. DEFINE s == S2IVar(w.type)
              env == UniqueAppend(user, <<s>>)
  <1>1. s \in Vars /\ s.name = "s2i" /\ s.value # "user"
    BY OdoVarFacts
  <1>2. /\ env \in Seq(Vars) /\ UniqueNames(env)
        /\ Range(env) = {x \in Range(user) : x.name # s.name} \cup {s}
    BY <1>1, AppendedFacts DEF OfUser
  <1>3. {e \in Range(env) : e.value # "user"} = {s}
    BY <1>1, <1>2 DEF OfUser
  <1>. HIDE DEF s, env
  <1>4. CASE w.source = "local"
    <2>. DEFINE all == UniqueAppend(env, <<BackupDir>>)
    <2>1. BackupDir \in Vars /\ BackupDir.name = "backup" /\ BackupDir.value # "user"
      BY OdoVarFacts
    <2>2. /\ all \in Seq(Vars) /\ UniqueNames(all)
          /\ Range(all) = {x \in Range(env) : x.name # BackupDir.name} \cup {BackupDir}
      BY <1>2, <2>1, AppendedFacts
    <2>3. SupervisedEnv(user, w) = all
      BY <1>4 DEF SupervisedEnv, env, s
    <2>. HIDE DEF all
    <2>4. {e \in Range(all) : e.value # "user"} = {s, BackupDir}
      BY <1>1, <1>3, <2>1, <2>2
    <2>5. OdoVars(w) = {s, BackupDir}
      BY <1>4 DEF OdoVars, s
    <2>6. Range(user) = {} => \A e \in Range(all) : e.value # "user"
      BY <1>1, <1>2, <2>1, <2>2
    <2>7. QED
      BY <2>2, <2>3, <2>4, <2>5, <2>6 DEF EnvOf
  <1>5. CASE w.source # "local"
    <2>1. SupervisedEnv(user, w) = env
      BY <1>5 DEF SupervisedEnv, env, s
    <2>2. OdoVars(w) = {s}
      BY <1>5 DEF OdoVars, s
    <2>3. Range(user) = {} => \A e \in Range(env) : e.value # "user"
      BY <1>1, <1>2
    <2>4. QED
      BY <1>2, <1>3, <2>1, <2>2, <2>3 DEF EnvOf
  <1>6. QED
    BY <1>4, <1>5

\* Without variables of the user, nothing of theirs is there to be deleted.
LEMMA UpdatedFacts ==
  ASSUME NEW w \in Settings, w.source # "git"
  PROVE  EnvOf(UpdatedEnv(w), w)
  <1>. DEFINE env == SupervisedEnv(<<>>, w)
  <1>1. EnvOf(env, w) /\ \A e \in Range(env) : e.value # "user"
    BY EmptyOfUser, SupervisedFacts
  <1>. HIDE DEF env
  <1>2. CASE w.source = "local"
    BY <1>1, <1>2 DEF UpdatedEnv, env
  <1>3. CASE w.source # "local"
    <2>1. Range(env) = {S2IVar(w.type)}
      BY <1>1, <1>3 DEF EnvOf, OdoVars
    <2>2. "backup" \notin Names(env)
      BY <2>1, OdoVarFacts DEF Names, Range
    <2>3. UpdatedEnv(w) = env
      BY <1>3, <2>2 DEF UpdatedEnv, DeleteVar, env
    <2>4. QED
      BY <1>1, <2>3
  <1>4. QED
    BY <1>2, <1>3

-----------------------------------------------------------------------------
(* Templates: the DeploymentConfig that settings describe.                 *)

\* A volume list and a mount list: each once.
Holds(s, V) == s \in Seq(Storages \cup {Shared, Root}) /\ IsInjective(s) /\ Range(s) = V

Own(w)  == IF w.source = "git" THEN {} ELSE {Shared, Root}
Held(w) == w.storage \cup Own(w)

Inits == <<[name |-> "copy-files-to-volume", volume |-> Root],
           [name |-> "copy-supervisord", volume |-> Shared]>>

\* All that settings determine; the rest are parameters.
Template(w, image, ports, env, envFrom, mounts, volumes) ==
  LET git == w.source = "git" IN
  [meta |-> Meta(w), command |-> IF git THEN "run" ELSE "supervisord",
   image |-> image, automatic |-> ~git,
   containers |-> IF git THEN {"component"} ELSE {"component", "copy-files-to-volume"},
   ports |-> ports, env |-> env, envFrom |-> envFrom, resources |-> Requirements(w),
   mounts |-> mounts, volumes |-> volumes, inits |-> IF git THEN <<>> ELSE Inits]

Images(w) == IF w.source = "git" THEN {"built"} ELSE Types

Framed(d, w) ==
  /\ d = Template(w, d.image, d.ports, d.env, d.envFrom, d.mounts, d.volumes)
  /\ d.image \in Images(w)
  /\ d.ports \in Ports \cup {ImagePorts}
  /\ w.ports # None => d.ports = w.ports
  /\ d.envFrom \in Seq(Secrets)
  /\ EnvOf(d.env, w)

Described(d, w) == Framed(d, w) /\ Holds(d.mounts, Held(w)) /\ Holds(d.volumes, Held(w))

BuildOf(b, w) ==
  IF w.source = "git"
  THEN b = [location |-> w.location, type |-> b.type] /\ b.type \in Types
  ELSE b = None

TemplateInv ==
  /\ pushed \in Settings \cup {None}
  /\ build # None => build \in [location : Locations, type : Types]
  /\ dc # None => pushed \in Settings /\ Described(dc, pushed) /\ BuildOf(build, pushed)

\* Fields of a template, and a template with some of them replaced.
LEMMA TemplateFacts ==
  ASSUME NEW w, NEW image, NEW ports, NEW env, NEW envFrom, NEW mounts, NEW volumes, NEW d,
         d = Template(w, image, ports, env, envFrom, mounts, volumes)
  PROVE  /\ d.image = image /\ d.ports = ports /\ d.env = env /\ d.envFrom = envFrom
         /\ d.mounts = mounts /\ d.volumes = volumes /\ d.meta = Meta(w)
  BY DEF Template

Refitted(d, m, v) == [d EXCEPT !.mounts = m, !.volumes = v]

LEMMA RefitFacts ==
  ASSUME NEW w, NEW image, NEW ports, NEW env, NEW envFrom, NEW mounts, NEW volumes, NEW d,
         d = Template(w, image, ports, env, envFrom, mounts, volumes), NEW m, NEW v
  PROVE  Refitted(d, m, v) = Template(w, image, ports, env, envFrom, m, v)
  <1>. DEFINE fields == {"meta", "command", "image", "automatic", "containers", "ports", "env",
                         "envFrom", "resources", "mounts", "volumes", "inits"}
              t == Template(w, image, ports, env, envFrom, m, v)
  <1>1. d = [f \in fields |-> d[f]]
    BY DEF Template
  <1>2. Refitted(d, m, v) = [f \in fields |-> IF f = "volumes" THEN v ELSE IF f = "mounts" THEN m ELSE d[f]]
    BY <1>1 DEF Refitted
  <1>3. t = [f \in fields |-> t[f]]
    BY DEF Template
  <1>4. /\ t["meta"] = d["meta"] /\ t["command"] = d["command"] /\ t["image"] = d["image"]
        /\ t["containers"] = d["containers"] /\ t["ports"] = d["ports"] /\ t["env"] = d["env"]
        /\ t["envFrom"] = d["envFrom"] /\ t["resources"] = d["resources"] /\ t["inits"] = d["inits"]
        /\ t["volumes"] = v /\ t["mounts"] = m
    BY DEF Template
  <1>5. t["automatic"] = d["automatic"]
    BY DEF Template
  <1>. HIDE DEF t
  <1>6. \A f \in fields : t[f] = IF f = "volumes" THEN v ELSE IF f = "mounts" THEN m ELSE d[f]
    BY <1>4, <1>5
  <1>. HIDE DEF fields
  <1>7. Refitted(d, m, v) = t
    BY <1>2, <1>3, <1>6
  <1>8. QED
    BY <1>7 DEF t

LEMMA RelinkFacts ==
  ASSUME NEW w, NEW image, NEW ports, NEW env, NEW envFrom, NEW mounts, NEW volumes, NEW d,
         d = Template(w, image, ports, env, envFrom, mounts, volumes), NEW f
  PROVE  [d EXCEPT !.envFrom = f] = Template(w, image, ports, env, f, mounts, volumes)
  BY DEF Template

LEMMA CopiedHolds ==
  ASSUME NEW V, NEW W, NEW s, NEW t, Holds(s, V), Holds(t, W)
  PROVE  Holds(s \o Without(t, {Shared} \cup Range(s)), V \cup (W \ {Shared}))
  <1>. DEFINE S == Storages \cup {Shared, Root}
              u == Without(t, {Shared} \cup Range(s))
  <1>1. s \in Seq(S) /\ t \in Seq(S) /\ IsInjective(s) /\ IsInjective(t) /\ Range(s) = V /\ Range(t) = W
    BY DEF Holds
  <1>2. u \in Seq(S) /\ Range(u) = W \ ({Shared} \cup V) /\ IsInjective(u)
    BY <1>1, WithoutFacts
  <1>. HIDE DEF S, u
  <1>3. s \o u \in Seq(S) /\ Range(s \o u) = V \cup Range(u) /\ IsInjective(s \o u)
    BY <1>1, <1>2, ConcatFacts
  <1>4. QED
    BY <1>2, <1>3 DEF Holds, S, u

LEMMA WithoutHolds ==
  ASSUME NEW V, NEW s, Holds(s, V), NEW drop
  PROVE  Holds(Without(s, drop), V \ drop)
  BY WithoutFacts DEF Holds

LEMMA MountedHolds ==
  ASSUME NEW V, NEW s, Holds(s, V), NEW remove, NEW add \in SUBSET Storages,
         add \cap (V \ remove) = {}, NEW order \in SetToSeqs(add)
  PROVE  Holds(Without(s, remove) \o order, (V \ remove) \cup add)
  <1>. DEFINE S == Storages \cup {Shared, Root}
              u == Without(s, remove)
  <1>1. u \in Seq(S) /\ IsInjective(u) /\ Range(u) = V \ remove
    BY WithoutHolds DEF Holds
  <1>2. order \in Seq(add) /\ Range(order) = add /\ IsInjective(order)
    BY OrderFacts, StoragesAssumption, FS_Subset
  <1>3. order \in Seq(S)
    BY <1>2
  <1>. HIDE DEF S, u
  <1>4. u \o order \in Seq(S) /\ Range(u \o order) = Range(u) \cup Range(order) /\ IsInjective(u \o order)
    BY <1>1, <1>2, <1>3, ConcatFacts
  <1>5. QED
    BY <1>1, <1>2, <1>4 DEF Holds, S, u

\* What (un)mounting makes of a template.
LEMMA RemountedFacts ==
  ASSUME NEW w, NEW d, Framed(d, w), NEW V, Holds(d.mounts, V), Holds(d.volumes, V),
         NEW add \in SUBSET Storages, NEW remove,
         add \cap (V \ remove) = {}, (V \ remove) \cup add = Held(w)
  PROVE  /\ Remounted(d, add, remove) # {}
         /\ \A e \in Remounted(d, add, remove) : Described(e, w) /\ e.image = d.image
  <1>. DEFINE r(order) == [d EXCEPT !.mounts  = Without(@, remove) \o order,
                                    !.volumes = Without(@, remove) \o order]
  <1>1. SetToSeqs(add) # {}
    BY OrderFacts, StoragesAssumption, FS_Subset
  <1>2. ASSUME NEW order \in SetToSeqs(add)
        PROVE  Described(r(order), w) /\ r(order).image = d.image
    <2>. DEFINE m == Without(d.mounts, remove) \o order
                v == Without(d.volumes, remove) \o order
                e == Template(w, d.image, d.ports, d.env, d.envFrom, m, v)
    <2>1. Holds(m, Held(w)) /\ Holds(v, Held(w))
      BY MountedHolds
    <2>. HIDE DEF m, v
    <2>2. d = Template(w, d.image, d.ports, d.env, d.envFrom, d.mounts, d.volumes)
      BY DEF Framed
    <2>3. Refitted(d, m, v) = e
      BY <2>2, RefitFacts
    <2>4. /\ e.image = d.image /\ e.ports = d.ports /\ e.env = d.env /\ e.envFrom = d.envFrom
          /\ e.mounts = m /\ e.volumes = v
      BY TemplateFacts DEF e
    <2>. HIDE DEF e
    <2>5. Framed(e, w)
      BY <2>4 DEF Framed, e
    <2>6. Described(e, w)
      BY <2>1, <2>4, <2>5 DEF Described
    <2>7. QED
      BY <2>3, <2>4, <2>6 DEF m, v, Refitted
  <1>3. Remounted(d, add, remove) = {r(order) : order \in SetToSeqs(add)}
    BY DEF Remounted
  <1>. HIDE DEF r
  <1>4. QED
    BY <1>1, <1>2, <1>3

-----------------------------------------------------------------------------
(* Templates: what is generated.                                           *)

\* What settings are made of.
LEMMA SettingsFacts ==
  ASSUME NEW w \in Settings
  PROVE  /\ w.storage \in SUBSET Storages /\ w.type \in Types /\ w.location \in Locations
         /\ w.source \in {"local", "binary", "git"} /\ w.ports \in Ports \cup {None}
         /\ Shared \notin w.storage /\ Root \notin w.storage /\ Shared # Root
         /\ Meta(w) \in [source : {"local", "binary", "git"}, location : Locations, type : Types]
         /\ GenerateBuild(w) \in [location : Locations, type : Types]
         /\ BuildOf(GenerateBuild(w), w) \/ w.source # "git"
  <1>1. /\ w.storage \in SUBSET Storages /\ w.type \in Types /\ w.location \in Locations
        /\ w.source \in {"local", "binary", "git"} /\ w.ports \in Ports \cup {None}
    BY DEF Settings
  <1>2. Shared \notin w.storage /\ Root \notin w.storage /\ Shared # Root
    BY <1>1, StoragesAssumption DEF Shared, Root
  <1>3. /\ Meta(w) \in [source : {"local", "binary", "git"}, location : Locations, type : Types]
        /\ GenerateBuild(w) \in [location : Locations, type : Types]
    BY <1>1 DEF Meta, GenerateBuild
  <1>4. BuildOf(GenerateBuild(w), w) \/ w.source # "git"
    BY <1>1 DEF BuildOf, GenerateBuild
  <1>5. QED
    BY <1>1, <1>2, <1>3, <1>4

\* The ports of a push.
LEMMA PortsFacts ==
  ASSUME NEW w \in Settings, NEW p \in Ports \cup {ImagePorts}
  PROVE  /\ PortsOf(w, p) \in Ports \cup {ImagePorts}
         /\ w.ports # None => PortsOf(w, p) = w.ports
  BY SettingsFacts DEF PortsOf

LEMMA UserEnvOfGit ==
  ASSUME NEW w, w.source = "git", NEW env, OfUser(env)
  PROVE  EnvOf(env, w)
  BY DEF EnvOf, OfUser, OdoVars

\* The lists that generated templates start with.
LEMMA FirstLists ==
  /\ <<>> \in Seq(Secrets) /\ Holds(<<>>, {})
  /\ Holds(<<Shared, Root>>, {Shared, Root})
  <1>1. <<>> \in Seq(Secrets) /\ Holds(<<>>, {})
    BY EmptySeq DEF Holds, Range, IsInjective
  <1>. DEFINE s == <<Shared, Root>>
  <1>2. s \in Seq(Storages \cup {Shared, Root}) /\ DOMAIN s = 1..2 /\ s[1] = Shared /\ s[2] = Root
    OBVIOUS
  <1>. HIDE DEF s
  <1>3. Range(s) = {Shared, Root}
    BY <1>2 DEF Range
  <1>4. IsInjective(s)
    BY <1>2 DEF IsInjective, Shared, Root
  <1>5. Holds(s, {Shared, Root})
    BY <1>2, <1>3, <1>4 DEF Holds
  <1>6. QED
    BY <1>1, <1>5 DEF s

LEMMA GitFacts ==
  ASSUME NEW w \in Settings, w.source = "git", NEW ports, NEW env
  PROVE  GenerateGit(w, ports, env) = Template(w, "built", ports, env, <<>>, <<>>, <<>>)
  BY DEF GenerateGit, Template

LEMMA AppendNil == ASSUME NEW e PROVE Append(<<>>, e) = <<e>>
  OBVIOUS

LEMMA AppendOne == ASSUME NEW e, NEW f PROVE Append(<<e>>, f) = <<e, f>>
  <1>. DEFINE s == Append(<<e>>, f)
              t == <<e, f>>
  <1>1. s \in Seq({e, f}) /\ Len(s) = 2 /\ s[1] = e /\ s[2] = f
    OBVIOUS
  <1>2. t \in Seq({e, f}) /\ Len(t) = 2 /\ t[1] = e /\ t[2] = f
    OBVIOUS
  <1>. HIDE DEF s, t
  <1>3. \A i \in 1..Len(s) : s[i] = t[i]
    BY <1>1, <1>2
  <1>4. s = t
    BY <1>1, <1>2, <1>3, SeqEqual
  <1>5. QED
    BY <1>4 DEF s, t

LEMMA SupervisedTemplate ==
  ASSUME NEW w \in Settings, w.source # "git", NEW ports, NEW env, NEW envFrom
  PROVE  Bootstrapped(GenerateSupervisord(w, ports, env, envFrom))
           = Template(w, w.type, ports, env, envFrom, <<Shared, Root>>, <<Shared, Root>>)
  <1>. DEFINE yes == TRUE
              d(inits, volumes, mounts) ==
                [meta |-> Meta(w), command |-> "supervisord", image |-> w.type, automatic |-> yes,
                 containers |-> {"component", "copy-files-to-volume"},
                 ports |-> ports, env |-> env, envFrom |-> envFrom, resources |-> Requirements(w),
                 mounts |-> mounts, volumes |-> volumes, inits |-> inits]
              a == [name |-> "copy-files-to-volume", volume |-> Root]
              b == [name |-> "copy-supervisord", volume |-> Shared]
  <1>1. GenerateSupervisord(w, ports, env, envFrom) = d(<<>>, <<Shared>>, <<Shared>>)
    BY DEF GenerateSupervisord
  <1>2. ASSUME NEW i, NEW v, NEW m
        PROVE  /\ AddVolumeCopyInit(d(i, v, m)) = d(Append(i, a), v, m)
               /\ AddSupervisordInit(d(i, v, m)) = d(Append(i, b), v, m)
               /\ AddVolume(d(i, v, m)) = d(i, Append(v, Root), m)
               /\ AddVolumeMount(d(i, v, m)) = d(i, v, Append(m, Root))
    <2>. HIDE DEF a, b, yes
    <2>1. PICK e : e = d(i, v, m)
      OBVIOUS
    <2>2. e.inits = i /\ e.volumes = v /\ e.mounts = m
      BY <2>1
    <2>3. ASSUME NEW x PROVE [e EXCEPT !.inits = x] = d(x, v, m)
      BY <2>1
    <2>4. ASSUME NEW x PROVE [e EXCEPT !.volumes = x] = d(i, x, m)
      BY <2>1
    <2>5. ASSUME NEW x PROVE [e EXCEPT !.mounts = x] = d(i, v, x)
      BY <2>1
    <2>. HIDE DEF d
    <2>6. /\ AddVolumeCopyInit(e) = d(Append(i, a), v, m)
          /\ AddSupervisordInit(e) = d(Append(i, b), v, m)
          /\ AddVolume(e) = d(i, Append(v, Root), m)
          /\ AddVolumeMount(e) = d(i, v, Append(m, Root))
      BY <2>2, <2>3, <2>4, <2>5 DEF AddVolumeCopyInit, AddSupervisordInit, AddVolume, AddVolumeMount, a, b
    <2>7. QED
      BY <2>1, <2>6
  <1>3. Template(w, w.type, ports, env, envFrom, <<Shared, Root>>, <<Shared, Root>>)
          = d(<<a, b>>, <<Shared, Root>>, <<Shared, Root>>)
    BY DEF Template, Inits
  <1>4. /\ Append(<<>>, a) = <<a>> /\ Append(<<a>>, b) = <<a, b>>
        /\ Append(<<Shared>>, Root) = <<Shared, Root>>
    BY AppendNil, AppendOne
  <1>. HIDE DEF d, a, b
  <1>5. ASSUME NEW s0, NEW v0
        PROVE  Bootstrapped(d(s0, v0, v0)) = d(Append(Append(s0, a), b), Append(v0, Root), Append(v0, Root))
    BY <1>2 DEF Bootstrapped
  <1>6. QED
    BY <1>1, <1>3, <1>4, <1>5

LEMMA FramedFacts ==
  ASSUME NEW w \in Settings, NEW image \in Images(w), NEW ports \in Ports \cup {ImagePorts},
         w.ports # None => ports = w.ports, NEW env, EnvOf(env, w), NEW envFrom \in Seq(Secrets),
         NEW mounts, NEW volumes, NEW d,
         d = Template(w, image, ports, env, envFrom, mounts, volumes)
  PROVE  Framed(d, w) /\ d.mounts = mounts /\ d.volumes = volumes
  <1>1. /\ d.image = image /\ d.ports = ports /\ d.env = env /\ d.envFrom = envFrom
        /\ d.mounts = mounts /\ d.volumes = volumes
    BY TemplateFacts
  <1>2. QED
    BY <1>1 DEF Framed

\* A template with other lists.
LEMMA FramedRefit ==
  ASSUME NEW w, NEW d, Framed(d, w), NEW m, NEW v
  PROVE  LET e == Refitted(d, m, v) IN Framed(e, w) /\ e.mounts = m /\ e.volumes = v /\ e.image = d.image
  <1>. DEFINE e == Refitted(d, m, v)
  <1>1. d = Template(w, d.image, d.ports, d.env, d.envFrom, d.mounts, d.volumes)
    BY DEF Framed
  <1>2. e = Template(w, d.image, d.ports, d.env, d.envFrom, m, v)
    BY <1>1, RefitFacts
  <1>. HIDE DEF e
  <1>3. /\ e.image = d.image /\ e.ports = d.ports /\ e.env = d.env /\ e.envFrom = d.envFrom
        /\ e.mounts = m /\ e.volumes = v
    BY <1>2, TemplateFacts
  <1>4. Framed(e, w)
    BY <1>2, <1>3 DEF Framed
  <1>5. QED
    BY <1>3, <1>4 DEF e

\* The generated templates.
LEMMA GitFramed ==
  ASSUME NEW w \in Settings, w.source = "git", NEW ports \in Ports \cup {ImagePorts},
         w.ports # None => ports = w.ports, NEW env, OfUser(env), NEW d, d = GenerateGit(w, ports, env)
  PROVE  Framed(d, w) /\ Holds(d.mounts, Own(w)) /\ Holds(d.volumes, Own(w))
  <1>. DEFINE nil == <<>>
  <1>1. d = Template(w, "built", ports, env, nil, nil, nil)
    BY GitFacts
  <1>2. EnvOf(env, w) /\ "built" \in Images(w) /\ nil \in Seq(Secrets) /\ Holds(nil, {})
    BY UserEnvOfGit, FirstLists DEF Images
  <1>. HIDE DEF nil
  <1>3. Framed(d, w) /\ d.mounts = nil /\ d.volumes = nil
    BY <1>1, <1>2, FramedFacts
  <1>4. QED
    BY <1>2, <1>3 DEF Own

LEMMA SupervisedFramed ==
  ASSUME NEW w \in Settings, w.source # "git", NEW ports \in Ports \cup {ImagePorts},
         w.ports # None => ports = w.ports, NEW env, EnvOf(env, w), NEW envFrom \in Seq(Secrets),
         NEW d, d = Bootstrapped(GenerateSupervisord(w, ports, env, envFrom))
  PROVE  Framed(d, w) /\ Holds(d.mounts, Own(w)) /\ Holds(d.volumes, Own(w)) /\ d.image = w.type
  <1>. DEFINE list == <<Shared, Root>>
  <1>1. d = Template(w, w.type, ports, env, envFrom, list, list)
    BY SupervisedTemplate
  <1>2. w.type \in Images(w)
    BY SettingsFacts DEF Images
  <1>3. Holds(list, {Shared, Root})
    BY FirstLists
  <1>. HIDE DEF list
  <1>4. Framed(d, w)
    BY <1>1, <1>2, FramedFacts
  <1>5. d.mounts = list /\ d.volumes = list /\ d.image = w.type
    BY <1>1, TemplateFacts
  <1>6. QED
    BY <1>3, <1>4, <1>5 DEF Own

\* A first push.
LEMMA CreatedFacts ==
  ASSUME NEW w \in Settings
  PROVE  /\ Created(w) # {}
         /\ \A d \in Created(w) : Described(d, w) /\ (w.source # "git" => d.image = w.type)
  <1>. DEFINE ports == PortsOf(w, ImagePorts)
              nil  == <<>>
              git  == GenerateGit(w, ports, UserEnv(w))
              sup  == Bootstrapped(GenerateSupervisord(w, ports, SupervisedEnv(UserEnv(w), w), nil))
              base == IF w.source = "git" THEN git ELSE sup
  <1>1. ports \in Ports \cup {ImagePorts} /\ (w.ports # None => ports = w.ports)
    BY PortsFacts
  <1>2. OfUser(UserEnv(w)) /\ nil \in Seq(Secrets)
    BY UserEnvFacts, FirstLists
  <1>3. w.source # "git" => EnvOf(SupervisedEnv(UserEnv(w), w), w)
    BY <1>2, SupervisedFacts
  <1>. HIDE DEF ports, nil
  <1>4. w.source = "git" => Framed(git, w) /\ Holds(git.mounts, Own(w)) /\ Holds(git.volumes, Own(w))
    BY <1>1, <1>2, GitFramed
  <1>5. w.source # "git" => Framed(sup, w) /\ Holds(sup.mounts, Own(w)) /\ Holds(sup.volumes, Own(w)) /\ sup.image = w.type
    BY <1>1, <1>2, <1>3, SupervisedFramed
  <1>. HIDE DEF git, sup
  <1>6. /\ Framed(base, w) /\ Holds(base.mounts, Own(w)) /\ Holds(base.volumes, Own(w))
        /\ w.source # "git" => base.image = w.type
    BY <1>4, <1>5
  <1>7. Created(w) = Remounted(base, w.storage, {})
    BY DEF Created, ports, nil, git, sup
  <1>. HIDE DEF base
  <1>8. /\ w.storage \in SUBSET Storages /\ w.storage \cap (Own(w) \ {}) = {}
        /\ (Own(w) \ {}) \cup w.storage = Held(w)
    BY SettingsFacts DEF Own, Held
  <1>9. QED
    BY <1>6, <1>7, <1>8, RemountedFacts

\* CopyVolumes.
LEMMA CopyFacts ==
  ASSUME NEW w, NEW new, Framed(new, w), NEW V, Holds(new.mounts, V), Holds(new.volumes, V),
         NEW old, NEW W, Holds(old.mounts, W), Holds(old.volumes, W)
  PROVE  LET d == CopyVolumes(new, old) IN
         /\ Framed(d, w) /\ d.image = new.image
         /\ Holds(d.mounts, V \cup (W \ {Shared})) /\ Holds(d.volumes, V \cup (W \ {Shared}))
  <1>. DEFINE m == new.mounts \o Without(old.mounts, {Shared} \cup Range(new.mounts))
              v == new.volumes \o Without(old.volumes, {Shared} \cup Range(new.volumes))
              X == V \cup (W \ {Shared})
              d == CopyVolumes(new, old)
  <1>1. Holds(m, X) /\ Holds(v, X)
    BY CopiedHolds
  <1>2. d = Refitted(new, m, v)
    BY DEF CopyVolumes, Refitted
  <1>. HIDE DEF m, v, d, X
  <1>3. Framed(d, w) /\ d.mounts = m /\ d.volumes = v /\ d.image = new.image
    BY <1>2, FramedRefit
  <1>4. QED
    BY <1>1, <1>3 DEF d, X

\* The (un)mounting that ends an update.
LEMMA PatchedFacts ==
  ASSUME NEW p \in Settings, Described(dc, p), NEW w \in Settings,
         NEW new, Framed(new, w), NEW V, V = Own(w) \cup p.storage,
         Holds(new.mounts, V), Holds(new.volumes, V), NEW e \in Patched(new, w)
  PROVE  Described(e, w) /\ e.image = new.image
  <1>1. /\ p.storage \in SUBSET Storages /\ w.storage \in SUBSET Storages
        /\ Own(w) \cap p.storage = {} /\ Own(w) \cap w.storage = {}
        /\ {Shared, Root} \cap Storages = {}
    BY SettingsFacts, StoragesAssumption DEF Own
  <1>2. Range(dc.mounts) = p.storage \cup Own(p)
    BY DEF Described, Holds, Held
  <1>3. Mounted(dc) = p.storage
    BY <1>1, <1>2 DEF Mounted, Own
  <1>. DEFINE add == w.storage \ p.storage
              remove == p.storage \ w.storage
  <1>4. add \in SUBSET Storages /\ add \cap (V \ remove) = {} /\ (V \ remove) \cup add = Held(w)
    BY <1>1 DEF Held
  <1>5. Patched(new, w) = Remounted(new, add, remove)
    BY <1>3 DEF Patched
  <1>. HIDE DEF add, remove
  <1>6. QED
    BY <1>4, <1>5, RemountedFacts

\* Nothing is left of nothing.
LEMMA KeptOfNil == ASSUME NEW keep PROVE Kept(<<>>, keep) = <<>>
  <1>1. <<>> \in Seq({}) /\ Range(<<>>) = {}
    BY EmptySeq DEF Range
  <1>2. Kept(<<>>, keep) \in Seq({})
    BY <1>1, KeptFacts
  <1>3. QED
    BY <1>2

\* RemoveTraces, of a template that has no init containers.
LEMMA StripFacts ==
  ASSUME NEW w, w.source = "git", NEW d, Framed(d, w),
         NEW V, Holds(d.mounts, V), Holds(d.volumes, V)
  PROVE  LET e == RemoveTraces(d) IN
         Framed(e, w) /\ Holds(e.mounts, V \ {Root}) /\ Holds(e.volumes, V \ {Root})
  <1>. DEFINE e == RemoveTraces(d)
              m == Without(d.mounts, {Root})
              v == Without(d.volumes, {Root})
              i == Kept(d.inits, {x \in Range(d.inits) : x.name # "copy-files-to-volume"})
              fields == {"meta", "command", "image", "automatic", "containers", "ports", "env",
                         "envFrom", "resources", "mounts", "volumes", "inits"}
  <1>1. d = Template(w, d.image, d.ports, d.env, d.envFrom, d.mounts, d.volumes)
    BY DEF Framed
  <1>2. d = [f \in fields |-> d[f]]
    BY <1>1 DEF Template
  <1>3. d.inits = <<>>
    BY <1>1 DEF Template
  <1>4. i = d.inits
    BY <1>3, KeptOfNil
  <1>5. Holds(m, V \ {Root}) /\ Holds(v, V \ {Root})
    BY WithoutHolds
  <1>6. e = [d EXCEPT !.volumes = v, !.mounts = m, !.inits = i]
    BY DEF RemoveTraces
  <1>. HIDE DEF e, m, v, i
  <1>7. e = [f \in fields |-> IF f = "inits" THEN i ELSE IF f = "mounts" THEN m
                              ELSE IF f = "volumes" THEN v ELSE d[f]]
    BY <1>2, <1>6
  <1>8. Refitted(d, m, v) = [f \in fields |-> IF f = "volumes" THEN v ELSE IF f = "mounts" THEN m ELSE d[f]]
    BY <1>2 DEF Refitted
  <1>9. e = Refitted(d, m, v)
    BY <1>4, <1>7, <1>8
  <1>10. Framed(e, w) /\ e.mounts = m /\ e.volumes = v
    BY <1>9, FramedRefit
  <1>11. QED
    BY <1>5, <1>10 DEF e

\* UpdateSupervisord, of a template that has a supervised container.
LEMMA UpdatedFramed ==
  ASSUME NEW p \in Settings, p.source # "git", NEW d, Framed(d, p),
         NEW w \in Settings, w.source # "git", NEW ports \in Ports \cup {ImagePorts},
         w.ports # None => ports = w.ports, NEW env, EnvOf(env, w)
  PROVE  LET e == UpdateSupervisord(d, w, ports, env) IN
         Framed(e, w) /\ e.mounts = d.mounts /\ e.volumes = d.volumes /\ e.image = d.image
  <1>. DEFINE e == UpdateSupervisord(d, w, ports, env)
              t == Template(w, d.image, ports, env, d.envFrom, d.mounts, d.volumes)
              fields == {"meta", "command", "image", "automatic", "containers", "ports", "env",
                         "envFrom", "resources", "mounts", "volumes", "inits"}
              x(f) == IF f = "resources" THEN Requirements(w) ELSE IF f = "env" THEN env
                      ELSE IF f = "ports" THEN ports ELSE IF f = "meta" THEN Meta(w) ELSE d[f]
  <1>1. d = Template(p, d.image, d.ports, d.env, d.envFrom, d.mounts, d.volumes)
    BY DEF Framed
  <1>2. d = [f \in fields |-> d[f]]
    BY <1>1 DEF Template
  <1>3. e = [f \in fields |-> x(f)]
    BY <1>2 DEF UpdateSupervisord
  <1>4. t = [f \in fields |-> t[f]]
    BY DEF Template
  <1>5. /\ t["command"] = d["command"] /\ t["image"] = d["image"]
        /\ t["containers"] = d["containers"] /\ t["envFrom"] = d["envFrom"] /\ t["inits"] = d["inits"]
        /\ t["volumes"] = d["volumes"] /\ t["mounts"] = d["mounts"]
    BY <1>1 DEF Template
  <1>6. /\ t["meta"] = Meta(w) /\ t["ports"] = ports /\ t["env"] = env /\ t["resources"] = Requirements(w)
    BY DEF Template
  <1>7. t["automatic"] = d["automatic"]
    BY <1>1 DEF Template
  <1>. HIDE DEF t
  <1>8. \A f \in fields : t[f] = x(f)
    BY <1>5, <1>6, <1>7
  <1>. HIDE DEF e, fields, x
  <1>9. e = t
    BY <1>3, <1>4, <1>8
  <1>10. d.image \in Images(w) /\ d.envFrom \in Seq(Secrets)
    BY DEF Framed, Images
  <1>11. Framed(e, w)
    BY <1>9, <1>10, FramedFacts DEF t
  <1>12. e.mounts = d.mounts /\ e.volumes = d.volumes /\ e.image = d.image
    BY <1>9, TemplateFacts DEF t
  <1>13. QED
    BY <1>11, <1>12 DEF e

\* LinkSecret, UnlinkSecret.
LEMMA RelinkedFacts ==
  ASSUME NEW w \in Settings, NEW d, Described(d, w), NEW f \in Seq(Secrets)
  PROVE  LET e == [d EXCEPT !.envFrom = f] IN Described(e, w) /\ e.image = d.image
  <1>. DEFINE e == [d EXCEPT !.envFrom = f]
  <1>1. d = Template(w, d.image, d.ports, d.env, d.envFrom, d.mounts, d.volumes)
    BY DEF Described, Framed
  <1>2. e = Template(w, d.image, d.ports, d.env, f, d.mounts, d.volumes)
    BY <1>1, RelinkFacts
  <1>. HIDE DEF e
  <1>3. /\ e.image = d.image /\ e.ports = d.ports /\ e.env = d.env /\ e.envFrom = f
        /\ e.mounts = d.mounts /\ e.volumes = d.volumes
    BY <1>2, TemplateFacts
  <1>4. Described(e, w)
    BY <1>2, <1>3 DEF Described, Framed
  <1>5. QED
    BY <1>3, <1>4 DEF e

-----------------------------------------------------------------------------
(* Templates: the steps.                                                   *)

\* The image that runs is that of the settings.  Update does not see to it: it is
\* so as long as pushes leave the type alone.
OfType ==
  dc # None =>
    IF pushed.source = "git" THEN build.type = pushed.type ELSE dc.image = pushed.type

\* What the settings of the last push say of the DeploymentConfig there is.
LEMMA DescribedFacts ==
  ASSUME NEW p \in Settings, NEW d, Described(d, p)
  PROVE  /\ d.meta.source = p.source /\ d.meta = Meta(p)
         /\ d.ports \in Ports \cup {ImagePorts} /\ d.envFrom \in Seq(Secrets)
         /\ Framed(d, p)
         /\ Holds(d.mounts, p.storage \cup Own(p)) /\ Holds(d.volumes, p.storage \cup Own(p))
  <1>1. Framed(d, p) /\ d = Template(p, d.image, d.ports, d.env, d.envFrom, d.mounts, d.volumes)
    BY DEF Described, Framed
  <1>2. d.meta = Meta(p)
    BY <1>1, TemplateFacts
  <1>3. Meta(p).source = p.source
    BY DEF Meta
  <1>4. QED
    BY <1>1, <1>2, <1>3 DEF Described, Framed, Held

LEMMA CreateKeeps ==
  ASSUME NEW w \in Settings, Create(w)
  PROVE  TemplateInv' /\ OfType'
  <1>1. Described(dc', w) /\ pushed' = w /\ (w.source # "git" => dc'.image = w.type)
    BY CreatedFacts DEF Create
  <1>2. CASE w.source = "git"
    <2>1. build' = GenerateBuild(w)
      BY <1>2 DEF Create
    <2>2. build' \in [location : Locations, type : Types] /\ BuildOf(build', w)
      BY <1>2, <2>1, SettingsFacts
    <2>3. build'.type = w.type
      BY <2>1 DEF GenerateBuild
    <2>4. QED
      BY <1>1, <1>2, <2>2, <2>3 DEF TemplateInv, OfType
  <1>3. CASE w.source # "git"
    <2>1. build' = None /\ BuildOf(build', w)
      BY <1>3 DEF Create, BuildOf
    <2>2. QED
      BY <1>1, <1>3, <2>1 DEF TemplateInv, OfType
  <1>4. QED
    BY <1>2, <1>3

LEMMA ToGitKeeps ==
  ASSUME TemplateInv, dc # None, NEW w \in Settings, ToGit(w), pushed' = w
  PROVE  TemplateInv' /\ (OfType /\ w.type = pushed.type => OfType')
  <1>. DEFINE p == pushed
              ports == PortsOf(w, dc.ports)
              nil == <<>>
              base == GenerateGit(w, ports, nil)
              new == CopyVolumes(base, dc)
              V == Own(w) \cup ((p.storage \cup Own(p)) \ {Shared})
  <1>1. p \in Settings /\ Described(dc, p) /\ BuildOf(build, p)
    BY DEF TemplateInv
  <1>2. /\ dc.meta.source = p.source /\ dc.ports \in Ports \cup {ImagePorts}
        /\ Holds(dc.mounts, p.storage \cup Own(p)) /\ Holds(dc.volumes, p.storage \cup Own(p))
    BY <1>1, DescribedFacts
  <1>3. w.source = "git"
    BY DEF ToGit
  <1>4. ports \in Ports \cup {ImagePorts} /\ (w.ports # None => ports = w.ports)
    BY <1>2, PortsFacts
  <1>5. OfUser(nil)
    BY EmptyOfUser
  <1>. HIDE DEF ports, nil, p
  <1>6. Framed(base, w) /\ Holds(base.mounts, Own(w)) /\ Holds(base.volumes, Own(w))
    BY <1>3, <1>4, <1>5, GitFramed
  <1>. HIDE DEF base
  <1>7. Framed(new, w) /\ Holds(new.mounts, V) /\ Holds(new.volumes, V)
    BY <1>2, <1>6, CopyFacts
  <1>8. /\ Own(w) = {} /\ Shared \notin p.storage /\ Root \notin p.storage
        /\ Own(p) = IF p.source = "git" THEN {} ELSE {Shared, Root}
    BY <1>1, <1>3, SettingsFacts DEF Own
  <1>9. CASE p.source # "git"
    <2>1. build' = GenerateBuild(w) /\ dc' \in Patched(RemoveTraces(new), w)
      BY <1>2, <1>9 DEF ToGit, new, base, ports, nil
    <2>. HIDE DEF new
    <2>. DEFINE new2 == RemoveTraces(new)
    <2>2. Framed(new2, w) /\ Holds(new2.mounts, V \ {Root}) /\ Holds(new2.volumes, V \ {Root})
      BY <1>3, <1>7, StripFacts
    <2>. HIDE DEF new2
    <2>3. V \ {Root} = Own(w) \cup p.storage
      BY <1>8, <1>9
    <2>. HIDE DEF V
    <2>4. dc' \in Patched(new2, w)
      BY <2>1 DEF new2
    <2>5. Described(dc', w)
      BY <1>1, <2>2, <2>3, <2>4, PatchedFacts
    <2>6. build' \in [location : Locations, type : Types] /\ BuildOf(build', w)
      BY <1>3, <2>1, SettingsFacts
    <2>7. build'.type = w.type
      BY <2>1 DEF GenerateBuild
    <2>8. QED
      BY <1>3, <2>5, <2>6, <2>7 DEF TemplateInv, OfType
  <1>10. CASE p.source = "git"
    <2>1. build' = [build EXCEPT !.location = w.location] /\ dc' \in Patched(new, w)
      BY <1>2, <1>10 DEF ToGit, new, base, ports, nil
    <2>. HIDE DEF new
    <2>2. V = Own(w) \cup p.storage
      BY <1>8, <1>10
    <2>. HIDE DEF V
    <2>3. Described(dc', w)
      BY <1>1, <1>7, <2>1, <2>2, PatchedFacts
    <2>4. build = [location |-> p.location, type |-> build.type] /\ build.type \in Types
      BY <1>1, <1>10 DEF BuildOf
    <2>5. build' = [location |-> w.location, type |-> build.type]
      BY <2>1, <2>4
    <2>6. build' \in [location : Locations, type : Types] /\ BuildOf(build', w)
      BY <1>3, <2>4, <2>5, SettingsFacts DEF BuildOf
    <2>7. OfType /\ w.type = p.type => build'.type = w.type
      BY <1>10, <2>5 DEF OfType, p
    <2>8. QED
      BY <1>3, <2>3, <2>6, <2>7 DEF TemplateInv, OfType, p
  <1>11. QED
    BY <1>9, <1>10

LEMMA ToSupervisedKeeps ==
  ASSUME TemplateInv, dc # None, NEW w \in Settings, ToSupervised(w), pushed' = w
  PROVE  TemplateInv' /\ (OfType /\ w.type = pushed.type => OfType')
  <1>. DEFINE p == pushed
              ports == PortsOf(w, dc.ports)
              env == UpdatedEnv(w)
              sup == Bootstrapped(GenerateSupervisord(w, ports, env, dc.envFrom))
              upd == UpdateSupervisord(dc, w, ports, env)
              V == Own(w) \cup p.storage
  <1>1. p \in Settings /\ Described(dc, p)
    BY DEF TemplateInv
  <1>2. /\ dc.meta.source = p.source /\ dc.ports \in Ports \cup {ImagePorts}
        /\ dc.envFrom \in Seq(Secrets) /\ Framed(dc, p)
        /\ Holds(dc.mounts, p.storage \cup Own(p)) /\ Holds(dc.volumes, p.storage \cup Own(p))
    BY <1>1, DescribedFacts
  <1>3. w.source # "git"
    BY DEF ToSupervised
  <1>4. ports \in Ports \cup {ImagePorts} /\ (w.ports # None => ports = w.ports)
    BY <1>2, PortsFacts
  <1>5. EnvOf(env, w)
    BY <1>3, UpdatedFacts
  <1>. HIDE DEF ports, env, p
  <1>6. /\ Own(w) = {Shared, Root} /\ Shared \notin p.storage
        /\ Own(p) = IF p.source = "git" THEN {} ELSE {Shared, Root}
    BY <1>1, <1>3, SettingsFacts DEF Own
  <1>7. Described(dc', w) /\ dc'.image = IF p.source = "git" THEN w.type ELSE dc.image
    <2>1. CASE p.source = "git"
      <3>1. /\ Framed(sup, w) /\ sup.image = w.type
            /\ Holds(sup.mounts, Own(w)) /\ Holds(sup.volumes, Own(w))
        BY <1>2, <1>3, <1>4, <1>5, SupervisedFramed
      <3>2. dc' \in Patched(CopyVolumes(sup, dc), w)
        BY <1>2, <2>1 DEF ToSupervised, sup, ports, env
      <3>. HIDE DEF sup
      <3>. DEFINE new == CopyVolumes(sup, dc)
                  U == Own(w) \cup ((p.storage \cup Own(p)) \ {Shared})
      <3>3. Framed(new, w) /\ new.image = sup.image /\ Holds(new.mounts, U) /\ Holds(new.volumes, U)
        BY <1>2, <3>1, CopyFacts
      <3>4. U = V
        BY <1>6, <2>1
      <3>. HIDE DEF U, V, new
      <3>5. dc' \in Patched(new, w) /\ V = Own(w) \cup p.storage
        BY <3>2 DEF new, V
      <3>6. QED
        BY <1>1, <2>1, <3>1, <3>3, <3>4, <3>5, PatchedFacts
    <2>2. CASE p.source # "git"
      <3>1. /\ Framed(upd, w) /\ upd.image = dc.image
            /\ upd.mounts = dc.mounts /\ upd.volumes = dc.volumes
        BY <1>1, <1>2, <1>3, <1>4, <1>5, <2>2, UpdatedFramed
      <3>2. dc' \in Patched(CopyVolumes(upd, dc), w)
        BY <1>2, <2>2 DEF ToSupervised, upd, ports, env
      <3>. HIDE DEF upd
      <3>. DEFINE new == CopyVolumes(upd, dc)
                  W == p.storage \cup Own(p)
                  U == W \cup (W \ {Shared})
      <3>3. Holds(dc.mounts, W) /\ Holds(dc.volumes, W)
        BY <1>2
      <3>. HIDE DEF W
      <3>4. Framed(new, w) /\ new.image = upd.image /\ Holds(new.mounts, U) /\ Holds(new.volumes, U)
        BY <3>1, <3>3, CopyFacts
      <3>5. U = V
        BY <1>6, <2>2 DEF W
      <3>. HIDE DEF U, V, new
      <3>6. dc' \in Patched(new, w) /\ V = Own(w) \cup p.storage
        BY <3>2 DEF new, V
      <3>7. QED
        BY <1>1, <2>2, <3>1, <3>4, <3>5, <3>6, PatchedFacts
    <2>3. QED
      BY <2>1, <2>2
  <1>8. build' = None /\ BuildOf(build', w)
    BY <1>3 DEF ToSupervised, BuildOf
  <1>9. OfType /\ w.type = p.type => dc'.image = w.type
    BY <1>7 DEF OfType, p
  <1>10. QED
    BY <1>3, <1>7, <1>8, <1>9 DEF TemplateInv, OfType, p

LEMMA LinkKeeps ==
  ASSUME TemplateInv, Link \/ Unlink
  PROVE  TemplateInv' /\ (OfType => OfType')
  <1>1. dc # None /\ UNCHANGED <<pushed, build>>
    BY DEF Link, Unlink
  <1>2. pushed \in Settings /\ Described(dc, pushed) /\ BuildOf(build, pushed)
    BY <1>1 DEF TemplateInv
  <1>3. dc.envFrom \in Seq(Secrets)
    BY <1>2, DescribedFacts
  <1>4. \E f \in Seq(Secrets) : dc' = [dc EXCEPT !.envFrom = f]
    <2>1. CASE Link
      <3>1. PICK s \in Secrets : dc' = [dc EXCEPT !.envFrom = Append(@, s)]
        BY <2>1 DEF Link
      <3>2. Append(dc.envFrom, s) \in Seq(Secrets)
        BY <1>3
      <3>3. QED
        BY <3>1, <3>2
    <2>2. CASE Unlink
      <3>1. PICK s : dc' = [dc EXCEPT !.envFrom = Without(@, {s})]
        BY <2>2 DEF Unlink
      <3>2. Without(dc.envFrom, {s}) \in Seq(Secrets)
        BY <1>3, WithoutFacts
      <3>3. QED
        BY <3>1, <3>2
    <2>3. QED
      BY <2>1, <2>2
  <1>5. Described(dc', pushed) /\ dc'.image = dc.image
    BY <1>2, <1>4, RelinkedFacts
  <1>6. QED
    BY <1>1, <1>2, <1>5 DEF TemplateInv, OfType

\* What every push leaves as it finds it.
SameType == dc # None => pushed'.type = pushed.type

LEMMA TemplateInitially == TemplateInit => TemplateInv /\ OfType
  BY DEF TemplateInit, TemplateInv, OfType

LEMMA TemplateStep ==
  ASSUME TemplateInv, [TemplateNext]_templateVars
  PROVE  TemplateInv' /\ (OfType /\ [SameType]_pushed => OfType')
  <1>1. CASE Link \/ Unlink
    BY <1>1, LinkKeeps
  <1>2. ASSUME NEW w \in Settings, Create(w) PROVE TemplateInv' /\ OfType'
    BY <1>2, CreateKeeps
  <1>3. ASSUME NEW w \in Settings, Update(w)
        PROVE  TemplateInv' /\ (OfType /\ [SameType]_pushed => OfType')
    <2>1. dc # None /\ pushed' = w /\ (ToGit(w) \/ ToSupervised(w))
      BY <1>3 DEF Update
    <2>2. TemplateInv' /\ (OfType /\ w.type = pushed.type => OfType')
      BY <2>1, ToGitKeeps, ToSupervisedKeeps
    <2>3. [SameType]_pushed => w.type = pushed.type
      BY <2>1 DEF SameType
    <2>4. QED
      BY <2>2, <2>3
  <1>4. CASE UNCHANGED templateVars
    BY <1>4 DEF templateVars, TemplateInv, OfType
  <1>5. QED
    BY <1>1, <1>2, <1>3, <1>4 DEF TemplateNext

THEOREM TemplateInvariant == TemplateSpec => []TemplateInv
  <1>1. TemplateInv /\ [TemplateNext]_templateVars => TemplateInv'
    BY TemplateStep
  <1>2. QED
    BY <1>1, TemplateInitially, PTL DEF TemplateSpec

-----------------------------------------------------------------------------
(* Templates: the theorems.                                                *)

\* TemplateTypeOK: what is deployed has the settings' labels, ports that were
\* given or exposed, and lists of secrets and volumes that exist, whatever
\* series of NewApp..., Update..., LinkSecret and UnlinkSecret made it.
THEOREM TemplateTypeCorrect == TemplateSpec => []TemplateTypeOK
  <1>1. TemplateInv => TemplateTypeOK
    <2>. SUFFICES ASSUME TemplateInv, dc # None
                  PROVE  /\ dc.meta \in [source : {"local", "binary", "git"},
                                         location : Locations, type : Types]
                         /\ dc.ports \in Ports \cup {ImagePorts}
                         /\ Range(dc.envFrom) \subseteq Secrets
                         /\ Range(dc.volumes) \cup Range(dc.mounts) \subseteq
                              Storages \cup {Shared, Root}
      BY DEF TemplateInv, TemplateTypeOK
    <2>1. pushed \in Settings /\ Described(dc, pushed)
      BY DEF TemplateInv
    <2>2. /\ dc.meta = Meta(pushed) /\ dc.ports \in Ports \cup {ImagePorts}
          /\ dc.envFrom \in Seq(Secrets)
          /\ Holds(dc.mounts, pushed.storage \cup Own(pushed))
          /\ Holds(dc.volumes, pushed.storage \cup Own(pushed))
      BY <2>1, DescribedFacts
    <2>3. Range(dc.envFrom) \subseteq Secrets
      BY <2>2 DEF Range
    <2>4. QED
      BY <2>1, <2>2, <2>3, SettingsFacts DEF Holds, Own
  <1>2. QED
    BY <1>1, TemplateInvariant, PTL

\* TemplateIsValid: CopyVolumes, RemoveTraces and the (un)mounting of
\* PatchCurrentDC leave volumes and mounts that the API accepts, and no volume
\* that nothing mounts, after any series of pushes and links.
THEOREM TemplatesAreValid == TemplateSpec => []TemplateIsValid
  <1>1. TemplateInv => TemplateIsValid
    <2>. SUFFICES ASSUME TemplateInv, dc # None
                  PROVE  /\ IsInjective(dc.volumes) /\ IsInjective(dc.mounts)
                         /\ Range(dc.volumes) = Range(dc.mounts)
                         /\ \A i \in DOMAIN dc.inits : dc.inits[i].volume \in Range(dc.volumes)
      BY DEF TemplateIsValid
    <2>. DEFINE p == pushed
    <2>1. p \in Settings /\ Described(dc, p)
      BY DEF TemplateInv
    <2>2. Holds(dc.mounts, Held(p)) /\ Holds(dc.volumes, Held(p))
      BY <2>1 DEF Described
    <2>3. dc.inits = IF p.source = "git" THEN <<>> ELSE Inits
      <3>1. dc = Template(p, dc.image, dc.ports, dc.env, dc.envFrom, dc.mounts, dc.volumes)
        BY <2>1 DEF Described, Framed
      <3>2. QED
        BY <3>1 DEF Template
    <2>4. \A i \in DOMAIN dc.inits : dc.inits[i].volume \in Held(p)
      <3>1. CASE p.source = "git"
        <4>1. dc.inits = <<>>
          BY <2>3, <3>1
        <4>2. QED
          BY <4>1
      <3>2. CASE p.source # "git"
        <4>1. dc.inits = Inits
          BY <2>3, <3>2
        <4>2. DOMAIN Inits = 1..2 /\ Inits[1].volume = Root /\ Inits[2].volume = Shared
          BY DEF Inits
        <4>3. {Shared, Root} \subseteq Held(p)
          BY <3>2 DEF Held, Own
        <4>4. QED
          BY <4>1, <4>2, <4>3
      <3>3. QED
        BY <3>1, <3>2
    <2>5. QED
      BY <2>2, <2>4 DEF Holds
  <1>2. QED
    BY <1>1, TemplateInvariant, PTL

\* OneValueEach: UniqueAppend and DeleteVar leave each variable once, with the
\* value odo gives it where it gives one, whatever variables the user has.
THEOREM ValuesAreUnique == TemplateSpec => []OneValueEach
  <1>1. TemplateInv => OneValueEach
    <2>. SUFFICES ASSUME TemplateInv, dc # None
                  PROVE  /\ BackupDir \in Range(dc.env) <=> pushed.source = "local"
                         /\ \A i, j \in DOMAIN dc.env : dc.env[i].name = dc.env[j].name => i = j
                         /\ pushed.source # "git" => S2IVar(pushed.type) \in Range(dc.env)
      BY DEF OneValueEach
    <2>. DEFINE p == pushed
                odo == {e \in Range(dc.env) : e.value # "user"}
    <2>1. p \in Settings /\ EnvOf(dc.env, p)
      BY DEF TemplateInv, Described, Framed
    <2>2. odo = OdoVars(p) /\ UniqueNames(dc.env)
      BY <2>1 DEF EnvOf
    <2>3. /\ S2IVar(p.type).name = "s2i"
          /\ BackupDir.name = "backup" /\ BackupDir.value # "user"
      BY <2>1, OdoVarFacts
    <2>4. S2IVar(p.type) # BackupDir
      BY <2>3
    <2>5. BackupDir \in Range(dc.env) <=> BackupDir \in odo
      BY <2>3
    <2>6. BackupDir \in odo <=> p.source = "local"
      BY <2>2, <2>4 DEF OdoVars
    <2>7. p.source # "git" => S2IVar(p.type) \in odo
      BY <2>2 DEF OdoVars
    <2>8. QED
      BY <2>2, <2>5, <2>6, <2>7 DEF UniqueNames
  <1>2. QED
    BY <1>1, TemplateInvariant, PTL

\* What is compared of a template.
LEMMA ComparableFacts ==
  ASSUME NEW w, NEW d, Framed(d, w)
  PROVE  Comparable(d) = Template(w, d.image, "", OdoVars(w), <<>>, Range(d.mounts), Range(d.volumes))
  <1>. DEFINE env == {e \in Range(d.env) : e.value # "user"}
              nil == <<>>
              no == ""
              m == Range(d.mounts)
              v == Range(d.volumes)
              c == Comparable(d)
              t == Template(w, d.image, no, env, nil, m, v)
              fields == {"meta", "command", "image", "automatic", "containers", "ports", "env",
                         "envFrom", "resources", "mounts", "volumes", "inits"}
              x(f) == IF f = "env" THEN env ELSE IF f = "ports" THEN no ELSE IF f = "envFrom" THEN nil
                      ELSE IF f = "volumes" THEN v ELSE IF f = "mounts" THEN m ELSE d[f]
  <1>1. d = Template(w, d.image, d.ports, d.env, d.envFrom, d.mounts, d.volumes)
    BY DEF Framed
  <1>2. d = [f \in fields |-> d[f]]
    BY <1>1 DEF Template
  <1>3. c = [d EXCEPT !.mounts = m, !.volumes = v, !.envFrom = nil, !.ports = no, !.env = env]
    BY DEF Comparable
  <1>. HIDE DEF env, nil, no, m, v, c
  <1>4. c = [f \in fields |-> x(f)]
    BY <1>2, <1>3
  <1>5. t = [f \in fields |-> t[f]]
    BY DEF Template
  <1>6. /\ t["command"] = d["command"] /\ t["image"] = d["image"] /\ t["meta"] = d["meta"]
        /\ t["containers"] = d["containers"] /\ t["inits"] = d["inits"] /\ t["resources"] = d["resources"]
    BY <1>1 DEF Template
  <1>7. t["volumes"] = v /\ t["mounts"] = m /\ t["ports"] = no /\ t["env"] = env /\ t["envFrom"] = nil
    BY DEF Template
  <1>8. t["automatic"] = d["automatic"]
    BY <1>1 DEF Template
  <1>. HIDE DEF t
  <1>9. \A f \in fields : t[f] = x(f)
    BY <1>6, <1>7, <1>8
  <1>. HIDE DEF fields, x
  <1>10. c = t
    BY <1>4, <1>5, <1>9
  <1>11. env = OdoVars(w)
    BY DEF Framed, EnvOf, env
  <1>12. QED
    BY <1>10, <1>11 DEF c, t, nil, no, m, v

\* AsIfCreated: as long as pushes leave the type of the component alone (the
\* image of the container and the builder of the BuildConfig are of the first
\* push), every update ends with what CreateFromGit or CreateFromPath would have
\* made of the settings.
THEOREM DeployedAsIfCreated == TemplateSpec /\ [][SameType]_pushed => []AsIfCreated
  <1>1. TemplateInv /\ OfType => AsIfCreated
    <2>. SUFFICES ASSUME TemplateInv, OfType, dc # None
                  PROVE  /\ Comparable(dc) \in {Comparable(d) : d \in Created(pushed)}
                         /\ build = IF pushed.source = "git" THEN GenerateBuild(pushed) ELSE None
                         /\ pushed.ports # None => dc.ports = pushed.ports
      BY DEF AsIfCreated
    <2>. DEFINE p == pushed
    <2>1. p \in Settings /\ Described(dc, p) /\ BuildOf(build, p)
      BY DEF TemplateInv
    <2>2. PICK d \in Created(p) : Described(d, p) /\ (p.source # "git" => d.image = p.type)
      BY <2>1, CreatedFacts
    <2>3. dc.image = d.image
      <3>1. CASE p.source = "git"
        BY <2>1, <2>2, <3>1 DEF Described, Framed, Images
      <3>2. CASE p.source # "git"
        BY <2>2, <3>2 DEF OfType
      <3>3. QED
        BY <3>1, <3>2
    <2>4. /\ Framed(dc, p) /\ Range(dc.mounts) = Held(p) /\ Range(dc.volumes) = Held(p)
          /\ Framed(d, p) /\ Range(d.mounts) = Held(p) /\ Range(d.volumes) = Held(p)
      BY <2>1, <2>2 DEF Described, Holds
    <2>. HIDE DEF p
    <2>5. /\ Comparable(dc) = Template(p, dc.image, "", OdoVars(p), <<>>, Held(p), Held(p))
          /\ Comparable(d) = Template(p, d.image, "", OdoVars(p), <<>>, Held(p), Held(p))
      BY <2>4, ComparableFacts
    <2>6. Comparable(dc) = Comparable(d)
      BY <2>3, <2>5
    <2>7. build = IF p.source = "git" THEN GenerateBuild(p) ELSE None
      <3>1. CASE p.source = "git"
        <4>1. build = [location |-> p.location, type |-> build.type]
          BY <2>1, <3>1 DEF BuildOf
        <4>2. build.type = p.type
          BY <3>1 DEF OfType, p
        <4>3. QED
          BY <3>1, <4>1, <4>2 DEF GenerateBuild
      <3>2. CASE p.source # "git"
        BY <2>1, <3>2 DEF BuildOf
      <3>3. QED
        BY <3>1, <3>2
    <2>8. p.ports # None => dc.ports = p.ports
      BY <2>4 DEF Framed
    <2>9. QED
      BY <2>6, <2>7, <2>8 DEF p
  <1>2. TemplateInv /\ OfType /\ [TemplateNext]_templateVars /\ [SameType]_pushed
          => (TemplateInv /\ OfType)'
    BY TemplateStep
  <1>3. QED
    BY <1>1, <1>2, TemplateInitially, PTL DEF TemplateSpec

\* Without regard to the builder image, whatever the pushes change.
AsIfCreatedButTheType ==
  dc # None =>
    /\ \E d \in Created(pushed) : Comparable(dc) = [Comparable(d) EXCEPT !.image = dc.image]
    /\ build = IF pushed.source = "git" THEN [GenerateBuild(pushed) EXCEPT !.type = build.type] ELSE None
    /\ pushed.ports # None => dc.ports = pushed.ports

LEMMA OtherImage ==
  ASSUME NEW w, NEW image, NEW other, NEW ports, NEW env, NEW envFrom, NEW mounts, NEW volumes
  PROVE  [Template(w, image, ports, env, envFrom, mounts, volumes) EXCEPT !.image = other]
           = Template(w, other, ports, env, envFrom, mounts, volumes)
  <1>. DEFINE t == Template(w, image, ports, env, envFrom, mounts, volumes)
              u == Template(w, other, ports, env, envFrom, mounts, volumes)
              fields == {"meta", "command", "image", "automatic", "containers", "ports", "env",
                         "envFrom", "resources", "mounts", "volumes", "inits"}
  <1>1. /\ t = [f \in fields |-> t[f]] /\ u = [f \in fields |-> u[f]]
        /\ u["image"] = other
    BY DEF Template
  <1>2. \A f \in fields \ {"image"} : u[f] = t[f]
    <2>1. u["command"] = t["command"] /\ u["meta"] = t["meta"] /\ u["containers"] = t["containers"]
      BY DEF Template
    <2>2. u["inits"] = t["inits"] /\ u["resources"] = t["resources"] /\ u["automatic"] = t["automatic"]
      BY DEF Template
    <2>3. u["volumes"] = t["volumes"] /\ u["mounts"] = t["mounts"] /\ u["ports"] = t["ports"]
      BY DEF Template
    <2>4. u["env"] = t["env"] /\ u["envFrom"] = t["envFrom"]
      BY DEF Template
    <2>5. QED
      BY <2>1, <2>2, <2>3, <2>4
  <1>. HIDE DEF t, u
  <1>3. [t EXCEPT !.image = other] = u
    BY <1>1, <1>2
  <1>4. QED
    BY <1>3 DEF t, u

\* Where pushes change the type too, nothing but the image and the builder can
\* differ from a creation.
THEOREM DeployedButTheType == TemplateSpec => []AsIfCreatedButTheType
  <1>1. TemplateInv => AsIfCreatedButTheType
    <2>. SUFFICES ASSUME TemplateInv, dc # None
                  PROVE  /\ \E d \in Created(pushed) :
                              Comparable(dc) = [Comparable(d) EXCEPT !.image = dc.image]
                         /\ build = IF pushed.source = "git"
                                    THEN [GenerateBuild(pushed) EXCEPT !.type = build.type] ELSE None
                         /\ pushed.ports # None => dc.ports = pushed.ports
      BY DEF AsIfCreatedButTheType
    <2>. DEFINE p == pushed
    <2>1. p \in Settings /\ Described(dc, p) /\ BuildOf(build, p)
      BY DEF TemplateInv
    <2>2. PICK d \in Created(p) : Described(d, p)
      BY <2>1, CreatedFacts
    <2>3. /\ Framed(dc, p) /\ Range(dc.mounts) = Held(p) /\ Range(dc.volumes) = Held(p)
          /\ Framed(d, p) /\ Range(d.mounts) = Held(p) /\ Range(d.volumes) = Held(p)
      BY <2>1, <2>2 DEF Described, Holds
    <2>4. build = IF p.source = "git" THEN [GenerateBuild(p) EXCEPT !.type = build.type] ELSE None
      BY <2>1 DEF BuildOf, GenerateBuild
    <2>5. p.ports # None => dc.ports = p.ports
      BY <2>1 DEF Described, Framed
    <2>. HIDE DEF p
    <2>. DEFINE no == ""
                nil == <<>>
    <2>6. /\ Comparable(dc) = Template(p, dc.image, no, OdoVars(p), nil, Held(p), Held(p))
          /\ Comparable(d) = Template(p, d.image, no, OdoVars(p), nil, Held(p), Held(p))
      BY <2>3, ComparableFacts
    <2>. HIDE DEF no, nil
    <2>7. Comparable(dc) = [Comparable(d) EXCEPT !.image = dc.image]
      BY <2>6, OtherImage
    <2>8. QED
      BY <2>2, <2>4, <2>5, <2>7 DEF p
  <1>2. QED
    BY <1>1, TemplateInvariant, PTL

=============================================================================
