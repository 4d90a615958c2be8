------------------------------ MODULE PodWait ------------------------------
(***************************************************************************)
(* Waiting for a pod: WaitAndGetPod of pkg/occlient, the spinner that is   *)
(* shown meanwhile (pkg/log/status.go, pkg/log/fidget) and its callers: a  *)
(* push waits for a running pod, `odo link --wait` first for a pending one *)
(* and then for a running one (waitForLinkToComplete).                     *)
(*                                                                         *)
(* Each wait w of the command has a watch, a goroutine that reads it, two  *)
(* unbuffered channels to the main goroutine, a timeout and a spinner.     *)
(* The pods belong to the cluster.                                         *)
(***************************************************************************)
EXTENDS Naturals, Sequences, FiniteSets

CONSTANTS
  Commands,   \* the commands that wait: a subset of {"push", "link"}
  Modes,      \* of the output: "plain" (no terminal), "spin", "debug"
  Patient,    \* the timeout comes only when nothing more would happen
  MaxEvents,  \* bound on the events a watch has yet to deliver
  MaxFaults   \* bound on closed watches and events that are no pods

ASSUME CommandsAssumption == Commands \subseteq {"push", "link"}
ASSUME ModesAssumption    == Modes \subseteq {"plain", "spin", "debug"}
ASSUME PatientAssumption  == Patient \in BOOLEAN
ASSUME BoundsAssumption   == MaxEvents \in Nat \ {0} /\ MaxFaults \in Nat

VARIABLES
  command,   \* the command that runs
  mode,      \* how its output is shown
  pods,      \* the phases of the component's old and new pod
  wait,      \* the number of the wait the main goroutine is at
  main,      \* what the main goroutine does next
  result,    \* how the current wait ends
  answer,    \* the pod it returns
  routine,   \* what the goroutine of each wait does next
  found,     \* the event that ended its loop
  watch,     \* the watch of each wait: open or not, and what it delivers next
  status,    \* the spinner's line is shown
  spinning,  \* the spinner's own goroutine runs
  stops,     \* what the spinner's channel, of capacity 1, holds
  marks,     \* the marks printed for each wait
  faults     \* closed watches and events that are no pods

podVars  == <<pods, faults>>
mainVars == <<wait, main, result, answer>>
vars     == <<command, mode, podVars, mainVars, routine, found, watch, status,
              spinning, stops, marks>>

Waits == 1..2
NoPod == [pod |-> "none", phase |-> "none"]

\* The phases a command waits for, one after the other.
Desired_OnlyRunning(c) == <<"Running">>                   \* mutant
Desired(c) == IF c = "link" THEN <<"Pending", "Running">> ELSE <<"Running">>

Phase == Desired(command)[wait]

-----------------------------------------------------------------------------
(* The pods.  The deployment is recreated: the old pod goes first.         *)

Event(p, phase) == [pod |-> p, phase |-> phase]

\* What the watches that are open see of a change.
Announce(e) ==
  watch' = [w \in Waits |->
              IF watch[w].open THEN [watch[w] EXCEPT !.queue = Append(@, e)]
                               ELSE watch[w]]

Room == \A w \in Waits : Len(watch[w].queue) < MaxEvents

\* The last event of a pod carries its last phase.
OldGoes ==
  /\ pods.old # "none" /\ Room
  /\ pods' = [pods EXCEPT !.old = "none"]
  /\ Announce(Event("old", pods.old))

NewTurns(from, to) ==
  /\ pods.new = from /\ pods.old = "none" /\ Room
  /\ pods' = [pods EXCEPT !.new = to]
  /\ Announce(Event("new", to))

PodStep ==
  /\ \/ OldGoes
     \/ NewTurns("none", "Pending")
     \/ NewTurns("Pending", "Running")
     \/ NewTurns("Pending", "Failed")
  /\ UNCHANGED <<command, mode, mainVars, routine, found, status, spinning,
                 stops, marks, faults>>

\* The server closes a watch, or sends a status instead of a pod.
WatchFault(w) ==
  /\ watch[w].open /\ faults < MaxFaults
  /\ faults' = faults + 1
  /\ \/ watch' = [watch EXCEPT ![w].open = FALSE]
     \/ Room /\ watch' = [watch EXCEPT ![w].queue = Append(@, Event("none", "Status"))]
  /\ UNCHANGED <<command, mode, pods, mainVars, routine, found, status,
                 spinning, stops, marks>>

-----------------------------------------------------------------------------
(* The spinner of wait w: Status.Start, Status.End, Spinner.Start and Stop *)

\* The spinner starts when there is a terminal and no debug output.
Shows(w) ==
  /\ status' = [status EXCEPT ![w] = TRUE]
  /\ spinning' = [spinning EXCEPT ![w] = (mode = "spin")]

\* End, in steps of the goroutine whose counter goes from `check` to `stop` to
\* `mark`: it is not synchronised with an End of another goroutine.
EndChecks_Always(w, next) ==                              \* mutant
  next = IF mode = "plain" THEN "mark" ELSE "stop"

EndChecks(w, next) ==
  IF ~status[w] THEN next = "ended"
                ELSE next = IF mode = "plain" THEN "mark" ELSE "stop"

\* The send blocks while the channel is full.
EndStops(w) ==
  /\ stops[w] = 0
  /\ stops' = [stops EXCEPT ![w] = 1]

EndMarks(w, m) ==
  /\ marks' = [marks EXCEPT ![w] = Append(@, m)]
  /\ status' = [status EXCEPT ![w] = FALSE]

\* The spinner's goroutine, between two frames.
SpinnerStops(w) ==
  /\ spinning[w] /\ stops[w] = 1
  /\ stops' = [stops EXCEPT ![w] = 0]
  /\ spinning' = [spinning EXCEPT ![w] = FALSE]
  /\ UNCHANGED <<command, mode, podVars, mainVars, routine, found, watch,
                 status, marks>>

-----------------------------------------------------------------------------
(* The main goroutine.                                                     *)

\* The pods there are when a watch begins come first.
Initially ==
  LET old == IF pods.old = "none" THEN <<>> ELSE <<Event("old", pods.old)>>
      new == IF pods.new = "none" THEN <<>> ELSE <<Event("new", pods.new)>>
  IN  old \o new

\* The wait begins: spinner, watch, goroutine; or the watch is refused.
Begin ==
  /\ main = "begin"
  /\ Shows(wait)
  /\ \/ /\ watch' = [watch EXCEPT ![wait] = [open |-> TRUE, queue |-> Initially]]
        /\ routine' = [routine EXCEPT ![wait] = "receive"]
        /\ main' = "select"
        /\ UNCHANGED <<result, faults>>
     \/ /\ faults < MaxFaults
        /\ faults' = faults + 1
        /\ result' = "error"
        /\ main' = "check"
        /\ UNCHANGED <<watch, routine>>
  /\ UNCHANGED <<command, mode, pods, wait, answer, found, stops, marks>>

\* A pod or an error from the goroutine: the send and the receive are one step.
Answered_NoBreak ==                \* mutant: the goroutine stays in its loop
  /\ main = "select" /\ routine[wait] \in {"send pod", "send error"}
  /\ IF routine[wait] = "send pod"
     THEN result' = "ok" /\ answer' = found[wait]
     ELSE result' = "error" /\ UNCHANGED answer
  /\ routine' = [routine EXCEPT ![wait] = "receive"]
  /\ main' = "unwatch"
  /\ UNCHANGED <<command, mode, podVars, wait, found, watch, status, spinning,
                 stops, marks>>

Answered ==
  /\ main = "select" /\ routine[wait] \in {"send pod", "send error"}
  /\ IF routine[wait] = "send pod"
     THEN result' = "ok" /\ answer' = found[wait]
     ELSE result' = "error" /\ UNCHANGED answer
  /\ routine' = [routine EXCEPT ![wait] = "close"]
  /\ main' = "unwatch"
  /\ UNCHANGED <<command, mode, podVars, wait, found, watch, status, spinning,
                 stops, marks>>

\* Nothing more will happen before the timeout.
Settled ==
  /\ routine[wait] = "receive" /\ watch[wait].open /\ watch[wait].queue = <<>>
  /\ pods.new \in {"Running", "Failed"}

TimesOut_Never == FALSE /\ UNCHANGED vars                   \* mutant

TimesOut ==
  /\ main = "select"
  /\ Patient => Settled
  /\ result' = "timeout"
  /\ main' = "unwatch"
  /\ UNCHANGED <<command, mode, podVars, wait, answer, routine, found, watch,
                 status, spinning, stops, marks>>

\* The deferred calls, the last one first: w.Stop() closes the watch...
Unwatch ==
  /\ main = "unwatch"
  /\ watch' = [watch EXCEPT ![wait].open = FALSE]
  /\ main' = "check"
  /\ UNCHANGED <<command, mode, podVars, wait, result, answer, routine, found,
                 status, spinning, stops, marks>>

\* ... and s.End(false) ends the spinner, if the goroutine has not.
MainEnds ==
  /\ \/ /\ main = "check"
        /\ EndChecks(wait, main')
        /\ UNCHANGED <<stops, marks, status>>
     \/ /\ main = "stop"
        /\ EndStops(wait)
        /\ main' = "mark"
        /\ UNCHANGED <<marks, status>>
     \/ /\ main = "mark"
        /\ EndMarks(wait, "failure")
        /\ main' = "ended"
        /\ UNCHANGED stops
  /\ UNCHANGED <<command, mode, podVars, wait, result, answer, routine, found,
                 watch, spinning>>

\* The caller goes on to its next wait, if there is one and this one was
\* answered by a pod.
Proceed ==
  /\ main = "ended"
  /\ IF result = "ok" /\ wait < Len(Desired(command))
     THEN /\ wait' = wait + 1 /\ main' = "begin"
          /\ result' = "none" /\ answer' = NoPod
     ELSE /\ main' = "done"
          /\ UNCHANGED <<wait, result, answer>>
  /\ UNCHANGED <<command, mode, podVars, routine, found, watch, status,
                 spinning, stops, marks>>

MainStep == Begin \/ Answered \/ TimesOut \/ Unwatch \/ MainEnds \/ Proceed

-----------------------------------------------------------------------------
(* The goroutine of wait w.                                                *)

\* What an event makes the goroutine do next.
Verdict(w, e) ==
  CASE e.phase = Desired(command)[w] -> "check"
    [] e.phase \in {"Failed", "Unknown", "Status"} -> "send error"
    [] OTHER -> "receive"

\* A closed watch delivers what it holds, then that it is closed.
Receive(w) ==
  /\ routine[w] = "receive"
  /\ \/ /\ watch[w].queue # <<>>
        /\ watch' = [watch EXCEPT ![w].queue = Tail(@)]
        /\ found' = [found EXCEPT ![w] = Head(watch[w].queue)]
        /\ routine' = [routine EXCEPT ![w] = Verdict(w, Head(watch[w].queue))]
     \/ /\ watch[w].queue = <<>> /\ ~watch[w].open
        /\ routine' = [routine EXCEPT ![w] = "send error"]
        /\ UNCHANGED <<watch, found>>
  /\ UNCHANGED <<command, mode, podVars, mainVars, status, spinning, stops, marks>>

\* s.End(true): the goroutine marks the success before it sends the pod.
RoutineEnds(w) ==
  /\ \/ /\ routine[w] = "check"
        /\ \E next \in {"ended", "mark", "stop"} :
             /\ EndChecks(w, next)
             /\ routine' = [routine EXCEPT ![w] =
                              IF next = "ended" THEN "send pod" ELSE next]
        /\ UNCHANGED <<stops, marks, status>>
     \/ /\ routine[w] = "stop"
        /\ EndStops(w)
        /\ routine' = [routine EXCEPT ![w] = "mark"]
        /\ UNCHANGED <<marks, status>>
     \/ /\ routine[w] = "mark"
        /\ EndMarks(w, "success")
        /\ routine' = [routine EXCEPT ![w] = "send pod"]
        /\ UNCHANGED stops
  /\ UNCHANGED <<command, mode, podVars, mainVars, found, watch, spinning>>

\* Both channels are closed; nobody receives from them any more.
Close(w) ==
  /\ routine[w] = "close"
  /\ routine' = [routine EXCEPT ![w] = "done"]
  /\ UNCHANGED <<command, mode, podVars, mainVars, found, watch, status,
                 spinning, stops, marks>>

RoutineStep(w) == Receive(w) \/ RoutineEnds(w) \/ Close(w)

-----------------------------------------------------------------------------
\* A link starts when its patch is made: the old pod runs.  A push may find the
\* new pod in any phase.
Init ==
  /\ command \in Commands /\ mode \in Modes
  /\ \/ command = "link" /\ pods = [old |-> "Running", new |-> "none"]
     \/ /\ command = "push"
        /\ \E p \in {"none", "Pending", "Running"} :
             pods = [old |-> "none", new |-> p]
  /\ wait = 1 /\ main = "begin" /\ result = "none" /\ answer = NoPod
  /\ routine = [w \in Waits |-> "none"] /\ found = [w \in Waits |-> NoPod]
  /\ watch = [w \in Waits |-> [open |-> FALSE, queue |-> <<>>]]
  /\ status = [w \in Waits |-> FALSE] /\ spinning = [w \in Waits |-> FALSE]
  /\ stops = [w \in Waits |-> 0] /\ marks = [w \in Waits |-> <<>>]
  /\ faults = 0

Next == \/ PodStep
        \/ MainStep
        \/ \E w \in Waits : WatchFault(w) \/ RoutineStep(w) \/ SpinnerStops(w)

\* odo's own goroutines go on; neither the pods nor the faults have to.
Fairness == /\ WF_vars(MainStep)
            /\ \A w \in Waits : WF_vars(RoutineStep(w)) /\ WF_vars(SpinnerStops(w))

Spec == Init /\ [][Next]_vars /\ Fairness

-----------------------------------------------------------------------------
(* What a wait promises.                                                   *)

Phases == {"Pending", "Running", "Failed"}

TypeOK ==
  /\ command \in Commands /\ mode \in Modes
  /\ pods \in [old : {"none", "Running"}, new : Phases \cup {"none"}]
  /\ wait \in 1..Len(Desired(command))
  /\ main \in {"begin", "select", "unwatch", "check", "stop", "mark", "ended", "done"}
  /\ result \in {"none", "ok", "error", "timeout"}
  /\ \A w \in Waits :
       /\ routine[w] \in {"none", "receive", "check", "stop", "mark", "send pod",
                          "send error", "close", "done"}
       /\ status[w] \in BOOLEAN /\ spinning[w] \in BOOLEAN
       /\ stops[w] \in 0..1
       /\ Len(watch[w].queue) <= MaxEvents
  /\ faults \in 0..MaxFaults

\* "there is a change that the this point could be reached without Openshift
\* having had the time to launch the new deployment" (common_link.go): the pod
\* a command ends with is the new one, in the phase it waited for, although the
\* old pod, still running, is among the first events of every watch.
AnswerIsNewPod ==
  result = "ok" => answer = Event("new", Phase)

\* Both goroutines end the spinner; unless the wait times out just then, the
\* user sees one mark for it, and the right one.
MarkMatches ==
  main \in {"ended", "done"} /\ result # "timeout" =>
    marks[wait] = <<IF result = "ok" THEN "success" ELSE "failure">>

\* The goroutine of a wait ends, unless the wait timed out: nobody is left to
\* receive what it sends after that.
RoutinesEnd ==
  \A w \in Waits :
    routine[w] # "none" ~> routine[w] = "done" \/ (wait = w /\ result = "timeout")

\* "waitForPodTimeOut controls how long we should wait for a pod before giving
\* up" (occlient.go): every wait comes to an end, whatever the pods do.
WaitReturns == <>(main = "done")

\* "first wait for the pod to be pending (meaning that the deployment is being
\* put into effect)" (common_link.go): a link whose new pod runs by the time of
\* its timeout has been put into effect, and is not reported as failed.
LinkSeesRollout == ~(command = "link" /\ result = "timeout" /\ pods.new = "Running")

=============================================================================
