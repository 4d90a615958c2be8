------------------------------- MODULE Watch -------------------------------
(***************************************************************************)
(* `odo watch`: WatchAndPush (pkg/component/watch.go) together with the    *)
(* PushLocal (pkg/component/component.go) it calls on every batch.         *)
(*                                                                         *)
(* Three actors share the state below.                                     *)
(*   - The developer edits files; fsnotify queues an event per edit.       *)
(*   - The event goroutine receives one event, stop request or watcher     *)
(*     error at a time, takes changeLock and updates the shared lists.     *)
(*   - The main loop takes changeLock on every tick and, when the tree has *)
(*     been quiet for `delay`, runs PushLocal with the lock held.          *)
(* The developer never waits for changeLock: files change under the push.  *)
(*                                                                         *)
(* A path is a member of Files, its contents a member of Contents or       *)
(* Absent.  The lists are sets: only their members reach PushLocal's rm    *)
(* and tar commands.  Directories below parameters.Path are not in this    *)
(* module.  parameters.Path is a directory, as it is for a component with  *)
(* local sources.  For a binary component it is one file, which TickPush   *)
(* would send whatever changedFiles holds: that watch is not modelled.     *)
(***************************************************************************)
EXTENDS Naturals, Sequences

CONSTANTS Files,     \* paths below parameters.Path
          Ignored,   \* the ones FileIgnores matches
          Contents,  \* what a file can contain
          Absent,    \* the file does not exist
          NoFile,    \* no file is being tarred
          MaxEdits,  \* bound: edits of the developer
          MaxFaults  \* bound: failures of the cluster and of the watcher

ASSUME WatchAssumption ==
    /\ Ignored \subseteq Files
    /\ Absent \notin Contents
    /\ NoFile \notin Files
    /\ MaxEdits \in Nat
    /\ MaxFaults \in Nat

VARIABLES
    local,        \* the source tree
    pod,          \* the sources in the component's pod
    assembled,    \* pod's sources are the ones last assembled and restarted
    events,       \* fsnotify's queue; its head is in hand while hand = "event"
    hand,         \* what the goroutine received and has not handled yet
    stop,         \* the caller's "true" on ExtChan: not sent, blocked, taken
    changedFiles, deletedPaths, dirty, watchError,
    recent,       \* lastChange is at most `delay` ago
    pc,           \* where the main loop is
    copying,      \* the changed files makeTar has not looked at yet
    opened,       \* the file makeTar is writing to the archive
    header,       \* opened's contents when its header was written
    archive,      \* what makeTar has written: the contents of each file
    lost,         \* history: files whose change the program dropped
    edits, faults

source == <<local, events, edits>>
goroutine == <<hand, stop>>
shared == <<changedFiles, deletedPaths, dirty, watchError, recent>>
push == <<pod, assembled, copying, opened, header, archive>>
vars == <<source, goroutine, shared, push, pc, lost, faults>>

FileState == Contents \union {Absent}
NoFiles == [f \in Files |-> Absent]
Op == {"update", "remove", "rename"}   \* "update": Create, Write or Chmod
Event == [op : Op, name : Files]

\* Types; and makeTar works on files of the batch only, a batch that is never
\* reset while it does.
TypeOK ==
    /\ local \in [Files -> FileState]
    /\ pod \in [Files -> FileState]
    /\ assembled \in BOOLEAN
    /\ events \in Seq(Event)
    /\ hand \in {"none", "event", "stop", "error"}
    /\ stop \in {"no", "sent", "taken"}
    /\ changedFiles \in SUBSET Files
    /\ deletedPaths \in SUBSET Files
    /\ dirty \in BOOLEAN
    /\ watchError \in {"none", "exit", "error"}
    /\ recent \in BOOLEAN
    /\ pc \in {"idle", "push", "delete", "copy", "build", "returned", "exited"}
    /\ copying \in SUBSET changedFiles
    /\ opened \in changedFiles \union {NoFile}
    /\ header \in FileState
    /\ archive \in [Files -> FileState]
    /\ lost \in SUBSET Files
    /\ edits \in 0..MaxEdits
    /\ faults \in 0..MaxFaults

\* `odo push` ran before `odo watch`: the pod has every file not ignored.  At
\* an ignored path it may have a file of its own, such as a build product.
Init ==
    /\ local \in [Files -> FileState]
    /\ pod \in [Files -> FileState]
    /\ \A f \in Files \ Ignored : pod[f] = local[f]
    /\ assembled = TRUE
    /\ events = <<>>
    /\ hand = "none"
    /\ stop = "no"
    /\ changedFiles = {}
    /\ deletedPaths = {}
    /\ dirty = FALSE
    /\ watchError = "none"
    /\ recent = FALSE
    /\ pc = "idle"
    /\ copying = {}
    /\ opened = NoFile
    /\ header = Absent
    /\ archive = NoFiles
    /\ lost = {}
    /\ edits = 0
    /\ faults = 0

\* One more failure of something the program does not control.
Fault ==
    /\ faults < MaxFaults
    /\ faults' = faults + 1

\* The main loop keeps changeLock during PushLocal and, since it returns
\* without unlocking, for ever after it has returned.
LockFree == pc = "idle"

----------------------------------------------------------------------------
(* The developer's edits, and the fsnotify events they raise *)

Edit ==
    /\ pc \notin {"returned", "exited"}
    /\ edits < MaxEdits
    /\ edits' = edits + 1
    /\ UNCHANGED <<goroutine, shared, push, pc, lost, faults>>

Write(f, c) ==
    /\ local[f] # c
    /\ local' = [local EXCEPT ![f] = c]
    /\ events' = Append(events, [op |-> "update", name |-> f])
    /\ Edit

Delete(f) ==
    /\ local[f] # Absent
    /\ local' = [local EXCEPT ![f] = Absent]
    /\ events' = Append(events, [op |-> "remove", name |-> f])
    /\ Edit

Rename(f, g) ==
    /\ f # g
    /\ local[f] # Absent
    /\ local' = [local EXCEPT ![f] = Absent, ![g] = local[f]]
    /\ events' = Append(Append(events, [op |-> "rename", name |-> f]),
                        [op |-> "update", name |-> g])
    /\ Edit

Developer ==
    \/ \E f \in Files, c \in Contents : Write(f, c)
    \/ \E f \in Files : Delete(f)
    \/ \E f, g \in Files : Rename(f, g)

\* The caller of WatchAndPush asks it to stop; the send blocks until received.
RequestStop ==
    /\ pc \notin {"returned", "exited"}
    /\ stop = "no"
    /\ stop' = "sent"
    /\ UNCHANGED <<source, hand, shared, push, pc, lost, faults>>

----------------------------------------------------------------------------
(* The event goroutine: select, then lock, handle, unlock *)

ReceiveEvent ==
    /\ hand = "none" /\ pc # "exited"
    /\ events # <<>>
    /\ hand' = "event"
    /\ UNCHANGED <<source, stop, shared, push, pc, lost, faults>>

ReceiveStop ==
    /\ hand = "none" /\ pc # "exited"
    /\ stop = "sent"
    /\ hand' = "stop"
    /\ stop' = "taken"
    /\ UNCHANGED <<source, shared, push, pc, lost, faults>>

ReceiveError ==
    /\ hand = "none" /\ pc # "exited"
    /\ Fault
    /\ hand' = "error"
    /\ UNCHANGED <<source, stop, shared, push, pc, lost>>

HandleStop ==
    /\ hand = "stop" /\ LockFree
    /\ watchError' = "exit"
    /\ hand' = "none"
    /\ UNCHANGED <<source, stop, changedFiles, deletedPaths, dirty, recent,
                   push, pc, lost, faults>>

HandleError ==
    /\ hand = "error" /\ LockFree
    /\ watchError' = "error"
    /\ hand' = "none"
    /\ UNCHANGED <<source, stop, changedFiles, deletedPaths, dirty, recent,
                   push, pc, lost, faults>>

\* What every file event does: lastChange and dirty are set even when the
\* event is ignored.
EventHandled ==
    /\ dirty' = TRUE
    /\ recent' = TRUE
    /\ hand' = "none"
    /\ events' = Tail(events)
    /\ UNCHANGED <<local, edits, stop, push, pc>>

\* Mutant: a file already in deletedPaths is not recorded again.
HandleUpdate_SkipsDeleted ==
    LET f == Head(events).name IN
    /\ hand = "event" /\ LockFree
    /\ Head(events).op = "update"
    /\ changedFiles' = IF f \in Ignored \union deletedPaths \/ local[f] = Absent
                       THEN changedFiles ELSE changedFiles \union {f}
    /\ UNCHANGED <<watchError, faults>>
    /\ EventHandled
    /\ UNCHANGED <<deletedPaths, lost>>

\* Create, Write, Chmod: the file is recorded unless Lstat no longer finds it.
\* addRecursiveWatch can fail on it, which ends the watch.  IsGlobExpMatch cannot:
\* whether a pattern compiles does not depend on the path, and a list that does
\* not compile left addRecursiveWatch without a watch to raise events.
HandleUpdate ==
    LET f == Head(events).name IN
    /\ hand = "event" /\ LockFree
    /\ Head(events).op = "update"
    /\ changedFiles' = IF f \in Ignored \/ local[f] = Absent
                       THEN changedFiles ELSE changedFiles \union {f}
    /\ \/ UNCHANGED <<watchError, faults>>
       \/ /\ Fault
          /\ watchError' = IF watchError = "none" THEN "error" ELSE watchError
    /\ EventHandled
    /\ UNCHANGED <<deletedPaths, lost>>

\* Mutant: the old path of a rename is not deleted.
HandleRemove_ForgetsRename ==
    LET f == Head(events).name IN
    /\ hand = "event" /\ LockFree
    /\ Head(events).op \in {"remove", "rename"}
    /\ deletedPaths' = IF Head(events).op = "remove" /\ f \notin Ignored
                       THEN deletedPaths \union {f} ELSE deletedPaths
    /\ EventHandled
    /\ UNCHANGED <<changedFiles, watchError, lost, faults>>

\* Mutant: the ignore patterns are not applied to deletions.
HandleRemove_NoIgnores ==
    LET f == Head(events).name IN
    /\ hand = "event" /\ LockFree
    /\ Head(events).op \in {"remove", "rename"}
    /\ deletedPaths' = deletedPaths \union {f}
    /\ EventHandled
    /\ UNCHANGED <<changedFiles, watchError, lost, faults>>

\* Remove, Rename: the path is recorded as deleted unless it is already among
\* the changed files, in which case the deletion is dropped.  A renamed path
\* is recorded among the changed files too.  IsGlobExpMatch has no error to
\* return here, as in HandleUpdate, and filepath.Rel none, since the name of an
\* event is a path that was found by walking from parameters.Path.
HandleRemove ==
    LET f == Head(events).name
        alreadyInChangedFiles == f \in changedFiles
        records == ~alreadyInChangedFiles /\ f \notin Ignored
    IN
    /\ hand = "event" /\ LockFree
    /\ Head(events).op \in {"remove", "rename"}
    /\ changedFiles' = IF records /\ Head(events).op = "rename"
                       THEN changedFiles \union {f} ELSE changedFiles
    /\ deletedPaths' = IF records THEN deletedPaths \union {f} ELSE deletedPaths
    /\ lost' = IF alreadyInChangedFiles /\ f \notin deletedPaths
               THEN lost \union {f} ELSE lost
    /\ EventHandled
    /\ UNCHANGED <<watchError, faults>>

Goroutine ==
    \/ ReceiveEvent \/ ReceiveStop \/ ReceiveError
    \/ HandleStop \/ HandleError \/ HandleUpdate \/ HandleRemove

----------------------------------------------------------------------------
(* The main loop.  One tick: lock, decide, unlock or go on to PushLocal *)

\* `delay` has passed since lastChange.
QuietPeriod ==
    /\ recent
    /\ recent' = FALSE
    /\ UNCHANGED <<source, goroutine, changedFiles, deletedPaths, dirty,
                   watchError, push, pc, lost, faults>>

\* Mutant: the loop pushes what is dirty before it looks at watchError.
TickReturn_DirtyFirst ==
    /\ LockFree
    /\ watchError # "none" /\ ~dirty
    /\ pc' = "returned"
    /\ UNCHANGED <<source, goroutine, shared, push, lost, faults>>

TickReturn ==
    /\ LockFree
    /\ watchError # "none"
    /\ pc' = "returned"
    /\ UNCHANGED <<source, goroutine, shared, push, lost, faults>>

\* Mutant: only changed files trigger a push.
TickPush_IgnoresDeletes ==
    /\ LockFree
    /\ watchError = "none"
    /\ dirty /\ ~recent
    /\ changedFiles # {}
    /\ pc' = "push"
    /\ UNCHANGED <<source, goroutine, shared, push, lost, faults>>

\* os.Stat of the watched path can fail: WatchAndPush returns.  Otherwise the path
\* is a directory, and what is pushed is what the lists hold.
TickPush ==
    /\ LockFree
    /\ watchError = "none"
    /\ dirty /\ ~recent
    /\ changedFiles # {} \/ deletedPaths # {}
    /\ \/ pc' = "push" /\ UNCHANGED faults
       \/ pc' = "returned" /\ Fault
    /\ UNCHANGED <<source, goroutine, shared, push, lost>>

\* Mutant: the archive in the making is not reset.
EndPush_KeepsArchive ==
    /\ pc' = "idle"
    /\ dirty' = FALSE
    /\ changedFiles' = {}
    /\ deletedPaths' = {}
    /\ UNCHANGED <<source, goroutine, watchError, recent, copying, opened, header,
                   archive>>

\* PushLocal came back, with or without an error: WatchAndPush only logs the
\* error and forgets the batch.
EndPush ==
    /\ pc' = "idle"
    /\ dirty' = FALSE
    /\ changedFiles' = {}
    /\ deletedPaths' = {}
    /\ copying' = {}
    /\ opened' = NoFile
    /\ header' = Absent
    /\ archive' = NoFiles
    /\ UNCHANGED <<source, goroutine, watchError, recent>>

\* PushLocal came back before every file of the batch reached the pod.
AbandonBatch ==
    /\ lost' = lost \union changedFiles \union deletedPaths
    /\ EndPush

\* isEmpty refuses an empty source directory; then the DeploymentConfig is
\* looked up and the pod waited for, each of which can fail.
StartPush ==
    /\ pc = "push"
    /\ \E f \in Files : local[f] # Absent
    /\ pc' = IF deletedPaths # {} THEN "delete" ELSE "copy"
    /\ copying' = changedFiles
    /\ UNCHANGED <<source, goroutine, shared, pod, assembled, opened, header,
                   archive, lost, faults>>

FailPush ==
    /\ pc = "push"
    /\ \/ (\A f \in Files : local[f] = Absent) /\ UNCHANGED faults
       \/ Fault
    /\ AbandonBatch
    /\ UNCHANGED <<pod, assembled>>

Removed(S) == [f \in Files |-> IF f \in S THEN Absent ELSE pod[f]]

PropagateDeletes ==
    /\ pc = "delete"
    /\ pod' = Removed(deletedPaths)
    /\ assembled' = FALSE
    /\ lost' = lost \ deletedPaths
    /\ pc' = IF changedFiles # {} THEN "copy" ELSE "build"
    /\ UNCHANGED <<source, goroutine, shared, copying, opened, header, archive,
                   faults>>

\* rm -rf failed after removing some of the paths.
FailDeletes ==
    /\ pc = "delete"
    /\ Fault
    /\ \E S \in SUBSET deletedPaths : pod' = Removed(S)
    /\ assembled' = FALSE
    /\ AbandonBatch

\* makeTar: a file that no longer exists is skipped without an error, and so
\* is one that an ignore pattern matches.
TarHeader(f) ==
    /\ pc = "copy"
    /\ opened = NoFile
    /\ f \in copying
    /\ copying' = copying \ {f}
    /\ \/ /\ local[f] = Absent \/ f \in Ignored
          /\ UNCHANGED <<opened, header>>
       \/ /\ local[f] # Absent /\ f \notin Ignored
          /\ opened' = f
          /\ header' = local[f]
    /\ UNCHANGED <<source, goroutine, shared, pod, assembled, archive, pc, lost,
                   faults>>

\* recursiveTar reads the file.  Contents of the size in the header are
\* archived whether or not they changed since.
TarFile ==
    /\ pc = "copy"
    /\ opened # NoFile
    /\ local[opened] # Absent
    /\ archive' = [archive EXCEPT ![opened] = local[opened]]
    /\ opened' = NoFile
    /\ header' = Absent
    /\ UNCHANGED <<source, goroutine, shared, pod, assembled, pc, copying, lost,
                   faults>>

\* The pod's tar extracts the archived files, or some of them.
Archived == {f \in Files : archive[f] # Absent}
Extracted(S) == [f \in Files |-> IF f \in S THEN archive[f] ELSE pod[f]]

\* The file vanished or changed its size after its header was written: makeTar
\* fails, and its goroutine ends the process with os.Exit(1).
TarExit ==
    /\ pc = "copy"
    /\ opened # NoFile
    /\ local[opened] # header
    /\ \E S \in SUBSET Archived : pod' = Extracted(S)
    /\ assembled' = FALSE
    /\ pc' = "exited"
    /\ UNCHANGED <<source, goroutine, shared, copying, opened, header, archive,
                   lost, faults>>

CopyFile ==
    /\ pc = "copy"
    /\ copying = {} /\ opened = NoFile
    /\ pod' = Extracted(Archived)
    /\ archive' = NoFiles
    /\ assembled' = FALSE
    /\ lost' = lost \ Archived
    /\ pc' = "build"
    /\ UNCHANGED <<source, goroutine, shared, copying, opened, header, faults>>

\* tar failed in the container after extracting some of the files.  The goroutine
\* of CopyFile is forgotten at once.  In the program it stays blocked on the pipe
\* that nobody reads any more or, when it is just opening a file that goes away,
\* ends the process as TarExit does a moment earlier.
FailCopy ==
    /\ pc = "copy"
    /\ Fault
    /\ \E S \in SUBSET Archived : pod' = Extracted(S)
    /\ assembled' = FALSE
    /\ AbandonBatch

\* assemble-and-restart in the container.
Build ==
    /\ pc = "build"
    /\ \/ assembled' = TRUE /\ UNCHANGED faults
       \/ Fault /\ UNCHANGED assembled
    /\ EndPush
    /\ UNCHANGED <<pod, lost>>

PushLocal ==
    \/ StartPush \/ FailPush \/ PropagateDeletes \/ FailDeletes
    \/ \E f \in Files : TarHeader(f)
    \/ TarFile \/ TarExit \/ CopyFile \/ FailCopy \/ Build

MainLoop == QuietPeriod \/ TickReturn \/ TickPush \/ PushLocal

Next == Developer \/ RequestStop \/ Goroutine \/ MainLoop

\* The Go scheduler runs both goroutines, time passes and the ticker ticks; an
\* exec in the pod and the wait for the pod end, if only by their timeout.
\* Nothing obliges the developer or the caller to act, or a fault to happen.
Fairness ==
    /\ WF_vars(ReceiveEvent \/ ReceiveStop)
    /\ WF_vars(HandleStop \/ HandleError \/ HandleUpdate \/ HandleRemove)
    /\ WF_vars(QuietPeriod)
    /\ WF_vars(TickReturn \/ TickPush)
    /\ WF_vars(PushLocal)

Spec == Init /\ [][Next]_vars
FairSpec == Spec /\ Fairness

----------------------------------------------------------------------------
(* Properties *)

\* What the pod holds for f once the archive in the making is extracted.
PodOf(f) == IF archive[f] # Absent THEN archive[f] ELSE pod[f]

QueuedIn(q, f) == \E i \in 1..Len(q) : q[i].name = f
Queued(f) == QueuedIn(events, f)

\* Files the current or the next push will still copy, or delete.
ToCopy == CASE pc = "copy" -> copying \union ({opened} \ {NoFile})
            [] pc = "build" -> {}
            [] OTHER -> changedFiles
ToDelete == IF pc \in {"copy", "build"} THEN {} ELSE deletedPaths

\* No change is lost without a trace: a file of the pod that differs from the
\* source tree has an event that is not handled yet, is in the batch of
\* WatchAndPush, or was dropped by one of the two places that drop changes
\* (the failed push and the deletion of a file already in changedFiles).
NothingSilentlyLost ==
    pc # "exited" =>
        \A f \in Files \ Ignored :
            local[f] # PodOf(f) =>
                f \in lost \union ToCopy \union ToDelete \/ Queued(f)

\* When everything has been handled and nothing was dropped, the pod holds
\* exactly the source tree, the ignored files excepted; and runs it, unless
\* assemble-and-restart failed.
SyncedWhenQuiet ==
    (pc = "idle" /\ events = <<>> /\ ~dirty /\ lost = {}) =>
        /\ \A f \in Files \ Ignored : pod[f] = local[f]
        /\ faults = 0 => assembled

\* The watch neither overwrites nor removes what the pod has at an ignored
\* path, although events for ignored files arrive and their directory is
\* tarred.
IgnoredUntouched == [][\A f \in Ignored : pod'[f] = pod[f]]_pod

\* Every change is pushed in the end, or dropped by one of the two known places,
\* or the watch ends: neither the debounce nor the shared lock starves it.
ChangesReachPod ==
    \A f \in Files \ Ignored :
        (local[f] # pod[f]) ~>
            (local[f] = pod[f] \/ f \in lost \/ pc \in {"returned", "exited"})

\* A stop request on ExtChan ends WatchAndPush, even one that arrives during
\* a push, when its receiver has to wait for changeLock.
StopHonoured == (stop = "sent") ~> (pc \in {"returned", "exited"})

\* "We don't want to break watch when push failed": no failure of a push ends
\* the process.
PushNeverExits == pc # "exited"

\* "delete old path in case of rename": when everything has been handled
\* without any fault, and the tree was not left empty, the pod has no file that
\* the source tree has not.
NoStaleFiles ==
    (/\ pc = "idle" /\ events = <<>> /\ ~dirty /\ faults = 0
     /\ \E f \in Files : local[f] # Absent) =>
        \A f \in Files \ Ignored : local[f] = Absent => pod[f] = Absent

----------------------------------------------------------------------------
(* The inductive invariant behind the safety properties *)

\* The last event queued for a path tells whether the path exists now: handling
\* the queue in order ends in the right list.
LastEventTells(q, tree) ==
    \A i \in 1..Len(q) :
        (\A j \in (i+1)..Len(q) : q[j].name # q[i].name) =>
            (q[i].op = "update" <=> tree[q[i].name] # Absent)

QueueInv ==
    /\ LastEventTells(events, local)
    /\ hand = "event" => events # <<>>

\* The lists and the archive in the phases of a push.
PhaseInv ==
    /\ changedFiles # {} \/ deletedPaths # {} => dirty
    /\ pc \notin {"delete", "copy", "exited"} => copying = {}
    /\ pc = "delete" => copying = changedFiles
    /\ pc \notin {"copy", "exited"} => opened = NoFile /\ archive = NoFiles
    /\ opened \notin Ignored
    /\ Archived \subseteq changedFiles
    /\ Archived \cap Ignored = {}
    /\ deletedPaths \cap Ignored = {}
    /\ ~assembled => faults # 0 \/ pc \in {"copy", "build", "exited"}

\* A file that exists and differs from the pod's is still to be copied; one
\* that is gone is still to be deleted; one both deleted and present is copied
\* after it is deleted; one that changed after it was archived is queued.
CoverInv ==
    pc # "exited" =>
        \A f \in Files \ Ignored :
            /\ local[f] # Absent /\ local[f] # PodOf(f)
                  => Queued(f) \/ f \in lost \/ f \in ToCopy
            /\ local[f] = Absent /\ PodOf(f) # Absent
                  => Queued(f) \/ f \in lost \/ f \in ToDelete
            /\ local[f] # Absent /\ f \in ToDelete
                  => Queued(f) \/ f \in changedFiles
            /\ archive[f] # Absent /\ local[f] # archive[f] => Queued(f)

IInv == TypeOK /\ QueueInv /\ PhaseInv /\ CoverInv

============================================================================
