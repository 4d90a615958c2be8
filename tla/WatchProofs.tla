---------------------------- MODULE WatchProofs ----------------------------
(***************************************************************************)
(* Proofs about Watch, for every set of files, every ignore pattern and    *)
(* every number of edits and faults.                                       *)
(***************************************************************************)
EXTENDS Watch, TLAPS

----------------------------------------------------------------------------
(* The queue of events *)

\* Appending an event queues exactly its path.
LEMMA AppendQueued ==
    ASSUME NEW q \in Seq(Event), NEW e \in Event, NEW f
    PROVE  QueuedIn(Append(q, e), f) <=> (QueuedIn(q, f) \/ e.name = f)
<1>1. /\ Len(Append(q, e)) = Len(q) + 1
      /\ Len(q) \in Nat
      /\ \A i \in 1..Len(q) : Append(q, e)[i] = q[i]
      /\ Append(q, e)[Len(q) + 1] = e
  OBVIOUS
<1>2. QED  BY <1>1 DEF QueuedIn

\* Removing the first event leaves the other paths queued.
LEMMA TailQueued ==
    ASSUME NEW q \in Seq(Event), q # <<>>, NEW f
    PROVE  QueuedIn(q, f) <=> (Head(q).name = f \/ QueuedIn(Tail(q), f))
<1>1. /\ Len(q) \in Nat \ {0}
      /\ Len(Tail(q)) = Len(q) - 1
      /\ \A i \in 1..(Len(q) - 1) : Tail(q)[i] = q[i + 1]
      /\ Head(q) = q[1]
  OBVIOUS
<1>2. ASSUME QueuedIn(q, f), Head(q).name # f
      PROVE  QueuedIn(Tail(q), f)
  <2>1. PICK i \in 1..Len(q) : q[i].name = f  BY <1>2 DEF QueuedIn
  <2>2. i # 1  BY <1>1, <1>2, <2>1
  <2>3. i - 1 \in 1..(Len(q) - 1) /\ Tail(q)[i - 1] = q[i]  BY <1>1, <2>2
  <2>4. QED  BY <1>1, <2>1, <2>3 DEF QueuedIn
<1>3. ASSUME QueuedIn(Tail(q), f)
      PROVE  QueuedIn(q, f)
  <2>1. PICK i \in 1..(Len(q) - 1) : Tail(q)[i].name = f
    BY <1>1, <1>3 DEF QueuedIn
  <2>2. i + 1 \in 1..Len(q) /\ q[i + 1].name = f  BY <1>1, <2>1
  <2>3. QED  BY <2>2 DEF QueuedIn
<1>4. Head(q).name = f => QueuedIn(q, f)  BY <1>1 DEF QueuedIn
<1>5. QED  BY <1>2, <1>3, <1>4

\* An event that tells the new state of its path keeps the queue truthful.
LEMMA AppendTells ==
    ASSUME NEW q \in Seq(Event), NEW tree \in [Files -> FileState],
           LastEventTells(q, tree),
           NEW e \in Event, NEW x \in FileState,
           e.op = "update" <=> x # Absent
    PROVE  LastEventTells(Append(q, e), [tree EXCEPT ![e.name] = x])
<1> DEFINE a == Append(q, e)
           t == [tree EXCEPT ![e.name] = x]
<1>1. /\ Len(a) = Len(q) + 1
      /\ Len(q) \in Nat
      /\ \A i \in 1..Len(q) : a[i] = q[i]
      /\ a[Len(q) + 1] = e
  OBVIOUS
<1>2. e.name \in Files  BY DEF Event
<1>3. SUFFICES ASSUME NEW i \in 1..Len(a),
                      \A j \in (i+1)..Len(a) : a[j].name # a[i].name
               PROVE  a[i].op = "update" <=> t[a[i].name] # Absent
  BY DEF LastEventTells
<1>4. CASE i = Len(q) + 1  BY <1>1, <1>2, <1>4
<1>5. CASE i # Len(q) + 1
  <2>1. i \in 1..Len(q)  BY <1>1, <1>5
  <2>2. e.name # q[i].name  BY <1>1, <1>3, <2>1
  <2>3. t[a[i].name] = tree[q[i].name]  BY <1>1, <2>1, <2>2
  <2>4. \A j \in (i+1)..Len(q) : q[j].name # q[i].name
    BY <1>1, <1>3, <2>1
  <2>5. q[i].op = "update" <=> tree[q[i].name] # Absent
    BY <2>1, <2>4 DEF LastEventTells
  <2>6. QED  BY <1>1, <2>1, <2>3, <2>5
<1>6. QED  BY <1>4, <1>5

\* Handling the first event keeps the rest of the queue truthful.
LEMMA TailTells ==
    ASSUME NEW q \in Seq(Event), q # <<>>, NEW tree, LastEventTells(q, tree)
    PROVE  LastEventTells(Tail(q), tree)
<1> DEFINE t == Tail(q)
<1>1. /\ Len(q) \in Nat \ {0}
      /\ Len(t) = Len(q) - 1
      /\ \A i \in 1..(Len(q) - 1) : t[i] = q[i + 1]
  OBVIOUS
<1>2. SUFFICES ASSUME NEW i \in 1..Len(t),
                      \A j \in (i+1)..Len(t) : t[j].name # t[i].name
               PROVE  t[i].op = "update" <=> tree[t[i].name] # Absent
  BY DEF LastEventTells
<1>3. i + 1 \in 1..Len(q) /\ t[i] = q[i + 1]  BY <1>1
<1>4. ASSUME NEW j \in (i+2)..Len(q)
      PROVE  q[j].name # q[i + 1].name
  <2>1. j - 1 \in (i+1)..Len(t) /\ t[j - 1] = q[j]  BY <1>1
  <2>2. QED  BY <1>2, <1>3, <2>1
<1>5. \A j \in ((i+1)+1)..Len(q) : q[j].name # q[i + 1].name  BY <1>1, <1>4
<1>6. QED  BY <1>3, <1>5 DEF LastEventTells

\* If the first event is the last one queued for its path, it tells the truth.
LEMMA HeadTells ==
    ASSUME NEW q \in Seq(Event), q # <<>>, NEW tree, LastEventTells(q, tree),
           ~QueuedIn(Tail(q), Head(q).name)
    PROVE  Head(q).op = "update" <=> tree[Head(q).name] # Absent
<1>1. /\ Len(q) \in Nat \ {0}
      /\ Len(Tail(q)) = Len(q) - 1
      /\ \A i \in 1..(Len(q) - 1) : Tail(q)[i] = q[i + 1]
      /\ Head(q) = q[1]
  OBVIOUS
<1>2. ASSUME NEW j \in 2..Len(q)
      PROVE  q[j].name # q[1].name
  <2>1. j - 1 \in 1..Len(Tail(q)) /\ Tail(q)[j - 1] = q[j]  BY <1>1
  <2>2. QED  BY <1>1, <2>1 DEF QueuedIn
<1>3. \A j \in (1+1)..Len(q) : q[j].name # q[1].name  BY <1>2
<1>4. 1 \in 1..Len(q)  BY <1>1
<1>5. QED  BY <1>1, <1>3, <1>4 DEF LastEventTells

----------------------------------------------------------------------------
(* Types *)

\* The event in hand is an event.
LEMMA HeadType ==
    ASSUME TypeOK, QueueInv, hand = "event"
    PROVE  /\ events # <<>>
           /\ Head(events) \in Event
           /\ Head(events).name \in Files
           /\ Tail(events) \in Seq(Event)
<1>1. events \in Seq(Event) /\ events # <<>>  BY DEF TypeOK, QueueInv
<1>2. Head(events) \in Event /\ Tail(events) \in Seq(Event)  BY <1>1
<1>3. QED  BY <1>1, <1>2 DEF Event

\* The end of a push leaves the types right.
LEMMA EndPushType ==
    ASSUME TypeOK, EndPush,
           pod' \in [Files -> FileState], assembled' \in BOOLEAN,
           lost' \in SUBSET Files, faults' \in 0..MaxFaults
    PROVE  TypeOK'
<1> USE DEF source, goroutine
<1>1. dirty' \in BOOLEAN  BY Zenon DEF EndPush
<1>2. header' \in FileState /\ archive' \in [Files -> FileState]
  BY DEF EndPush, FileState, NoFiles
<1>3. /\ changedFiles' \in SUBSET Files /\ deletedPaths' \in SUBSET Files
      /\ copying' \in SUBSET changedFiles'
      /\ opened' \in changedFiles' \union {NoFile}
  BY DEF EndPush
<1>4. QED  BY <1>1, <1>2, <1>3 DEF EndPush, TypeOK

\* Removing or extracting files leaves a source tree.
LEMMA PodType ==
    ASSUME TypeOK, NEW S
    PROVE  /\ Removed(S) \in [Files -> FileState]
           /\ Extracted(S) \in [Files -> FileState]
BY DEF TypeOK, Removed, Extracted, FileState

\* Every step keeps the types.
LEMMA TypeStep ==
    ASSUME TypeOK, QueueInv, [Next]_vars
    PROVE  TypeOK'
<1> USE WatchAssumption DEF FileState, NoFiles, source, goroutine, shared, push
<1>1. ASSUME NEW f \in Files, NEW c \in Contents, Write(f, c) PROVE TypeOK'
  <2>1. [op |-> "update", name |-> f] \in Event  BY DEF Event, Op
  <2>2. events' \in Seq(Event)  BY <1>1, <2>1 DEF Write, TypeOK
  <2>3. QED  BY <1>1, <2>2 DEF Write, Edit, TypeOK
<1>2. ASSUME NEW f \in Files, Delete(f) PROVE TypeOK'
  <2>1. [op |-> "remove", name |-> f] \in Event  BY DEF Event, Op
  <2>2. events' \in Seq(Event)  BY <1>2, <2>1 DEF Delete, TypeOK
  <2>3. QED  BY <1>2, <2>2 DEF Delete, Edit, TypeOK
<1>3. ASSUME NEW f \in Files, NEW g \in Files, Rename(f, g) PROVE TypeOK'
  <2>1. /\ [op |-> "rename", name |-> f] \in Event
        /\ [op |-> "update", name |-> g] \in Event
    BY DEF Event, Op
  <2>2. events' \in Seq(Event)  BY <1>3, <2>1 DEF Rename, TypeOK
  <2>3. QED  BY <1>3, <2>2 DEF Rename, Edit, TypeOK
<1>4. CASE RequestStop  BY <1>4 DEF RequestStop, TypeOK
<1>5. CASE ReceiveEvent \/ ReceiveStop
  BY <1>5 DEF ReceiveEvent, ReceiveStop, TypeOK
<1>6. CASE ReceiveError  BY <1>6 DEF ReceiveError, Fault, TypeOK
<1>7. CASE HandleStop \/ HandleError
  BY <1>7 DEF HandleStop, HandleError, TypeOK
<1>8. CASE HandleUpdate
  <2>1. Head(events).name \in Files /\ events' \in Seq(Event)
    BY <1>8, HeadType DEF HandleUpdate, EventHandled
  <2>2. changedFiles' \in SUBSET Files /\ changedFiles \subseteq changedFiles'
    BY <1>8, <2>1 DEF HandleUpdate, TypeOK
  <2>3. faults' \in 0..MaxFaults /\ watchError' \in {"none", "exit", "error"}
    BY <1>8 DEF HandleUpdate, Fault, TypeOK
  <2>4. QED  BY <1>8, <2>1, <2>2, <2>3 DEF HandleUpdate, EventHandled, TypeOK
<1>9. CASE HandleRemove
  <2>1. Head(events).name \in Files /\ events' \in Seq(Event)
    BY <1>9, HeadType DEF HandleRemove, EventHandled
  <2>2. changedFiles' \in SUBSET Files /\ changedFiles \subseteq changedFiles'
    BY <1>9, <2>1 DEF HandleRemove, TypeOK
  <2>3. deletedPaths' \in SUBSET Files /\ lost' \in SUBSET Files
    BY <1>9, <2>1 DEF HandleRemove, TypeOK
  <2>4. QED  BY <1>9, <2>1, <2>2, <2>3 DEF HandleRemove, EventHandled, TypeOK
<1>10. CASE QuietPeriod
  <2>1. recent' \in BOOLEAN  BY <1>10, Zenon DEF QuietPeriod
  <2>2. QED  BY <1>10, <2>1 DEF QuietPeriod, TypeOK
<1>10a. CASE TickReturn  BY <1>10a DEF TickReturn, TypeOK
<1>11. CASE TickPush  BY <1>11 DEF TickPush, Fault, TypeOK
<1>12. CASE StartPush  BY <1>12 DEF StartPush, TypeOK
<1>13. CASE FailPush
  <2>1. lost' \in SUBSET Files  BY <1>13 DEF FailPush, AbandonBatch, TypeOK
  <2>2. faults' \in 0..MaxFaults  BY <1>13 DEF FailPush, Fault, TypeOK
  <2>3. pod' \in [Files -> FileState] /\ assembled' \in BOOLEAN
    BY <1>13 DEF FailPush, TypeOK
  <2>4. QED  BY <1>13, <2>1, <2>2, <2>3, EndPushType DEF FailPush, AbandonBatch
<1>14. CASE PropagateDeletes
  BY <1>14 DEF PropagateDeletes, Removed, TypeOK
<1>15. CASE FailDeletes
  <2>1. lost' \in SUBSET Files  BY <1>15 DEF FailDeletes, AbandonBatch, TypeOK
  <2>2. faults' \in 0..MaxFaults  BY <1>15 DEF FailDeletes, Fault, TypeOK
  <2>3. pod' \in [Files -> FileState]  BY <1>15, PodType DEF FailDeletes
  <2>4. assembled' \in BOOLEAN  BY <1>15, Zenon DEF FailDeletes
  <2>5. QED  BY <1>15, <2>1, <2>2, <2>3, <2>4, EndPushType
             DEF FailDeletes, AbandonBatch
<1>16. ASSUME NEW f \in Files, TarHeader(f) PROVE TypeOK'
  BY <1>16 DEF TarHeader, TypeOK
<1>17. CASE TarFile  BY <1>17 DEF TarFile, TypeOK
<1>18. CASE TarExit  BY <1>18 DEF TarExit, Extracted, TypeOK
<1>19. CASE CopyFile  BY <1>19 DEF CopyFile, Extracted, TypeOK
<1>20. CASE FailCopy
  <2>1. lost' \in SUBSET Files  BY <1>20 DEF FailCopy, AbandonBatch, TypeOK
  <2>2. faults' \in 0..MaxFaults  BY <1>20 DEF FailCopy, Fault, TypeOK
  <2>3. pod' \in [Files -> FileState]  BY <1>20, PodType DEF FailCopy
  <2>4. assembled' \in BOOLEAN  BY <1>20, Zenon DEF FailCopy
  <2>5. QED  BY <1>20, <2>1, <2>2, <2>3, <2>4, EndPushType
             DEF FailCopy, AbandonBatch
<1>21. CASE Build
  <2>1. lost' \in SUBSET Files /\ pod' \in [Files -> FileState]
    BY <1>21 DEF Build, TypeOK
  <2>2. faults' \in 0..MaxFaults  BY <1>21 DEF Build, Fault, TypeOK
  <2>3. assembled \in BOOLEAN  BY DEF TypeOK
  <2>4. assembled' \in BOOLEAN  BY <1>21, <2>3, Zenon DEF Build
  <2>5. QED  BY <1>21, <2>1, <2>2, <2>4, EndPushType DEF Build
<1>22. CASE UNCHANGED vars  BY <1>22 DEF vars, TypeOK
<1>23. QED
  BY <1>1, <1>2, <1>3, <1>4, <1>5, <1>6, <1>7, <1>8, <1>9, <1>10, <1>10a, <1>11, <1>12,
     <1>13, <1>14, <1>15, <1>16, <1>17, <1>18, <1>19, <1>20, <1>21, <1>22
  DEF Next, Developer, Goroutine, MainLoop, PushLocal

----------------------------------------------------------------------------
(* The queue stays truthful *)

\* Every step keeps QueueInv: an edit queues the new state of its path, and only
\* the head of the queue is ever handled.
LEMMA QueueStep ==
    ASSUME TypeOK, QueueInv, [Next]_vars
    PROVE  QueueInv'
<1> USE WatchAssumption DEF FileState
<1>0. /\ local \in [Files -> FileState] /\ events \in Seq(Event)
      /\ LastEventTells(events, local)
  BY DEF TypeOK, QueueInv
<1>1. ASSUME NEW f \in Files, NEW c \in Contents, Write(f, c) PROVE QueueInv'
  <2> DEFINE e == [op |-> "update", name |-> f]
  <2>1. e \in Event  BY DEF Event, Op
  <2>2. events' = Append(events, e) /\ local' = [local EXCEPT ![e.name] = c]
    BY <1>1 DEF Write
  <2>3. e.op = "update" <=> c # Absent  OBVIOUS
  <2>4. LastEventTells(Append(events, e), [local EXCEPT ![e.name] = c])
    BY <1>0, <2>1, <2>3, AppendTells
  <2>5. events' # <<>>  BY <1>0, <2>1, <2>2
  <2>6. QED  BY <2>2, <2>4, <2>5 DEF QueueInv
<1>2. ASSUME NEW f \in Files, Delete(f) PROVE QueueInv'
  <2> DEFINE e == [op |-> "remove", name |-> f]
  <2>1. e \in Event  BY DEF Event, Op
  <2>2. events' = Append(events, e) /\ local' = [local EXCEPT ![e.name] = Absent]
    BY <1>2 DEF Delete
  <2>3. e.op = "update" <=> Absent # Absent  OBVIOUS
  <2>4. LastEventTells(Append(events, e), [local EXCEPT ![e.name] = Absent])
    BY <1>0, <2>1, <2>3, AppendTells
  <2>5. events' # <<>>  BY <1>0, <2>1, <2>2
  <2>6. QED  BY <2>2, <2>4, <2>5 DEF QueueInv
<1>3. ASSUME NEW f \in Files, NEW g \in Files, Rename(f, g) PROVE QueueInv'
  <2> DEFINE d == [op |-> "rename", name |-> f]
             e == [op |-> "update", name |-> g]
             l == [local EXCEPT ![d.name] = Absent]
             q == Append(events, d)
  <2>1. d \in Event /\ e \in Event  BY DEF Event, Op
  <2>2. q \in Seq(Event) /\ l \in [Files -> FileState]  BY <1>0, <2>1
  <2>3. LastEventTells(q, l)
    <3>1. d.op = "update" <=> Absent # Absent  OBVIOUS
    <3>2. QED  BY <1>0, <2>1, <3>1, AppendTells
  <2>4. local[f] \in FileState /\ local[f] # Absent  BY <1>0, <1>3 DEF Rename
  <2>5. LastEventTells(Append(q, e), [l EXCEPT ![e.name] = local[f]])
    <3>1. e.op = "update" <=> local[f] # Absent  BY <2>4
    <3> HIDE DEF q, l, e
    <3>2. QED  BY <2>1, <2>2, <2>3, <2>4, <3>1, AppendTells
  <2>6. events' = Append(q, e) /\ local' = [l EXCEPT ![e.name] = local[f]]
    BY <1>3 DEF Rename
  <2>7. events' # <<>>
    <3> HIDE DEF q, e
    <3>1. QED  BY <2>1, <2>2, <2>6
  <2>8. QED  BY <2>5, <2>6, <2>7 DEF QueueInv
<1>4. CASE HandleUpdate \/ HandleRemove
  <2>1. events # <<>> /\ events' = Tail(events) /\ local' = local /\ hand' = "none"
    BY <1>4, HeadType DEF HandleUpdate, HandleRemove, EventHandled
  <2>2. LastEventTells(Tail(events), local)  BY <1>0, <2>1, TailTells
  <2>3. QED  BY <2>1, <2>2 DEF QueueInv
<1>5. CASE ReceiveEvent \/ ReceiveStop \/ ReceiveError \/ HandleStop \/ HandleError
  BY <1>5 DEF ReceiveEvent, ReceiveStop, ReceiveError, HandleStop, HandleError,
              QueueInv, source
<1>6. CASE UNCHANGED <<source, hand>>  BY <1>6 DEF QueueInv, source
<1>7. ASSUME RequestStop \/ MainLoop PROVE UNCHANGED <<source, hand>>
  <2>1. CASE RequestStop  BY <2>1 DEF RequestStop
  <2>2. CASE QuietPeriod \/ TickReturn \/ TickPush
    BY <2>2 DEF QuietPeriod, TickReturn, TickPush, goroutine
  <2>3. CASE PushLocal
    BY <2>3 DEF PushLocal, StartPush, FailPush, PropagateDeletes, FailDeletes,
                TarHeader, TarFile, TarExit, CopyFile, FailCopy, Build,
                AbandonBatch, EndPush, goroutine
  <2>4. QED  BY <1>7, <2>1, <2>2, <2>3 DEF MainLoop
<1>8. CASE UNCHANGED vars  BY <1>8, <1>6 DEF vars, goroutine
<1>9. QED
  BY <1>1, <1>2, <1>3, <1>4, <1>5, <1>6, <1>7, <1>8
  DEF Next, Developer, Goroutine

----------------------------------------------------------------------------
(* The phases of a push *)

\* Every step keeps PhaseInv.
LEMMA PhaseStep ==
    ASSUME TypeOK, QueueInv, PhaseInv, [Next]_vars
    PROVE  PhaseInv'
<1> USE WatchAssumption DEF Archived, NoFiles
<1>1. CASE Developer \/ RequestStop
  BY <1>1 DEF Developer, Write, Delete, Rename, Edit, RequestStop, shared, push,
              PhaseInv
<1>2. CASE ReceiveEvent \/ ReceiveStop \/ HandleStop \/ HandleError
  BY <1>2 DEF ReceiveEvent, ReceiveStop, HandleStop, HandleError, shared, push,
              PhaseInv
<1>3. CASE ReceiveError
  BY <1>3 DEF ReceiveError, Fault, shared, push, PhaseInv, TypeOK
<1>4. CASE HandleUpdate
  BY <1>4 DEF HandleUpdate, EventHandled, Fault, LockFree, push, PhaseInv, TypeOK
<1>5. CASE HandleRemove
  BY <1>5 DEF HandleRemove, EventHandled, LockFree, push, PhaseInv, TypeOK
<1>6. CASE QuietPeriod \/ TickReturn
  BY <1>6 DEF QuietPeriod, TickReturn, LockFree, shared, push, PhaseInv
<1>7. CASE TickPush
  BY <1>7 DEF TickPush, Fault, LockFree, shared, push, PhaseInv, TypeOK
<1>8. CASE StartPush  BY <1>8 DEF StartPush, shared, PhaseInv, TypeOK
<1>9. CASE FailPush
  BY <1>9 DEF FailPush, AbandonBatch, EndPush, Fault, PhaseInv, TypeOK
<1>10. CASE PropagateDeletes
  BY <1>10 DEF PropagateDeletes, shared, PhaseInv, TypeOK
<1>11. CASE FailDeletes
  BY <1>11 DEF FailDeletes, AbandonBatch, EndPush, Fault, PhaseInv, TypeOK
<1>12. ASSUME NEW f \in Files, TarHeader(f) PROVE PhaseInv'
  BY <1>12 DEF TarHeader, shared, PhaseInv, TypeOK
<1>13. CASE TarFile  BY <1>13 DEF TarFile, shared, PhaseInv, TypeOK
<1>14. CASE TarExit  BY <1>14 DEF TarExit, shared, PhaseInv
<1>15. CASE CopyFile  BY <1>15 DEF CopyFile, shared, PhaseInv, TypeOK
<1>16. CASE FailCopy
  BY <1>16 DEF FailCopy, AbandonBatch, EndPush, Fault, PhaseInv, TypeOK
<1>17. CASE Build
  BY <1>17 DEF Build, EndPush, Fault, PhaseInv, TypeOK
<1>18. CASE UNCHANGED vars  BY <1>18 DEF vars, shared, push, PhaseInv
<1>19. QED
  BY <1>1, <1>2, <1>3, <1>4, <1>5, <1>6, <1>7, <1>8, <1>9, <1>10, <1>11, <1>12,
     <1>13, <1>14, <1>15, <1>16, <1>17, <1>18
  DEF Next, Goroutine, MainLoop, PushLocal

----------------------------------------------------------------------------
(* Every difference between the source tree and the pod stays accounted for *)

\* CoverInv for one file, with the sets it speaks of as parameters.
Covered(f, tree, copy, queued, drop, toCopy, toDelete, changed, arch) ==
    /\ tree # Absent /\ tree # copy => queued \/ f \in drop \/ f \in toCopy
    /\ tree = Absent /\ copy # Absent => queued \/ f \in drop \/ f \in toDelete
    /\ tree # Absent /\ f \in toDelete => queued \/ f \in changed
    /\ arch # Absent /\ tree # arch => queued

\* An edit queues every file it changes and touches nothing else.
LEMMA EditCover ==
    ASSUME TypeOK, QueueInv, PhaseInv, CoverInv, Developer
    PROVE  CoverInv'
<1> USE DEF shared, push, goroutine
<1>0. events \in Seq(Event) /\ local \in [Files -> FileState]  BY DEF TypeOK
<1>1. /\ UNCHANGED <<changedFiles, deletedPaths, pod, archive, copying, opened,
                     pc, lost>>
      /\ pc # "exited"
  BY DEF Developer, Write, Delete, Rename, Edit
<1>2. /\ ToCopy' = ToCopy /\ ToDelete' = ToDelete
      /\ \A f : PodOf(f)' = PodOf(f)
  BY <1>1 DEF ToCopy, ToDelete, PodOf
<1>3. \A f \in Files : Queued(f) => Queued(f)'
  <2>1. ASSUME NEW e \in Event, events' = Append(events, e)
        PROVE  \A h \in Files : Queued(h) => Queued(h)'
    BY <1>0, <2>1, AppendQueued DEF Queued
  <2>2. ASSUME NEW g \in Files, NEW c \in Contents, Write(g, c)
        PROVE  \A f \in Files : Queued(f) => Queued(f)'
    <3>1. [op |-> "update", name |-> g] \in Event  BY DEF Event, Op
    <3>2. QED  BY <2>1, <2>2, <3>1 DEF Write
  <2>3. ASSUME NEW g \in Files, Delete(g)
        PROVE  \A f \in Files : Queued(f) => Queued(f)'
    <3>1. [op |-> "remove", name |-> g] \in Event  BY DEF Event, Op
    <3>2. QED  BY <2>1, <2>3, <3>1 DEF Delete
  <2>4. ASSUME NEW g \in Files, NEW h \in Files, Rename(g, h)
        PROVE  \A f \in Files : Queued(f) => Queued(f)'
    <3> DEFINE d == [op |-> "rename", name |-> g]
               e == [op |-> "update", name |-> h]
               q == Append(events, d)
    <3>1. d \in Event /\ e \in Event  BY DEF Event, Op
    <3>2. q \in Seq(Event)  BY <1>0, <3>1
    <3>3. \A f \in Files : QueuedIn(events, f) => QueuedIn(q, f)
      BY <1>0, <3>1, AppendQueued
    <3>4. events' = Append(q, e)  BY <2>4 DEF Rename
    <3>5. \A f \in Files : QueuedIn(q, f) => QueuedIn(events', f)
      <4> HIDE DEF q, e
      <4>1. QED  BY <3>1, <3>2, <3>4, AppendQueued
    <3>6. QED  BY <3>3, <3>5 DEF Queued
  <2>5. QED  BY <2>2, <2>3, <2>4 DEF Developer
<1>4. \A f \in Files : local'[f] # local[f] => Queued(f)'
  <2>1. ASSUME NEW g \in Files, NEW c \in Contents, Write(g, c)
        PROVE  \A f \in Files : local'[f] # local[f] => Queued(f)'
    <3> DEFINE e == [op |-> "update", name |-> g]
    <3>1. e \in Event /\ e.name = g  BY DEF Event, Op
    <3>2. events' = Append(events, e)  BY <2>1 DEF Write
    <3>3. Queued(g)'
      <4> HIDE DEF e
      <4>1. QED  BY <1>0, <3>1, <3>2, AppendQueued DEF Queued
    <3>4. \A f \in Files : f # g => local'[f] = local[f]
      BY <1>0, <2>1 DEF Write
    <3>5. QED  BY <3>3, <3>4
  <2>2. ASSUME NEW g \in Files, Delete(g)
        PROVE  \A f \in Files : local'[f] # local[f] => Queued(f)'
    <3> DEFINE e == [op |-> "remove", name |-> g]
    <3>1. e \in Event /\ e.name = g  BY DEF Event, Op
    <3>2. events' = Append(events, e)  BY <2>2 DEF Delete
    <3>3. Queued(g)'
      <4> HIDE DEF e
      <4>1. QED  BY <1>0, <3>1, <3>2, AppendQueued DEF Queued
    <3>4. \A f \in Files : f # g => local'[f] = local[f]
      BY <1>0, <2>2 DEF Delete
    <3>5. QED  BY <3>3, <3>4
  <2>3. ASSUME NEW g \in Files, NEW h \in Files, Rename(g, h)
        PROVE  \A f \in Files : local'[f] # local[f] => Queued(f)'
    <3> DEFINE d == [op |-> "rename", name |-> g]
               e == [op |-> "update", name |-> h]
               q == Append(events, d)
    <3>1. d \in Event /\ e \in Event /\ d.name = g /\ e.name = h
      BY DEF Event, Op
    <3>2. q \in Seq(Event)  BY <1>0, <3>1
    <3>3. QueuedIn(q, g)
      <4> HIDE DEF d
      <4>1. QED  BY <1>0, <3>1, AppendQueued
    <3>4. events' = Append(q, e)  BY <2>3 DEF Rename
    <3>5. Queued(g)' /\ Queued(h)'
      <4> HIDE DEF q, e
      <4>1. QED  BY <3>1, <3>2, <3>3, <3>4, AppendQueued DEF Queued
    <3>6. \A f \in Files : f # g /\ f # h => local'[f] = local[f]
      BY <1>0, <2>3 DEF Rename
    <3>7. QED  BY <3>5, <3>6
  <2>4. QED  BY <2>1, <2>2, <2>3 DEF Developer
<1>5. SUFFICES ASSUME NEW f \in Files \ Ignored
               PROVE  Covered(f, local'[f], PodOf(f)', Queued(f)', lost', ToCopy',
                              ToDelete', changedFiles', archive'[f])
  BY DEF CoverInv, Covered
<1>6. CASE Queued(f)'  BY <1>6 DEF Covered
<1>7. CASE ~Queued(f)'
  <2>1. ~Queued(f) /\ local'[f] = local[f]  BY <1>3, <1>4, <1>7
  <2>2. Covered(f, local[f], PodOf(f), Queued(f), lost, ToCopy, ToDelete,
                changedFiles, archive[f])
    BY <1>1 DEF CoverInv, Covered
  <2>3. QED  BY <1>1, <1>2, <1>7, <2>1, <2>2 DEF Covered
<1>8. QED  BY <1>6, <1>7

\* Handling an event moves its path from the queue to the right list, or to
\* lost; if it is not the last event queued for the path, the path stays queued.
LEMMA HandleCover ==
    ASSUME TypeOK, QueueInv, PhaseInv, CoverInv, HandleUpdate \/ HandleRemove
    PROVE  CoverInv'
<1>0. PICK g \in Files : g = Head(events).name
  BY HeadType DEF HandleUpdate, HandleRemove
<1>1. events # <<>> /\ events \in Seq(Event)
  BY HeadType DEF HandleUpdate, HandleRemove, TypeOK
<1>2. /\ UNCHANGED <<local, pod, archive, copying, opened, pc>>
      /\ pc = "idle" /\ events' = Tail(events)
  BY DEF HandleUpdate, HandleRemove, EventHandled, push, LockFree
<1>3. /\ ToCopy = changedFiles /\ ToDelete = deletedPaths
      /\ ToCopy' = changedFiles' /\ ToDelete' = deletedPaths'
      /\ \A f : PodOf(f)' = PodOf(f)
  BY <1>2 DEF ToCopy, ToDelete, PodOf
<1>4. \A f : Queued(f) <=> (g = f \/ Queued(f)')
  BY <1>0, <1>1, <1>2, TailQueued DEF Queued
<1>5. ~Queued(g)' => (Head(events).op = "update" <=> local[g] # Absent)
  BY <1>0, <1>1, <1>2, HeadTells DEF QueueInv, Queued
<1>6. /\ changedFiles \subseteq changedFiles' /\ deletedPaths \subseteq deletedPaths'
      /\ lost \subseteq lost'
      /\ deletedPaths' \subseteq deletedPaths \union {g}
  BY <1>0 DEF HandleUpdate, HandleRemove
<1>7. archive = NoFiles  BY <1>2 DEF PhaseInv
<1>8. SUFFICES ASSUME NEW f \in Files \ Ignored
               PROVE  Covered(f, local'[f], PodOf(f)', Queued(f)', lost', ToCopy',
                              ToDelete', changedFiles', archive'[f])
  BY DEF CoverInv, Covered
<1>9. Covered(f, local[f], PodOf(f), Queued(f), lost, ToCopy, ToDelete,
              changedFiles, archive[f])
  BY <1>2 DEF CoverInv, Covered
<1>10. archive'[f] = Absent  BY <1>2, <1>7 DEF NoFiles
<1>11. CASE Queued(f)'  BY <1>11 DEF Covered
<1>12. CASE ~Queued(f)' /\ f # g
  <2>1. f \in deletedPaths' => f \in deletedPaths  BY <1>6, <1>12
  <2>2. ~Queued(f)  BY <1>4, <1>12
  <2>3. QED  BY <1>2, <1>3, <1>6, <1>9, <1>10, <1>12, <2>1, <2>2 DEF Covered
<1>13. CASE ~Queued(f)' /\ f = g /\ HandleUpdate
  <2>1. local[f] # Absent  BY <1>0, <1>5, <1>13 DEF HandleUpdate
  <2>2. f \in changedFiles'  BY <1>0, <1>8, <1>13, <2>1 DEF HandleUpdate
  <2>3. QED  BY <1>2, <1>3, <1>10, <2>1, <2>2 DEF Covered
<1>14. CASE ~Queued(f)' /\ f = g /\ HandleRemove
  <2>1. local[f] = Absent  BY <1>0, <1>5, <1>14 DEF HandleRemove
  <2>2. f \in deletedPaths' \/ f \in lost'  BY <1>0, <1>8, <1>14 DEF HandleRemove
  <2>3. QED  BY <1>2, <1>3, <1>10, <2>1, <2>2 DEF Covered
<1>15. QED  BY <1>11, <1>12, <1>13, <1>14

\* A push that gives up adds its whole batch to lost; the pod has changed at
\* most in files of the batch.
LEMMA AbandonCover ==
    ASSUME TypeOK, PhaseInv, CoverInv, AbandonBatch, pc # "exited",
           \A f \in Files : f \notin changedFiles \union deletedPaths
                                => pod'[f] = pod[f]
    PROVE  CoverInv'
<1> USE DEF source
<1>1. /\ UNCHANGED <<local, events>>
      /\ lost' = lost \union changedFiles \union deletedPaths
      /\ deletedPaths' = {} /\ pc' = "idle" /\ archive' = NoFiles
  BY DEF AbandonBatch, EndPush
<1>2. \A f \in Files : PodOf(f)' = pod'[f] /\ archive'[f] = Absent
  BY <1>1 DEF PodOf, NoFiles
<1>3. ToDelete' = {} /\ \A f : Queued(f)' = Queued(f)
  BY <1>1 DEF ToDelete, Queued
<1>4. ToCopy \subseteq changedFiles /\ ToDelete \subseteq deletedPaths
  BY DEF ToCopy, ToDelete, TypeOK
<1>5. SUFFICES ASSUME NEW f \in Files \ Ignored
               PROVE  Covered(f, local'[f], PodOf(f)', Queued(f)', lost', ToCopy',
                              ToDelete', changedFiles', archive'[f])
  BY DEF CoverInv, Covered
<1>6. Covered(f, local[f], PodOf(f), Queued(f), lost, ToCopy, ToDelete,
              changedFiles, archive[f])
  BY DEF CoverInv, Covered
<1>7. CASE f \in changedFiles \union deletedPaths
  BY <1>1, <1>2, <1>3, <1>7 DEF Covered
<1>8. CASE f \notin changedFiles \union deletedPaths
  <2>1. PodOf(f) = pod[f] /\ pod'[f] = pod[f]
    BY <1>8 DEF PhaseInv, Archived, PodOf
  <2>2. f \notin ToCopy /\ f \notin ToDelete  BY <1>4, <1>8
  <2>3. QED  BY <1>1, <1>2, <1>3, <1>6, <2>1, <2>2 DEF Covered
<1>9. QED  BY <1>7, <1>8

\* The steps of a push that get on with the batch.
LEMMA PushCover ==
    ASSUME TypeOK, PhaseInv, CoverInv,
           \/ StartPush \/ PropagateDeletes \/ TarFile \/ CopyFile \/ Build
           \/ \E f \in Files : TarHeader(f)
    PROVE  CoverInv'
<1> USE DEF source, shared
<1>1. UNCHANGED <<local, events>> /\ pc # "exited" /\ pc' # "exited"
  BY DEF StartPush, PropagateDeletes, TarHeader, TarFile, CopyFile, Build, EndPush
<1>2. \A f : Queued(f)' = Queued(f)  BY <1>1 DEF Queued
<1>3. SUFFICES ASSUME NEW f \in Files \ Ignored
               PROVE  Covered(f, local'[f], PodOf(f)', Queued(f)', lost', ToCopy',
                              ToDelete', changedFiles', archive'[f])
  BY DEF CoverInv, Covered
<1>4. Covered(f, local[f], PodOf(f), Queued(f), lost, ToCopy, ToDelete,
              changedFiles, archive[f])
  BY <1>1 DEF CoverInv, Covered
<1>5. CASE StartPush
  <2>1. /\ ToCopy = changedFiles /\ ToDelete = deletedPaths
        /\ ToCopy' = changedFiles /\ ToDelete' = deletedPaths
    BY <1>5, WatchAssumption DEF StartPush, ToCopy, ToDelete, PhaseInv
  <2>2. PodOf(f)' = PodOf(f) /\ UNCHANGED <<lost, changedFiles, archive>>
    BY <1>5 DEF StartPush, PodOf
  <2>3. QED  BY <1>1, <1>2, <1>4, <2>1, <2>2 DEF Covered
<1>6. CASE PropagateDeletes
  <2>1. /\ ToCopy = changedFiles /\ ToDelete = deletedPaths
        /\ ToCopy' = changedFiles /\ ToDelete' = {}
    BY <1>6 DEF PropagateDeletes, ToCopy, ToDelete, PhaseInv
  <2>2. /\ archive' = archive /\ archive[f] = Absent /\ changedFiles' = changedFiles
        /\ PodOf(f) = pod[f]
        /\ PodOf(f)' = IF f \in deletedPaths THEN Absent ELSE pod[f]
        /\ lost' = lost \ deletedPaths
    BY <1>6 DEF PropagateDeletes, PhaseInv, NoFiles, PodOf, Removed
  <2>3. QED  BY <1>1, <1>2, <1>4, <2>1, <2>2 DEF Covered
<1>7. ASSUME NEW g \in Files, TarHeader(g)
      PROVE  Covered(f, local'[f], PodOf(f)', Queued(f)', lost', ToCopy',
                     ToDelete', changedFiles', archive'[f])
  <2>1. /\ ToCopy = copying \union ({opened} \ {NoFile}) /\ ToDelete = {}
        /\ ToCopy' = copying' \union ({opened'} \ {NoFile}) /\ ToDelete' = {}
    BY <1>7 DEF TarHeader, ToCopy, ToDelete
  <2>2. PodOf(f)' = PodOf(f) /\ UNCHANGED <<lost, changedFiles, archive>>
    BY <1>7 DEF TarHeader, PodOf
  <2>3. f \in ToCopy /\ local[f] # Absent => f \in ToCopy'
    BY <1>3, <1>7, <2>1, WatchAssumption DEF TarHeader
  <2>4. QED  BY <1>1, <1>2, <1>4, <2>1, <2>2, <2>3 DEF Covered
<1>8. CASE TarFile
  <2>1. /\ ToCopy = copying \union {opened} /\ ToDelete = {}
        /\ ToCopy' = copying /\ ToDelete' = {}
    BY <1>8 DEF TarFile, ToCopy, ToDelete
  <2>2. /\ UNCHANGED <<pod, lost, changedFiles>>
        /\ archive'[f] = IF f = opened THEN local[f] ELSE archive[f]
        /\ local[opened] # Absent
    BY <1>3, <1>8 DEF TarFile, TypeOK
  <2>3. CASE f = opened
    <3>1. PodOf(f)' = local[f]  BY <2>2, <2>3 DEF PodOf
    <3>2. QED  BY <1>1, <1>2, <2>1, <2>2, <2>3, <3>1 DEF Covered
  <2>4. CASE f # opened
    <3>1. PodOf(f)' = PodOf(f)  BY <2>2, <2>4 DEF PodOf
    <3>2. QED  BY <1>1, <1>2, <1>4, <2>1, <2>2, <2>4, <3>1 DEF Covered
  <2>5. QED  BY <2>3, <2>4
<1>9. CASE CopyFile
  <2>1. ToCopy = {} /\ ToDelete = {} /\ ToCopy' = {} /\ ToDelete' = {}
    BY <1>9 DEF CopyFile, ToCopy, ToDelete
  <2>2. /\ PodOf(f)' = PodOf(f) /\ archive'[f] = Absent
        /\ lost' = lost \ Archived
    BY <1>3, <1>9 DEF CopyFile, PodOf, Extracted, Archived, NoFiles
  <2>3. CASE archive[f] = Absent
    <3>1. f \in lost => f \in lost'  BY <2>2, <2>3 DEF Archived
    <3>2. QED  BY <1>1, <1>2, <1>4, <2>1, <2>2, <3>1 DEF Covered
  <2>4. CASE archive[f] # Absent
    <3>1. PodOf(f) = archive[f]  BY <2>4 DEF PodOf
    <3>2. QED  BY <1>1, <1>2, <1>4, <2>1, <2>2, <2>4, <3>1 DEF Covered
  <2>5. QED  BY <2>3, <2>4
<1>10. CASE Build
  <2>1. ToCopy = {} /\ ToDelete = {} /\ ToDelete' = {}
    BY <1>10 DEF Build, EndPush, ToCopy, ToDelete
  <2>2. /\ PodOf(f)' = pod[f] /\ PodOf(f) = pod[f] /\ archive'[f] = Absent
        /\ lost' = lost
    BY <1>10 DEF Build, EndPush, PhaseInv, PodOf, NoFiles
  <2>3. QED  BY <1>1, <1>2, <1>4, <2>1, <2>2 DEF Covered
<1>11. QED  BY <1>5, <1>6, <1>7, <1>8, <1>9, <1>10

\* Every step keeps CoverInv, file by file.
LEMMA CoverStep ==
    ASSUME IInv, [Next]_vars
    PROVE  CoverInv'
<1> USE DEF IInv
<1>1. CASE Developer  BY <1>1, EditCover
<1>2. CASE HandleUpdate \/ HandleRemove  BY <1>2, HandleCover
<1>3. CASE \/ StartPush \/ PropagateDeletes \/ TarFile \/ CopyFile \/ Build
           \/ \E f \in Files : TarHeader(f)
  BY <1>3, PushCover
<1>4. CASE FailPush
  <2>1. pod' = pod /\ pc # "exited" /\ AbandonBatch  BY <1>4 DEF FailPush
  <2>2. QED  BY <2>1, AbandonCover
<1>5. CASE FailDeletes
  <2>1. /\ AbandonBatch /\ pc # "exited"
        /\ \E S \in SUBSET deletedPaths : pod' = Removed(S)
    BY <1>5 DEF FailDeletes
  <2>2. \A f \in Files : f \notin deletedPaths => pod'[f] = pod[f]
    BY <2>1 DEF Removed
  <2>3. QED  BY <2>1, <2>2, AbandonCover
<1>6. CASE FailCopy
  <2>1. /\ AbandonBatch /\ pc # "exited"
        /\ \E S \in SUBSET Archived : pod' = Extracted(S)
    BY <1>6 DEF FailCopy
  <2>2. \A f \in Files : f \notin changedFiles => pod'[f] = pod[f]
    BY <2>1 DEF Extracted, PhaseInv
  <2>3. QED  BY <2>1, <2>2, AbandonCover
<1>7. CASE TarExit  BY <1>7 DEF TarExit, CoverInv
<1>8. ASSUME UNCHANGED <<local, events, changedFiles, deletedPaths, push, lost>>,
             pc' = pc \/ (pc = "idle" /\ pc' \in {"push", "returned"})
      PROVE  CoverInv'
  <2>1. /\ ToCopy' = ToCopy /\ ToDelete' = ToDelete
        /\ \A f : PodOf(f)' = PodOf(f) /\ Queued(f)' = Queued(f)
    BY <1>8 DEF Queued, ToCopy, ToDelete, PodOf, push
  <2>2. pc' # "exited" => pc # "exited"  BY <1>8
  <2>3. QED  BY <1>8, <2>1, <2>2 DEF CoverInv, push
<1>9. CASE \/ RequestStop \/ ReceiveEvent \/ ReceiveStop \/ ReceiveError
           \/ HandleStop \/ HandleError
  BY <1>8, <1>9 DEF RequestStop, ReceiveEvent, ReceiveStop, ReceiveError,
                    HandleStop, HandleError, source, shared
<1>10. CASE QuietPeriod \/ TickReturn \/ TickPush
  BY <1>8, <1>10 DEF QuietPeriod, TickReturn, TickPush, LockFree, source, shared
<1>11. CASE UNCHANGED vars  BY <1>8, <1>11 DEF vars, source, shared
<1>12. QED
  BY <1>1, <1>2, <1>3, <1>4, <1>5, <1>6, <1>7, <1>9, <1>10, <1>11
  DEF Next, Goroutine, MainLoop, PushLocal

----------------------------------------------------------------------------
(* Theorems *)

\* The watch starts with nothing queued, listed or different from the pod.
LEMMA InitInv == Init => IInv
<1> USE WatchAssumption
<1>1. SUFFICES ASSUME Init PROVE IInv  OBVIOUS
<1>2. TypeOK
  <2>1. assembled \in BOOLEAN /\ dirty \in BOOLEAN /\ recent \in BOOLEAN
    BY <1>1, Zenon DEF Init
  <2>2. header \in FileState /\ archive \in [Files -> FileState]
    BY <1>1 DEF Init, FileState, NoFiles
  <2>3. events \in Seq(Event)  BY <1>1 DEF Init
  <2>4. QED  BY <1>1, <2>1, <2>2, <2>3 DEF Init, TypeOK
<1>3. QueueInv  BY <1>1 DEF Init, QueueInv, LastEventTells
<1>4. PhaseInv  BY <1>1 DEF Init, PhaseInv, Archived, NoFiles
<1>5. CoverInv
  <2>1. /\ archive = NoFiles
        /\ \A f \in Files \ Ignored : pod[f] = local[f]
        /\ ToDelete = {}
    BY <1>1 DEF Init, ToDelete
  <2>2. \A f \in Files : PodOf(f) = pod[f] /\ archive[f] = Absent
    BY <2>1 DEF PodOf, NoFiles
  <2>3. QED  BY <2>1, <2>2 DEF CoverInv
<1>6. QED  BY <1>2, <1>3, <1>4, <1>5 DEF IInv

\* The inductive invariant holds in every state of the watch.
THEOREM Inductive == Spec => []IInv
<1>1. IInv /\ [Next]_vars => IInv'
  BY TypeStep, QueueStep, PhaseStep, CoverStep DEF IInv
<1>2. QED  BY InitInv, <1>1, PTL DEF Spec

\* Every variable keeps its type, and makeTar never works on a file outside the
\* batch WatchAndPush handed to PushLocal.
THEOREM TypeCorrect == Spec => []TypeOK
<1>1. IInv => TypeOK  BY DEF IInv
<1>2. QED  BY Inductive, <1>1, PTL

\* No change of the source tree is lost without a trace: whatever differs in
\* the pod is queued, in the batch, or was dropped by a failed push or by the
\* deletion of a file already in changedFiles.
THEOREM NoSilentLoss == Spec => []NothingSilentlyLost
<1>1. IInv => NothingSilentlyLost
  BY DEF IInv, CoverInv, NothingSilentlyLost
<1>2. QED  BY Inductive, <1>1, PTL

\* A watch that is idle with nothing queued, and has dropped nothing, has made
\* the pod equal to the source tree, and restarted it unless a build failed.
THEOREM QuietMeansSynced == Spec => []SyncedWhenQuiet
<1>1. IInv => SyncedWhenQuiet
  <2>1. SUFFICES ASSUME IInv, pc = "idle", events = <<>>, ~dirty, lost = {}
                 PROVE  /\ \A f \in Files \ Ignored : pod[f] = local[f]
                        /\ faults = 0 => assembled
    BY DEF SyncedWhenQuiet
  <2>2. changedFiles = {} /\ deletedPaths = {}  BY <2>1 DEF IInv, PhaseInv
  <2>3. ToCopy = {} /\ ToDelete = {}  BY <2>1, <2>2 DEF ToCopy, ToDelete
  <2>4. \A f : ~Queued(f)  BY <2>1 DEF Queued, QueuedIn
  <2>5. \A f \in Files : PodOf(f) = pod[f]
    BY <2>1 DEF IInv, PhaseInv, PodOf, NoFiles
  <2>6. \A f \in Files \ Ignored : pod[f] = local[f]
    BY <2>1, <2>3, <2>4, <2>5 DEF IInv, CoverInv
  <2>7. faults = 0 => assembled  BY <2>1 DEF IInv, PhaseInv
  <2>8. QED  BY <2>6, <2>7
<1>2. QED  BY Inductive, <1>1, PTL

\* The watch neither overwrites nor removes a file the pod has at an ignored
\* path, whatever happens to the ignored files of the source tree.
THEOREM IgnoredAreSafe == Spec => IgnoredUntouched
<1>1. IInv /\ [Next]_vars => [\A f \in Ignored : pod'[f] = pod[f]]_pod
  <2>1. SUFFICES ASSUME IInv, Next, NEW f \in Ignored, pod' # pod
                 PROVE  pod'[f] = pod[f]
    BY DEF vars, push
  <2>2. f \in Files /\ f \notin deletedPaths /\ f \notin Archived
    BY <2>1, WatchAssumption DEF IInv, PhaseInv
  <2>3. \/ PropagateDeletes \/ FailDeletes \/ TarExit \/ CopyFile \/ FailCopy
    BY <2>1 DEF Next, Developer, Write, Delete, Rename, Edit, RequestStop,
         Goroutine, ReceiveEvent, ReceiveStop, ReceiveError, HandleStop,
         HandleError, HandleUpdate, HandleRemove, EventHandled, MainLoop,
         QuietPeriod, TickReturn, TickPush, PushLocal, StartPush, FailPush,
         TarHeader, TarFile, Build, push
  <2>4. CASE PropagateDeletes \/ FailDeletes
    BY <2>2, <2>4 DEF PropagateDeletes, FailDeletes, Removed
  <2>5. CASE TarExit \/ CopyFile \/ FailCopy
    BY <2>2, <2>5 DEF TarExit, CopyFile, FailCopy, Extracted
  <2>6. QED  BY <2>3, <2>4, <2>5
<1>2. QED  BY Inductive, <1>1, PTL DEF Spec, IgnoredUntouched

============================================================================
