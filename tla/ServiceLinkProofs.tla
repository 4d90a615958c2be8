------------------------- MODULE ServiceLinkProofs -------------------------
(***************************************************************************)
(* Proofs about ServiceLink, for every set of clients, components and      *)
(* services, and every number of commands and failures.                    *)
(***************************************************************************)
EXTENDS ServiceLink, FiniteSetTheorems, SequenceTheorems,
        WellFoundedInduction, TLAPS

----------------------------------------------------------------------------
(* Sequences of links *)

\* A set of numbers that is not empty has a least one.
LEMMA Least ==
    ASSUME NEW S \in SUBSET Nat, S # {}
    PROVE  \E x \in S : \A y \in S : x <= y
<1>. DEFINE R == OpToRel(<, Nat)
<1>1. IsWellFoundedOn(R, Nat)  BY NatLessThanWellFounded
<1>2. \E x \in S : \A y \in S : ~ (<<y, x>> \in R)
  <2>. HIDE DEF R
  <2> QED BY <1>1, WFMin
<1>3. \A x, y \in Nat : <<y, x>> \in R <=> y < x  BY DEF OpToRel
<1>. HIDE DEF R
<1>4. PICK x \in S : \A y \in S : ~ (<<y, x>> \in R)  BY <1>2
<1>5. \A y \in S : x <= y
  <2>1. SUFFICES ASSUME NEW y \in S PROVE x <= y  OBVIOUS
  <2>2. ~(y < x)  BY <1>3, <1>4
  <2>. QED  BY <2>2
<1>. QED  BY <1>5

\* A remove patch shifts the entries behind the one it removes.
LEMMA RemoveAtFacts ==
    ASSUME NEW S, NEW q \in Seq(S), NEW i \in 1..Len(q)
    PROVE  /\ RemoveAt(q, i) \in Seq(S)
           /\ Len(RemoveAt(q, i)) = Len(q) - 1
           /\ \A j \in 1..(Len(q) - 1) :
                 RemoveAt(q, i)[j] = IF j < i THEN q[j] ELSE q[j + 1]
<1>. DEFINE a == SubSeq(q, 1, i - 1)
            b == SubSeq(q, i + 1, Len(q))
<1>1. /\ a \in Seq(S) /\ Len(a) = i - 1
      /\ \A j \in 1..(i - 1) : a[j] = q[j]
  OBVIOUS
<1>2. /\ b \in Seq(S) /\ Len(b) = Len(q) - i
      /\ \A j \in 1..(Len(q) - i) : b[j] = q[j + i]
  OBVIOUS
<1>. HIDE DEF a, b
<1>3. /\ a \o b \in Seq(S)
      /\ Len(a \o b) = Len(q) - 1
  <2>0. a \in Seq(S) /\ b \in Seq(S)  BY <1>1, <1>2
  <2>1. a \o b \in Seq(S) /\ Len(a \o b) = Len(a) + Len(b)
    BY <2>0, ConcatProperties
  <2>3. Len(q) \in Nat  OBVIOUS
  <2>. QED  BY <1>1, <1>2, <2>1, <2>3
<1>4. ASSUME NEW j \in 1..(Len(q) - 1)
      PROVE  (a \o b)[j] = IF j < i THEN q[j] ELSE q[j + 1]
  <2>1. CASE j < i
    <3>1. j \in 1..(i - 1)  BY <2>1
    <3>2. (a \o b)[j] = a[j]  BY <1>1, <1>2, <3>1
    <3>. QED  BY <1>1, <2>1, <3>1, <3>2
  <2>2. CASE ~(j < i)
    <3>1. j - (i - 1) \in 1..(Len(q) - i) /\ (j - (i - 1)) + i = j + 1  BY <2>2
    <3>2. (a \o b)[j] = b[j - (i - 1)]  BY <1>1, <1>2, <3>1
    <3>. QED  BY <1>2, <2>2, <3>1, <3>2
  <2>. QED  BY <2>1, <2>2
<1>. QED  BY <1>3, <1>4 DEF RemoveAt, a, b

\* A list has a number of links to a secret.
LEMMA OccurrencesFacts ==
    ASSUME NEW S, NEW q \in Seq(S), NEW s
    PROVE  Occurrences(s, q) \in Nat
<1>. DEFINE I == {i \in DOMAIN q : q[i] = s}
<1>1. I \in SUBSET (1..Len(q)) /\ Len(q) \in Nat  OBVIOUS
<1>2. IsFiniteSet(1..Len(q))  BY FS_Interval
<1>3. IsFiniteSet(I)  BY <1>1, <1>2, FS_Subset
<1>. QED  BY <1>3, FS_CardinalityType DEF Occurrences

\* The index in a remove patch is one of the secret in the list that was read.
LEMMA FirstIndexFacts ==
    ASSUME NEW S, NEW q \in Seq(S), NEW s, Contains(q, s)
    PROVE  /\ FirstIndex(s, q) \in 1..Len(q)
           /\ q[FirstIndex(s, q)] = s
<1>. DEFINE I == {i \in 1..Len(q) : q[i] = s}
<1>1. I # {} /\ I \in SUBSET Nat  BY DEF Contains
<1>2. \E i \in DOMAIN q : q[i] = s /\ \A j \in DOMAIN q : q[j] = s => i <= j
  <2>1. PICK i \in I : \A j \in I : i <= j  BY <1>1, Least
  <2>. QED  BY <2>1
<1>. QED  BY <1>2 DEF FirstIndex

----------------------------------------------------------------------------
(* Steps that leave the cluster as it is *)

\* The other clients are where they were.
OthersStay(p) ==
    \A q \in Clients \ {p} : /\ pc'[q] = pc[q] /\ cmd'[q] = cmd[q]
                             /\ snap'[q] = snap[q] /\ todo'[q] = todo[q]

\* What a client's own step has to establish.
Local(p) ==
    /\ cmd' \in [Clients -> Command]
    /\ pc' \in [Clients -> Labels]
    /\ snap' \in [Clients -> Seq(Secrets)]
    /\ todo' \in [Clients -> [Components -> Nat]]
    /\ OthersStay(p)
    /\ CommandInv(p)'
    /\ SnapInv(p)'

\* While commands come one after the other, the others are idle.
OthersIdle(p) == alone => \A q \in Clients \ {p} : pc[q] = "idle"

LEMMA BusyAlone ==
    ASSUME IInv, NEW p \in Clients, pc[p] # "idle"
    PROVE  OthersIdle(p)
  BY DEF IInv, AloneInv, At, OthersIdle

\* A client that neither changes the cluster nor comes to own a service.
LEMMA Move ==
    ASSUME IInv, NEW p \in Clients, UNCHANGED cluster, Local(p),
           pc'[p] \notin OwnerLabels,
           started' \in 0..MaxCommands, faults' \in 0..MaxFaults,
           alone' \in BOOLEAN, alone' => alone, OthersIdle(p)'
    PROVE  IInv'
<1>1. TypeOK'  BY DEF IInv, TypeOK, Local, cluster
<1>2. BindingHasInstance'  BY DEF IInv, BindingHasInstance, cluster
<1>3. OwnerInv'
  BY DEF IInv, OwnerInv, Owns, Sec, Local, OthersStay, cluster
<1>4. ASSUME NEW q \in Clients
      PROVE  CommandInv(q)' /\ SnapInv(q)'
  <2>1. CASE q = p  BY <2>1 DEF Local
  <2>2. CASE q # p
    <3>1. pc'[q] = pc[q] /\ cmd'[q] = cmd[q] /\ snap'[q] = snap[q] /\ todo'[q] = todo[q]
      BY <2>2 DEF Local, OthersStay
    <3>2. CommandInv(q)'  BY <3>1 DEF IInv, CommandInv, Op, Sec
    <3>3. SnapInv(q)'  BY <2>2 DEF SnapInv, OthersIdle
    <3>. QED  BY <3>2, <3>3
  <2>. QED  BY <2>1, <2>2
<1>5. AloneInv'  BY DEF AloneInv, OthersIdle, At
<1>6. NoDoubleLink'  BY DEF IInv, NoDoubleLink, LinkedOnce, cluster
<1>. QED  BY <1>1, <1>2, <1>3, <1>4, <1>5, <1>6 DEF IInv

\* Such a step of a command that runs.
LEMMA BusyMove ==
    ASSUME IInv, NEW p \in Clients, pc[p] # "idle", UNCHANGED <<cluster, alone>>,
           Local(p), pc'[p] \notin OwnerLabels,
           started' \in 0..MaxCommands, faults' \in 0..MaxFaults
    PROVE  IInv'
<1>1. OthersIdle(p)  BY BusyAlone
<1>2. OthersIdle(p)'  BY <1>1 DEF OthersIdle, Local, OthersStay
<1>3. alone' \in BOOLEAN /\ (alone' => alone)  BY DEF IInv, TypeOK
<1>. QED  BY <1>2, <1>3, Move

\* A command that ends has nothing left to do.
LEMMA DoneLocal ==
    ASSUME TypeOK, NEW p \in Clients, Done(p), UNCHANGED cmd
    PROVE  Local(p) /\ pc'[p] = "idle"
<1>1. /\ cmd' \in [Clients -> Command]
      /\ pc' \in [Clients -> Labels]
      /\ snap' \in [Clients -> Seq(Secrets)]
      /\ todo' \in [Clients -> [Components -> Nat]]
  BY DEF TypeOK, Done, NothingToDo, Labels
<1>2. OthersStay(p) /\ pc'[p] = "idle"  BY DEF TypeOK, Done, OthersStay
<1>3. CommandInv(p)' /\ SnapInv(p)'  BY <1>2 DEF CommandInv, SnapInv
<1>. QED  BY <1>1, <1>2, <1>3 DEF Local

\* A deletion goes on with a component that has a link left, or ends.
LEMMA NextUnlinkLocal ==
    ASSUME TypeOK, NEW p \in Clients, Op(p) = "delete",
           NEW left \in [Components -> Nat], NextUnlink(p, left)
    PROVE  Local(p) /\ pc'[p] \in {"idle", "get"}
<1>1. CASE \E c \in Components : left[c] > 0
  <2>1. PICK c \in Components :
           /\ left[c] > 0
           /\ cmd' = [cmd EXCEPT ![p].cmp = c]
           /\ todo' = [todo EXCEPT ![p] = left]
           /\ snap' = [snap EXCEPT ![p] = <<>>]
           /\ Goto(p, "get")
    BY <1>1 DEF NextUnlink
  <2>2. cmd[p] \in Command  BY DEF TypeOK
  <2>3. /\ cmd' \in [Clients -> Command]
        /\ cmd'[p].op = "delete" /\ cmd'[p].cmp = c
    BY <2>1, <2>2 DEF TypeOK, Command, Op
  <2>4. /\ pc' \in [Clients -> Labels] /\ pc'[p] = "get"
        /\ snap' \in [Clients -> Seq(Secrets)]
        /\ todo' \in [Clients -> [Components -> Nat]] /\ todo'[p] = left
    BY <2>1 DEF TypeOK, Goto, Labels
  <2>5. OthersStay(p)  BY <2>1 DEF TypeOK, OthersStay, Goto
  <2>6. CommandInv(p)'  BY <2>1, <2>3, <2>4 DEF CommandInv, Op
  <2>7. SnapInv(p)'  BY <2>3, <2>4 DEF SnapInv, Op
  <2>. QED  BY <2>3, <2>4, <2>5, <2>6, <2>7 DEF Local
<1>2. CASE ~\E c \in Components : left[c] > 0
  BY <1>2, DoneLocal DEF NextUnlink
<1>. QED  BY <1>1, <1>2

\* A client that only goes to another label.
LEMMA GotoLocal ==
    ASSUME IInv, NEW p \in Clients, NEW l \in Labels, Goto(p, l),
           UNCHANGED <<cmd, snap, todo>>, CommandInv(p)', SnapInv(p)'
    PROVE  Local(p) /\ pc'[p] = l
  BY DEF IInv, TypeOK, Goto, Local, OthersStay

\* After an error a command ends, waits for the secret, or goes on unlinking.
LEMMA OnErrorLocal ==
    ASSUME IInv, NEW p \in Clients, OnError(p)
    PROVE  Local(p) /\ pc'[p] \notin OwnerLabels
<1>1. TypeOK /\ CommandInv(p)  BY DEF IInv
<1>2. CASE /\ Op(p) = "create" /\ cmd[p].wait
           /\ pc[p] \in {"createInstance", "createBinding"}
           /\ Goto(p, "waitSecret")
           /\ UNCHANGED <<cmd, snap, todo>>
  <2>1. pc'[p] = "waitSecret"  BY <1>1, <1>2 DEF TypeOK, Goto
  <2>2. CommandInv(p)' /\ SnapInv(p)'
    BY <1>2, <2>1 DEF CommandInv, SnapInv, Op
  <2>. QED  BY <1>2, <2>1, <2>2, GotoLocal DEF Labels, OwnerLabels
<1>3. CASE /\ Op(p) = "delete" /\ pc[p] \in {"get", "patch"}
           /\ NextUnlink(p, [todo[p] EXCEPT ![cmd[p].cmp] = @ - 1])
  <2>. DEFINE left == [todo[p] EXCEPT ![cmd[p].cmp] = @ - 1]
  <2>1. todo[p] \in [Components -> Nat] /\ cmd[p].cmp \in Components
    BY <1>1 DEF TypeOK, Command
  <2>2. todo[p][cmd[p].cmp] > 0  BY <1>1, <1>3 DEF CommandInv
  <2>3. left \in [Components -> Nat]  BY <2>1, <2>2
  <2>. QED  BY <1>1, <1>3, <2>3, NextUnlinkLocal DEF OwnerLabels
<1>4. CASE Done(p) /\ UNCHANGED cmd
  BY <1>1, <1>4, DoneLocal DEF OwnerLabels
<1>. QED  BY <1>2, <1>3, <1>4 DEF OnError

----------------------------------------------------------------------------
(* The actions *)

\* A command that starts has done nothing yet.
LEMMA StartKeeps ==
    ASSUME IInv, NEW p \in Clients, Start(p)
    PROVE  IInv'
<1>1. PICK k \in Commands : cmd' = [cmd EXCEPT ![p] = k]  BY DEF Start
<1>2. /\ cmd' \in [Clients -> Command] /\ cmd'[p] = k
      /\ k.op \in {"create", "delete"} => k.sec \in Services
  BY <1>1 DEF IInv, TypeOK, Commands
<1>3. /\ pc' \in [Clients -> Labels] /\ pc'[p] = "exists" /\ OthersStay(p)
  BY <1>1 DEF IInv, TypeOK, Start, Goto, Labels, OthersStay
<1>4. CommandInv(p)' /\ SnapInv(p)'
  BY <1>2, <1>3 DEF CommandInv, SnapInv, Op, Sec
<1>5. Local(p)  BY <1>2, <1>3, <1>4 DEF IInv, TypeOK, Start, Local
<1>6. started' \in 0..MaxCommands /\ faults' \in 0..MaxFaults
  BY ServiceLinkAssumption DEF IInv, TypeOK, Start
<1>7. alone' \in BOOLEAN /\ (alone' => alone) /\ OthersIdle(p)'
  BY <1>3 DEF Start, At, OthersIdle, OthersStay
<1>. QED  BY <1>3, <1>5, <1>6, <1>7, Move DEF Start, OwnerLabels

\* The steps that read and decide: what they decide is where the command goes.
Reads(p) ==
    \/ Exists(p) \/ WaitAndGetSecret(p) \/ ListInstances(p)
    \/ GetServiceBinding(p) \/ GetSecret(p) \/ Linked(p)

\* Calls that only read move their client alone.
LEMMA ReadsKeep ==
    ASSUME IInv, NEW p \in Clients, Reads(p)
    PROVE  IInv'
<1>1. /\ TypeOK /\ CommandInv(p)
      /\ cmd[p] \in Command
  BY DEF IInv, TypeOK
<1>2. /\ UNCHANGED <<cluster, cmd, snap, todo, started, alone, faults>>
      /\ pc[p] # "idle"
  BY DEF Reads, Exists, WaitAndGetSecret, ListInstances, GetServiceBinding,
         GetSecret, Linked, At
<1>3. PICK l \in Labels \ (OwnerLabels \union {"patch"}) : Goto(p, l)
  BY DEF Reads, Exists, WaitAndGetSecret, ListInstances, GetServiceBinding,
         GetSecret, Linked, Labels, OwnerLabels
<1>4. pc'[p] = l  BY <1>1, <1>3 DEF TypeOK, Goto
<1>5. CommandInv(p)' /\ SnapInv(p)'
  <2>1. Op(p)' = Op(p) /\ Sec(p)' = Sec(p) /\ envFrom' = envFrom
    BY <1>2 DEF Op, Sec, cluster
  <2>2. CASE Exists(p)
    BY <1>1, <1>4, <2>1, <2>2, ServiceLinkAssumption
       DEF Exists, At, CommandInv, SnapInv, Goto, TypeOK, Command, Op, Sec
  <2>3. CASE WaitAndGetSecret(p)
    BY <1>1, <1>4, <2>1, <2>3 DEF WaitAndGetSecret, At, CommandInv, SnapInv, Goto, TypeOK
  <2>4. CASE ListInstances(p)
    BY <1>1, <1>4, <2>1, <2>4 DEF ListInstances, At, CommandInv, SnapInv, Goto, TypeOK
  <2>5. CASE GetServiceBinding(p)
    BY <1>1, <1>4, <2>1, <2>5 DEF GetServiceBinding, At, CommandInv, SnapInv, Goto, TypeOK
  <2>6. CASE GetSecret(p)
    BY <1>1, <1>4, <2>1, <2>6 DEF GetSecret, At, CommandInv, SnapInv, Goto, TypeOK
  <2>7. CASE Linked(p)
    BY <1>1, <1>2, <1>4, <2>1, <2>7
       DEF Linked, At, CommandInv, SnapInv, Goto, TypeOK, cluster
  <2>. QED  BY <2>2, <2>3, <2>4, <2>5, <2>6, <2>7 DEF Reads
<1>. QED
  BY <1>1, <1>2, <1>3, <1>4, <1>5, GotoLocal, BusyMove DEF TypeOK

\* Failed calls, refused ones and interrupted commands.
LEMMA FailuresKeep ==
    ASSUME IInv, NEW p \in Clients,
           \/ CreateRefused(p) \/ DeleteRefused(p) \/ PatchRefused(p)
           \/ ApiError(p) \/ Interrupt(p)
    PROVE  IInv'
<1>1. CASE CreateRefused(p) \/ DeleteRefused(p) \/ PatchRefused(p) \/ ApiError(p)
  <2>1. OnError(p) /\ UNCHANGED <<cluster, alone>> /\ pc[p] # "idle"
    BY <1>1 DEF CreateRefused, DeleteRefused, PatchRefused, ApiError, At
  <2>2. started' \in 0..MaxCommands /\ faults' \in 0..MaxFaults
    BY <1>1, ServiceLinkAssumption
       DEF IInv, TypeOK, CreateRefused, DeleteRefused, PatchRefused, ApiError
  <2>. QED  BY <2>1, <2>2, OnErrorLocal, BusyMove
<1>2. CASE Interrupt(p)
  <2>1. Local(p) /\ pc'[p] = "idle"  BY <1>2, DoneLocal DEF IInv, Interrupt
  <2>2. started' \in 0..MaxCommands /\ faults' \in 0..MaxFaults
    BY <1>2, ServiceLinkAssumption DEF IInv, TypeOK, Interrupt
  <2>. QED  BY <1>2, <2>1, <2>2, BusyMove DEF Interrupt, OwnerLabels
<1>. QED  BY <1>1, <1>2

\* ListDCs counts the links to remove.
LEMMA ListDCsKeeps ==
    ASSUME IInv, NEW p \in Clients, ListDCs(p)
    PROVE  IInv'
<1>. DEFINE left == [c \in Components |-> Occurrences(Sec(p), envFrom[c])]
<1>1. left \in [Components -> Nat]
  BY OccurrencesFacts DEF IInv, TypeOK
<1>2. Op(p) = "delete"  BY DEF IInv, CommandInv, ListDCs, At
<1>3. Local(p) /\ pc'[p] \in {"idle", "get"}
  <2>. HIDE DEF left
  <2>. QED  BY <1>1, <1>2, NextUnlinkLocal DEF IInv, ListDCs, left
<1>. QED  BY <1>3, BusyMove DEF ListDCs, At, OwnerLabels, IInv, TypeOK

\* GetDC remembers what the patch is computed from.
LEMMA GetDCKeeps ==
    ASSUME IInv, NEW p \in Clients, GetDC(p)
    PROVE  IInv'
<1>. DEFINE links == envFrom[cmd[p].cmp]
<1>1. UNCHANGED <<cluster, started, alone, faults>> /\ pc[p] # "idle"
  BY DEF GetDC, At
<1>2. CASE OnError(p)
  BY <1>1, <1>2, OnErrorLocal, BusyMove DEF IInv, TypeOK
<1>3. CASE /\ Op(p) = "link" \/ Contains(links, Sec(p))
           /\ snap' = [snap EXCEPT ![p] = links]
           /\ Goto(p, "patch")
           /\ UNCHANGED <<cmd, todo>>
  <2>1. cmd[p] \in Command /\ links \in Seq(Secrets)
    BY DEF IInv, TypeOK, Command
  <2>2. /\ pc' \in [Clients -> Labels] /\ pc'[p] = "patch"
        /\ snap' \in [Clients -> Seq(Secrets)] /\ snap'[p] = links
        /\ OthersStay(p)
    BY <1>3, <2>1 DEF IInv, TypeOK, Goto, Labels, OthersStay
  <2>3. CommandInv(p)'
    <3>1. CommandInv(p) /\ pc[p] = "get"  BY DEF IInv, GetDC, At
    <3>. QED  BY <1>3, <2>2, <3>1 DEF CommandInv, Op, Sec
  <2>4. SnapInv(p)'
    <3>1. SnapInv(p) /\ pc[p] = "get"  BY DEF IInv, GetDC, At
    <3>. QED  BY <1>1, <1>3, <2>2, <3>1 DEF SnapInv, Op, Sec, cluster
  <2>5. Local(p)  BY <1>3, <2>2, <2>3, <2>4 DEF IInv, TypeOK, Local
  <2>. QED  BY <1>1, <2>2, <2>5, BusyMove DEF IInv, TypeOK, OwnerLabels
<1>. QED  BY <1>2, <1>3 DEF GetDC

----------------------------------------------------------------------------
(* Creating and deleting services *)

\* Such a step has to establish only what is said of instances and bindings.
LEMMA ServiceStep ==
    ASSUME IInv, NEW p \in Clients, NEW l \in Labels \ {"patch"},
           pc[p] # "idle", Goto(p, l),
           UNCHANGED <<secrets, envFrom, cmd, snap, todo, started, alone, faults>>,
           instances' \in SUBSET Services, bindings' \in SUBSET Services,
           CommandInv(p)', l = "get" => SnapInv(p)',
           BindingHasInstance', OwnerInv'
    PROVE  IInv'
<1>1. /\ pc' \in [Clients -> Labels] /\ pc'[p] = l
      /\ \A q \in Clients \ {p} : pc'[q] = pc[q]
  BY DEF IInv, TypeOK, Goto
<1>2. TypeOK'  BY <1>1 DEF IInv, TypeOK
<1>3. ASSUME NEW q \in Clients
      PROVE  CommandInv(q)' /\ SnapInv(q)'
  <2>1. CASE q = p  BY <1>1, <2>1 DEF SnapInv
  <2>2. CASE q # p
    BY <1>1, <2>2 DEF IInv, CommandInv, SnapInv, Op, Sec
  <2>. QED  BY <2>1, <2>2
<1>4. AloneInv'
  <2>1. OthersIdle(p)  BY BusyAlone
  <2>. QED  BY <1>1, <2>1 DEF AloneInv, OthersIdle, At
<1>5. NoDoubleLink'  BY DEF IInv, NoDoubleLink, LinkedOnce
<1>. QED  BY <1>2, <1>3, <1>4, <1>5 DEF IInv

\* The instance is there before the binding: nobody else owns a new name.
LEMMA CreateServiceInstanceKeeps ==
    ASSUME IInv, NEW p \in Clients, CreateServiceInstance(p)
    PROVE  IInv'
<1>1. Op(p) = "create" /\ Sec(p) \in Services
  BY DEF IInv, CommandInv, CreateServiceInstance, At
<1>2. /\ pc'[p] = "createBinding" /\ \A q \in Clients \ {p} : pc'[q] = pc[q]
      /\ \A q \in Clients : Sec(q)' = Sec(q)
  BY DEF IInv, TypeOK, CreateServiceInstance, Goto, Sec
<1>3. Sec(p) \notin instances /\ Sec(p) \notin bindings
  BY DEF IInv, BindingHasInstance, CreateServiceInstance
<1>4. OwnerInv'
  BY <1>2, <1>3 DEF IInv, OwnerInv, Owns, OwnerLabels, CreateServiceInstance
<1>5. BindingHasInstance'  BY DEF IInv, BindingHasInstance, CreateServiceInstance
<1>6. CommandInv(p)'
  BY <1>1, <1>2 DEF CommandInv, Op, Sec, CreateServiceInstance
<1>. QED
  BY <1>1, <1>4, <1>5, <1>6, ServiceStep
     DEF IInv, TypeOK, CreateServiceInstance, At, Labels

\* The binding is created by the client that owns the instance.
LEMMA CreateServiceBindingKeeps ==
    ASSUME IInv, NEW p \in Clients, CreateServiceBinding(p)
    PROVE  IInv'
<1>1. /\ Op(p) = "create" /\ Sec(p) \in Services
      /\ pc[p] = "createBinding"
  BY DEF IInv, CommandInv, CreateServiceBinding, At
<1>2. PICK l \in {"waitSecret", "idle"} : Goto(p, l)  BY DEF CreateServiceBinding
<1>3. /\ pc'[p] = l /\ \A q \in Clients \ {p} : pc'[q] = pc[q]
      /\ \A q \in Clients : Sec(q)' = Sec(q)
  BY <1>2 DEF IInv, TypeOK, CreateServiceBinding, Goto, Sec
<1>4. Owns(p, Sec(p)) /\ Sec(p) \in instances
  BY <1>1 DEF IInv, OwnerInv, Owns, OwnerLabels
<1>5. \A q \in Clients \ {p} : pc[q] \in OwnerLabels => Sec(q) # Sec(p)
  BY <1>1, <1>4 DEF IInv, OwnerInv, Owns
<1>6. OwnerInv'
  BY <1>3, <1>5 DEF IInv, OwnerInv, Owns, OwnerLabels, CreateServiceBinding
<1>7. BindingHasInstance'
  BY <1>4 DEF IInv, BindingHasInstance, CreateServiceBinding
<1>8. CommandInv(p)'
  BY <1>1, <1>3 DEF CommandInv, Op, Sec, CreateServiceBinding
<1>. QED
  BY <1>1, <1>2, <1>6, <1>7, <1>8, ServiceStep
     DEF IInv, TypeOK, CreateServiceBinding, Labels

\* Only one client deletes the binding, and nobody owns a service that has one.
LEMMA DeleteBindingKeeps ==
    ASSUME IInv, NEW p \in Clients, DeleteBinding(p)
    PROVE  IInv'
<1>1. Op(p) = "delete" /\ Sec(p) \in Services
  BY DEF IInv, CommandInv, DeleteBinding, At
<1>2. /\ pc'[p] = "deleteInstance" /\ \A q \in Clients \ {p} : pc'[q] = pc[q]
      /\ \A q \in Clients : Sec(q)' = Sec(q)
  BY DEF IInv, TypeOK, DeleteBinding, Goto, Sec
<1>3. Sec(p) \in instances /\ Sec(p) \in bindings
  BY DEF IInv, BindingHasInstance, DeleteBinding
<1>4. OwnerInv'
  BY <1>2, <1>3 DEF IInv, OwnerInv, Owns, OwnerLabels, DeleteBinding
<1>5. BindingHasInstance'  BY DEF IInv, BindingHasInstance, DeleteBinding
<1>6. CommandInv(p)'
  BY <1>1, <1>2 DEF CommandInv, Op, Sec, DeleteBinding
<1>. QED
  BY <1>1, <1>4, <1>5, <1>6, ServiceStep
     DEF IInv, TypeOK, DeleteBinding, At, Labels

\* The instance goes away without a binding, and its owner with it.
LEMMA DeleteInstanceKeeps ==
    ASSUME IInv, NEW p \in Clients, DeleteInstance(p)
    PROVE  IInv'
<1>1. /\ Op(p) = "delete" /\ Sec(p) \in Services
      /\ pc[p] = "deleteInstance"
  BY DEF IInv, CommandInv, DeleteInstance, At
<1>2. /\ pc'[p] = "listDCs" /\ \A q \in Clients \ {p} : pc'[q] = pc[q]
      /\ \A q \in Clients : Sec(q)' = Sec(q)
  BY DEF IInv, TypeOK, DeleteInstance, Goto, Sec
<1>3. Owns(p, Sec(p)) /\ Sec(p) \notin bindings
  BY <1>1 DEF IInv, OwnerInv, Owns, OwnerLabels
<1>4. \A q \in Clients \ {p} : pc[q] \in OwnerLabels => Sec(q) # Sec(p)
  BY <1>1, <1>3 DEF IInv, OwnerInv, Owns
<1>5. OwnerInv'
  BY <1>2, <1>4 DEF IInv, OwnerInv, Owns, OwnerLabels, DeleteInstance
<1>6. BindingHasInstance'
  BY <1>3 DEF IInv, BindingHasInstance, DeleteInstance
<1>7. CommandInv(p)'
  BY <1>1, <1>2 DEF CommandInv, Op, Sec, DeleteInstance
<1>. QED
  BY <1>1, <1>5, <1>6, <1>7, ServiceStep DEF IInv, TypeOK, DeleteInstance, Labels

\* The catalog only makes and removes secrets.
LEMMA CatalogKeeps ==
    ASSUME IInv, Catalog
    PROVE  IInv'
<1>1. /\ secrets' \in SUBSET Services
      /\ UNCHANGED <<instances, bindings, envFrom, cmd, pc, snap, todo>>
      /\ UNCHANGED <<started, alone, faults>>
  BY DEF IInv, TypeOK, Catalog, Provision, Unbind
<1>2. TypeOK' /\ BindingHasInstance' /\ OwnerInv'
  BY <1>1 DEF IInv, TypeOK, BindingHasInstance, OwnerInv, Owns, Sec
<1>3. \A p \in Clients : CommandInv(p)' /\ SnapInv(p)'
  BY <1>1 DEF IInv, CommandInv, SnapInv, Op, Sec
<1>4. AloneInv' /\ NoDoubleLink'
  BY <1>1 DEF IInv, AloneInv, At, NoDoubleLink, LinkedOnce
<1>. QED  BY <1>2, <1>3, <1>4 DEF IInv

----------------------------------------------------------------------------
(* The patch *)

\* Where a command is after its patch.
LEMMA AfterPatchLocal ==
    ASSUME IInv, NEW p \in Clients, PatchDC(p)
    PROVE  Local(p) /\ pc'[p] \notin OwnerLabels
<1>1. TypeOK /\ CommandInv(p) /\ pc[p] = "patch"
  BY DEF IInv, PatchDC, At
<1>2. CASE Op(p) = "delete"
  <2>. DEFINE left == [todo[p] EXCEPT ![cmd[p].cmp] = @ - 1]
  <2>1. todo[p] \in [Components -> Nat] /\ cmd[p].cmp \in Components
    BY <1>1 DEF TypeOK, Command
  <2>2. todo[p][cmd[p].cmp] > 0  BY <1>1, <1>2 DEF CommandInv
  <2>3. left \in [Components -> Nat]  BY <2>1, <2>2
  <2>4. NextUnlink(p, left)  BY <1>2 DEF PatchDC, AfterPatch
  <2>. HIDE DEF left
  <2>. QED  BY <1>1, <1>2, <2>3, <2>4, NextUnlinkLocal DEF OwnerLabels
<1>3. CASE Op(p) # "delete"
  BY <1>1, <1>3, DoneLocal DEF PatchDC, AfterPatch, OwnerLabels
<1>. QED  BY <1>2, <1>3

\* The patched list is the old one with a new first entry, or without an entry.
LEMMA PatchedLinks ==
    ASSUME IInv, NEW p \in Clients, PatchDC(p),
           NEW links, links = envFrom[cmd[p].cmp],
           NEW new, new = envFrom'[cmd[p].cmp]
    PROVE  /\ links \in Seq(Secrets) /\ new \in Seq(Secrets)
           /\ \A c \in Components \ {cmd[p].cmp} : envFrom'[c] = envFrom[c]
           /\ Op(p) = "link" =>
                 new = IF snap[p] = <<>> THEN <<Sec(p)>> ELSE <<Sec(p)>> \o links
           /\ Op(p) # "link" =>
                 /\ FirstIndex(Sec(p), snap[p]) \in 1..Len(links)
                 /\ new = RemoveAt(links, FirstIndex(Sec(p), snap[p]))
<1>1. /\ TypeOK /\ CommandInv(p) /\ pc[p] = "patch"
      /\ cmd[p] \in Command
  BY DEF IInv, PatchDC, At, TypeOK
<1>2. /\ Sec(p) \in Secrets /\ cmd[p].cmp \in Components
      /\ links \in Seq(Secrets) /\ snap[p] \in Seq(Secrets)
  BY <1>1 DEF TypeOK, Command, Sec
<1>3. /\ new = IF Op(p) = "link" THEN LinkPatch(p, links) ELSE UnlinkPatch(p, links)
      /\ \A c \in Components \ {cmd[p].cmp} : envFrom'[c] = envFrom[c]
  BY <1>1, <1>2 DEF PatchDC, TypeOK
<1>4. CASE Op(p) = "link"
  BY <1>2, <1>3, <1>4 DEF LinkPatch
<1>5. CASE Op(p) # "link"
  <2>1. FirstIndex(Sec(p), snap[p]) \in 1..Len(snap[p])
    BY <1>1, <1>2, <1>5, FirstIndexFacts DEF CommandInv
  <2>2. FirstIndex(Sec(p), snap[p]) <= Len(links)
    BY <1>5 DEF PatchDC, PatchApplies
  <2>3. FirstIndex(Sec(p), snap[p]) \in 1..Len(links)  BY <1>2, <2>1, <2>2
  <2>4. new = RemoveAt(links, FirstIndex(Sec(p), snap[p]))
    BY <1>3, <1>5 DEF UnlinkPatch
  <2>5. new \in Seq(Secrets)  BY <1>2, <2>3, <2>4, RemoveAtFacts
  <2>. QED  BY <1>2, <1>3, <1>5, <2>3, <2>4, <2>5
<1>. QED  BY <1>4, <1>5

\* A client that is alone links a secret once, and unlinks what it names.
LEMMA PatchAlone ==
    ASSUME IInv, alone, NEW p \in Clients, PatchDC(p),
           NEW links, links = envFrom[cmd[p].cmp],
           NEW new, new = envFrom'[cmd[p].cmp]
    PROVE  /\ \A i, j \in DOMAIN new : new[i] = new[j] => i = j
           /\ \A s \in ToSet(links) \ ToSet(new) : Op(p) # "link" /\ s = Sec(p)
<1>1. /\ pc[p] = "patch" /\ CommandInv(p)
      /\ snap[p] = links
      /\ Op(p) = "link" => ~Contains(links, Sec(p))
  BY DEF IInv, SnapInv, PatchDC, At
<1>2. \A i, j \in DOMAIN links : links[i] = links[j] => i = j
  <2>1. cmd[p].cmp \in Components  BY DEF IInv, TypeOK, Command
  <2>. QED  BY <2>1 DEF IInv, NoDoubleLink, LinkedOnce
<1>3. links \in Seq(Secrets) /\ Len(links) \in Nat /\ DOMAIN links = 1..Len(links)
  <2>1. links \in Seq(Secrets)  BY PatchedLinks
  <2>. QED  BY <2>1
<1>4. CASE Op(p) = "link"
  <2>1. /\ Len(new) = Len(links) + 1
        /\ DOMAIN new = 1..(Len(links) + 1)
        /\ new[1] = Sec(p)
        /\ \A i \in 2..(Len(links) + 1) : new[i] = links[i - 1]
    <3>1. CASE links = <<>>
      <4>1. new = <<Sec(p)>>  BY <1>1, <1>4, <3>1, PatchedLinks
      <4>. QED  BY <3>1, <4>1
    <3>2. CASE links # <<>>
      <4>1. new = <<Sec(p)>> \o links  BY <1>1, <1>4, <3>2, PatchedLinks
      <4>2. <<Sec(p)>> \in Seq(Secrets)
        BY DEF IInv, TypeOK, Command, Sec
      <4>. QED  BY <1>3, <4>1, <4>2
    <3>. QED  BY <3>1, <3>2
  <2>2. \A i \in DOMAIN links : links[i] # Sec(p)
    BY <1>1, <1>3, <1>4 DEF Contains
  <2>3. ASSUME NEW i \in DOMAIN new, NEW j \in DOMAIN new, new[i] = new[j]
        PROVE  i = j
    <3>0. ASSUME NEW n \in DOMAIN new, n # 1
          PROVE  n - 1 \in DOMAIN links /\ new[n] = links[n - 1] /\ n \in Nat
      <4>1. n \in 2..(Len(links) + 1)  BY <1>3, <2>1, <3>0
      <4>2. n - 1 \in 1..Len(links)  BY <1>3, <4>1
      <4>3. new[n] = links[n - 1]  BY <2>1, <4>1
      <4>4. n \in Nat  BY <1>3, <4>1
      <4>. QED  BY <1>3, <4>2, <4>3, <4>4
    <3>1. CASE i = 1 /\ j # 1
      BY <2>1, <2>2, <2>3, <3>0, <3>1
    <3>2. CASE i # 1 /\ j = 1
      BY <2>1, <2>2, <2>3, <3>0, <3>2
    <3>3. CASE i # 1 /\ j # 1
      <4>1. i - 1 \in DOMAIN links /\ j - 1 \in DOMAIN links
            /\ i \in Nat /\ j \in Nat
            /\ links[i - 1] = links[j - 1]
        BY <2>3, <3>0, <3>3
      <4>2. i - 1 = j - 1  BY <1>2, <4>1
      <4>. QED  BY <4>1, <4>2
    <3>. QED  BY <3>1, <3>2, <3>3
  <2>4. ToSet(links) \subseteq ToSet(new)
    <3>1. SUFFICES ASSUME NEW i \in DOMAIN links PROVE links[i] \in ToSet(new)
      BY DEF ToSet
    <3>2. i + 1 \in DOMAIN new /\ new[i + 1] = links[i]  BY <1>3, <2>1
    <3>. QED  BY <3>2 DEF ToSet
  <2>. QED  BY <2>3, <2>4
<1>5. CASE Op(p) # "link"
  <2>. DEFINE k == FirstIndex(Sec(p), links)
  <2>1. k \in 1..Len(links) /\ new = RemoveAt(links, k)
    <3>1. /\ FirstIndex(Sec(p), snap[p]) \in 1..Len(links)
          /\ new = RemoveAt(links, FirstIndex(Sec(p), snap[p]))
      BY <1>5, PatchedLinks
    <3>. QED  BY <1>1, <3>1
  <2>2. links[k] = Sec(p)
    BY <1>1, <1>3, <1>5, FirstIndexFacts DEF CommandInv
  <2>. HIDE DEF k
  <2>3. /\ DOMAIN new = 1..(Len(links) - 1)
        /\ \A i \in 1..(Len(links) - 1) : new[i] = IF i < k THEN links[i] ELSE links[i + 1]
    <3>. DEFINE r == RemoveAt(links, k)
    <3>1. /\ r \in Seq(Secrets) /\ Len(r) = Len(links) - 1
          /\ \A i \in 1..(Len(links) - 1) : r[i] = IF i < k THEN links[i] ELSE links[i + 1]
      BY <1>3, <2>1, RemoveAtFacts
    <3>2. DOMAIN r = 1..Len(r)  BY <3>1
    <3>. QED  BY <2>1, <3>1, <3>2
  <2>4. ASSUME NEW i \in DOMAIN new, NEW j \in DOMAIN new, new[i] = new[j]
        PROVE  i = j
    <3>. DEFINE at(n) == IF n < k THEN n ELSE n + 1
    <3>1. at(i) \in DOMAIN links /\ at(j) \in DOMAIN links
      BY <1>3, <2>1, <2>3
    <3>2. links[at(i)] = links[at(j)]  BY <2>3, <2>4
    <3>3. at(i) = at(j)  BY <1>2, <3>1, <3>2
    <3>. QED  BY <1>3, <2>1, <2>3, <3>3
  <2>5. ASSUME NEW i \in DOMAIN links, i # k
        PROVE  links[i] \in ToSet(new)
    <3>1. CASE i < k
      <4>1. i \in DOMAIN new /\ new[i] = links[i]  BY <1>3, <2>1, <2>3, <3>1
      <4>. QED  BY <4>1 DEF ToSet
    <3>2. CASE ~(i < k)
      <4>1. i - 1 \in 1..(Len(links) - 1) /\ ~(i - 1 < k) /\ (i - 1) + 1 = i
        BY <1>3, <2>1, <2>5, <3>2
      <4>2. i - 1 \in DOMAIN new /\ new[i - 1] = links[i]  BY <2>3, <4>1
      <4>. QED  BY <4>2 DEF ToSet
    <3>. QED  BY <3>1, <3>2
  <2>6. \A s \in ToSet(links) \ ToSet(new) : s = Sec(p)
    BY <2>2, <2>5 DEF ToSet
  <2>. QED  BY <1>5, <2>4, <2>6
<1>. QED  BY <1>4, <1>5

\* A patch changes one list of links and keeps the invariant: a new link was not
\* in the list that was read, a removal takes one out.
LEMMA PatchDCKeeps ==
    ASSUME IInv, NEW p \in Clients, PatchDC(p)
    PROVE  IInv'
<1>1. Local(p) /\ pc'[p] \notin OwnerLabels  BY AfterPatchLocal
<1>2. /\ cmd[p].cmp \in Components
      /\ UNCHANGED <<instances, bindings, secrets, started, alone, faults>>
      /\ OthersIdle(p)
  BY BusyAlone DEF IInv, TypeOK, Command, PatchDC, At
<1>3. TypeOK'
  <2>1. envFrom' \in [Components -> Seq(Secrets)]
    <3>1. /\ envFrom \in [Components -> Seq(Secrets)]
          /\ DOMAIN envFrom' = Components /\ envFrom' = [c \in Components |-> envFrom'[c]]
      BY DEF IInv, TypeOK, PatchDC
    <3>2. \A c \in Components : envFrom'[c] \in Seq(Secrets)
      BY <1>2, <3>1, PatchedLinks
    <3>. QED  BY <3>1, <3>2
  <2>. QED  BY <1>1, <1>2, <2>1 DEF IInv, TypeOK, Local
<1>4. BindingHasInstance' /\ OwnerInv'
  BY <1>1, <1>2
     DEF IInv, BindingHasInstance, OwnerInv, Owns, Sec, Local, OthersStay
<1>5. ASSUME NEW q \in Clients
      PROVE  CommandInv(q)' /\ SnapInv(q)'
  <2>1. CASE q = p  BY <1>1, <2>1 DEF Local
  <2>2. CASE q # p
    <3>1. CommandInv(q)'
      BY <1>1, <2>2 DEF IInv, CommandInv, Local, OthersStay, Op, Sec
    <3>2. SnapInv(q)'
      BY <1>1, <1>2, <2>2 DEF SnapInv, OthersIdle, Local, OthersStay
    <3>. QED  BY <3>1, <3>2
  <2>. QED  BY <2>1, <2>2
<1>6. AloneInv'
  <2>1. \A q \in Clients \ {p} : pc'[q] = pc[q]  BY <1>1 DEF Local, OthersStay
  <2>. QED  BY <1>2, <2>1 DEF AloneInv, OthersIdle, At
<1>7. NoDoubleLink'
  BY <1>2, PatchAlone, PatchedLinks DEF IInv, NoDoubleLink, LinkedOnce
<1>. QED  BY <1>3, <1>4, <1>5, <1>6, <1>7 DEF IInv

----------------------------------------------------------------------------
(* Links without their service *)

\* A link that is in the list is counted.
LEMMA OccurrencesPositive ==
    ASSUME NEW S, NEW q \in Seq(S), NEW s \in ToSet(q)
    PROVE  Occurrences(s, q) > 0
<1>. DEFINE I == {i \in DOMAIN q : q[i] = s}
<1>1. I \in SUBSET (1..Len(q)) /\ Len(q) \in Nat /\ I # {}  BY DEF ToSet
<1>2. IsFiniteSet(1..Len(q))  BY FS_Interval
<1>3. IsFiniteSet(I)  BY <1>1, <1>2, FS_Subset
<1>4. Cardinality(I) \in Nat /\ Cardinality(I) # 0
  BY <1>1, <1>3, FS_CardinalityType, FS_EmptySet
<1>. QED  BY <1>4 DEF Occurrences

\* What a client that is alone has to establish.
Resolves(p) ==
    /\ \A c \in Components : \A s \in Dangling(c) : Unlinking(p, c, s)
    /\ Linking(p) /\ Sec(p) \in Services => Sec(p) \in instances

LEMMA ResolvesAlone ==
    ASSUME NEW p \in Clients, \A q \in Clients \ {p} : pc[q] = "idle",
           ResolveInv, alone, faults = 0
    PROVE  Resolves(p)
<1>1. \A q \in Clients \ {p} : ~Linking(q) /\ \A c, s : ~Unlinking(q, c, s)
  BY DEF Linking, Unlinking
<1>. QED  BY <1>1 DEF ResolveInv, Resolves

\* A step that leaves the links and takes no service away, from where no deletion
\* has links to remove, to where a link is still made only to a service.
LEMMA CalmStep ==
    ASSUME NEW p \in Clients, Resolves(p),
           ~(Op(p) = "delete" /\ pc[p] \in {"listDCs", "get", "patch"}),
           envFrom' = envFrom, instances \subseteq instances',
           (Linking(p) /\ Sec(p) \in Services)' => Sec(p)' \in instances'
    PROVE  Resolves(p)'
<1>1. \A c \in Components : Dangling(c) = {}  BY DEF Resolves, Unlinking
<1>2. \A c \in Components : Dangling(c)' = {}  BY <1>1 DEF Dangling, LinkedTo
<1>. QED  BY <1>2 DEF Resolves

\* A deletion whose list has every link that is left goes on or is through.
LEMMA NextUnlinkResolves ==
    ASSUME TypeOK, NEW p \in Clients, Op(p) = "delete",
           NEW left \in [Components -> Nat], NextUnlink(p, left),
           \A c \in Components : \A s \in Dangling(c)' : s = Sec(p) /\ left[c] > 0
    PROVE  Resolves(p)'
<1>1. CASE \E c \in Components : left[c] > 0
  <2>1. PICK c \in Components :
           /\ cmd' = [cmd EXCEPT ![p].cmp = c]
           /\ todo' = [todo EXCEPT ![p] = left]
           /\ Goto(p, "get")
    BY <1>1 DEF NextUnlink
  <2>2. cmd[p] \in Command  BY DEF TypeOK
  <2>3. Op(p)' = "delete" /\ Sec(p)' = Sec(p) /\ pc'[p] = "get" /\ todo'[p] = left
    BY <2>1, <2>2 DEF TypeOK, Command, Op, Sec, Goto
  <2>. QED  BY <2>3 DEF Resolves, Unlinking, Linking
<1>2. CASE ~\E c \in Components : left[c] > 0
  <2>1. \A c \in Components : Dangling(c)' = {}  BY <1>2
  <2>2. pc'[p] = "idle"  BY <1>2 DEF NextUnlink, Done, TypeOK
  <2>. QED  BY <2>1, <2>2 DEF Resolves, Linking
<1>. QED  BY <1>1, <1>2

\* What the patch of a client that is alone makes of the links.
LEMMA PatchedSets ==
    ASSUME IInv, alone, NEW p \in Clients, PatchDC(p),
           NEW links, links = envFrom[cmd[p].cmp],
           NEW new, new = envFrom'[cmd[p].cmp]
    PROVE  /\ Op(p) = "link" => ToSet(new) \subseteq ToSet(links) \union {Sec(p)}
           /\ Op(p) # "link" => ToSet(new) \subseteq ToSet(links) \ {Sec(p)}
<1>1. /\ pc[p] = "patch" /\ CommandInv(p)
      /\ snap[p] = links
  BY DEF IInv, SnapInv, PatchDC, At
<1>2. links \in Seq(Secrets) /\ new \in Seq(Secrets)  BY PatchedLinks
<1>3. CASE Op(p) = "link"
  <2>1. CASE links = <<>>
    <3>1. new = <<Sec(p)>>  BY <1>1, <1>3, <2>1, PatchedLinks
    <3>. QED  BY <1>3, <3>1 DEF ToSet
  <2>2. CASE links # <<>>
    <3>1. new = <<Sec(p)>> \o links  BY <1>1, <1>3, <2>2, PatchedLinks
    <3>2. <<Sec(p)>> \in Seq(Secrets)  BY DEF IInv, TypeOK, Command, Sec
    <3>3. ASSUME NEW i \in DOMAIN new PROVE new[i] \in ToSet(links) \union {Sec(p)}
      <4>1. Len(new) = Len(links) + 1 /\ i \in 1..(Len(links) + 1)  BY <1>2, <3>1, <3>2, <3>3
      <4>2. CASE i = 1  BY <1>2, <3>1, <3>2, <4>2
      <4>3. CASE i # 1
        <5>1. i - 1 \in 1..Len(links) /\ new[i] = links[i - 1]
          BY <1>2, <3>1, <3>2, <4>1, <4>3
        <5>2. i - 1 \in DOMAIN links  BY <1>2, <5>1
        <5>. QED  BY <5>1, <5>2 DEF ToSet
      <4>. QED  BY <4>2, <4>3
    <3>. QED  BY <1>3, <3>3 DEF ToSet
  <2>. QED  BY <2>1, <2>2
<1>4. CASE Op(p) # "link"
  <2>. DEFINE k == FirstIndex(Sec(p), links)
  <2>1. k \in 1..Len(links) /\ new = RemoveAt(links, k)
    <3>1. /\ FirstIndex(Sec(p), snap[p]) \in 1..Len(links)
          /\ new = RemoveAt(links, FirstIndex(Sec(p), snap[p]))
      BY <1>4, PatchedLinks
    <3>. QED  BY <1>1, <3>1
  <2>2. links[k] = Sec(p)  BY <1>1, <1>2, <1>4, FirstIndexFacts DEF CommandInv
  <2>3. \A i, j \in DOMAIN links : links[i] = links[j] => i = j
    <3>1. cmd[p].cmp \in Components  BY DEF IInv, TypeOK, Command
    <3>. QED  BY <3>1 DEF IInv, NoDoubleLink, LinkedOnce
  <2>. HIDE DEF k
  <2>4. /\ Len(new) = Len(links) - 1
        /\ \A i \in 1..(Len(links) - 1) : new[i] = IF i < k THEN links[i] ELSE links[i + 1]
    BY <1>2, <2>1, RemoveAtFacts
  <2>5. ASSUME NEW i \in DOMAIN new PROVE new[i] \in ToSet(links) \ {Sec(p)}
    <3>1. i \in 1..(Len(links) - 1) /\ Len(links) \in Nat /\ DOMAIN links = 1..Len(links)
      BY <1>2, <2>4, <2>5
    <3>2. PICK j \in 1..Len(links) : j # k /\ new[i] = links[j]
      <4>1. CASE i < k  BY <2>1, <2>4, <3>1, <4>1
      <4>2. CASE ~(i < k)
        <5>1. i + 1 \in 1..Len(links) /\ i + 1 # k  BY <2>1, <3>1, <4>2
        <5>. QED  BY <2>4, <3>1, <4>2, <5>1
      <4>. QED  BY <4>1, <4>2
    <3>3. links[j] # Sec(p)  BY <2>1, <2>2, <2>3, <3>1, <3>2
    <3>. QED  BY <3>1, <3>2, <3>3 DEF ToSet
  <2>. QED  BY <1>4, <2>5 DEF ToSet
<1>. QED  BY <1>3, <1>4

\* A patch of a client that is alone is never refused.
LEMMA PatchAloneApplies ==
    ASSUME IInv, alone, NEW p \in Clients, At(p, "patch")
    PROVE  PatchApplies(p)
<1>1. pc[p] = "patch" /\ snap[p] = envFrom[cmd[p].cmp] /\ CommandInv(p)
  BY DEF IInv, SnapInv, At
<1>2. snap[p] \in Seq(Secrets)  BY DEF IInv, TypeOK
<1>3. CASE Op(p) # "link"
  <2>1. FirstIndex(Sec(p), snap[p]) \in 1..Len(snap[p])
    BY <1>1, <1>2, <1>3, FirstIndexFacts DEF CommandInv
  <2>. QED  BY <1>1, <1>2, <1>3, <2>1 DEF PatchApplies
<1>. QED  BY <1>1, <1>3 DEF PatchApplies

\* The calls that leave the links alone, but those of a deletion that unlinks.
LEMMA QuietResolves ==
    ASSUME IInv, NEW p \in Clients, Resolves(p),
           \/ Start(p) \/ Reads(p) \/ CreateServiceInstance(p) \/ CreateServiceBinding(p)
           \/ DeleteBinding(p) \/ CreateRefused(p) \/ DeleteRefused(p)
    PROVE  Resolves(p)'
<1>1. TypeOK /\ CommandInv(p) /\ cmd[p] \in Command  BY DEF IInv, TypeOK
<1>2. envFrom' = envFrom /\ instances \subseteq instances'
  BY DEF Start, Reads, Exists, WaitAndGetSecret, ListInstances, GetServiceBinding, GetSecret,
         Linked, CreateServiceInstance, CreateServiceBinding, DeleteBinding,
         CreateRefused, DeleteRefused, cluster
<1>3. ~(Op(p) = "delete" /\ pc[p] \in {"listDCs", "get", "patch"})
  BY <1>1 DEF Start, Reads, Exists, WaitAndGetSecret, ListInstances, GetServiceBinding,
         GetSecret, Linked, CreateServiceInstance, CreateServiceBinding, DeleteBinding,
         CreateRefused, DeleteRefused, At
<1>4. (Linking(p) /\ Sec(p) \in Services)' => Sec(p)' \in instances'
  <2>1. CASE Start(p)
    <3>1. pc'[p] = "exists"  BY <1>1, <2>1 DEF TypeOK, Start, Goto
    <3>. QED  BY <3>1 DEF Linking
  <2>2. CASE Reads(p)
    <3>1. cmd' = cmd /\ instances' = instances /\ pc[p] # "idle"
      BY <2>2 DEF Reads, Exists, WaitAndGetSecret, ListInstances, GetServiceBinding,
                  GetSecret, Linked, At, cluster
    <3>2. CASE Exists(p)
      <4>1. pc'[p] = "getBinding" => Sec(p) \in instances
        BY <1>1, <3>2 DEF TypeOK, Exists, Goto
      <4>2. pc'[p] \in {"linked", "get"} => Sec(p) \in ComponentSecrets
        BY <1>1, <3>2 DEF TypeOK, Exists, Goto
      <4>3. pc'[p] \in {"createInstance", "listInstances", "getBinding", "linked", "get", "idle"}
        BY <1>1, <3>2 DEF TypeOK, Exists, Goto
      <4>. QED  BY <3>1, <4>1, <4>2, <4>3, ServiceLinkAssumption DEF Linking, Sec, Op
    <3>3. CASE ~Exists(p) /\ Op(p) = "link"
      <4>1. Linking(p)
        BY <1>1, <2>2, <3>3 DEF Reads, WaitAndGetSecret, ListInstances, GetServiceBinding,
                                GetSecret, Linked, At, Linking, CommandInv
      <4>. QED  BY <3>1, <4>1 DEF Resolves, Sec
    <3>4. CASE Op(p) # "link"  BY <3>1, <3>4 DEF Linking, Op
    <3>. QED  BY <3>2, <3>3, <3>4
  <2>3. CASE \/ CreateServiceInstance(p) \/ CreateServiceBinding(p)
             \/ DeleteBinding(p) \/ CreateRefused(p) \/ DeleteRefused(p)
    <3>1. Op(p) \in {"create", "delete"}
      BY <1>1, <2>3 DEF CreateServiceInstance, CreateServiceBinding, DeleteBinding,
                        CreateRefused, DeleteRefused, At, CommandInv
    <3>2. pc[p] \in {"createInstance", "createBinding", "deleteBinding", "deleteInstance"}
      BY <2>3 DEF CreateServiceInstance, CreateServiceBinding, DeleteBinding,
                  CreateRefused, DeleteRefused, At
    <3>3. cmd' = cmd
      BY <2>3, <3>2 DEF CreateServiceInstance, CreateServiceBinding, DeleteBinding,
                        CreateRefused, DeleteRefused, OnError
    <3>. QED  BY <3>1, <3>3 DEF Linking, Op
  <2>. QED  BY <2>1, <2>2, <2>3
<1>. QED  BY <1>2, <1>3, <1>4, CalmStep

\* A service that goes away leaves links that the same command removes.
LEMMA DeleteInstanceResolves ==
    ASSUME IInv, NEW p \in Clients, Resolves(p), DeleteInstance(p)
    PROVE  Resolves(p)'
<1>1. Op(p) = "delete" /\ pc[p] = "deleteInstance" /\ pc'[p] = "listDCs" /\ cmd' = cmd
  BY DEF IInv, TypeOK, CommandInv, DeleteInstance, At, Goto
<1>2. \A c \in Components : Dangling(c) = {}  BY <1>1 DEF Resolves, Unlinking
<1>3. \A c \in Components : Dangling(c)' \subseteq {Sec(p)}
  BY <1>2 DEF Dangling, LinkedTo, DeleteInstance
<1>. QED  BY <1>1, <1>3 DEF Resolves, Unlinking, Linking, Op, Sec

LEMMA ListDCsResolves ==
    ASSUME IInv, NEW p \in Clients, Resolves(p), ListDCs(p)
    PROVE  Resolves(p)'
<1>. DEFINE left == [c \in Components |-> Occurrences(Sec(p), envFrom[c])]
<1>1. TypeOK /\ Op(p) = "delete" /\ pc[p] = "listDCs"  BY DEF IInv, CommandInv, ListDCs, At
<1>2. left \in [Components -> Nat]  BY <1>1, OccurrencesFacts DEF TypeOK
<1>3. UNCHANGED cluster /\ NextUnlink(p, left)  BY DEF ListDCs
<1>4. ASSUME NEW c \in Components, NEW s \in Dangling(c)'
      PROVE  s = Sec(p) /\ left[c] > 0
  <2>1. s \in Dangling(c)  BY <1>3, <1>4 DEF Dangling, LinkedTo, cluster
  <2>2. s = Sec(p)  BY <2>1 DEF Resolves, Unlinking
  <2>3. s \in ToSet(envFrom[c]) /\ envFrom[c] \in Seq(Secrets)
    BY <1>1, <2>1 DEF Dangling, LinkedTo, TypeOK
  <2>. QED  BY <2>2, <2>3, OccurrencesPositive
<1>. HIDE DEF left
<1>. QED  BY <1>1, <1>2, <1>3, <1>4, NextUnlinkResolves

\* A component that no longer has the link is taken off the list.
LEMMA GetDCResolves ==
    ASSUME IInv, NEW p \in Clients, Resolves(p), GetDC(p)
    PROVE  Resolves(p)'
<1>. DEFINE links == envFrom[cmd[p].cmp]
<1>1. TypeOK /\ CommandInv(p) /\ pc[p] = "get" /\ cmd[p] \in Command /\ UNCHANGED cluster
  BY DEF IInv, TypeOK, GetDC, At
<1>2. CASE Goto(p, "patch") /\ UNCHANGED <<cmd, todo>>
  <2>1. pc'[p] = "patch" /\ Op(p)' = Op(p) /\ Sec(p)' = Sec(p) /\ todo' = todo
    BY <1>1, <1>2 DEF TypeOK, Goto, Op, Sec
  <2>2. \A c \in Components : Dangling(c)' = Dangling(c)
    BY <1>1 DEF Dangling, LinkedTo, cluster
  <2>3. \A c \in Components, s \in Services : Unlinking(p, c, s) => Unlinking(p, c, s)'
    BY <1>1, <2>1 DEF Unlinking
  <2>4. Linking(p)' => Linking(p)  BY <1>1, <2>1 DEF Linking
  <2>5. \A c \in Components : Dangling(c) \subseteq Services  BY DEF Dangling
  <2>. QED  BY <1>1, <2>1, <2>2, <2>3, <2>4, <2>5 DEF Resolves, cluster
<1>3. CASE Op(p) # "link" /\ ~Contains(links, Sec(p)) /\ OnError(p)
  <2>1. CASE Op(p) = "delete"
    <3>. DEFINE left == [todo[p] EXCEPT ![cmd[p].cmp] = @ - 1]
    <3>1. /\ todo[p] \in [Components -> Nat] /\ cmd[p].cmp \in Components
          /\ todo[p][cmd[p].cmp] > 0
      BY <1>1, <2>1 DEF TypeOK, Command, CommandInv
    <3>2. left \in [Components -> Nat]  BY <3>1
    <3>3. NextUnlink(p, left)  BY <1>1, <1>3, <2>1 DEF OnError
    <3>4. ASSUME NEW c \in Components, NEW s \in Dangling(c)'
          PROVE  s = Sec(p) /\ left[c] > 0
      <4>1. s \in Dangling(c)  BY <1>1, <3>4 DEF Dangling, LinkedTo, cluster
      <4>2. s = Sec(p) /\ todo[p][c] > 0  BY <1>1, <4>1 DEF Resolves, Unlinking
      <4>3. c # cmd[p].cmp
        <5>1. s \in ToSet(envFrom[c])  BY <4>1 DEF Dangling, LinkedTo
        <5>2. envFrom[c] \in Seq(Secrets)  BY <1>1 DEF TypeOK
        <5>. QED  BY <1>3, <4>2, <5>1, <5>2 DEF Contains, ToSet
      <4>. QED  BY <3>1, <4>2, <4>3
    <3>. HIDE DEF left
    <3>. QED  BY <1>1, <2>1, <3>2, <3>3, <3>4, NextUnlinkResolves
  <2>2. CASE Op(p) # "delete"
    <3>1. Done(p)  BY <1>1, <1>3, <2>2 DEF OnError
    <3>2. pc'[p] = "idle"  BY <1>1, <3>1 DEF TypeOK, Done
    <3>. QED  BY <1>1, <2>2, <3>2, CalmStep DEF Linking, cluster
  <2>. QED  BY <2>1, <2>2
<1>. QED  BY <1>2, <1>3 DEF GetDC

\* A link is made to a service that is there; a removal takes the component off
\* the list.
LEMMA PatchDCResolves ==
    ASSUME IInv, alone, NEW p \in Clients, Resolves(p), PatchDC(p)
    PROVE  Resolves(p)'
<1>. DEFINE links == envFrom[cmd[p].cmp]
            new == envFrom'[cmd[p].cmp]
<1>1. /\ TypeOK /\ CommandInv(p) /\ pc[p] = "patch"
      /\ cmd[p].cmp \in Components /\ instances' = instances
  BY DEF IInv, TypeOK, PatchDC, At, Command
<1>2. \A c \in Components \ {cmd[p].cmp} : envFrom'[c] = envFrom[c]  BY PatchedLinks
<1>3. \A c \in Components \ {cmd[p].cmp} : Dangling(c)' = Dangling(c)
  BY <1>1, <1>2 DEF Dangling, LinkedTo
<1>4. CASE Op(p) = "delete"
  <2>. DEFINE left == [todo[p] EXCEPT ![cmd[p].cmp] = @ - 1]
  <2>1. todo[p] \in [Components -> Nat] /\ todo[p][cmd[p].cmp] > 0
    BY <1>1, <1>4 DEF TypeOK, CommandInv
  <2>2. left \in [Components -> Nat] /\ \A c \in Components \ {cmd[p].cmp} : left[c] = todo[p][c]
    BY <1>1, <2>1
  <2>3. NextUnlink(p, left)  BY <1>4 DEF PatchDC, AfterPatch
  <2>4. ToSet(new) \subseteq ToSet(links) \ {Sec(p)}  BY <1>4, PatchedSets
  <2>5. \A c \in Components : \A s \in Dangling(c) : s = Sec(p) /\ todo[p][c] > 0
    BY <1>1 DEF Resolves, Unlinking
  <2>6. \A c \in Components : c = cmd[p].cmp => Dangling(c)' = {}
    BY <1>1, <2>4, <2>5 DEF Dangling, LinkedTo
  <2>7. \A c \in Components : \A s \in Dangling(c)' : s = Sec(p) /\ left[c] > 0
    <3>. HIDE DEF left
    <3>. QED  BY <1>3, <2>2, <2>5, <2>6
  <2>. HIDE DEF left
  <2>. QED  BY <1>1, <1>4, <2>2, <2>3, <2>7, NextUnlinkResolves
<1>5. CASE Op(p) # "delete"
  <2>1. pc'[p] = "idle"  BY <1>1, <1>5 DEF PatchDC, AfterPatch, Done, TypeOK
  <2>2. \A c \in Components : Dangling(c) = {}  BY <1>5 DEF Resolves, Unlinking
  <2>3. Op(p) = "link" /\ Sec(p) \in Services => Sec(p) \in instances
    BY <1>1 DEF Resolves, Linking
  <2>4. \A c \in Components : c = cmd[p].cmp => Dangling(c)' = {}
    <3>1. CASE Op(p) = "link"
      <4>1. ToSet(new) \subseteq ToSet(links) \union {Sec(p)}  BY <3>1, PatchedSets
      <4>. QED  BY <1>1, <2>2, <2>3, <3>1, <4>1 DEF Dangling, LinkedTo
    <3>2. CASE Op(p) # "link"
      <4>1. ToSet(new) \subseteq ToSet(links)  BY <3>2, PatchedSets
      <4>. QED  BY <1>1, <2>2, <4>1 DEF Dangling, LinkedTo
    <3>. QED  BY <3>1, <3>2
  <2>. QED  BY <1>3, <2>1, <2>2, <2>4 DEF Resolves, Linking
<1>. QED  BY <1>4, <1>5

\* A command's step leaves the other clients where they are.
LEMMA OthersWait ==
    ASSUME IInv, NEW p \in Clients, Start(p) \/ Step(p)
    PROVE  \A q \in Clients \ {p} : pc'[q] = pc[q]
<1>. USE DEF IInv, TypeOK
<1>1. ASSUME NEW left, NextUnlink(p, left)
      PROVE  \A q \in Clients \ {p} : pc'[q] = pc[q]
  BY <1>1 DEF NextUnlink, Done, Goto
<1>2. ASSUME OnError(p)
      PROVE  \A q \in Clients \ {p} : pc'[q] = pc[q]
  BY <1>1, <1>2 DEF OnError, Done, Goto
<1>3. CASE Start(p) \/ Reads(p)
  BY <1>3 DEF Start, Reads, Exists, WaitAndGetSecret, ListInstances,
              GetServiceBinding, GetSecret, Linked, Goto
<1>4. CASE \/ CreateServiceInstance(p) \/ CreateServiceBinding(p)
           \/ DeleteBinding(p) \/ DeleteInstance(p)
  BY <1>4 DEF CreateServiceInstance, CreateServiceBinding, DeleteBinding,
              DeleteInstance, Goto
<1>5. CASE CreateRefused(p) \/ DeleteRefused(p) \/ PatchRefused(p)
  BY <1>2, <1>5 DEF CreateRefused, DeleteRefused, PatchRefused
<1>6. CASE ListDCs(p) \/ GetDC(p) \/ PatchDC(p)
  BY <1>1, <1>2, <1>6 DEF ListDCs, GetDC, PatchDC, AfterPatch, Done, Goto
<1>. QED  BY <1>3, <1>4, <1>5, <1>6 DEF Step, Reads

\* A step of a command that fails is a fault, and nothing is said after one.
LEMMA StepResolves ==
    ASSUME IInv, ResolveInv, [Next]_vars
    PROVE  ResolveInv'
<1>1. CASE UNCHANGED vars \/ Catalog
  <2>1. UNCHANGED <<instances, envFrom, cmd, pc, todo, alone, faults>>
    BY <1>1 DEF vars, cluster, Catalog, Provision, Unbind
  <2>. QED
    BY <2>1 DEF ResolveInv, Dangling, LinkedTo, Unlinking, Linking, Op, Sec
<1>2. ASSUME NEW p \in Clients, Start(p) \/ Step(p) \/ ApiError(p) \/ Interrupt(p)
      PROVE  ResolveInv'
  <2>1. CASE ApiError(p) \/ Interrupt(p)
    <3>1. faults' # 0  BY <2>1, ServiceLinkAssumption DEF IInv, TypeOK, ApiError, Interrupt
    <3>. QED  BY <3>1 DEF ResolveInv
  <2>2. CASE Start(p) \/ Step(p)
    <3>1. faults' = faults
      BY <2>2 DEF Start, Step, Exists, CreateServiceInstance, CreateServiceBinding,
           CreateRefused, WaitAndGetSecret, ListInstances, DeleteBinding, DeleteInstance,
           DeleteRefused, ListDCs, GetServiceBinding, GetSecret, Linked, GetDC,
           PatchDC, PatchRefused
    <3>0. alone' => alone /\ \A q \in Clients \ {p} : pc[q] = "idle"
      <4>1. CASE Start(p)  BY <4>1 DEF Start, At
      <4>2. CASE Step(p)
        <5>1. alone' = alone /\ pc[p] # "idle"
          BY <4>2 DEF Step, Exists, CreateServiceInstance, CreateServiceBinding,
             CreateRefused, WaitAndGetSecret, ListInstances, DeleteBinding,
             DeleteInstance, DeleteRefused, ListDCs, GetServiceBinding, GetSecret,
             Linked, GetDC, PatchDC, PatchRefused, At
        <5>. QED  BY <5>1, BusyAlone DEF OthersIdle
      <4>. QED  BY <2>2, <4>1, <4>2
    <3>2. SUFFICES ASSUME alone, alone', faults' = 0, Resolves(p) PROVE Resolves(p)'
      <4>1. SUFFICES ASSUME alone', faults' = 0 PROVE ResolveInv'
        BY DEF ResolveInv
      <4>2. Resolves(p)  BY <3>0, <3>1, <4>1, ResolvesAlone
      <4>3. Resolves(p)'  BY <3>0, <4>1, <4>2
      <4>4. \A q \in Clients \ {p} : pc'[q] = "idle"
        BY <2>2, <3>0, <4>1, OthersWait
      <4>5. \A q \in Clients \ {p} : ~Linking(q)'  BY <4>4 DEF Linking
      <4>. QED  BY <4>3, <4>5 DEF ResolveInv, Resolves
    <3>3. CASE DeleteInstance(p)  BY <3>2, <3>3, DeleteInstanceResolves
    <3>4. CASE ListDCs(p)  BY <3>2, <3>4, ListDCsResolves
    <3>5. CASE GetDC(p)  BY <3>2, <3>5, GetDCResolves
    <3>6. CASE PatchDC(p)  BY <3>2, <3>6, PatchDCResolves
    <3>7. ~PatchRefused(p)  BY <3>2, PatchAloneApplies DEF PatchRefused
    <3>. QED
      BY <2>2, <3>2, <3>3, <3>4, <3>5, <3>6, <3>7, QuietResolves DEF Step, Reads
  <2>. QED  BY <1>2, <2>1, <2>2
<1>. QED  BY <1>1, <1>2 DEF Next

----------------------------------------------------------------------------
(* Theorems *)

\* A cluster without services and links satisfies the invariant.
LEMMA InitInv == Init => IInv
<1>1. SUFFICES ASSUME Init PROVE IInv  OBVIOUS
<1>2. NoCommand \in Command
  <2>1. \E s \in Secrets, c \in Components :
           [op |-> "create", sec |-> s, cmp |-> c, wait |-> TRUE] \in Command
    BY ServiceLinkAssumption DEF Command, Secrets
  <2>. QED  BY <2>1 DEF NoCommand
<1>3. <<>> \in Seq(Secrets)  OBVIOUS
<1>4. TypeOK
  BY <1>1, <1>2, <1>3, ServiceLinkAssumption DEF Init, TypeOK, Labels, NothingToDo
<1>5. BindingHasInstance /\ OwnerInv
  BY <1>1 DEF Init, BindingHasInstance, OwnerInv, Owns, OwnerLabels
<1>6. \A p \in Clients : CommandInv(p) /\ SnapInv(p)
  BY <1>1 DEF Init, CommandInv, SnapInv
<1>7. AloneInv /\ NoDoubleLink  BY <1>1 DEF Init, AloneInv, At, NoDoubleLink, LinkedOnce
<1>. QED  BY <1>4, <1>5, <1>6, <1>7 DEF IInv

\* No action of a client or of the catalog breaks the invariant.
LEMMA StepInv == IInv /\ [Next]_vars => IInv'
<1>1. SUFFICES ASSUME IInv, [Next]_vars PROVE IInv'  OBVIOUS
<1>2. CASE UNCHANGED vars
  <2>1. TypeOK' /\ BindingHasInstance' /\ OwnerInv'
    BY <1>1, <1>2 DEF IInv, TypeOK, BindingHasInstance, OwnerInv, Owns, Sec, vars, cluster
  <2>2. \A p \in Clients : CommandInv(p)' /\ SnapInv(p)'
    BY <1>1, <1>2 DEF IInv, CommandInv, SnapInv, Op, Sec, vars, cluster
  <2>3. AloneInv' /\ NoDoubleLink'
    BY <1>1, <1>2 DEF IInv, AloneInv, At, NoDoubleLink, LinkedOnce, vars, cluster
  <2>. QED  BY <2>1, <2>2, <2>3 DEF IInv
<1>3. CASE Catalog  BY <1>1, <1>3, CatalogKeeps
<1>4. ASSUME NEW p \in Clients, Start(p) \/ Step(p) \/ ApiError(p) \/ Interrupt(p)
      PROVE  IInv'
  <2>1. CASE Start(p)  BY <1>1, <2>1, StartKeeps
  <2>2. CASE Reads(p)  BY <1>1, <2>2, ReadsKeep
  <2>3. CASE CreateServiceInstance(p)
    BY <1>1, <2>3, CreateServiceInstanceKeeps
  <2>4. CASE CreateServiceBinding(p)
    BY <1>1, <2>4, CreateServiceBindingKeeps
  <2>5. CASE DeleteBinding(p)  BY <1>1, <2>5, DeleteBindingKeeps
  <2>6. CASE DeleteInstance(p)  BY <1>1, <2>6, DeleteInstanceKeeps
  <2>7. CASE ListDCs(p)  BY <1>1, <2>7, ListDCsKeeps
  <2>8. CASE GetDC(p)  BY <1>1, <2>8, GetDCKeeps
  <2>9. CASE PatchDC(p)  BY <1>1, <2>9, PatchDCKeeps
  <2>10. CASE \/ CreateRefused(p) \/ DeleteRefused(p) \/ PatchRefused(p)
              \/ ApiError(p) \/ Interrupt(p)
    BY <1>1, <2>10, FailuresKeep
  <2>. QED
    BY <1>4, <2>1, <2>2, <2>3, <2>4, <2>5, <2>6, <2>7, <2>8, <2>9, <2>10
       DEF Step, Reads
<1>. QED  BY <1>1, <1>2, <1>3, <1>4 DEF Next

\* The inductive invariant holds in every state.
THEOREM Inductive == Spec => []IInv
<1>. QED  BY InitInv, StepInv, PTL DEF Spec

\* Every variable of the commands and of the cluster keeps its type.
THEOREM TypeCorrect == Spec => []TypeOK
<1>1. IInv => TypeOK  BY DEF IInv
<1>. QED  BY Inductive, <1>1, PTL

\* However many clients create and delete services at once, and wherever their
\* commands fail, no ServiceBinding is left without its ServiceInstance.
THEOREM BindingsKeepTheirInstance == Spec => []BindingHasInstance
<1>1. IInv => BindingHasInstance  BY DEF IInv
<1>. QED  BY Inductive, <1>1, PTL

\* Two clients are never both between the two calls that create or delete the
\* same service: the API server's refusals are lock enough.
THEOREM ServicesHaveOneOwner == Spec => []OwnerInv
<1>1. IInv => OwnerInv  BY DEF IInv
<1>. QED  BY Inductive, <1>1, PTL

\* As long as commands come one after the other, failed ones included, `odo link`
\* never links a secret twice.
THEOREM LinksAreUnique == Spec => []NoDoubleLink
<1>1. IInv => NoDoubleLink  BY DEF IInv
<1>. QED  BY Inductive, <1>1, PTL

\* As long as commands come one after the other, a patch takes away no link but
\* the one its command names.
THEOREM UnlinkRemovesItsLink ==
    Spec => [][alone => \A c \in Components : \A s \in LinkedTo(c) \ LinkedTo(c)' :
                  \E p \in Clients : /\ At(p, "patch")
                                     /\ Op(p) \in {"unlink", "delete"}
                                     /\ Sec(p) = s /\ cmd[p].cmp = c]_vars
<1>. DEFINE Asked ==
       \A c \in Components : \A s \in LinkedTo(c) \ LinkedTo(c)' :
          \E p \in Clients : /\ At(p, "patch")
                             /\ Op(p) \in {"unlink", "delete"}
                             /\ Sec(p) = s /\ cmd[p].cmp = c
<1>1. ASSUME alone, IInv, Next
      PROVE  Asked
  <2>1. CASE UNCHANGED envFrom  BY <2>1 DEF LinkedTo
  <2>2. CASE \E p \in Clients : PatchDC(p)
    <3>1. PICK p \in Clients : PatchDC(p)  BY <2>2
    <3>2. SUFFICES ASSUME NEW c \in Components,
                          NEW s \in LinkedTo(c) \ LinkedTo(c)'
                   PROVE  /\ At(p, "patch")
                          /\ Op(p) \in {"unlink", "delete"}
                          /\ Sec(p) = s /\ cmd[p].cmp = c
      OBVIOUS
    <3>3. c = cmd[p].cmp
      BY <1>1, <3>1, <3>2, PatchedLinks DEF LinkedTo
    <3>4. Op(p) # "link" /\ s = Sec(p)
      BY <1>1, <3>1, <3>2, <3>3, PatchAlone DEF LinkedTo
    <3>5. At(p, "patch") /\ Op(p) \in {"unlink", "delete"}
      BY <1>1, <3>1, <3>4 DEF IInv, CommandInv, TypeOK, Command, PatchDC, At, Op
    <3>. QED  BY <3>3, <3>4, <3>5
  <2>3. UNCHANGED envFrom \/ \E p \in Clients : PatchDC(p)
    BY <1>1
       DEF Next, Step, cluster, Catalog, Provision, Unbind, Start, Exists,
           CreateServiceInstance, CreateServiceBinding, CreateRefused,
           WaitAndGetSecret, ListInstances, DeleteBinding, DeleteInstance,
           DeleteRefused, ListDCs, GetServiceBinding, GetSecret, Linked, GetDC,
           PatchRefused, ApiError, Interrupt
  <2>. QED  BY <2>1, <2>2, <2>3
<1>2. IInv /\ Next => (alone => Asked)  BY <1>1
<1>. QED  BY Inductive, <1>2, PTL DEF Spec

\* As long as commands come one after the other and none has failed, a link whose service is
\* gone is on the list of the running deletion.
THEOREM DanglingLinksAreListed == Spec => []ResolveInv
<1>1. Init => ResolveInv
  <2>1. SUFFICES ASSUME Init PROVE ResolveInv  OBVIOUS
  <2>2. \A c \in Components : Dangling(c) = {}
    BY <2>1 DEF Init, Dangling, LinkedTo, ToSet
  <2>. QED  BY <2>1, <2>2 DEF Init, ResolveInv, Linking
<1>2. IInv /\ ResolveInv /\ [Next]_vars => ResolveInv'
  BY StepResolves
<1>. QED  BY Inductive, <1>1, <1>2, PTL DEF Spec

\* As long as commands come one after the other and none has failed, every
\* component that is linked to a service finds it there when no command runs:
\* `odo service delete` unlinks them all.
THEOREM LinkedServicesExist == Spec => []LinksResolve
<1>1. ResolveInv => LinksResolve
  BY DEF ResolveInv, LinksResolve, Dangling, Unlinking, At
<1>. QED  BY DanglingLinksAreListed, <1>1, PTL

============================================================================
