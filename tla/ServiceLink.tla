---------------------------- MODULE ServiceLink ----------------------------
(***************************************************************************)
(* Services of the catalog and the links of components to secrets:         *)
(* `odo service create`, `odo service delete`, `odo link`, `odo unlink`    *)
(* (pkg/service, pkg/odo/cli/service, pkg/odo/cli/component/*link.go and   *)
(* the calls of pkg/occlient they make).                                   *)
(*                                                                         *)
(* Every odo command is a process of its own that talks to the cluster one *)
(* API call at a time; nothing locks the objects between two calls, and    *)
(* several users can run commands at once.  One step is one API call.  A   *)
(* call can fail (ApiError) and a command can be interrupted (Interrupt).  *)
(*                                                                         *)
(* A link is an entry of envFrom in the component's DeploymentConfig.  A   *)
(* secret bears the name of its service; a component's own secret, created *)
(* with the component, is in ComponentSecrets.  The cluster removes an     *)
(* object as soon as its deletion is accepted.                             *)
(***************************************************************************)
EXTENDS Integers, Sequences, SequencesExt, FiniteSets

CONSTANTS Clients,           \* odo processes, each running commands in turn
          Components,        \* the application's components
          Services,          \* names of services
          ComponentSecrets,  \* secrets that components are linked through
          MaxCommands,       \* bound: commands started
          MaxFaults          \* bound: failed calls and interrupted commands

ASSUME ServiceLinkAssumption ==
    /\ Services \cap ComponentSecrets = {}
    /\ Services \union ComponentSecrets # {} /\ Components # {}
    /\ MaxCommands \in Nat
    /\ MaxFaults \in Nat

VARIABLES
    instances,   \* services that have a ServiceInstance
    bindings,    \* services that have a ServiceBinding
    secrets,     \* services whose secret the catalog has created
    envFrom,     \* envFrom of each component's DeploymentConfig, in order
    cmd,         \* the command of each client
    pc,          \* the next call of each client
    snap,        \* envFrom as the client's Get returned it
    todo,        \* links a service deletion has still to remove, by component
    started,
    alone,       \* no command has yet been started while another one ran
    faults

cluster == <<instances, bindings, secrets, envFrom>>
vars == <<cluster, cmd, pc, snap, todo, started, alone, faults>>

Secrets == Services \union ComponentSecrets
Command == [op : {"create", "delete", "link", "unlink"}, sec : Secrets,
            cmp : Components, wait : BOOLEAN]

\* What users run.  Where a field means nothing to a command it has one value.
AnyComponent == CHOOSE c \in Components : TRUE
Commands ==
    {k \in Command : /\ k.op \in {"create", "delete"} =>
                          k.sec \in Services /\ k.cmp = AnyComponent
                     /\ k.op \in {"delete", "unlink"} => ~k.wait}
Labels == {"idle", "exists", "createInstance", "createBinding", "waitSecret",
           "listInstances", "deleteBinding", "deleteInstance", "listDCs",
           "getBinding", "getSecret", "linked", "get", "patch"}

TypeOK ==
    /\ instances \in SUBSET Services
    /\ bindings \in SUBSET Services
    /\ secrets \in SUBSET Services
    /\ envFrom \in [Components -> Seq(Secrets)]
    /\ cmd \in [Clients -> Command]
    /\ pc \in [Clients -> Labels]
    /\ snap \in [Clients -> Seq(Secrets)]
    /\ todo \in [Clients -> [Components -> Nat]]
    /\ started \in 0..MaxCommands
    /\ alone \in BOOLEAN
    /\ faults \in 0..MaxFaults

NothingToDo == [c \in Components |-> 0]

NoCommand == CHOOSE k \in Command : TRUE

Init ==
    /\ instances = {} /\ bindings = {} /\ secrets = {}
    /\ envFrom = [c \in Components |-> <<>>]
    /\ cmd = [p \in Clients |-> NoCommand]
    /\ pc = [p \in Clients |-> "idle"]
    /\ snap = [p \in Clients |-> <<>>]
    /\ todo = [p \in Clients |-> NothingToDo]
    /\ started = 0
    /\ alone = TRUE
    /\ faults = 0

At(p, label) == pc[p] = label
Goto(p, label) == pc' = [pc EXCEPT ![p] = label]
Sec(p) == cmd[p].sec
Op(p) == cmd[p].op

\* The command ends.
Done(p) ==
    /\ pc' = [pc EXCEPT ![p] = "idle"]
    /\ snap' = [snap EXCEPT ![p] = <<>>]
    /\ todo' = [todo EXCEPT ![p] = NothingToDo]

\* Mutant: every DeploymentConfig is patched, linked or not.
NextUnlink_WithoutLinks(p, left) ==
    \E c \in Components :
        /\ cmd' = [cmd EXCEPT ![p].cmp = c]
        /\ todo' = [todo EXCEPT ![p] = left]
        /\ snap' = [snap EXCEPT ![p] = <<>>]
        /\ Goto(p, "get")

\* A service deletion goes on with the next DeploymentConfig that had a link.
NextUnlink(p, left) ==
    IF \E c \in Components : left[c] > 0
    THEN \E c \in Components :
            /\ left[c] > 0
            /\ cmd' = [cmd EXCEPT ![p].cmp = c]
            /\ todo' = [todo EXCEPT ![p] = left]
            /\ snap' = [snap EXCEPT ![p] = <<>>]
            /\ Goto(p, "get")
    ELSE Done(p) /\ UNCHANGED cmd

\* Mutant: a deletion tries the component it could not unlink again.
OnError_Retries(p) ==
    \/ Op(p) = "delete" /\ NextUnlink(p, todo[p])
    \/ Op(p) # "delete" /\ Done(p) /\ UNCHANGED cmd

\* What a command does when a call returned an error.  Run of `service create
\* --wait` waits for the secret even when CreateService failed; a deletion only
\* warns about a component it could not unlink; the others end.
OnError(p) ==
    \/ /\ Op(p) = "create" /\ cmd[p].wait
       /\ pc[p] \in {"createInstance", "createBinding"}
       /\ Goto(p, "waitSecret")
       /\ UNCHANGED <<cmd, snap, todo>>
    \/ /\ Op(p) = "delete" /\ pc[p] \in {"get", "patch"}
       /\ NextUnlink(p, [todo[p] EXCEPT ![cmd[p].cmp] = @ - 1])
    \/ /\ ~(Op(p) = "create" /\ cmd[p].wait
              /\ pc[p] \in {"createInstance", "createBinding"})
       /\ ~(Op(p) = "delete" /\ pc[p] \in {"get", "patch"})
       /\ Done(p)
       /\ UNCHANGED cmd

\* A client starts a command on any service, secret and component.
Start(p) ==
    /\ At(p, "idle")
    /\ started < MaxCommands
    /\ started' = started + 1
    /\ alone' = (alone /\ \A q \in Clients : At(q, "idle"))
    /\ \E k \in Commands : cmd' = [cmd EXCEPT ![p] = k]
    /\ Goto(p, "exists")
    /\ UNCHANGED <<cluster, snap, todo, faults>>

LinkedTo(c) == ToSet(envFrom[c])

\* component.Exists gets the secret of every link of every component of the
\* application, and fails when one is not there.
ComponentsReadable ==
    \A c \in Components : LinkedTo(c) \subseteq secrets \union ComponentSecrets

\* SvcExists: creating needs a new name, deleting and linking a known one.  A
\* component's secret is not a service, and needs no binding.
Exists(p) ==
    /\ At(p, "exists")
    /\ \/ /\ Op(p) = "create" /\ Sec(p) \notin instances
          /\ Goto(p, "createInstance")
       \/ /\ Op(p) = "delete" /\ Sec(p) \in instances
          /\ Goto(p, "listInstances")
       \/ /\ Op(p) \in {"link", "unlink"} /\ ComponentsReadable
          /\ Sec(p) \in instances
          /\ Goto(p, "getBinding")
       \/ /\ Op(p) \in {"link", "unlink"} /\ ComponentsReadable
          /\ Sec(p) \in ComponentSecrets
          /\ Goto(p, IF Op(p) = "link" THEN "linked" ELSE "get")
       \/ /\ \/ Op(p) = "create" /\ Sec(p) \in instances
             \/ Op(p) # "create" /\ Sec(p) \in Services \ instances
             \/ Op(p) \in {"link", "unlink"} /\ ~ComponentsReadable
          /\ Goto(p, "idle")
    /\ UNCHANGED <<cluster, cmd, snap, todo, started, alone, faults>>

----------------------------------------------------------------------------
(* odo service create *)

CreateServiceInstance(p) ==
    /\ At(p, "createInstance")
    /\ Sec(p) \notin instances
    /\ instances' = instances \union {Sec(p)}
    /\ Goto(p, "createBinding")
    /\ UNCHANGED <<bindings, secrets, envFrom, cmd, snap, todo, started, alone, faults>>

CreateServiceBinding(p) ==
    /\ At(p, "createBinding")
    /\ Sec(p) \notin bindings
    /\ bindings' = bindings \union {Sec(p)}
    /\ Goto(p, IF cmd[p].wait THEN "waitSecret" ELSE "idle")
    /\ UNCHANGED <<instances, secrets, envFrom, cmd, snap, todo, started, alone, faults>>

\* Mutant: an instance that exists already is as good as a new one.
CreateRefused_Adopts(p) ==
    /\ At(p, "createInstance")
    /\ Sec(p) \in instances
    /\ Goto(p, "createBinding")
    /\ UNCHANGED <<cluster, cmd, snap, todo, started, alone, faults>>

\* The name is taken: AlreadyExists.
CreateRefused(p) ==
    /\ \/ At(p, "createInstance") /\ Sec(p) \in instances
       \/ At(p, "createBinding") /\ Sec(p) \in bindings
    /\ OnError(p)
    /\ UNCHANGED <<cluster, started, alone, faults>>

\* WaitAndGetSecret has no timeout.
WaitAndGetSecret(p) ==
    /\ At(p, "waitSecret")
    /\ Sec(p) \in secrets
    /\ Goto(p, IF Op(p) = "link" THEN "linked" ELSE "idle")
    /\ UNCHANGED <<cluster, cmd, snap, todo, started, alone, faults>>

----------------------------------------------------------------------------
(* odo service delete *)

\* GetServiceInstanceList: nothing is deleted when the list is empty, but the
\* components are unlinked all the same.
ListInstances(p) ==
    /\ At(p, "listInstances")
    /\ Goto(p, IF Sec(p) \in instances THEN "deleteBinding" ELSE "listDCs")
    /\ UNCHANGED <<cluster, cmd, snap, todo, started, alone, faults>>

DeleteBinding(p) ==
    /\ At(p, "deleteBinding")
    /\ Sec(p) \in bindings
    /\ bindings' = bindings \ {Sec(p)}
    /\ Goto(p, "deleteInstance")
    /\ UNCHANGED <<instances, secrets, envFrom, cmd, snap, todo, started, alone, faults>>

DeleteInstance(p) ==
    /\ At(p, "deleteInstance")
    /\ Sec(p) \in instances
    /\ instances' = instances \ {Sec(p)}
    /\ Goto(p, "listDCs")
    /\ UNCHANGED <<bindings, secrets, envFrom, cmd, snap, todo, started, alone, faults>>

\* Mutant: a binding that is not there is as good as deleted.
DeleteRefused_NotFoundIsFine(p) ==
    /\ At(p, "deleteBinding")
    /\ Sec(p) \notin bindings
    /\ Goto(p, "deleteInstance")
    /\ UNCHANGED <<cluster, cmd, snap, todo, started, alone, faults>>

\* NotFound: DeleteServiceInstance returns the error.
DeleteRefused(p) ==
    /\ \/ At(p, "deleteBinding") /\ Sec(p) \notin bindings
       \/ At(p, "deleteInstance") /\ Sec(p) \notin instances
    /\ OnError(p)
    /\ UNCHANGED <<cluster, started, alone, faults>>

Occurrences(s, links) == Cardinality({i \in DOMAIN links : links[i] = s})

\* The DeploymentConfigs are listed once; UnlinkSecret is then called for every
\* link found in the list.
ListDCs(p) ==
    /\ At(p, "listDCs")
    /\ NextUnlink(p, [c \in Components |-> Occurrences(Sec(p), envFrom[c])])
    /\ UNCHANGED <<cluster, started, alone, faults>>

----------------------------------------------------------------------------
(* odo link, odo unlink, and patchDCOfComponent *)

GetServiceBinding(p) ==
    /\ At(p, "getBinding")
    /\ Goto(p, IF Sec(p) \notin bindings THEN "idle"
               ELSE IF Op(p) = "link" /\ cmd[p].wait THEN "waitSecret"
               ELSE "getSecret")
    /\ UNCHANGED <<cluster, cmd, snap, todo, started, alone, faults>>

GetSecret(p) ==
    /\ At(p, "getSecret")
    /\ Goto(p, IF Sec(p) \notin secrets THEN "idle"
               ELSE IF Op(p) = "link" THEN "linked" ELSE "get")
    /\ UNCHANGED <<cluster, cmd, snap, todo, started, alone, faults>>

\* Mutant: only the first entry of envFrom is looked at.
Linked_FirstOnly(p) ==
    /\ At(p, "linked")
    /\ LET links == envFrom[cmd[p].cmp] IN
       Goto(p, IF links # <<>> /\ Head(links) = Sec(p) THEN "idle" ELSE "get")
    /\ UNCHANGED <<cluster, cmd, snap, todo, started, alone, faults>>

\* GetComponentLinkedSecretNames: Validate refuses a second link.
Linked(p) ==
    /\ At(p, "linked")
    /\ Goto(p, IF Contains(envFrom[cmd[p].cmp], Sec(p)) THEN "idle" ELSE "get")
    /\ UNCHANGED <<cluster, cmd, snap, todo, started, alone, faults>>

\* patchDCOfComponent reads the DeploymentConfig and computes the patch from
\* what it read.  There is no patch for a link that is not there.
GetDC(p) ==
    /\ At(p, "get")
    /\ \/ /\ Op(p) = "link" \/ Contains(envFrom[cmd[p].cmp], Sec(p))
          /\ snap' = [snap EXCEPT ![p] = envFrom[cmd[p].cmp]]
          /\ Goto(p, "patch")
          /\ UNCHANGED <<cmd, todo>>
       \/ /\ Op(p) # "link" /\ ~Contains(envFrom[cmd[p].cmp], Sec(p))
          /\ OnError(p)
    /\ UNCHANGED <<cluster, started, alone, faults>>

\* The patch of LinkSecret: add at envFrom/0, or add the whole envFrom when the
\* DeploymentConfig that was read had none.
LinkPatch(p, links) ==
    IF snap[p] = <<>> THEN <<Sec(p)>> ELSE <<Sec(p)>> \o links

\* The patch of UnlinkSecret: remove at the index the secret had when read.
FirstIndex(s, links) ==
    CHOOSE i \in DOMAIN links :
        links[i] = s /\ \A j \in DOMAIN links : links[j] = s => i <= j

UnlinkPatch(p, links) == RemoveAt(links, FirstIndex(Sec(p), snap[p]))

\* The API server rejects a patch whose path does not exist.
PatchApplies(p) ==
    LET links == envFrom[cmd[p].cmp] IN
    IF Op(p) = "link" THEN snap[p] # <<>> => links # <<>>
    ELSE FirstIndex(Sec(p), snap[p]) <= Len(links)

\* Mutant: a deletion ends with the first component it unlinked.
AfterPatch_StopsAtFirst(p) == Done(p) /\ UNCHANGED cmd

\* After its patch, a deletion goes on with its list.
AfterPatch(p) ==
    IF Op(p) = "delete" THEN NextUnlink(p, [todo[p] EXCEPT ![cmd[p].cmp] = @ - 1])
    ELSE Done(p) /\ UNCHANGED cmd

PatchDC(p) ==
    /\ At(p, "patch")
    /\ PatchApplies(p)
    /\ envFrom' = [envFrom EXCEPT ![cmd[p].cmp] =
                      IF Op(p) = "link" THEN LinkPatch(p, @) ELSE UnlinkPatch(p, @)]
    /\ AfterPatch(p)
    /\ UNCHANGED <<instances, bindings, secrets, started, alone, faults>>

PatchRefused(p) ==
    /\ At(p, "patch")
    /\ ~PatchApplies(p)
    /\ OnError(p)
    /\ UNCHANGED <<cluster, started, alone, faults>>

----------------------------------------------------------------------------
(* Failures, the catalog and the whole *)

\* The next call of the command returns an error and has no effect.
ApiError(p) ==
    /\ pc[p] \notin {"idle"}
    /\ faults < MaxFaults
    /\ faults' = faults + 1
    /\ OnError(p)
    /\ UNCHANGED <<cluster, started, alone>>

\* The user interrupts the command, or its machine goes down.
Interrupt(p) ==
    /\ pc[p] \notin {"idle"}
    /\ faults < MaxFaults
    /\ faults' = faults + 1
    /\ Done(p)
    /\ UNCHANGED <<cluster, cmd, started, alone>>

\* The service catalog: a bound instance gets a secret once it is provisioned,
\* and the secret goes away with the binding.
Provision(s) ==
    /\ s \in instances \cap bindings
    /\ s \notin secrets
    /\ secrets' = secrets \union {s}
    /\ UNCHANGED <<instances, bindings, envFrom, cmd, pc, snap, todo, started, alone, faults>>

Unbind(s) ==
    /\ s \in secrets \ bindings
    /\ secrets' = secrets \ {s}
    /\ UNCHANGED <<instances, bindings, envFrom, cmd, pc, snap, todo, started, alone, faults>>

Catalog == \E s \in Services : Provision(s) \/ Unbind(s)

\* What the process does once started.
Step(p) ==
    \/ Exists(p) \/ CreateServiceInstance(p) \/ CreateServiceBinding(p)
    \/ CreateRefused(p) \/ WaitAndGetSecret(p) \/ ListInstances(p)
    \/ DeleteBinding(p) \/ DeleteInstance(p) \/ DeleteRefused(p) \/ ListDCs(p)
    \/ GetServiceBinding(p) \/ GetSecret(p) \/ Linked(p) \/ GetDC(p)
    \/ PatchDC(p) \/ PatchRefused(p)

Next ==
    \/ Catalog
    \/ \E p \in Clients : Start(p) \/ Step(p) \/ ApiError(p) \/ Interrupt(p)

\* A running command goes on and the catalog provisions; nobody has to start a
\* command.
Fairness ==
    /\ \A p \in Clients : WF_vars(Step(p))
    /\ \A s \in Services : WF_vars(Provision(s)) /\ WF_vars(Unbind(s))

Spec == Init /\ [][Next]_vars
FairSpec == Spec /\ Fairness

----------------------------------------------------------------------------
(* What `odo service list` shows *)

\* updateStatusIfMatchingDeploymentExists looks at the first entry of the first
\* DeploymentConfig with an envFrom, and at nothing else.
MatchingDeploymentExists(s) ==
    LET listed == SetToSeq(Components)
        first == SelectInSeq(listed, LAMBDA c : envFrom[c] # <<>>)
    IN  first # 0 /\ Head(envFrom[listed[first]]) = s

Status(s) ==
    IF s \notin secrets THEN "of the instance"
    ELSE IF MatchingDeploymentExists(s) THEN "ProvisionedAndLinked"
    ELSE "ProvisionedAndBound"

----------------------------------------------------------------------------
(* Properties *)

\* A ServiceBinding never outlives its ServiceInstance, whatever commands run at
\* once and wherever they fail: CreateServiceInstance creates the instance
\* first, DeleteServiceInstance deletes the binding first and goes no further
\* without it.
BindingHasInstance == bindings \subseteq instances

\* As long as the commands of all clients come one after the other, failed ones
\* included, a component has at most one link to a secret: Validate of `odo link`
\* looks for the link it would add.
LinkedOnce ==
    \A c \in Components : \A i, j \in DOMAIN envFrom[c] :
        envFrom[c][i] = envFrom[c][j] => i = j
NoDoubleLink == alone => LinkedOnce

\* As long as they come one after the other and none has failed, a component that
\* is linked to a service finds the service there: `odo service delete` unlinks
\* every component of the application, whoever linked it and however many there
\* are.
LinksResolve ==
    (alone /\ faults = 0 /\ \A p \in Clients : At(p, "idle"))
        => \A c \in Components : LinkedTo(c) \cap Services \subseteq instances

\* "the whole point of using patch is to avoid race conditions where we try to
\* update dc while it's being simultaneously updated from another source"
\* (patchDCOfComponent): a link goes away only on the patch of a client that
\* unlinks this very secret from this component.  It is so for commands that come
\* one after the other; when two overlap, a patch by an index, or one that writes the whole of envFrom, does to the
\* links of now what was meant for those that were read.
LinkRemovedOnRequest ==
    [][\A c \in Components : \A s \in LinkedTo(c) \ LinkedTo(c)' :
          \E p \in Clients : /\ At(p, "patch")
                             /\ Op(p) \in {"unlink", "delete"}
                             /\ Sec(p) = s /\ cmd[p].cmp = c]_vars

\* Every command ends, but one that waits for the secret of a service without
\* an instance and a binding (WaitAndGetSecret has no timeout).
NothingToWaitFor(p) == At(p, "waitSecret") /\ Sec(p) \notin instances \cap bindings
CommandsEnd ==
    \A p \in Clients : ~At(p, "idle") ~> (At(p, "idle") \/ NothingToWaitFor(p))

\* Validate tells the user of a service without a binding to delete it: the
\* deletion of a service that is listed is not refused for its binding.
DeletableWhenListed ==
    \A p \in Clients :
        At(p, "deleteBinding") /\ Sec(p) \in instances => Sec(p) \in bindings

\* A service whose secret is there and linked to a component is listed as linked.
LinkedIsListed ==
    \A s \in instances \cap secrets :
        (\E c \in Components : s \in LinkedTo(c)) => Status(s) = "ProvisionedAndLinked"

\* Creating and deleting a service take two calls each.  A client between the
\* two is the only one there, and finds the instance without a binding.
OwnerLabels == {"createBinding", "deleteInstance"}
Owns(p, s) == pc[p] \in OwnerLabels /\ Sec(p) = s
OwnerInv ==
    /\ \A p \in Clients : pc[p] \in OwnerLabels => Sec(p) \in instances \ bindings
    /\ \A p, q \in Clients : \A s \in Services : Owns(p, s) /\ Owns(q, s) => p = q

----------------------------------------------------------------------------
(* The inductive invariant *)

\* A client is where its command can be, and a deletion has work left there.
CommandInv(p) ==
    /\ pc[p] = "exists" /\ Op(p) \in {"create", "delete"} => Sec(p) \in Services
    /\ pc[p] \in {"createInstance", "createBinding"} =>
          Op(p) = "create" /\ Sec(p) \in Services
    /\ pc[p] \in {"listInstances", "deleteBinding", "deleteInstance", "listDCs"} =>
          Op(p) = "delete" /\ Sec(p) \in Services
    /\ pc[p] \in {"getBinding", "getSecret"} => Op(p) \in {"link", "unlink"}
    /\ pc[p] = "linked" => Op(p) = "link"
    /\ pc[p] = "waitSecret" => Op(p) \in {"create", "link"}
    /\ pc[p] \in {"get", "patch"} =>
          /\ Op(p) # "create"
          /\ Op(p) = "delete" => todo[p][cmd[p].cmp] > 0
    /\ pc[p] = "patch" /\ Op(p) # "link" => Contains(snap[p], Sec(p))

\* While commands come one after the other, one client at most is busy.
AloneInv ==
    alone => \A p, q \in Clients : p = q \/ At(p, "idle") \/ At(q, "idle")

\* A client that is alone patches what it has read, and adds a new link.
SnapInv(p) ==
    alone =>
        /\ pc[p] = "patch" => snap[p] = envFrom[cmd[p].cmp]
        /\ pc[p] \in {"get", "patch"} /\ Op(p) = "link" =>
              ~Contains(envFrom[cmd[p].cmp], Sec(p))

IInv ==
    /\ TypeOK /\ BindingHasInstance /\ OwnerInv
    /\ \A p \in Clients : CommandInv(p) /\ SnapInv(p)
    /\ AloneInv /\ NoDoubleLink

\* A link to a service that is gone is one the deletion of that service has still
\* to remove, and a link is only made to a service that is there: as long as
\* commands come one after the other and none has failed.
Dangling(c) == (LinkedTo(c) \cap Services) \ instances
Unlinking(p, c, s) ==
    /\ Op(p) = "delete" /\ Sec(p) = s
    /\ \/ pc[p] = "listDCs"
       \/ pc[p] \in {"get", "patch"} /\ todo[p][c] > 0
Linking(p) ==
    Op(p) = "link" /\ pc[p] \in {"getBinding", "waitSecret", "getSecret", "linked",
                                 "get", "patch"}
ResolveInv ==
    alone /\ faults = 0 =>
        /\ \A c \in Components : \A s \in Dangling(c) :
              \E p \in Clients : Unlinking(p, c, s)
        /\ \A p \in Clients : Linking(p) /\ Sec(p) \in Services => Sec(p) \in instances

============================================================================
