--------------------------- MODULE BuilderImage ---------------------------
(***************************************************************************)
(* The builder image of a component: how the catalog lists the image       *)
(* streams of two namespaces, how `odo create` and `odo push` check the    *)
(* type of a component against that list, and how a push then resolves it  *)
(* to an image, while somebody else tags, imports and removes streams.     *)
(*                                                                         *)
(* The two sides look at different things.  The catalog reads the tags of  *)
(* a stream's spec; the push those of its status, which the cluster fills  *)
(* in when it has imported the image.  Every list and every Get is a       *)
(* request of its own.  One image name is enough: streams of the same name *)
(* in the two namespaces are what can be confused.                         *)
(***************************************************************************)
EXTENDS Naturals, Sequences, FiniteSets

CONSTANTS
  Tags,        \* tags of an image stream
  Latest,      \* the tag of a type given without one
  Typed,       \* the types users give, of which Types has all
  MaxChanges,  \* how often somebody changes a stream
  MaxFaults,   \* how many requests fail for no reason
  MaxCommands  \* how many commands are run

ASSUME LatestIsATag == Latest \in Tags

VARIABLES
  streams,   \* the image stream of each namespace
  pc,        \* where the command is
  command,   \* "create", "push" or "catalog"; "none" before the first
  type,      \* the component's type as typed: namespace and tags
  saved,     \* create has written the type to the configuration
  read,      \* lists the catalog has read so far
  pass,      \* catalog.Exists is the first list, catalog.VersionExists the second
  found,     \* the namespaces GetImageStream answered with
  offered,   \* what `catalog list components` and the completion offer
  missing,   \* the Get in the current namespace returned an error
  steady,    \* no stream has changed since the command started
  changes, faults, commands

vars == <<streams, pc, command, type, saved, read, pass, found, offered,
          missing, steady, changes, faults, commands>>

Namespaces == {"current", "openshift"}

None == "none"   \* the type names no namespace

\* How far the import of a tag is: no entry in the status, an entry without
\* items, an entry with the digest of an image.
Imports == {"absent", "failed", "imported"}

\* spec: the tags of the spec; builder: those annotated as builder images;
\* hidden: those annotated as hidden.
Streams == [there : BOOLEAN, spec : SUBSET Tags, builder : SUBSET Tags,
            hidden : SUBSET Tags, status : [Tags -> Imports]]

NoStream == [there |-> FALSE, spec |-> {}, builder |-> {}, hidden |-> {},
             status |-> [t \in Tags |-> "absent"]]

Types == [ns : Namespaces \cup {None}, tags : UNION {[1..n -> Tags] : n \in 0..2}]

ASSUME TypedAreTypes == Typed \subseteq Types

Unread == [ok |-> FALSE, of |-> NoStream]

NotRead == [streams |-> [n \in Namespaces |-> Unread],
            tags |-> [n \in Namespaces |-> Unread]]

-----------------------------------------------------------------------------
(* The catalog, from the four lists that were read *)

\* getDefaultBuilderImages: a stream is a builder image if one of its spec's
\* tags says so.  A namespace whose list failed has none.
Builders(r) ==
  {n \in Namespaces : r.streams[n].ok /\ r.streams[n].of.builder # {}}

HasTag(r, n, t) == r.tags[n].ok /\ t \in r.tags[n].of.spec

\* A bug: the tags of openshift are looked at alone.
IsHidden_Openshift(r, t) ==
  HasTag(r, "openshift", t) /\ t \in r.tags["openshift"].of.hidden

\* imageStreamTagMap is keyed by name and tag alone: openshift's come last.
IsHidden(r, t) ==
  IF HasTag(r, "openshift", t) THEN t \in r.tags["openshift"].of.hidden
  ELSE HasTag(r, "current", t) /\ t \in r.tags["current"].of.hidden

\* getAllNonHiddenTags
NonHidden(r, n) == {t \in r.streams[n].of.spec : ~IsHidden(r, t)}

\* A bug: either list failing is enough.
ListFails_Any(r) ==
  \/ \E n \in Namespaces : ~r.streams[n].ok
  \/ \E n \in Namespaces : ~r.tags[n].ok
  \/ Builders(r) = {}

\* Both lists of streams failed, both lists of tags, or there is no builder.
ListFails(r) ==
  \/ \A n \in Namespaces : ~r.streams[n].ok
  \/ \A n \in Namespaces : ~r.tags[n].ok
  \/ Builders(r) = {}

\* FilterHiddenComponents: a builder with a tag that is not hidden.
Visible(r) == {n \in Builders(r) : NonHidden(r, n) # {}}

\* Search, and the rows of the list.
Offers(r) == {[ns |-> n, tags |-> NonHidden(r, n)] : n \in Visible(r)}

-----------------------------------------------------------------------------
(* Names *)

\* ParseComponentImageName: what follows the second colon is dropped.
VersionOf(ty) == IF ty.tags = <<>> THEN Latest ELSE ty.tags[1]

\* occlient.ParseImageName: with a second colon there is no valid reference.  Its
\* references by digest do not come this far: ParseComponentImageName cuts them at
\* the colon, and no image stream is called name@sha256.
Parses(ty) == Len(ty.tags) <= 1

\* Which namespaces a type may mean.
Meant(ty) == IF ty.ns = None THEN Namespaces ELSE {ty.ns}

\* catalog.Exists and VersionExists
TypeExists(r, ty) == Builders(r) \cap Meant(ty) # {}

VersionExists(r, ty) ==
  \E n \in Builders(r) \cap Meant(ty) : VersionOf(ty) \in r.streams[n].of.spec

-----------------------------------------------------------------------------
MayFail == faults < MaxFaults /\ faults' = faults + 1

Works == faults' = faults

\* The lists of a catalog.List, in the order they are asked for.
ListSteps == <<[what |-> "streams", ns |-> "openshift"],
               [what |-> "streams", ns |-> "current"],
               [what |-> "tags", ns |-> "current"],
               [what |-> "tags", ns |-> "openshift"]>>

\* The lists are values of a call, gone when it returns.
Forget == read' = NotRead /\ pass' = <<1, 1>>

Start(c, ty) ==
  /\ pc \in {"idle", "ended", "rejected", "unresolved"}
  /\ commands < MaxCommands /\ commands' = commands + 1
  /\ c = "push" <=> saved
  /\ c # "create" => ty = type
  /\ command' = c
  /\ type' = ty
  /\ pc' = "list"
  /\ Forget
  /\ found' = <<>>
  /\ offered' = {}
  /\ missing' = FALSE
  /\ steady' = TRUE
  /\ UNCHANGED <<streams, saved, changes, faults>>

\* One of the lists.  pass is the number of the catalog.List and of the list in it.
ReadList ==
  LET s == ListSteps[pass[2]]
      Answer(ok) == read' = [read EXCEPT ![s.what][s.ns] =
                               [ok |-> ok, of |-> IF ok THEN streams[s.ns] ELSE NoStream]]
  IN /\ pc = "list"
     /\ pass[2] <= Len(ListSteps)
     /\ \/ Works /\ Answer(TRUE)
        \/ MayFail /\ Answer(FALSE)
     /\ pass' = [pass EXCEPT ![2] = @ + 1]
     /\ UNCHANGED <<streams, pc, command, type, saved, found, offered, missing,
                    steady, changes, commands>>

ListIsRead == pc = "list" /\ pass[2] > Len(ListSteps)

\* `catalog list components`, `catalog search component`, the interactive
\* create and the completion of its argument.
OfferImages ==
  /\ ListIsRead /\ command = "catalog"
  /\ pc' = "ended"
  /\ offered' = IF ListFails(read) THEN {} ELSE Offers(read)
  /\ Forget
  /\ UNCHANGED <<streams, command, type, saved, found, missing, steady,
                 changes, faults, commands>>

\* ValidateComponentCreateRequest: the type, then the version, each from a
\* catalog.List of its own.
CheckType ==
  /\ ListIsRead /\ command # "catalog" /\ pass[1] = 1
  /\ IF ~ListFails(read) /\ TypeExists(read, type)
     THEN pass' = <<2, 1>> /\ read' = NotRead /\ UNCHANGED pc
     ELSE pc' = "rejected" /\ Forget
  /\ UNCHANGED <<streams, command, type, saved, found, offered, missing, steady,
                 changes, faults, commands>>

\* After it create writes the configuration; a push goes on to its image.
CheckVersion ==
  /\ ListIsRead /\ command # "catalog" /\ pass[1] = 2
  /\ IF ~ListFails(read) /\ VersionExists(read, type)
     THEN IF command = "create"
          THEN pc' = "ended" /\ saved' = TRUE
          ELSE pc' = (IF ~Parses(type) THEN "unresolved" ELSE "get") /\ UNCHANGED saved
     ELSE pc' = "rejected" /\ UNCHANGED saved
  /\ Forget
  /\ UNCHANGED <<streams, command, type, found, offered, missing, steady,
                 changes, faults, commands>>

-----------------------------------------------------------------------------
(* GetImageStream and GetImageStreamImage *)

\* isTagInImageStream
InStatus(s, t) == s.status[t] # "absent"

\* A bug: openshift is asked first.
FirstNamespace_Openshift(ty) == IF ty.ns = None THEN "openshift" ELSE ty.ns

\* Without a namespace the current one is looked at first, then openshift.
FirstNamespace(ty) == IF ty.ns = None THEN "current" ELSE ty.ns

\* The stream is kept as it was read, for the look-up of the image.
Resolve(n, after) ==
  /\ found' = Append(found, [ns |-> n, import |-> streams[n].status[VersionOf(type)]])
  /\ pc' = after

\* A git component resolves its image once more, for the build configuration.
AfterStream == IF Len(found) = 1 THEN "ended" ELSE "image"

\* A bug: openshift is not asked at all.
OrElse_Fails(ty) == "unresolved"

\* Where a search that did not find the tag goes on.
OrElse(ty) == IF ty.ns = None THEN "fallback" ELSE "unresolved"

GetStream ==
  LET n == FirstNamespace(type) IN
  /\ pc = "get"
  /\ \/ /\ Works
        /\ streams[n].there
        /\ IF InStatus(streams[n], VersionOf(type))
           THEN Resolve(n, AfterStream)
           ELSE pc' = OrElse(type) /\ UNCHANGED found
        /\ missing' = FALSE
     \/ /\ \/ Works /\ ~streams[n].there
           \/ MayFail
        /\ pc' = OrElse(type)
        /\ missing' = TRUE
        /\ UNCHANGED found
  /\ UNCHANGED <<streams, command, type, saved, read, pass, offered, steady,
                 changes, commands>>

\* The error of this Get is wrapped with the text of the first one.  If the
\* first Get succeeded, for a stream without the tag, there is none: a nil
\* pointer is dereferenced.
GetFallback ==
  /\ pc = "fallback"
  /\ \/ /\ Works
        /\ streams["openshift"].there
        /\ IF InStatus(streams["openshift"], VersionOf(type))
           THEN Resolve("openshift", AfterStream)
           ELSE pc' = "unresolved" /\ UNCHANGED found
     \/ /\ \/ Works /\ ~streams["openshift"].there
           \/ MayFail
        /\ pc' = IF missing THEN "unresolved" ELSE "panic"
        /\ UNCHANGED found
  /\ UNCHANGED <<streams, command, type, saved, read, pass, offered, missing,
                 steady, changes, commands>>

\* An entry without items has no digest to ask for.  A component from git goes
\* on to CreateBuildConfig, any other one has its image.
GetImage ==
  /\ pc = "image"
  /\ \/ Works /\ found[1].import = "imported" /\ pc' \in {"ended", "get"}
     \/ Works /\ found[1].import # "imported" /\ pc' = "unresolved"
     \/ MayFail /\ pc' = "unresolved"
  /\ UNCHANGED <<streams, command, type, saved, read, pass, found, offered,
                 missing, steady, changes, commands>>

-----------------------------------------------------------------------------
(* The cluster and its other users *)

Change(n, s) ==
  /\ changes < MaxChanges /\ changes' = changes + 1
  /\ s # streams[n]
  /\ streams' = [streams EXCEPT ![n] = s]
  /\ steady' = FALSE
  /\ UNCHANGED <<pc, command, type, saved, read, pass, found, offered, missing,
                 faults, commands>>

\* A stream for builder images is made, with nothing imported yet.
CreateStream(n, spec) ==
  /\ ~streams[n].there
  /\ Change(n, [NoStream EXCEPT !.there = TRUE, !.spec = spec, !.builder = spec])

\* The cluster imports a tag of the spec, or fails to.
ImportTag(n, t, result) ==
  /\ t \in streams[n].spec
  /\ Change(n, [streams[n] EXCEPT !.status[t] = result])

\* A tag is pushed to the registry: the status has it, the spec does not.
PushTag(n, t) ==
  /\ streams[n].there
  /\ Change(n, [streams[n] EXCEPT !.status[t] = "imported"])

Hide(n, t) ==
  /\ t \in streams[n].spec
  /\ Change(n, [streams[n] EXCEPT !.hidden = @ \cup {t}])

RemoveTag(n, t) ==
  /\ t \in streams[n].spec
  /\ Change(n, [streams[n] EXCEPT !.spec = @ \ {t}, !.builder = @ \ {t},
                  !.hidden = @ \ {t}, !.status[t] = "absent"])

DeleteStream(n) == streams[n].there /\ Change(n, NoStream)

-----------------------------------------------------------------------------
\* Every namespace has its builder stream, fully imported, or none.
Init ==
  /\ streams \in [Namespaces ->
       {NoStream} \cup
       {[there |-> TRUE, spec |-> s, builder |-> s, hidden |-> h,
         status |-> [t \in Tags |-> IF t \in s THEN "imported" ELSE "absent"]] :
          s \in SUBSET Tags, h \in SUBSET Tags}]
  /\ \A n \in Namespaces :
       streams[n].hidden \subseteq streams[n].spec /\ (streams[n].there => streams[n].spec # {})
  /\ pc = "idle"
  /\ command = "none"
  /\ type \in Typed
  /\ saved = FALSE
  /\ read = NotRead
  /\ pass = <<1, 1>>
  /\ found = <<>>
  /\ offered = {}
  /\ missing = FALSE
  /\ steady = TRUE
  /\ changes = 0
  /\ faults = 0
  /\ commands = 0

Command ==
  \/ ReadList \/ OfferImages \/ CheckType \/ CheckVersion
  \/ GetStream \/ GetFallback \/ GetImage

Cluster ==
  \E n \in Namespaces :
    \/ \E spec \in SUBSET Tags \ {{}} : CreateStream(n, spec)
    \/ \E t \in Tags, result \in {"failed", "imported"} : ImportTag(n, t, result)
    \/ \E t \in Tags : PushTag(n, t) \/ Hide(n, t) \/ RemoveTag(n, t)
    \/ DeleteStream(n)

Next ==
  \/ \E c \in {"create", "push", "catalog"}, ty \in Typed : Start(c, ty)
  \/ Command
  \/ Cluster

Spec == Init /\ [][Next]_vars

-----------------------------------------------------------------------------
(* The variables keep their shape; a stream that is not there is empty; a      *)
(* command that resolves its image is a push, of a type that was saved and     *)
(* has at most one tag, and it asks at most twice.                             *)
TypeOK ==
  /\ streams \in [Namespaces -> Streams]
  /\ \A n \in Namespaces : ~streams[n].there => streams[n] = NoStream
  /\ type \in Types
  /\ offered \subseteq [ns : Namespaces, tags : SUBSET Tags]
  /\ found \in Seq([ns : Namespaces, import : Imports \ {"absent"}])
  /\ Len(found) <= 2
  /\ pc \in {"get", "fallback", "image"} => command = "push" /\ saved /\ Len(type.tags) <= 1

(* What create and push accept can be used: a push that got past the check of  *)
(* its type and finds no image, though no request failed and no stream         *)
(* changed while it ran, was given two tags or a tag of the spec that is not   *)
(* imported (catalog.go:90 reads the spec, occlient.go:648 the status).        *)
AcceptedIsUsable ==
  pc = "unresolved" /\ steady /\ faults = 0 =>
    \/ ~Parses(type)
    \/ \E n \in Meant(type) :
         VersionOf(type) \in streams[n].spec
         /\ streams[n].status[VersionOf(type)] # "imported"

(* The image is the one that was asked for: of the namespace the type names,   *)
(* otherwise of the current project rather than of openshift, whole, and the   *)
(* same for the container and for the build (occlient.go:660, 810 and 3192).   *)
ImageAsAsked ==
  command = "push" /\ pc = "ended" =>
    /\ \A i \in DOMAIN found : found[i].ns \in Meant(type)
    /\ found[1].import = "imported"
    /\ steady /\ faults = 0 => \A i \in DOMAIN found :
         /\ found[i] = found[1]
         /\ type.ns = None /\ found[i].ns = "openshift" =>
              ~InStatus(streams["current"], VersionOf(type))

(* The failure of one request does not hide what the other namespace has: with *)
(* the builder and its tag in both, a type that means either is never rejected *)
(* (getDefaultBuilderImages tolerates "a partial failure", catalog.go:112).    *)
OneFailureTolerated ==
  pc = "rejected" /\ steady /\ faults <= 1 /\ type.ns = None =>
    \E n \in Namespaces : VersionOf(type) \notin streams[n].spec

(* What the catalog offers is not marked hidden, when the lists of tags could  *)
(* be read and the other namespace has no tag of the same name.                *)
OfferedIsNotHidden ==
  steady /\ faults = 0 =>
    \A o \in offered : \A t \in o.tags \cap streams[o.ns].hidden :
      \A n \in Namespaces \ {o.ns} : t \in streams[n].spec

-----------------------------------------------------------------------------
(* What the documentation says and the code does not do. *)

(* "If not found, error out" (occlient.go:662): a push that does not find its  *)
(* image returns an error, and never a panic.                                  *)
ErrorsOut == pc # "panic"

(* A builder marked hidden "is deprecated and should not be offered to the     *)
(* user as candidate" (catalog.go:193).                                        *)
HiddenIsNotOffered ==
  steady => \A o \in offered : o.tags \cap streams[o.ns].hidden = {}

-----------------------------------------------------------------------------
(* The inductive invariant *)

ListNames == {"streams", "tags"}

\* The answer to the i-th list of the catalog.List that is under way.
AnswerTo(i) == read[ListSteps[i].what][ListSteps[i].ns]

TypeInv ==
  /\ pc \in {"idle", "list", "get", "fallback", "image", "ended", "rejected",
            "unresolved", "panic"}
  /\ command \in {"none", "create", "push", "catalog"}
  /\ read \in [ListNames -> [Namespaces -> [ok : BOOLEAN, of : Streams]]]
  /\ pass \in (1..2) \X (1..5)
  /\ saved \in BOOLEAN /\ steady \in BOOLEAN /\ missing \in BOOLEAN
  /\ faults \in Nat

\* What every change by the cluster and its users keeps: only a tag of the spec
\* can fail to be imported, and the spec's tags are builders.
StreamInv ==
  \A n \in Namespaces :
    /\ streams[n].builder = streams[n].spec
    /\ \A t \in Tags : streams[n].status[t] = "failed" => t \in streams[n].spec

\* While nothing has changed, what has been read is what is there; every list
\* that was not answered is a fault.
ReadInv ==
  pc = "list" =>
    /\ steady => \A i \in 1..4 :
         AnswerTo(i).ok => AnswerTo(i).of = streams[ListSteps[i].ns]
    /\ faults = 0 => \A i \in 1..4 : i < pass[2] => AnswerTo(i).ok
    /\ faults <= 1 => \A i, j \in 1..4 :
         i < pass[2] /\ j < pass[2] /\ ~AnswerTo(i).ok /\ ~AnswerTo(j).ok => i = j

\* A push that looks for its image was accepted, and looks where it is due.
SearchInv ==
  /\ pc = "list" => found = <<>> /\ command # "none" /\ (command = "push" => saved)
  /\ pc \in {"get", "fallback", "image"} /\ steady =>
       \E n \in Meant(type) : VersionOf(type) \in streams[n].spec
  /\ pc = "fallback" =>
       /\ type.ns = None
       /\ steady /\ faults = 0 => ~InStatus(streams["current"], VersionOf(type))
  /\ pc = "image" \/ (pc = "ended" /\ command = "push") => found # <<>>
  /\ pc \in {"get", "fallback", "image"} => Len(found) \in {0, 1}
  /\ (pc \in {"get", "fallback"} \/ (pc = "ended" /\ command = "push"))
       /\ found # <<>> => found[1].import = "imported"

\* While nothing has changed, what was found is still there, and openshift is
\* used only for what the current project does not have.
FoundInv ==
  \A i \in 1..Len(found) :
    /\ found[i].ns \in Meant(type)
    /\ steady => found[i].import = streams[found[i].ns].status[VersionOf(type)]
    /\ steady /\ faults = 0 /\ type.ns = None /\ found[i].ns = "openshift" =>
         ~InStatus(streams["current"], VersionOf(type))

IInv ==
  /\ TypeOK /\ TypeInv /\ StreamInv /\ ReadInv /\ SearchInv /\ FoundInv
  /\ AcceptedIsUsable /\ OneFailureTolerated /\ OfferedIsNotHidden

=============================================================================
