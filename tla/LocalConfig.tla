---------------------------- MODULE LocalConfig ----------------------------
(***************************************************************************)
(* The two settings files of odo, .odo/config.yaml of a component and the  *)
(* user's preference.yaml, and the commands that change them: pkg/config,  *)
(* pkg/preference, pkg/util/config_util.go and the commands create, config *)
(* set/unset, preference set/unset, url create/delete, storage             *)
(* create/delete and delete --all.                                         *)
(*                                                                         *)
(* A command reads a whole file into memory, checks, may ask the user,     *)
(* changes the copy and writes the whole file back in place.  Commands run *)
(* in several terminals at once; a process may die anywhere.               *)
(*                                                                         *)
(* Abstracted: a command names one environment variable; duplicates in the *)
(* list given to create count as the last of them; the size of a storage;  *)
(* the length of a document, and so which of two is the longer one.        *)
(***************************************************************************)
EXTENDS Naturals, Sequences, FiniteSets, Functions, RangeLoop

CONSTANTS
  Terminals,    \* the processes
  Params,       \* parameters `odo config set` is used with
  Prefs,        \* parameters of `odo preference set`
  Typed,        \* parameters whose value is parsed (ignore, sourcetype, timeout)
  Values,       \* values of parameters and environment variables
  Bad,          \* a value the parser of a typed parameter refuses
  EnvNames,     \* names of environment variables
  Names,        \* names of storages and URLs
  Places,       \* paths of storages, ports of URLs
  None,         \* no value
  Current,      \* the active project
  MaxCommands,  \* bound on the commands
  MaxFaults     \* bound on the processes that die

ASSUME CountsAssumption == MaxCommands \in Nat /\ MaxFaults \in Nat
ASSUME BadAssumption    == Bad \notin Values /\ None \notin Values \cup {Bad}
ASSUME CurrentAssumption == Current \in Values
ASSUME PrefsAssumption   == Prefs \cap {"storage", "url"} = {}

VARIABLES
  file,      \* the two files
  pc,        \* what each terminal's command does next; "idle" without one
  cmd,       \* the command
  mem,       \* its copy of the settings
  result,    \* how the last command of the terminal ended
  commands,  \* commands started
  faults,    \* processes that died
  mixed      \* history: a command has read remains of two documents as one

vars == <<file, pc, cmd, mem, result, commands, faults, mixed>>

-----------------------------------------------------------------------------
(* Documents.                                                              *)

\* A parameter such as memory stands for two fields.
Pair(k) == CASE k = "memory" -> {"minmemory", "maxmemory"}
             [] k = "cpu"    -> {"mincpu", "maxcpu"}
             [] OTHER        -> {k}

\* `storage` and `url` are parameters too, of lists.
Lists      == {"storage", "url"}
Fields     == UNION {Pair(k) : k \in (Params \ Lists) \cup {"name"}}
PrefFields == Prefs

Entry == [name : Names \cup {None}, at : Places \cup {None}]
Doc   == [set : [Fields \cup PrefFields -> Values \cup {None}],
          env : [EnvNames -> Values \cup {None}],
          storage : Seq(Entry), url : Seq(Entry),
          has : SUBSET Lists]    \* the lists that are there, empty or not
Blank == [set |-> [f \in Fields \cup PrefFields |-> None],
          env |-> [e \in EnvNames |-> None],
          storage |-> <<>>, url |-> <<>>, has |-> {}]

\* A file is absent, empty (created or truncated), a document, or torn: a short
\* document over a longer one, whose end is still there.  What the longer one
\* reads as is `under`: a single document, unless that was torn, too.
Absent     == [kind |-> "absent"]
Empty      == [kind |-> "empty"]
Is(d)      == [kind |-> "doc", doc |-> d]
Torn(d, U) == [kind |-> "torn", doc |-> d, under |-> U]

FileIds == {"local", "preference"}

\* The getters: a field that is nil reads as its default, here None.
Get(d, f) == d.set[f]

\* IsSet: a pair is set when both fields are and are equal, a list when the
\* pointer to it is not nil.
IsSet(d, k) ==
  IF k \in Lists THEN k \in d.has
  ELSE \E v \in Values : \A f \in Pair(k) : Get(d, f) = v

HasName(list, n) == \E i \in DOMAIN list : list[i].name = n

\* DeleteUrl and DeleteFromConfigurationList remove the entries of a name from
\* the slice they range over.
DeleteLoop(list, n) == RangeLoop(list, {e \in Range(list) : e.name = n})

-----------------------------------------------------------------------------
(* What a torn file reads as: YAML, in which the last of two equal keys     *)
(* wins, unknown ones are ignored, and `Url` is the last list.             *)

\* The list l with the end of r behind it.  The cut may go through an entry of
\* r: its name is lost and its place goes to the last entry of l.
Placed(l, p) == IF l = <<>> THEN l ELSE [l EXCEPT ![Len(l)].at = p]
Continued(l, r) ==
  UNION {{l \o SubSeq(r, i, Len(r)),
          Placed(l, r[i].at) \o SubSeq(r, i + 1, Len(r))} : i \in DOMAIN r}

\* Entries of one list read as entries of the other, which share only the name.
Stripped(r) == [i \in DOMAIN r |-> [r[i] EXCEPT !.at = None]]

Mixtures(l, r, other) == {l, r} \cup Continued(l, r) \cup Continued(l, Stripped(other))

\* Document d with the end of r behind it: some settings F and variables E of
\* r, a list that is d's, r's, or goes on with entries of r.
Blends(d, r) ==
  {[set     |-> [f \in DOMAIN d.set |-> IF f \in F /\ r.set[f] # None THEN r.set[f]
                                                                   ELSE d.set[f]],
    env     |-> [e \in DOMAIN d.env |-> IF e \in E THEN r.env[e] ELSE d.env[e]],
    storage |-> s, url |-> u,
    has     |-> IF s = d.storage /\ u = d.url THEN d.has ELSE d.has \cup r.has] :
      F \in SUBSET DOMAIN d.set, E \in SUBSET DOMAIN d.env,
      s \in Mixtures(d.storage, r.storage, r.url),
      u \in Mixtures(d.url, r.url, r.storage)}

\* What reading a file may give: nothing is read from an absent or an empty
\* file.  A torn one may also fail to parse.
Reads(f) ==
  IF f.kind \in {"absent", "empty"} THEN {Blank}
  ELSE {f.doc} \cup (IF f.kind = "torn" THEN UNION {Blends(f.doc, r) : r \in f.under}
                                      ELSE {})
Unreadable(f) == f.kind = "torn"

-----------------------------------------------------------------------------
(* Commands.  `key` is a parameter, a variable or a name; `value` a value, *)
(* a path or a port.                                                       *)

Command(op, K, V, force) == [op : {op}, key : K, value : V, force : force]
Deletes == {"delStorage", "delUrl"}
ListOf(op) == IF op \in {"addStorage", "delStorage"} THEN "storage" ELSE "url"

\* `odo create`: the key is the project the user asks for.
CreateCommands == Command("create", Values, Values, {TRUE})

SetCommands == UNION {Command("set", Params, Values, BOOLEAN),
                      Command("set", Params \cap Typed, {Bad}, {TRUE}),
                      Command("setEnv", EnvNames, Values, {TRUE})}
UnsetCommands == Command("unset", Params \cup Lists, {None}, BOOLEAN)
                   \cup Command("unsetEnv", EnvNames, {None}, {TRUE})

PrefSetCommands   == Command("set", Prefs, Values, BOOLEAN)
                       \cup Command("set", Prefs \cap Typed, {Bad}, {TRUE})
PrefUnsetCommands == Command("unset", Prefs, {None}, BOOLEAN)

AddUrlCommands     == Command("addUrl", Names, Places, {TRUE})
DelUrlCommands     == Command("delUrl", Names, {None}, BOOLEAN)
AddStorageCommands == Command("addStorage", Names, Places, {TRUE})
DelStorageCommands == Command("delStorage", Names, {None}, BOOLEAN)

\* `odo delete --all`, without and with --app.
DeleteAllCommands  == Command("deleteAll", {None, "app"}, {None}, BOOLEAN)

Commands == UNION {CreateCommands, SetCommands, UnsetCommands, PrefSetCommands,
                   PrefUnsetCommands, AddUrlCommands, DelUrlCommands,
                   AddStorageCommands, DelStorageCommands, DeleteAllCommands}

FileOf(c) == IF c.op \in {"set", "unset"} /\ c.key \in Prefs THEN "preference"
                                                            ELSE "local"

\* getValidConfig: every command but create, delete --app, and those of the
\* preferences, needs a component's directory; `url create` also the
\* component's name.
ContextAllows(c, d) ==
  \/ c.op = "create" \/ FileOf(c) = "preference"
  \/ c.op = "deleteAll" /\ c.key = "app"
  \/ /\ file["local"] # Absent
     /\ c.op = "addUrl" => Get(d, "name") # None

\* ValidateStorage.
\* Mutant: only the name is compared.
RefusesStorage_NameOnly(c, d) == HasName(d.storage, c.key)

RefusesStorage(c, d) == \E i \in DOMAIN d.storage :
                           d.storage[i].name = c.key \/ d.storage[i].at = c.value

RefusesUrl(c, d)        == HasName(d.url, c.key)
RefusesDelUrl(c, d)     == ~HasName(d.url, c.key)
RefusesDelStorage(c, d) == ~HasName(d.storage, c.key)

\* A parameter that is not set cannot be unset; a preference can, with --force.
RefusesUnset(c, d) == ~IsSet(d, c.key) /\ ~(c.key \in Prefs /\ c.force)

\* A directory that has a component, readable or not.
RefusesCreate_Never(f) == FALSE                           \* mutant
RefusesCreate(f) == f # Absent

\* What a command refuses after it has read the settings d from file f.
Refuses(c, d, f) ==
  CASE c.op = "create"     -> RefusesCreate(f)
    [] c.op = "addStorage" -> RefusesStorage(c, d)
    [] c.op = "addUrl"     -> RefusesUrl(c, d)
    [] c.op = "delStorage" -> RefusesDelStorage(c, d)
    [] c.op = "delUrl"     -> RefusesDelUrl(c, d)
    [] c.op = "unset"      -> RefusesUnset(c, d)
    [] OTHER               -> FALSE

\* A command without --force asks: a set only when there is a value.
Asks(c, d) == ~c.force /\ (c.op = "set" => IsSet(d, c.key))

\* SetConfiguration refuses a value that does not parse; it panics on `url`,
\* whose value from the command line is a string and no URL.
Unparsable(c) == c.value = Bad

Breaks(c, d) ==
  \/ Unparsable(c)
  \/ c.op = "set" /\ c.key = "url"
  \/ c.op \in Deletes /\ DeleteLoop(d[ListOf(c.op)], c.key).panic

\* The component's settings that create writes: the project is that of the
\* context, whatever the user has answered (c.key).
Created(c) ==
  [Blank EXCEPT !.set = [f \in DOMAIN @ |-> CASE f = "name"    -> c.value
                                              [] f = "project" -> Current
                                              [] OTHER         -> None]]

\* SetConfiguration and DeleteConfiguration of a parameter.
Assigned(c, d) ==
  [d EXCEPT !.set = [f \in DOMAIN @ |-> IF f \in Pair(c.key) THEN c.value ELSE @[f]]]

\* Merge and RemoveEnvVarsFromList.
EnvAssigned(c, d) == [d EXCEPT !.env[c.key] = c.value]

\* Appending makes a list; deleting its last entry leaves it, empty; unset, and
\* only that, sets the pointer to nil.
WithStorage(d, l) == [d EXCEPT !.storage = l, !.has = @ \cup {"storage"}]
WithUrl(d, l)     == [d EXCEPT !.url = l, !.has = @ \cup {"url"}]
WithoutList(d, k) == IF k = "storage"
                     THEN [d EXCEPT !.storage = <<>>, !.has = @ \ {k}]
                     ELSE [d EXCEPT !.url = <<>>, !.has = @ \ {k}]

EntryOf(c) == [name |-> c.key, at |-> c.value]

\* The settings a command writes back.  `config set storage` appends an empty
\* storage: its string is none.
Applied(c, d) ==
  CASE c.op = "create" -> Created(c)
    [] c.op \in {"set", "unset"} /\ c.key \notin Lists -> Assigned(c, d)
    [] c.op = "unset" /\ c.key \in Lists -> WithoutList(d, c.key)
    [] c.op = "set" /\ c.key = "storage" ->
         WithStorage(d, Append(d.storage, [name |-> None, at |-> None]))
    [] c.op \in {"setEnv", "unsetEnv"} -> EnvAssigned(c, d)
    [] c.op = "addStorage" -> WithStorage(d, Append(d.storage, EntryOf(c)))
    [] c.op = "addUrl"     -> WithUrl(d, Append(d.url, EntryOf(c)))
    [] c.op = "delStorage" -> WithStorage(d, Slice(DeleteLoop(d.storage, c.key)))
    [] c.op = "delUrl"     -> WithUrl(d, Slice(DeleteLoop(d.url, c.key)))

-----------------------------------------------------------------------------
(* The steps of a command.                                                 *)

Goto(p, next) == pc' = [pc EXCEPT ![p] = next]

\* The command of terminal p is over; its copy is forgotten.
Ends(p, r) ==
  /\ Goto(p, "idle")
  /\ result' = [result EXCEPT ![p] = r]
  /\ mem' = [mem EXCEPT ![p] = Blank]

Start(p, c) ==
  /\ pc[p] = "idle" /\ commands < MaxCommands
  /\ cmd' = [cmd EXCEPT ![p] = c]
  /\ result' = [result EXCEPT ![p] = "running"]
  /\ Goto(p, "context")
  /\ commands' = commands + 1
  /\ UNCHANGED <<file, mem, faults, mixed>>

\* NewContext reads the component's file for itself.
Context(p) ==
  /\ pc[p] = "context"
  /\ \/ /\ \E d \in Reads(file["local"]) : ContextAllows(cmd[p], d)
        /\ Goto(p, IF cmd[p].op = "deleteAll" /\ ~cmd[p].force THEN "ask"
                                                               ELSE "read")
        /\ UNCHANGED <<result, mem>>
     \/ /\ \/ Unreadable(file["local"]) /\ FileOf(cmd[p]) = "local"
           \/ \E d \in Reads(file["local"]) : ~ContextAllows(cmd[p], d)
        /\ Ends(p, "failed")
  /\ UNCHANGED <<file, cmd, commands, faults, mixed>>

\* NewLocalConfigInfo, NewPreferenceInfo, and what Validate checks.
Read(p) ==
  LET c == cmd[p]
      f == file[FileOf(c)]
  IN
  /\ pc[p] = "read"
  /\ \/ \E d \in Reads(f) :
          IF Refuses(c, d, f)
          THEN Ends(p, "failed") /\ UNCHANGED mixed
          ELSE /\ mem' = [mem EXCEPT ![p] = d]
               /\ mixed' = (mixed \/ (Unreadable(f) /\ d # f.doc))
               /\ Goto(p, CASE c.op = "deleteAll" -> "remove"
                            [] c.op # "deleteAll" /\ Asks(c, d) -> "ask"
                            [] OTHER -> "write")
               /\ UNCHANGED result
     \/ Unreadable(f) /\ Ends(p, "failed") /\ UNCHANGED mixed
  /\ UNCHANGED <<file, cmd, commands, faults>>

\* The user answers when he likes.
Ask(p) ==
  /\ pc[p] = "ask"
  /\ \/ /\ Goto(p, IF cmd[p].op = "deleteAll" THEN "read" ELSE "write")
        /\ UNCHANGED <<result, mem>>
     \/ Ends(p, "aborted")
  /\ UNCHANGED <<file, cmd, commands, faults, mixed>>

\* Mutant: the file is opened before the value is checked.
Write_OpensFirst(p) ==
  LET c == cmd[p] IN
  /\ pc[p] = "write"
  /\ file' = [file EXCEPT ![FileOf(c)] = Empty]
  /\ IF Breaks(c, mem[p])
     THEN Ends(p, "failed")
     ELSE /\ mem' = [mem EXCEPT ![p] = Applied(c, @)]
          /\ Goto(p, "save")
          /\ UNCHANGED result
  /\ UNCHANGED <<cmd, commands, faults, mixed>>

\* Change the copy, create the file if need be, and open it for writing, which
\* truncates it.  Creation and opening are one step: in between there is only an
\* empty file where there was none.
Write(p) ==
  LET c == cmd[p] IN
  /\ pc[p] = "write"
  /\ IF Breaks(c, mem[p])
     THEN Ends(p, "failed") /\ UNCHANGED file
     ELSE /\ mem' = [mem EXCEPT ![p] = Applied(c, @)]
          /\ file' = [file EXCEPT ![FileOf(c)] = Empty]
          /\ Goto(p, "save")
          /\ UNCHANGED result
  /\ UNCHANGED <<cmd, commands, faults, mixed>>

\* Two documents written at offset 0 of the same file: the second may be the
\* shorter one, and leaves the end of the first.
Over(f, d) == IF f.kind \notin {"doc", "torn"} \/ f = Is(d) THEN {Is(d)}
              ELSE {Is(d), Torn(d, Reads(f))}

\* The write and the end of the command.  A file that was removed since it was
\* opened ("lost") is written all the same, and nobody sees it.
Save(p) ==
  /\ pc[p] \in {"save", "lost"}
  /\ IF pc[p] = "save"
     THEN \E f \in Over(file[FileOf(cmd[p])], mem[p]) :
             file' = [file EXCEPT ![FileOf(cmd[p])] = f]
     ELSE UNCHANGED file
  /\ Ends(p, "ok")
  /\ UNCHANGED <<cmd, commands, faults, mixed>>

\* DeleteConfigDir.
Remove(p) ==
  /\ pc[p] = "remove"
  /\ file' = [file EXCEPT !["local"] = Absent]
  /\ pc' = [q \in Terminals |->
              CASE q = p -> "idle"
                [] q # p /\ pc[q] = "save" /\ FileOf(cmd[q]) = "local" -> "lost"
                [] OTHER -> pc[q]]
  /\ result' = [result EXCEPT ![p] = "ok"]
  /\ mem' = [mem EXCEPT ![p] = Blank]
  /\ UNCHANGED <<cmd, commands, faults, mixed>>

\* The process is killed, or a call of the system or the cluster fails.
Die(p) ==
  /\ pc[p] # "idle" /\ faults < MaxFaults
  /\ faults' = faults + 1
  /\ Ends(p, "failed")
  /\ UNCHANGED <<file, cmd, commands, mixed>>

NoCommand == [op |-> "deleteAll", key |-> None, value |-> None, force |-> TRUE]

Init ==
  /\ file = [f \in FileIds |-> Absent]
  /\ pc = [p \in Terminals |-> "idle"]
  /\ cmd = [p \in Terminals |-> NoCommand]
  /\ mem = [p \in Terminals |-> Blank]
  /\ result = [p \in Terminals |-> "none"]
  /\ commands = 0 /\ faults = 0
  /\ mixed = FALSE

Steps(p) == Context(p) \/ Read(p) \/ Ask(p) \/ Write(p) \/ Save(p) \/ Remove(p)

Next == \E p \in Terminals : Steps(p) \/ Die(p) \/ \E c \in Commands : Start(p, c)

Spec == Init /\ [][Next]_vars

-----------------------------------------------------------------------------
(* What the files promise.                                                 *)

TypeOK ==
  /\ DOMAIN file = FileIds
  /\ \A f \in FileIds :
       /\ \/ file[f] \in {Absent, Empty}
          \/ file[f].kind \in {"doc", "torn"} /\ file[f].doc \in Doc
       /\ file[f].kind = "torn" => file[f].under \subseteq Doc
  /\ pc \in [Terminals -> {"idle", "context", "read", "ask", "write", "save",
                           "lost", "remove"}]
  /\ cmd \in [Terminals -> Commands] /\ mem \in [Terminals -> Doc]
  /\ result \in [Terminals -> {"none", "running", "ok", "failed", "aborted"}]
  /\ commands \in 0..MaxCommands /\ faults \in 0..MaxFaults
  /\ mixed \in BOOLEAN

\* The settings in the files and in the copies about to be written.
Documents == {file[f].doc : f \in {g \in FileIds : file[g].kind = "doc"}}
               \cup {mem[p] : p \in Terminals}

\* No two storages of a document have a name or a path in common, no two URLs a
\* name.
Unique(d) ==
  /\ \A i, j \in DOMAIN d.storage : i # j =>
       d.storage[i].name # d.storage[j].name /\ d.storage[i].at # d.storage[j].at
  /\ \A i, j \in DOMAIN d.url : i # j => d.url[i].name # d.url[j].name

\* Entries stay unique also when two commands that add one have both found it
\* free: the deletion by name, which removes from the list it ranges over, relies
\* on it.  The exception is a file that two commands have written at once: its
\* remains may read as one document, with entries of both.
EntriesUnique == mixed \/ \A d \in Documents : Unique(d)

\* Refuted: not even what a torn file may read as has an entry twice.
TornIsUnique == \A f \in FileIds : \A d \in Reads(file[f]) : Unique(d)

\* A settings file is empty only while a command writes it, or because a
\* process died then: however commands overlap, each of those that opened it
\* fills it, and a command that refuses or fails has not emptied it.
EmptyOnlyWhileWritten ==
  \A f \in FileIds : file[f] = Empty =>
    faults > 0 \/ \E p \in Terminals : pc[p] = "save" /\ FileOf(cmd[p]) = f

\* With one terminal, the commands on each file are the atomic steps of
\* Settings; a process that dies while it writes loses the whole document.
Abstract(f, F) ==
  LET saving == {p \in Terminals : pc[p] = "save" /\ FileOf(cmd[p]) = f}
      d == IF saving # {} THEN mem[CHOOSE p \in saving : TRUE]
           ELSE IF file[f].kind = "doc" THEN file[f].doc ELSE Blank
  IN  IF file[f] = Absent
      THEN [kind |-> "absent"]
      ELSE [kind |-> "file",
            doc  |-> [set |-> [k \in F |-> d.set[k]], env |-> d.env,
                      storage |-> Range(d.storage), url |-> Range(d.url)]]

Local      == INSTANCE Settings WITH conf <- Abstract("local", Fields)
Preference == INSTANCE Settings WITH conf <- Abstract("preference", Prefs),
                                     Fields <- Prefs

CommandsAreAtomic == Local!Spec /\ Preference!Spec

-----------------------------------------------------------------------------
(* The inductive invariant behind EntriesUnique.                           *)

\* `config set` with the name of a list stores an entry without a name.
NoLists == Params \cap Lists = {}

\* What a command has checked still holds of its copy when it changes it.
Fits(c, d) == /\ c.op = "addStorage" => ~RefusesStorage(c, d)
              /\ c.op = "addUrl"     => ~RefusesUrl(c, d)
              /\ c.op = "delStorage" => ~RefusesDelStorage(c, d)
              /\ c.op = "delUrl"     => ~RefusesDelUrl(c, d)

EntriesInv ==
  /\ ~mixed => /\ \A f \in FileIds :
                    file[f].kind \in {"doc", "torn"} => Unique(file[f].doc)
               /\ \A p \in Terminals : Unique(mem[p])
  /\ \A p \in Terminals :
       /\ pc[p] \in {"ask", "write"} => Fits(cmd[p], mem[p])
       /\ pc[p] \in {"write", "save", "lost"} => cmd[p].op # "deleteAll"

-----------------------------------------------------------------------------
(* What the repository says and the code does not do.                      *)

\* "keeping the old env vars as well" (config/set.go): a variable that somebody
\* else has set since the command read the file is kept, too.
OldVarsKept ==
  [][\A p \in Terminals :
       /\ cmd[p].op = "setEnv" /\ pc[p] = "write" /\ pc'[p] = "save"
       /\ file["local"].kind = "doc"
       => \A e \in EnvNames \ {cmd[p].key} :
            mem'[p].env[e] = file["local"].doc.env[e]]_vars

\* "getting the second arg makes sure that this never panics" (config.go): the
\* storages of the file stay well formed, whatever `config set` is given.
StoragesHaveNames ==
  \A d \in Documents : \A i \in DOMAIN d.storage : d.storage[i].name # None

\* "Which project go you want the component to be created in" (create.go): the
\* answer is the project of the new component.
ProjectAsChosen ==
  [][\A p \in Terminals :
       cmd[p].op = "create" /\ pc[p] = "save" /\ pc'[p] = "idle"
         /\ file'["local"].kind = "doc" /\ file["local"] = Empty
       => file'["local"].doc.set["project"] = cmd[p].key]_vars

=============================================================================
