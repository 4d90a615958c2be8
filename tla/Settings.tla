------------------------------ MODULE Settings ------------------------------
(***************************************************************************)
(* What odo's settings files promise: a file is a set of settings, and a   *)
(* command changes it in one step, as if it were alone.  Module            *)
(* LocalConfig shows how far the code keeps the promise.                   *)
(***************************************************************************)
CONSTANTS
  Fields,      \* the single-valued settings a file can hold
  Values,      \* their values, and those of environment variables
  EnvNames,    \* names of environment variables
  Names,       \* names of storages and URLs
  Places,      \* paths of storages, ports of URLs
  None         \* a setting that is not there

VARIABLE conf  \* the settings; NoFile when there is no file

Entry    == [name : Names, at : Places]
Blank    == [set |-> [f \in Fields |-> None], env |-> [e \in EnvNames |-> None],
             storage |-> {}, url |-> {}]
NoFile   == [kind |-> "absent"]
File(c)  == [kind |-> "file", doc |-> c]

Init == conf = NoFile

\* The settings a command starts from: those of the file, or none.
Start == IF conf = NoFile THEN Blank ELSE conf.doc

\* One value is given to, or taken from, some fields (one, or a pair such as
\* the minimum and the maximum of memory); nothing else changes.
Assign == /\ conf' # NoFile
          /\ conf' = File([Start EXCEPT !.set = conf'.doc.set])
          /\ \E v \in Values \cup {None} :
               \A f \in Fields : conf'.doc.set[f] \in {Start.set[f], v}

AssignEnv == \E e \in EnvNames, v \in Values \cup {None} :
               conf' = File([Start EXCEPT !.env[e] = v])

\* A storage is added under a name and a path that no other one has.
AddStorage == \E e \in Entry :
  /\ \A s \in Start.storage : s.name # e.name /\ s.at # e.at
  /\ conf' = File([Start EXCEPT !.storage = @ \cup {e}])

AddUrl == \E e \in Entry :
  /\ \A u \in Start.url : u.name # e.name
  /\ conf' = File([Start EXCEPT !.url = @ \cup {e}])

RemoveStorage == \E e \in Start.storage :
  conf' = File([Start EXCEPT !.storage = @ \ {e}])

RemoveUrl == \E e \in Start.url :
  conf' = File([Start EXCEPT !.url = @ \ {e}])

\* All the storages, or all the URLs, are forgotten.
ClearStorage == conf' = File([Start EXCEPT !.storage = {}])
ClearUrl     == conf' = File([Start EXCEPT !.url = {}])

\* A component is created only where there is none.
Create == /\ conf = NoFile
          /\ conf'.kind = "file"
          /\ conf'.doc.storage = {} /\ conf'.doc.url = {}

Remove == conf # NoFile /\ conf' = NoFile

\* A crash may cost the settings, never a part of them.
Lose == conf' = File(Blank)

Next == \/ Assign \/ AssignEnv
        \/ AddStorage \/ AddUrl \/ RemoveStorage \/ RemoveUrl
        \/ ClearStorage \/ ClearUrl
        \/ Create \/ Remove \/ Lose

Spec == Init /\ [][Next]_conf

=============================================================================
