----------------------------- MODULE Reconcile -----------------------------
(***************************************************************************)
(* What `odo push` and `odo delete` promise of a component: a command is   *)
(* refused and changes nothing, or it makes the component what was asked   *)
(* for, or it says that it failed.  Module ComponentPush shows that the    *)
(* calls to the API keep the promise.                                      *)
(***************************************************************************)
CONSTANTS
  Wishes,     \* what a push may ask for
  Absent,     \* what a delete asks for
  Nothing,    \* no command runs
  Unsettled,  \* the component while a command works on it
  Broken      \* the component when it is not as any push would leave it

VARIABLES
  wish,    \* what the running command was asked for
  works,   \* it has begun to change the component
  live,    \* the component that runs
  said,    \* how the last command ended
  intact   \* no command has stopped halfway

variables == <<wish, works, live, said, intact>>

Init == /\ wish = Nothing /\ works = FALSE
        /\ live = Absent
        /\ said = "none" /\ intact = TRUE

\* A user asks for a component, or for none.
Ask == /\ wish = Nothing
       /\ wish' \in Wishes \cup {Absent}
       /\ said' = "running"
       /\ UNCHANGED <<works, live, intact>>

Ends(how) == wish' = Nothing /\ works' = FALSE /\ said' = how

\* Nothing has been changed.
Refuse == /\ wish # Nothing /\ ~works
          /\ Ends("failed")
          /\ UNCHANGED <<live, intact>>

Begin == /\ wish # Nothing /\ ~works
         /\ works' = TRUE /\ live' = Unsettled
         /\ UNCHANGED <<wish, said, intact>>

\* A step that failed, and does not end the command.
Falter == /\ works
          /\ intact' = FALSE
          /\ UNCHANGED <<wish, works, live, said>>

\* Success is what was asked for, whatever happened to the component before.
Succeed == /\ works
           /\ Ends("done")
           /\ live' = wish
           /\ UNCHANGED intact

\* Nothing is known of the component.
Stop == /\ works
        /\ Ends("failed")
        /\ live' \in Wishes \cup {Absent, Broken}
        /\ intact' = FALSE

Next == Ask \/ Refuse \/ Begin \/ Falter \/ Succeed \/ Stop

Spec == Init /\ [][Next]_variables

=============================================================================
