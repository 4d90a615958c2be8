--------------------------- MODULE MCServiceLink ---------------------------
(* Instances of ServiceLink for TLC. *)
EXTENDS ServiceLink

CONSTANTS u1, u2, u3, front, api, db, mq, front8080

MCOneClient == {u1}
MCTwoClients == {u1, u2}
MCThreeClients == {u1, u2, u3}

MCOneComponent == {front}
MCTwoComponents == {front, api}

MCOneService == {db}
MCTwoServices == {db, mq}

\* The secret of a component's port, through which another one is linked.
MCNoComponentSecret == {}
MCComponentSecret == {front8080}

\* Users are interchangeable.
Symmetry == Permutations(MCThreeClients)

============================================================================
