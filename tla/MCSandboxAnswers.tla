------------------------- MODULE MCSandboxAnswers -------------------------
(* Instances of SandboxAnswers for TLC. *)
EXTENDS SandboxAnswers, TLC

CONSTANTS u1, u2, api, API

\* u1 is on a plan with room for one running sandbox, u2 on an unlimited one.
MCMaxRunning == (u1 :> 1) @@ (u2 :> 0)

\* "API" and "api" are the same name to the unique index.
MCLower == [n \in Names |-> IF n = API THEN api ELSE n]

\* Ids, request slots and projects are interchangeable, and so are the names of an
\* instance with no two of them equal under Lower; users, whose plans differ, are not.
MCSymmetry ==
  Permutations(Sandboxes) \cup Permutations(Requests) \cup Permutations(Projects)
    \cup Permutations(Names)

\* The projects there are, and those a sandbox or a request belongs to.
MCInUse ==
  projects \cup {row[s].project : s \in {x \in Sandboxes : row[x] # Null}}
    \cup ({request[r].project : r \in Requests} \ {Null})

\* A bound: more than one project is in use only as long as there is one sandbox at
\* most and one slot that served a request.
MCNarrow ==
  Cardinality(MCInUse) > 1 =>
    /\ Cardinality(Sandboxes \ Unborn) < 2
    /\ Cardinality({r \in Requests : request[r] # IdleRequest}) < 2

=============================================================================
