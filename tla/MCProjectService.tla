------------------------- MODULE MCProjectService -------------------------
(* Instances of ProjectService for TLC. *)
EXTENDS ProjectService, TLC

CONSTANTS u1, u2, api, API

\* The first user is on a plan with one owned project, the others on an
\* unlimited one.
MCMaxProjects == (u1 :> 1) @@ [u \in Users |-> 0]

\* "API" and "api" are the same name to the unique index.
MCLower == [n \in Names |-> IF n = API THEN api ELSE n]

\* Ids of projects, request slots and emails are interchangeable.
MCSymmetry ==
  Permutations(Projects) \cup Permutations(Requests) \cup Permutations(Emails)

=============================================================================
