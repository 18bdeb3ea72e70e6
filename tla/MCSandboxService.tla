------------------------- MODULE MCSandboxService -------------------------
(* Instances of SandboxService for TLC. *)
EXTENDS SandboxService, TLC

CONSTANTS u1, u2, api, API

\* u1 is on a plan with room for one running sandbox, u2 on an unlimited one.
MCMaxRunning == (u1 :> 1) @@ (u2 :> 0)

\* "API" and "api" are the same name to the unique index.
MCLower == [n \in Names |-> IF n = API THEN api ELSE n]

\* Ids and request slots are interchangeable; users and names are not.
MCSymmetry == Permutations(Sandboxes) \cup Permutations(Requests)

=============================================================================
