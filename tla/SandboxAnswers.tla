-------------------------- MODULE SandboxAnswers --------------------------
(***************************************************************************)
(* Are the answers of restart and stop true?  Each takes several           *)
(* statements, so by the time it answers, what it read may have changed.   *)
(* The best such a request can promise is that its answer was true at some *)
(* instant between its arrival and its answer.  The history variable below *)
(* records every condition the named sandbox went through while a request  *)
(* was being served; it never influences a step of SandboxService.         *)
(***************************************************************************)
EXTENDS SandboxService

VARIABLE witness   \* the conditions each request's sandbox has been in

hvars == <<vars, witness>>

\* A sandbox as a user can see it: hidden when it does not exist or the user is
\* not a member of its project.
Conditions ==
  [su \in Sandboxes \X Users |->
     IF Accessible(su[1], su[2]) THEN state[su[1]] ELSE "hidden"]

NamesSandbox(r) == request[r].target # Null

HInit ==
  /\ Init
  /\ witness = [r \in Requests |-> {}]

\* From its arrival to the step that answers it, that step included.
Observe ==
  witness' = [r \in Requests |->
    IF NamesSandbox(r)
      THEN witness[r] \cup {Conditions'[<<request[r].target, request[r].actor>>]}
    ELSE IF NamesSandbox(r)'
      THEN {Conditions[<<request'[r].target, request'[r].actor>>]}
    ELSE {}]

HNext == Next /\ Observe

HSpec == HInit /\ [][HNext]_hvars

-----------------------------------------------------------------------------
\* What must have been witnessed for an answer to be true.  A reread that finds
\* the condition the request wanted to leave or reach is explained only by a
\* second one: something else moved the sandbox meanwhile.
TrueOf(a, seen, elsewhere) ==
  /\ a \in {"Stopped", "Restarted", "RereadRunning"} => {"running", "stopped"} \subseteq seen
  /\ a = "AlreadyRunning"  => "running" \in seen
  /\ a = "RereadStopped"   => "stopped" \in seen /\ seen # {"stopped"}
  /\ a = "AlreadyStopped"  => "stopped" \in seen
  /\ a = "Modified"        => "running" \in seen /\ seen # {"running"}
  /\ a = "SandboxNotFound" => "hidden" \in seen \/ elsewhere

\* The request in slot r is being answered (not cut off by a crash).
IsAnswered(r) == ~At(r, "idle") /\ At(r, "idle")' /\ request'[r].answer # Null

\* Every answer to a restart or a stop was true at some instant of the request,
\* however many statements of other requests ran between its own: no answer is
\* made of two half-truths (Restart and Stop in service/sandbox.go).
AnswersWitnessed ==
  [][\A r \in Requests : IsAnswered(r) /\ NamesSandbox(r) =>
       LET q == request[r] IN
       TrueOf(request'[r].answer, witness'[r],
              /\ q.op = "restart"
              /\ state[q.target] # "unborn"
              /\ row[q.target].project # q.project)]_hvars

=============================================================================
