-------------------------- MODULE SandboxService --------------------------
(***************************************************************************)
(* The sandbox lifecycle as the service runs it: POST                      *)
(* /v1/projects/:id/sandboxes (create, or restart when a sandbox_id is     *)
(* given) and DELETE /v1/sandboxes/:id (stop), each request a goroutine    *)
(* whose steps are its SQL statements.  A statement is atomic and commits  *)
(* by itself; between two statements of a request every other request,     *)
(* the other instances of the service and the operator's own SQL may run.  *)
(***************************************************************************)
EXTENDS Naturals, FiniteSets

CONSTANTS
  Users,               \* users.id
  Projects,            \* projects.id
  Sandboxes,           \* sandboxes.id: UUIDs, never used twice
  Names,               \* sandbox names, trimmed
  Lower,               \* LOWER(name), the key of the unique index
  Requests,            \* requests in flight at once, over all instances
  MaxRunningSandboxes, \* plans.max_running_sandboxes of each user's plan
  OperatorSQL,         \* whether the operator revokes and deletes rows by hand
  Null                 \* no value

ASSUME MaxRunningAssumption == MaxRunningSandboxes \in [Users -> Nat]
ASSUME RequestsAssumption == IsFiniteSet(Requests) /\ Requests # {}
ASSUME SandboxesAssumption == IsFiniteSet(Sandboxes)
ASSUME LowerAssumption == Lower \in [Names -> Names]

VARIABLES
  projects,   \* the projects that exist
  members,    \* project_users: pairs of a project and a user
  state,      \* the lifecycle of each sandbox id; running is stopped_at IS NULL
  row,        \* the columns of a sandbox that no statement updates
  request     \* the requests in flight and the last answer of each slot

vars == <<projects, members, state, row, request>>

Row == [project : Projects, creator : Users, name : Names]

PCs == {"idle", "membership", "quota", "insert", "lookup", "restart",
        "reread", "stop", "stop_reread"}

Answers == {"Created", "Restarted", "AlreadyRunning", "RereadRunning",
            "RereadStopped", "Stopped", "AlreadyStopped", "Modified",
            "ProjectNotFound", "SandboxNotFound", "NotMember", "NameTaken",
            "QuotaExceeded", "InternalError"}

RequestType ==
  [pc : PCs,
   op : {"create", "restart", "stop", "none"},
   actor : Users \cup {Null},
   project : Projects \cup {Null},      \* the :id of the path
   target : Sandboxes \cup {Null},      \* sandbox_id, or the :id of DELETE
   name : Names \cup {Null},
   charged : Users \cup {Null},         \* whose plan the check counts against
   answer : Answers \cup {Null}]

TypeOK ==
  /\ projects \subseteq Projects
  /\ members \subseteq Projects \X Users
  /\ state \in [Sandboxes -> {"unborn", "running", "stopped", "deleted"}]
  /\ row \in [Sandboxes -> Row \cup {Null}]
  /\ request \in [Requests -> RequestType]

IdleRequest ==
  [pc |-> "idle", op |-> "none", actor |-> Null, project |-> Null,
   target |-> Null, name |-> Null, charged |-> Null, answer |-> Null]

\* Every project has its owner as a member before it becomes visible.
Init ==
  /\ projects = Projects
  /\ members \in SUBSET (Projects \X Users)
  /\ \A p \in Projects : \E u \in Users : <<p, u>> \in members
  /\ state = [s \in Sandboxes |-> "unborn"]
  /\ row = [s \in Sandboxes |-> Null]
  /\ request = [r \in Requests |-> IdleRequest]

-----------------------------------------------------------------------------
(* The queries. *)

Exists(s) == state[s] \in {"running", "stopped"}

IsMember(p, u) == <<p, u>> \in members

\* The join every statement on a sandbox id makes with project_users.
Accessible(s, u) == Exists(s) /\ IsMember(row[s].project, u)

RunningOf(u) == {s \in Sandboxes : state[s] = "running" /\ row[s].creator = u}

\* The count stops at the LIMIT, the plan cap.
CountRunning(u, limit) ==
  LET n == Cardinality(RunningOf(u)) IN IF n < limit THEN n ELSE limit

UnderQuota(u) ==
  LET max == MaxRunningSandboxes[u]
  IN  max = 0 \/ CountRunning(u, max) < max

NameInUse(p, n) ==
  \E s \in Sandboxes :
    Exists(s) /\ row[s].project = p /\ Lower[row[s].name] = Lower[n]

-----------------------------------------------------------------------------
(* Control flow of a request. *)

At(r, pc) == request[r].pc = pc

GoTo(r, pc) == request' = [request EXCEPT ![r].pc = pc]

\* The handler returns: the slot is free again and keeps only its last answer.
Answer(r, a) ==
  request' = [request EXCEPT ![r] = [IdleRequest EXCEPT !.answer = a]]

UnchangedTables == UNCHANGED <<projects, members, state, row>>

InFlight == {r \in Requests : ~At(r, "idle")}

Unborn == {s \in Sandboxes : state[s] = "unborn"}

\* A create request arrives; ids left over bound the creates of a behaviour.
ReceiveCreate(r, u, p, n) ==
  /\ At(r, "idle")
  /\ Cardinality({q \in InFlight : request[q].op = "create"}) < Cardinality(Unborn)
  /\ request' = [request EXCEPT ![r] =
       [IdleRequest EXCEPT !.pc = "membership", !.op = "create", !.actor = u,
                           !.project = p, !.name = n, !.charged = u]]
  /\ UnchangedTables

ReceiveRestart(r, u, p, s) ==
  /\ At(r, "idle")
  /\ request' = [request EXCEPT ![r] =
       [IdleRequest EXCEPT !.pc = "membership", !.op = "restart", !.actor = u,
                           !.project = p, !.target = s]]
  /\ UnchangedTables

ReceiveStop(r, u, s) ==
  /\ At(r, "idle")
  /\ request' = [request EXCEPT ![r] =
       [IdleRequest EXCEPT !.pc = "stop", !.op = "stop", !.actor = u,
                           !.target = s]]
  /\ UnchangedTables

\* The ProjectMembership middleware: missing project, not a member, or go on.
CheckMembership(r) ==
  LET q == request[r] IN
  /\ At(r, "membership")
  /\ \/ q.project \notin projects /\ Answer(r, "ProjectNotFound")
     \/ /\ q.project \in projects
        /\ ~IsMember(q.project, q.actor)
        /\ Answer(r, "NotMember")
     \/ /\ q.project \in projects
        /\ IsMember(q.project, q.actor)
        /\ GoTo(r, IF q.op = "create" THEN "quota" ELSE "lookup")
  /\ UnchangedTables

\* A mutation: only creates are checked, as if a restart were not growth.
CheckRunningQuota_CreatesOnly(r) ==
  LET q == request[r] IN
  /\ At(r, "quota")
  /\ IF q.op = "restart" \/ UnderQuota(q.charged)
       THEN GoTo(r, IF q.op = "create" THEN "insert" ELSE "restart")
       ELSE Answer(r, "QuotaExceeded")
  /\ UnchangedTables

\* checkRunningQuota, for the user the request charges.
CheckRunningQuota(r) ==
  LET q == request[r] IN
  /\ At(r, "quota")
  /\ IF UnderQuota(q.charged)
       THEN GoTo(r, IF q.op = "create" THEN "insert" ELSE "restart")
       ELSE Answer(r, "QuotaExceeded")
  /\ UnchangedTables

\* A write's answer may be lost on its way back after the statement committed.
WriteAnswer(r, a) == Answer(r, a) \/ Answer(r, "InternalError")

\* INSERT INTO sandboxes: no membership is checked here.
CreateSandbox(r) ==
  LET q == request[r] IN
  /\ At(r, "insert")
  /\ \/ /\ q.project \in projects
        /\ ~NameInUse(q.project, q.name)
        /\ \E s \in Unborn :
             /\ state' = [state EXCEPT ![s] = "running"]
             /\ row' = [row EXCEPT ![s] = [project |-> q.project,
                                           creator |-> q.actor,
                                           name |-> q.name]]
        /\ WriteAnswer(r, "Created")
     \/ /\ NameInUse(q.project, q.name)
        /\ Answer(r, "NameTaken")
        /\ UNCHANGED <<state, row>>
     \/ /\ q.project \notin projects
        /\ Answer(r, "ProjectNotFound")
        /\ UNCHANGED <<state, row>>
  /\ UNCHANGED <<projects, members>>

\* A mutation: the restart is charged to the caller.
LookupSandbox_ChargesCaller(r) ==
  LET q == request[r] IN
  /\ At(r, "lookup")
  /\ \/ /\ ~Accessible(q.target, q.actor)
        /\ Answer(r, "SandboxNotFound")
     \/ /\ Accessible(q.target, q.actor)
        /\ row[q.target].project # q.project
        /\ Answer(r, "SandboxNotFound")
     \/ /\ Accessible(q.target, q.actor)
        /\ row[q.target].project = q.project
        /\ \/ state[q.target] = "running" /\ Answer(r, "AlreadyRunning")
           \/ /\ state[q.target] = "stopped"
              /\ request' = [request EXCEPT ![r].pc = "quota",
                                            ![r].charged = q.actor]
  /\ UnchangedTables

\* Restart's first read: the creator it finds is the one the quota is charged to.
LookupSandbox(r) ==
  LET q == request[r] IN
  /\ At(r, "lookup")
  /\ \/ /\ ~Accessible(q.target, q.actor)
        /\ Answer(r, "SandboxNotFound")
     \/ /\ Accessible(q.target, q.actor)
        /\ row[q.target].project # q.project
        /\ Answer(r, "SandboxNotFound")
     \/ /\ Accessible(q.target, q.actor)
        /\ row[q.target].project = q.project
        /\ \/ state[q.target] = "running" /\ Answer(r, "AlreadyRunning")
           \/ /\ state[q.target] = "stopped"
              /\ request' = [request EXCEPT ![r].pc = "quota",
                                            ![r].charged = row[q.target].creator]
  /\ UnchangedTables

\* A mutation: the UPDATE trusts the membership of the earlier read.
RestartSandbox_TrustsRead(r) ==
  LET q == request[r] IN
  /\ At(r, "restart")
  /\ \/ /\ Exists(q.target)
        /\ state[q.target] = "stopped"
        /\ state' = [state EXCEPT ![q.target] = "running"]
        /\ WriteAnswer(r, "Restarted")
     \/ /\ ~(Exists(q.target) /\ state[q.target] = "stopped")
        /\ GoTo(r, "reread")
        /\ UNCHANGED state
  /\ UNCHANGED <<projects, members, row>>

\* UPDATE ... SET stopped_at = NULL, guarded by the stopped state and membership.
RestartSandbox(r) ==
  LET q == request[r] IN
  /\ At(r, "restart")
  /\ \/ /\ Accessible(q.target, q.actor)
        /\ state[q.target] = "stopped"
        /\ state' = [state EXCEPT ![q.target] = "running"]
        /\ WriteAnswer(r, "Restarted")
     \/ /\ ~(Accessible(q.target, q.actor) /\ state[q.target] = "stopped")
        /\ GoTo(r, "reread")
        /\ UNCHANGED state
  /\ UNCHANGED <<projects, members, row>>

\* No row came back: read again and answer with what is there now.
RereadSandbox(r) ==
  LET q == request[r] IN
  /\ At(r, "reread")
  /\ \/ ~Accessible(q.target, q.actor) /\ Answer(r, "SandboxNotFound")
     \/ /\ Accessible(q.target, q.actor)
        /\ Answer(r, IF state[q.target] = "running"
                       THEN "RereadRunning" ELSE "RereadStopped")
  /\ UnchangedTables

\* A mutation: the number of updated rows is not looked at.
StopSandbox_IgnoresRows(r) ==
  LET q == request[r] IN
  /\ At(r, "stop")
  /\ \/ /\ Accessible(q.target, q.actor)
        /\ state[q.target] = "running"
        /\ state' = [state EXCEPT ![q.target] = "stopped"]
        /\ WriteAnswer(r, "Stopped")
     \/ /\ ~(Accessible(q.target, q.actor) /\ state[q.target] = "running")
        /\ Answer(r, "Stopped")
        /\ UNCHANGED state
  /\ UNCHANGED <<projects, members, row>>

\* UPDATE ... SET stopped_at = now(), guarded by the running state and membership.
StopSandbox(r) ==
  LET q == request[r] IN
  /\ At(r, "stop")
  /\ \/ /\ Accessible(q.target, q.actor)
        /\ state[q.target] = "running"
        /\ state' = [state EXCEPT ![q.target] = "stopped"]
        /\ WriteAnswer(r, "Stopped")
     \/ /\ ~(Accessible(q.target, q.actor) /\ state[q.target] = "running")
        /\ GoTo(r, "stop_reread")
        /\ UNCHANGED state
  /\ UNCHANGED <<projects, members, row>>

\* No row was updated: find out why.
ExplainStop(r) ==
  LET q == request[r] IN
  /\ At(r, "stop_reread")
  /\ \/ ~Accessible(q.target, q.actor) /\ Answer(r, "SandboxNotFound")
     \/ /\ Accessible(q.target, q.actor)
        /\ Answer(r, IF state[q.target] = "stopped"
                       THEN "AlreadyStopped" ELSE "Modified")
  /\ UnchangedTables

\* The statement fails without effect: connection lost, context cancelled.
FailStatement(r) ==
  /\ r \in InFlight
  /\ Answer(r, "InternalError")
  /\ UnchangedTables

-----------------------------------------------------------------------------
(* The rest of the system, as these requests can observe it. *)

\* A mutation: the two ids of the INSERT are swapped.
AddMember_Swapped(p, u) ==
  /\ p \in projects
  /\ members' = members \cup {<<u, p>>}
  /\ UNCHANGED <<projects, state, row, request>>

\* ProjectService.AddMember commits.
AddMember(p, u) ==
  /\ p \in projects
  /\ members' = members \cup {<<p, u>>}
  /\ UNCHANGED <<projects, state, row, request>>

\* The operator revokes a membership in SQL; no endpoint does.
RevokeMember(p, u) ==
  /\ OperatorSQL
  /\ members' = members \ {<<p, u>>}
  /\ UNCHANGED <<projects, state, row, request>>

\* The operator deletes a project in SQL; memberships and sandboxes cascade.
DeleteProject(p) ==
  /\ OperatorSQL
  /\ projects' = projects \ {p}
  /\ members' = {m \in members : m[1] # p}
  /\ state' = [s \in Sandboxes |->
                 IF Exists(s) /\ row[s].project = p THEN "deleted" ELSE state[s]]
  /\ UNCHANGED <<row, request>>

\* An instance of the service dies with the requests it was serving.
Crash(dead) ==
  /\ request' = [r \in Requests |-> IF r \in dead THEN IdleRequest ELSE request[r]]
  /\ UnchangedTables

-----------------------------------------------------------------------------
Receive(r) ==
  \E u \in Users, s \in Sandboxes, p \in Projects, n \in Names :
    ReceiveCreate(r, u, p, n) \/ ReceiveRestart(r, u, p, s) \/ ReceiveStop(r, u, s)

Serve(r) ==
  \/ CheckMembership(r) \/ CheckRunningQuota(r)
  \/ CreateSandbox(r)
  \/ LookupSandbox(r) \/ RestartSandbox(r) \/ RereadSandbox(r)
  \/ StopSandbox(r) \/ ExplainStop(r)
  \/ FailStatement(r)

Environment ==
  \/ \E p \in Projects, u \in Users : AddMember(p, u) \/ RevokeMember(p, u)
  \/ \E p \in Projects : DeleteProject(p)
  \/ \E dead \in SUBSET InFlight : Crash(dead)

Next == (\E r \in Requests : Receive(r) \/ Serve(r)) \/ Environment

Spec == Init /\ [][Next]_vars

-----------------------------------------------------------------------------
(* Properties. *)

RowsPresent == \A s \in Sandboxes : state[s] # "unborn" => row[s] \in Row

\* The fields a request has set by the time it reaches each of its statements.
RequestFormed(q) ==
  /\ q.op = "create" =>
       /\ q.pc \in {"membership", "quota", "insert"}
       /\ q.actor \in Users /\ q.project \in Projects /\ q.name \in Names
       /\ q.charged = q.actor
  /\ q.op = "restart" =>
       /\ q.pc \in {"membership", "lookup", "quota", "restart", "reread"}
       /\ q.actor \in Users /\ q.project \in Projects /\ q.target \in Sandboxes
       /\ q.pc \in {"quota", "restart"} =>
            state[q.target] # "unborn" /\ q.charged = row[q.target].creator
  /\ q.op = "stop" =>
       /\ q.pc \in {"stop", "stop_reread"}
       /\ q.actor \in Users /\ q.target \in Sandboxes
  /\ q.op = "none" => q.pc = "idle"

\* Between the first read of a restart and its UPDATE, the plan that is checked
\* stays that of the user whose running count the UPDATE will raise, whatever
\* becomes of the sandbox in between (Restart: "the quota is charged to the
\* sandbox CREATOR").  With the typing facts around it this is inductive.
ChargedToCreator ==
  /\ TypeOK
  /\ RowsPresent
  /\ \A r \in Requests : RequestFormed(request[r])

\* Requests that passed the quota check for u and have not written yet.
GrantedTo(u) ==
  {r \in Requests : request[r].pc \in {"insert", "restart"} /\ request[r].charged = u}

Quota == INSTANCE SoftQuota
           WITH Cap <- MaxRunningSandboxes,
                used <- [u \in Users |-> Cardinality(RunningOf(u))],
                granted <- [u \in Users |-> GrantedTo(u)]

\* Create and restart together are a soft quota on the sandboxes a user created
\* and that are running, whoever restarts them (checkRunningQuota and its calls).
ImplementsSoftQuota == Quota!Spec

\* However creates, restarts, stops and deletions interleave, a limited user runs
\* at most cap - 1 + (requests in flight at once) sandboxes; with one request at
\* a time that is the cap (the "overshoot by a few" of docs/DESIGN.md 7.2).
RunningOvershootBounded == Quota!OvershootBounded

\* A step that changes what request r is at.
StepOf(r) == request'[r] # request[r]

\* A sandbox is stopped or restarted only by a request whose user is a member of
\* its project at that very moment, whatever was read earlier in the request and
\* whichever memberships were revoked meanwhile (the joins of StopSandbox and
\* RestartSandbox).
LifecycleByMembers ==
  [][\A s \in Sandboxes :
       {state[s], state'[s]} = {"running", "stopped"} =>
         \E r \in Requests :
           /\ StepOf(r)
           /\ request[r].target = s
           /\ IsMember(row[s].project, request[r].actor)]_vars

\* docs/DESIGN.md 6: membership is enforced "inside the SQL for every sandbox
\* query", so that a revocation between read and write gives no access.  The
\* INSERT of a new sandbox has no such join.
CreationByMembers ==
  [][\A s \in Sandboxes :
       state[s] = "unborn" /\ state'[s] # "unborn" =>
         IsMember(row'[s].project, row'[s].creator)]_vars

=============================================================================
