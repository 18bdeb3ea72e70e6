-------------------------- MODULE ProjectService --------------------------
(***************************************************************************)
(* Projects and their access list: POST /v1/projects (a project and its    *)
(* owner's membership in one transaction), POST /v1/projects/:id/members   *)
(* (lookup and insert in one transaction) and the sign-up that a login     *)
(* performs.  Transactions are READ COMMITTED: what one has inserted is    *)
(* invisible to the others until it commits, except to the unique indexes, *)
(* which make them wait, and to the deletes its foreign keys lock out.     *)
(* A transaction keeps one of the pool's connections from BEGIN to its     *)
(* end; any other statement needs one only while it runs.                  *)
(***************************************************************************)
EXTENDS Naturals, FiniteSets

CONSTANTS
  Emails,        \* users.email, the subject of a token
  Users,         \* users.id: UUIDs, never used twice
  Projects,      \* projects.id: UUIDs, never used twice
  Names,         \* project names, trimmed
  Lower,         \* LOWER(name), in the key of the unique index
  Requests,      \* requests in flight at once
  MaxProjects,   \* plans.max_projects of each user's plan
  MaxOpenConns,  \* DB_MAX_OPEN_CONNS
  OperatorSQL,   \* whether the operator deletes rows by hand
  Null           \* no value

ASSUME MaxProjectsAssumption == MaxProjects \in [Users -> Nat]
ASSUME RequestsAssumption == IsFiniteSet(Requests) /\ Requests # {}
ASSUME ProjectsAssumption == IsFiniteSet(Projects)
ASSUME PoolAssumption == MaxOpenConns \in Nat \ {0}
ASSUME LowerAssumption == Lower \in [Names -> Names]
ASSUME NullAssumption == Null \notin Users

VARIABLES
  account,    \* users: the id behind each email, if there is one
  bornUsers,  \* the ids users have ever had
  status,     \* projects: the life of each id, as committed
  row,        \* the owner and the name of each project, as committed
  members,    \* project_users, as committed
  request     \* the requests in flight, with what their transaction wrote

vars == <<account, bornUsers, status, row, members, request>>

Row == [owner : Users, name : Names]

\* The states of a request that holds a connection, its transaction open.
InTransaction == {"insert_project", "insert_owner", "commit",
                  "lookup_user", "insert_member", "add_commit"}

PCs == {"idle", "quota", "begin", "membership", "add_begin"} \cup InTransaction

Answers == {"Created", "Added", "NameTaken", "AlreadyMember", "QuotaExceeded",
            "ProjectNotFound", "UserNotFound", "NotMember", "NotOwner",
            "InternalError", "RawForeignKeyError"}

RequestType ==
  [pc : PCs,
   actor : Users \cup {Null},
   project : Projects \cup {Null},   \* the :id of the path, or the id inserted
   name : Names \cup {Null},
   email : Emails \cup {Null},       \* whom to add
   user : Users \cup {Null},         \* the id the lookup found
   answer : Answers \cup {Null}]

TypeOK ==
  /\ account \in [Emails -> Users \cup {Null}]
  /\ bornUsers \subseteq Users
  /\ status \in [Projects -> {"unborn", "live", "deleted"}]
  /\ row \in [Projects -> Row \cup {Null}]
  /\ members \subseteq Projects \X Users
  /\ request \in [Requests -> RequestType]

IdleRequest ==
  [pc |-> "idle", actor |-> Null, project |-> Null, name |-> Null,
   email |-> Null, user |-> Null, answer |-> Null]

Init ==
  /\ account = [e \in Emails |-> Null]
  /\ bornUsers = {}
  /\ status = [p \in Projects |-> "unborn"]
  /\ row = [p \in Projects |-> Null]
  /\ members = {}
  /\ request = [r \in Requests |-> IdleRequest]

-----------------------------------------------------------------------------
(* What statements see, and what makes them wait. *)

UserExists(u) == \E e \in Emails : account[e] = u

Live(p) == status[p] = "live"

OwnedBy(u) == {p \in Projects : Live(p) /\ row[p].owner = u}

\* A mutation: the user who has reached the cap may create one more.
UnderQuota_AtCap(u) == MaxProjects[u] = 0 \/ Cardinality(OwnedBy(u)) <= MaxProjects[u]

UnderQuota(u) == MaxProjects[u] = 0 \/ Cardinality(OwnedBy(u)) < MaxProjects[u]

At(r, pc) == request[r].pc = pc

\* database/sql lends a connection for a statement or for a transaction.
ConnectionFree ==
  Cardinality({r \in Requests : request[r].pc \in InTransaction}) < MaxOpenConns

\* A request whose project row is inserted and not committed.
Inserting(r) == request[r].pc \in {"insert_owner", "commit"}

\* The key of idx_projects_owner_name.
SameKey(u, n, v, m) == u = v /\ Lower[n] = Lower[m]

NameCommitted(u, n) ==
  \E p \in Projects : Live(p) /\ SameKey(u, n, row[p].owner, row[p].name)

NamePending(r) ==
  \E q \in Requests \ {r} :
    /\ Inserting(q)
    /\ SameKey(request[r].actor, request[r].name, request[q].actor, request[q].name)

MemberPending(r) ==
  \E q \in Requests \ {r} :
    /\ At(q, "add_commit")
    /\ request[q].project = request[r].project
    /\ request[q].user = request[r].user

\* A mutation: the membership is inserted over a connection of its own.
Waits_OnPool(r) ==
  \/ /\ At(r, "insert_owner") \/ request[r].pc \notin InTransaction
     /\ ~ConnectionFree
  \/ At(r, "insert_project") /\ NamePending(r)
  \/ At(r, "insert_member") /\ MemberPending(r)

\* What keeps the next statement of a request from running: outside a transaction
\* it needs a connection; inside one, it has one, and only inserts of a key that
\* another transaction has inserted wait, for that transaction to end.
Waits(r) ==
  \/ request[r].pc \notin InTransaction /\ ~ConnectionFree
  \/ At(r, "insert_project") /\ NamePending(r)
  \/ At(r, "insert_member") /\ MemberPending(r)

\* The statement at which r stands runs.
Runs(r, pc) == At(r, pc) /\ ~Waits(r)

\* Rows that foreign keys of an open transaction have locked against deletion.
UserLocked(u) ==
  \E r \in Requests : \/ Inserting(r) /\ request[r].actor = u
                      \/ At(r, "add_commit") /\ request[r].user = u

ProjectLocked(p) == \E r \in Requests : At(r, "add_commit") /\ request[r].project = p

-----------------------------------------------------------------------------
(* Control flow of a request. *)

GoTo(r, pc) == request' = [request EXCEPT ![r].pc = pc]

\* The handler returns; an open transaction is rolled back (defer tx.Rollback)
\* and its connection goes back to the pool.
Answer(r, a) ==
  request' = [request EXCEPT ![r] = [IdleRequest EXCEPT !.answer = a]]

UnchangedTables == UNCHANGED <<account, bornUsers, status, row, members>>

InFlight == {r \in Requests : ~At(r, "idle")}

\* The ids that no project has or is about to have.
FreeIds ==
  {p \in Projects : status[p] = "unborn"
                      /\ \A r \in Requests : Inserting(r) => request[r].project # p}

Creating == {r \in Requests : request[r].pc \in
               {"quota", "begin", "insert_project", "insert_owner", "commit"}}

\* Ids left over bound the projects of a behaviour.
ReceiveCreate(r, u, n) ==
  /\ At(r, "idle")
  /\ Cardinality(Creating) < Cardinality({p \in Projects : status[p] = "unborn"})
  /\ request' = [request EXCEPT ![r] =
       [IdleRequest EXCEPT !.pc = "quota", !.actor = u, !.name = n]]
  /\ UnchangedTables

ReceiveAddMember(r, u, p, e) ==
  /\ At(r, "idle")
  /\ request' = [request EXCEPT ![r] =
       [IdleRequest EXCEPT !.pc = "membership", !.actor = u, !.project = p,
                           !.email = e]]
  /\ UnchangedTables

-----------------------------------------------------------------------------
(* ProjectService.Create *)

\* planUsage: the plan and, when it is limited, the count of owned projects.
CheckQuota(r) ==
  LET u == request[r].actor IN
  /\ Runs(r, "quota")
  /\ \/ ~UserExists(u) /\ Answer(r, "InternalError")
     \/ UserExists(u) /\ UnderQuota(u) /\ GoTo(r, "begin")
     \/ UserExists(u) /\ ~UnderQuota(u) /\ Answer(r, "QuotaExceeded")
  /\ UnchangedTables

Begin(r) ==
  /\ \/ Runs(r, "begin") /\ GoTo(r, "insert_project")
     \/ Runs(r, "add_begin") /\ GoTo(r, "lookup_user")
  /\ UnchangedTables

\* A mutation: the name is looked up before the insert instead of being unique.
InsertProject_NoWait(r) ==
  LET q == request[r] IN
  /\ At(r, "insert_project")
  /\ \/ NameCommitted(q.actor, q.name) /\ Answer(r, "NameTaken")
     \/ /\ ~NameCommitted(q.actor, q.name)
        /\ ~UserExists(q.actor)
        /\ Answer(r, "RawForeignKeyError")
     \/ /\ ~NameCommitted(q.actor, q.name)
        /\ UserExists(q.actor)
        /\ \E p \in FreeIds :
             request' = [request EXCEPT ![r].pc = "insert_owner", ![r].project = p]
  /\ UnchangedTables

\* A mutation: the insert runs outside the transaction and is visible at once.
InsertProject_AutoCommit(r) ==
  LET q == request[r] IN
  /\ Runs(r, "insert_project")
  /\ \/ NameCommitted(q.actor, q.name) /\ Answer(r, "NameTaken")
          /\ UNCHANGED <<status, row>>
     \/ /\ ~NameCommitted(q.actor, q.name)
        /\ ~UserExists(q.actor)
        /\ Answer(r, "RawForeignKeyError") /\ UNCHANGED <<status, row>>
     \/ /\ ~NameCommitted(q.actor, q.name)
        /\ UserExists(q.actor)
        /\ \E p \in FreeIds :
             /\ request' = [request EXCEPT ![r].pc = "insert_owner", ![r].project = p]
             /\ status' = [status EXCEPT ![p] = "live"]
             /\ row' = [row EXCEPT ![p] = [owner |-> q.actor, name |-> q.name]]
  /\ UNCHANGED <<account, bornUsers, members>>

\* INSERT INTO projects: waits for an equal name that is not committed yet.
InsertProject(r) ==
  LET q == request[r] IN
  /\ Runs(r, "insert_project")
  /\ \/ NameCommitted(q.actor, q.name) /\ Answer(r, "NameTaken")
     \/ /\ ~NameCommitted(q.actor, q.name)
        /\ ~UserExists(q.actor)
        /\ Answer(r, "RawForeignKeyError")
     \/ /\ ~NameCommitted(q.actor, q.name)
        /\ UserExists(q.actor)
        /\ \E p \in FreeIds :
             request' = [request EXCEPT ![r].pc = "insert_owner", ![r].project = p]
  /\ UnchangedTables

\* A mutation: the insert goes to the pool instead of the transaction.
InsertOwner_OnPool(r) ==
  /\ At(r, "insert_owner")
  /\ ConnectionFree
  /\ GoTo(r, "commit")
  /\ UnchangedTables

\* INSERT INTO project_users in the same transaction: the rows it refers to are
\* its own and one it has locked.
InsertOwner(r) ==
  /\ Runs(r, "insert_owner")
  /\ GoTo(r, "commit")
  /\ UnchangedTables

\* The project and the owner's membership appear together; the answer to COMMIT
\* may be lost.
CommitProject(r) ==
  LET q == request[r] IN
  /\ Runs(r, "commit")
  /\ status' = [status EXCEPT ![q.project] = "live"]
  /\ row' = [row EXCEPT ![q.project] = [owner |-> q.actor, name |-> q.name]]
  /\ members' = members \cup {<<q.project, q.actor>>}
  /\ Answer(r, "Created") \/ Answer(r, "InternalError")
  /\ UNCHANGED <<account, bornUsers>>

-----------------------------------------------------------------------------
(* ProjectService.AddMember *)

\* A mutation: a caller without a membership row is let through.
CheckOwner_NullRole(r) ==
  LET q == request[r] IN
  /\ Runs(r, "membership")
  /\ \/ ~Live(q.project) /\ Answer(r, "ProjectNotFound")
     \/ /\ Live(q.project)
        /\ IF row[q.project].owner = q.actor \/ <<q.project, q.actor>> \notin members
             THEN GoTo(r, "add_begin")
             ELSE Answer(r, "NotOwner")
  /\ UnchangedTables

\* The ProjectMembership middleware, then the handler's role check.
CheckOwner(r) ==
  LET q == request[r] IN
  /\ Runs(r, "membership")
  /\ \/ ~Live(q.project) /\ Answer(r, "ProjectNotFound")
     \/ /\ Live(q.project)
        /\ <<q.project, q.actor>> \notin members
        /\ Answer(r, "NotMember")
     \/ /\ Live(q.project)
        /\ <<q.project, q.actor>> \in members
        /\ IF row[q.project].owner = q.actor
             THEN GoTo(r, "add_begin")
             ELSE Answer(r, "NotOwner")
  /\ UnchangedTables

LookupUser(r) ==
  LET found == account[request[r].email] IN
  /\ Runs(r, "lookup_user")
  /\ IF found = Null
       THEN Answer(r, "UserNotFound")
       ELSE request' = [request EXCEPT ![r].pc = "insert_member", ![r].user = found]
  /\ UnchangedTables

\* INSERT INTO project_users: the unique key first, then the foreign keys, any
\* violation of which is answered as a missing project.
InsertMember(r) ==
  LET q == request[r] IN
  /\ Runs(r, "insert_member")
  /\ \/ <<q.project, q.user>> \in members /\ Answer(r, "AlreadyMember")
     \/ /\ <<q.project, q.user>> \notin members
        /\ ~(Live(q.project) /\ UserExists(q.user))
        /\ Answer(r, "ProjectNotFound")
     \/ /\ <<q.project, q.user>> \notin members
        /\ Live(q.project) /\ UserExists(q.user)
        /\ GoTo(r, "add_commit")
  /\ UnchangedTables

\* A mutation: the two ids of the INSERT are swapped.
CommitMember_Swapped(r) ==
  LET q == request[r] IN
  /\ Runs(r, "add_commit")
  /\ members' = members \cup {<<q.user, q.project>>}
  /\ Answer(r, "Added")
  /\ UNCHANGED <<account, bornUsers, status, row>>

CommitMember(r) ==
  LET q == request[r] IN
  /\ Runs(r, "add_commit")
  /\ members' = members \cup {<<q.project, q.user>>}
  /\ Answer(r, "Added") \/ Answer(r, "InternalError")
  /\ UNCHANGED <<account, bornUsers, status, row>>

-----------------------------------------------------------------------------
\* A statement fails: connection lost, context cancelled.
FailStatement(r) ==
  /\ r \in InFlight
  /\ Answer(r, "InternalError")
  /\ UnchangedTables

\* UpsertUserByEmail for an email without a user; otherwise it changes nothing.
SignUp(e) ==
  /\ ConnectionFree
  /\ account[e] = Null
  /\ \E u \in Users \ bornUsers :
       account' = [account EXCEPT ![e] = u] /\ bornUsers' = bornUsers \cup {u}
  /\ UNCHANGED <<status, row, members, request>>

\* DELETE FROM users: memberships cascade, owned projects forbid it, and rows
\* locked by an open transaction make it wait.
DeleteUser(e) ==
  LET u == account[e] IN
  /\ OperatorSQL
  /\ u # Null
  /\ OwnedBy(u) = {} /\ ~UserLocked(u)
  /\ account' = [account EXCEPT ![e] = Null]
  /\ members' = {m \in members : m[2] # u}
  /\ UNCHANGED <<bornUsers, status, row, request>>

\* DELETE FROM projects: memberships cascade.
DeleteProject(p) ==
  /\ OperatorSQL
  /\ Live(p) /\ ~ProjectLocked(p)
  /\ status' = [status EXCEPT ![p] = "deleted"]
  /\ members' = {m \in members : m[1] # p}
  /\ UNCHANGED <<account, bornUsers, row, request>>

\* DELETE FROM project_users: how a member is revoked.  The operator is assumed to
\* leave the row of an owner alone, which nothing in the schema protects.
RevokeMember(p, u) ==
  /\ OperatorSQL
  /\ <<p, u>> \in members /\ row[p].owner # u
  /\ members' = members \ {<<p, u>>}
  /\ UNCHANGED <<account, bornUsers, status, row, request>>

\* An instance dies with its requests; Postgres rolls their transactions back.
Crash(dead) ==
  /\ request' = [r \in Requests |-> IF r \in dead THEN IdleRequest ELSE request[r]]
  /\ UnchangedTables

-----------------------------------------------------------------------------
Receive(r) ==
  \E u \in bornUsers :
    \/ \E n \in Names : ReceiveCreate(r, u, n)
    \/ \E p \in Projects, e \in Emails : ReceiveAddMember(r, u, p, e)

\* The next statement of a request, when it does not fail.
Advance(r) ==
  \/ CheckQuota(r) \/ Begin(r) \/ InsertProject(r) \/ InsertOwner(r)
  \/ CommitProject(r)
  \/ CheckOwner(r) \/ LookupUser(r) \/ InsertMember(r) \/ CommitMember(r)

Environment ==
  \/ \E e \in Emails : SignUp(e) \/ DeleteUser(e)
  \/ \E p \in Projects : DeleteProject(p) \/ \E u \in Users : RevokeMember(p, u)
  \/ \E dead \in SUBSET InFlight : Crash(dead)

Next ==
  \/ \E r \in Requests : Receive(r) \/ Advance(r) \/ FailStatement(r)
  \/ Environment

Spec == Init /\ [][Next]_vars

\* A goroutine that can go on does.  Waiting for a connection or for another
\* transaction ends only if a request that is let through again and again
\* eventually goes: database/sql hands a returned connection to a waiting
\* request, and Postgres wakes the waiters of a transaction when it ends.
FairSpec == Spec /\ \A r \in Requests : SF_vars(Advance(r))

-----------------------------------------------------------------------------
(* Properties. *)

\* The access list and the two tables it relates agree in every state another
\* transaction can see, across crashes, rollbacks and deletions: the owner of a
\* project exists and is a member of it, and a membership is of a project and a
\* user that exist ("no ownerless projects", docs/DESIGN.md 9).
AccessListConsistent ==
  /\ \A p \in Projects : Live(p) =>
       <<p, row[p].owner>> \in members /\ UserExists(row[p].owner)
  /\ \A m \in members : Live(m[1]) /\ UserExists(m[2])

\* No user ends up with two projects of the same name, however creates of equal
\* names race (migrations/000001_init.up.sql, idx_projects_owner_name).
OwnNamesUnique ==
  \A p, q \in Projects :
    /\ p # q /\ Live(p) /\ Live(q)
    /\ row[p].owner = row[q].owner
    => Lower[row[p].name] # Lower[row[q].name]

\* Requests that passed the quota check for u and have not committed yet.
GrantedTo(u) ==
  {r \in Requests :
     /\ request[r].pc \in {"begin", "insert_project", "insert_owner", "commit"}
     /\ request[r].actor = u}

Quota == INSTANCE SoftQuota
           WITH Cap <- MaxProjects,
                used <- [u \in Users |-> Cardinality(OwnedBy(u))],
                granted <- [u \in Users |-> GrantedTo(u)]

\* Project creation is the same soft quota as sandbox creation, with a whole
\* transaction between the check and the write (planUsage and Create): each create
\* that passed the check adds one project at most, so a limited user owns at most
\* cap - 1 + (requests in flight at once) of them (SoftQuota, OvershootBounded).
ImplementsSoftQuota == Quota!Spec

\* In numbers, over the committed projects and those about to be: the cap is passed
\* by less than the number of requests in flight (the "overshoot by a few" of
\* planUsage), though the count and the insert are in different transactions.
OwnedOvershootBounded == Quota!OvershootBounded

List == INSTANCE AccessList

\* What a reader of the tables sees of all this is an access list that changes by
\* whole operations: no half of a create, no equal name, no membership of what is
\* gone is ever visible, whatever statements, rollbacks and deaths come between.
ImplementsAccessList == List!Spec

\* Nobody joins a project but by the request of the user who owns it at the moment
\* the membership becomes visible, two transactions after the role was checked.
InvitedByOwner ==
  [][\A m \in members' \ members :
       \/ Live(m[1])' /\ ~Live(m[1]) /\ row'[m[1]].owner = m[2]
       \/ \E r \in Requests :
            /\ request'[r] # request[r]
            /\ request[r].project = m[1] /\ request[r].user = m[2]
            /\ Live(m[1]) /\ row[m[1]].owner = request[r].actor]_vars

\* Somebody can always go on: the requests that keep a connection never need another
\* one, and those that wait for a name or a membership wait for a request that waits
\* for nothing (Create and AddMember run every statement on their transaction).
NoStandstill == InFlight # {} => \E r \in InFlight : ~Waits(r)

\* Every request is answered, however small the pool: no request ever waits for a
\* connection while it keeps one, or for a name that is never given up.
Answered == \A r \in Requests : ~At(r, "idle") ~> At(r, "idle")

\* The comment of AddMember: "Transaction so the user cannot be deleted between
\* the lookup and the membership insert" (internal/service/project.go:124).  A
\* READ COMMITTED transaction does not lock what it has only read.
LookupPinsUser ==
  \A r \in Requests : At(r, "insert_member") => UserExists(request[r].user)

=============================================================================
