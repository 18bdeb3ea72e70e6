------------------------ MODULE ProjectServiceProofs ------------------------
(***************************************************************************)
(* The access list, the unique names and the quota of projects, for every  *)
(* number of users, projects, names and requests, every pool and plan, and *)
(* whatever the operator deletes.                                          *)
(***************************************************************************)
EXTENDS ProjectService, FiniteSetTheorems, TLAPS

\* Past the quota check and before the commit.
Granted(q) == q.pc \in {"begin", "insert_project", "insert_owner", "commit"}

Inserted(q) == q.pc \in {"insert_owner", "commit"}

\* What a request knows by the time it reaches each of its statements.
Formed(q) ==
  /\ q.pc = "quota" \/ Granted(q) => q.actor \in Users /\ q.name \in Names
  /\ Inserted(q) =>
       /\ q.project \in Projects /\ status[q.project] = "unborn"
       /\ UserExists(q.actor) /\ ~NameCommitted(q.actor, q.name)
  /\ q.pc \in {"membership", "add_begin", "lookup_user", "insert_member", "add_commit"} =>
       q.actor \in Users /\ q.project \in Projects /\ q.email \in Emails
  /\ q.pc \in {"add_begin", "lookup_user", "insert_member", "add_commit"} =>
       status[q.project] # "unborn" /\ row[q.project].owner = q.actor
  /\ q.pc \in {"insert_member", "add_commit"} => q.user \in Users
  /\ q.pc = "add_commit" => Live(q.project) /\ UserExists(q.user)

RequestsFormed == \A r \in Requests : Formed(request[r])

\* Two inserts that are not committed are of different rows, by both keys.
Apart(p, q) ==
  Inserted(p) /\ Inserted(q) =>
    p.project # q.project /\ ~SameKey(p.actor, p.name, q.actor, q.name)

InsertsApart ==
  \A r, x \in Requests : r # x => Apart(request[r], request[x])

RowsPresent == \A p \in Projects : status[p] # "unborn" => row[p] \in Row

IInv ==
  /\ TypeOK /\ RequestsFormed /\ InsertsApart /\ RowsPresent
  /\ AccessListConsistent /\ OwnNamesUnique

USE DEF At, Runs

-----------------------------------------------------------------------------
(* Steps of one request that leave the tables alone. *)

\* A slot without a request.
LEMMA IdleFormed ==
  /\ IdleRequest \in RequestType /\ IdleRequest.pc = "idle"
  /\ \A a \in Answers : /\ [IdleRequest EXCEPT !.answer = a] \in RequestType
                        /\ [IdleRequest EXCEPT !.answer = a].pc = "idle"
  BY DEF IdleRequest, RequestType, PCs

\* Nothing is asked of one.
LEMMA IdleKnowsNothing ==
  ASSUME NEW q, q.pc = "idle"
  PROVE  Formed(q) /\ Formed(q)' /\ ~Inserted(q) /\ ~Granted(q)
  BY DEF Formed, Inserted, Granted

\* What a request knows of tables that do not change stays so.
LEMMA FormedKept ==
  ASSUME NEW q, Formed(q), UnchangedTables
  PROVE  Formed(q)'
  BY DEF Formed, UnchangedTables, UserExists, NameCommitted, Live, SameKey

\* The request of r becomes q.
Moves(r, q) ==
  /\ request' = [request EXCEPT ![r] = q]
  /\ Formed(q)
  /\ \A x \in Requests \ {r} : Apart(q, request[x])

\* One request moves on.
LEMMA MoveStep ==
  ASSUME IInv, UnchangedTables, NEW r \in Requests, NEW q \in RequestType, Moves(r, q)
  PROVE  IInv'
<1>1. /\ request' \in [Requests -> RequestType] /\ request'[r] = q
      /\ \A x \in Requests \ {r} : request'[x] = request[x]
  BY DEF Moves, IInv, TypeOK
<1>2. TypeOK' /\ RowsPresent' /\ AccessListConsistent' /\ OwnNamesUnique'
  BY <1>1 DEF UnchangedTables, IInv, TypeOK, RowsPresent, AccessListConsistent,
              OwnNamesUnique, Live, UserExists
<1>3. RequestsFormed'
  BY <1>1, FormedKept DEF Moves, IInv, RequestsFormed
<1>4. InsertsApart'
  <2> SUFFICES ASSUME NEW x \in Requests, NEW y \in Requests, x # y
               PROVE  Apart(request'[x], request'[y])
    BY DEF InsertsApart, Apart, Inserted, SameKey
  <2>1. CASE x # r /\ y # r
    BY <1>1, <2>1 DEF IInv, InsertsApart
  <2>2. CASE x = r
    BY <1>1, <2>2 DEF Moves
  <2>3. CASE y = r
    BY <1>1, <2>3 DEF Moves, Apart, SameKey
  <2> QED
    BY <2>1, <2>2, <2>3
<1> QED
  BY <1>2, <1>3, <1>4 DEF IInv

\* An answer.
LEMMA AnswerMoves ==
  ASSUME IInv, NEW r \in Requests, NEW a \in Answers, Answer(r, a)
  PROVE  \E q \in RequestType : Moves(r, q) /\ ~Granted(q)
<1> DEFINE q == [IdleRequest EXCEPT !.answer = a]
<1>1. q \in RequestType /\ q.pc = "idle" /\ request' = [request EXCEPT ![r] = q]
  BY IdleFormed DEF Answer
<1> HIDE DEF q
<1>2. Formed(q) /\ ~Inserted(q) /\ ~Granted(q)
  BY <1>1, IdleKnowsNothing
<1> QED
  BY <1>1, <1>2 DEF Moves, Apart

\* A request that comes to another statement, still not, or already, inserted.
LEMMA GoToMoves ==
  ASSUME IInv, NEW r \in Requests, NEW pc \in PCs, GoTo(r, pc),
         ASSUME NEW q \in RequestType, q.pc = pc,
                q.actor = request[r].actor, q.project = request[r].project,
                q.name = request[r].name, q.email = request[r].email,
                q.user = request[r].user
         PROVE  Formed(q) /\ (Inserted(q) => Inserted(request[r]))
  PROVE  \E q \in RequestType : Moves(r, q) /\ q.pc = pc /\ q.actor = request[r].actor
<1> DEFINE q == [request[r] EXCEPT !.pc = pc]
<1>1. request[r] \in RequestType
  BY DEF IInv, TypeOK
<1>2. /\ q \in RequestType /\ q.pc = pc /\ q.actor = request[r].actor
      /\ q.project = request[r].project /\ q.name = request[r].name
      /\ q.email = request[r].email /\ q.user = request[r].user
  BY <1>1 DEF RequestType
<1>3. request' = [request EXCEPT ![r] = q]
  BY DEF GoTo, IInv, TypeOK
<1> HIDE DEF q
<1>4. Formed(q) /\ (Inserted(q) => Inserted(request[r]))
  BY <1>2
<1>5. \A x \in Requests \ {r} : Apart(q, request[x])
  BY <1>2, <1>4 DEF IInv, InsertsApart, Apart
<1> QED
  BY <1>2, <1>3, <1>4, <1>5 DEF Moves

\* Nobody is granted anything by the step of r.
NoGrant(r, q) == Granted(q) => Granted(request[r]) /\ q.actor = request[r].actor

\* A request arrives.
LEMMA ReceiveMoves ==
  ASSUME IInv, NEW r \in Requests, Receive(r)
  PROVE  UnchangedTables /\ \E q \in RequestType : Moves(r, q) /\ NoGrant(r, q)
<1>1. bornUsers \subseteq Users
  BY DEF IInv, TypeOK
<1>2. ASSUME NEW u \in bornUsers, NEW n \in Names, ReceiveCreate(r, u, n)
      PROVE  UnchangedTables /\ \E q \in RequestType : Moves(r, q) /\ NoGrant(r, q)
  <2> DEFINE q == [[[IdleRequest EXCEPT !.pc = "quota"] EXCEPT !.actor = u]
                                 EXCEPT !.name = n]
  <2>1. q \in RequestType /\ q.pc = "quota" /\ q.actor = u /\ q.name = n
    BY <1>1, IdleFormed DEF RequestType, PCs
  <2>2. UnchangedTables /\ request' = [request EXCEPT ![r] = q]
    BY <1>2 DEF ReceiveCreate
  <2> HIDE DEF q
  <2>3. Formed(q) /\ ~Inserted(q) /\ ~Granted(q)
    BY <1>1, <2>1 DEF Formed, Inserted, Granted
  <2> QED
    BY <2>1, <2>2, <2>3 DEF Moves, Apart, NoGrant
<1>3. ASSUME NEW u \in bornUsers, NEW p \in Projects, NEW e \in Emails,
             ReceiveAddMember(r, u, p, e)
      PROVE  UnchangedTables /\ \E q \in RequestType : Moves(r, q) /\ NoGrant(r, q)
  <2> DEFINE q == [[[[IdleRequest EXCEPT !.pc = "membership"] EXCEPT !.actor = u]
                                  EXCEPT !.project = p] EXCEPT !.email = e]
  <2>1. /\ q \in RequestType /\ q.pc = "membership" /\ q.actor = u /\ q.project = p
        /\ q.email = e
    BY <1>1, IdleFormed DEF RequestType, PCs
  <2>2. UnchangedTables /\ request' = [request EXCEPT ![r] = q]
    BY <1>3 DEF ReceiveAddMember
  <2> HIDE DEF q
  <2>3. Formed(q) /\ ~Inserted(q) /\ ~Granted(q)
    BY <1>1, <2>1 DEF Formed, Inserted, Granted
  <2> QED
    BY <2>1, <2>2, <2>3 DEF Moves, Apart, NoGrant
<1> QED
  BY <1>2, <1>3 DEF Receive

\* An answer grants nothing.
LEMMA AnswerQuiet ==
  ASSUME IInv, NEW r \in Requests, \E a \in Answers : Answer(r, a)
  PROVE  \E q \in RequestType : Moves(r, q) /\ NoGrant(r, q)
  BY AnswerMoves DEF NoGrant

\* The check of the quota is where a request is granted.
LEMMA CheckQuotaMoves ==
  ASSUME IInv, NEW r \in Requests, CheckQuota(r)
  PROVE  /\ UnchangedTables
         /\ \E q \in RequestType :
              Moves(r, q) /\ (Granted(q) => /\ q.actor = request[r].actor
                                            /\ q.actor \in Users /\ UnderQuota(q.actor))
<1>1. UnchangedTables /\ Formed(request[r]) /\ request[r].pc = "quota"
  BY DEF CheckQuota, IInv, RequestsFormed
<1>2. CASE \E a \in {"InternalError", "QuotaExceeded"} : Answer(r, a)
  BY <1>1, <1>2, AnswerMoves DEF Answers
<1>3. CASE UnderQuota(request[r].actor) /\ GoTo(r, "begin")
  <2>1. ASSUME NEW q \in RequestType, q.pc = "begin",
               q.actor = request[r].actor, q.project = request[r].project,
               q.name = request[r].name, q.email = request[r].email,
               q.user = request[r].user
        PROVE  Formed(q) /\ (Inserted(q) => Inserted(request[r]))
    BY <1>1, <2>1 DEF Formed, Inserted, Granted
  <2>2. "begin" \in PCs /\ request[r].actor \in Users
    BY <1>1 DEF PCs, InTransaction, Formed
  <2>3. PICK q \in RequestType : Moves(r, q) /\ q.pc = "begin" /\ q.actor = request[r].actor
    BY <1>3, <2>1, <2>2, GoToMoves
  <2> QED
    BY <1>1, <1>3, <2>2, <2>3
<1> QED
  BY <1>1, <1>2, <1>3 DEF CheckQuota

\* A transaction begins, or its owner's membership is inserted.
LEMMA CreateGoesOn ==
  ASSUME IInv, NEW r \in Requests, Begin(r) \/ InsertOwner(r)
  PROVE  UnchangedTables /\ \E q \in RequestType : Moves(r, q) /\ NoGrant(r, q)
<1>1. UnchangedTables /\ Formed(request[r])
  BY DEF Begin, InsertOwner, IInv, RequestsFormed
<1>2. PICK pc \in PCs :
        /\ GoTo(r, pc)
        /\ \/ request[r].pc = "begin" /\ pc = "insert_project"
           \/ request[r].pc = "add_begin" /\ pc = "lookup_user"
           \/ request[r].pc = "insert_owner" /\ pc = "commit"
  BY DEF Begin, InsertOwner, PCs, InTransaction
<1>3. ASSUME NEW q \in RequestType, q.pc = pc,
             q.actor = request[r].actor, q.project = request[r].project,
             q.name = request[r].name, q.email = request[r].email,
             q.user = request[r].user
      PROVE  Formed(q) /\ (Inserted(q) => Inserted(request[r]))
  BY <1>1, <1>2, <1>3 DEF Formed, Inserted, Granted
<1>4. PICK q \in RequestType : Moves(r, q) /\ q.pc = pc /\ q.actor = request[r].actor
  BY <1>2, <1>3, GoToMoves
<1> QED
  BY <1>1, <1>2, <1>4 DEF NoGrant, Granted

\* The insert of a project: its name is neither committed nor pending, its id is new.
LEMMA InsertProjectMoves ==
  ASSUME IInv, NEW r \in Requests, InsertProject(r)
  PROVE  UnchangedTables /\ \E q \in RequestType : Moves(r, q) /\ NoGrant(r, q)
<1>1. /\ UnchangedTables /\ Formed(request[r]) /\ request[r].pc = "insert_project"
      /\ request[r] \in RequestType
  BY DEF InsertProject, IInv, TypeOK, RequestsFormed
<1>2. CASE \E a \in {"NameTaken", "RawForeignKeyError"} : Answer(r, a)
  BY <1>1, <1>2, AnswerQuiet DEF Answers
<1>3. ASSUME NEW p \in FreeIds,
             ~NameCommitted(request[r].actor, request[r].name),
             UserExists(request[r].actor), ~NamePending(r),
             request' = [request EXCEPT ![r].pc = "insert_owner", ![r].project = p]
      PROVE  \E q \in RequestType : Moves(r, q) /\ NoGrant(r, q)
  <2> DEFINE q == [[request[r] EXCEPT !.pc = "insert_owner"] EXCEPT !.project = p]
  <2>1. p \in Projects /\ status[p] = "unborn"
        /\ \A x \in Requests : Inserting(x) => request[x].project # p
    BY DEF FreeIds
  <2>2. /\ q \in RequestType /\ q.pc = "insert_owner" /\ q.project = p
        /\ q.actor = request[r].actor /\ q.name = request[r].name
    BY <1>1, <2>1 DEF RequestType, PCs, InTransaction
  <2>3. request' = [request EXCEPT ![r] = q]
    BY <1>3 DEF IInv, TypeOK
  <2> HIDE DEF q
  <2>4. Formed(q)
    BY <1>1, <1>3, <2>1, <2>2 DEF Formed, Inserted, Granted
  <2>5. \A x \in Requests \ {r} : Apart(q, request[x])
    BY <1>3, <2>1, <2>2 DEF NamePending, Apart, Inserted, Inserting, SameKey
  <2> QED
    BY <1>1, <2>2, <2>3, <2>4, <2>5 DEF Moves, NoGrant, Granted
<1> QED
  BY <1>1, <1>2, <1>3 DEF InsertProject, Waits

\* The steps of an addition before its commit.
LEMMA AddMoves ==
  ASSUME IInv, NEW r \in Requests, CheckOwner(r) \/ LookupUser(r) \/ InsertMember(r)
  PROVE  UnchangedTables /\ \E q \in RequestType : Moves(r, q) /\ NoGrant(r, q)
<1>1. UnchangedTables /\ Formed(request[r]) /\ request[r] \in RequestType
  BY DEF CheckOwner, LookupUser, InsertMember, IInv, TypeOK, RequestsFormed
<1>2. CASE \E a \in Answers : Answer(r, a)
  BY <1>1, <1>2, AnswerQuiet
<1>3. CASE CheckOwner(r) /\ GoTo(r, "add_begin")
  <2>1. /\ request[r].pc = "membership"
        /\ Live(request[r].project) /\ row[request[r].project].owner = request[r].actor
    <3>1. request'[r].pc = "add_begin"
      BY <1>1, <1>3 DEF GoTo, IInv, TypeOK, RequestType
    <3>2. ~\E a \in {"ProjectNotFound", "NotMember", "NotOwner"} : Answer(r, a)
      BY <3>1, AnswerMoves, IdleFormed DEF Answer, IInv, TypeOK, Answers
    <3> QED
      BY <1>3, <3>2 DEF CheckOwner
  <2>2. ASSUME NEW q \in RequestType, q.pc = "add_begin",
               q.actor = request[r].actor, q.project = request[r].project,
               q.name = request[r].name, q.email = request[r].email,
               q.user = request[r].user
        PROVE  Formed(q) /\ (Inserted(q) => Inserted(request[r]))
    BY <1>1, <2>1, <2>2 DEF Formed, Inserted, Granted, Live
  <2>3. "add_begin" \in PCs
    BY DEF PCs
  <2>4. PICK q \in RequestType : Moves(r, q) /\ q.pc = "add_begin"
    BY <1>3, <2>2, <2>3, GoToMoves
  <2> QED
    BY <1>1, <2>4 DEF NoGrant, Granted
<1>4. CASE /\ request[r].pc = "insert_member" /\ GoTo(r, "add_commit")
           /\ Live(request[r].project) /\ UserExists(request[r].user)
  <2>1. ASSUME NEW q \in RequestType, q.pc = "add_commit",
               q.actor = request[r].actor, q.project = request[r].project,
               q.name = request[r].name, q.email = request[r].email,
               q.user = request[r].user
        PROVE  Formed(q) /\ (Inserted(q) => Inserted(request[r]))
    BY <1>1, <1>4, <2>1 DEF Formed, Inserted, Granted
  <2>2. "add_commit" \in PCs
    BY DEF PCs, InTransaction
  <2>3. PICK q \in RequestType : Moves(r, q) /\ q.pc = "add_commit"
    BY <1>4, <2>1, <2>2, GoToMoves
  <2> QED
    BY <1>1, <2>3 DEF NoGrant, Granted
<1>5. ASSUME request[r].pc = "lookup_user",
             account[request[r].email] # Null,
             request' = [request EXCEPT ![r].pc = "insert_member",
                                        ![r].user = account[request[r].email]]
      PROVE  \E q \in RequestType : Moves(r, q) /\ NoGrant(r, q)
  <2> DEFINE u == account[request[r].email]
             q == [[request[r] EXCEPT !.pc = "insert_member"] EXCEPT !.user = u]
  <2>1. u \in Users
    BY <1>1, <1>5 DEF Formed, IInv, TypeOK
  <2>2. /\ q \in RequestType /\ q.pc = "insert_member" /\ q.user = u
        /\ q.actor = request[r].actor /\ q.project = request[r].project
        /\ q.email = request[r].email
    BY <1>1, <2>1 DEF RequestType, PCs, InTransaction
  <2>3. request' = [request EXCEPT ![r] = q]
    BY <1>5 DEF IInv, TypeOK
  <2> HIDE DEF u, q
  <2>4. Formed(q) /\ ~Inserted(q) /\ ~Granted(q)
    BY <1>1, <1>5, <2>1, <2>2 DEF Formed, Inserted, Granted
  <2> QED
    BY <2>2, <2>3, <2>4 DEF Moves, Apart, NoGrant
<1>6. CASE CheckOwner(r)
  BY <1>1, <1>2, <1>3, <1>6 DEF CheckOwner, Answers
<1>7. CASE LookupUser(r)
  BY <1>1, <1>2, <1>5, <1>7 DEF LookupUser, Answers
<1>8. CASE InsertMember(r)
  BY <1>1, <1>2, <1>4, <1>8 DEF InsertMember, Answers
<1> QED
  BY <1>6, <1>7, <1>8

\* A statement fails.
LEMMA FailMoves ==
  ASSUME IInv, NEW r \in Requests, FailStatement(r)
  PROVE  UnchangedTables /\ \E q \in RequestType : Moves(r, q) /\ NoGrant(r, q)
  BY AnswerQuiet DEF FailStatement, Answers

-----------------------------------------------------------------------------
(* Steps that change the tables. *)

\* A slot that is left idle, the others knowing what they know, and fewer inserts.
LEMMA OthersKept ==
  ASSUME IInv, NEW dead \in SUBSET Requests, request' \in [Requests -> RequestType],
         \A r \in dead : request'[r].pc = "idle",
         \A x \in Requests \ dead : request'[x] = request[x] /\ Formed(request[x])'
  PROVE  RequestsFormed' /\ InsertsApart'
<1>1. RequestsFormed'
  BY IdleKnowsNothing DEF RequestsFormed
<1>2. ASSUME NEW x \in Requests, Inserted(request'[x])
      PROVE  x \notin dead /\ request'[x] = request[x]
  BY <1>2 DEF Inserted
<1>3. InsertsApart'
  BY <1>2 DEF IInv, InsertsApart, Apart, Inserted, SameKey
<1> QED
  BY <1>1, <1>3

\* So with one slot.
LEMMA OtherKept ==
  ASSUME IInv, NEW r \in Requests, request' \in [Requests -> RequestType],
         request'[r].pc = "idle",
         \A x \in Requests \ {r} : request'[x] = request[x] /\ Formed(request[x])'
  PROVE  RequestsFormed' /\ InsertsApart'
<1> DEFINE dead == {r}
<1>1. /\ dead \in SUBSET Requests /\ \A x \in dead : request'[x].pc = "idle"
      /\ \A x \in Requests \ dead : request'[x] = request[x] /\ Formed(request[x])'
  OBVIOUS
<1> HIDE DEF dead
<1> QED
  BY <1>1, OthersKept

\* The project, its name and its owner's membership appear at once.
LEMMA CommitProjectStep ==
  ASSUME IInv, NEW r \in Requests, CommitProject(r)
  PROVE  IInv'
<1> DEFINE p == request[r].project
           u == request[r].actor
           n == request[r].name
           line == [owner |-> u, name |-> n]
<1>1. /\ request[r].pc = "commit" /\ Formed(request[r]) /\ Inserted(request[r])
      /\ status' = [status EXCEPT ![p] = "live"] /\ row' = [row EXCEPT ![p] = line]
      /\ members' = members \cup {<<p, u>>} /\ UNCHANGED <<account, bornUsers>>
      /\ \E a \in Answers : Answer(r, a)
  BY DEF CommitProject, IInv, RequestsFormed, Answers, Inserted
<1>2. /\ p \in Projects /\ u \in Users /\ n \in Names /\ status[p] = "unborn"
      /\ UserExists(u) /\ ~NameCommitted(u, n)
  BY <1>1 DEF Formed, Granted, Inserted
<1>3. line \in Row /\ line.owner = u /\ line.name = n
  BY <1>2 DEF Row
<1>4. /\ request' \in [Requests -> RequestType] /\ request'[r].pc = "idle"
      /\ \A x \in Requests \ {r} : request'[x] = request[x]
  BY <1>1, IdleFormed DEF Answer, IInv, TypeOK
<1> HIDE DEF line
<1>5. /\ \A x \in Projects : x # p => status'[x] = status[x] /\ row'[x] = row[x]
      /\ status'[p] = "live" /\ row'[p] = line
  BY <1>1, <1>2 DEF IInv, TypeOK
<1>6. ASSUME NEW x \in Requests \ {r} PROVE Formed(request[x])'
  <2>1. Formed(request[x]) /\ Apart(request[r], request[x])
    BY DEF IInv, RequestsFormed, InsertsApart
  <2>2. Inserted(request[x]) =>
          /\ request[x].project \in Projects /\ status'[request[x].project] = "unborn"
          /\ UserExists(request[x].actor)'
          /\ ~NameCommitted(request[x].actor, request[x].name)'
    <3> SUFFICES ASSUME Inserted(request[x])
                 PROVE  /\ request[x].project \in Projects
                        /\ status'[request[x].project] = "unborn"
                        /\ UserExists(request[x].actor)'
                        /\ ~NameCommitted(request[x].actor, request[x].name)'
      OBVIOUS
    <3>1. request[x].project # p /\ ~SameKey(u, n, request[x].actor, request[x].name)
      BY <1>1, <2>1 DEF Apart
    <3>2. /\ request[x].project \in Projects /\ status[request[x].project] = "unborn"
          /\ UserExists(request[x].actor)
          /\ ~NameCommitted(request[x].actor, request[x].name)
      BY <2>1 DEF Formed
    <3>3. ~NameCommitted(request[x].actor, request[x].name)'
      <4> SUFFICES ASSUME NEW y \in Projects, status'[y] = "live",
                          SameKey(request[x].actor, request[x].name,
                                  row'[y].owner, row'[y].name)
                   PROVE  FALSE
        BY <1>4 DEF NameCommitted, Live, SameKey
      <4>1. CASE y = p
        BY <1>3, <1>5, <3>1, <4>1 DEF SameKey
      <4>2. CASE y # p
        BY <1>5, <3>2, <4>2 DEF NameCommitted, Live
      <4> QED
        BY <4>1, <4>2
    <3> QED
      BY <1>1, <1>4, <1>5, <3>1, <3>2, <3>3 DEF UserExists
  <2> QED
    BY <1>1, <1>2, <1>4, <1>5, <2>1, <2>2
    DEF Formed, Inserted, Granted, Live, UserExists, NameCommitted
<1>7. RequestsFormed' /\ InsertsApart'
  BY <1>4, <1>6, OtherKept
<1>8. TypeOK' /\ RowsPresent'
  BY <1>1, <1>2, <1>3, <1>4, <1>5 DEF IInv, TypeOK, RowsPresent
<1>9. AccessListConsistent'
  <2>1. ASSUME NEW x \in Projects, status'[x] = "live"
        PROVE  <<x, row'[x].owner>> \in members' /\ UserExists(row[x].owner)'
    <3>1. CASE x = p
      BY <1>1, <1>2, <1>3, <1>5, <3>1 DEF UserExists
    <3>2. CASE x # p
      BY <1>1, <1>5, <2>1, <3>2 DEF IInv, AccessListConsistent, Live, UserExists
    <3> QED
      BY <3>1, <3>2
  <2>2. ASSUME NEW m \in members'
        PROVE  status'[m[1]] = "live" /\ UserExists(m[2])'
    <3>1. CASE m = <<p, u>>
      BY <1>1, <1>2, <1>5, <3>1 DEF UserExists
    <3>2. CASE m \in members
      <4>1. m[1] \in Projects /\ Live(m[1]) /\ UserExists(m[2])
        BY <3>2 DEF IInv, TypeOK, AccessListConsistent
      <4> QED
        BY <1>1, <1>5, <4>1 DEF Live, UserExists
    <3> QED
      BY <1>1, <2>2, <3>1, <3>2
  <2> QED
    BY <2>1, <2>2 DEF AccessListConsistent, Live
<1>10. OwnNamesUnique'
  <2> SUFFICES ASSUME NEW x \in Projects, NEW y \in Projects, x # y,
                      status'[x] = "live", status'[y] = "live",
                      row'[x].owner = row'[y].owner
               PROVE  Lower[row'[x].name] # Lower[row'[y].name]
    BY DEF OwnNamesUnique, Live
  <2>1. CASE x # p /\ y # p
    BY <1>5, <2>1 DEF IInv, OwnNamesUnique, Live
  <2>2. CASE x = p
    BY <1>2, <1>3, <1>5, <2>2 DEF NameCommitted, SameKey, Live
  <2>3. CASE y = p
    BY <1>2, <1>3, <1>5, <2>3 DEF NameCommitted, SameKey, Live
  <2> QED
    BY <2>1, <2>2, <2>3
<1> QED
  BY <1>7, <1>8, <1>9, <1>10 DEF IInv

\* A membership appears, of a user and a project its foreign keys have locked.
LEMMA CommitMemberStep ==
  ASSUME IInv, NEW r \in Requests, CommitMember(r)
  PROVE  IInv'
<1>1. /\ request[r].pc = "add_commit" /\ Formed(request[r])
      /\ members' = members \cup {<<request[r].project, request[r].user>>}
      /\ UNCHANGED <<account, bornUsers, status, row>>
      /\ \E a \in Answers : Answer(r, a)
  BY DEF CommitMember, IInv, RequestsFormed, Answers
<1>2. /\ request[r].project \in Projects /\ request[r].user \in Users
      /\ Live(request[r].project) /\ UserExists(request[r].user)
  BY <1>1 DEF Formed
<1>3. /\ request' \in [Requests -> RequestType] /\ request'[r].pc = "idle"
      /\ \A x \in Requests \ {r} : request'[x] = request[x]
  BY <1>1, IdleFormed DEF Answer, IInv, TypeOK
<1>4. \A x \in Requests \ {r} : Formed(request[x])'
  BY <1>1, <1>3
  DEF IInv, RequestsFormed, Formed, Inserted, Granted, UserExists, NameCommitted,
      Live, SameKey
<1>5. RequestsFormed' /\ InsertsApart'
  BY <1>3, <1>4, OtherKept
<1>6. TypeOK' /\ RowsPresent' /\ OwnNamesUnique'
  BY <1>1, <1>2, <1>3 DEF IInv, TypeOK, RowsPresent, OwnNamesUnique, Live
<1>7. AccessListConsistent'
  BY <1>1, <1>2 DEF IInv, AccessListConsistent, Live, UserExists
<1> QED
  BY <1>5, <1>6, <1>7 DEF IInv

\* An email gets a user.
LEMMA SignUpStep ==
  ASSUME IInv, NEW e \in Emails, SignUp(e)
  PROVE  IInv'
<1>1. PICK u \in Users : /\ account' = [account EXCEPT ![e] = u] /\ account[e] = Null
                         /\ bornUsers' = bornUsers \cup {u}
                         /\ UNCHANGED <<status, row, members, request>>
  BY DEF SignUp
<1>2. \A v \in Users : UserExists(v) => UserExists(v)'
  BY <1>1, NullAssumption DEF IInv, TypeOK, UserExists
<1>3. RequestsFormed' /\ InsertsApart'
  <2>1. ASSUME NEW x \in Requests PROVE Formed(request[x])'
    <3>1. Formed(request[x])
      BY DEF IInv, RequestsFormed
    <3>2. UserExists(request[x].actor) /\ request[x].actor \in Users =>
            UserExists(request[x].actor)'
      BY <1>1, <1>2 DEF UserExists
    <3>3. UserExists(request[x].user) /\ request[x].user \in Users =>
            UserExists(request[x].user)'
      BY <1>1, <1>2 DEF UserExists
    <3> QED
      BY <1>1, <3>1, <3>2, <3>3
      DEF Formed, Inserted, Granted, NameCommitted, Live, SameKey
  <2> QED
    BY <1>1, <2>1 DEF IInv, RequestsFormed, InsertsApart, Apart, Inserted, SameKey
<1>4. TypeOK' /\ RowsPresent' /\ OwnNamesUnique'
  BY <1>1 DEF IInv, TypeOK, RowsPresent, OwnNamesUnique, Live
<1>5. AccessListConsistent'
  <2>1. ASSUME NEW p \in Projects, Live(p) PROVE UserExists(row[p].owner)'
    <3>1. row[p].owner \in Users /\ UserExists(row[p].owner)
      BY <2>1 DEF IInv, RowsPresent, Row, Live, AccessListConsistent
    <3> QED
      BY <1>1, <1>2, <3>1 DEF UserExists
  <2>2. ASSUME NEW m \in members PROVE UserExists(m[2])'
    <3>1. m[2] \in Users /\ UserExists(m[2])
      BY DEF IInv, TypeOK, AccessListConsistent
    <3> QED
      BY <1>2, <3>1
  <2> QED
    BY <1>1, <2>1, <2>2 DEF IInv, AccessListConsistent, Live, UserExists
<1> QED
  BY <1>3, <1>4, <1>5 DEF IInv

\* A user goes who owns nothing and whose row nobody has locked.
LEMMA DeleteUserStep ==
  ASSUME IInv, NEW e \in Emails, DeleteUser(e)
  PROVE  IInv'
<1> DEFINE u == account[e]
<1>1. /\ u # Null /\ OwnedBy(u) = {} /\ ~UserLocked(u)
      /\ account' = [account EXCEPT ![e] = Null]
      /\ members' = {m \in members : m[2] # u}
      /\ UNCHANGED <<bornUsers, status, row, request>>
  BY DEF DeleteUser
<1>2. \A v : v # u /\ UserExists(v) => UserExists(v)'
  BY <1>1 DEF IInv, TypeOK, UserExists
<1> HIDE DEF u
<1>3. RequestsFormed' /\ InsertsApart'
  <2>1. ASSUME NEW x \in Requests PROVE Formed(request[x])'
    <3>1. Formed(request[x])
      BY DEF IInv, RequestsFormed
    <3>2. /\ Inserted(request[x]) => request[x].actor # u
          /\ request[x].pc = "add_commit" => request[x].user # u
      BY <1>1 DEF UserLocked, Inserted, Inserting
    <3>3. /\ Inserted(request[x]) => UserExists(request[x].actor)'
          /\ request[x].pc = "add_commit" => UserExists(request[x].user)'
      BY <1>1, <1>2, <3>1, <3>2 DEF Formed, UserExists
    <3> QED
      BY <1>1, <3>1, <3>3 DEF Formed, Inserted, Granted, NameCommitted, Live, SameKey
  <2> QED
    BY <1>1, <2>1 DEF IInv, RequestsFormed, InsertsApart, Apart, Inserted, SameKey
<1>4. TypeOK' /\ RowsPresent' /\ OwnNamesUnique'
  BY <1>1 DEF IInv, TypeOK, RowsPresent, OwnNamesUnique, Live
<1>5. AccessListConsistent'
  <2>1. ASSUME NEW p \in Projects, Live(p)
        PROVE  <<p, row[p].owner>> \in members' /\ UserExists(row[p].owner)'
    <3>1. row[p].owner # u /\ <<p, row[p].owner>> \in members
      BY <1>1, <2>1 DEF OwnedBy, IInv, AccessListConsistent
    <3> QED
      BY <1>1, <1>2, <2>1, <3>1 DEF IInv, AccessListConsistent, UserExists
  <2>2. ASSUME NEW m \in members, m[2] # u PROVE Live(m[1]) /\ UserExists(m[2])'
    BY <1>2, <2>2 DEF IInv, AccessListConsistent
  <2> QED
    BY <1>1, <2>1, <2>2 DEF AccessListConsistent, Live, UserExists
<1> QED
  BY <1>3, <1>4, <1>5 DEF IInv

\* A project goes, and its memberships with it.
LEMMA DeleteProjectStep ==
  ASSUME IInv, NEW p \in Projects, DeleteProject(p)
  PROVE  IInv'
<1>1. /\ Live(p) /\ ~ProjectLocked(p) /\ status' = [status EXCEPT ![p] = "deleted"]
      /\ members' = {m \in members : m[1] # p}
      /\ UNCHANGED <<account, bornUsers, row, request>>
  BY DEF DeleteProject
<1>2. /\ \A x \in Projects : x # p => status'[x] = status[x]
      /\ status'[p] = "deleted" /\ status[p] = "live"
  BY <1>1 DEF IInv, TypeOK, Live
<1>3. RequestsFormed' /\ InsertsApart'
  <2>1. ASSUME NEW x \in Requests PROVE Formed(request[x])'
    <3>1. Formed(request[x])
      BY DEF IInv, RequestsFormed
    <3>2. request[x].pc = "add_commit" => request[x].project # p
      BY <1>1 DEF ProjectLocked
    <3>3. Inserted(request[x]) => ~NameCommitted(request[x].actor, request[x].name)'
      BY <1>1, <1>2, <3>1 DEF Formed, NameCommitted, Live, SameKey
    <3> QED
      BY <1>1, <1>2, <3>1, <3>2, <3>3 DEF Formed, Inserted, Granted, Live, UserExists
  <2> QED
    BY <1>1, <2>1 DEF IInv, RequestsFormed, InsertsApart, Apart, Inserted, SameKey
<1>4. TypeOK' /\ RowsPresent' /\ OwnNamesUnique'
  BY <1>1, <1>2 DEF IInv, TypeOK, RowsPresent, OwnNamesUnique, Live
<1>5. AccessListConsistent'
  <2>1. \A m \in members : m[1] \in Projects
    BY DEF IInv, TypeOK
  <2> QED
    BY <1>1, <1>2, <2>1 DEF IInv, AccessListConsistent, Live, UserExists
<1> QED
  BY <1>3, <1>4, <1>5 DEF IInv

\* A member goes who is not the owner; nothing a request knows is of memberships.
LEMMA RevokeMemberStep ==
  ASSUME IInv, NEW p \in Projects, NEW u \in Users, RevokeMember(p, u)
  PROVE  IInv'
<1>1. /\ members' = members \ {<<p, u>>} /\ row[p].owner # u
      /\ UNCHANGED <<account, bornUsers, status, row, request>>
  BY DEF RevokeMember
<1>2. RequestsFormed' /\ InsertsApart'
  <2>1. ASSUME NEW x \in Requests PROVE Formed(request[x])'
    <3>1. Formed(request[x])
      BY DEF IInv, RequestsFormed
    <3>2. Inserted(request[x]) => ~NameCommitted(request[x].actor, request[x].name)'
      BY <1>1, <3>1 DEF Formed, NameCommitted, Live, SameKey
    <3> QED
      BY <1>1, <3>1, <3>2 DEF Formed, Inserted, Granted, Live, UserExists
  <2> QED
    BY <1>1, <2>1 DEF IInv, RequestsFormed, InsertsApart, Apart, Inserted, SameKey
<1>3. TypeOK' /\ RowsPresent' /\ OwnNamesUnique'
  BY <1>1 DEF IInv, TypeOK, RowsPresent, OwnNamesUnique, Live
<1>4. AccessListConsistent'
  BY <1>1 DEF IInv, AccessListConsistent, Live, UserExists
<1> QED
  BY <1>2, <1>3, <1>4 DEF IInv

\* Requests die, with what they have not committed.
LEMMA CrashStep ==
  ASSUME IInv, NEW dead \in SUBSET InFlight, Crash(dead)
  PROVE  IInv'
<1>1. /\ UnchangedTables /\ dead \in SUBSET Requests
      /\ request' = [x \in Requests |-> IF x \in dead THEN IdleRequest ELSE request[x]]
  BY DEF Crash, InFlight
<1>2. request' \in [Requests -> RequestType] /\ \A x \in dead : request'[x].pc = "idle"
  BY <1>1, IdleFormed DEF IInv, TypeOK
<1>3. \A x \in Requests \ dead : request'[x] = request[x] /\ Formed(request[x])'
  BY <1>1, FormedKept DEF IInv, RequestsFormed
<1>4. RequestsFormed' /\ InsertsApart'
  BY <1>1, <1>2, <1>3, OthersKept
<1>5. TypeOK' /\ RowsPresent' /\ AccessListConsistent' /\ OwnNamesUnique'
  BY <1>1, <1>2 DEF UnchangedTables, IInv, TypeOK, RowsPresent, AccessListConsistent,
                    OwnNamesUnique, Live, UserExists
<1> QED
  BY <1>4, <1>5 DEF IInv

-----------------------------------------------------------------------------
\* The steps of a request that leave the tables alone and grant nothing.
QuietAction(r) ==
  \/ Receive(r) \/ Begin(r) \/ InsertProject(r) \/ InsertOwner(r)
  \/ CheckOwner(r) \/ LookupUser(r) \/ InsertMember(r) \/ FailStatement(r)

\* Each of them is a move without a grant.
LEMMA QuietMoves ==
  ASSUME IInv, NEW r \in Requests, QuietAction(r)
  PROVE  UnchangedTables /\ \E q \in RequestType : Moves(r, q) /\ NoGrant(r, q)
  BY ReceiveMoves, CreateGoesOn, InsertProjectMoves, AddMoves, FailMoves DEF QuietAction

\* Every step of the service, or of the operator, keeps the invariant.
LEMMA InvStep == IInv /\ [Next]_vars => IInv'
<1> SUFFICES ASSUME IInv, [Next]_vars PROVE IInv'
  OBVIOUS
<1>1. CASE UNCHANGED vars
  <2>1. UnchangedTables /\ request' = request
    BY <1>1 DEF vars, UnchangedTables
  <2>2. RequestsFormed' /\ InsertsApart'
    BY <2>1, FormedKept DEF IInv, RequestsFormed, InsertsApart, Apart, Inserted, SameKey
  <2> QED
    BY <2>1, <2>2 DEF UnchangedTables, IInv, TypeOK, RowsPresent, AccessListConsistent,
                      OwnNamesUnique, Live, UserExists
<1>2. ASSUME NEW r \in Requests, QuietAction(r) PROVE IInv'
  BY <1>2, QuietMoves, MoveStep
<1>3. ASSUME NEW r \in Requests, CheckQuota(r) PROVE IInv'
  BY <1>3, CheckQuotaMoves, MoveStep
<1>4. ASSUME NEW r \in Requests, CommitProject(r) PROVE IInv'
  BY <1>4, CommitProjectStep
<1>5. ASSUME NEW r \in Requests, CommitMember(r) PROVE IInv'
  BY <1>5, CommitMemberStep
<1>6. CASE Environment
  BY <1>6, SignUpStep, DeleteUserStep, DeleteProjectStep, RevokeMemberStep, CrashStep
  DEF Environment
<1> QED
  BY <1>1, <1>2, <1>3, <1>4, <1>5, <1>6 DEF Next, Advance, QuietAction

\* The service starts empty.
LEMMA InvInit == Init => IInv
<1> SUFFICES ASSUME Init PROVE IInv
  OBVIOUS
<1>1. TypeOK
  BY IdleFormed DEF Init, TypeOK
<1>2. RequestsFormed /\ InsertsApart
  BY IdleFormed, IdleKnowsNothing DEF Init, RequestsFormed, InsertsApart, Apart
<1>3. RowsPresent /\ AccessListConsistent /\ OwnNamesUnique
  BY DEF Init, RowsPresent, AccessListConsistent, OwnNamesUnique, Live
<1> QED
  BY <1>1, <1>2, <1>3 DEF IInv

\* The tables, and what open transactions know of them, agree in every state.
THEOREM Invariance == Spec => []IInv
<1>1. Init => IInv
  BY InvInit
<1>2. IInv /\ [Next]_vars => IInv'
  BY InvStep
<1> QED
  BY <1>1, <1>2, PTL DEF Spec

-----------------------------------------------------------------------------
(* Creates implement the soft quota. *)

\* Counts of owned projects are counts of finite sets.
LEMMA OwnedFinite ==
  ASSUME NEW u \in Users
  PROVE  /\ IsFiniteSet(OwnedBy(u)) /\ Cardinality(OwnedBy(u)) \in Nat
         /\ IsFiniteSet(OwnedBy(u)') /\ Cardinality(OwnedBy(u)') \in Nat
<1>1. OwnedBy(u) \subseteq Projects /\ OwnedBy(u)' \subseteq Projects
  BY DEF OwnedBy
<1> QED
  BY <1>1, ProjectsAssumption, FS_Subset, FS_CardinalityType

\* A step in which nobody gains a project or a grant shrinks the quota.
LEMMA ShrinkStep ==
  ASSUME \A u \in Users : /\ OwnedBy(u)' \subseteq OwnedBy(u)
                          /\ GrantedTo(u)' \subseteq GrantedTo(u)
  PROVE  Quota!Shrink
<1>1. \A u \in Users : /\ Cardinality(OwnedBy(u)) \in Nat
                       /\ Cardinality(OwnedBy(u)') \in Nat
                       /\ Cardinality(OwnedBy(u)') <= Cardinality(OwnedBy(u))
  BY OwnedFinite, FS_Subset
<1>2. \A u \in Users : GrantedTo(u)' \subseteq Requests
  BY DEF GrantedTo
<1> QED
  BY <1>1, <1>2 DEF Quota!Shrink

\* The check grants, to the user it counted for, or answers.
LEMMA GrantStep ==
  ASSUME IInv, NEW r \in Requests, CheckQuota(r)
  PROVE  Quota!Next
<1>1. PICK q \in RequestType :
        /\ request' = [request EXCEPT ![r] = q]
        /\ Granted(q) => /\ q.actor = request[r].actor
                         /\ q.actor \in Users /\ UnderQuota(q.actor)
  BY CheckQuotaMoves DEF Moves
<1>2. /\ request[r].pc = "quota" /\ request'[r] = q
      /\ \A x \in Requests \ {r} : request'[x] = request[x]
      /\ \A u \in Users : OwnedBy(u)' = OwnedBy(u)
  BY <1>1, CheckQuotaMoves
  DEF CheckQuota, IInv, TypeOK, UnchangedTables, OwnedBy, Live
<1>3. CASE ~Granted(q)
  <2>1. \A u \in Users : GrantedTo(u)' \subseteq GrantedTo(u)
    BY <1>2, <1>3 DEF GrantedTo, Granted
  <2> QED
    BY <1>2, <2>1, ShrinkStep DEF Quota!Next
<1>4. CASE Granted(q)
  <2> DEFINE v == q.actor
             used == [u \in Users |-> Cardinality(OwnedBy(u))]
             granted == [u \in Users |-> GrantedTo(u)]
  <2>1. v \in Users /\ UnderQuota(v)
    BY <1>1, <1>4
  <2>2. \A u \in Users : GrantedTo(u)' = IF u = v THEN GrantedTo(u) \cup {r}
                                         ELSE GrantedTo(u)
    BY <1>2, <1>4 DEF GrantedTo, Granted
  <2>3. granted' = [granted EXCEPT ![v] = @ \cup {r}] /\ used' = used
    BY <1>2, <2>2
  <2>4. MaxProjects[v] = 0 \/ used[v] < MaxProjects[v]
    BY <2>1 DEF UnderQuota
  <2>5. Quota!Grant(v, r)
    BY <2>3, <2>4 DEF Quota!Grant, Quota!Unlimited
  <2> QED
    BY <2>1, <2>5 DEF Quota!Next
<1> QED
  BY <1>3, <1>4

\* The commit of a create that was granted lands.
LEMMA LandStep ==
  ASSUME IInv, NEW r \in Requests, CommitProject(r)
  PROVE  Quota!Next
<1> DEFINE used == [u \in Users |-> Cardinality(OwnedBy(u))]
           granted == [u \in Users |-> GrantedTo(u)]
<1>0. PICK p, v : p = request[r].project /\ v = request[r].actor
  OBVIOUS
<1>1. /\ request[r].pc = "commit" /\ Formed(request[r])
      /\ status' = [status EXCEPT ![p] = "live"]
      /\ row' = [row EXCEPT ![p] = [owner |-> v, name |-> request[r].name]]
      /\ \E a \in Answers : Answer(r, a)
  BY <1>0 DEF CommitProject, IInv, RequestsFormed, Answers
<1>2. p \in Projects /\ v \in Users /\ status[p] = "unborn"
  BY <1>0, <1>1 DEF Formed, Granted, Inserted
<1>3. /\ request'[r].pc = "idle" /\ \A x \in Requests \ {r} : request'[x] = request[x]
  BY <1>1, IdleFormed DEF Answer, IInv, TypeOK
<1>4. /\ \A x \in Projects : x # p => status'[x] = status[x] /\ row'[x] = row[x]
      /\ status'[p] = "live" /\ row'[p].owner = v
  BY <1>1, <1>2 DEF IInv, TypeOK
<1>5. /\ p \notin OwnedBy(v) /\ OwnedBy(v)' = OwnedBy(v) \cup {p}
      /\ \A u \in Users : u # v => OwnedBy(u)' = OwnedBy(u)
  BY <1>2, <1>4 DEF OwnedBy, Live
<1>6. /\ r \in GrantedTo(v) /\ GrantedTo(v)' = GrantedTo(v) \ {r}
      /\ \A u \in Users : u # v => GrantedTo(u)' = GrantedTo(u)
  BY <1>0, <1>1, <1>3 DEF GrantedTo
<1>7. Cardinality(OwnedBy(v)') = Cardinality(OwnedBy(v)) + 1
  BY <1>2, <1>5, OwnedFinite, FS_AddElement
<1>8. used' = [used EXCEPT ![v] = @ + 1]
  BY <1>2, <1>5, <1>7
<1>9. granted' = [granted EXCEPT ![v] = @ \ {r}]
  BY <1>2, <1>6
<1>10. Quota!Land(v, r)
  BY <1>2, <1>6, <1>8, <1>9 DEF Quota!Land
<1> QED
  BY <1>2, <1>10 DEF Quota!Next

\* Everything else neither grants nor lands.
LEMMA OtherSteps ==
  ASSUME IInv, \/ \E r \in Requests : QuietAction(r) \/ CommitMember(r)
               \/ Environment
  PROVE  Quota!Next
<1>1. ASSUME NEW r \in Requests, QuietAction(r) PROVE Quota!Next
  <2>1. PICK q \in RequestType : Moves(r, q) /\ NoGrant(r, q)
    BY <1>1, QuietMoves
  <2>2. request'[r] = q /\ \A x \in Requests \ {r} : request'[x] = request[x]
    BY <2>1 DEF Moves, IInv, TypeOK
  <2>3. \A u \in Users : GrantedTo(u)' \subseteq GrantedTo(u)
    BY <2>1, <2>2 DEF NoGrant, GrantedTo, Granted
  <2>4. \A u \in Users : OwnedBy(u)' = OwnedBy(u)
    BY <1>1, QuietMoves DEF UnchangedTables, OwnedBy, Live
  <2> QED
    BY <2>3, <2>4, ShrinkStep DEF Quota!Next
<1>2. ASSUME NEW r \in Requests, CommitMember(r) PROVE Quota!Next
  <2>1. \E a \in Answers : Answer(r, a)
    BY <1>2 DEF CommitMember, Answers
  <2>2. request'[r].pc = "idle" /\ \A x \in Requests \ {r} : request'[x] = request[x]
    BY <2>1, IdleFormed DEF Answer, IInv, TypeOK
  <2>3. \A u \in Users : GrantedTo(u)' \subseteq GrantedTo(u)
    BY <2>2 DEF GrantedTo
  <2>4. \A u \in Users : OwnedBy(u)' = OwnedBy(u)
    BY <1>2 DEF CommitMember, OwnedBy, Live
  <2> QED
    BY <2>3, <2>4, ShrinkStep DEF Quota!Next
<1>3. CASE Environment
  <2>1. \A u \in Users : OwnedBy(u)' \subseteq OwnedBy(u)
    BY <1>3 DEF Environment, SignUp, DeleteUser, DeleteProject, RevokeMember, Crash,
                UnchangedTables, OwnedBy, Live, IInv, TypeOK
  <2>2. \A u \in Users : GrantedTo(u)' \subseteq GrantedTo(u)
    <3>1. CASE request' = request
      BY <3>1 DEF GrantedTo
    <3>2. ASSUME NEW dead \in SUBSET InFlight, Crash(dead)
          PROVE  \A u \in Users : GrantedTo(u)' \subseteq GrantedTo(u)
      BY <3>2, IdleFormed DEF Crash, GrantedTo
    <3> QED
      BY <1>3, <3>1, <3>2 DEF Environment, SignUp, DeleteUser, DeleteProject, RevokeMember
  <2> QED
    BY <2>1, <2>2, ShrinkStep DEF Quota!Next
<1> QED
  BY <1>1, <1>2, <1>3

\* Every step of the service is a step or a stutter of the quota.
LEMMA QuotaStep == IInv /\ [Next]_vars => [Quota!Next]_(Quota!qvars)
<1> SUFFICES ASSUME IInv, [Next]_vars PROVE Quota!Next \/ UNCHANGED Quota!qvars
  OBVIOUS
<1>1. CASE UNCHANGED vars
  BY <1>1 DEF vars, Quota!qvars, OwnedBy, GrantedTo, Live
<1> QED
  BY <1>1, GrantStep, LandStep, OtherSteps DEF Next, Advance, QuietAction

\* The empty service is a quota nobody has used.
LEMMA QuotaInit == Init => Quota!Init
<1> SUFFICES ASSUME Init PROVE Quota!Init
  OBVIOUS
<1>1. \A u \in Users : OwnedBy(u) = {} /\ GrantedTo(u) = {}
  BY IdleFormed DEF Init, OwnedBy, Live, GrantedTo
<1> QED
  BY <1>1, FS_EmptySet DEF Quota!Init

-----------------------------------------------------------------------------
\* Type correctness of the project service.
THEOREM ProjectServiceTyped == Spec => []TypeOK
  BY Invariance, PTL DEF IInv

\* The owner of every project is a member of it, and every membership is of a
\* user and a project there are, whatever commits, fails, dies or is deleted.
THEOREM AccessListHolds == Spec => []AccessListConsistent
  BY Invariance, PTL DEF IInv

\* No user has two projects of one name, however many creates race.
THEOREM NamesStayUnique == Spec => []OwnNamesUnique
  BY Invariance, PTL DEF IInv

\* Creating projects implements the soft quota: a limited user is over the cap by
\* less than the number of requests in flight (SoftQuota, QuotaOvershootBounded).
THEOREM ProjectsImplementSoftQuota == Spec => ImplementsSoftQuota
<1>1. Init => Quota!Init
  BY QuotaInit
<1>2. IInv /\ [Next]_vars => [Quota!Next]_(Quota!qvars)
  BY QuotaStep
<1> QED
  BY <1>1, <1>2, Invariance, PTL DEF Spec, ImplementsSoftQuota, Quota!Spec

\* A new membership is the owner's own, or one the owner of that moment asked for.
LEMMA InvitationStep ==
  ASSUME IInv, [Next]_vars, NEW m \in members' \ members
  PROVE  \/ Live(m[1])' /\ ~Live(m[1]) /\ row'[m[1]].owner = m[2]
         \/ \E r \in Requests :
              /\ request'[r] # request[r]
              /\ request[r].project = m[1] /\ request[r].user = m[2]
              /\ Live(m[1]) /\ row[m[1]].owner = request[r].actor
<1>1. ASSUME NEW r \in Requests, CommitProject(r)
      PROVE  Live(m[1])' /\ ~Live(m[1]) /\ row'[m[1]].owner = m[2]
  <2> DEFINE p == request[r].project
             u == request[r].actor
             line == [owner |-> u, name |-> request[r].name]
  <2>1. /\ m = <<p, u>> /\ status' = [status EXCEPT ![p] = "live"]
        /\ row' = [row EXCEPT ![p] = line]
        /\ Formed(request[r]) /\ request[r].pc = "commit"
    BY <1>1 DEF CommitProject, IInv, RequestsFormed
  <2>2. p \in Projects /\ status[p] = "unborn" /\ line.owner = u
    BY <2>1 DEF Formed, Inserted
  <2> HIDE DEF line
  <2> QED
    BY <2>1, <2>2 DEF IInv, TypeOK, Live
<1>2. ASSUME NEW r \in Requests, CommitMember(r)
      PROVE  /\ request'[r] # request[r]
             /\ request[r].project = m[1] /\ request[r].user = m[2]
             /\ Live(m[1]) /\ row[m[1]].owner = request[r].actor
  <2>1. /\ m = <<request[r].project, request[r].user>> /\ Formed(request[r])
        /\ request[r].pc = "add_commit" /\ \E a \in Answers : Answer(r, a)
    BY <1>2 DEF CommitMember, IInv, RequestsFormed, Answers
  <2>2. request'[r].pc = "idle"
    BY <2>1, IdleFormed DEF Answer, IInv, TypeOK
  <2> QED
    BY <2>1, <2>2 DEF Formed
<1>3. ~(members' \subseteq members)
  OBVIOUS
<1>4. ASSUME NEW r \in Requests, QuietAction(r) PROVE FALSE
  BY <1>3, <1>4, QuietMoves DEF UnchangedTables
<1>5. CASE Environment
  BY <1>3, <1>5 DEF Environment, SignUp, DeleteUser, DeleteProject, RevokeMember, Crash,
                   UnchangedTables
<1>6. CASE \E r \in Requests : CheckQuota(r)
  BY <1>3, <1>6 DEF CheckQuota, UnchangedTables
<1>7. CASE UNCHANGED vars
  BY <1>3, <1>7 DEF vars
<1> QED
  BY <1>1, <1>2, <1>4, <1>5, <1>6, <1>7 DEF Next, Advance, QuietAction

\* Nobody joins a project but through its owner, at that very moment.
THEOREM OwnersInvite == Spec => InvitedByOwner
<1>1. IInv /\ [Next]_vars =>
        [\A m \in members' \ members :
           \/ Live(m[1])' /\ ~Live(m[1]) /\ row'[m[1]].owner = m[2]
           \/ \E r \in Requests :
                /\ request'[r] # request[r]
                /\ request[r].project = m[1] /\ request[r].user = m[2]
                /\ Live(m[1]) /\ row[m[1]].owner = request[r].actor]_vars
  BY InvitationStep
<1> QED
  BY <1>1, Invariance, PTL DEF Spec, InvitedByOwner

-----------------------------------------------------------------------------
(* The bound on owned projects. *)

\* The finite sets of the instance are those of this module.
LEMMA SameFiniteSets ==
  \A S : /\ Quota!IsFiniteSet(S) <=> IsFiniteSet(S)
         /\ Quota!Cardinality(S) = Cardinality(S)
  BY Zenon DEF Quota!IsFiniteSet, IsFiniteSet, Quota!Cardinality, Cardinality

\* However creates race over the transaction between their count and their insert, a
\* limited user owns, or is about to own, at most cap - 1 + (requests in flight).
THEOREM OwnedBounded == Spec => []OwnedOvershootBounded
<1>1. Quota!QuotaConstants
  BY MaxProjectsAssumption, RequestsAssumption, SameFiniteSets DEF Quota!QuotaConstants
<1>2. Quota!Spec => []Quota!OvershootBounded
  BY <1>1, Quota!QuotaOvershootBounded
<1>3. Spec => Quota!Spec
  BY ProjectsImplementSoftQuota DEF ImplementsSoftQuota
<1> QED
  BY <1>2, <1>3, PTL DEF OwnedOvershootBounded

-----------------------------------------------------------------------------
(* Waiting. *)

\* A transaction waits only for one that has inserted, which waits for nothing; with
\* no transaction open every connection is free.
LEMMA SomeoneRuns == NoStandstill
<1> SUFFICES ASSUME InFlight # {}, \A r \in InFlight : Waits(r)
             PROVE  FALSE
  BY DEF NoStandstill
<1>1. \A r \in Requests : request[r].pc \notin {"insert_owner", "commit", "lookup_user",
                                                "add_commit"}
  BY DEF InFlight, Waits, InTransaction
<1>2. \A r \in Requests : ~NamePending(r) /\ ~MemberPending(r)
  BY <1>1 DEF NamePending, MemberPending, Inserting
<1>3. \A r \in Requests : request[r].pc \notin InTransaction
  BY <1>1, <1>2 DEF InFlight, Waits, InTransaction
<1> DEFINE holding == {r \in Requests : request[r].pc \in InTransaction}
<1>4. holding = {}
  BY <1>3
<1>5. Cardinality(holding) < MaxOpenConns
  <2> HIDE DEF holding
  <2> QED
    BY <1>4, FS_EmptySet, PoolAssumption
<1>6. ConnectionFree
  BY Zenon, <1>5 DEF ConnectionFree
<1> QED
  BY <1>2, <1>6 DEF InFlight, Waits

\* For every pool, however small, and any number of requests: while any is in flight,
\* one can run its next statement.
THEOREM NeverAtAStandstill == Spec => []NoStandstill
  BY SomeoneRuns, PTL

-----------------------------------------------------------------------------
(* The tables are an access list. *)

\* The commit of a create is the create: what its transaction found when it inserted
\* still holds, the locks and the unique index having kept it so.
LEMMA CommitCreates ==
  ASSUME IInv, NEW r \in Requests, CommitProject(r)
  PROVE  List!Next
<1> DEFINE p == request[r].project
           u == request[r].actor
           n == request[r].name
<1>1. /\ Formed(request[r]) /\ request[r].pc = "commit"
      /\ status' = [status EXCEPT ![p] = "live"]
      /\ row' = [row EXCEPT ![p] = [owner |-> u, name |-> n]]
      /\ members' = members \cup {<<p, u>>}
      /\ UNCHANGED <<account, bornUsers>>
  BY DEF CommitProject, IInv, RequestsFormed
<1>2. /\ u \in Users /\ n \in Names /\ p \in Projects /\ status[p] = "unborn"
      /\ UserExists(u) /\ ~NameCommitted(u, n)
  BY <1>1 DEF Formed, Granted, Inserted
<1>3. List!Create(u, n)
  BY <1>1, <1>2
  DEF List!Create, List!Registered, List!OwnerOf, UserExists, NameCommitted, SameKey, Live
<1> QED
  BY <1>2, <1>3 DEF List!Next

\* The commit of an addition is an invitation by the owner.
LEMMA CommitInvites ==
  ASSUME IInv, NEW r \in Requests, CommitMember(r)
  PROVE  List!Next
<1> DEFINE p == request[r].project
           u == request[r].user
           owner == request[r].actor
<1>1. /\ Formed(request[r]) /\ request[r].pc = "add_commit"
      /\ members' = members \cup {<<p, u>>}
      /\ UNCHANGED <<account, bornUsers, status, row>>
  BY DEF CommitMember, IInv, RequestsFormed
<1>2. /\ u \in Users /\ owner \in Users /\ p \in Projects
      /\ Live(p) /\ row[p].owner = owner /\ UserExists(u)
  BY <1>1 DEF Formed
<1>3. List!Invite(owner, p, u)
  BY <1>1, <1>2 DEF List!Invite, List!Registered, List!OwnerOf, UserExists, Live
<1> QED
  BY <1>2, <1>3 DEF List!Next

\* Sign-ups and the operator's deletes are whole already; a death changes no table.
LEMMA EnvironmentLists ==
  ASSUME IInv, Environment
  PROVE  List!Next \/ UNCHANGED List!lvars
<1>1. ASSUME NEW e \in Emails, SignUp(e) PROVE List!SignUp(e)
  BY <1>1 DEF SignUp, List!SignUp
<1>2. ASSUME NEW e \in Emails, DeleteUser(e) PROVE List!RemoveUser(e)
  BY <1>2 DEF DeleteUser, List!RemoveUser, List!OwnerOf, OwnedBy, Live
<1>3. ASSUME NEW p \in Projects, DeleteProject(p) PROVE List!RemoveProject(p)
  BY <1>3 DEF DeleteProject, List!RemoveProject, Live
<1>4. ASSUME NEW dead \in SUBSET InFlight, Crash(dead) PROVE UNCHANGED List!lvars
  BY <1>4 DEF Crash, UnchangedTables, List!lvars
<1>5. ASSUME NEW p \in Projects, NEW u \in Users, RevokeMember(p, u)
      PROVE  List!Revoke(p, u)
  BY <1>5 DEF RevokeMember, List!Revoke, List!OwnerOf
<1> QED
  BY <1>1, <1>2, <1>3, <1>4, <1>5 DEF Environment, List!Next

\* Every step of the service is a whole operation on the access list, or leaves it be.
LEMMA ListStep == IInv /\ [Next]_vars => [List!Next]_(List!lvars)
<1> SUFFICES ASSUME IInv, [Next]_vars PROVE List!Next \/ UNCHANGED List!lvars
  OBVIOUS
<1>1. CASE UnchangedTables
  BY <1>1 DEF UnchangedTables, List!lvars
<1>2. CASE UNCHANGED vars
  BY <1>1, <1>2 DEF vars, UnchangedTables
<1>3. ASSUME NEW r \in Requests, QuietAction(r) PROVE UnchangedTables
  BY <1>3, QuietMoves
<1>4. ASSUME NEW r \in Requests, CheckQuota(r) PROVE UnchangedTables
  BY <1>4, CheckQuotaMoves
<1> QED
  BY <1>1, <1>2, <1>3, <1>4, CommitCreates, CommitInvites, EnvironmentLists
  DEF Next, Advance, QuietAction

\* Requests of several statements, their rollbacks, lost answers and deaths are, to a
\* reader of the tables, whole creates and invitations by owners.
THEOREM ServiceKeepsAccessList == Spec => ImplementsAccessList
<1>1. Init => List!Init
  BY DEF Init, List!Init
<1>2. IInv /\ [Next]_vars => [List!Next]_(List!lvars)
  BY ListStep
<1> QED
  BY <1>1, <1>2, Invariance, PTL DEF Spec, ImplementsAccessList, List!Spec

=============================================================================
