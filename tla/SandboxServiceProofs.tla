----------------------- MODULE SandboxServiceProofs -----------------------
(***************************************************************************)
(* For every number of users, projects, sandboxes, names and requests: a   *)
(* restart charges the creator, create and restart implement a soft quota, *)
(* and the running sandboxes of a limited user are bounded.                *)
(***************************************************************************)
EXTENDS SandboxAnswers, FiniteSetTheorems, TLAPS

-----------------------------------------------------------------------------
(* What the two ways of moving a request do to it. *)

\* An answered slot is idle and no other slot changes.
LEMMA AnswerEffect ==
  ASSUME TypeOK, NEW r \in Requests, NEW a \in Answers \cup {Null}, Answer(r, a)
  PROVE  /\ request' \in [Requests -> RequestType]
         /\ \A q \in Requests : q # r => request'[q] = request[q]
         /\ request'[r].op = "none" /\ request'[r].pc = "idle"
  BY DEF TypeOK, Answer, IdleRequest, RequestType, PCs

\* GoTo changes the pc of one slot and nothing else.
LEMMA GoToEffect ==
  ASSUME TypeOK, NEW r \in Requests, NEW pc \in PCs, GoTo(r, pc)
  PROVE  /\ request' \in [Requests -> RequestType]
         /\ \A q \in Requests : q # r => request'[q] = request[q]
         /\ request'[r] = [request[r] EXCEPT !.pc = pc]
  BY DEF TypeOK, GoTo, RequestType

\* A sandbox that exists or existed keeps its row and never becomes unborn.
RowsKept ==
  \A s \in Sandboxes : state[s] # "unborn" =>
    state'[s] # "unborn" /\ row'[s] = row[s]

\* A request that does not move stays well formed while rows are kept.
LEMMA FormedKept ==
  ASSUME NEW r \in Requests, RequestFormed(request[r]),
         request'[r] = request[r], RowsKept
  PROVE  RequestFormed(request[r])'
  BY DEF RequestFormed, RowsKept

\* An answered request is well formed.
LEMMA FormedIdle ==
  ASSUME NEW r \in Requests, request'[r].op = "none", request'[r].pc = "idle"
  PROVE  RequestFormed(request[r])'
  BY DEF RequestFormed

-----------------------------------------------------------------------------
(* The tables. *)

TablesOK ==
  /\ projects \subseteq Projects
  /\ members \subseteq Projects \X Users
  /\ state \in [Sandboxes -> {"unborn", "running", "stopped", "deleted"}]
  /\ row \in [Sandboxes -> Row \cup {Null}]
  /\ RowsPresent

\* Every step keeps the tables typed and the rows of sandboxes in place.
LEMMA TablesStep ==
  ASSUME ChargedToCreator, [Next]_vars
  PROVE  TablesOK' /\ RowsKept
<1> USE DEF ChargedToCreator
<1>0. CASE UNCHANGED <<projects, members, state, row>>
  BY <1>0 DEF TypeOK, TablesOK, RowsPresent, RowsKept
<1>1. ASSUME NEW r \in Requests, CreateSandbox(r)
      PROVE  TablesOK' /\ RowsKept
  <2>1. CASE UNCHANGED <<state, row>>
    BY <1>0, <1>1, <2>1 DEF CreateSandbox
  <2>2. ASSUME NEW s \in Unborn,
               state' = [state EXCEPT ![s] = "running"],
               row' = [row EXCEPT ![s] = [project |-> request[r].project,
                                          creator |-> request[r].actor,
                                          name |-> request[r].name]]
        PROVE  TablesOK' /\ RowsKept
    <3>1. request[r].op = "create" /\ request[r] \in RequestType
      BY <1>1 DEF CreateSandbox, At, TypeOK, RequestFormed, RequestType
    <3>2. [project |-> request[r].project, creator |-> request[r].actor,
           name |-> request[r].name] \in Row
      BY <3>1 DEF RequestFormed, Row
    <3>3. UNCHANGED <<projects, members>>
      BY <1>1 DEF CreateSandbox
    <3> QED
      BY <2>2, <3>2, <3>3 DEF Unborn, TypeOK, TablesOK, RowsPresent, RowsKept
  <2> QED
    BY <1>1, <2>1, <2>2 DEF CreateSandbox
<1>2. ASSUME NEW r \in Requests, RestartSandbox(r) \/ StopSandbox(r)
      PROVE  TablesOK' /\ RowsKept
  BY <1>2 DEF RestartSandbox, StopSandbox, Accessible, Exists,
              TypeOK, TablesOK, RowsPresent, RowsKept
<1>3. ASSUME NEW p \in Projects, NEW u \in Users, AddMember(p, u) \/ RevokeMember(p, u)
      PROVE  TablesOK' /\ RowsKept
  BY <1>3 DEF AddMember, RevokeMember, TypeOK, TablesOK, RowsPresent, RowsKept
<1>4. ASSUME NEW p \in Projects, DeleteProject(p)
      PROVE  TablesOK' /\ RowsKept
  BY <1>4 DEF DeleteProject, Exists, TypeOK, TablesOK, RowsPresent, RowsKept
<1>5. CASE \E r \in Requests : Receive(r)
  BY <1>0, <1>5 DEF Receive, ReceiveCreate, ReceiveRestart, ReceiveStop, UnchangedTables
<1>6. ASSUME NEW r \in Requests, Serve(r)
      PROVE  TablesOK' /\ RowsKept
  BY <1>0, <1>1, <1>2, <1>6
  DEF Serve, CheckMembership, CheckRunningQuota, LookupSandbox, RereadSandbox,
      ExplainStop, FailStatement, UnchangedTables
<1>7. CASE Environment
  BY <1>0, <1>3, <1>4, <1>7 DEF Environment, Crash, UnchangedTables
<1>8. CASE UNCHANGED vars
  BY <1>0, <1>8 DEF vars
<1> QED
  BY <1>5, <1>6, <1>7, <1>8 DEF Next

-----------------------------------------------------------------------------
(* The requests. *)

RequestsOK ==
  /\ request \in [Requests -> RequestType]
  /\ \A r \in Requests : RequestFormed(request[r])

\* A request that is answered leaves all requests well formed.
LEMMA AnswerOK ==
  ASSUME ChargedToCreator, RowsKept,
         NEW r \in Requests, NEW a \in Answers \cup {Null}, Answer(r, a)
  PROVE  RequestsOK'
  BY AnswerEffect, FormedKept, FormedIdle DEF ChargedToCreator, RequestsOK

\* A request that moves on leaves all requests well formed when it is.
LEMMA GoToOK ==
  ASSUME ChargedToCreator, RowsKept,
         NEW r \in Requests, NEW pc \in PCs, GoTo(r, pc),
         request'[r] = [request[r] EXCEPT !.pc = pc] => RequestFormed(request[r])'
  PROVE  RequestsOK'
  BY GoToEffect, FormedKept DEF ChargedToCreator, RequestsOK

\* A request that arrives is well formed and before its first statement.
LEMMA ArrivalEffect ==
  ASSUME NEW r \in Requests, Receive(r)
  PROVE  \E q \in RequestType :
           /\ request' = [request EXCEPT ![r] = q]
           /\ q.pc \in {"membership", "stop"} /\ RequestFormed(q)
           /\ q.op \in {"restart", "stop"} \/ q.target = Null
<1> DEFINE Arrived == \E q \in RequestType :
                        /\ request' = [request EXCEPT ![r] = q]
                        /\ q.pc \in {"membership", "stop"} /\ RequestFormed(q)
                        /\ q.op \in {"restart", "stop"} \/ q.target = Null
<1>1. ASSUME NEW u \in Users, NEW p \in Projects, NEW n \in Names,
             ReceiveCreate(r, u, p, n)
      PROVE  Arrived
  <2> DEFINE q == [IdleRequest EXCEPT !.pc = "membership", !.op = "create",
                   !.actor = u, !.project = p, !.name = n, !.charged = u]
  <2>1. request' = [request EXCEPT ![r] = q]
    BY <1>1 DEF ReceiveCreate
  <2>2. q \in RequestType
    BY DEF IdleRequest, RequestType, PCs
  <2>3. /\ q.pc = "membership" /\ q.op = "create"
        /\ q.actor = u /\ q.project = p /\ q.name = n /\ q.charged = u
        /\ q.target = Null
    BY DEF IdleRequest
  <2> HIDE DEF q
  <2>4. RequestFormed(q)
    BY <2>3 DEF RequestFormed
  <2> QED
    BY <2>1, <2>2, <2>3, <2>4
<1>2. ASSUME NEW u \in Users, NEW p \in Projects, NEW s \in Sandboxes,
             ReceiveRestart(r, u, p, s)
      PROVE  Arrived
  <2> DEFINE q == [IdleRequest EXCEPT !.pc = "membership", !.op = "restart",
                   !.actor = u, !.project = p, !.target = s]
  <2>1. request' = [request EXCEPT ![r] = q]
    BY <1>2 DEF ReceiveRestart
  <2>2. q \in RequestType
    BY DEF IdleRequest, RequestType, PCs
  <2>3. /\ q.pc = "membership" /\ q.op = "restart"
        /\ q.actor = u /\ q.project = p /\ q.target = s
    BY DEF IdleRequest
  <2> HIDE DEF q
  <2>4. RequestFormed(q)
    BY <2>3 DEF RequestFormed
  <2> QED
    BY <2>1, <2>2, <2>3, <2>4
<1>3. ASSUME NEW u \in Users, NEW s \in Sandboxes,
             ReceiveStop(r, u, s)
      PROVE  Arrived
  <2> DEFINE q == [IdleRequest EXCEPT !.pc = "stop", !.op = "stop", !.actor = u, !.target = s]
  <2>1. request' = [request EXCEPT ![r] = q]
    BY <1>3 DEF ReceiveStop
  <2>2. q \in RequestType
    BY DEF IdleRequest, RequestType, PCs
  <2>3. q.pc = "stop" /\ q.op = "stop" /\ q.actor = u /\ q.target = s
    BY DEF IdleRequest
  <2> HIDE DEF q
  <2>4. RequestFormed(q)
    BY <2>3 DEF RequestFormed
  <2> QED
    BY <2>1, <2>2, <2>3, <2>4
<1> QED
  BY <1>1, <1>2, <1>3 DEF Receive

\* Every step keeps the requests typed and well formed.
LEMMA RequestsStep ==
  ASSUME ChargedToCreator, [Next]_vars, RowsKept
  PROVE  RequestsOK'
<1>0. CASE UNCHANGED request
  BY <1>0, FormedKept DEF ChargedToCreator, TypeOK, RequestsOK
<1>1. ASSUME NEW r \in Requests, Receive(r)
      PROVE  RequestsOK'
  <2>1. PICK q \in RequestType :
          /\ request' = [request EXCEPT ![r] = q]
          /\ q.pc \in {"membership", "stop"} /\ RequestFormed(q)
    BY <1>1, ArrivalEffect
  <2>2. request'[r] = q => RequestFormed(request[r])'
    BY <2>1 DEF RequestFormed
  <2> QED
    BY <2>1, <2>2, FormedKept DEF ChargedToCreator, TypeOK, RequestsOK
<1>2. ASSUME NEW r \in Requests, CheckMembership(r)
      PROVE  RequestsOK'
  <2>1. CASE Answer(r, "ProjectNotFound") \/ Answer(r, "NotMember")
    BY <2>1, AnswerOK DEF Answers
  <2>2. CASE GoTo(r, IF request[r].op = "create" THEN "quota" ELSE "lookup")
    <3>1. request[r] \in RequestType /\ RequestFormed(request[r])
          /\ request[r].pc = "membership"
      BY <1>2 DEF ChargedToCreator, TypeOK, CheckMembership, At
    <3>2. request'[r] = [request[r] EXCEPT
            !.pc = IF request[r].op = "create" THEN "quota" ELSE "lookup"]
          => RequestFormed(request[r])'
      BY <3>1 DEF RequestFormed, RequestType
    <3> QED
      BY <2>2, <3>2, GoToOK DEF PCs
  <2> QED
    BY <1>2, <2>1, <2>2 DEF CheckMembership
<1>3. ASSUME NEW r \in Requests, CheckRunningQuota(r)
      PROVE  RequestsOK'
  <2>1. CASE Answer(r, "QuotaExceeded")
    BY <2>1, AnswerOK DEF Answers
  <2>2. CASE GoTo(r, IF request[r].op = "create" THEN "insert" ELSE "restart")
    <3>1. request[r] \in RequestType /\ RequestFormed(request[r])
          /\ request[r].pc = "quota" /\ UNCHANGED <<state, row>>
      BY <1>3 DEF ChargedToCreator, TypeOK, CheckRunningQuota, At, UnchangedTables
    <3>2. request'[r] = [request[r] EXCEPT
            !.pc = IF request[r].op = "create" THEN "insert" ELSE "restart"]
          => RequestFormed(request[r])'
      BY <3>1 DEF RequestFormed, RequestType
    <3> QED
      BY <2>2, <3>2, GoToOK DEF PCs
  <2> QED
    BY <1>3, <2>1, <2>2 DEF CheckRunningQuota
<1>4. ASSUME NEW r \in Requests, CreateSandbox(r)
      PROVE  RequestsOK'
  BY <1>4, AnswerOK DEF CreateSandbox, WriteAnswer, Answers
<1>5. ASSUME NEW r \in Requests, LookupSandbox(r)
      PROVE  RequestsOK'
  <2>1. CASE Answer(r, "SandboxNotFound") \/ Answer(r, "AlreadyRunning")
    BY <2>1, AnswerOK DEF Answers
  <2>2. CASE /\ state[request[r].target] = "stopped"
             /\ request' = [request EXCEPT
                  ![r].pc = "quota", ![r].charged = row[request[r].target].creator]
    <3>1. /\ request[r] \in RequestType /\ RequestFormed(request[r])
          /\ request[r].pc = "lookup" /\ UNCHANGED <<state, row>>
      BY <1>5 DEF ChargedToCreator, TypeOK, LookupSandbox, At, UnchangedTables
    <3>2. request[r].op = "restart" /\ request[r].target \in Sandboxes
      BY <3>1 DEF RequestFormed, RequestType
    <3>3. row[request[r].target] \in Row
      BY <2>2, <3>2 DEF ChargedToCreator, RowsPresent
    <3>4. row[request[r].target].creator \in Users
      BY <3>3 DEF Row
    <3>5. /\ request' \in [Requests -> RequestType]
          /\ \A q \in Requests : q # r => request'[q] = request[q]
          /\ request'[r] = [request[r] EXCEPT
               !.pc = "quota", !.charged = row[request[r].target].creator]
      BY <2>2, <3>1, <3>4 DEF ChargedToCreator, TypeOK, RequestType, PCs
    <3>6. RequestFormed(request[r])'
      BY <2>2, <3>1, <3>2, <3>5 DEF RequestFormed, RequestType
    <3> QED
      BY <3>5, <3>6, FormedKept DEF ChargedToCreator, RequestsOK
  <2> QED
    BY <1>5, <2>1, <2>2 DEF LookupSandbox
<1>6. ASSUME NEW r \in Requests, RestartSandbox(r) \/ StopSandbox(r)
      PROVE  RequestsOK'
  <2>1. CASE \E a \in {"Restarted", "Stopped"} : WriteAnswer(r, a)
    BY <2>1, AnswerOK DEF WriteAnswer, Answers
  <2>2. CASE RestartSandbox(r) /\ GoTo(r, "reread")
    <3>1. /\ request[r] \in RequestType /\ RequestFormed(request[r])
          /\ request[r].pc = "restart"
      BY <2>2 DEF ChargedToCreator, TypeOK, RestartSandbox, At
    <3>2. request'[r] = [request[r] EXCEPT !.pc = "reread"]
          => RequestFormed(request[r])'
      BY <3>1 DEF RequestFormed, RequestType
    <3> QED
      BY <2>2, <3>2, GoToOK DEF PCs
  <2>3. CASE StopSandbox(r) /\ GoTo(r, "stop_reread")
    <3>1. /\ request[r] \in RequestType /\ RequestFormed(request[r])
          /\ request[r].pc = "stop"
      BY <2>3 DEF ChargedToCreator, TypeOK, StopSandbox, At
    <3>2. request'[r] = [request[r] EXCEPT !.pc = "stop_reread"]
          => RequestFormed(request[r])'
      BY <3>1 DEF RequestFormed, RequestType
    <3> QED
      BY <2>3, <3>2, GoToOK DEF PCs
  <2> QED
    BY <1>6, <2>1, <2>2, <2>3 DEF RestartSandbox, StopSandbox
<1>7. ASSUME NEW r \in Requests, RereadSandbox(r) \/ ExplainStop(r) \/ FailStatement(r)
      PROVE  RequestsOK'
  BY <1>7, AnswerOK DEF RereadSandbox, ExplainStop, FailStatement, Answers
<1>8. ASSUME NEW dead \in SUBSET InFlight, Crash(dead)
      PROVE  RequestsOK'
  <2>1. \A q \in Requests :
          \/ request'[q] = request[q]
          \/ request'[q].op = "none" /\ request'[q].pc = "idle"
    BY <1>8 DEF Crash, IdleRequest
  <2>2. request' \in [Requests -> RequestType]
    BY <1>8 DEF Crash, IdleRequest, RequestType, PCs, ChargedToCreator, TypeOK
  <2> QED
    BY <2>1, <2>2, FormedKept, FormedIdle DEF ChargedToCreator, RequestsOK
<1>9. CASE Environment
  BY <1>0, <1>8, <1>9 DEF Environment, AddMember, RevokeMember, DeleteProject
<1> QED
  BY <1>0, <1>1, <1>2, <1>3, <1>4, <1>5, <1>6, <1>7, <1>9 DEF Next, Serve, vars

-----------------------------------------------------------------------------
\* The whole invariant is inductive.
LEMMA ChargedStep == ChargedToCreator /\ [Next]_vars => ChargedToCreator'
<1> SUFFICES ASSUME ChargedToCreator, [Next]_vars PROVE ChargedToCreator'
  OBVIOUS
<1>1. TablesOK' /\ RowsKept
  BY TablesStep
<1>2. RequestsOK'
  BY <1>1, RequestsStep
<1> QED
  BY <1>1, <1>2 DEF ChargedToCreator, TypeOK, TablesOK, RequestsOK

\* It holds of an empty table of sandboxes with no request in flight.
LEMMA ChargedInit == Init => ChargedToCreator
  BY DEF Init, ChargedToCreator, TypeOK, RowsPresent, RequestFormed,
         IdleRequest, RequestType, PCs

\* A restart checks the plan of the user whose running count it will raise, for
\* any number of concurrent requests, instances, crashes and operator deletes.
THEOREM ChargesCreator == Spec => []ChargedToCreator
  BY ChargedInit, ChargedStep, PTL DEF Spec

\* Every variable keeps its type.
THEOREM ServiceTyped == Spec => []TypeOK
<1>1. ChargedToCreator => TypeOK
  BY DEF ChargedToCreator
<1> QED
  BY <1>1, ChargesCreator, PTL

-----------------------------------------------------------------------------
(* Create and restart implement the soft quota. *)

\* Counts of running sandboxes are counts of finite sets.
LEMMA RunningFinite ==
  ASSUME NEW u \in Users
  PROVE  /\ IsFiniteSet(RunningOf(u)) /\ Cardinality(RunningOf(u)) \in Nat
         /\ IsFiniteSet(RunningOf(u)') /\ Cardinality(RunningOf(u)') \in Nat
<1>1. RunningOf(u) \subseteq Sandboxes /\ RunningOf(u)' \subseteq Sandboxes
  BY DEF RunningOf
<1> QED
  BY <1>1, SandboxesAssumption, FS_Subset, FS_CardinalityType

\* A step in which nobody gains a running sandbox or a grant shrinks the quota.
LEMMA ShrinkStep ==
  ASSUME \A u \in Users : /\ RunningOf(u)' \subseteq RunningOf(u)
                          /\ GrantedTo(u)' \subseteq GrantedTo(u)
  PROVE  Quota!Shrink
<1>1. \A u \in Users : /\ Cardinality(RunningOf(u)) \in Nat
                       /\ Cardinality(RunningOf(u)') \in Nat
                       /\ Cardinality(RunningOf(u)') <= Cardinality(RunningOf(u))
  BY RunningFinite, FS_Subset
<1>2. \A u \in Users : GrantedTo(u)' \subseteq Requests
  BY DEF GrantedTo
<1> QED
  BY <1>1, <1>2 DEF Quota!Shrink

\* A slot that leaves the granted states, the others staying, only loses grants.
LEMMA GrantsShrink ==
  ASSUME NEW r \in Requests, \A q \in Requests : q # r => request'[q] = request[q],
         request'[r].pc \notin {"insert", "restart"}, NEW u \in Users
  PROVE  GrantedTo(u)' = GrantedTo(u) \ {r}
  BY DEF GrantedTo

\* So does an answer.
LEMMA AnswerShrinks ==
  ASSUME TypeOK, NEW r \in Requests, NEW a \in Answers \cup {Null}, Answer(r, a),
         NEW u \in Users
  PROVE  GrantedTo(u)' = GrantedTo(u) \ {r}
<1>1. /\ \A q \in Requests : q # r => request'[q] = request[q]
      /\ request'[r].pc = "idle"
  BY AnswerEffect
<1> QED
  BY <1>1, GrantsShrink

\* A write that makes s one of the running sandboxes of its creator v, in the
\* step that answers a request granted for v, lands that grant.
LEMMA LandStep ==
  ASSUME NEW v \in Users, NEW r \in Requests, NEW s \in Sandboxes,
         r \in GrantedTo(v),
         \A u \in Users : GrantedTo(u)' = GrantedTo(u) \ {r},
         s \notin RunningOf(v),
         RunningOf(v)' = RunningOf(v) \cup {s},
         \A u \in Users : u # v => RunningOf(u)' = RunningOf(u)
  PROVE  Quota!Land(v, r)
<1>1. Cardinality(RunningOf(v)') = Cardinality(RunningOf(v)) + 1
  BY RunningFinite, FS_AddElement
<1>2. \A u \in Users : u # v => Cardinality(RunningOf(u)') = Cardinality(RunningOf(u))
  OBVIOUS
<1>3. \A u \in Users : u # v => GrantedTo(u)' = GrantedTo(u)
  BY DEF GrantedTo
<1> DEFINE used == [u \in Users |-> Cardinality(RunningOf(u))]
           granted == [u \in Users |-> GrantedTo(u)]
<1>4. used' = [used EXCEPT ![v] = @ + 1]
  BY <1>1, <1>2
<1>5. granted' = [granted EXCEPT ![v] = @ \ {r}]
  BY <1>3
<1> QED
  BY <1>4, <1>5 DEF Quota!Land

\* The plan a request charges is a user's, from the check to the write.
LEMMA ChargedUser ==
  ASSUME ChargedToCreator, NEW r \in Requests,
         request[r].pc \in {"quota", "insert", "restart"}
  PROVE  request[r].charged \in Users
<1>1. request[r] \in RequestType /\ RequestFormed(request[r]) /\ RowsPresent
      /\ row \in [Sandboxes -> Row \cup {Null}]
  BY DEF ChargedToCreator, TypeOK
<1>2. CASE request[r].op = "create"
  BY <1>1, <1>2 DEF RequestFormed
<1>3. CASE request[r].op = "restart"
  <2>1. /\ request[r].pc \in {"quota", "restart"}
        /\ request[r].target \in Sandboxes
        /\ state[request[r].target] # "unborn"
        /\ request[r].charged = row[request[r].target].creator
    BY <1>1, <1>3 DEF RequestFormed
  <2>2. row[request[r].target] \in Row
    BY <1>1, <2>1 DEF RowsPresent
  <2> QED
    BY <2>1, <2>2 DEF Row
<1>4. request[r].op \in {"create", "restart"}
  BY <1>1 DEF RequestFormed, RequestType
<1> QED
  BY <1>2, <1>3, <1>4

\* The quota check grants, to the user it charges, or answers.
LEMMA CheckStep ==
  ASSUME ChargedToCreator, NEW r \in Requests, CheckRunningQuota(r)
  PROVE  Quota!Next
<1>0. /\ TypeOK /\ request[r].pc = "quota"
      /\ request[r].charged \in Users
      /\ \A u \in Users : RunningOf(u)' = RunningOf(u)
  BY ChargedUser DEF ChargedToCreator, CheckRunningQuota, At, UnchangedTables, RunningOf
<1>1. CASE Answer(r, "QuotaExceeded")
  <2>1. \A u \in Users : GrantedTo(u)' = GrantedTo(u) \ {r}
    BY <1>0, <1>1, AnswerShrinks DEF Answers
  <2> QED
    BY <1>0, <2>1, ShrinkStep DEF Quota!Next
<1>2. ASSUME NEW pc \in {"insert", "restart"}, GoTo(r, pc),
             UnderQuota(request[r].charged)
      PROVE  Quota!Next
  <2> DEFINE v == request[r].charged
             used == [u \in Users |-> Cardinality(RunningOf(u))]
             granted == [u \in Users |-> GrantedTo(u)]
  <2>1. /\ request' \in [Requests -> RequestType]
        /\ \A q \in Requests : q # r => request'[q] = request[q]
        /\ request'[r] = [request[r] EXCEPT !.pc = pc]
    BY <1>0, <1>2, GoToEffect DEF PCs
  <2>2. request[r] \in RequestType
    BY <1>0 DEF TypeOK
  <2>3. request'[r].pc = pc /\ request'[r].charged = v
    BY <2>1, <2>2 DEF RequestType
  <2>4. \A u \in Users : GrantedTo(u)' = IF u = v THEN GrantedTo(u) \cup {r}
                                         ELSE GrantedTo(u)
    BY <1>0, <2>1, <2>3 DEF GrantedTo
  <2>5. granted' = [granted EXCEPT ![v] = @ \cup {r}]
    BY <2>4
  <2>6. used' = used
    BY <1>0
  <2>7. MaxRunningSandboxes[v] = 0 \/ used[v] < MaxRunningSandboxes[v]
    BY <1>0, <1>2, RunningFinite, MaxRunningAssumption DEF UnderQuota, CountRunning
  <2>8. Quota!Grant(v, r)
    BY <2>5, <2>6, <2>7 DEF Quota!Grant, Quota!Unlimited
  <2> QED
    BY <1>0, <2>8 DEF Quota!Next
<1> QED
  BY <1>1, <1>2 DEF CheckRunningQuota

\* A create that succeeds lands its grant; one that fails gives it up.
LEMMA CreateStep ==
  ASSUME ChargedToCreator, NEW r \in Requests, CreateSandbox(r)
  PROVE  Quota!Next
<1>0. /\ TypeOK /\ request[r].pc = "insert" /\ request[r].charged = request[r].actor
      /\ request[r].actor \in Users
  BY DEF ChargedToCreator, TypeOK, CreateSandbox, At, RequestFormed, RequestType
<1>1. \A u \in Users : GrantedTo(u)' = GrantedTo(u) \ {r}
  BY <1>0, AnswerShrinks DEF CreateSandbox, WriteAnswer, Answers
<1>2. CASE UNCHANGED <<state, row>>
  <2>1. \A u \in Users : RunningOf(u)' = RunningOf(u)
    BY <1>2 DEF RunningOf
  <2> QED
    BY <1>1, <2>1, ShrinkStep DEF Quota!Next
<1>3. ASSUME NEW s \in Unborn,
             state' = [state EXCEPT ![s] = "running"],
             row' = [row EXCEPT ![s] = [project |-> request[r].project,
                                        creator |-> request[r].actor,
                                        name |-> request[r].name]]
      PROVE  Quota!Next
  <2> PICK v \in Users : v = request[r].actor
    BY <1>0
  <2>1. /\ s \in Sandboxes /\ state[s] = "unborn"
        /\ state'[s] = "running" /\ row'[s].creator = v
        /\ \A t \in Sandboxes : t # s => state'[t] = state[t] /\ row'[t] = row[t]
    BY <1>0, <1>3 DEF Unborn, TypeOK
  <2>2. s \notin RunningOf(v) /\ RunningOf(v)' = RunningOf(v) \cup {s}
    BY <2>1 DEF RunningOf
  <2>3. \A u \in Users : u # v => RunningOf(u)' = RunningOf(u)
    BY <2>1 DEF RunningOf
  <2>4. r \in GrantedTo(v)
    BY <1>0 DEF GrantedTo
  <2> QED
    BY <1>0, <1>1, <2>1, <2>2, <2>3, <2>4, LandStep DEF Quota!Next
<1> QED
  BY <1>2, <1>3 DEF CreateSandbox

\* A restart that succeeds lands its grant with the creator of the sandbox.
LEMMA RestartStep ==
  ASSUME ChargedToCreator, NEW r \in Requests, RestartSandbox(r)
  PROVE  Quota!Next
<1>0. /\ TypeOK /\ request[r].pc = "restart" /\ request[r].target \in Sandboxes
      /\ request[r].charged = row[request[r].target].creator
      /\ request[r].charged \in Users
  BY ChargedUser
  DEF ChargedToCreator, TypeOK, RestartSandbox, At, RequestFormed, RequestType
<1>1. CASE GoTo(r, "reread") /\ UNCHANGED <<state, row>>
  <2>1. \A u \in Users : RunningOf(u)' = RunningOf(u)
    BY <1>1 DEF RunningOf
  <2>2. /\ request' \in [Requests -> RequestType]
        /\ \A q \in Requests : q # r => request'[q] = request[q]
        /\ request'[r] = [request[r] EXCEPT !.pc = "reread"]
    BY <1>0, <1>1, GoToEffect DEF PCs
  <2>3. request'[r].pc = "reread"
    BY <1>0, <2>2 DEF TypeOK, RequestType
  <2>4. \A u \in Users : GrantedTo(u)' = GrantedTo(u) \ {r}
    BY <2>2, <2>3, GrantsShrink
  <2> QED
    BY <2>1, <2>4, ShrinkStep DEF Quota!Next
<1>2. CASE /\ state[request[r].target] = "stopped"
           /\ state' = [state EXCEPT ![request[r].target] = "running"]
           /\ WriteAnswer(r, "Restarted")
           /\ UNCHANGED row
  <2> PICK v \in Users, s \in Sandboxes :
         v = request[r].charged /\ s = request[r].target
    BY <1>0
  <2>1. /\ state[s] = "stopped" /\ state'[s] = "running"
        /\ \A t \in Sandboxes : t # s => state'[t] = state[t]
        /\ row' = row /\ row[s].creator = v
    BY <1>0, <1>2 DEF TypeOK
  <2>2. s \notin RunningOf(v) /\ RunningOf(v)' = RunningOf(v) \cup {s}
    BY <1>0, <2>1 DEF RunningOf
  <2>3. \A u \in Users : u # v => RunningOf(u)' = RunningOf(u)
    BY <2>1 DEF RunningOf
  <2>4. r \in GrantedTo(v)
    BY <1>0 DEF GrantedTo
  <2>5. \A u \in Users : GrantedTo(u)' = GrantedTo(u) \ {r}
    BY <1>0, <1>2, AnswerShrinks DEF WriteAnswer, Answers
  <2> QED
    BY <1>0, <2>2, <2>3, <2>4, <2>5, LandStep DEF Quota!Next
<1> QED
  BY <1>1, <1>2 DEF RestartSandbox

\* No other statement of a request grants or lands anything.
LEMMA OtherStatementStep ==
  ASSUME ChargedToCreator, NEW r \in Requests,
         \/ CheckMembership(r) \/ LookupSandbox(r) \/ RereadSandbox(r)
         \/ StopSandbox(r) \/ ExplainStop(r) \/ FailStatement(r)
  PROVE  Quota!Next
<1>0. TypeOK
  BY DEF ChargedToCreator
<1>1. \A u \in Users : RunningOf(u)' \subseteq RunningOf(u)
  BY <1>0
  DEF CheckMembership, LookupSandbox, RereadSandbox, StopSandbox, ExplainStop,
      FailStatement, UnchangedTables, RunningOf, TypeOK
<1>2. CASE \E a \in Answers : Answer(r, a)
  <2>1. \A u \in Users : GrantedTo(u)' = GrantedTo(u) \ {r}
    BY <1>0, <1>2, AnswerShrinks
  <2> QED
    BY <1>1, <2>1, ShrinkStep DEF Quota!Next
<1>3. ASSUME NEW pc \in {"quota", "lookup", "stop_reread"}, GoTo(r, pc)
      PROVE  Quota!Next
  <2>1. /\ \A q \in Requests : q # r => request'[q] = request[q]
        /\ request'[r] = [request[r] EXCEPT !.pc = pc]
    BY <1>0, <1>3, GoToEffect DEF PCs
  <2>2. request'[r].pc = pc
    BY <1>0, <2>1 DEF TypeOK, RequestType
  <2>3. \A u \in Users : GrantedTo(u)' = GrantedTo(u) \ {r}
    BY <2>1, <2>2, GrantsShrink
  <2> QED
    BY <1>1, <2>3, ShrinkStep DEF Quota!Next
<1>4. CASE request' = [request EXCEPT
             ![r].pc = "quota", ![r].charged = row[request[r].target].creator]
  <2>1. /\ \A q \in Requests : q # r => request'[q] = request[q]
        /\ request'[r] = [request[r] EXCEPT
             !.pc = "quota", !.charged = row[request[r].target].creator]
    BY <1>0, <1>4 DEF TypeOK
  <2>2. request'[r].pc = "quota"
    BY <1>0, <2>1 DEF TypeOK, RequestType
  <2>3. \A u \in Users : GrantedTo(u)' = GrantedTo(u) \ {r}
    BY <2>1, <2>2, GrantsShrink
  <2> QED
    BY <1>1, <2>3, ShrinkStep DEF Quota!Next
<1> QED
  BY <1>2, <1>3, <1>4
  DEF CheckMembership, LookupSandbox, RereadSandbox, StopSandbox, ExplainStop,
      FailStatement, WriteAnswer, Answers

\* Arrivals and the rest of the system neither grant nor land.
LEMMA OutsideStep ==
  ASSUME ChargedToCreator, (\E r \in Requests : Receive(r)) \/ Environment
  PROVE  Quota!Next
<1>0. TypeOK
  BY DEF ChargedToCreator
<1>1. \A u \in Users : RunningOf(u)' \subseteq RunningOf(u)
  BY <1>0
  DEF Receive, ReceiveCreate, ReceiveRestart, ReceiveStop, Environment, AddMember,
      RevokeMember, DeleteProject, Crash, UnchangedTables, RunningOf, Exists, TypeOK
<1>2. CASE UNCHANGED request
  BY <1>1, <1>2, ShrinkStep DEF GrantedTo, Quota!Next
<1>3. ASSUME NEW dead \in SUBSET InFlight, Crash(dead)
      PROVE  Quota!Next
  <2>1. \A u \in Users : GrantedTo(u)' \subseteq GrantedTo(u)
    BY <1>3 DEF Crash, GrantedTo, IdleRequest
  <2> QED
    BY <1>1, <2>1, ShrinkStep DEF Quota!Next
<1>4. ASSUME NEW r \in Requests, Receive(r)
      PROVE  Quota!Next
  <2>1. PICK new \in RequestType :
          request' = [request EXCEPT ![r] = new] /\ new.pc \in {"membership", "stop"}
    BY <1>4, ArrivalEffect
  <2>2. /\ \A q \in Requests : q # r => request'[q] = request[q]
        /\ request'[r].pc \notin {"insert", "restart"}
    BY <1>0, <2>1 DEF TypeOK
  <2>3. \A u \in Users : GrantedTo(u)' = GrantedTo(u) \ {r}
    BY <2>2, GrantsShrink
  <2> QED
    BY <1>1, <2>3, ShrinkStep DEF Quota!Next
<1> QED
  BY <1>2, <1>3, <1>4 DEF Environment, AddMember, RevokeMember, DeleteProject

-----------------------------------------------------------------------------
\* The empty service is a quota nobody has used.
LEMMA QuotaInit == Init => Quota!Init
<1> SUFFICES ASSUME Init PROVE Quota!Init
  OBVIOUS
<1>1. \A u \in Users : RunningOf(u) = {} /\ GrantedTo(u) = {}
  BY DEF Init, RunningOf, GrantedTo, IdleRequest
<1> QED
  BY <1>1, FS_EmptySet DEF Quota!Init

\* Every step of the service is a step or a stutter of the quota.
LEMMA QuotaStep ==
  ChargedToCreator /\ [Next]_vars => [Quota!Next]_(Quota!qvars)
<1> SUFFICES ASSUME ChargedToCreator, [Next]_vars
             PROVE  Quota!Next \/ UNCHANGED Quota!qvars
  OBVIOUS
<1>1. CASE UNCHANGED vars
  BY <1>1 DEF vars, Quota!qvars, RunningOf, GrantedTo
<1> QED
  BY <1>1, CheckStep, CreateStep, RestartStep, OtherStatementStep, OutsideStep
  DEF Next, Serve

\* Create and restart, over any number of users and requests in flight and with
\* crashes, revocations and deletions in between, implement the soft quota.
THEOREM SandboxImplementsSoftQuota == Spec => ImplementsSoftQuota
<1>1. Init => Quota!Init
  BY QuotaInit
<1>2. ChargedToCreator /\ [Next]_vars => [Quota!Next]_(Quota!qvars)
  BY QuotaStep
<1> QED
  BY <1>1, <1>2, ChargesCreator, PTL DEF Spec, ImplementsSoftQuota, Quota!Spec

\* The finite sets of the instance are those of this module.
LEMMA SameFiniteSets ==
  \A S : /\ Quota!IsFiniteSet(S) <=> IsFiniteSet(S)
         /\ Quota!Cardinality(S) = Cardinality(S)
  BY Zenon DEF Quota!IsFiniteSet, IsFiniteSet, Quota!Cardinality, Cardinality

\* However creates, restarts, stops, deletions and crashes interleave, a limited
\* user runs at most cap - 1 + (requests in flight) sandboxes.
THEOREM RunningBounded == Spec => []RunningOvershootBounded
<1>1. Quota!QuotaConstants
  BY MaxRunningAssumption, RequestsAssumption, SameFiniteSets DEF Quota!QuotaConstants
<1>2. Quota!Spec => []Quota!OvershootBounded
  BY <1>1, Quota!QuotaOvershootBounded
<1>3. Spec => Quota!Spec
  BY SandboxImplementsSoftQuota DEF ImplementsSoftQuota
<1> QED
  BY <1>2, <1>3, PTL DEF RunningOvershootBounded

\* No limited user runs more sandboxes than the plan allows.
CapRespected ==
  \A u \in Users : MaxRunningSandboxes[u] # 0 =>
    Cardinality(RunningOf(u)) <= MaxRunningSandboxes[u]

\* With one request at a time the soft quota is a hard one, whatever is restarted by
\* whom, stopped, revoked or deleted in between.
THEOREM OneAtATimeRespectsCap ==
  ASSUME Cardinality(Requests) = 1
  PROVE  Spec => []CapRespected
<1>1. RunningOvershootBounded => CapRespected
  <2> SUFFICES ASSUME RunningOvershootBounded, NEW u \in Users, MaxRunningSandboxes[u] # 0
               PROVE  Cardinality(RunningOf(u)) <= MaxRunningSandboxes[u]
    BY DEF CapRespected
  <2>1. Cardinality(RunningOf(u)) + Cardinality(GrantedTo(u)) <= MaxRunningSandboxes[u] - 1 + 1
    BY SameFiniteSets DEF RunningOvershootBounded, Quota!OvershootBounded, Quota!Unlimited
  <2>2. Cardinality(GrantedTo(u)) \in Nat
    <3>1. GrantedTo(u) \subseteq Requests
      BY DEF GrantedTo
    <3> QED
      BY <3>1, RequestsAssumption, FS_Subset, FS_CardinalityType
  <2>3. Cardinality(RunningOf(u)) \in Nat /\ MaxRunningSandboxes[u] \in Nat
    BY RunningFinite, MaxRunningAssumption
  <2> QED
    BY <2>1, <2>2, <2>3
<1> QED
  BY <1>1, RunningBounded, PTL

-----------------------------------------------------------------------------
(* Who moves a sandbox. *)

\* In every step that stops or restarts a sandbox the mover is a member.
LEMMA LifecycleStep ==
  ASSUME ChargedToCreator, [Next]_vars, NEW s \in Sandboxes,
         {state[s], state'[s]} = {"running", "stopped"}
  PROVE  \E r \in Requests :
           /\ StepOf(r)
           /\ request[r].target = s
           /\ IsMember(row[s].project, request[r].actor)
<1>0. TypeOK /\ state'[s] # state[s] /\ state[s] \in {"running", "stopped"}
      /\ state'[s] \in {"running", "stopped"}
  BY DEF ChargedToCreator
<1>1. ASSUME NEW r \in Requests, RestartSandbox(r) \/ StopSandbox(r)
      PROVE  /\ StepOf(r)
             /\ request[r].target = s
             /\ IsMember(row[s].project, request[r].actor)
  <2>1. request[r].target = s /\ Accessible(s, request[r].actor)
    BY <1>0, <1>1 DEF RestartSandbox, StopSandbox, TypeOK
  <2>2. \E a \in Answers : Answer(r, a)
    BY <1>0, <1>1 DEF RestartSandbox, StopSandbox, WriteAnswer, Answers
  <2>3. request'[r].pc = "idle" /\ request[r].pc # "idle"
    BY <1>0, <1>1, <2>2, AnswerEffect DEF RestartSandbox, StopSandbox, At
  <2> QED
    BY <2>1, <2>3 DEF StepOf, Accessible
<1>2. ASSUME NEW r \in Requests, CreateSandbox(r)
      PROVE  FALSE
  BY <1>0, <1>2 DEF CreateSandbox, Unborn, TypeOK
<1>3. ASSUME NEW p \in Projects, DeleteProject(p)
      PROVE  FALSE
  BY <1>0, <1>3 DEF DeleteProject
<1>4. state' # state
  BY <1>0
<1> QED
  BY <1>1, <1>2, <1>3, <1>4
  DEF Next, Receive, ReceiveCreate, ReceiveRestart, ReceiveStop, Serve,
      CheckMembership, CheckRunningQuota, LookupSandbox, RereadSandbox, ExplainStop,
      FailStatement, Environment, AddMember, RevokeMember, Crash, UnchangedTables, vars

\* Only a user who is a member at that very moment stops or restarts a sandbox.
THEOREM LifecycleProtected == Spec => LifecycleByMembers
<1>1. ChargedToCreator /\ [Next]_vars =>
        [\A s \in Sandboxes :
           {state[s], state'[s]} = {"running", "stopped"} =>
             \E r \in Requests :
               /\ StepOf(r)
               /\ request[r].target = s
               /\ IsMember(row[s].project, request[r].actor)]_vars
  BY LifecycleStep
<1> QED
  BY <1>1, ChargesCreator, PTL DEF Spec, LifecycleByMembers

-----------------------------------------------------------------------------
(* The answers of restart and stop. *)

\* The condition in which the sandbox a request names is, to its user.
Condition(r) == Conditions[<<request[r].target, request[r].actor>>]

\* A request of r that names a sandbox is a restart or a stop.
Named(r) ==
  NamesSandbox(r) =>
    /\ request[r].op \in {"restart", "stop"}
    /\ request[r].target \in Sandboxes /\ request[r].actor \in Users

\* What has been witnessed by the time a request reaches each of its statements: the
\* present condition; a stopped sandbox, past the first read of a restart; and a
\* condition other than the one its UPDATE wanted, past an UPDATE without a row.
Witnessed(r) ==
  NamesSandbox(r) =>
    /\ Condition(r) \in witness[r]
    /\ request[r].op = "restart" /\ request[r].pc \in {"quota", "restart", "reread"} =>
         "stopped" \in witness[r]
    /\ request[r].pc = "reread" => \E c \in witness[r] : c # "stopped"
    /\ request[r].pc = "stop_reread" => \E c \in witness[r] : c # "running"

HInv ==
  /\ ChargedToCreator
  /\ \A r \in Requests : Named(r) /\ Witnessed(r)

\* The condition of a sandbox, and the next one, to a user.
LEMMA ConditionOf ==
  ASSUME NEW s \in Sandboxes, NEW u \in Users
  PROVE  /\ Conditions[<<s, u>>] = IF Accessible(s, u) THEN state[s] ELSE "hidden"
         /\ Conditions'[<<s, u>>] = IF Accessible(s, u)' THEN state'[s] ELSE "hidden"
  BY DEF Conditions

\* What a request that named a sandbox, and still does, has done in a step: nothing,
\* or gone on, for the reason its next statement stands for.
GoesOn(r) ==
  \/ request'[r].pc = request[r].pc
  \/ request'[r].pc = "lookup"
  \/ request'[r].pc = "quota" /\ Condition(r) = "stopped"
  \/ request'[r].pc = "restart" /\ request[r].pc = "quota"
  \/ request'[r].pc = "reread" /\ request[r].pc = "restart" /\ Condition(r) # "stopped"
  \/ request'[r].pc = "stop_reread" /\ Condition(r) # "running"

\* The request is that of the step before, no statement of which it answers.
SameRequest(r) ==
  /\ request'[r].op = request[r].op /\ request'[r].target = request[r].target
  /\ request'[r].actor = request[r].actor /\ request'[r].project = request[r].project

\* An answered slot, or one that has died with its instance, names nothing.
LEMMA AnswerBlank ==
  ASSUME HInv, NEW r \in Requests, NEW a \in Answers, Answer(r, a)
  PROVE  /\ request'[r].target = Null /\ request'[r].pc = "idle"
         /\ request'[r].answer = a
         /\ \A x \in Requests : x # r => request'[x] = request[x]
<1>1. request' = [request EXCEPT ![r] = [IdleRequest EXCEPT !.answer = a]]
      /\ request \in [Requests -> RequestType]
  BY DEF Answer, HInv, ChargedToCreator, TypeOK
<1>2. /\ [IdleRequest EXCEPT !.answer = a].target = Null
      /\ [IdleRequest EXCEPT !.answer = a].pc = "idle"
      /\ [IdleRequest EXCEPT !.answer = a].answer = a
  BY DEF IdleRequest
<1> QED
  BY <1>1, <1>2

\* GoTo keeps the request.
LEMMA GoToSame ==
  ASSUME HInv, NEW r \in Requests, NEW pc \in PCs, GoTo(r, pc)
  PROVE  /\ SameRequest(r) /\ request'[r].pc = pc
         /\ \A x \in Requests : x # r => request'[x] = request[x]
<1>1. TypeOK /\ request[r] \in RequestType
  BY DEF HInv, ChargedToCreator, TypeOK
<1>2. /\ \A x \in Requests : x # r => request'[x] = request[x]
      /\ request'[r] = [request[r] EXCEPT !.pc = pc]
  BY <1>1, GoToEffect
<1> QED
  BY <1>1, <1>2 DEF RequestType, SameRequest

\* A statement of r answers it, or r goes on; the other slots keep their requests.
LEMMA StatementMoves ==
  ASSUME HInv, NEW r \in Requests, Serve(r), NamesSandbox(r)
  PROVE  /\ request'[r].target = Null \/ (SameRequest(r) /\ GoesOn(r))
         /\ \A x \in Requests : x # r => request'[x] = request[x]
<1> DEFINE Goal == /\ request'[r].target = Null \/ (SameRequest(r) /\ GoesOn(r))
                   /\ \A x \in Requests : x # r => request'[x] = request[x]
<1>0. PICK s \in Sandboxes, u \in Users :
        /\ s = request[r].target /\ u = request[r].actor
        /\ request[r].op \in {"restart", "stop"} /\ RequestFormed(request[r])
        /\ Condition(r) = IF Accessible(s, u) THEN state[s] ELSE "hidden"
  <2>1. /\ request[r].target \in Sandboxes /\ request[r].actor \in Users
        /\ request[r].op \in {"restart", "stop"} /\ RequestFormed(request[r])
    BY DEF HInv, Named, ChargedToCreator
  <2> QED
    BY <2>1, ConditionOf DEF Condition
<1>1. CASE \E a \in Answers : Answer(r, a)
  BY <1>1, AnswerBlank
<1>2. CASE CheckMembership(r) /\ GoTo(r, IF request[r].op = "create" THEN "quota" ELSE "lookup")
  <2>1. GoTo(r, "lookup")
    BY <1>0, <1>2
  <2> QED
    BY <2>1, GoToSame DEF PCs, GoesOn
<1>3. CASE /\ CheckRunningQuota(r)
           /\ GoTo(r, IF request[r].op = "create" THEN "insert" ELSE "restart")
  <2>1. GoTo(r, "restart") /\ request[r].pc = "quota"
    BY <1>0, <1>3 DEF CheckRunningQuota, At
  <2> QED
    BY <2>1, GoToSame DEF PCs, GoesOn
<1>4. CASE CreateSandbox(r)
  BY <1>0, <1>4 DEF CreateSandbox, At, RequestFormed
<1>5. CASE /\ Accessible(s, u) /\ state[s] = "stopped"
           /\ request' = [request EXCEPT ![r].pc = "quota",
                                         ![r].charged = row[request[r].target].creator]
  <2> DEFINE q == [[request[r] EXCEPT !.pc = "quota"]
                               EXCEPT !.charged = row[request[r].target].creator]
  <2>1. request[r] \in RequestType /\ request \in [Requests -> RequestType]
    BY DEF HInv, ChargedToCreator, TypeOK
  <2>2. /\ q.pc = "quota" /\ q.op = request[r].op /\ q.target = request[r].target
        /\ q.actor = request[r].actor /\ q.project = request[r].project
    BY <2>1 DEF RequestType
  <2>3. request' = [request EXCEPT ![r] = q]
    BY <1>5, <2>1
  <2> HIDE DEF q
  <2>4. Condition(r) = "stopped"
    BY <1>0, <1>5
  <2> QED
    BY <2>1, <2>2, <2>3, <2>4 DEF SameRequest, GoesOn
<1>6. CASE /\ RestartSandbox(r) /\ GoTo(r, "reread")
           /\ ~(Accessible(s, u) /\ state[s] = "stopped")
  <2>1. Condition(r) # "stopped" /\ request[r].pc = "restart"
    BY <1>0, <1>6 DEF RestartSandbox, At
  <2> QED
    BY <1>6, <2>1, GoToSame DEF PCs, GoesOn
<1>7. CASE /\ StopSandbox(r) /\ GoTo(r, "stop_reread")
           /\ ~(Accessible(s, u) /\ state[s] = "running")
  <2>1. Condition(r) # "running"
    BY <1>0, <1>7
  <2> QED
    BY <1>7, <2>1, GoToSame DEF PCs, GoesOn
<1>8. CASE CheckMembership(r)
  BY <1>1, <1>2, <1>8 DEF CheckMembership, Answers
<1>9. CASE CheckRunningQuota(r)
  BY <1>1, <1>3, <1>9 DEF CheckRunningQuota, Answers
<1>10. CASE LookupSandbox(r)
  BY <1>0, <1>1, <1>5, <1>10 DEF LookupSandbox, Answers
<1>11. CASE RestartSandbox(r)
  BY <1>0, <1>1, <1>6, <1>11 DEF RestartSandbox, WriteAnswer, Answers
<1>12. CASE StopSandbox(r)
  BY <1>0, <1>1, <1>7, <1>12 DEF StopSandbox, WriteAnswer, Answers
<1>13. CASE RereadSandbox(r) \/ ExplainStop(r) \/ FailStatement(r)
  BY <1>1, <1>13 DEF RereadSandbox, ExplainStop, FailStatement, Answers
<1> QED
  BY <1>4, <1>8, <1>9, <1>10, <1>11, <1>12, <1>13 DEF Serve

\* So does a statement of a request that names none: it names none afterwards.
LEMMA UnnamedStatement ==
  ASSUME HInv, NEW r \in Requests, Serve(r), ~NamesSandbox(r)
  PROVE  /\ request'[r].target = Null
         /\ \A x \in Requests : x # r => request'[x] = request[x]
<1>0. request[r].target = Null
  BY DEF NamesSandbox
<1>1. CASE \E a \in Answers : Answer(r, a)
  BY <1>1, AnswerBlank
<1>2. CASE \E pc \in PCs : GoTo(r, pc)
  BY <1>0, <1>2, GoToSame DEF SameRequest
<1>3. ASSUME request' = [request EXCEPT ![r].pc = "quota",
                                        ![r].charged = row[request[r].target].creator]
      PROVE  /\ request'[r].target = Null
             /\ \A x \in Requests : x # r => request'[x] = request[x]
  BY <1>0, <1>3 DEF HInv, ChargedToCreator, TypeOK, RequestType
<1> QED
  BY <1>1, <1>2, <1>3
  DEF Serve, CheckMembership, CheckRunningQuota, CreateSandbox, LookupSandbox,
      RestartSandbox, RereadSandbox, StopSandbox, ExplainStop, FailStatement,
      WriteAnswer, Answers, PCs

\* A request arrives at a slot that named nothing, or none does.
LEMMA ArrivalNames ==
  ASSUME HInv, NEW r \in Requests, Receive(r)
  PROVE  /\ UnchangedTables /\ ~NamesSandbox(r)
         /\ request'[r].pc \in {"membership", "stop"}
         /\ request'[r].op \in {"restart", "stop"} \/ request'[r].target = Null
         /\ \A x \in Requests : x # r => request'[x] = request[x]
<1>1. UnchangedTables /\ request[r].pc = "idle"
  BY DEF Receive, ReceiveCreate, ReceiveRestart, ReceiveStop, At
<1>2. PICK q \in RequestType :
        /\ request' = [request EXCEPT ![r] = q] /\ q.pc \in {"membership", "stop"}
        /\ q.op \in {"restart", "stop"} \/ q.target = Null
  BY ArrivalEffect
<1>3. ~NamesSandbox(r)
  BY <1>1 DEF HInv, Named, ChargedToCreator, RequestFormed
<1> QED
  BY <1>1, <1>2, <1>3 DEF HInv, ChargedToCreator, TypeOK

\* What becomes of the request of a slot in a step: it stays where it is, goes on,
\* ends, or is one that has just arrived at a slot without a request.
Becomes(r) ==
  \/ request'[r] = request[r]
  \/ NamesSandbox(r) /\ SameRequest(r) /\ GoesOn(r)
  \/ request'[r].target = Null
  \/ /\ ~NamesSandbox(r) /\ UnchangedTables
     /\ request'[r].pc \in {"membership", "stop"}
     /\ request'[r].op \in {"restart", "stop"}

\* That is all there is.
LEMMA RequestsBecome ==
  ASSUME HInv, [Next]_vars, NEW r \in Requests
  PROVE  Becomes(r)
<1>1. ASSUME NEW x \in Requests, Serve(x) PROVE Becomes(r)
  BY <1>1, StatementMoves, UnnamedStatement DEF Becomes
<1>2. ASSUME NEW x \in Requests, Receive(x) PROVE Becomes(r)
  BY <1>2, ArrivalNames DEF Becomes
<1>3. ASSUME NEW dead \in SUBSET InFlight, Crash(dead) PROVE Becomes(r)
  BY <1>3 DEF Crash, IdleRequest, Becomes
<1>4. CASE request' = request
  BY <1>4 DEF Becomes
<1> QED
  BY <1>1, <1>2, <1>3, <1>4
  DEF Next, Environment, AddMember, RevokeMember, DeleteProject, vars

\* What a request witnesses: what it had witnessed, and its sandbox after the step.
LEMMA Seen ==
  ASSUME HInv, Observe, NEW r \in Requests
  PROVE  /\ NamesSandbox(r) =>
              witness'[r] = witness[r]
                \cup {Conditions'[<<request[r].target, request[r].actor>>]}
         /\ ~NamesSandbox(r) /\ NamesSandbox(r)' =>
              witness'[r] = {Conditions[<<request'[r].target, request'[r].actor>>]}
         /\ ~NamesSandbox(r) /\ ~NamesSandbox(r)' => witness'[r] = {}
  BY DEF Observe

\* Every sandbox is named by a restart or a stop.
LEMMA NamedStep ==
  ASSUME HInv, [Next]_vars, ChargedToCreator', NEW r \in Requests
  PROVE  Named(r)'
<1> SUFFICES ASSUME NamesSandbox(r)' PROVE request'[r].op \in {"restart", "stop"}
  BY DEF ChargedToCreator, RequestFormed, Named
<1> QED
  BY RequestsBecome DEF Becomes, HInv, Named, NamesSandbox, SameRequest

\* The history of a request covers what its next statement relies on.
LEMMA WitnessStep ==
  ASSUME HInv, [Next]_vars, Observe, NEW r \in Requests
  PROVE  Witnessed(r)'
<1> SUFFICES ASSUME NamesSandbox(r)' PROVE Witnessed(r)'
  BY DEF Witnessed
<1>0. request'[r].target # Null
  BY DEF NamesSandbox
<1>1. CASE NamesSandbox(r) /\ SameRequest(r)
           /\ (request'[r] = request[r] \/ GoesOn(r))
  <2>1. /\ Condition(r)' \in witness'[r] /\ witness[r] \subseteq witness'[r]
        /\ Condition(r) \in witness[r]
        /\ request[r].op = "restart" /\ request[r].pc \in {"quota", "restart", "reread"} =>
             "stopped" \in witness[r]
        /\ request[r].pc = "reread" => \E c \in witness[r] : c # "stopped"
        /\ request[r].pc = "stop_reread" => \E c \in witness[r] : c # "running"
    BY <1>1, Seen DEF Condition, SameRequest, HInv, Witnessed
  <2>2. request'[r].pc = request[r].pc \/ GoesOn(r)
    BY <1>1
  <2>3. CASE request'[r].pc = request[r].pc
    BY <1>1, <2>1, <2>3 DEF Witnessed, SameRequest
  <2>4. CASE GoesOn(r) /\ request'[r].pc # request[r].pc
    BY <1>1, <2>1, <2>4 DEF Witnessed, SameRequest, GoesOn
  <2> QED
    BY <2>2, <2>3, <2>4
<1>2. CASE /\ ~NamesSandbox(r) /\ UnchangedTables
           /\ request'[r].pc \in {"membership", "stop"}
  <2>1. witness'[r] = {Conditions[<<request'[r].target, request'[r].actor>>]}
    BY <1>2, Seen
  <2>2. Conditions' = Conditions
    BY <1>2 DEF UnchangedTables, Conditions, Accessible, Exists, IsMember
  <2> QED
    BY <1>2, <2>1, <2>2 DEF Witnessed, Condition
<1> QED
  BY <1>0, <1>1, <1>2, RequestsBecome DEF Becomes, NamesSandbox, SameRequest

\* The history begins with no request in flight.
LEMMA WitnessInit == HInit => HInv
<1> SUFFICES ASSUME HInit PROVE HInv
  OBVIOUS
<1>1. \A r \in Requests : request[r].target = Null
  BY DEF HInit, Init, IdleRequest
<1> QED
  BY <1>1, ChargedInit DEF HInit, HInv, Named, Witnessed, NamesSandbox

\* Every step keeps the history ahead of the requests.
LEMMA WitnessInvStep == HInv /\ [HNext]_hvars => HInv'
<1> SUFFICES ASSUME HInv, [HNext]_hvars PROVE HInv'
  OBVIOUS
<1>1. CASE UNCHANGED hvars
  <2>1. UNCHANGED vars /\ request' = request /\ witness' = witness
    BY <1>1 DEF hvars, vars
  <2>2. ChargedToCreator'
    BY <2>1, ChargedStep DEF HInv
  <2>3. Conditions' = Conditions
    BY <2>1 DEF vars, Conditions, Accessible, Exists, IsMember
  <2>4. \A r \in Requests : Named(r)' /\ Witnessed(r)'
    BY <2>1, <2>3 DEF HInv, Named, Witnessed, NamesSandbox, Condition
  <2> QED
    BY <2>2, <2>4 DEF HInv
<1>2. CASE HNext
  <2>1. [Next]_vars /\ Observe
    BY <1>2 DEF HNext
  <2>2. ChargedToCreator'
    BY <2>1, ChargedStep DEF HInv
  <2>3. \A r \in Requests : Named(r)' /\ Witnessed(r)'
    BY <2>1, <2>2, NamedStep, WitnessStep
  <2> QED
    BY <2>2, <2>3 DEF HInv
<1> QED
  BY <1>1, <1>2

\* Only a statement of the request answers it.
LEMMA StatementAnswers ==
  ASSUME HInv, [Next]_vars, NEW r \in Requests, IsAnswered(r)
  PROVE  Serve(r)
<1>1. request[r].pc # "idle" /\ request'[r].pc = "idle" /\ request'[r].answer # Null
  BY DEF IsAnswered, At
<1>2. ASSUME NEW x \in Requests, Serve(x) PROVE x = r
  BY <1>1, <1>2, StatementMoves, UnnamedStatement
<1>3. ASSUME NEW x \in Requests, Receive(x) PROVE FALSE
  BY <1>1, <1>3, ArrivalNames
<1>4. ASSUME NEW dead \in SUBSET InFlight, Crash(dead) PROVE FALSE
  BY <1>1, <1>4 DEF Crash, IdleRequest
<1>5. request' # request
  BY <1>1
<1> QED
  BY <1>2, <1>3, <1>4, <1>5
  DEF Next, Environment, AddMember, RevokeMember, DeleteProject, vars

\* What a statement answers was so at some instant of the request: it has seen the
\* condition it answers with, or the history has.
LEMMA AnswerTrue ==
  ASSUME HInv, Observe, NEW r \in Requests, Serve(r), IsAnswered(r), NamesSandbox(r)
  PROVE  TrueOf(request'[r].answer, witness'[r],
                /\ request[r].op = "restart"
                /\ state[request[r].target] # "unborn"
                /\ row[request[r].target].project # request[r].project)
<1> DEFINE q == request[r]
           C == Condition(r)
           D == Conditions'[<<q.target, q.actor>>]
           a == request'[r].answer
           elsewhere == /\ q.op = "restart" /\ state[q.target] # "unborn"
                        /\ row[q.target].project # q.project
<1>1. PICK s \in Sandboxes, u \in Users :
        /\ s = q.target /\ u = q.actor
        /\ q.op \in {"restart", "stop"} /\ RequestFormed(q)
        /\ C = IF Accessible(s, u) THEN state[s] ELSE "hidden"
        /\ D = IF Accessible(s, u)' THEN state'[s] ELSE "hidden"
  <2>1. /\ q.target \in Sandboxes /\ q.actor \in Users
        /\ q.op \in {"restart", "stop"} /\ RequestFormed(q)
    BY DEF HInv, Named, ChargedToCreator
  <2> QED
    BY <2>1, ConditionOf DEF Condition
<1>2. /\ C \in witness[r] /\ witness'[r] = witness[r] \cup {D}
      /\ q.op = "restart" /\ q.pc \in {"quota", "restart", "reread"} =>
           "stopped" \in witness[r]
      /\ q.pc = "reread" => \E c \in witness[r] : c # "stopped"
      /\ q.pc = "stop_reread" => \E c \in witness[r] : c # "running"
  BY Seen DEF HInv, Witnessed
<1>3. request'[r].pc = "idle"
  BY DEF IsAnswered, At
<1>4. \A b \in Answers : Answer(r, b) => a = b
  BY AnswerBlank
<1>5. \A pc \in PCs \ {"idle"} : ~GoTo(r, pc)
  BY <1>3, GoToSame
<1> HIDE DEF q, C, D, a, elsewhere
<1>6. CASE CheckMembership(r) \/ CheckRunningQuota(r) \/ CreateSandbox(r) \/ FailStatement(r)
  <2>1. a \in {"ProjectNotFound", "NotMember", "QuotaExceeded", "Created", "NameTaken",
               "InternalError"}
    BY <1>4, <1>5, <1>6
    DEF CheckMembership, CheckRunningQuota, CreateSandbox, FailStatement, WriteAnswer,
        Answers, PCs
  <2> QED
    BY <2>1 DEF TrueOf, a, q
<1>7. CASE LookupSandbox(r)
  <2>1. CASE ~Accessible(s, u) /\ Answer(r, "SandboxNotFound")
    <3>1. a = "SandboxNotFound" /\ "hidden" \in witness'[r]
      BY <1>1, <1>2, <1>4, <2>1 DEF Answers
    <3> QED
      BY <3>1 DEF TrueOf, a, q
  <2>2. CASE Accessible(s, u) /\ row[s].project # q.project /\ Answer(r, "SandboxNotFound")
    <3>1. a = "SandboxNotFound" /\ q.op = "restart"
      BY <1>1, <1>4, <1>7, <2>2 DEF LookupSandbox, At, RequestFormed, Answers, q
    <3>2. state[s] # "unborn"
      BY <2>2 DEF Accessible, Exists
    <3> QED
      BY <1>1, <2>2, <3>1, <3>2 DEF TrueOf, a, q
  <2>3. CASE Accessible(s, u) /\ state[s] = "running" /\ Answer(r, "AlreadyRunning")
    <3>1. a = "AlreadyRunning" /\ "running" \in witness'[r]
      BY <1>1, <1>2, <1>4, <2>3 DEF Answers
    <3> QED
      BY <3>1 DEF TrueOf, a, q
  <2>4. request' # [request EXCEPT ![r].pc = "quota",
                                   ![r].charged = row[q.target].creator]
    BY <1>3 DEF HInv, ChargedToCreator, TypeOK, RequestType
  <2> QED
    BY <1>1, <1>7, <2>1, <2>2, <2>3, <2>4 DEF LookupSandbox, q
<1>8. CASE RestartSandbox(r)
  <2>1. /\ Accessible(s, u) /\ state[s] = "stopped" /\ UNCHANGED <<members, row>>
        /\ state' = [state EXCEPT ![s] = "running"]
        /\ a \in {"Restarted", "InternalError"}
    BY <1>1, <1>4, <1>5, <1>8 DEF RestartSandbox, WriteAnswer, Answers, PCs, q
  <2>2. state'[s] = "running" /\ Accessible(s, u)'
    BY <2>1 DEF HInv, ChargedToCreator, TypeOK, Accessible, Exists, IsMember
  <2>3. {"running", "stopped"} \subseteq witness'[r]
    BY <1>1, <1>2, <2>1, <2>2
  <2> QED
    BY <2>1, <2>3 DEF TrueOf, a, q
<1>9. CASE StopSandbox(r)
  <2>1. /\ Accessible(s, u) /\ state[s] = "running" /\ UNCHANGED <<members, row>>
        /\ state' = [state EXCEPT ![s] = "stopped"]
        /\ a \in {"Stopped", "InternalError"}
    BY <1>1, <1>4, <1>5, <1>9 DEF StopSandbox, WriteAnswer, Answers, PCs, q
  <2>2. state'[s] = "stopped" /\ Accessible(s, u)'
    BY <2>1 DEF HInv, ChargedToCreator, TypeOK, Accessible, Exists, IsMember
  <2>3. {"running", "stopped"} \subseteq witness'[r]
    BY <1>1, <1>2, <2>1, <2>2
  <2> QED
    BY <2>1, <2>3 DEF TrueOf, a, q
<1>10. CASE RereadSandbox(r)
  <2>1. q.pc = "reread" /\ q.op = "restart"
    BY <1>1, <1>10 DEF RereadSandbox, At, RequestFormed, q
  <2>2. \/ a = "SandboxNotFound" /\ C = "hidden"
        \/ a = "RereadRunning" /\ C = "running"
        \/ a = "RereadStopped"
    BY <1>1, <1>4, <1>10 DEF RereadSandbox, Answers, q
  <2>3. "stopped" \in witness'[r] /\ witness'[r] # {"stopped"} /\ C \in witness'[r]
    BY <1>2, <2>1
  <2> QED
    BY <2>2, <2>3 DEF TrueOf, a, q
<1>11. CASE ExplainStop(r)
  <2>1. q.pc = "stop_reread"
    BY <1>11 DEF ExplainStop, At, q
  <2>2. \/ a = "SandboxNotFound" /\ C = "hidden"
        \/ a = "AlreadyStopped" /\ C = "stopped"
        \/ a = "Modified" /\ C = "running"
    BY <1>1, <1>4, <1>11 DEF ExplainStop, Answers, Accessible, Exists, q
  <2>3. witness'[r] # {"running"} /\ C \in witness'[r]
    BY <1>2, <2>1
  <2> QED
    BY <2>2, <2>3 DEF TrueOf, a, q
<1> QED
  BY <1>6, <1>7, <1>8, <1>9, <1>10, <1>11 DEF Serve

\* Whatever runs between the statements of a restart or a stop, its answer was true at
\* some instant between its arrival and its answer.
THEOREM AnswersAreTrue == HSpec => AnswersWitnessed
<1>1. HInit => HInv
  BY WitnessInit
<1>2. HInv /\ [HNext]_hvars => HInv'
  BY WitnessInvStep
<1>3. HInv /\ [HNext]_hvars =>
        [\A r \in Requests : IsAnswered(r) /\ NamesSandbox(r) =>
           LET q == request[r] IN
           TrueOf(request'[r].answer, witness'[r],
                  /\ q.op = "restart"
                  /\ state[q.target] # "unborn"
                  /\ row[q.target].project # q.project)]_hvars
  BY StatementAnswers, AnswerTrue DEF HNext
<1> QED
  BY <1>1, <1>2, <1>3, PTL DEF HSpec, AnswersWitnessed

=============================================================================
