---------------------------- MODULE AccessList ----------------------------
(***************************************************************************)
(* What the project service promises of the tables it shares: however its  *)
(* requests, their transactions and the operator's SQL interleave, fail    *)
(* and die, a reader sees projects appear together with their owner's      *)
(* membership, members join and rows go, each in one step that was         *)
(* allowed at the moment it took effect (service/project.go).              *)
(***************************************************************************)

CONSTANTS
  Emails,       \* users.email
  Users,        \* users.id
  Projects,     \* projects.id
  Names,        \* project names
  Lower,        \* LOWER(name)
  OperatorSQL,  \* whether the operator deletes rows by hand
  Null          \* no value

VARIABLES account, bornUsers, status, row, members

lvars == <<account, bornUsers, status, row, members>>

Init ==
  /\ account = [e \in Emails |-> Null]
  /\ bornUsers = {}
  /\ status = [p \in Projects |-> "unborn"]
  /\ row = [p \in Projects |-> Null]
  /\ members = {}

Registered(u) == \E e \in Emails : account[e] = u

OwnerOf(p, u) == status[p] = "live" /\ row[p].owner = u

\* A project with its name, its owner and the owner's membership.
Create(u, n) ==
  /\ Registered(u)
  /\ \A p \in Projects : OwnerOf(p, u) => Lower[row[p].name] # Lower[n]
  /\ \E p \in Projects :
       /\ status[p] = "unborn"
       /\ status' = [status EXCEPT ![p] = "live"]
       /\ row' = [row EXCEPT ![p] = [owner |-> u, name |-> n]]
       /\ members' = members \cup {<<p, u>>}
  /\ UNCHANGED <<account, bornUsers>>

\* The owner of a project adds a user to it.
Invite(owner, p, u) ==
  /\ OwnerOf(p, owner)
  /\ Registered(u)
  /\ members' = members \cup {<<p, u>>}
  /\ UNCHANGED <<account, bornUsers, status, row>>

SignUp(e) ==
  /\ account[e] = Null
  /\ \E u \in Users \ bornUsers :
       account' = [account EXCEPT ![e] = u] /\ bornUsers' = bornUsers \cup {u}
  /\ UNCHANGED <<status, row, members>>

\* A member who is not the owner leaves it.
Revoke(p, u) ==
  /\ OperatorSQL
  /\ <<p, u>> \in members /\ ~OwnerOf(p, u)
  /\ members' = members \ {<<p, u>>}
  /\ UNCHANGED <<account, bornUsers, status, row>>

\* A user who owns nothing goes, and every membership with them.
RemoveUser(e) ==
  /\ OperatorSQL
  /\ account[e] # Null
  /\ \A p \in Projects : ~OwnerOf(p, account[e])
  /\ account' = [account EXCEPT ![e] = Null]
  /\ members' = {m \in members : m[2] # account[e]}
  /\ UNCHANGED <<bornUsers, status, row>>

\* A project goes, and every membership with it.
RemoveProject(p) ==
  /\ OperatorSQL
  /\ status[p] = "live"
  /\ status' = [status EXCEPT ![p] = "deleted"]
  /\ members' = {m \in members : m[1] # p}
  /\ UNCHANGED <<account, bornUsers, row>>

Next ==
  \/ \E u \in Users, n \in Names : Create(u, n)
  \/ \E owner, u \in Users, p \in Projects : Invite(owner, p, u)
  \/ \E e \in Emails : SignUp(e) \/ RemoveUser(e)
  \/ \E p \in Projects : RemoveProject(p) \/ \E u \in Users : Revoke(p, u)

Spec == Init /\ [][Next]_lvars

=============================================================================
