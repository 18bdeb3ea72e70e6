------------------------------ MODULE Resolver ------------------------------
(***************************************************************************)
(* What JWT authentication may rely on when it asks CachedUserResolver for *)
(* the user of a token's subject: it gets a user that the subject has, or  *)
(* has had.  How long it may still get one that is gone is not said here   *)
(* (UserCache, StalenessBounded).                                          *)
(***************************************************************************)
CONSTANTS
  Subjects,   \* token subjects, the emails of users
  UserIds,    \* users.id, never used twice
  Null        \* no user

VARIABLES
  users,      \* per subject, the id of its row in users
  former,     \* the pairs of a subject and an id that was its own and is gone
  cached      \* per subject, the id that is answered without asking the database

Init ==
  /\ users \in [Subjects -> UserIds \cup {Null}]
  /\ \A s, t \in Subjects : users[s] = users[t] => s = t \/ users[s] = Null
  /\ former = {}
  /\ cached = [s \in Subjects |-> Null]

\* id is the subject's, or was.
HadBy(s, id) == users[s] = id \/ <<s, id>> \in former

\* Whom a request with a token of this subject acts as, Null if nobody.
Resolved(s) == IF cached[s] # Null THEN cached[s] ELSE users[s]

\* Ids that no row has or has had.
FreshIds == {id \in UserIds : \A s \in Subjects : ~HadBy(s, id)}

SignUp(s) ==
  /\ users[s] = Null
  /\ \E id \in FreshIds : users' = [users EXCEPT ![s] = id]
  /\ UNCHANGED <<former, cached>>

\* Nobody tells the cache.
DeleteUser(s) ==
  /\ users[s] # Null
  /\ former' = former \cup {<<s, users[s]>>}
  /\ users' = [users EXCEPT ![s] = Null]
  /\ UNCHANGED cached

\* A lookup stores the row it has read, which may be gone by now, and evicts others.
Store(s, id, evicted) ==
  /\ HadBy(s, id)
  /\ cached' = [t \in Subjects |-> IF t = s THEN id
                                   ELSE IF t \in evicted THEN Null ELSE cached[t]]
  /\ UNCHANGED <<users, former>>

\* Entries expire, or the instance restarts.
Forget(gone) ==
  /\ cached' = [t \in Subjects |-> IF t \in gone THEN Null ELSE cached[t]]
  /\ UNCHANGED <<users, former>>

Next ==
  \/ \E s \in Subjects : SignUp(s) \/ DeleteUser(s)
  \/ \E gone \in SUBSET Subjects :
       Forget(gone) \/ \E s \in Subjects, id \in UserIds : Store(s, id, gone)

Spec == Init /\ [][Next]_<<users, former, cached>>

=============================================================================
