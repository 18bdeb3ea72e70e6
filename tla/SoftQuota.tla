---------------------------- MODULE SoftQuota ----------------------------
(***************************************************************************)
(* What a "count, then create" quota promises.  Enforcement in this        *)
(* service never takes a lock: a request counts what the user has, is      *)
(* granted when the count is below the plan's cap, and writes later, in a  *)
(* statement of its own.  The same discipline guards owned projects and    *)
(* running sandboxes (service/project.go, service/sandbox.go); this is the *)
(* specification both are shown to implement.                              *)
(***************************************************************************)
EXTENDS Naturals, FiniteSets, FiniteSetTheorems, TLAPS

CONSTANTS Users,      \* accounts; each has exactly one plan
          Requests,   \* requests the process may have in flight at once
          Cap         \* the plan cap of each user, 0 meaning unlimited

\* What the specifications that implement this one assume of the constants.
QuotaConstants ==
  /\ Cap \in [Users -> Nat]
  /\ IsFiniteSet(Requests) /\ Requests # {}

VARIABLES used,       \* what each user has now
          granted     \* requests that passed the check and have not written

qvars == <<used, granted>>

TypeOK ==
  /\ used \in [Users -> Nat]
  /\ granted \in [Users -> SUBSET Requests]

Init ==
  /\ used = [u \in Users |-> 0]
  /\ granted = [u \in Users |-> {}]

Unlimited(u) == Cap[u] = 0

\* The check: a user below the cap, or on an unlimited plan, may grow.
Grant(u, r) ==
  /\ Unlimited(u) \/ used[u] < Cap[u]
  /\ granted' = [granted EXCEPT ![u] = @ \cup {r}]
  /\ UNCHANGED used

\* The write of a request that was granted earlier.
Land(u, r) ==
  /\ r \in granted[u]
  /\ used' = [used EXCEPT ![u] = @ + 1]
  /\ granted' = [granted EXCEPT ![u] = @ \ {r}]

\* Things are stopped or deleted, and granted requests fail or are cut off.
Shrink ==
  /\ used' \in [Users -> Nat]
  /\ granted' \in [Users -> SUBSET Requests]
  /\ \A u \in Users : used'[u] <= used[u] /\ granted'[u] \subseteq granted[u]

Next ==
  \/ Shrink
  \/ \E u \in Users, r \in Requests : Grant(u, r) \/ Land(u, r)

Spec == Init /\ [][Next]_qvars

-----------------------------------------------------------------------------
\* A limited user is over the cap by less than the number of requests that
\* can be in flight at once, counting the granted ones as if they had already
\* written ("may overshoot by a few", service/project.go planUsage).
OvershootBounded ==
  \A u \in Users : ~Unlimited(u) =>
    used[u] + Cardinality(granted[u]) <= Cap[u] - 1 + Cardinality(Requests)

-----------------------------------------------------------------------------
(* For every set of users, plan caps and number of requests in flight. *)

\* Typing is inductive: every step leaves naturals and sets of requests.
LEMMA TypeStep == TypeOK /\ [Next]_qvars => TypeOK'
  BY DEF TypeOK, Next, Grant, Land, Shrink, qvars

\* The granted sets are finite, and hold at most all the requests.
LEMMA GrantedFinite ==
  ASSUME QuotaConstants, TypeOK, NEW u \in Users
  PROVE  /\ IsFiniteSet(granted[u])
         /\ Cardinality(granted[u]) \in Nat
         /\ Cardinality(granted[u]) <= Cardinality(Requests)
         /\ Cardinality(Requests) \in Nat
  BY FS_Subset, FS_CardinalityType DEF QuotaConstants, TypeOK

\* A request that is granted twice is counted once; one that lands moves from
\* the granted to the used; everything else only shrinks.  The bound survives
\* a grant because the user was below the cap at that moment, so however many
\* grants are outstanding the sum is at most Cap - 1 plus all the requests.
LEMMA BoundStep ==
  ASSUME QuotaConstants, TypeOK, OvershootBounded, [Next]_qvars
  PROVE  OvershootBounded'
<1> SUFFICES ASSUME NEW v \in Users, ~Unlimited(v)
             PROVE  used'[v] + Cardinality(granted'[v])
                      <= Cap[v] - 1 + Cardinality(Requests)
  BY DEF OvershootBounded, Unlimited
<1>1. TypeOK'
  BY TypeStep
<1>2. /\ used[v] \in Nat /\ used'[v] \in Nat /\ Cap[v] \in Nat
      /\ Cardinality(granted[v]) \in Nat /\ Cardinality(granted'[v]) \in Nat
      /\ Cardinality(Requests) \in Nat
      /\ IsFiniteSet(granted[v])
  <2>1. Cardinality(granted'[v]) \in Nat
    BY <1>1, FS_Subset, FS_CardinalityType DEF QuotaConstants, TypeOK
  <2> QED
    BY <1>1, <2>1, GrantedFinite DEF QuotaConstants, TypeOK
<1>3. used[v] + Cardinality(granted[v]) <= Cap[v] - 1 + Cardinality(Requests)
  BY DEF OvershootBounded
<1>4. ASSUME NEW u \in Users, NEW r \in Requests, Grant(u, r)
      PROVE  used'[v] + Cardinality(granted'[v]) <= Cap[v] - 1 + Cardinality(Requests)
  <2>1. CASE u = v
    <3>1. used'[v] = used[v] /\ used[v] < Cap[v]
      BY <1>4, <2>1 DEF Grant, Unlimited
    <3>2. Cardinality(granted'[v]) <= Cardinality(Requests)
      BY <1>1, FS_Subset DEF QuotaConstants, TypeOK
    <3> QED
      BY <1>2, <3>1, <3>2
  <2>2. CASE u # v
    <3>1. used'[v] = used[v] /\ granted'[v] = granted[v]
      BY <1>4, <2>2 DEF Grant, TypeOK
    <3> QED
      BY <1>3, <3>1
  <2> QED
    BY <2>1, <2>2
<1>5. ASSUME NEW u \in Users, NEW r \in Requests, Land(u, r)
      PROVE  used'[v] + Cardinality(granted'[v]) <= Cap[v] - 1 + Cardinality(Requests)
  <2>1. CASE u = v
    <3>1. used'[v] = used[v] + 1 /\ granted'[v] = granted[v] \ {r} /\ r \in granted[v]
      BY <1>5, <2>1 DEF Land, TypeOK
    <3>2. Cardinality(granted'[v]) = Cardinality(granted[v]) - 1
      BY <1>2, <3>1, FS_RemoveElement
    <3> QED
      BY <1>2, <1>3, <3>1, <3>2
  <2>2. CASE u # v
    <3>1. used'[v] = used[v] /\ granted'[v] = granted[v]
      BY <1>5, <2>2 DEF Land, TypeOK
    <3> QED
      BY <1>3, <3>1
  <2> QED
    BY <2>1, <2>2
<1>6. ASSUME Shrink
      PROVE  used'[v] + Cardinality(granted'[v]) <= Cap[v] - 1 + Cardinality(Requests)
  <2>1. used'[v] <= used[v] /\ granted'[v] \subseteq granted[v]
    BY <1>6 DEF Shrink
  <2>2. Cardinality(granted'[v]) <= Cardinality(granted[v])
    BY <1>2, <2>1, FS_Subset
  <2> QED
    BY <1>2, <1>3, <2>1, <2>2
<1>7. CASE UNCHANGED qvars
  BY <1>3, <1>7 DEF qvars
<1> QED
  BY <1>4, <1>5, <1>6, <1>7 DEF Next

-----------------------------------------------------------------------------
\* Initially nobody has anything; a limited plan has a cap of at least one.
LEMMA BoundInit ==
  ASSUME QuotaConstants, Init
  PROVE  TypeOK /\ OvershootBounded
<1>1. Cardinality({}) = 0 /\ Cardinality(Requests) \in Nat
  BY FS_EmptySet, FS_CardinalityType DEF QuotaConstants
<1>2. \A u \in Users : ~Unlimited(u) => Cap[u] - 1 >= 0
  BY DEF QuotaConstants, Unlimited
<1>3. TypeOK
  BY DEF Init, TypeOK
<1> QED
  BY <1>1, <1>2, <1>3 DEF QuotaConstants, Init, OvershootBounded

\* The counters of a soft quota are naturals and its grants are requests.
THEOREM QuotaTyped == Spec => []TypeOK
<1>1. Init => TypeOK
  BY DEF Init, TypeOK
<1> QED
  BY <1>1, TypeStep, PTL DEF Spec

\* A limited user is never over the cap by as much as the number of requests
\* that may be in flight, for all users, plans and numbers of requests.
THEOREM QuotaOvershootBounded ==
  ASSUME QuotaConstants
  PROVE  Spec => []OvershootBounded
<1> DEFINE Inv == TypeOK /\ OvershootBounded
<1>1. Init => Inv
  BY BoundInit
<1>2. Inv /\ [Next]_qvars => Inv'
  BY TypeStep, BoundStep
<1>3. Inv => OvershootBounded
  OBVIOUS
<1> QED
  BY <1>1, <1>2, <1>3, PTL DEF Spec

=============================================================================
