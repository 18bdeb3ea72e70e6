------------------------- MODULE RateLimiterProofs -------------------------
(***************************************************************************)
(* What the limiter promises within a minute, to a throttled client and    *)
(* about the keys it leaves behind, for every number of subjects and       *)
(* requests, every limit, resolution of the clock and length of the run.   *)
(***************************************************************************)
EXTENDS RateLimiter, FiniteSetTheorems, TLAPS

\* A request in progress names a key of a minute that has begun.
Known(q) ==
  q.pc # "idle" => q.key \in Keys /\ q.answer = "none" /\ q.key[2] * Minute <= now

RequestsKnown == \A r \in Requests : Known(request[r])

\* No key expires within its minute, or more than a minute after now.
ExpiryLate ==
  \A k \in Keys : expiry[k] # Never =>
    (k[2] + 1) * Minute <= expiry[k] /\ now < expiry[k] /\ expiry[k] <= now + Minute

\* A hit made in the minute of its key that is going to be let through.
Promised(q, k) ==
  q.pc \in {"expire", "decide"} /\ q.key = k /\ q.punctual /\ q.count <= Limit

Pending(k) == {r \in Requests : Promised(request[r], k)}

\* Those let through and those that are going to be number at most the limit, and
\* within the minute at most the counter, which has not restarted.
WithinBudget(k) ==
  /\ admitted[k] + Cardinality(Pending(k)) <= Limit
  /\ now < (k[2] + 1) * Minute => admitted[k] + Cardinality(Pending(k)) <= counter[k]

IInv ==
  /\ TypeOK /\ RequestsKnown /\ ExpiryLate
  /\ \A k \in Keys : WithinBudget(k)
  /\ LeakedOnlyByFault

USE DEF At

-----------------------------------------------------------------------------
(* Arithmetic of the clock. *)

\* A minute is at least one tick.
LEMMA MinuteType == Minute \in Nat /\ Minute > 0
<1>1. \A a, b \in Nat \ {0} : a * b \in Nat /\ a * b > 0
  OBVIOUS
<1> QED
  BY <1>1, ClockAssumption DEF Minute

\* Division rounds down.
LEMMA Division ==
  ASSUME NEW a \in Int, NEW b \in Nat, b > 0
  PROVE  /\ a \div b \in Int
         /\ (a \div b) * b <= a
         /\ a < (a \div b) * b + b
  OBVIOUS

\* Products compare like their factors.
LEMMA Monotone ==
  ASSUME NEW a \in Int, NEW b \in Int, NEW m \in Nat, a <= b
  PROVE  a * m <= b * m
  OBVIOUS

\* One more factor is one more term.
LEMMA Successor ==
  ASSUME NEW a \in Int, NEW m \in Int
  PROVE  (a + 1) * m = a * m + m
  OBVIOUS

\* The minute of an instant of the run is one of its windows.
LEMMA WindowOf ==
  ASSUME NEW t \in 0..MaxTime
  PROVE  /\ t \div Minute \in Windows
         /\ (t \div Minute) * Minute <= t
         /\ t < ((t \div Minute) + 1) * Minute
<1> DEFINE w == t \div Minute
           e == MaxTime \div Minute
<1>1. /\ w \in Int /\ w * Minute <= t /\ t < w * Minute + Minute
      /\ e \in Int /\ e * Minute <= MaxTime /\ MaxTime < e * Minute + Minute
  BY MinuteType, ClockAssumption, Division
<1> HIDE DEF w, e
<1>2. 0 <= w
  <2> SUFFICES ASSUME w + 1 <= 0 PROVE FALSE
    BY <1>1
  <2>1. (w + 1) * Minute <= 0 * Minute
    BY <1>1, MinuteType, Monotone
  <2> QED
    BY <2>1, <1>1, MinuteType, Successor
<1>3. w <= e
  <2> SUFFICES ASSUME e + 1 <= w PROVE FALSE
    BY <1>1
  <2>1. (e + 1) * Minute <= w * Minute
    BY <1>1, MinuteType, Monotone
  <2> QED
    BY <2>1, <1>1, MinuteType, Successor, ClockAssumption
<1>4. t < (w + 1) * Minute
  BY <1>1, MinuteType, Successor
<1> QED
  BY <1>1, <1>2, <1>3, <1>4 DEF Windows, w, e

\* The minute of a key is a number, and the next one begins where it ends.
LEMMA KeyType ==
  ASSUME NEW k \in Keys
  PROVE  k[2] \in Nat /\ k[2] * Minute \in Nat /\ (k[2] + 1) * Minute \in Nat
                      /\ (k[2] + 1) * Minute = k[2] * Minute + Minute
<1>1. k[2] \in Nat
  BY DEF Keys, Windows
<1> QED
  BY <1>1, MinuteType, Successor

-----------------------------------------------------------------------------
(* Steps of one request. *)

\* A slot without a request, and one whose request was answered.
LEMMA IdleType ==
  /\ IdleRequest \in RequestType /\ IdleRequest.pc = "idle" /\ IdleRequest.answer = "none"
  /\ \A a \in {"next", "unavailable", "limited"} :
       /\ [IdleRequest EXCEPT !.answer = a] \in RequestType
       /\ [IdleRequest EXCEPT !.answer = a].pc = "idle"
<1>1. 0 \in 0..MaxRetries
  BY RetriesAssumption
<1>2. IdleRequest \in RequestType
  BY <1>1, Zenon DEF IdleRequest, RequestType
<1>3. IdleRequest.pc = "idle" /\ IdleRequest.answer = "none"
  BY DEF IdleRequest
<1> QED
  BY <1>2, <1>3 DEF RequestType

\* The request of r becomes q, of the right shape.
Moves(r, q) ==
  /\ request' = [request EXCEPT ![r] = q]
  /\ q \in RequestType /\ Known(q)

\* Nothing new is promised to r.
NoPromise(r, q) == \A k \in Keys : Promised(q, k) => Promised(request[r], k)

\* Requests are finite, and so are those with a promise.
LEMMA PendingFinite ==
  ASSUME NEW k
  PROVE  /\ IsFiniteSet(Pending(k)) /\ Cardinality(Pending(k)) \in Nat
<1>1. Pending(k) \subseteq Requests
  BY DEF Pending
<1> QED
  BY <1>1, RequestsAssumption, FS_Subset, FS_CardinalityType

\* Fewer promises are fewer.
LEMMA PendingShrinks ==
  ASSUME NEW k, Pending(k)' \subseteq Pending(k)
  PROVE  /\ Cardinality(Pending(k)') \in Nat
         /\ Cardinality(Pending(k)') <= Cardinality(Pending(k))
  BY PendingFinite, FS_Subset, FS_CardinalityType

\* The other requests stay where they are.
LEMMA MovesFacts ==
  ASSUME IInv, NEW r \in Requests, NEW q, Moves(r, q)
  PROVE  /\ request' \in [Requests -> RequestType]
         /\ request'[r] = q
         /\ \A x \in Requests \ {r} : request'[x] = request[x]
  BY DEF Moves, IInv, TypeOK

\* A step of one request at a standing clock keeps the requests known.
LEMMA KnownStep ==
  ASSUME IInv, NEW r \in Requests, NEW q, Moves(r, q), now' = now
  PROVE  RequestsKnown'
  BY MovesFacts DEF RequestsKnown, Known, Moves, IInv

\* A step that promises nothing and lowers no counter keeps every budget.
LEMMA BudgetStep ==
  ASSUME IInv, NEW r \in Requests, NEW q, Moves(r, q), NoPromise(r, q),
         now' = now, admitted' = admitted,
         \A k \in Keys : counter'[k] \in Nat /\ counter[k] <= counter'[k]
  PROVE  \A k \in Keys : WithinBudget(k)'
<1> SUFFICES ASSUME NEW k \in Keys PROVE WithinBudget(k)'
  OBVIOUS
<1>1. Pending(k)' \subseteq Pending(k)
  BY MovesFacts DEF Pending, NoPromise
<1>2. /\ Cardinality(Pending(k)') \in Nat /\ Cardinality(Pending(k)) \in Nat
      /\ Cardinality(Pending(k)') <= Cardinality(Pending(k))
  BY <1>1, PendingShrinks, PendingFinite
<1>3. WithinBudget(k) /\ admitted[k] \in Nat /\ counter[k] \in Nat
  BY DEF IInv, TypeOK
<1> QED
  BY <1>2, <1>3, LimitAssumption DEF WithinBudget

\* A step that leaves the keys alone and does not move a request away from its
\* EXPIRE, unless the key is marked, keeps the leaks explained.
LEMMA LeakStep ==
  ASSUME IInv, NEW r \in Requests, NEW q, Moves(r, q),
         counter' = counter, expiry' = expiry, faults \subseteq faults',
         At(r, "expire") => (q.pc = "expire" /\ q.key = request[r].key)
                              \/ request[r].key \in faults'
  PROVE  LeakedOnlyByFault'
<1> SUFFICES ASSUME NEW k \in Keys, counter[k] > 0, expiry[k] = Never, k \notin faults'
             PROVE  \E x \in Requests : request'[x].pc = "expire" /\ request'[x].key = k
  BY DEF LeakedOnlyByFault
<1>1. PICK x \in Requests : At(x, "expire") /\ request[x].key = k
  BY DEF IInv, LeakedOnlyByFault
<1> QED
  BY <1>1, MovesFacts

-----------------------------------------------------------------------------
(* The actions. *)

\* A request arrives with a key of the current minute.
LEMMA ArriveStep ==
  ASSUME IInv, NEW r \in Requests, NEW s \in Subjects, Arrive(r, s)
  PROVE  IInv'
<1>1. PICK k : k = KeyOf(s)
  OBVIOUS
<1>2. k \in Keys /\ k[2] * Minute <= now
  BY <1>1, WindowOf DEF KeyOf, Keys, IInv, TypeOK
<1> DEFINE q == [IdleRequest EXCEPT !.pc = "incr", !.key = k]
<1>3. /\ q \in RequestType /\ q.pc = "incr" /\ q.key = k /\ q.answer = "none"
      /\ request' = [request EXCEPT ![r] = q]
  BY <1>1, <1>2, IdleType DEF Arrive, IdleRequest, RequestType
<1> HIDE DEF q
<1>4. Moves(r, q) /\ NoPromise(r, q)
  BY <1>2, <1>3 DEF Moves, Known, NoPromise, Promised
<1>5. UNCHANGED <<now, counter, expiry, admitted, faults>> /\ request[r].pc = "idle"
  BY DEF Arrive
<1>6. TypeOK' /\ ExpiryLate'
  BY <1>4, <1>5, MovesFacts DEF IInv, TypeOK, ExpiryLate
<1>7. \A k1 \in Keys : counter'[k1] \in Nat /\ counter[k1] <= counter'[k1]
  BY <1>5 DEF IInv, TypeOK
<1> QED
  BY <1>4, <1>5, <1>6, <1>7, KnownStep, BudgetStep, LeakStep DEF IInv

\* An answered request asks for nothing and promises nothing.
LEMMA AnswerMoves ==
  ASSUME NEW r \in Requests, NEW a \in {"next", "unavailable", "limited"}, Answer(r, a)
  PROVE  \E q : Moves(r, q) /\ q.pc = "idle"
<1> DEFINE q == [IdleRequest EXCEPT !.answer = a]
<1>1. q \in RequestType /\ q.pc = "idle" /\ request' = [request EXCEPT ![r] = q]
  BY IdleType, RetriesAssumption DEF Answer
<1> HIDE DEF q
<1> QED
  BY <1>1 DEF Moves, Known

\* A hit is promised only below the limit, and in its minute it is counted first.
LEMMA IncrStep ==
  ASSUME IInv, NEW r \in Requests, Incr(r)
  PROVE  IInv'
<1>1. PICK k, n : k = request[r].key /\ n = counter[k] + 1
  OBVIOUS
<1>2. /\ request[r].pc = "incr" /\ request[r] \in RequestType /\ Known(request[r])
      /\ UNCHANGED <<now, expiry, admitted, faults>>
      /\ counter' = [counter EXCEPT ![k] = n]
  BY <1>1 DEF Incr, IInv, TypeOK, RequestsKnown
<1>3. k \in Keys /\ counter[k] \in Nat /\ n \in Nat /\ n > 0 /\ now \in 0..MaxTime
  BY <1>1, <1>2 DEF Known, IInv, TypeOK
<1> DEFINE q == [request[r] EXCEPT !.pc = IF n = 1 THEN "expire" ELSE "decide",
                                   !.count = n,
                                   !.punctual = (now \div Minute = k[2])]
<1>4. request' = [request EXCEPT ![r] = q]
  BY <1>1, <1>2 DEF Incr, IInv, TypeOK
<1>5. /\ q \in RequestType /\ q.key = k /\ q.count = n /\ q.answer = request[r].answer
      /\ q.pc = (IF n = 1 THEN "expire" ELSE "decide")
  BY <1>1, <1>2, <1>3 DEF RequestType
<1>6. q.punctual => now < (k[2] + 1) * Minute
  BY <1>2, <1>3, WindowOf DEF RequestType
<1> HIDE DEF q
<1>7. Moves(r, q)
  BY <1>1, <1>2, <1>4, <1>5 DEF Moves, Known
<1>8. /\ request' \in [Requests -> RequestType] /\ request'[r] = q
      /\ \A x \in Requests \ {r} : request'[x] = request[x]
  BY <1>7, MovesFacts
<1>9. TypeOK' /\ ExpiryLate'
  BY <1>2, <1>3, <1>8 DEF IInv, TypeOK, ExpiryLate
<1>10. ASSUME NEW j \in Keys PROVE WithinBudget(j)'
  <2>1. /\ WithinBudget(j) /\ admitted[j] \in Nat /\ counter[j] \in Nat
        /\ admitted'[j] = admitted[j] /\ now' = now
        /\ IsFiniteSet(Pending(j)) /\ Cardinality(Pending(j)) \in Nat
    BY <1>2, PendingFinite DEF IInv, TypeOK
  <2>2. CASE Promised(q, j)
    <3>1. j = k /\ q.punctual /\ n <= Limit
      BY <1>5, <2>2 DEF Promised
    <3>2. Pending(j)' = Pending(j) \cup {r} /\ r \notin Pending(j)
      BY <1>2, <1>8, <2>2 DEF Pending, Promised
    <3>3. Cardinality(Pending(j)') = Cardinality(Pending(j)) + 1
      BY <2>1, <3>2, FS_AddElement
    <3>4. admitted[j] + Cardinality(Pending(j)) <= counter[j]
      BY <1>6, <2>1, <3>1 DEF WithinBudget
    <3>5. counter'[j] = n /\ n = counter[j] + 1
      BY <1>1, <1>2, <1>3, <3>1 DEF IInv, TypeOK
    <3> QED
      BY <2>1, <3>1, <3>3, <3>4, <3>5, LimitAssumption DEF WithinBudget
  <2>3. CASE ~Promised(q, j)
    <3>1. Pending(j)' \subseteq Pending(j)
      BY <1>8, <2>3 DEF Pending
    <3>2. /\ Cardinality(Pending(j)') \in Nat
          /\ Cardinality(Pending(j)') <= Cardinality(Pending(j))
      BY <3>1, PendingShrinks
    <3>3. counter'[j] \in Nat /\ counter[j] <= counter'[j]
      BY <1>1, <1>2, <1>3, <2>1 DEF IInv, TypeOK
    <3> QED
      BY <2>1, <3>2, <3>3, LimitAssumption DEF WithinBudget
  <2> QED
    BY <2>2, <2>3
<1>11. LeakedOnlyByFault'
  <2> SUFFICES ASSUME NEW j \in Keys, counter'[j] > 0, expiry[j] = Never, j \notin faults
               PROVE  \E x \in Requests : request'[x].pc = "expire" /\ request'[x].key = j
    BY <1>2 DEF LeakedOnlyByFault
  <2>1. CASE j = k /\ n = 1
    BY <1>5, <1>8, <2>1
  <2>2. CASE ~(j = k /\ n = 1)
    <3>1. counter[j] > 0
      BY <1>1, <1>2, <1>3, <2>2 DEF IInv, TypeOK
    <3>2. PICK x \in Requests : At(x, "expire") /\ request[x].key = j
      BY <3>1 DEF IInv, LeakedOnlyByFault
    <3> QED
      BY <1>2, <1>8, <3>2
  <2> QED
    BY <2>1, <2>2
<1> QED
  BY <1>2, <1>7, <1>9, <1>10, <1>11, KnownStep DEF IInv

\* A command without a reply: the counter may have gone up, the key is marked.
LEMMA IncrFailsStep ==
  ASSUME IInv, NEW r \in Requests, IncrFails(r)
  PROVE  IInv'
<1>1. PICK k : k = request[r].key
  OBVIOUS
<1>2. /\ request[r].pc = "incr" /\ request[r] \in RequestType /\ Known(request[r])
      /\ UNCHANGED <<now, expiry, admitted>>
      /\ counter' = counter \/ counter' = [counter EXCEPT ![k] = @ + 1]
      /\ faults' = faults \cup {k}
  BY <1>1 DEF IncrFails, IInv, TypeOK, RequestsKnown
<1>3. k \in Keys /\ counter[k] \in Nat
  BY <1>1, <1>2 DEF Known, IInv, TypeOK
<1>4. \E q : Moves(r, q) /\ q.pc \in {"idle", "incr"}
  <2>1. CASE /\ request[r].tries < MaxRetries
             /\ request' = [request EXCEPT ![r].tries = @ + 1]
    <3> DEFINE q == [request[r] EXCEPT !.tries = @ + 1]
    <3>1. /\ q \in RequestType /\ q.pc = "incr" /\ q.key = request[r].key
          /\ q.answer = request[r].answer
      BY <1>2, <2>1, RetriesAssumption DEF RequestType
    <3>2. request' = [request EXCEPT ![r] = q]
      BY <2>1 DEF IInv, TypeOK
    <3> HIDE DEF q
    <3> QED
      BY <1>2, <3>1, <3>2 DEF Moves, Known
  <2>2. ASSUME NEW a \in {"next", "unavailable", "limited"}, Answer(r, a)
        PROVE  \E q : Moves(r, q) /\ q.pc \in {"idle", "incr"}
    BY <2>2, AnswerMoves
  <2> QED
    BY <2>1, <2>2 DEF IncrFails
<1>5. PICK q : Moves(r, q) /\ q.pc \in {"idle", "incr"}
  BY <1>4
<1>6. /\ request' \in [Requests -> RequestType] /\ request'[r] = q
      /\ \A x \in Requests \ {r} : request'[x] = request[x]
  BY <1>5, MovesFacts
<1>7. \A j \in Keys : counter'[j] \in Nat /\ counter[j] <= counter'[j]
  BY <1>2, <1>3 DEF IInv, TypeOK
<1>8. TypeOK' /\ ExpiryLate'
  BY <1>2, <1>3, <1>6 DEF IInv, TypeOK, ExpiryLate
<1>9. NoPromise(r, q)
  BY <1>5 DEF NoPromise, Promised
<1>10. LeakedOnlyByFault'
  <2> SUFFICES ASSUME NEW j \in Keys, counter'[j] > 0, expiry[j] = Never, j \notin faults'
               PROVE  \E x \in Requests : request'[x].pc = "expire" /\ request'[x].key = j
    BY <1>2 DEF LeakedOnlyByFault
  <2>1. j # k /\ counter[j] > 0 /\ j \notin faults
    BY <1>2, <1>3 DEF IInv, TypeOK
  <2>2. PICK x \in Requests : At(x, "expire") /\ request[x].key = j
    BY <2>1 DEF IInv, LeakedOnlyByFault
  <2> QED
    BY <1>2, <1>6, <2>2
<1> QED
  BY <1>2, <1>5, <1>7, <1>8, <1>9, <1>10, KnownStep, BudgetStep DEF IInv

\* A TTL set now ends after the minute of the key.
LEMMA ExpiryStep ==
  ASSUME IInv, NEW r \in Requests, request[r].pc = "expire", now' = now,
         SetExpiry(request[r].key) \/ UNCHANGED expiry
  PROVE  ExpiryLate' /\ expiry' \in [Keys -> {Never} \cup 0..(MaxTime + Minute)]
<1>1. PICK k : k = request[r].key
  OBVIOUS
<1>2. k \in Keys /\ k[2] * Minute <= now /\ now \in 0..MaxTime
  BY <1>1 DEF IInv, RequestsKnown, Known, TypeOK
<1>3. /\ (k[2] + 1) * Minute <= now + Minute /\ (k[2] + 1) * Minute \in Nat
      /\ now + Minute \in 0..(MaxTime + Minute) /\ now < now + Minute
  BY <1>2, KeyType, MinuteType, ClockAssumption
<1>4. PICK e \in {now + Minute, Never, expiry[k]} : expiry' = [expiry EXCEPT ![k] = e]
  BY <1>1, <1>2 DEF SetExpiry, IInv, TypeOK
<1>5. \A j \in Keys : expiry'[j] = expiry[j] \/ expiry'[j] = Never
                       \/ (j = k /\ expiry'[j] = now + Minute)
  BY <1>2, <1>4 DEF IInv, TypeOK
<1>6. ExpiryLate'
  BY <1>3, <1>5 DEF ExpiryLate, IInv
<1> QED
  BY <1>2, <1>3, <1>4, <1>6 DEF IInv, TypeOK

\* EXPIRE, answered or not, leaves the counters and what is promised alone.
LEMMA ExpireStep ==
  ASSUME IInv, NEW r \in Requests, Expire(r) \/ ExpireFails(r)
  PROVE  IInv'
<1>1. PICK k : k = request[r].key
  OBVIOUS
<1>2. /\ request[r].pc = "expire" /\ request[r] \in RequestType /\ Known(request[r])
      /\ UNCHANGED <<now, counter, admitted>>
      /\ SetExpiry(k) \/ UNCHANGED expiry
      /\ request' = request \/ GoTo(r, "decide")
      /\ \/ SetExpiry(k) /\ faults' = faults
         \/ faults' = faults \cup {k}
  BY <1>1 DEF Expire, ExpireFails, IInv, TypeOK, RequestsKnown
<1>3. k \in Keys
  BY <1>1, <1>2 DEF Known
<1>4. \E q : /\ Moves(r, q) /\ NoPromise(r, q)
  <2>1. CASE request' = request
    BY <1>2, <2>1 DEF Moves, NoPromise, IInv, TypeOK
  <2>2. CASE GoTo(r, "decide")
    <3> DEFINE q == [request[r] EXCEPT !.pc = "decide"]
    <3>1. /\ q \in RequestType /\ q.pc = "decide" /\ q.key = request[r].key
          /\ q.answer = request[r].answer /\ q.count = request[r].count
          /\ q.punctual = request[r].punctual
          /\ request' = [request EXCEPT ![r] = q]
      BY <1>2, <2>2 DEF GoTo, RequestType, IInv, TypeOK
    <3> HIDE DEF q
    <3> QED
      BY <1>2, <3>1 DEF Moves, Known, NoPromise, Promised
  <2> QED
    BY <1>2, <2>1, <2>2
<1>5. PICK q : Moves(r, q) /\ NoPromise(r, q)
  BY <1>4
<1>6. /\ request' \in [Requests -> RequestType]
      /\ \A x \in Requests \ {r} : request'[x] = request[x]
  BY <1>5, MovesFacts
<1>7. ExpiryLate' /\ expiry' \in [Keys -> {Never} \cup 0..(MaxTime + Minute)]
  BY <1>1, <1>2, ExpiryStep
<1>8. TypeOK'
  BY <1>2, <1>3, <1>6, <1>7 DEF IInv, TypeOK
<1>9. \A j \in Keys : counter'[j] \in Nat /\ counter[j] <= counter'[j]
  BY <1>2 DEF IInv, TypeOK
<1>10. LeakedOnlyByFault'
  <2> SUFFICES ASSUME NEW j \in Keys, counter[j] > 0, expiry'[j] = Never, j \notin faults'
               PROVE  \E x \in Requests : request'[x].pc = "expire" /\ request'[x].key = j
    BY <1>2 DEF LeakedOnlyByFault
  <2>1. now + Minute # Never
    BY MinuteType DEF Never, IInv, TypeOK
  <2>2. j # k
    BY <1>2, <1>3, <2>1 DEF SetExpiry, IInv, TypeOK
  <2>3. expiry[j] = Never /\ j \notin faults
    BY <1>2, <1>3, <2>2 DEF SetExpiry, IInv, TypeOK
  <2>4. PICK x \in Requests : At(x, "expire") /\ request[x].key = j
    BY <2>3 DEF IInv, LeakedOnlyByFault
  <2> QED
    BY <1>1, <1>6, <2>2, <2>4
<1> QED
  BY <1>2, <1>5, <1>7, <1>8, <1>9, <1>10, KnownStep, BudgetStep DEF IInv

\* A promise is kept, or a hit over the limit is turned away.
LEMMA DecideStep ==
  ASSUME IInv, NEW r \in Requests, Decide(r)
  PROVE  IInv'
<1>1. PICK k : k = request[r].key
  OBVIOUS
<1>2. /\ request[r].pc = "decide" /\ request[r] \in RequestType /\ Known(request[r])
      /\ UNCHANGED <<now, counter, expiry, faults>>
  BY DEF Decide, IInv, TypeOK, RequestsKnown
<1>3. k \in Keys
  BY <1>1, <1>2 DEF Known
<1>4. CASE admitted' = admitted
  <2>1. \E q : Moves(r, q) /\ NoPromise(r, q)
    <3>1. CASE GoTo(r, "ttl")
      <4> DEFINE q == [request[r] EXCEPT !.pc = "ttl"]
      <4>1. /\ q \in RequestType /\ q.pc = "ttl" /\ q.key = request[r].key
            /\ q.answer = request[r].answer
            /\ request' = [request EXCEPT ![r] = q]
        BY <1>2, <3>1 DEF GoTo, RequestType, IInv, TypeOK
      <4> HIDE DEF q
      <4> QED
        BY <1>2, <4>1 DEF Moves, Known, NoPromise, Promised
    <3>2. CASE Answer(r, "next")
      BY <3>2, AnswerMoves DEF NoPromise, Promised
    <3> QED
      BY <3>1, <3>2 DEF Decide
  <2>2. PICK q : Moves(r, q) /\ NoPromise(r, q)
    BY <2>1
  <2>3. TypeOK' /\ ExpiryLate'
    BY <1>2, <1>4, <2>2, MovesFacts DEF IInv, TypeOK, ExpiryLate
  <2>4. \A j \in Keys : counter'[j] \in Nat /\ counter[j] <= counter'[j]
    BY <1>2 DEF IInv, TypeOK
  <2> QED
    BY <1>2, <1>4, <2>2, <2>3, <2>4, KnownStep, BudgetStep, LeakStep DEF IInv
<1>5. CASE /\ request[r].count <= Limit /\ request[r].punctual
           /\ Answer(r, "next") /\ admitted' = [admitted EXCEPT ![k] = @ + 1]
  <2>1. PICK q : Moves(r, q) /\ q.pc = "idle"
    BY <1>5, AnswerMoves
  <2>2. /\ request' \in [Requests -> RequestType] /\ request'[r] = q
        /\ \A x \in Requests \ {r} : request'[x] = request[x]
    BY <2>1, MovesFacts
  <2>3. TypeOK' /\ ExpiryLate'
    BY <1>2, <1>3, <1>5, <2>2 DEF IInv, TypeOK, ExpiryLate
  <2>4. ASSUME NEW j \in Keys PROVE WithinBudget(j)'
    <3>1. /\ WithinBudget(j) /\ admitted[j] \in Nat /\ counter[j] \in Nat
          /\ counter'[j] = counter[j] /\ now' = now
          /\ IsFiniteSet(Pending(j)) /\ Cardinality(Pending(j)) \in Nat
      BY <1>2, PendingFinite DEF IInv, TypeOK
    <3>2. CASE j = k
      <4>1. r \in Pending(j) /\ Pending(j)' = Pending(j) \ {r}
        BY <1>1, <1>2, <1>5, <2>1, <2>2, <3>2 DEF Pending, Promised
      <4>2. Cardinality(Pending(j)') = Cardinality(Pending(j)) - 1
        BY <3>1, <4>1, FS_RemoveElement
      <4>3. admitted'[j] = admitted[j] + 1
        BY <1>3, <1>5, <3>2 DEF IInv, TypeOK
      <4> QED
        BY <3>1, <4>2, <4>3, LimitAssumption DEF WithinBudget
    <3>3. CASE j # k
      <4>1. Pending(j)' = Pending(j) /\ admitted'[j] = admitted[j]
        BY <1>1, <1>3, <1>5, <2>1, <2>2, <3>3 DEF Pending, Promised, IInv, TypeOK
      <4> QED
        BY <3>1, <4>1 DEF WithinBudget
    <3> QED
      BY <3>2, <3>3
  <2> QED
    BY <1>2, <2>1, <2>3, <2>4, KnownStep, LeakStep DEF IInv
<1> QED
  BY <1>1, <1>4, <1>5, <1>2, LimitAssumption DEF Decide, RequestType

\* The reply of TTL, in whole seconds.
LEMMA TTLReplyType ==
  ASSUME IInv, NEW k \in Keys
  PROVE  TTLReply(k) \in Int
<1>1. expiry[k] \in Int /\ now \in Int
  BY MinuteType, ClockAssumption DEF IInv, TypeOK, Never
<1>2. TicksPerSecond \div 2 \in Int
  BY ClockAssumption, Division
<1>3. (expiry[k] - now + TicksPerSecond \div 2) \div TicksPerSecond \in Int
  BY <1>1, <1>2, ClockAssumption, Division
<1> QED
  BY <1>3 DEF TTLReply

\* A rejected request promised nothing.
LEMMA RejectStep ==
  ASSUME IInv, NEW r \in Requests, Reject(r)
  PROVE  IInv'
<1>1. /\ request[r].pc = "ttl" /\ Known(request[r])
      /\ UNCHANGED <<now, counter, expiry, admitted, faults>>
  BY DEF Reject, IInv, RequestsKnown
<1>2. PICK ttl \in {TTLReply(request[r].key), 0} : request' = [request EXCEPT ![r] =
        [IdleRequest EXCEPT !.answer = "limited", !.retryAfter = RetryAfter(ttl)]]
  BY DEF Reject
<1>3. RetryAfter(ttl) \in Nat
  <2>1. ttl \in Int
    BY <1>1, TTLReplyType DEF Known
  <2> QED
    BY <2>1, ClockAssumption DEF RetryAfter
<1> DEFINE q == [IdleRequest EXCEPT !.answer = "limited", !.retryAfter = RetryAfter(ttl)]
<1>4. /\ q \in RequestType /\ q.pc = "idle" /\ request' = [request EXCEPT ![r] = q]
  BY <1>2, <1>3, IdleType DEF RequestType
<1> HIDE DEF q
<1>5. Moves(r, q) /\ NoPromise(r, q)
  BY <1>4 DEF Moves, Known, NoPromise, Promised
<1>6. TypeOK' /\ ExpiryLate'
  BY <1>1, <1>5, MovesFacts DEF IInv, TypeOK, ExpiryLate
<1>7. \A j \in Keys : counter'[j] \in Nat /\ counter[j] <= counter'[j]
  BY <1>1 DEF IInv, TypeOK
<1> QED
  BY <1>1, <1>5, <1>6, <1>7, KnownStep, BudgetStep, LeakStep DEF IInv

\* A key that expires does so after its minute.
LEMMA TickStep ==
  ASSUME IInv, Tick
  PROVE  IInv'
<1>1. /\ now' = now + 1 /\ now \in 0..MaxTime /\ now < MaxTime
      /\ UNCHANGED <<request, admitted, faults>>
  BY DEF Tick, IInv, TypeOK
<1>2. ASSUME NEW k \in Keys
      PROVE  /\ expiry'[k] \in {expiry[k], Never}
             /\ expiry'[k] # Never => expiry[k] > now + 1 /\ counter'[k] = counter[k]
             /\ counter'[k] \in {0, counter[k]}
             /\ counter'[k] # counter[k] => expiry[k] # Never /\ expiry[k] <= now + 1
             /\ expiry'[k] = Never /\ counter'[k] > 0 =>
                  expiry[k] = Never /\ counter'[k] = counter[k]
  BY <1>2, MinuteType, ClockAssumption DEF Tick, IInv, TypeOK, Never
<1>3. /\ counter' \in [Keys -> Nat]
      /\ expiry' \in [Keys -> {Never} \cup 0..(MaxTime + Minute)]
  BY DEF Tick, IInv, TypeOK
<1>4. TypeOK'
  BY <1>1, <1>3, ClockAssumption DEF IInv, TypeOK
<1>5. RequestsKnown'
  <2> SUFFICES ASSUME NEW r \in Requests, request[r].pc # "idle"
               PROVE  request[r].key[2] * Minute <= now + 1
    BY <1>1 DEF RequestsKnown, Known, IInv
  <2>1. request[r].key \in Keys /\ request[r].key[2] * Minute <= now
    BY DEF IInv, RequestsKnown, Known
  <2> QED
    BY <1>1, <2>1, KeyType
<1>6. ExpiryLate'
  <2> SUFFICES ASSUME NEW k \in Keys, expiry'[k] # Never
               PROVE  /\ (k[2] + 1) * Minute <= expiry'[k]
                      /\ now' < expiry'[k] /\ expiry'[k] <= now' + Minute
    BY DEF ExpiryLate
  <2>1. /\ expiry'[k] = expiry[k] /\ expiry[k] > now + 1
        /\ expiry[k] \in Nat
    BY <1>2, <1>3, MinuteType, ClockAssumption DEF IInv, TypeOK
  <2> QED
    BY <1>1, <2>1, KeyType, MinuteType DEF IInv, ExpiryLate
<1>7. ASSUME NEW k \in Keys PROVE WithinBudget(k)'
  <2>1. /\ WithinBudget(k) /\ Pending(k)' = Pending(k) /\ admitted'[k] = admitted[k]
    BY <1>1 DEF IInv, Pending
  <2>2. ASSUME now + 1 < (k[2] + 1) * Minute
        PROVE  counter'[k] = counter[k] /\ now < (k[2] + 1) * Minute
    <3>1. expiry[k] # Never => (k[2] + 1) * Minute <= expiry[k] /\ expiry[k] \in Nat
      BY MinuteType, ClockAssumption DEF IInv, ExpiryLate, TypeOK
    <3>2. (k[2] + 1) * Minute \in Nat
      BY KeyType
    <3> QED
      BY <1>1, <1>2, <2>2, <3>1, <3>2
  <2> QED
    BY <1>1, <2>1, <2>2 DEF WithinBudget
<1>8. LeakedOnlyByFault'
  BY <1>1, <1>2 DEF IInv, LeakedOnlyByFault
<1> QED
  BY <1>4, <1>5, <1>6, <1>7, <1>8 DEF IInv

\* The keys of the requests that die are marked.
LEMMA CrashStep ==
  ASSUME IInv, NEW dead \in SUBSET {r \in Requests : ~At(r, "idle")}, Crash(dead)
  PROVE  IInv'
<1>1. /\ UNCHANGED <<now, counter, expiry, admitted>>
      /\ faults' = faults \cup {request[r].key : r \in dead}
  BY DEF Crash
<1>2. /\ request' \in [Requests -> RequestType]
      /\ \A r \in Requests : \/ request'[r] = request[r] /\ r \notin dead
                             \/ request'[r] = IdleRequest /\ r \in dead
  BY IdleType DEF Crash, IInv, TypeOK
<1>3. faults' \subseteq Keys
  BY <1>1 DEF IInv, TypeOK, RequestsKnown, Known
<1>4. TypeOK' /\ ExpiryLate'
  BY <1>1, <1>2, <1>3 DEF IInv, TypeOK, ExpiryLate
<1>5. RequestsKnown'
  BY <1>1, <1>2, IdleType DEF RequestsKnown, Known, IInv
<1>6. ASSUME NEW k \in Keys PROVE WithinBudget(k)'
  <2>1. Pending(k)' \subseteq Pending(k)
    BY <1>2, IdleType DEF Pending, Promised
  <2>2. /\ Cardinality(Pending(k)') \in Nat /\ Cardinality(Pending(k)) \in Nat
        /\ Cardinality(Pending(k)') <= Cardinality(Pending(k))
    BY <2>1, PendingShrinks, PendingFinite
  <2>3. WithinBudget(k) /\ admitted[k] \in Nat /\ counter[k] \in Nat
    BY DEF IInv, TypeOK
  <2> QED
    BY <1>1, <2>2, <2>3, LimitAssumption DEF WithinBudget
<1>7. LeakedOnlyByFault'
  <2> SUFFICES ASSUME NEW k \in Keys, counter[k] > 0, expiry[k] = Never, k \notin faults'
               PROVE  \E x \in Requests : request'[x].pc = "expire" /\ request'[x].key = k
    BY <1>1 DEF LeakedOnlyByFault
  <2>1. PICK x \in Requests : At(x, "expire") /\ request[x].key = k
    BY <1>1 DEF IInv, LeakedOnlyByFault
  <2> QED
    BY <1>1, <1>2, <2>1
<1> QED
  BY <1>4, <1>5, <1>6, <1>7 DEF IInv

-----------------------------------------------------------------------------
(* The theorems. *)

\* At first nothing is counted and nothing is promised.
LEMMA Initially == Init => IInv
<1> SUFFICES ASSUME Init PROVE IInv
  OBVIOUS
<1>1. TypeOK
  BY IdleType, MinuteType, ClockAssumption DEF Init, TypeOK
<1>2. RequestsKnown /\ ExpiryLate /\ LeakedOnlyByFault
  BY IdleType DEF Init, RequestsKnown, Known, ExpiryLate, LeakedOnlyByFault
<1>3. ASSUME NEW k \in Keys PROVE WithinBudget(k)
  <2>1. Pending(k) = {} /\ admitted[k] = 0 /\ counter[k] = 0
    BY IdleType DEF Init, Pending, Promised
  <2> QED
    BY <2>1, FS_EmptySet, LimitAssumption DEF WithinBudget
<1> QED
  BY <1>1, <1>2, <1>3 DEF IInv

\* Every step keeps the invariant.
LEMMA Inductive == IInv /\ [Next]_vars => IInv'
<1> SUFFICES ASSUME IInv, [Next]_vars PROVE IInv'
  OBVIOUS
<1>1. CASE UNCHANGED vars
  BY <1>1 DEF vars, IInv, TypeOK, RequestsKnown, Known, ExpiryLate, WithinBudget, Pending,
              LeakedOnlyByFault
<1>2. CASE Next
  BY <1>2, ArriveStep, IncrStep, IncrFailsStep, ExpireStep, DecideStep, RejectStep,
     TickStep, CrashStep DEF Next
<1> QED
  BY <1>1, <1>2

\* Budgets, expiries and what requests know hold in every state.
THEOREM Invariance == Spec => []IInv
  BY Initially, Inductive, PTL DEF Spec

\* The state of the limiter has its types, the windows of its keys within the run.
THEOREM RateLimiterTyped == Spec => []TypeOK
  BY Invariance, PTL DEF IInv

\* At most Limit hits of a subject made within a minute are let through, whatever
\* is late, lost, repeated or dies.
THEOREM MinuteIsLimited == Spec => []LimitPerMinute
<1>1. IInv => LimitPerMinute
  <2> SUFFICES ASSUME IInv, NEW k \in Keys PROVE admitted[k] <= Limit
    BY DEF LimitPerMinute
  <2>1. admitted[k] \in Nat /\ WithinBudget(k) /\ Cardinality(Pending(k)) \in Nat
    BY PendingFinite DEF IInv, TypeOK
  <2> QED
    BY <2>1, LimitAssumption DEF WithinBudget
<1> QED
  BY <1>1, Invariance, PTL

\* A counter that will not go away is the work of a lost command or a lost process.
THEOREM FaultsLeak == Spec => []LeakedOnlyByFault
  BY Invariance, PTL DEF IInv

\* Rounded to the nearest second, a wait of d ticks is short by half a second at
\* most, and no longer than the time it rounds when that is whole.
LEMMA Rounding ==
  ASSUME NEW d \in Int, NEW t \in Nat, NEW w \in Nat, t > 0, 0 <= d, d <= w * t
  PROVE  LET n == (d + t \div 2) \div t IN
         n \in Int /\ n <= w /\ d <= n * t + t \div 2
<1> DEFINE h == t \div 2
           n == (d + h) \div t
<1>1. h \in Nat /\ t - 1 <= h + h /\ h < t
  BY DEF h
<1> HIDE DEF h
<1>2. n \in Int /\ n * t <= d + h /\ d + h < n * t + t
  BY <1>1, Division
<1> HIDE DEF n
<1>3. n * t \in Int /\ w * t \in Int
  BY <1>2
<1>4. n <= w
  <2> SUFFICES ASSUME w + 1 <= n PROVE FALSE
    BY <1>2
  <2>1. (w + 1) * t <= n * t
    BY <1>2, Monotone
  <2> QED
    BY <1>1, <1>2, <1>3, <2>1, Successor
<1>5. d <= n * t + h
  BY <1>1, <1>2, <1>3
<1> QED
  BY <1>2, <1>4, <1>5 DEF n, h

\* A rejected request had its TTL read after the minute of its key began.
LEMMA WaitLongEnough ==
  ASSUME IInv, NEW r \in Requests, Reject(r)
  PROVE  LET wait == request'[r].retryAfter IN
         /\ wait \in 1..WindowSeconds
         /\ now + wait * TicksPerSecond + TicksPerSecond \div 2
              >= (request[r].key[2] + 1) * Minute
<1>1. PICK k : k = request[r].key
  OBVIOUS
<1>2. k \in Keys /\ k[2] * Minute <= now /\ now \in Nat
  BY <1>1, ClockAssumption DEF Reject, IInv, RequestsKnown, Known, TypeOK
<1>3. PICK ttl \in {TTLReply(k), 0} : request' = [request EXCEPT ![r] =
        [IdleRequest EXCEPT !.answer = "limited", !.retryAfter = RetryAfter(ttl)]]
  BY <1>1 DEF Reject
<1>4. request'[r].retryAfter = RetryAfter(ttl)
  BY <1>3 DEF IInv, TypeOK, IdleRequest
<1>5. ttl \in Int
  BY <1>2, TTLReplyType
<1> DEFINE half == TicksPerSecond \div 2
           bound == (k[2] + 1) * Minute
<1>6. half \in Nat /\ bound \in Nat /\ bound <= now + Minute
  BY <1>2, KeyType, MinuteType, ClockAssumption
<1> SUFFICES /\ RetryAfter(ttl) \in 1..WindowSeconds
             /\ now + RetryAfter(ttl) * TicksPerSecond + half >= bound
  BY <1>1, <1>4
<1> HIDE DEF bound
<1>7. CASE ttl <= 0
  <2>1. RetryAfter(ttl) = WindowSeconds /\ WindowSeconds * TicksPerSecond = Minute
    BY <1>7 DEF RetryAfter, Minute
  <2> QED
    BY <1>2, <1>6, <2>1, ClockAssumption, MinuteType
<1>8. CASE ttl > 0
  <2>1. RetryAfter(ttl) = ttl
    BY <1>5, <1>8 DEF RetryAfter
  <2>2. expiry[k] # Never /\ ttl = (expiry[k] - now + half) \div TicksPerSecond
    BY <1>3, <1>8 DEF TTLReply
  <2>3. /\ expiry[k] \in Nat /\ bound <= expiry[k]
        /\ now < expiry[k] /\ expiry[k] - now <= Minute
    BY <1>2, <2>2, MinuteType, ClockAssumption DEF IInv, TypeOK, ExpiryLate, bound
  <2>4. PICK d \in Int : d = expiry[k] - now /\ 0 <= d /\ d <= WindowSeconds * TicksPerSecond
    BY <1>2, <2>3 DEF Minute
  <2>5. ttl <= WindowSeconds /\ d <= ttl * TicksPerSecond + half
    <3>1. LET n == (d + TicksPerSecond \div 2) \div TicksPerSecond IN
          n \in Int /\ n <= WindowSeconds /\ d <= n * TicksPerSecond + TicksPerSecond \div 2
      BY <2>4, ClockAssumption, Rounding
    <3> QED
      BY <2>2, <2>4, <3>1
  <2>6. ttl * TicksPerSecond \in Nat
    BY <1>5, <1>8, ClockAssumption
  <2> QED
    BY <1>2, <1>5, <1>6, <1>8, <2>1, <2>3, <2>4, <2>5, <2>6, ClockAssumption
<1> QED
  BY <1>5, <1>7, <1>8

\* Retry-After is at least the rest of the minute, less half a second, and at most
\* a minute.
THEOREM WaitSuffices == Spec => RetryAfterSuffices
<1>1. ASSUME IInv, [Next]_vars, NEW r \in Requests,
             At(r, "ttl"), request'[r].answer = "limited"
      PROVE  Reject(r)
  <2>1. request[r].answer = "none"
    BY <1>1 DEF IInv, RequestsKnown, Known
  <2>2. request'[r] # request[r]
    BY <1>1, <2>1
  <2>3. ~Tick /\ ~UNCHANGED vars
    BY <2>2 DEF Tick, vars
  <2>4. ASSUME NEW dead \in SUBSET {x \in Requests : ~At(x, "idle")}, Crash(dead)
        PROVE  FALSE
    BY <1>1, <2>2, <2>4, IdleType DEF Crash
  <2>5. PICK x \in Requests :
          \/ \E s \in Subjects : Arrive(x, s)
          \/ Incr(x) \/ IncrFails(x) \/ Expire(x) \/ ExpireFails(x)
          \/ Decide(x) \/ Reject(x)
    BY <1>1, <2>3, <2>4 DEF Next
  <2>6. \A y \in Requests \ {x} : request'[y] = request[y]
    <3>1. request \in [Requests -> RequestType]
      BY <1>1 DEF IInv, TypeOK
    <3>2. CASE Incr(x)
      BY <3>1, <3>2 DEF Incr
    <3>3. CASE IncrFails(x)
      BY <3>1, <3>3 DEF IncrFails, Answer
    <3>4. CASE Expire(x) \/ ExpireFails(x)
      BY <3>1, <3>4 DEF Expire, ExpireFails, GoTo
    <3>5. CASE Decide(x)
      BY <3>1, <3>5 DEF Decide, Answer, GoTo
    <3>6. CASE Reject(x)
      BY <3>1, <3>6 DEF Reject
    <3>7. ASSUME NEW s \in Subjects, Arrive(x, s)
          PROVE  \A y \in Requests \ {x} : request'[y] = request[y]
      BY <3>1, <3>7 DEF Arrive
    <3> QED
      BY <2>5, <3>2, <3>3, <3>4, <3>5, <3>6, <3>7
  <2>7. x = r
    BY <2>2, <2>6
  <2> QED
    BY <1>1, <2>5, <2>7 DEF Arrive, Incr, IncrFails, Expire, ExpireFails, Decide
<1>2. IInv /\ [Next]_vars =>
        [\A r \in Requests : At(r, "ttl") /\ request'[r].answer = "limited" =>
           LET wait == request'[r].retryAfter IN
           /\ wait \in 1..WindowSeconds
           /\ now + wait * TicksPerSecond + TicksPerSecond \div 2
                >= (request[r].key[2] + 1) * Minute]_vars
  BY <1>1, WaitLongEnough
<1> QED
  BY <1>2, Invariance, PTL DEF RetryAfterSuffices, Spec

=============================================================================
