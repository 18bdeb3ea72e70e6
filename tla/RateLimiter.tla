---------------------------- MODULE RateLimiter ----------------------------
(***************************************************************************)
(* The fixed-window rate limiter (internal/middleware/ratelimit.go): one   *)
(* Redis counter per subject and minute, counted with INCR and given a     *)
(* TTL with a separate EXPIRE by the request that created it.  Requests of *)
(* all instances interleave command by command; a command may fail, or be  *)
(* applied and its reply lost, in which case the Redis client tries again. *)
(* One clock stands for those of the instances and of Redis.               *)
(***************************************************************************)
EXTENDS Integers, FiniteSets

CONSTANTS
  Subjects,        \* who is limited: user ids, or the IPs of /auth clients
  Requests,        \* requests in flight at once
  Limit,           \* RATE_LIMIT_PER_MIN
  FailOpen,        \* RATE_LIMIT_FAIL_OPEN
  TicksPerSecond,  \* resolution of the clock
  WindowSeconds,   \* a minute, in seconds
  MaxRetries,      \* how often the Redis client repeats a command
  MaxHits,         \* bound: hits of one key that the requests start
  MaxTime,         \* bound: where the clock stops
  Null             \* no key

ASSUME LimitAssumption == Limit \in Nat
ASSUME ClockAssumption ==
  /\ TicksPerSecond \in Nat \ {0}
  /\ WindowSeconds \in Nat \ {0}
  /\ MaxTime \in Nat
ASSUME SwitchAssumption == FailOpen \in BOOLEAN
ASSUME RetriesAssumption == MaxRetries \in Nat
ASSUME RequestsAssumption == IsFiniteSet(Requests)

Minute == WindowSeconds * TicksPerSecond

Windows == 0..(MaxTime \div Minute)

Keys == Subjects \X Windows

VARIABLES
  now,       \* the clock
  counter,   \* Redis: the value of each key, 0 when there is none
  expiry,    \* Redis: when each key expires, or Never
  request,   \* the requests in flight
  admitted,  \* history: requests let through by a hit within the key's minute
  faults     \* history: keys with a command that failed, or a process that died

vars == <<now, counter, expiry, request, admitted, faults>>

Never == -1

RequestType ==
  [pc : {"idle", "incr", "expire", "decide", "ttl"},
   key : Keys \cup {Null},
   tries : 0..MaxRetries,
   count : Nat,            \* the reply of INCR
   punctual : BOOLEAN,     \* history: INCR ran in the minute of the key
   answer : {"none", "next", "unavailable", "limited"},
   retryAfter : Nat]

TypeOK ==
  /\ now \in 0..MaxTime
  /\ counter \in [Keys -> Nat]
  /\ expiry \in [Keys -> {Never} \cup 0..(MaxTime + Minute)]
  /\ request \in [Requests -> RequestType]
  /\ admitted \in [Keys -> Nat]
  /\ faults \subseteq Keys

IdleRequest ==
  [pc |-> "idle", key |-> Null, tries |-> 0, count |-> 0, punctual |-> FALSE,
   answer |-> "none", retryAfter |-> 0]

Init ==
  /\ now = 0
  /\ counter = [k \in Keys |-> 0]
  /\ expiry = [k \in Keys |-> Never]
  /\ request = [r \in Requests |-> IdleRequest]
  /\ admitted = [k \in Keys |-> 0]
  /\ faults = {}

-----------------------------------------------------------------------------
At(r, pc) == request[r].pc = pc

GoTo(r, pc) == request' = [request EXCEPT ![r].pc = pc]

Answer(r, a) == request' = [request EXCEPT ![r] = [IdleRequest EXCEPT !.answer = a]]

\* The subject and time.Now() down to the minute.
KeyOf(s) == <<s, now \div Minute>>

Started(k) == counter[k] + Cardinality({r \in Requests : request[r].key = k})

Arrive(r, s) ==
  /\ At(r, "idle")
  /\ Started(KeyOf(s)) < MaxHits
  /\ request' = [request EXCEPT ![r] =
       [IdleRequest EXCEPT !.pc = "incr", !.key = KeyOf(s)]]
  /\ UNCHANGED <<now, counter, expiry, admitted, faults>>

\* A mutation: the hit that is counted second sets the TTL.
Incr_SecondExpires(r) ==
  LET k == request[r].key
      n == counter[k] + 1
  IN
  /\ At(r, "incr")
  /\ counter' = [counter EXCEPT ![k] = n]
  /\ request' = [request EXCEPT
       ![r].pc = IF n = 2 THEN "expire" ELSE "decide",
       ![r].count = n,
       ![r].punctual = (now \div Minute = k[2])]
  /\ UNCHANGED <<now, expiry, admitted, faults>>

\* INCR, which creates the key without a TTL; the first hit owes it one.
Incr(r) ==
  LET k == request[r].key
      n == counter[k] + 1
  IN
  /\ At(r, "incr")
  /\ counter' = [counter EXCEPT ![k] = n]
  /\ request' = [request EXCEPT
       ![r].pc = IF n = 1 THEN "expire" ELSE "decide",
       ![r].count = n,
       ![r].punctual = (now \div Minute = k[2])]
  /\ UNCHANGED <<now, expiry, admitted, faults>>

\* A mutation: the retries are not counted against their limit.
IncrFails_Forever(r) ==
  LET k == request[r].key IN
  /\ At(r, "incr")
  /\ \/ counter' = [counter EXCEPT ![k] = @ + 1]
     \/ UNCHANGED counter
  /\ \/ request' = [request EXCEPT ![r].tries = @ + 1]
     \/ Answer(r, IF FailOpen THEN "next" ELSE "unavailable")
  /\ faults' = faults \cup {request[r].key}
  /\ UNCHANGED <<now, expiry, admitted>>

\* INCR gets no reply, applied or not.  The client repeats it, or gives up (the
\* request is cancelled, the retries are spent): fail open or fail closed.
IncrFails(r) ==
  LET k == request[r].key IN
  /\ At(r, "incr")
  /\ \/ counter' = [counter EXCEPT ![k] = @ + 1]
     \/ UNCHANGED counter
  /\ \/ /\ request[r].tries < MaxRetries
        /\ request' = [request EXCEPT ![r].tries = @ + 1]
     \/ Answer(r, IF FailOpen THEN "next" ELSE "unavailable")
  /\ faults' = faults \cup {request[r].key}
  /\ UNCHANGED <<now, expiry, admitted>>

SetExpiry(k) ==
  expiry' = [expiry EXCEPT ![k] = IF counter[k] > 0 THEN now + Minute ELSE Never]

Expire(r) ==
  /\ At(r, "expire")
  /\ SetExpiry(request[r].key)
  /\ GoTo(r, "decide")
  /\ UNCHANGED <<now, counter, admitted, faults>>

\* EXPIRE gets no reply: it is repeated, or its error is ignored.
ExpireFails(r) ==
  /\ At(r, "expire")
  /\ SetExpiry(request[r].key) \/ UNCHANGED expiry
  /\ UNCHANGED request \/ GoTo(r, "decide")
  /\ faults' = faults \cup {request[r].key}
  /\ UNCHANGED <<now, counter, admitted>>

\* A mutation: one more than the limit is let through.
Decide_OneMore(r) ==
  /\ At(r, "decide")
  /\ IF request[r].count > Limit + 1
       THEN GoTo(r, "ttl") /\ UNCHANGED admitted
       ELSE /\ Answer(r, "next")
            /\ admitted' = IF request[r].punctual
                             THEN [admitted EXCEPT ![request[r].key] = @ + 1]
                             ELSE admitted
  /\ UNCHANGED <<now, counter, expiry, faults>>

Decide(r) ==
  /\ At(r, "decide")
  /\ IF request[r].count > Limit
       THEN GoTo(r, "ttl") /\ UNCHANGED admitted
       ELSE /\ Answer(r, "next")
            /\ admitted' = IF request[r].punctual
                             THEN [admitted EXCEPT ![request[r].key] = @ + 1]
                             ELSE admitted
  /\ UNCHANGED <<now, counter, expiry, faults>>

\* What TTL replies: whole seconds, to the nearest; negative without a key or a
\* TTL, which 0 stands for.
TTLReply(k) ==
  IF counter[k] = 0 \/ expiry[k] = Never
    THEN 0
    ELSE (expiry[k] - now + TicksPerSecond \div 2) \div TicksPerSecond

\* A mutation: a reply of no TTL is not replaced by a minute.
RetryAfter_AsReplied(ttl) == IF ttl <= 0 THEN 1 ELSE ttl

RetryAfter(ttl) == IF ttl <= 0 THEN WindowSeconds ELSE ttl

\* 429 with Retry-After from the TTL, which another request may still be setting.
\* The reply may not come, which the code treats like no TTL.
Reject(r) ==
  /\ At(r, "ttl")
  /\ \E ttl \in {TTLReply(request[r].key), 0} :
       request' = [request EXCEPT ![r] =
         [IdleRequest EXCEPT !.answer = "limited", !.retryAfter = RetryAfter(ttl)]]
  /\ UNCHANGED <<now, counter, expiry, admitted, faults>>

-----------------------------------------------------------------------------
\* The clock, and the keys that expire.
Tick ==
  LET expired == {k \in Keys : expiry[k] # Never /\ expiry[k] <= now + 1} IN
  /\ now < MaxTime
  /\ now' = now + 1
  /\ counter' = [k \in Keys |-> IF k \in expired THEN 0 ELSE counter[k]]
  /\ expiry' = [k \in Keys |-> IF k \in expired THEN Never ELSE expiry[k]]
  /\ UNCHANGED <<request, admitted, faults>>

\* An instance dies with the requests it serves.
Crash(dead) ==
  /\ request' = [r \in Requests |-> IF r \in dead THEN IdleRequest ELSE request[r]]
  /\ faults' = faults \cup {request[r].key : r \in dead}
  /\ UNCHANGED <<now, counter, expiry, admitted>>

Next ==
  \/ \E r \in Requests :
       \/ \E s \in Subjects : Arrive(r, s)
       \/ Incr(r) \/ IncrFails(r) \/ Expire(r) \/ ExpireFails(r)
       \/ Decide(r) \/ Reject(r)
  \/ Tick
  \/ \E dead \in SUBSET {r \in Requests : ~At(r, "idle")} : Crash(dead)

Spec == Init /\ [][Next]_vars

-----------------------------------------------------------------------------
(* Properties. *)

\* However hits, late EXPIREs, lost replies, crashes and the clock interleave, the
\* counter lets no more than Limit requests of a subject through by hits made in
\* the minute they name: no key expires, and restarts from 0, within its minute.
LimitPerMinute == \A k \in Keys : admitted[k] <= Limit

\* A throttled client that waits for Retry-After comes back in a later minute, up
\* to the half second by which Redis may round the TTL down, and never waits for
\* longer than a minute, whatever the state of the key's TTL when it is read.
RetryAfterSuffices ==
  [][\A r \in Requests : At(r, "ttl") /\ request'[r].answer = "limited" =>
       LET wait == request'[r].retryAfter IN
       /\ wait \in 1..WindowSeconds
       /\ now + wait * TicksPerSecond + TicksPerSecond \div 2
            >= (request[r].key[2] + 1) * Minute]_vars

\* A key is left without a TTL, and its subject's hits of that minute with it, only
\* if a command on it got no reply or a process died with it: hits that overlap, or
\* that are late, never leave one (only the hit that is counted first sends EXPIRE).
LeakedOnlyByFault ==
  \A k \in Keys :
    counter[k] > 0 /\ expiry[k] = Never =>
      k \in faults \/ \E r \in Requests : At(r, "expire") /\ request[r].key = k

=============================================================================
