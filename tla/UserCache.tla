----------------------------- MODULE UserCache -----------------------------
(***************************************************************************)
(* CachedUserResolver (internal/middleware/user_cache.go): the map from    *)
(* token subjects to users that JWT authentication consults before the     *)
(* database.  The mutex covers the lookup and the store, not the database  *)
(* read between them, so several misses of one subject overlap and a store *)
(* may be of a row that has changed since it was read.                     *)
(***************************************************************************)
EXTENDS Integers, FiniteSets

CONSTANTS
  Subjects,    \* token subjects, the emails of users
  Users,       \* users.id: UUIDs, never used twice
  Requests,    \* lookups in progress at once
  TTL,         \* how long an entry is served
  MaxEntries,  \* the capacity of the map
  MaxDelay,    \* the longest time from the database read to the store
  MaxTime,     \* bound: where the clock stops
  Null         \* no user

ASSUME SubjectsAssumption == IsFiniteSet(Subjects)
ASSUME TTLAssumption == TTL \in Nat
ASSUME CapacityAssumption == MaxEntries \in Nat \ {0}
ASSUME DelayAssumption == MaxDelay \in Nat
ASSUME TimeAssumption == MaxTime \in Nat
ASSUME NullAssumption == Null \notin Users

VARIABLES
  now,      \* time.Now(), monotonic
  account,  \* users: the id behind each subject, if there is one
  left,     \* history: when an id stopped being that of a subject, or Never
  entries,  \* the map: user and expiry, by subject
  lookup    \* the lookups that have missed and are not answered yet

vars == <<now, account, left, entries, lookup>>

Never == -1

Time == 0..MaxTime

Entry == [user : Users, expires : 0..(MaxTime + TTL)]

Lookup == [pc : {"idle", "fetch", "store"},
           sub : Subjects \cup {Null},
           user : Users \cup {Null},   \* what the database answered
           readAt : Time]              \* history: and when

TypeOK ==
  /\ now \in Time
  /\ account \in [Subjects -> Users \cup {Null}]
  /\ left \in [Subjects \X Users -> Time \cup {Never}]
  /\ DOMAIN entries \subseteq Subjects
  /\ entries \in [DOMAIN entries -> Entry]
  /\ lookup \in [Requests -> Lookup]

Idle == [pc |-> "idle", sub |-> Null, user |-> Null, readAt |-> 0]

Init ==
  /\ now = 0
  /\ account \in [Subjects -> Users \cup {Null}]
  /\ \A s, t \in Subjects : account[s] = account[t] => s = t \/ account[s] = Null
  /\ left = [su \in Subjects \X Users |-> Never]
  /\ entries = [s \in {} |-> Idle]
  /\ lookup = [r \in Requests |-> Idle]

-----------------------------------------------------------------------------
At(r, pc) == lookup[r].pc = pc

\* A mutation: an entry is still served at its expiry.
LiveEntry_Late(s) == s \in DOMAIN entries /\ now <= entries[s].expires

\* Time has not reached the expiry: the entry is served.
LiveEntry(s) == s \in DOMAIN entries /\ now < entries[s].expires

\* The first critical section finds a live entry; the request goes on with it.
Hit(s) ==
  /\ LiveEntry(s)
  /\ UNCHANGED vars

\* It finds none, and the mutex is released before the database is asked.
Miss(r, s) ==
  /\ At(r, "idle")
  /\ ~LiveEntry(s)
  /\ lookup' = [lookup EXCEPT ![r] = [Idle EXCEPT !.pc = "fetch", !.sub = s]]
  /\ UNCHANGED <<now, account, left, entries>>

\* A mutation: the error of the read is not looked at, and the empty user stored.
Fetch_IgnoresError(r) ==
  /\ At(r, "fetch")
  /\ lookup' = [lookup EXCEPT ![r].pc = "store", ![r].readAt = now,
                               ![r].user = account[lookup[r].sub]]
  /\ UNCHANGED <<now, account, left, entries>>

\* A mutation: the row is kept in the resolver, where lookups overwrite each other's.
Fetch_Shared(r) ==
  LET found == account[lookup[r].sub]
      mine  == [lookup[r] EXCEPT !.pc = "store", !.user = found, !.readAt = now]
  IN
  /\ At(r, "fetch")
  /\ lookup' = [q \in Requests |->
                 IF q = r THEN IF found = Null THEN Idle ELSE mine
                 ELSE IF At(q, "store") /\ found # Null
                        THEN [lookup[q] EXCEPT !.user = found]
                        ELSE lookup[q]]
  /\ UNCHANGED <<now, account, left, entries>>

\* The database answers: no row is an error and is not cached.
Fetch(r) ==
  LET found == account[lookup[r].sub] IN
  /\ At(r, "fetch")
  /\ IF found = Null
       THEN lookup' = [lookup EXCEPT ![r] = Idle]
       ELSE lookup' = [lookup EXCEPT ![r].pc = "store", ![r].user = found,
                                     ![r].readAt = now]
  /\ UNCHANGED <<now, account, left, entries>>

\* The database does not answer, or the request is cancelled while it waits.
FailFetch(r) ==
  /\ At(r, "fetch")
  /\ lookup' = [lookup EXCEPT ![r] = Idle]
  /\ UNCHANGED <<now, account, left, entries>>

\* A mutation: only expired entries are evicted, so a full map stays as it is.
AfterEviction_ExpiredOnly == {{k \in DOMAIN entries : LiveEntry(k)}}

\* A mutation: the entry that expires last is evicted.
AfterEviction_Latest ==
  LET live   == {k \in DOMAIN entries : LiveEntry(k)}
      latest == {k \in live : \A j \in live : entries[k].expires >= entries[j].expires}
  IN  IF Cardinality(live) >= MaxEntries THEN {live \ {k} : k \in latest} ELSE {live}

\* evictLocked: the sets of keys it may leave.  Expired entries go; if the map is
\* still full, one that expires soonest goes (map order decides between equals).
AfterEviction ==
  LET live    == {k \in DOMAIN entries : LiveEntry(k)}
      soonest == {k \in live : \A j \in live : entries[k].expires <= entries[j].expires}
  IN  IF Cardinality(live) >= MaxEntries
        THEN {live \ {k} : k \in soonest}
        ELSE {live}

\* The keys that remain when a new entry is about to be stored.
MakeRoom ==
  IF Cardinality(DOMAIN entries) >= MaxEntries THEN AfterEviction ELSE {DOMAIN entries}

\* A mutation: room was made by the first critical section, when the lookup missed.
Store_TrustsMiss(r) ==
  LET s == lookup[r].sub
      e == [user |-> lookup[r].user, expires |-> now + TTL]
  IN
  /\ At(r, "store")
  /\ entries' = [k \in DOMAIN entries \cup {s} |-> IF k = s THEN e ELSE entries[k]]
  /\ lookup' = [lookup EXCEPT ![r] = Idle]
  /\ UNCHANGED <<now, account, left>>

\* The second critical section, and the answer.
Store(r) ==
  LET s == lookup[r].sub
      e == [user |-> lookup[r].user, expires |-> now + TTL]
  IN
  /\ At(r, "store")
  /\ \E kept \in MakeRoom :
       entries' = IF Cardinality(kept) < MaxEntries
                    THEN [k \in kept \cup {s} |-> IF k = s THEN e ELSE entries[k]]
                    ELSE [k \in kept |-> entries[k]]
  /\ lookup' = [lookup EXCEPT ![r] = Idle]
  /\ UNCHANGED <<now, account, left>>

-----------------------------------------------------------------------------
(* The rest of the system. *)

\* A first login, or the first after the user was deleted: a new id.
SignUp(s) ==
  /\ account[s] = Null
  /\ \E u \in Users :
       /\ \A t \in Subjects : account[t] # u /\ left[<<t, u>>] = Never
       /\ account' = [account EXCEPT ![s] = u]
  /\ UNCHANGED <<now, left, entries, lookup>>

\* The operator deletes a user in SQL; the cache is not told.
DeleteUser(s) ==
  /\ account[s] # Null
  /\ left' = [left EXCEPT ![<<s, account[s]>>] = now]
  /\ account' = [account EXCEPT ![s] = Null]
  /\ UNCHANGED <<now, entries, lookup>>

\* The clock.  Nothing in the code limits the time between a read and its store;
\* MaxDelay names what the deployment is assumed to keep to.
Tick ==
  /\ now < MaxTime
  /\ \A r \in Requests : At(r, "store") => now - lookup[r].readAt < MaxDelay
  /\ now' = now + 1
  /\ UNCHANGED <<account, left, entries, lookup>>

\* The instance restarts with an empty map.
Restart ==
  /\ entries' = [s \in {} |-> Idle]
  /\ lookup' = [r \in Requests |-> Idle]
  /\ UNCHANGED <<now, account, left>>

Next ==
  \/ \E s \in Subjects : Hit(s) \/ SignUp(s) \/ DeleteUser(s)
  \/ \E r \in Requests : \/ \E s \in Subjects : Miss(r, s)
                         \/ Fetch(r) \/ FailFetch(r) \/ Store(r)
  \/ Tick \/ Restart

Spec == Init /\ [][Next]_vars

-----------------------------------------------------------------------------
(* What the rest of the system may rely on. *)

\* Which user the map answers with, for each subject, and which users are gone.
Served == [s \in Subjects |-> IF LiveEntry(s) THEN entries[s].user ELSE Null]
Gone == {su \in Subjects \X Users : left[su] # Never}

AsResolver == INSTANCE Resolver WITH UserIds <- Users, users <- account,
                                     former <- Gone, cached <- Served

\* The cache answers for each subject with a user that the subject has or has had,
\* whatever other lookups, of this subject or others, read and store meanwhile, and
\* changes what it answers only by a store, an expiry, an eviction or a restart
\* (GetUserByEmail, with the database read between its critical sections).
ImplementsResolver == AsResolver!Spec

-----------------------------------------------------------------------------
(* Properties. *)

\* How long ago u stopped being the user of s.
Lag(s, u) == IF account[s] = u THEN 0 ELSE now - left[<<s, u>>]

\* However misses of one subject overlap with deletions, sign-ups, evictions and
\* each other, whoever is authenticated by the map was the user of the subject
\* less than TTL + MaxDelay ago: the store dates the entry from the moment of the
\* store, not of the read, and a late store may replace a newer entry.
StalenessBounded ==
  /\ \A s \in Subjects :
       LiveEntry(s) => Lag(s, entries[s].user) < TTL + MaxDelay
  /\ \A r \in Requests :
       At(r, "store") => Lag(lookup[r].sub, lookup[r].user) <= MaxDelay

\* "Staleness is bounded by the TTL" (user_cache.go:13-14), "a deleted user keeps
\* access <= 60 s" (docs/DESIGN.md:164-165): what the comments promise.
StaleWithinTTL ==
  \A s \in Subjects : LiveEntry(s) => Lag(s, entries[s].user) <= TTL

\* Concurrent stores never push the map over its capacity: each checks and makes
\* room in the critical section in which it stores.
CapacityRespected == Cardinality(DOMAIN entries) <= MaxEntries

\* "The cache never silently disables itself at capacity" (docs/DESIGN.md 5): the
\* row a miss has read is in the map when the miss is answered.
StoreIsKept ==
  [][\A r \in Requests : At(r, "store") /\ At(r, "idle")' /\ entries' # <<>> =>
       /\ lookup[r].sub \in DOMAIN entries'
       /\ entries'[lookup[r].sub].user = lookup[r].user]_vars

\* A live entry is given up only when live entries fill the map, one at a time,
\* and it is one of those that would expire first (the comment on evictLocked).
EvictionSparesLive ==
  [][LET lost == {s \in Subjects : LiveEntry(s) /\ s \notin DOMAIN entries'} IN
     entries' # <<>> /\ now' = now /\ lost # {} =>
       /\ Cardinality(lost) = 1
       /\ Cardinality({s \in Subjects : LiveEntry(s)}) >= MaxEntries
       /\ \A s \in lost, t \in Subjects :
            LiveEntry(t) => entries[s].expires <= entries[t].expires]_vars

=============================================================================
