-------------------------- MODULE UserCacheProofs --------------------------
(***************************************************************************)
(* The capacity of the user cache, whom it answers with and for how long,  *)
(* for every number of subjects, users and overlapping lookups, every TTL  *)
(* and every capacity.                                                     *)
(***************************************************************************)
EXTENDS UserCache, FiniteSetTheorems, TLAPS

\* What a lookup knows by the time it reaches each of its steps.
LookupsFormed ==
  \A r \in Requests :
    /\ lookup[r].pc \in {"fetch", "store"} => lookup[r].sub \in Subjects
    /\ lookup[r].pc = "store" => /\ lookup[r].user \in Users
                                 /\ lookup[r].readAt <= now
                                 /\ now <= lookup[r].readAt + MaxDelay

\* What was read is still so, or stopped being so after it was read.
ReadsHold ==
  \A r \in Requests : lookup[r].pc = "store" =>
    \/ account[lookup[r].sub] = lookup[r].user
    \/ /\ left[<<lookup[r].sub, lookup[r].user>>] # Never
       /\ lookup[r].readAt <= left[<<lookup[r].sub, lookup[r].user>>]

\* An entry is of the user the subject has, or had until MaxDelay + TTL before
\* the entry expires at the latest.
EntriesHold ==
  \A s \in DOMAIN entries :
    /\ entries[s].expires <= now + TTL
    /\ \/ account[s] = entries[s].user
       \/ /\ left[<<s, entries[s].user>>] # Never
          /\ entries[s].expires <= left[<<s, entries[s].user>>] + MaxDelay + TTL

IInv ==
  TypeOK /\ LookupsFormed /\ ReadsHold /\ EntriesHold /\ CapacityRespected

USE DEF Never, Time

-----------------------------------------------------------------------------
\* Keys that survive an eviction were keys.
LEMMA RoomIsOfKeys ==
  ASSUME NEW kept \in MakeRoom
  PROVE  kept \subseteq DOMAIN entries
  BY DEF MakeRoom, AfterEviction

\* An empty map holds no more than its capacity.
LEMMA EmptyMap == Cardinality(DOMAIN [s \in {} |-> Idle]) <= MaxEntries
  BY FS_EmptySet, CapacityAssumption

\* A new instance starts in the invariant.
LEMMA InvInit == Init => IInv
<1> SUFFICES ASSUME Init PROVE IInv
  OBVIOUS
<1>1. TypeOK
  BY TimeAssumption DEF Init, TypeOK, Idle, Lookup, Entry
<1>2. LookupsFormed /\ ReadsHold
  BY DEF Init, LookupsFormed, ReadsHold, Idle
<1>3. EntriesHold
  BY DEF Init, EntriesHold
<1>4. CapacityRespected
  BY EmptyMap DEF Init, CapacityRespected
<1> QED
  BY <1>1, <1>2, <1>3, <1>4 DEF IInv

-----------------------------------------------------------------------------
\* A store leaves at most MaxEntries entries: those of the room, which is within
\* the old map, and the new one when the room is below the capacity.
LEMMA StoreCapacity ==
  ASSUME IInv, NEW r \in Requests, Store(r)
  PROVE  CapacityRespected'
<1>0. IsFiniteSet(DOMAIN entries) /\ Cardinality(DOMAIN entries) \in Nat
      /\ Cardinality(DOMAIN entries) <= MaxEntries
  BY SubjectsAssumption, FS_Subset, FS_CardinalityType
  DEF IInv, TypeOK, CapacityRespected
<1> DEFINE s == lookup[r].sub
<1>1. PICK kept \in MakeRoom :
        DOMAIN entries' = IF Cardinality(kept) < MaxEntries THEN kept \cup {s} ELSE kept
  BY DEF Store
<1>2. kept \subseteq DOMAIN entries
  BY RoomIsOfKeys
<1>3. /\ IsFiniteSet(kept) /\ Cardinality(kept) \in Nat
      /\ Cardinality(kept) <= Cardinality(DOMAIN entries)
  BY <1>0, <1>2, FS_Subset, FS_CardinalityType
<1> HIDE DEF s
<1>4. /\ IsFiniteSet(kept \cup {s})
      /\ Cardinality(kept \cup {s}) = IF s \in kept THEN Cardinality(kept)
                                                   ELSE Cardinality(kept) + 1
  BY Zenon, <1>3, FS_AddElement
<1>5. Cardinality(kept \cup {s}) <= Cardinality(kept) + 1
      /\ Cardinality(kept \cup {s}) \in Nat
  BY <1>3, <1>4
<1> QED
  BY <1>0, <1>1, <1>3, <1>4, <1>5, CapacityAssumption DEF CapacityRespected

\* A store keeps the entries dated.
LEMMA StoreStep ==
  ASSUME IInv, NEW r \in Requests, Store(r)
  PROVE  IInv'
<1> DEFINE s == lookup[r].sub
           e == [user |-> lookup[r].user, expires |-> now + TTL]
<1>1. /\ lookup' = [lookup EXCEPT ![r] = Idle]
      /\ UNCHANGED <<now, account, left>>
      /\ lookup[r].pc = "store" /\ s \in Subjects /\ lookup[r].user \in Users
      /\ lookup[r].readAt \in Nat /\ now \in 0..MaxTime
      /\ now <= lookup[r].readAt + MaxDelay
  BY TimeAssumption DEF Store, At, IInv, TypeOK, LookupsFormed, Lookup
<1>2. PICK kept \in MakeRoom :
        entries' = IF Cardinality(kept) < MaxEntries
                     THEN [k \in kept \cup {s} |-> IF k = s THEN e ELSE entries[k]]
                     ELSE [k \in kept |-> entries[k]]
  BY DEF Store
<1>3. kept \subseteq DOMAIN entries
  BY RoomIsOfKeys
<1>4. e \in Entry /\ e.user = lookup[r].user /\ e.expires = now + TTL
  BY <1>1, TimeAssumption, TTLAssumption DEF Entry
<1>5. ASSUME NEW k \in DOMAIN entries'
      PROVE  \/ k = s /\ entries'[k] = e
             \/ k \in DOMAIN entries /\ entries'[k] = entries[k]
  BY <1>2, <1>3, <1>5
<1>6. TypeOK'
  <2>1. DOMAIN entries' \subseteq Subjects
    BY <1>1, <1>5 DEF IInv, TypeOK
  <2>2. entries' = [k \in DOMAIN entries' |-> entries'[k]]
    BY <1>2
  <2>3. \A k \in DOMAIN entries' : entries'[k] \in Entry
    BY <1>4, <1>5 DEF IInv, TypeOK
  <2>4. lookup' \in [Requests -> Lookup]
    BY <1>1, TimeAssumption DEF IInv, TypeOK, Idle, Lookup
  <2> QED
    BY <1>1, <2>1, <2>2, <2>3, <2>4 DEF IInv, TypeOK
<1>7. LookupsFormed' /\ ReadsHold'
  BY <1>1 DEF IInv, TypeOK, LookupsFormed, ReadsHold, Idle
<1>8. EntriesHold'
  <2> SUFFICES ASSUME NEW k \in DOMAIN entries'
               PROVE  /\ entries'[k].expires <= now + TTL
                      /\ \/ account[k] = entries'[k].user
                         \/ /\ left[<<k, entries'[k].user>>] # Never
                            /\ entries'[k].expires
                                 <= left[<<k, entries'[k].user>>] + MaxDelay + TTL
    BY <1>1 DEF EntriesHold
  <2>1. CASE k \in DOMAIN entries /\ entries'[k] = entries[k]
    BY <2>1 DEF IInv, EntriesHold
  <2>2. CASE k = s /\ entries'[k] = e
    <3>1. \/ account[s] = lookup[r].user
          \/ /\ left[<<s, lookup[r].user>>] # Never
             /\ lookup[r].readAt <= left[<<s, lookup[r].user>>]
      BY <1>1 DEF IInv, ReadsHold
    <3>2. left[<<s, lookup[r].user>>] \in Nat \cup {Never}
      BY <1>1, TimeAssumption DEF IInv, TypeOK
    <3> HIDE DEF s, e
    <3> QED
      BY <1>1, <1>4, <2>2, <3>1, <3>2, TTLAssumption, DelayAssumption, TimeAssumption
  <2> QED
    BY <1>5, <2>1, <2>2
<1>9. CapacityRespected'
  BY StoreCapacity
<1> QED
  BY <1>6, <1>7, <1>8, <1>9 DEF IInv

-----------------------------------------------------------------------------
\* A map that keeps its capacity keeps it.
LEMMA SameCapacity ==
  ASSUME IInv, entries' = entries
  PROVE  CapacityRespected'
  BY DEF IInv, CapacityRespected

\* A lookup that misses, asks or gives up.
LEMMA LookupStep ==
  ASSUME IInv, NEW r \in Requests,
         Fetch(r) \/ FailFetch(r) \/ \E s \in Subjects : Miss(r, s)
  PROVE  IInv'
<1>1. UNCHANGED <<now, account, left, entries>>
  BY DEF Fetch, FailFetch, Miss
<1>2. PICK q \in Lookup :
        /\ lookup' = [lookup EXCEPT ![r] = q]
        /\ q.pc = "fetch" => q.sub \in Subjects
        /\ q.pc = "store" => /\ q.sub \in Subjects /\ q.user \in Users
                             /\ q.readAt = now /\ account[q.sub] = q.user
  <2>0. Idle \in Lookup /\ Idle.pc = "idle"
    BY TimeAssumption DEF Idle, Lookup
  <2>1. CASE FailFetch(r)
    BY <2>0, <2>1 DEF FailFetch
  <2>2. CASE \E s \in Subjects : Miss(r, s)
    <3>1. PICK s \in Subjects : Miss(r, s)
      BY <2>2
    <3> DEFINE q == [Idle EXCEPT !.pc = "fetch", !.sub = s]
    <3>2. q \in Lookup
      BY <2>0 DEF Lookup
    <3>3. q.pc = "fetch" /\ q.sub = s
      BY DEF Idle
    <3>4. lookup' = [lookup EXCEPT ![r] = q]
      BY <3>1 DEF Miss
    <3> HIDE DEF q
    <3> QED
      BY <3>2, <3>3, <3>4
  <2>3. CASE Fetch(r)
    <3>1. CASE account[lookup[r].sub] = Null
      BY <2>0, <2>3, <3>1 DEF Fetch
    <3>2. CASE account[lookup[r].sub] # Null
      <4>1. lookup[r] \in Lookup /\ lookup[r].pc = "fetch" /\ lookup[r].sub \in Subjects
        BY <2>3 DEF Fetch, At, IInv, TypeOK, LookupsFormed
      <4>2. account[lookup[r].sub] \in Users /\ now \in Time
        BY <3>2, <4>1 DEF IInv, TypeOK
      <4> DEFINE q == [[[lookup[r] EXCEPT !.pc = "store"]
                                    EXCEPT !.user = account[lookup[r].sub]]
                                    EXCEPT !.readAt = now]
      <4>3. q \in Lookup
        BY <4>1, <4>2 DEF Lookup
      <4>4. /\ q.pc = "store" /\ q.sub = lookup[r].sub
            /\ q.user = account[lookup[r].sub] /\ q.readAt = now
        BY <4>1 DEF Lookup
      <4>5. lookup' = [lookup EXCEPT ![r] = q]
        BY <2>3, <3>2, <4>1 DEF Fetch, IInv, TypeOK, Lookup
      <4> HIDE DEF q
      <4> QED
        BY <4>1, <4>2, <4>3, <4>4, <4>5
    <3> QED
      BY <3>1, <3>2
  <2> QED
    BY <2>1, <2>2, <2>3
<1>3. TypeOK'
  BY <1>1, <1>2 DEF IInv, TypeOK
<1>4. LookupsFormed'
  BY <1>1, <1>2, DelayAssumption, TimeAssumption DEF IInv, TypeOK, LookupsFormed
<1>5. ReadsHold'
  BY <1>1, <1>2 DEF IInv, TypeOK, ReadsHold
<1>6. EntriesHold'
  BY <1>1 DEF IInv, EntriesHold
<1> QED
  BY <1>1, <1>3, <1>4, <1>5, <1>6, SameCapacity DEF IInv

\* A sign-up: the subject had no user, so what was read of it has ended.
LEMMA SignUpStep ==
  ASSUME IInv, NEW s \in Subjects, SignUp(s)
  PROVE  IInv'
<1>1. PICK u \in Users : account' = [account EXCEPT ![s] = u]
  BY DEF SignUp
<1>2. account[s] = Null /\ UNCHANGED <<now, left, entries, lookup>>
  BY DEF SignUp
<1>3. TypeOK'
  BY <1>1, <1>2 DEF IInv, TypeOK
<1>4. LookupsFormed'
  BY <1>2 DEF IInv, LookupsFormed
<1>5. ReadsHold'
  BY <1>1, <1>2, NullAssumption DEF IInv, TypeOK, LookupsFormed, ReadsHold
<1>6. EntriesHold'
  BY <1>1, <1>2, NullAssumption DEF IInv, TypeOK, EntriesHold, Entry
<1> QED
  BY <1>2, <1>3, <1>4, <1>5, <1>6, SameCapacity DEF IInv

\* A deletion: everything read of the user, and every entry of it, is dated
\* before now.
LEMMA DeleteUserStep ==
  ASSUME IInv, NEW s \in Subjects, DeleteUser(s)
  PROVE  IInv'
<1> DEFINE u == account[s]
<1>1. /\ u \in Users /\ UNCHANGED <<now, entries, lookup>> /\ now \in 0..MaxTime
      /\ account' = [account EXCEPT ![s] = Null]
      /\ left' = [left EXCEPT ![<<s, u>>] = now]
  BY DEF DeleteUser, IInv, TypeOK
<1>2. TypeOK'
  BY <1>1 DEF IInv, TypeOK
<1>3. LookupsFormed'
  BY <1>1 DEF IInv, LookupsFormed
<1>4. ASSUME NEW t \in Subjects, NEW v \in Users
      PROVE  \/ t = s /\ v = u /\ left'[<<t, v>>] = now
             \/ ~(t = s /\ v = u) /\ left'[<<t, v>>] = left[<<t, v>>]
                /\ (account[t] = v => account'[t] = v)
  BY <1>1, <1>4 DEF IInv, TypeOK
<1> HIDE DEF u
<1>5. ReadsHold'
  BY <1>1, <1>4, TimeAssumption DEF IInv, TypeOK, LookupsFormed, ReadsHold, Lookup
<1>6. EntriesHold'
  <2> SUFFICES ASSUME NEW k \in DOMAIN entries
               PROVE  /\ entries[k].expires <= now + TTL
                      /\ \/ account'[k] = entries[k].user
                         \/ /\ left'[<<k, entries[k].user>>] # Never
                            /\ entries[k].expires
                                 <= left'[<<k, entries[k].user>>] + MaxDelay + TTL
    BY <1>1 DEF EntriesHold
  <2>1. /\ k \in Subjects /\ entries[k].user \in Users
        /\ entries[k].expires \in 0..(MaxTime + TTL)
    BY DEF IInv, TypeOK, Entry
  <2> QED
    BY <1>1, <1>4, <2>1, TimeAssumption, TTLAssumption, DelayAssumption
    DEF IInv, EntriesHold
<1> QED
  BY <1>1, <1>2, <1>3, <1>5, <1>6, SameCapacity DEF IInv

\* The clock moves no further than MaxDelay from a read that is not stored.
LEMMA TickStep ==
  ASSUME IInv, Tick
  PROVE  IInv'
<1>1. /\ now' = now + 1 /\ now \in Nat /\ now < MaxTime
      /\ UNCHANGED <<account, left, entries, lookup>>
  BY TimeAssumption DEF Tick, IInv, TypeOK
<1>2. TypeOK'
  BY <1>1, TimeAssumption DEF IInv, TypeOK
<1>3. LookupsFormed'
  BY <1>1, TimeAssumption, DelayAssumption
  DEF Tick, At, IInv, TypeOK, LookupsFormed, Lookup
<1>4. ReadsHold'
  BY <1>1 DEF IInv, ReadsHold
<1>5. EntriesHold'
  BY <1>1, TTLAssumption, TimeAssumption DEF IInv, TypeOK, EntriesHold, Entry
<1> QED
  BY <1>1, <1>2, <1>3, <1>4, <1>5, SameCapacity DEF IInv

\* A new instance starts with nothing.
LEMMA RestartStep ==
  ASSUME IInv, Restart
  PROVE  IInv'
<1>1. /\ UNCHANGED <<now, account, left>> /\ DOMAIN entries' = {}
      /\ lookup' = [r \in Requests |-> Idle]
      /\ entries' = [s \in {} |-> Idle]
  BY DEF Restart
<1>2. TypeOK'
  <2>1. Idle \in Lookup
    BY TimeAssumption DEF Idle, Lookup
  <2>2. entries' \in [DOMAIN entries' -> Entry]
    BY <1>1
  <2> QED
    BY <1>1, <2>1, <2>2 DEF IInv, TypeOK
<1>3. LookupsFormed' /\ ReadsHold'
  BY <1>1 DEF LookupsFormed, ReadsHold, Idle
<1>4. EntriesHold'
  BY <1>1 DEF EntriesHold
<1>5. CapacityRespected'
  BY <1>1, EmptyMap DEF CapacityRespected
<1> QED
  BY <1>2, <1>3, <1>4, <1>5 DEF IInv

\* Every step of the cache, or of what surrounds it, keeps the invariant.
LEMMA InvStep == IInv /\ [Next]_vars => IInv'
<1> SUFFICES ASSUME IInv, [Next]_vars PROVE IInv'
  OBVIOUS
<1>1. CASE UNCHANGED vars
  BY <1>1, SameCapacity
  DEF vars, IInv, TypeOK, LookupsFormed, ReadsHold, EntriesHold
<1>2. ASSUME NEW s \in Subjects, Hit(s) PROVE IInv'
  BY <1>1, <1>2 DEF Hit
<1>3. ASSUME NEW s \in Subjects, SignUp(s) PROVE IInv'
  BY <1>3, SignUpStep
<1>4. ASSUME NEW s \in Subjects, DeleteUser(s) PROVE IInv'
  BY <1>4, DeleteUserStep
<1>5. ASSUME NEW r \in Requests,
             Fetch(r) \/ FailFetch(r) \/ \E s \in Subjects : Miss(r, s)
      PROVE  IInv'
  BY <1>5, LookupStep
<1>6. ASSUME NEW r \in Requests, Store(r) PROVE IInv'
  BY <1>6, StoreStep
<1>7. CASE Tick
  BY <1>7, TickStep
<1>8. CASE Restart
  BY <1>8, RestartStep
<1> QED
  BY <1>1, <1>2, <1>3, <1>4, <1>5, <1>6, <1>7, <1>8 DEF Next

\* The dates of entries and of reads in progress hold in every state.
THEOREM Invariance == Spec => []IInv
<1>1. Init => IInv
  BY InvInit
<1>2. IInv /\ [Next]_vars => IInv'
  BY InvStep
<1> QED
  BY <1>1, <1>2, PTL DEF Spec

\* The dates of the invariant give the staleness of what is served.
LEMMA DatesBoundStaleness == IInv => StalenessBounded
<1> SUFFICES ASSUME IInv PROVE StalenessBounded
  OBVIOUS
<1>1. ASSUME NEW s \in Subjects, LiveEntry(s)
      PROVE  Lag(s, entries[s].user) < TTL + MaxDelay
  <2>0. s \in DOMAIN entries /\ now < entries[s].expires
    BY <1>1 DEF LiveEntry
  <2>1. /\ entries[s].user \in Users /\ entries[s].expires \in Nat
        /\ s \in DOMAIN entries /\ now < entries[s].expires
        /\ entries[s].expires <= now + TTL /\ now \in Nat
    <3>1. entries[s] \in Entry /\ now \in Time
      BY <2>0 DEF IInv, TypeOK
    <3>2. entries[s].expires <= now + TTL
      BY <2>0 DEF IInv, EntriesHold
    <3> QED
      BY <2>0, <3>1, <3>2, TTLAssumption, TimeAssumption DEF Entry
  <2>2. left[<<s, entries[s].user>>] \in Nat \cup {Never}
    BY <2>1, TimeAssumption DEF IInv, TypeOK
  <2>3. CASE account[s] = entries[s].user
    BY <2>1, <2>3, TTLAssumption, DelayAssumption DEF Lag
  <2>4. CASE account[s] # entries[s].user
    BY <2>1, <2>2, <2>4, TTLAssumption, DelayAssumption DEF Lag, IInv, EntriesHold
  <2> QED
    BY <2>3, <2>4
<1>2. ASSUME NEW r \in Requests, At(r, "store")
      PROVE  Lag(lookup[r].sub, lookup[r].user) <= MaxDelay
  <2> DEFINE s == lookup[r].sub
             u == lookup[r].user
  <2>1. /\ s \in Subjects /\ u \in Users /\ lookup[r].readAt \in Nat
        /\ now <= lookup[r].readAt + MaxDelay /\ now \in Nat
    BY <1>2, TimeAssumption DEF At, IInv, TypeOK, LookupsFormed, Lookup
  <2>2. left[<<s, u>>] \in Nat \cup {Never}
    BY <2>1, TimeAssumption DEF IInv, TypeOK
  <2>3. \/ account[s] = u
        \/ left[<<s, u>>] # Never /\ lookup[r].readAt <= left[<<s, u>>]
    BY <1>2 DEF At, IInv, ReadsHold
  <2> HIDE DEF s, u
  <2>4. Lag(s, u) <= MaxDelay
    BY <2>1, <2>2, <2>3, DelayAssumption DEF Lag
  <2> QED
    BY <2>4 DEF s, u
<1> QED
  BY <1>1, <1>2 DEF StalenessBounded

-----------------------------------------------------------------------------
\* Type correctness of the cache.
THEOREM CacheTyped == Spec => []TypeOK
  BY Invariance, PTL DEF IInv

\* Overlapping stores never push the map over its capacity: evictLocked runs in
\* the critical section of the store that needs the room.
THEOREM CacheWithinCapacity == Spec => []CapacityRespected
  BY Invariance, PTL DEF IInv

\* Whoever the map authenticates was the user of the subject less than
\* TTL + MaxDelay ago, however lookups, deletions and sign-ups overlap.
THEOREM CacheStaleness == Spec => []StalenessBounded
<1>1. IInv => StalenessBounded
  BY DatesBoundStaleness
<1> QED
  BY <1>1, Invariance, PTL

-----------------------------------------------------------------------------
(* What eviction gives up. *)

\* The keys of the entries that are served.
LiveKeys == {k \in DOMAIN entries : LiveEntry(k)}

\* There is room for one entry once evictLocked is through: it gives up nothing
\* that is served, or the map was full of such entries and it gives up one of
\* those that expire first.
LEMMA Eviction ==
  ASSUME IInv, NEW kept \in MakeRoom
  PROVE  /\ Cardinality(kept) < MaxEntries
         /\ \/ LiveKeys \subseteq kept
            \/ /\ Cardinality(LiveKeys) >= MaxEntries
               /\ \E k \in LiveKeys :
                    /\ LiveKeys \ kept = {k}
                    /\ \A j \in LiveKeys : entries[k].expires <= entries[j].expires
<1> DEFINE N == Cardinality(DOMAIN entries)
           L == Cardinality(LiveKeys)
<1>1. /\ IsFiniteSet(DOMAIN entries) /\ N \in Nat /\ N <= MaxEntries
      /\ LiveKeys \subseteq DOMAIN entries
  BY SubjectsAssumption, FS_Subset, FS_CardinalityType
  DEF IInv, TypeOK, CapacityRespected, LiveKeys
<1>2. IsFiniteSet(LiveKeys) /\ L \in Nat /\ L <= N
  BY <1>1, FS_Subset, FS_CardinalityType
<1>3. CASE N < MaxEntries
  BY <1>1, <1>3, CapacityAssumption DEF MakeRoom
<1>4. CASE N >= MaxEntries /\ L < MaxEntries
  BY <1>1, <1>2, <1>4, CapacityAssumption DEF MakeRoom, AfterEviction, LiveKeys
<1>5. CASE N >= MaxEntries /\ L >= MaxEntries
  <2>1. PICK k \in LiveKeys :
          /\ kept = LiveKeys \ {k}
          /\ \A j \in LiveKeys : entries[k].expires <= entries[j].expires
    BY <1>5 DEF MakeRoom, AfterEviction, LiveKeys
  <2>2. Cardinality(kept) = L - 1
    BY <1>2, <2>1, FS_RemoveElement
  <2> QED
    BY <1>1, <1>2, <1>5, <2>1, <2>2, CapacityAssumption
<1> QED
  BY <1>1, <1>2, <1>3, <1>4, <1>5, CapacityAssumption

\* What a store writes, there being room: the entry of r beside those that are kept.
LEMMA StoreWrites ==
  ASSUME IInv, NEW r \in Requests, Store(r)
  PROVE  \E kept \in MakeRoom :
           /\ DOMAIN entries' = kept \cup {lookup[r].sub}
           /\ entries'[lookup[r].sub].user = lookup[r].user
<1> DEFINE s == lookup[r].sub
           e == [user |-> lookup[r].user, expires |-> now + TTL]
<1>1. PICK kept \in MakeRoom :
        entries' = IF Cardinality(kept) < MaxEntries
                     THEN [k \in kept \cup {s} |-> IF k = s THEN e ELSE entries[k]]
                     ELSE [k \in kept |-> entries[k]]
  BY DEF Store
<1>2. entries' = [k \in kept \cup {s} |-> IF k = s THEN e ELSE entries[k]]
  BY <1>1, Eviction
<1> QED
  BY <1>2

\* Only its store, or a restart, ends a lookup that has its row.
LEMMA StoreEnds ==
  ASSUME IInv, [Next]_vars, NEW r \in Requests,
         At(r, "store"), At(r, "idle")', entries' # <<>>
  PROVE  Store(r)
<1>1. /\ lookup \in [Requests -> Lookup] /\ lookup[r].pc = "store"
      /\ lookup'[r].pc = "idle" /\ lookup' # lookup
  BY DEF At, IInv, TypeOK
<1>2. ASSUME NEW x \in Requests,
             Store(x) \/ Fetch(x) \/ FailFetch(x) \/ \E s \in Subjects : Miss(x, s)
      PROVE  x = r
  BY <1>1, <1>2 DEF Store, Fetch, FailFetch, Miss
<1>3. ~Restart
  BY DEF Restart
<1>4. \A s \in Subjects : ~(Hit(s) \/ SignUp(s) \/ DeleteUser(s))
  BY <1>1 DEF Hit, SignUp, DeleteUser, vars
<1>5. ~Tick /\ ~UNCHANGED vars
  BY <1>1 DEF Tick, vars
<1>6. ~Fetch(r) /\ ~FailFetch(r) /\ \A s \in Subjects : ~Miss(r, s)
  BY <1>1 DEF Fetch, FailFetch, Miss, At
<1> QED
  BY <1>2, <1>3, <1>4, <1>5, <1>6 DEF Next

\* The cache never silently disables itself: a store always finds room.
LEMMA KeptStep ==
  ASSUME IInv, [Next]_vars, NEW r \in Requests,
         At(r, "store"), At(r, "idle")', entries' # <<>>
  PROVE  /\ lookup[r].sub \in DOMAIN entries'
         /\ entries'[lookup[r].sub].user = lookup[r].user
  BY StoreEnds, StoreWrites

\* What leaves the map while it is served.
Lost == {s \in Subjects : LiveEntry(s) /\ s \notin DOMAIN entries'}

\* Only a store gives up what is served, unless the instance restarts.
LEMMA StoreLoses ==
  ASSUME IInv, [Next]_vars, entries' # <<>>, Lost # {}
  PROVE  \E r \in Requests : Store(r)
<1>1. entries' # entries
  BY DEF Lost, LiveEntry
<1>2. \A s \in Subjects : ~(Hit(s) \/ SignUp(s) \/ DeleteUser(s))
  BY <1>1 DEF Hit, SignUp, DeleteUser, vars
<1>3. \A r \in Requests : /\ ~Fetch(r) /\ ~FailFetch(r)
                          /\ \A s \in Subjects : ~Miss(r, s)
  BY <1>1 DEF Fetch, FailFetch, Miss
<1>4. ~Tick /\ ~UNCHANGED vars
  BY <1>1 DEF Tick, vars
<1>5. ~Restart
  BY DEF Restart
<1> QED
  BY <1>2, <1>3, <1>4, <1>5 DEF Next

\* What a store gives up of what is served is one entry, of a full map.
LEMMA SparedStep ==
  ASSUME IInv, [Next]_vars, entries' # <<>>, Lost # {}
  PROVE  /\ Cardinality(Lost) = 1
         /\ Cardinality({s \in Subjects : LiveEntry(s)}) >= MaxEntries
         /\ \A s \in Lost, t \in Subjects :
              LiveEntry(t) => entries[s].expires <= entries[t].expires
<1>1. PICK r \in Requests : Store(r)
  BY StoreLoses
<1>2. PICK kept \in MakeRoom : DOMAIN entries' = kept \cup {lookup[r].sub}
  BY <1>1, StoreWrites
<1>3. LiveKeys = {s \in Subjects : LiveEntry(s)}
  BY DEF LiveKeys, LiveEntry, IInv, TypeOK
<1>4. Lost \subseteq LiveKeys \ kept
  BY <1>2, <1>3 DEF Lost
<1>5. PICK k \in LiveKeys :
        /\ Cardinality(LiveKeys) >= MaxEntries
        /\ LiveKeys \ kept = {k}
        /\ \A j \in LiveKeys : entries[k].expires <= entries[j].expires
  BY <1>4, Eviction
<1>6. Lost = {k}
  BY <1>4, <1>5
<1>7. Cardinality(Lost) = 1
  BY <1>6, FS_Singleton
<1> QED
  BY <1>3, <1>5, <1>6, <1>7

\* The row a miss has read is in the map when the miss is answered, however full
\* the map and however many misses store at once (docs/DESIGN.md 5).
THEOREM CacheStores == Spec => StoreIsKept
<1>1. IInv /\ [Next]_vars =>
        [\A r \in Requests : At(r, "store") /\ At(r, "idle")' /\ entries' # <<>> =>
           /\ lookup[r].sub \in DOMAIN entries'
           /\ entries'[lookup[r].sub].user = lookup[r].user]_vars
  BY KeptStep
<1> QED
  BY <1>1, Invariance, PTL DEF Spec, StoreIsKept

\* evictLocked gives up an entry that is still served only when such entries fill
\* the map, one at a time and the first to expire.
THEOREM CacheSparesLive == Spec => EvictionSparesLive
<1>1. IInv /\ [Next]_vars =>
        [LET lost == {s \in Subjects : LiveEntry(s) /\ s \notin DOMAIN entries'} IN
         entries' # <<>> /\ now' = now /\ lost # {} =>
           /\ Cardinality(lost) = 1
           /\ Cardinality({s \in Subjects : LiveEntry(s)}) >= MaxEntries
           /\ \A s \in lost, t \in Subjects :
                LiveEntry(t) => entries[s].expires <= entries[t].expires]_vars
  BY SparedStep DEF Lost
<1> QED
  BY <1>1, Invariance, PTL DEF Spec, EvictionSparesLive

-----------------------------------------------------------------------------
(* The cache implements the resolver. *)

\* A step that changes neither the users nor what is served.
LEMMA SameAnswers ==
  ASSUME UNCHANGED <<now, account, left, entries>>
  PROVE  UNCHANGED <<account, Gone, Served>>
<1>1. \A s \in Subjects : LiveEntry(s)' = LiveEntry(s)
  BY DEF LiveEntry
<1> QED
  BY <1>1 DEF Gone, Served

\* Entries that leave the map, or expire, are forgotten.
LEMMA Forgets ==
  ASSUME UNCHANGED <<account, left>>,
         \A s \in Subjects : LiveEntry(s)' => LiveEntry(s) /\ entries'[s] = entries[s]
  PROVE  AsResolver!Next
<1> DEFINE gone == {s \in Subjects : ~LiveEntry(s)'}
<1>1. Served' = [s \in Subjects |-> IF s \in gone THEN Null ELSE Served[s]]
  BY DEF Served
<1>2. Gone' = Gone
  BY DEF Gone
<1>3. AsResolver!Forget(gone)
  BY <1>1, <1>2 DEF AsResolver!Forget
<1> QED
  BY <1>3 DEF AsResolver!Next

\* A store is of a row the subject has or has had; there being room, it is in the map.
LEMMA StoreAnswers ==
  ASSUME IInv, NEW r \in Requests, Store(r)
  PROVE  AsResolver!Next
<1>0. lookup[r].sub \in Subjects /\ lookup[r].user \in Users /\ lookup[r].pc = "store"
  BY DEF Store, At, IInv, LookupsFormed
<1> PICK s \in Subjects, u \in Users : s = lookup[r].sub /\ u = lookup[r].user
  BY <1>0
<1> DEFINE e == [user |-> u, expires |-> now + TTL]
<1>1. UNCHANGED <<now, account, left>>
  BY DEF Store
<1>2. account[s] = u \/ <<s, u>> \in Gone
  BY <1>0 DEF IInv, ReadsHold, Gone
<1>3. PICK kept \in MakeRoom :
        entries' = IF Cardinality(kept) < MaxEntries
                     THEN [k \in kept \cup {s} |-> IF k = s THEN e ELSE entries[k]]
                     ELSE [k \in kept |-> entries[k]]
  BY DEF Store
<1>4. entries' = [k \in kept \cup {s} |-> IF k = s THEN e ELSE entries[k]]
  BY <1>3, Eviction
<1>5. kept \subseteq DOMAIN entries
  BY RoomIsOfKeys
<1>6. ASSUME NEW t \in Subjects, t # s
      PROVE  LiveEntry(t)' => LiveEntry(t) /\ entries'[t] = entries[t]
  BY <1>1, <1>4, <1>5, <1>6 DEF LiveEntry
<1>7. CASE ~LiveEntry(s)'
  <2>1. \A t \in Subjects : LiveEntry(t)' => LiveEntry(t) /\ entries'[t] = entries[t]
    BY <1>6, <1>7
  <2> QED
    BY <1>1, <2>1, Forgets
<1>8. CASE LiveEntry(s)'
  <2> DEFINE evicted == {t \in Subjects : ~LiveEntry(t)'}
  <2>1. entries'[s].user = u
    BY <1>4
  <2> HIDE DEF e
  <2>2. Served' = [t \in Subjects |-> IF t = s THEN u
                                      ELSE IF t \in evicted THEN Null ELSE Served[t]]
    <3>1. Served' = [t \in Subjects |-> IF LiveEntry(t)' THEN entries'[t].user ELSE Null]
      BY DEF Served
    <3>2. ASSUME NEW t \in Subjects
          PROVE  (IF LiveEntry(t)' THEN entries'[t].user ELSE Null)
                   = IF t = s THEN u ELSE IF t \in evicted THEN Null ELSE Served[t]
      BY <1>6, <1>8, <2>1, <3>2 DEF Served
    <3> HIDE DEF evicted
    <3> QED
      BY <3>1, <3>2
  <2>3. Gone' = Gone
    BY <1>1 DEF Gone
  <2>4. AsResolver!Store(s, u, evicted)
    BY <1>1, <1>2, <2>2, <2>3 DEF AsResolver!Store, AsResolver!HadBy
  <2> QED
    BY <1>1, <2>4 DEF AsResolver!Next
<1> QED
  BY <1>7, <1>8

\* Users come and go without the cache.
LEMMA UsersChange ==
  ASSUME IInv, NEW s \in Subjects, SignUp(s) \/ DeleteUser(s)
  PROVE  AsResolver!Next
<1>1. Served' = Served
  BY DEF SignUp, DeleteUser, Served, LiveEntry
<1>2. CASE SignUp(s)
  <2>1. PICK u \in Users : /\ \A t \in Subjects : account[t] # u /\ left[<<t, u>>] = Never
                           /\ account' = [account EXCEPT ![s] = u]
    BY <1>2 DEF SignUp
  <2>2. account[s] = Null /\ Gone' = Gone
    BY <1>2 DEF SignUp, Gone
  <2>3. u \in AsResolver!FreshIds
    BY <2>1 DEF AsResolver!FreshIds, AsResolver!HadBy, Gone
  <2>4. AsResolver!SignUp(s)
    BY <1>1, <2>1, <2>2, <2>3 DEF AsResolver!SignUp
  <2> QED
    BY <2>4 DEF AsResolver!Next
<1>3. CASE DeleteUser(s)
  <2>1. /\ account[s] \in Users /\ account' = [account EXCEPT ![s] = Null]
        /\ left' = [left EXCEPT ![<<s, account[s]>>] = now] /\ now # Never
        /\ left \in [Subjects \X Users -> Time \cup {Never}]
    BY <1>3, TimeAssumption DEF DeleteUser, IInv, TypeOK
  <2>2. Gone' = Gone \cup {<<s, account[s]>>}
    BY <2>1 DEF Gone
  <2>3. AsResolver!DeleteUser(s)
    BY <1>1, <1>3, <2>1, <2>2 DEF DeleteUser, AsResolver!DeleteUser
  <2> QED
    BY <2>3 DEF AsResolver!Next
<1> QED
  BY <1>2, <1>3

\* Each step of the cache is one of the resolver, or changes nothing it speaks of.
LEMMA ResolverStep ==
  ASSUME IInv, [Next]_vars
  PROVE  AsResolver!Next \/ UNCHANGED <<account, Gone, Served>>
<1>1. CASE UNCHANGED vars
  BY <1>1, SameAnswers DEF vars
<1>2. ASSUME NEW s \in Subjects, Hit(s) PROVE UNCHANGED <<account, Gone, Served>>
  BY <1>2, SameAnswers DEF Hit, vars
<1>3. ASSUME NEW r \in Requests,
             Fetch(r) \/ FailFetch(r) \/ \E s \in Subjects : Miss(r, s)
      PROVE  UNCHANGED <<account, Gone, Served>>
  BY <1>3, SameAnswers DEF Fetch, FailFetch, Miss
<1>4. CASE Tick
  <2>1. now' = now + 1 /\ now \in Nat /\ UNCHANGED <<account, left, entries>>
    BY <1>4, TimeAssumption DEF Tick, IInv, TypeOK
  <2>2. ASSUME NEW s \in Subjects, LiveEntry(s)' PROVE LiveEntry(s)
    <3>1. s \in DOMAIN entries /\ now + 1 < entries[s].expires
      BY <2>1, <2>2 DEF LiveEntry
    <3>2. entries[s].expires \in Nat
      BY <3>1, TimeAssumption, TTLAssumption DEF IInv, TypeOK, Entry
    <3> QED
      BY <2>1, <3>1, <3>2 DEF LiveEntry
  <2> QED
    BY <2>1, <2>2, Forgets
<1>5. CASE Restart
  BY <1>5, Forgets DEF Restart, LiveEntry
<1>6. ASSUME NEW r \in Requests, Store(r) PROVE AsResolver!Next
  BY <1>6, StoreAnswers
<1>7. ASSUME NEW s \in Subjects, SignUp(s) \/ DeleteUser(s) PROVE AsResolver!Next
  BY <1>7, UsersChange
<1> QED
  BY <1>1, <1>2, <1>3, <1>4, <1>5, <1>6, <1>7 DEF Next

\* The map answers with a user that the subject has or has had, whatever lookups
\* read and store meanwhile (GetUserByEmail and its two critical sections).
THEOREM CacheResolves == Spec => ImplementsResolver
<1>1. Init => AsResolver!Init
  BY DEF Init, AsResolver!Init, LiveEntry, Served, Gone
<1>2. IInv /\ [Next]_vars => [AsResolver!Next]_<<account, Gone, Served>>
  BY ResolverStep
<1> QED
  BY <1>1, <1>2, Invariance, PTL
  DEF Spec, ImplementsResolver, AsResolver!Spec
=============================================================================
