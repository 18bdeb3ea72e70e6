# A verification of the sandbox service

The repository is a Go HTTP service in front of PostgreSQL, Redis and an OAuth2 provider (Ory
Hydra). Users own projects, projects have members and sandboxes, and a plan caps how many projects
a user owns and how many of the sandboxes they created run at once. Its own logic is small; what is
hard about it is that every request is a short sequence of SQL statements or Redis commands, without
locks, and that requests of several instances interleave between them. This directory models that,
checks it with TLC on small instances, and proves the central results with TLAPS for every instance.

## 1. Inventory

| Component | State it keeps | Operations | Hard behaviour | Correct when |
|---|---|---|---|---|
| Sandbox lifecycle (`service/sandbox.go`, `handler/sandbox.go`, `db/sandboxes.sql.go`) | `sandboxes` rows; running is `stopped_at IS NULL` | Create, Restart, Stop, List | 1 to 4 autocommitted statements per request; revocations, deletions, other requests between them | a change is made by a member, quotas hold up to the documented overshoot, answers are true |
| Plan quotas (`checkRunningQuota`, `planUsage`, `plans`) | `plans`, read only | count, then create | count and write are separate | overshoot bounded by the requests in flight |
| Projects and access list (`service/project.go`, `handler/project.go`) | `projects`, `project_users` | Create, AddMember, Get, List | transactions, unique indexes that make inserts wait, foreign keys, lost COMMIT answers | owner is a member, names are unique per owner, only owners invite, nobody waits forever |
| Membership middleware (`middleware/membership.go`) | none | one LEFT JOIN per request | what it read is old when the handler writes | see the two rows above |
| User cache (`middleware/user_cache.go`) | map of at most 10000 entries, per instance | lookup, fetch, store, evict | mutex is released during the database read | answers only with users of the subject, bounded staleness, bounded size, never refuses to cache |
| Rate limiter (`middleware/ratelimit.go`) | a Redis counter per subject and minute | INCR, EXPIRE, TTL | separate commands, lost replies, process death, minute boundary | limit per minute, useful Retry-After, keys expire |
| Connection pool (`main.go` openDB) | open connections, at most `DB_MAX_OPEN_CONNS` | borrow, return | a request that holds one and wants another | every request is answered |
| OAuth login (`handler/auth.go`, `service/auth.go`) | state cookie; `users` | Login, Callback, upsert | several logins in one browser, reloaded callbacks, lost answers, concurrent first logins | a login ends where it began, a spent state stays spent, one user per subject |
| JWT authentication (`middleware/auth.go`) | none | check claims, resolve the subject | a check that differs from the callback's; a user id from the cache that is not the subject's any more; expiry | a token acts as the user it was answered with, or as one the cache has kept |
| Startup and shutdown (`main.go`, `jwks/provider.go`) | key set, HTTP server, schema version | migrate, load and refresh the key set, drain, close | racing instances, death in the middle of the migration, a provider that is late, requests in flight at the signal | nobody serves without the tables, a race alone leaves nothing half migrated, starting and stopping end |
| Pagination (`pagination/`, list queries, `parsePagination`) | none | parse, page, total | two statements, and rows that come and go between pages | a walk misses and repeats no more than what changed under it |
| Request pipeline (`server/`, `handler/error.go`) | none | the order of the middlewares | what a middleware read is old in the handler | see the services and authentication |
| Health check (`handler/health.go`) | whether the key set was loaded at startup | `GET /health` | none of its own: one flag is fixed at startup, the database is asked each time | not modelled (section 6) |
| Logging, DTOs, documentation pages, configuration | none | formatting, reading the environment | none | |

Components interact through PostgreSQL (all services and the middleware), Redis (the limiters of all
instances), and, in one process, the user cache. The operator is an actor too: memberships are revoked
and users and projects deleted only by hand, in SQL (no endpoint does it).

`PROJECT.json` lists every component with its status and every hazard at its line.

## 2. Plan

Written, in this order, the behaviour that matters most first:

1. `SoftQuota`, `SandboxService` and `SandboxServiceProofs`, `SandboxAnswers`;
2. `AccessList`, `ProjectService` and `ProjectServiceProofs`, which implements `AccessList` and the same `SoftQuota`;
3. `Resolver`, `UserCache` and `UserCacheProofs`, `RateLimiter` and `RateLimiterProofs`;
4. `Listing` and `ListingProofs`, `AuthFlow` and `AuthFlowProofs`, `Lifecycle` and `LifecycleProofs`.

What could follow: the lifetime of idle connections in `ProjectService`; an abstract specification of the sandbox
tables, as `AccessList` is one of the project tables; a theorem about walks through a list that does not change
(that they are exact is a corollary of `MissedAtMostRemoved` and `RepeatedAtMostInserted`); several instances in
`AuthFlow`, each with a cache of its own (today one).

## 3. Modules

`SoftQuota` is the abstract specification of a "count, then create" quota: a request is granted while
the user is below the cap, and lands (once) later. `SandboxService` and `ProjectService` implement it
(`Quota == INSTANCE SoftQuota WITH ...`, checked as a property): in the first, `used` is the number of
running sandboxes a user created and `granted` the requests between check and INSERT or UPDATE; in the
second, `used` is the number of owned projects and `granted` the requests between check and COMMIT.

`SandboxService`: one slot of `request` per goroutine; its `pc` names the next statement.
`CheckMembership` is the middleware, `CheckRunningQuota`, `CreateSandbox`, `LookupSandbox`,
`RestartSandbox`, `RereadSandbox`, `StopSandbox`, `ExplainStop` the statements of `Create`, `Restart` and
`Stop`. `members`, `projects`, `state`, `row` are the tables. `FailStatement` is any statement that
fails or is cancelled, `WriteAnswer` a write that committed and whose answer was lost, `Crash(dead)` the
death of an instance with any subset of the requests (the subset it served).

`SandboxAnswers` extends it with a history variable: the conditions (hidden, running, stopped) the named
sandbox went through while a request was served. `HNext` is `Next` with a value for that variable and no guard.

`ProjectService`: transactions are READ COMMITTED. The operator deletes users and projects and revokes memberships
(`RevokeMember`), but not the owner's own: no endpoint could give it back, and
`AccessListConsistent` assumes it. What a transaction has written stays in its
`request` until `CommitProject` or `CommitMember`. `NamePending` and `MemberPending` are the waits of
unique indexes on uncommitted rows, `UserLocked` and `ProjectLocked` the row locks that foreign keys
take. `ConnectionFree` is the pool; a request in `InTransaction` holds a connection. `Waits` gathers what a request
can wait for, a connection or the end of another transaction, and every statement has it in its guard (`Runs`).

`AccessList` is the abstract specification of the project tables: a project appears with its owner's membership,
a member joins by invitation of the owner, a membership is revoked, a user or a project goes with its memberships, each in one step.
`ProjectService` implements it (`List == INSTANCE AccessList`, `ImplementsAccessList`): its variables are those
tables as committed, so the mapping is the identity, and what it hides is the requests. `Create` and `Invite` are
the commits, all statements before them are stutters, and a commit whose answer is lost is still one step.

`Resolver` is what the rest of the service may rely on when it asks for the user of a subject: it gets a user that the
subject has or has had, and changes its mind only when a row is stored or forgotten. `UserCache` implements it
(`ImplementsResolver`: what it answers is `Served`, the live entries), and `AuthFlow` is built on it
(`AsResolver`): that is how the two meet without multiplying their states.

`UserCache`: `Miss` is the first critical section of `GetUserByEmail`, `Fetch` the database read,
`Store` the second critical section with `evictLocked`. `left` is a history variable: when an id stopped
being that of a subject.

`RateLimiter`: `Incr`, `Expire`, `Decide`, `Reject` are the commands and decisions of
`enforceRateLimit`; `IncrFails` and `ExpireFails` are commands that got no reply, applied or not, which
the Redis client repeats (it is built with its default options, which repeat) or reports. A subject is a
user id or an IP: the two limiters differ only in the key. `faults` is a history variable: the keys with a
command that got no reply or a request that died.

`Listing`: one client walks one of the two list endpoints, page after page, while rows appear and disappear.
`ParsePagination` is `parsePagination` with its conversions to int32, which are those of a width named
`MaxInt32`; `Statements` is the order of the page and the count; `Window` is LIMIT and OFFSET; `LastPage` is the
`total_pages` of the answer, against which the client decides whether to go on. A row is its rank in the
ORDER BY, which never changes. The list the client does not walk is left empty.

`AuthFlow`: `Login`, `Callback`, `ExchangeCode`, `FindOrCreateUser` are the steps of signing in, `Deliver` the
moment an answer and its clearing cookie reach the browser. A callback carries the cookie the browser had when
it was sent. `Decide` and `Send` are the provider and the browser, which may send any link to the callback it has
been given, also one of another browser. The links are those the provider issued, so that a state comes with the
code of the same login; the code reads the two from parameters of their own. `ClaimsAccepted` and `TokenAccepted`
are the checks of the callback and of `JWTAuth`, each translated from its own lines: they differ where no client id is
configured. In the run one is, since
`config.go:35` has a fallback; the theorems hold for both. `ExpireToken` is the clock reaching the expiry at any moment, also between
the two checks. The `nbf` and `iat` claims and the signature are left out: the provider sets the first two from the
one clock there is, and it signs with RS256. `JWTAuth` is what the middleware makes of a token: it asks `Resolver`, of which
`CacheUser` (a request with a token of the subject has missed and stores what it read, which may be gone by now), `DropUser`
(expiry, eviction) and `DeleteUser` are the steps.

`Lifecycle`: `pc` says where in `main` an instance is: `OpenDB`, `TakeLock`, `RunMigrations`, `Migrate` (the
steps of golang-migrate: mark the version dirty, apply the file, mark it clean), `ConnectJWKS`, serving, `Shutdown`,
`Exit`. The version table and the tables are shared; `up` is what can be reached. docs/DESIGN.md:305-307 and
docs/IMPROVEMENTS.md:104 say that the migrator takes no lock, while the PostgreSQL driver of golang-migrate
takes an advisory one and gives up after 15 s: `locks`, chosen in `Init`, covers both. Without it a race may
leave the version dirty though the tables are there, after which no instance starts. With it, that takes a fault as
well: `broken` is a history variable, whether a migration that had begun failed or died (`DirtyOnlyByFault`). A
statement of the migration may also take effect and lose its answer.

### Abstractions

- A statement is atomic. The membership joins of `RestartSandbox` and `StopSandbox` are evaluated when the
  row is written; PostgreSQL re-evaluates the row it waits for, not the joined one, a difference
  inside one statement that is not modelled.
- `GetUserPlan` and the count are one step: plan rows are never written. `LIMIT` is kept in
  `CountRunning`; it does not change the comparison in `ProjectService`, where it is left out.
- Names and ids are opaque; `Lower` is the collation of the unique indexes. Trimming and length
  checks of the handlers only decide which requests arrive.
- Users are not deleted in `SandboxService`, since `sandboxes.user_id` forbids it for creators;
  `ProjectService` deletes users but has no sandboxes, so it allows more deletions than the database does.
- One clock stands for the clocks of the instances, PostgreSQL and Redis. Redis neither loses its keys nor
  evicts them.
- A Redis reply of a negative TTL is 0 in `TTLReply`: the code treats both alike. TTL replies in whole
  seconds, to the nearest.
- In `Lifecycle`, `connectRedis` only logs and is left out; so is the `ctx.Done` branch of `connectJWKS`, since
  the context is cancelled in the cleanup only, after it has returned. `Attempts` to load the key set are 5 in the
  code and a constant here. The key set is refreshed every 5 minutes and never for an unknown key; the provider
  publishes its old keys with the new one.
- `CookieExpires` may happen at any time: the clock of the cookie is not modelled.

## 4. Runs

| Run | Question | Bounds | Result |
|---|---|---|---|
| `sandbox_concurrent` | quota, charging, membership and true answers under interleaving | 2 users (cap 1, unlimited), 2 sandboxes, 2 different names, 2 requests, operator SQL; 2 projects, of which more than one is in use only as long as there is one sandbox at most and one slot that served requests (`MCNarrow`) | holds |
| `sandbox_creation` | is a creator a member when the row appears? | as above, with 1 project | violated (finding) |
| `project_tables` | access list (and its abstract specification), names, quota, invitations | 2 emails, 2 user ids, 2 projects, the names "api", "API" and "web", 2 requests, pool of 2, operator SQL | holds |
| `project_waits` | is every request answered, can one always go on, and by how much do owned projects go over the cap, with fewer connections than requests and names to wait for? | 1 user with a cap of 1, 4 projects, 1 name, 3 requests, 2 connections | holds |
| `project_lookup` | does AddMember's transaction pin the user? | as `project_tables` | violated (finding) |
| `cache` | whom it answers with, staleness, capacity, eviction | 3 subjects, capacity 2, TTL 2, store delay 1, 2 lookups, 4 ticks | holds |
| `cache_stale` | is an entry stale for at most the TTL? | 2 subjects, 2 users, TTL 4, store delay 2, 1 lookup, 6 ticks | violated (finding) |
| `limiter` | limit per minute, Retry-After, leaked keys | 1 subject, limit 1, 2 requests, 1 repeat, 6 ticks a minute (a tick is 1/3 s), up to 8 ticks | holds |
| `listing` | what does a walk miss, what does it see twice, what reaches SQL? | 5 ranks, limits up to 3, `MaxInt32` 7, 2 insertions and 2 removals, 7 raw values each for limit and offset, or none | holds |
| `login` | where logins end, whom tokens act as, whether a state can be used again | 2 browsers, 2 logins, 2 subjects, 2 user ids, 2 callbacks at a time, a wrong issuer and expiry as faults, a cache | holds |
| `lifecycle` | serving without tables, a dirty schema, starting, stopping, key changes | 2 instances started twice each, 2 attempts, 1 change of keys, an existing schema or none, a lock or none | holds |
| `lifecycle_drain` | does the shutdown wait for requests in flight? | as `lifecycle` | violated (finding) |

Why the bounds suffice: the races are between two requests, or one request and the operator, over one
sandbox, name or key, and each instance has two of what must be told apart (projects, users, names equal
and different under `Lower`, a limited and an unlimited plan). A cap of 1 with two requests is the smallest
case in which a quota is overshot: the limited user of `project_tables` comes to own both projects, of two names.
`project_waits` has four projects, since with fewer even a wrong count could not pass its bound (one project and
three granted requests). The cache has one subject more than entries, so that eviction happens with live and with
expired entries; four ticks are two TTLs. In `cache_stale` the six ticks are the TTL and the delay, which is what it
takes to be stale for longer than the TTL: a row is read and its user deleted in the first instant, it is stored two
ticks later, and three after that the TTL is over and the entry is not. The clock of `limiter` crosses one minute, which is
where keys restart, and runs in thirds of a second so that Redis rounds a TTL down. Ids that are never used
twice (`FreeIds`, `Unborn`) bound the creations of a behaviour; `MaxTime`, `MaxHits` and `MaxRetries`
bound the rest, and are named where they are declared.

`listing` has five ranks, so that a walk takes up to five pages and rows come and go on both sides of the page
it is on; two insertions and two removals tell "one row each" from "one row". An `MaxInt32` of 7 is past the
rows, as the real one is, and raw values lie below zero, at it, at the limit and past each bound. The races of
`login` are between two callbacks: of one state or two, in one browser or two, of one subject or two. Two user ids are enough for one
subject to be deleted and created again while the cache has the first id, and for two subjects to sign in; a claim
fault of each kind would only repeat the one branch of each check. The race of `lifecycle` is between two migrators; the second start is
the one that meets what the first left behind; two attempts have a first, which may fail, and a last. `MaxChanges`,
`MaxStarts` and `MaxRotations` are the bounds; each of the theorems of section 5 holds without them being small.

With a second project in use, `sandbox_concurrent` has what only that shows (a restart through another
project's path) and leaves out what repeats the rest; names equal under `Lower` are in `project_tables`, whose unique
index is of the same form. With one request at a time the bound is the cap itself: that is not run but proved
(`OneAtATimeRespectsCap`).

Symmetry is used for ids and request slots, and for names where no two are equal under `Lower`; it is
not used in the runs that check liveness.

`MaxDelay` in `UserCache` is an assumption on the deployment, not on the code: nothing in the code limits the
time between a read and its store except the request's context. The results hold for every value of it.

### Fairness

`Answered` needs strong fairness of `Advance(r)`, the next statement of a request, when it does not
fail. A waiting request is enabled again and again as connections and locks are returned; `database/sql`
hands a returned connection to a waiting request, in order, and PostgreSQL wakes the waiters of a
transaction that ends, so a request that is let through again and again goes. Failures, arrivals,
crashes and the operator have no fairness.

`Settles` and `KeysCatchUp` need weak fairness of `Step(i)` and of `RefreshKeys(i)`. `main` is one goroutine that
goes on by itself: its waits are a ping, a wait for the migrator's lock that ends after 15 s (so that `TakeLock`
is always enabled), attempts that are counted and `e.Shutdown`, which has a deadline. The refresh of the key set is
a ticker of the library. Nothing is assumed of signals, deaths, dependencies or the requests in flight: in
particular no request needs to finish for a shutdown to end.

The mutant that sends the owner's INSERT to the pool instead of the
transaction deadlocks `project_waits`, which is what that run is for. Waits for an uncommitted membership have the
same form as those for a name; they occur in `project_tables`, not in the liveness run.

### Findings

Four disagreements between the code and what is written about it. Each is a run that TLC violates;
`PROJECT.json` quotes both sides.

- Creating a sandbox does not join the access list (`sandbox_creation`): the INSERT is the only statement that writes
  a sandbox without the join. The list and the counts do not join either; they read, behind the middleware.
- AddMember's transaction does not keep the user from being deleted (`project_lookup`); the foreign key does
  catch it, and the client is told that the project is missing.
- The cache is stale for longer than its TTL (`cache_stale`): an entry is dated when it is stored, not when it was
  read. What holds is the TTL plus the time between the two (`StalenessBounded`).
- Shutting down does not drain (`lifecycle_drain`): `runServer` gives echo an `http.Server` of its own, and
  `e.Shutdown` shuts down only the servers that echo keeps, so it returns at once and the cleanup closes the pool
  under the requests in flight.

What the models say where the code does less than one might expect, without a run of its own:

- A restart that loses its race may answer 200 with a sandbox that has been stopped since (`TrueOf`).
- A rate limit key leaks for a lost reply or a dead process, and only then (`LeakedOnlyByFault`); docs/DESIGN.md:347
  counts one leaked key per crash.
- Creating a project for a user who has been deleted answers a raw foreign key error, a 500 (`RawForeignKeyError` of
  `InsertProject`), where docs/DESIGN.md:300-301 says "no raw FK 500s". It takes one step of the operator between
  authentication and the INSERT, or a stale entry of the cache.
- A state is "single-use" (docs/DESIGN.md:119) from the moment the clearing answer has arrived
  (`SpentStateStaysSpent`): until then, or if that answer is lost, a reloaded callback passes the comparison again,
  and fails on its code.
- The cookie that clears one login also clears a login begun since; that one then fails with a 400 (`ClearCookie`).
- A token may act as an earlier user of its subject for as long as the cache keeps that one
  (`TokensActAsAnswered`); the requests then fail on foreign keys or find nothing, since the row is gone.
- An instance that starts without a key set never asks for one again: `KeysCatchUp` is about instances that have
  one.

## 5. Proofs

`tlapm` checks the following for every value of the constants that satisfies the named assumptions.

- `SoftQuota!QuotaOvershootBounded`: used + granted <= cap - 1 + number of request slots. It holds
  because a grant happens below the cap, and from there on each slot adds at most one. Its hypothesis
  `QuotaConstants` (finite `Requests`, a natural `Cap`) is proved of the constants of `SandboxService`.
- `SandboxServiceProofs!ChargesCreator`: the inductive invariant `ChargedToCreator`, which joins
  the types, the presence of rows, and what each request knows at each statement (`RequestFormed`). Types
  alone are not inductive: a statement dereferences the row of the sandbox that an earlier one has
  read, and it must still be there.
- `SandboxServiceProofs!SandboxImplementsSoftQuota`: each step of the service is a grant, a landing, a shrinking
  or a stutter of the quota. A restart or create lands on the user it was granted to because of
  `ChargedToCreator`. `RunningBounded` follows with the theorem about the quota, and from it
  `OneAtATimeRespectsCap`: with a single slot the cap itself holds.
- `SandboxServiceProofs!LifecycleProtected`: every step that stops or restarts a sandbox is by a member.
- `SandboxServiceProofs!AnswersAreTrue`: an answer states a condition that held while the request was served. The
  inductive invariant `HInv` joins to `ChargedToCreator` two things about each request: it names a sandbox whose
  row is there as soon as it has one (`Named`), and the condition of that sandbox now, and what the statement it
  has run said of it, are among those witnessed (`Witnessed`). The answer property alone is about idle requests and
  is not inductive. That the history variable excludes no behaviour of the service needs a quantified
  variable, which TLAPS has not; it is evident from `HNext`.
- `UserCacheProofs`: `CacheTyped`, `CacheWithinCapacity`, `CacheStaleness`, from the invariant `IInv`. It dates
  what is known: what a lookup has read is still so or ended after it was read (`ReadsHold`), and an
  entry whose user has gone expires at most MaxDelay + TTL after that (`EntriesHold`). Staleness
  alone is not inductive: it says nothing of entries that are not live yet served later, nor of reads on their way.
  `CacheStores` and `CacheSparesLive` are about one step, the store, from the lemma `Eviction`: what `evictLocked`
  returns is the map without the expired entries, or, when none has expired, without one entry that
  expires no later than any other. With the type invariant the store then finds room.
- `UserCacheProofs!CacheResolves`: each step of the cache is a step of `Resolver` or leaves what it answers as it
  is. The store is allowed because of `ReadsHold`: the row it stores is the subject's, or was. Time passing, evictions
  and restarts only forget.
- `ProjectServiceProofs`: `ProjectServiceTyped`, `AccessListHolds`, `NamesStayUnique`, `OwnersInvite` and
  `ProjectsImplementSoftQuota`. The tables alone are not inductive, since a commit makes true what the transaction
  wrote earlier: `RequestsFormed` says what each request still knows at each statement (the row it inserted has an
  owner who exists and a name nobody has committed; the user it found and locked is there), and `InsertsApart` that
  no two uncommitted inserts clash on either key, which is what the waits of the unique index are for. From
  `NullAssumption`, finite `Requests` and `Projects`. `OwnedBounded` follows from `ProjectsImplementSoftQuota` and the
  theorem about the quota.
- `ProjectServiceProofs!ServiceKeepsAccessList`: each step is a step of `AccessList` or leaves the tables alone. A
  commit is allowed at its moment by the same invariant: `RequestsFormed` for the owner of the new project and for the
  invited user, `InsertsApart` and the waits for its name. An invitation takes the owner's role from an earlier
  statement; it still holds because no code changes an owner and a project that is gone fails the foreign key.
- `ProjectServiceProofs!NeverAtAStandstill`: while requests are in flight, one of them does not wait, for every
  positive `MaxOpenConns`. If some transaction is open, one that has inserted its key waits for nothing; a transaction
  that has inserted nothing waits only for one that has. If none is open, the pool has a connection. The theorem is
  about `Waits`, the guard the statements share; that the next statement is then ENABLED is left to TLC, which
  finds no deadlock and checks `Answered`.
- `RateLimiterProofs`: `RateLimiterTyped`, `MinuteIsLimited`, `FaultsLeak`, `WaitSuffices`. `ExpiryLate`: a
  TTL ends after the minute of its key, since it is set after the minute has begun. So the counter does not restart
  within the minute, and `WithinBudget` bounds the requests let through together with those that are going to be
  (`Pending`) by the counter, and by the limit for good. `WaitSuffices` adds the arithmetic of rounding to the
  nearest second.
- `ListingProofs`: `ListingTyped`, `WalkMissesLittle`, `WalkRepeatsLittle`. The invariant counts, at every moment of a
  walk, the rows that are due and already out of its reach (`Owed`: removed, or in front of the offset and not
  seen) and the rows seen that lie ahead of it again (`Ahead`). A removal adds at most one to the first, an insertion
  at most one to the second, and a page neither. `AtEnd` carries it past the total that ends the walk, which is why
  the order of the two statements matters. It assumes that a list is no longer than `MaxInt32`, past which offsets
  are clamped.
- `AuthFlowProofs`: `AuthFlowTyped`, `LoginCompletesWhereBegun`, `SignedInActs`, `ClosedStateStaysSpent`. A
  browser holds only states it was given itself (`CookiesOwn`), a cleared state was given out and is held by nobody
  (`ClosedGone`), hence it can never be given out again; tokens signed in have claims that both checks accept and an
  id that is the subject's or has been deleted, and the cache has for each subject an id that is or was its own
  (`SignedInHolds`, `CachedHolds`). `SignedInActs` is stated over `Resolver`, so with `CacheResolves` it is about
  the cache.
- `LifecycleProofs`: `LifecycleTyped`, `SchemaServed`, `DirtyByFault`. `TablesThere` says when the tables must be
  there: when the version is clean, and from the moment an instance is about to mark it so. It needs no lock: an
  instance that finds the version dirty exits, and one that finds the tables there already fails and exits too.
  `DirtyByFault` does need it: who migrates holds the lock (`LockHeld`), so what it has read of the schema still holds
  when it goes on (`OneMigrates`).

Named assumptions on the constants say no more than the code does: natural or positive bounds, finite sets, and
`Null` distinct from what it stands in for.

Only model-checked, and for good: the liveness properties `Answered`, `Settles` and `KeysCatchUp`, since the prover
has neither ENABLED nor fairness. Every safety invariant and action property of the passing runs is a theorem.

## 6. Not modelled

- Logging, DTOs, the documentation pages and the reading of the environment: no state and no
  decision that another part depends on. The values of the environment are constants of the modules.
- Of the request pipeline: panics and their recovery, request ids, body limits and the wording of errors.
- Of the connection pool: idle connections and their lifetime.
- Of authentication: the syntax of the header, and the signature and the `nbf` claim, which a library checks. A callback
  whose code belongs to another login than its state.
- The health check: its answer is a ping and a flag fixed at startup, a case distinction with no step of its own. Whether
  requests fail while it answers 200 depends on every handler, and some do (a raw foreign key error is a 500).

## 7. Running

    tlc -workers 2 -config sandbox_concurrent.cfg MCSandboxAnswers.tla
    tlapm SandboxServiceProofs.tla

Each `.cfg` names its module through the run in `PROJECT.json`. A mutation of an action is the definition of
the same name with a suffix, just above it; substituting it for the original makes TLC violate the
property `PROJECT.json` pairs it with.
