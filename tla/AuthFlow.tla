----------------------------- MODULE AuthFlow -----------------------------
(***************************************************************************)
(* Signing in.  /auth/login gives the browser a state in a cookie and      *)
(* sends it to the provider; the provider sends it back to /auth/callback  *)
(* with that state and a code, or an error.  The callback compares state   *)
(* and cookie, exchanges the code for a token, checks its claims and       *)
(* creates or finds the user.  A browser has several tabs and one cookie;  *)
(* a callback may be reloaded, its link opened elsewhere, its answer lost. *)
(* Requests then carry the token, until it expires, and JWTAuth asks the   *)
(* cache for its user: what the cache answers is Resolver, which UserCache *)
(* implements.                                                             *)
(***************************************************************************)
CONSTANTS
  Browsers,
  Logins,        \* the states of generateState, never the same twice
  Subjects,      \* who signs in at the provider
  UserIds,       \* the ids of rows of users, never the same twice
  Requests,      \* callbacks served at a time
  Denied,        \* the decision of the provider that comes without a code
  Faults,        \* what may be wrong with a token, of AllFaults
  ClientConfigured, \* is there a client id to compare with?
  Null

VARIABLES
  cookie,        \* per browser, the state its oauth_state cookie holds
  login,         \* per state: who began it, how the provider decided, its code
  users,         \* per subject, the id of its row in users
  cached,        \* per subject, the id in the instance's cache of users
  call,          \* per slot, the callback being served
  closed,        \* history: the states whose cookie an answer has cleared
  signedIn,      \* history: the logins answered with their token, with the user's id
  former         \* history: the users that were deleted, with their subjects

vars == <<cookie, login, users, cached, call, closed, signedIn, former>>

AsResolver == INSTANCE Resolver

\* Claims that are missing or wrong, and a token that has expired; one at a time.
AllFaults == {"subject", "issuer", "client", "noclient", "expiry", "expired"}

Tokens == [sub : Subjects, fault : Faults \cup {"none", "expired"}]

Answers == {"InvalidState", "Denied", "ExchangeFailed", "BadToken",
            "LookupFailed", "SignedIn"}

ASSUME NullAssumption ==
  Null \notin Browsers \cup Logins \cup UserIds \cup Answers \cup Tokens
ASSUME DeniedAssumption == Denied # Null /\ Denied \notin Tokens
ASSUME FaultsAssumption == Faults \subseteq AllFaults
ASSUME ClientAssumption == ClientConfigured \in BOOLEAN

LoginType == [browser : Browsers \cup {Null}, verdict : Tokens \cup {Denied, Null},
              code : {"fresh", "used"}]

CallType == [pc : {"idle", "sent", "exchange", "upsert", "reply"},
             browser : Browsers \cup {Null}, state : Logins \cup {Null},
             cookie : Logins \cup {Null},
             answer : Answers \cup {Null}]

TypeOK ==
  /\ cookie \in [Browsers -> Logins \cup {Null}]
  /\ login \in [Logins -> LoginType]
  /\ users \in [Subjects -> UserIds \cup {Null}]
  /\ cached \in [Subjects -> UserIds \cup {Null}]
  /\ call \in [Requests -> CallType]
  /\ closed \subseteq Logins /\ former \subseteq Subjects \X UserIds
  /\ signedIn \subseteq Logins \X UserIds

NoCall == [pc |-> "idle", browser |-> Null, state |-> Null, cookie |-> Null,
           answer |-> Null]

Init ==
  /\ cookie = [b \in Browsers |-> Null]
  /\ login = [s \in Logins |-> [browser |-> Null, verdict |-> Null, code |-> "fresh"]]
  /\ users = [u \in Subjects |-> Null]
  /\ call = [r \in Requests |-> NoCall]
  /\ closed = {} /\ signedIn = {} /\ former = {}
  /\ cached = [u \in Subjects |-> Null]

At(r, pc) == call[r].pc = pc

-----------------------------------------------------------------------------
\* A new state takes the place of the one the browser held.
Login(b, s) ==
  /\ login[s].browser = Null
  /\ login' = [login EXCEPT ![s].browser = b]
  /\ cookie' = [cookie EXCEPT ![b] = s]
  /\ UNCHANGED <<users, call, closed, signedIn, former, cached>>

\* The provider lets somebody in, or does not, and sends the browser back.
Decide(s, verdict) ==
  /\ login[s].browser # Null /\ login[s].verdict = Null
  /\ login' = [login EXCEPT ![s].verdict = verdict]
  /\ UNCHANGED <<cookie, users, call, closed, signedIn, former, cached>>

Reply(r, a) == call' = [call EXCEPT ![r].pc = "reply", ![r].answer = a]

\* A browser follows a link to the callback that the provider has sent some browser
\* back with, so that state and code are of one login, with the cookie it has then.
Send(r, b, s) ==
  /\ At(r, "idle") /\ login[s].verdict # Null
  /\ call' = [call EXCEPT ![r] = [NoCall EXCEPT !.pc = "sent", !.browser = b,
                                                !.state = s, !.cookie = cookie[b]]]
  /\ UNCHANGED <<cookie, login, users, closed, signedIn, former, cached>>

\* A mutation: having a cookie is enough.
StateMatches_Any(r) == call[r].cookie # Null
StateMatches(r) == call[r].cookie = call[r].state

\* The first lines of Callback.  Only what passes them clears the cookie.
Callback(r) ==
  /\ At(r, "sent")
  /\ \/ ~StateMatches(r) /\ Reply(r, "InvalidState")
     \/ StateMatches(r) /\ login[call[r].state].verdict = Denied /\ Reply(r, "Denied")
     \/ /\ StateMatches(r) /\ login[call[r].state].verdict # Denied
        /\ call' = [call EXCEPT ![r].pc = "exchange"]
  /\ UNCHANGED <<cookie, login, users, closed, signedIn, former, cached>>

\* A mutation: the issuer is not looked at.
ClaimsAccepted_AnyIssuer(t) ==
  /\ t.fault \notin {"subject", "client", "expiry", "expired"}
  /\ t.fault = "noclient" => ~ClientConfigured

\* The claims the callback insists on before it touches users.  It compares the
\* client in any case: one that is missing equals one that is not configured.
ClaimsAccepted(t) ==
  /\ t.fault \notin {"subject", "issuer", "client", "expiry", "expired"}
  /\ t.fault = "noclient" => ~ClientConfigured

\* The provider takes a code once and answers with the token.
ExchangeCode(r) ==
  LET s == call[r].state
      t == login[s].verdict
  IN
  /\ At(r, "exchange")
  /\ login' = [login EXCEPT ![s].code = "used"]
  /\ \/ login[s].code = "used" /\ Reply(r, "ExchangeFailed")
     \/ login[s].code = "fresh" /\ ~ClaimsAccepted(t) /\ Reply(r, "BadToken")
     \/ /\ login[s].code = "fresh" /\ ClaimsAccepted(t)
        /\ call' = [call EXCEPT ![r].pc = "upsert"]
  /\ UNCHANGED <<cookie, users, closed, signedIn, former, cached>>

\* No answer in ten seconds, or none that makes sense; the code may be used up.
ExchangeFails(r) ==
  /\ At(r, "exchange")
  /\ \/ UNCHANGED login
     \/ login' = [login EXCEPT ![call[r].state].code = "used"]
  /\ Reply(r, "ExchangeFailed")
  /\ UNCHANGED <<cookie, users, closed, signedIn, former, cached>>

\* A mutation: a conflict replaces the row.
UpsertUserByEmail_Replaces(u, id) == id \in AsResolver!FreshIds

\* INSERT ... ON CONFLICT (email): the id of the row there is, or a new one.
UpsertUserByEmail(u, id) ==
  IF users[u] # Null THEN id = users[u] ELSE id \in AsResolver!FreshIds

\* A mutation: the error of the statement is not looked at.
FindOrCreateUser_IgnoresError(r) ==
  LET u == login[call[r].state].verdict.sub IN
  /\ At(r, "upsert")
  /\ Reply(r, "SignedIn")
  /\ \/ signedIn' = signedIn \cup {<<call[r].state, Null>>} /\ UNCHANGED users
     \/ \E id \in UserIds :
          /\ UpsertUserByEmail(u, id)
          /\ users' = [users EXCEPT ![u] = id]
          /\ signedIn' = signedIn \cup {<<call[r].state, id>>}
  /\ UNCHANGED <<cookie, login, closed, former, cached>>

\* FindOrCreateUser; its statement may also fail, or commit and lose its answer.
FindOrCreateUser(r) ==
  LET u == login[call[r].state].verdict.sub IN
  /\ At(r, "upsert")
  /\ \/ Reply(r, "LookupFailed") /\ UNCHANGED <<users, signedIn>>
     \/ \E id \in UserIds :
          /\ UpsertUserByEmail(u, id)
          /\ users' = [users EXCEPT ![u] = id]
          /\ \/ Reply(r, "LookupFailed") /\ UNCHANGED signedIn
             \/ /\ Reply(r, "SignedIn")
                /\ signedIn' = signedIn \cup {<<call[r].state, id>>}
  /\ UNCHANGED <<cookie, login, closed, former, cached>>

Clears(a) == a \notin {"InvalidState", "Denied"}

\* A mutation: the clearing cookie is set on the way to a failure only.
ClearCookie_OnError(r) ==
  IF call[r].answer \in {"ExchangeFailed", "BadToken", "LookupFailed"}
    THEN /\ cookie' = [cookie EXCEPT ![call[r].browser] = Null]
         /\ closed' = closed \cup {call[r].state}
    ELSE /\ closed' = closed \cup IF Clears(call[r].answer) THEN {call[r].state} ELSE {}
         /\ UNCHANGED cookie

\* The clearing cookie empties whatever the browser's cookie now holds, also the
\* state of a login begun in the meantime.
ClearCookie(r) ==
  IF Clears(call[r].answer)
    THEN /\ cookie' = [cookie EXCEPT ![call[r].browser] = Null]
         /\ closed' = closed \cup {call[r].state}
    ELSE UNCHANGED <<cookie, closed>>

Deliver(r) ==
  /\ At(r, "reply")
  /\ ClearCookie(r)
  /\ call' = [call EXCEPT ![r] = NoCall]
  /\ UNCHANGED <<login, users, signedIn, former, cached>>

\* The answer never arrives: the connection breaks, or the instance dies.
Lose(r) ==
  /\ ~At(r, "idle")
  /\ call' = [call EXCEPT ![r] = NoCall]
  /\ UNCHANGED <<cookie, login, users, closed, signedIn, former, cached>>

\* MaxAge is over.
CookieExpires(b) ==
  /\ cookie[b] # Null
  /\ cookie' = [cookie EXCEPT ![b] = Null]
  /\ UNCHANGED <<login, users, call, closed, signedIn, former, cached>>

-----------------------------------------------------------------------------
(* What surrounds signing in: users, the cache of users, the clock. *)

\* The operator deletes a user in SQL; the cache is not told.
DeleteUser(u) ==
  /\ AsResolver!DeleteUser(u)
  /\ UNCHANGED <<cookie, login, call, closed, signedIn>>

\* A request with a token of u has missed the cache, and stores what it has read.
CacheUser(u, id) ==
  /\ AsResolver!Store(u, id, {})
  /\ UNCHANGED <<cookie, login, call, closed, signedIn>>

\* The entry expires or is evicted.
DropUser(u) ==
  /\ AsResolver!Forget({u})
  /\ UNCHANGED <<cookie, login, call, closed, signedIn>>

\* A token outlives its expiry, perhaps before the callback has looked at it.
ExpireToken(s) ==
  /\ login[s].verdict \in Tokens /\ login[s].verdict.fault # "expiry"
  /\ login' = [login EXCEPT ![s].verdict.fault = "expired"]
  /\ UNCHANGED <<cookie, users, cached, call, closed, signedIn, former>>

Next ==
  \/ \E b \in Browsers, s \in Logins : Login(b, s)
  \/ \E s \in Logins, v \in Tokens \cup {Denied} : Decide(s, v)
  \/ \E r \in Requests :
       \/ \E b \in Browsers, s \in Logins : Send(r, b, s)
       \/ Callback(r) \/ ExchangeCode(r) \/ ExchangeFails(r) \/ FindOrCreateUser(r)
       \/ Deliver(r) \/ Lose(r)
  \/ \E b \in Browsers : CookieExpires(b)
  \/ \E u \in Subjects : \/ DeleteUser(u) \/ DropUser(u)
                         \/ \E id \in UserIds : CacheUser(u, id)
  \/ \E s \in Logins : ExpireToken(s)

Spec == Init /\ [][Next]_vars

-----------------------------------------------------------------------------
\* The claims JWTAuth insists on.  It compares the client only with one that is
\* configured.
TokenAccepted(t) ==
  /\ t.fault \notin {"subject", "issuer", "expiry", "expired"}
  /\ ClientConfigured => t.fault \notin {"client", "noclient"}

\* The id it lets a request with this token act as, Null for a 401, when the key set
\* is there (Lifecycle) and the database answers.
JWTAuth(t) == IF TokenAccepted(t) THEN AsResolver!Resolved(t.sub) ELSE Null

\* A login is completed, and a user created, only by the browser that began it,
\* whichever of its tabs and however many logins it has going (Callback's
\* comparison of the state with the cookie).
CompletesWhereBegun ==
  \A r \in Requests :
    At(r, "exchange") \/ At(r, "upsert") \/ call[r].answer = "SignedIn" =>
      login[call[r].state].browser = call[r].browser

\* Once a browser has received the answer to a callback that passed the checks,
\* no callback of the same login that is sent from then on passes them, be it
\* reloaded or opened from the history (the clearing cookie of Callback, set
\* before the exchange and so on its failures too).
SpentStateStaysSpent ==
  [][\A r \in Requests :
       At(r, "sent")' /\ At(r, "idle") /\ call'[r].state \in closed => ~StateMatches(r)']_vars

\* Until the token of an answered callback expires, requests with it are let in, as
\* the user id it was answered with.  While the cache still has an earlier user of
\* the subject, deleted since, they act as that one; once the operator has deleted
\* the user itself, as nobody or as whom the subject has become.  So also when first
\* logins of the subject run at the same time, and a configured client is compared
\* in one of the two checks only (Callback and JWTAuth, the upsert, the cache).
TokensActAsAnswered ==
  \A s \in Logins, i \in UserIds :
    LET t == login[s].verdict
        u == JWTAuth(t)
    IN  <<s, i>> \in signedIn /\ t.fault # "expired" =>
          \/ u = i
          \/ <<t.sub, u>> \in former
          \/ <<t.sub, i>> \in former /\ u \in {Null, users[t.sub]}

=============================================================================
