--------------------------- MODULE AuthFlowProofs ---------------------------
(***************************************************************************)
(* The sign-in, for every number of browsers, tabs, logins, subjects and   *)
(* callbacks served at once, and whom its tokens act as afterwards.        *)
(***************************************************************************)
EXTENDS AuthFlow, TLAPS

\* A token that the callback accepts, or has accepted before it expired.
Good(t) == t \in Tokens /\ (ClaimsAccepted(t) \/ t.fault = "expired")

\* What a callback knows by the time it reaches each of its steps, under lg, the
\* logins there are.
Formed(q, lg) ==
  /\ q.pc # "idle" => q.browser \in Browsers /\ q.state \in Logins
                      /\ lg[q.state].verdict # Null
  /\ q.pc = "sent" /\ q.cookie # Null => lg[q.cookie].browser = q.browser
  /\ q.pc = "exchange" => lg[q.state].verdict # Denied
  /\ q.pc = "upsert" => Good(lg[q.state].verdict)
  /\ q.answer # Null => q.pc = "reply"
  /\ q.pc \in {"exchange", "upsert"} \/ (q.pc = "reply" /\ Clears(q.answer)) =>
       lg[q.state].browser = q.browser

CallsFormed == \A r \in Requests : Formed(call[r], login)

\* A browser holds only states it was given.
CookiesOwn ==
  \A b \in Browsers : cookie[b] # Null => login[cookie[b]].browser = b

\* A closed state was given out, and no browser holds it.
ClosedGone ==
  \A s \in closed : login[s].browser # Null /\ \A b \in Browsers : cookie[b] # s

\* A token somebody was signed in with is good, and its subject has or has had the
\* user it was answered with.
SignedInHolds ==
  \A s \in Logins, i \in UserIds :
    <<s, i>> \in signedIn =>
      Good(login[s].verdict) /\ AsResolver!HadBy(login[s].verdict.sub, i)

\* The cache has users of the subjects it has them for.
CachedHolds ==
  \A u \in Subjects : cached[u] # Null => AsResolver!HadBy(u, cached[u])

IInv == TypeOK /\ CallsFormed /\ CookiesOwn /\ ClosedGone /\ SignedInHolds /\ CachedHolds

\* A decision stays, but for a token that expires.
Later(v, w) ==
  \/ w = v
  \/ v \in Tokens /\ w \in Tokens /\ w.sub = v.sub /\ w.fault = "expired"

\* A login keeps who began it and how the provider decided.
Kept(lg, lh) ==
  \A s \in Logins : /\ lg[s].browser # Null => lh[s].browser = lg[s].browser
                    /\ lg[s].verdict # Null => Later(lg[s].verdict, lh[s].verdict)

USE DEF At

-----------------------------------------------------------------------------
\* A slot without a callback.
LEMMA NoCallFormed == NoCall \in CallType /\ NoCall.pc = "idle" /\ \A lg : Formed(NoCall, lg)
<1>1. NoCall \in CallType /\ NoCall.pc = "idle" /\ NoCall.answer = Null
  BY DEF NoCall, CallType
<1> HIDE DEF NoCall
<1> QED
  BY <1>1 DEF Formed

\* A token stays good, of the same subject; what is no token does not become one.
LEMMA GoodLater ==
  ASSUME NEW v, NEW w, Later(v, w), v # Null
  PROVE  /\ w # Null
         /\ v # Denied => w # Denied
         /\ Good(v) => Good(w) /\ w.sub = v.sub
  BY NullAssumption, DeniedAssumption DEF Later, Good

\* What a callback knows it keeps knowing.
LEMMA FormedKept ==
  ASSUME NEW q \in CallType, NEW lg, NEW lh, Formed(q, lg), Kept(lg, lh)
  PROVE  Formed(q, lh)
<1>1. q.cookie \in Logins \cup {Null} /\ q.browser \in Browsers \cup {Null}
  BY DEF CallType
<1>2. ASSUME q.pc # "idle"
      PROVE  /\ lg[q.state].verdict # Null /\ q.state \in Logins
             /\ Later(lg[q.state].verdict, lh[q.state].verdict)
  BY <1>2 DEF Formed, Kept
<1>3. ASSUME q.pc # "idle"
      PROVE  /\ lh[q.state].verdict # Null
             /\ lg[q.state].verdict # Denied => lh[q.state].verdict # Denied
             /\ Good(lg[q.state].verdict) => Good(lh[q.state].verdict)
  BY <1>2, <1>3, GoodLater
<1> QED
  BY <1>1, <1>3, NullAssumption DEF Formed, Kept

\* Before anybody signs in.
LEMMA InvInit == Init => IInv
<1> SUFFICES ASSUME Init PROVE IInv
  OBVIOUS
<1>1. \A s \in Logins : login[s] \in LoginType
  BY DEF Init, LoginType
<1>2. TypeOK
  BY <1>1, NoCallFormed DEF Init, TypeOK
<1>3. CallsFormed
  BY NoCallFormed DEF Init, CallsFormed
<1>4. CookiesOwn /\ ClosedGone /\ SignedInHolds /\ CachedHolds
  BY DEF Init, CookiesOwn, ClosedGone, SignedInHolds, CachedHolds
<1> QED
  BY <1>2, <1>3, <1>4 DEF IInv

-----------------------------------------------------------------------------
\* A step that changes the logins and one call, and leaves the rest.
LEMMA CallStep ==
  ASSUME IInv, NEW r \in Requests, NEW q \in CallType,
         call' = [call EXCEPT ![r] = q], Formed(q, login'),
         login' \in [Logins -> LoginType], Kept(login, login')
  PROVE  CallsFormed' /\ call' \in [Requests -> CallType]
<1>1. call' \in [Requests -> CallType]
  BY DEF IInv, TypeOK
<1>2. ASSUME NEW t \in Requests PROVE Formed(call'[t], login')
  <2>1. CASE t = r
    BY <2>1 DEF IInv, TypeOK
  <2>2. CASE t # r
    <3>1. call'[t] = call[t] /\ call[t] \in CallType /\ Formed(call[t], login)
      BY <2>2 DEF IInv, TypeOK, CallsFormed
    <3> QED
      BY <3>1, FormedKept
  <2> QED
    BY <2>1, <2>2
<1> QED
  BY <1>1, <1>2 DEF CallsFormed

\* What the cookies and the closed states say of logins that are kept.
LEMMA KeptCookies ==
  ASSUME IInv, UNCHANGED <<cookie, closed>>, Kept(login, login')
  PROVE  CookiesOwn' /\ ClosedGone'
  BY NullAssumption DEF IInv, TypeOK, CookiesOwn, ClosedGone, Kept

\* What the tokens say of users, when users keep those they have had.
LEMMA KeptSignedIn ==
  ASSUME IInv, signedIn' = signedIn, Kept(login, login'),
         \A u \in Subjects, i \in UserIds :
           AsResolver!HadBy(u, i) => AsResolver!HadBy(u, i)'
  PROVE  SignedInHolds'
<1>1. ASSUME NEW s \in Logins, NEW i \in UserIds, <<s, i>> \in signedIn'
      PROVE  Good(login[s].verdict)' /\ AsResolver!HadBy(login[s].verdict.sub, i)'
  <2> PICK v, w : v = login[s].verdict /\ w = login'[s].verdict
    OBVIOUS
  <2>1. Good(v) /\ AsResolver!HadBy(v.sub, i)
    BY <1>1 DEF IInv, SignedInHolds
  <2>2. v # Null /\ v.sub \in Subjects
    BY <2>1, NullAssumption DEF Good, Tokens
  <2>3. Good(w) /\ w.sub = v.sub
    BY <2>1, <2>2, GoodLater DEF Kept
  <2>4. AsResolver!HadBy(v.sub, i)'
    BY <2>1, <2>2
  <2> QED
    BY <2>3, <2>4 DEF AsResolver!HadBy
<1> QED
  BY <1>1 DEF SignedInHolds

\* The same, with users and cache as they were.
LEMMA SameUsers ==
  ASSUME IInv, UNCHANGED <<users, cached, former, signedIn>>, Kept(login, login')
  PROVE  SignedInHolds' /\ CachedHolds'
<1>1. \A u \in Subjects, i \in UserIds :
        AsResolver!HadBy(u, i) => AsResolver!HadBy(u, i)'
  BY DEF AsResolver!HadBy
<1>2. CachedHolds'
  BY DEF IInv, CachedHolds, AsResolver!HadBy
<1> QED
  BY <1>1, <1>2, KeptSignedIn

\* A login begins, is decided, or its token expires: a browser gets a state of its own, that no
\* answer has closed.
LEMMA LoginStep ==
  ASSUME IInv, \/ \E b \in Browsers, s \in Logins : Login(b, s)
               \/ \E s \in Logins, v \in Tokens \cup {Denied} : Decide(s, v)
               \/ \E s \in Logins : ExpireToken(s)
  PROVE  IInv'
<1>1. UNCHANGED <<users, cached, call, closed, signedIn, former>>
  BY DEF Login, Decide, ExpireToken
<1>2. login' \in [Logins -> LoginType] /\ Kept(login, login')
  <2>1. PICK s \in Logins, l \in LoginType :
          /\ login' = [login EXCEPT ![s] = l]
          /\ login[s].browser # Null => l.browser = login[s].browser
          /\ login[s].verdict # Null => Later(login[s].verdict, l.verdict)
    <3>1. CASE \E b \in Browsers, s \in Logins : Login(b, s)
      <4>1. PICK b \in Browsers, s \in Logins : Login(b, s)
        BY <3>1
      <4>2. login[s] \in LoginType
        BY DEF IInv, TypeOK
      <4> DEFINE l == [login[s] EXCEPT !.browser = b]
      <4>3. l \in LoginType /\ l.verdict = login[s].verdict
        BY <4>2 DEF LoginType
      <4>4. login' = [login EXCEPT ![s] = l] /\ login[s].browser = Null
        BY <4>1 DEF Login, IInv, TypeOK
      <4> HIDE DEF l
      <4> QED
        BY <4>3, <4>4 DEF Later
    <3>2. CASE \E s \in Logins, v \in Tokens \cup {Denied} : Decide(s, v)
      <4>1. PICK s \in Logins, v \in Tokens \cup {Denied} : Decide(s, v)
        BY <3>2
      <4>2. login[s] \in LoginType
        BY DEF IInv, TypeOK
      <4> DEFINE l == [login[s] EXCEPT !.verdict = v]
      <4>3. l \in LoginType /\ l.browser = login[s].browser
        BY <4>2 DEF LoginType
      <4>4. login' = [login EXCEPT ![s] = l] /\ login[s].verdict = Null
        BY <4>1 DEF Decide, IInv, TypeOK
      <4> HIDE DEF l
      <4> QED
        BY <4>3, <4>4
    <3>3. CASE \E s \in Logins : ExpireToken(s)
      <4>1. PICK s \in Logins : ExpireToken(s)
        BY <3>3
      <4> DEFINE v == [login[s].verdict EXCEPT !.fault = "expired"]
                 l == [login[s] EXCEPT !.verdict = v]
      <4>2. login[s] \in LoginType /\ login[s].verdict \in Tokens
        BY <4>1 DEF ExpireToken, IInv, TypeOK
      <4>3. v \in Tokens /\ v.sub = login[s].verdict.sub /\ v.fault = "expired"
        BY <4>2 DEF Tokens
      <4>4. login' = [login EXCEPT ![s] = l]
        BY <4>1, <4>2 DEF ExpireToken, IInv, TypeOK, LoginType
      <4> HIDE DEF v
      <4>5. l \in LoginType /\ l.browser = login[s].browser /\ l.verdict = v
        BY <4>2, <4>3 DEF LoginType
      <4> HIDE DEF l
      <4> QED
        BY <4>2, <4>3, <4>4, <4>5 DEF Later
    <3> QED
      BY <3>1, <3>2, <3>3
  <2> QED
    BY <2>1 DEF IInv, TypeOK, Kept, Later
<1>3. cookie' \in [Browsers -> Logins \cup {Null}] /\ CookiesOwn' /\ ClosedGone'
  <2>1. CASE cookie' = cookie
    BY <1>1, <1>2, <2>1, KeptCookies DEF IInv, TypeOK
  <2>2. CASE \E b \in Browsers, s \in Logins : Login(b, s)
    <3>1. PICK b \in Browsers, s \in Logins : Login(b, s)
      BY <2>2
    <3>2. /\ cookie' = [cookie EXCEPT ![b] = s] /\ login[s].browser = Null
          /\ login' = [login EXCEPT ![s].browser = b] /\ login'[s].browser = b
      BY <3>1 DEF Login, IInv, TypeOK, LoginType
    <3>3. cookie' \in [Browsers -> Logins \cup {Null}]
      BY <3>2 DEF IInv, TypeOK
    <3>4. CookiesOwn'
      BY <1>2, <3>2, NullAssumption DEF IInv, TypeOK, CookiesOwn, Kept
    <3>5. ClosedGone'
      BY <1>1, <1>2, <3>2 DEF IInv, TypeOK, ClosedGone, Kept
    <3> QED
      BY <3>3, <3>4, <3>5
  <2> QED
    BY <2>1, <2>2 DEF Decide, ExpireToken
<1>4. CallsFormed'
  BY <1>1, <1>2, FormedKept DEF IInv, TypeOK, CallsFormed
<1>5. TypeOK'
  BY <1>1, <1>2, <1>3 DEF IInv, TypeOK
<1>6. SignedInHolds' /\ CachedHolds'
  BY <1>1, <1>2, SameUsers
<1> QED
  BY <1>3, <1>4, <1>5, <1>6 DEF IInv

\* A callback arrives, with the cookie of its browser, which is its own.
LEMMA SendStep ==
  ASSUME IInv, NEW r \in Requests, NEW b \in Browsers, NEW s \in Logins, Send(r, b, s)
  PROVE  IInv'
<1> DEFINE q == [[[[NoCall EXCEPT !.pc = "sent"] EXCEPT !.browser = b]
                           EXCEPT !.state = s] EXCEPT !.cookie = cookie[b]]
<1>1. /\ UNCHANGED <<cookie, login, users, cached, closed, signedIn, former>>
      /\ login[s].verdict # Null /\ call' = [call EXCEPT ![r] = q]
  BY DEF Send, NoCall
<1>2. /\ q \in CallType /\ q.pc = "sent" /\ q.browser = b /\ q.state = s
      /\ q.cookie = cookie[b] /\ q.answer = Null
  BY NoCallFormed DEF IInv, TypeOK, CallType, NoCall
<1> HIDE DEF q
<1>3. Formed(q, login)
  BY <1>1, <1>2 DEF IInv, CookiesOwn, Formed
<1>4. Kept(login, login)
  BY DEF Kept, Later
<1>5. CallsFormed' /\ call' \in [Requests -> CallType]
  BY <1>1, <1>2, <1>3, <1>4, CallStep DEF IInv, TypeOK
<1> QED
  BY <1>1, <1>4, <1>5, SameUsers DEF IInv, TypeOK, CookiesOwn, ClosedGone

\* A callback that changes nothing but its own call.
LEMMA OwnStep ==
  ASSUME IInv, NEW r \in Requests, NEW q \in CallType,
         call' = [call EXCEPT ![r] = q], Formed(q, login), login' = login
  PROVE  CallsFormed' /\ call' \in [Requests -> CallType]
<1>1. Kept(login, login)
  BY DEF Kept, Later
<1> QED
  BY <1>1, CallStep DEF IInv, TypeOK

\* The call of a slot with an answer, or one step further.
LEMMA Replied ==
  ASSUME IInv, NEW r \in Requests, NEW a \in Answers, ~At(r, "idle"),
         Clears(a) => login[call[r].state].browser = call[r].browser,
         NEW lg, Kept(login, lg), Reply(r, a)
  PROVE  \E q \in CallType : call' = [call EXCEPT ![r] = q] /\ Formed(q, lg)
<1> DEFINE q == [[call[r] EXCEPT !.pc = "reply"] EXCEPT !.answer = a]
<1>1. call[r] \in CallType /\ Formed(call[r], login)
  BY DEF IInv, TypeOK, CallsFormed
<1>2. call' = [call EXCEPT ![r] = q]
  BY <1>1 DEF Reply, IInv, TypeOK, CallType
<1>3. /\ q \in CallType /\ q.pc = "reply" /\ q.answer = a
      /\ q.state = call[r].state /\ q.browser = call[r].browser
  BY <1>1 DEF CallType
<1> HIDE DEF q
<1>4. Formed(q, login)
  BY <1>1, <1>3 DEF Formed
<1> QED
  BY <1>2, <1>3, <1>4, FormedKept

\* The comparison of state and cookie makes the login one of this browser.
LEMMA CallbackStep ==
  ASSUME IInv, NEW r \in Requests, Callback(r)
  PROVE  IInv'
<1>1. /\ UNCHANGED <<cookie, login, users, cached, closed, signedIn, former>>
      /\ call[r].pc = "sent" /\ call[r] \in CallType /\ Formed(call[r], login)
  BY DEF Callback, IInv, TypeOK, CallsFormed
<1>2. Kept(login, login)
  BY DEF Kept, Later
<1>3. PICK q \in CallType : call' = [call EXCEPT ![r] = q] /\ Formed(q, login)
  <2>1. CASE \E a \in {"InvalidState", "Denied"} : Reply(r, a)
    BY <1>1, <1>2, <2>1, Replied DEF Clears, Answers
  <2>2. CASE /\ StateMatches(r) /\ login[call[r].state].verdict # Denied
             /\ call' = [call EXCEPT ![r].pc = "exchange"]
    <3> DEFINE q == [call[r] EXCEPT !.pc = "exchange"]
    <3>1. call' = [call EXCEPT ![r] = q]
      BY <2>2 DEF IInv, TypeOK
    <3>2. /\ q \in CallType /\ q.pc = "exchange" /\ q.state = call[r].state
          /\ q.browser = call[r].browser /\ q.answer = call[r].answer
      BY <1>1 DEF CallType
    <3>3. call[r].cookie = call[r].state /\ call[r].state \in Logins
      BY <1>1, <2>2 DEF StateMatches, Formed
    <3> HIDE DEF q
    <3>4. Formed(q, login)
      BY <1>1, <2>2, <3>2, <3>3, NullAssumption DEF Formed
    <3> QED
      BY <3>1, <3>2, <3>4
  <2> QED
    BY <2>1, <2>2 DEF Callback
<1>4. CallsFormed' /\ call' \in [Requests -> CallType]
  BY <1>1, <1>3, OwnStep
<1> QED
  BY <1>1, <1>2, <1>4, SameUsers DEF IInv, TypeOK, CookiesOwn, ClosedGone

\* The exchange uses the code, and lets through only a token that is accepted.
LEMMA ExchangeStep ==
  ASSUME IInv, NEW r \in Requests, ExchangeCode(r) \/ ExchangeFails(r)
  PROVE  IInv'
<1> DEFINE s == call[r].state
<1>1. /\ UNCHANGED <<cookie, users, cached, closed, signedIn, former>>
      /\ call[r].pc = "exchange" /\ call[r] \in CallType /\ Formed(call[r], login)
      /\ login' = login \/ login' = [login EXCEPT ![s].code = "used"]
  BY DEF ExchangeCode, ExchangeFails, IInv, TypeOK, CallsFormed
<1>2. /\ s \in Logins /\ login[s] \in LoginType
      /\ login[s].verdict \in Tokens /\ login[s].browser = call[r].browser
  BY <1>1 DEF Formed, IInv, TypeOK, LoginType
<1>3. login' \in [Logins -> LoginType] /\ Kept(login, login')
  <2>1. CASE login' = login
    BY <2>1 DEF Kept, Later, IInv, TypeOK
  <2>2. CASE login' = [login EXCEPT ![s].code = "used"]
    <3> DEFINE l == [login[s] EXCEPT !.code = "used"]
    <3>1. /\ l \in LoginType /\ l.browser = login[s].browser
          /\ l.verdict = login[s].verdict
      BY <1>2 DEF LoginType
    <3>2. login' = [login EXCEPT ![s] = l]
      BY <2>2 DEF IInv, TypeOK
    <3> HIDE DEF l
    <3> QED
      BY <1>2, <3>1, <3>2 DEF Kept, Later, IInv, TypeOK
  <2> QED
    BY <1>1, <2>1, <2>2
<1>4. PICK q \in CallType : call' = [call EXCEPT ![r] = q] /\ Formed(q, login')
  <2>1. CASE \E a \in {"ExchangeFailed", "BadToken"} : Reply(r, a)
    BY <1>1, <1>2, <1>3, <2>1, Replied DEF Answers
  <2>2. CASE /\ ClaimsAccepted(login[s].verdict)
             /\ call' = [call EXCEPT ![r].pc = "upsert"]
    <3> DEFINE q == [call[r] EXCEPT !.pc = "upsert"]
    <3>1. call' = [call EXCEPT ![r] = q]
      BY <2>2 DEF IInv, TypeOK
    <3>2. /\ q \in CallType /\ q.pc = "upsert" /\ q.state = s
          /\ q.browser = call[r].browser /\ q.answer = call[r].answer
      BY <1>1, <1>2 DEF CallType
    <3> HIDE DEF q
    <3>3. Formed(q, login)
      BY <1>1, <1>2, <2>2, <3>2 DEF Formed, Good
    <3> QED
      BY <1>3, <3>1, <3>2, <3>3, FormedKept
  <2> QED
    BY <2>1, <2>2 DEF ExchangeCode, ExchangeFails
<1> HIDE DEF s
<1>5. CallsFormed' /\ call' \in [Requests -> CallType]
  BY <1>3, <1>4, CallStep
<1>6. CookiesOwn' /\ ClosedGone'
  BY <1>1, <1>3, KeptCookies
<1> QED
  BY <1>1, <1>3, <1>5, <1>6, SameUsers DEF IInv, TypeOK

\* The upsert answers with the id of the row there is from then on.
LEMMA UpsertStep ==
  ASSUME IInv, NEW r \in Requests, FindOrCreateUser(r)
  PROVE  IInv'
<1> DEFINE s == call[r].state
           u == login[s].verdict.sub
<1>1. /\ UNCHANGED <<cookie, login, closed, former, cached>>
      /\ call[r].pc = "upsert" /\ call[r] \in CallType /\ Formed(call[r], login)
      /\ \E a \in {"LookupFailed", "SignedIn"} : Reply(r, a)
  BY DEF FindOrCreateUser, IInv, TypeOK, CallsFormed
<1>2. /\ s \in Logins /\ Good(login[s].verdict) /\ u \in Subjects
      /\ login[s].browser = call[r].browser
  BY <1>1 DEF Formed, Good, Tokens
<1>3. Kept(login, login)
  BY DEF Kept, Later
<1>4. PICK q \in CallType : call' = [call EXCEPT ![r] = q] /\ Formed(q, login)
  BY <1>1, <1>2, <1>3, Replied DEF Answers
<1>5. CallsFormed' /\ call' \in [Requests -> CallType]
  BY <1>1, <1>4, OwnStep
<1>6. CASE UNCHANGED <<users, signedIn>>
  BY <1>1, <1>3, <1>5, <1>6, SameUsers DEF IInv, TypeOK, CookiesOwn, ClosedGone
<1>7. ASSUME NEW id \in UserIds,
             users[u] # Null => id = users[u],
             users' = [users EXCEPT ![u] = id],
             signedIn' = signedIn \/ signedIn' = signedIn \cup {<<s, id>>}
      PROVE  IInv'
  <2> HIDE DEF s, u
  <2>1. /\ users' \in [Subjects -> UserIds \cup {Null}] /\ users'[u] = id
        /\ signedIn' \subseteq Logins \X UserIds
    BY <1>2, <1>7 DEF IInv, TypeOK
  <2>2. \A v \in Subjects, i \in UserIds :
          AsResolver!HadBy(v, i) => AsResolver!HadBy(v, i)'
    BY <1>1, <1>2, <1>7, NullAssumption DEF IInv, TypeOK, AsResolver!HadBy
  <2>3. CachedHolds'
    BY <1>1, <2>2 DEF IInv, TypeOK, CachedHolds
  <2>4. ASSUME NEW t \in Logins, NEW i \in UserIds, <<t, i>> \in signedIn'
        PROVE  Good(login[t].verdict)' /\ AsResolver!HadBy(login[t].verdict.sub, i)'
    <3>1. CASE <<t, i>> \in signedIn
      <4> PICK v : v = login[t].verdict
        OBVIOUS
      <4>1. Good(v) /\ AsResolver!HadBy(v.sub, i) /\ v.sub \in Subjects
        BY <3>1 DEF IInv, SignedInHolds, Good, Tokens
      <4>2. AsResolver!HadBy(v.sub, i)'
        BY <2>2, <4>1
      <4> QED
        BY <1>1, <4>1, <4>2 DEF AsResolver!HadBy
    <3>2. CASE t = s /\ i = id
      BY <1>1, <1>2, <2>1, <3>2 DEF AsResolver!HadBy, u
    <3> QED
      BY <1>7, <2>4, <3>1, <3>2
  <2>5. SignedInHolds'
    BY <2>4 DEF SignedInHolds
  <2> QED
    BY <1>1, <1>5, <2>1, <2>3, <2>5 DEF IInv, TypeOK, CookiesOwn, ClosedGone
<1>8. \/ UNCHANGED <<users, signedIn>>
      \/ \E id \in UserIds :
           /\ users[u] # Null => id = users[u]
           /\ users' = [users EXCEPT ![u] = id]
           /\ signedIn' = signedIn \/ signedIn' = signedIn \cup {<<s, id>>}
  BY DEF FindOrCreateUser, UpsertUserByEmail
<1> HIDE DEF s, u
<1> QED
  BY <1>6, <1>7, <1>8

\* The slot is free again; an answer that clears the cookie closes its state.
LEMMA DeliverStep ==
  ASSUME IInv, NEW r \in Requests, Deliver(r) \/ Lose(r)
  PROVE  IInv'
<1>1. /\ UNCHANGED <<login, users, cached, signedIn, former>>
      /\ call' = [call EXCEPT ![r] = NoCall]
      /\ call[r].pc # "idle" /\ call[r] \in CallType /\ Formed(call[r], login)
  BY DEF Deliver, Lose, IInv, TypeOK, CallsFormed
<1>2. CallsFormed' /\ call' \in [Requests -> CallType]
  BY <1>1, NoCallFormed, OwnStep
<1>3. \/ UNCHANGED <<cookie, closed>>
      \/ /\ call[r].pc = "reply" /\ Clears(call[r].answer)
         /\ cookie' = [cookie EXCEPT ![call[r].browser] = Null]
         /\ closed' = closed \cup {call[r].state}
  BY DEF Deliver, Lose, ClearCookie
<1>4. /\ call[r].browser \in Browsers /\ call[r].state \in Logins
      /\ call[r].pc = "reply" /\ Clears(call[r].answer) =>
           login[call[r].state].browser = call[r].browser
  BY <1>1 DEF Formed
<1>5. CookiesOwn' /\ ClosedGone'
  BY <1>1, <1>3, <1>4, NullAssumption DEF IInv, TypeOK, CookiesOwn, ClosedGone
<1>6. cookie' \in [Browsers -> Logins \cup {Null}] /\ closed' \subseteq Logins
  BY <1>3, <1>4 DEF IInv, TypeOK
<1>7. Kept(login, login')
  BY <1>1 DEF Kept, Later
<1> QED
  BY <1>1, <1>2, <1>5, <1>6, <1>7, SameUsers DEF IInv, TypeOK

\* A cookie expires; users and cache change as those of the resolver.
LEMMA OutsideStep ==
  ASSUME IInv,
         \/ \E b \in Browsers : CookieExpires(b)
         \/ \E u \in Subjects : \/ DeleteUser(u) \/ DropUser(u)
                                \/ \E id \in UserIds : CacheUser(u, id)
  PROVE  IInv'
<1>1. UNCHANGED <<login, call, closed, signedIn>>
  BY DEF CookieExpires, DeleteUser, DropUser, CacheUser
<1>2. cookie' = cookie \/ \E b \in Browsers : CookieExpires(b)
  BY DEF DeleteUser, DropUser, CacheUser
<1>3. CallsFormed' /\ CookiesOwn' /\ ClosedGone'
  BY <1>1, <1>2, NullAssumption
  DEF CookieExpires, IInv, TypeOK, CallsFormed, CookiesOwn, ClosedGone
<1>4. Kept(login, login')
  BY <1>1 DEF Kept, Later
<1>5. CASE \E b \in Browsers : CookieExpires(b)
  <2>1. TypeOK' /\ UNCHANGED <<users, cached, former>>
    BY <1>1, <1>5 DEF CookieExpires, IInv, TypeOK
  <2> QED
    BY <1>1, <1>3, <1>4, <2>1, SameUsers DEF IInv
<1>6. ASSUME NEW u \in Subjects, DeleteUser(u) PROVE IInv'
  <2>1. /\ users' = [users EXCEPT ![u] = Null] /\ UNCHANGED <<cookie, cached>>
        /\ former' = former \cup {<<u, users[u]>>} /\ users[u] \in UserIds
    BY <1>6 DEF DeleteUser, AsResolver!DeleteUser, IInv, TypeOK
  <2>2. \A v \in Subjects, i \in UserIds :
          AsResolver!HadBy(v, i) => AsResolver!HadBy(v, i)'
    BY <2>1 DEF AsResolver!HadBy, IInv, TypeOK
  <2>3. TypeOK'
    BY <1>1, <2>1 DEF IInv, TypeOK
  <2>4. CachedHolds'
    BY <2>1, <2>2 DEF IInv, TypeOK, CachedHolds
  <2> QED
    BY <1>1, <1>3, <1>4, <2>2, <2>3, <2>4, KeptSignedIn DEF IInv
<1>7. ASSUME NEW u \in Subjects, DropUser(u) \/ \E id \in UserIds : CacheUser(u, id)
      PROVE  IInv'
  <2>1. UNCHANGED <<cookie, users, former>>
    BY <1>7 DEF DropUser, CacheUser, AsResolver!Forget, AsResolver!Store
  <2>2. PICK i \in UserIds \cup {Null} :
          /\ cached' = [v \in Subjects |-> IF v = u THEN i ELSE cached[v]]
          /\ i = Null \/ AsResolver!HadBy(u, i)
    BY <1>7 DEF DropUser, CacheUser, AsResolver!Forget, AsResolver!Store
  <2>3. TypeOK'
    BY <1>1, <2>1, <2>2 DEF IInv, TypeOK
  <2>4. CachedHolds'
    BY <2>1, <2>2 DEF IInv, CachedHolds, AsResolver!HadBy
  <2>5. SignedInHolds'
    BY <1>1, <1>4, <2>1, KeptSignedIn DEF AsResolver!HadBy
  <2> QED
    BY <1>3, <2>3, <2>4, <2>5 DEF IInv
<1> QED
  BY <1>5, <1>6, <1>7

\* Every step of the sign-in, or of what surrounds it, keeps the invariant.
LEMMA InvStep == IInv /\ [Next]_vars => IInv'
<1> SUFFICES ASSUME IInv, [Next]_vars PROVE IInv'
  OBVIOUS
<1>1. CASE UNCHANGED vars
  <2>1. Kept(login, login')
    BY <1>1 DEF vars, Kept, Later
  <2> QED
    BY <1>1, <2>1, SameUsers DEF vars, IInv, TypeOK, CallsFormed, CookiesOwn, ClosedGone
<1>2. CASE \/ \E b \in Browsers, s \in Logins : Login(b, s)
           \/ \E s \in Logins, v \in Tokens \cup {Denied} : Decide(s, v)
           \/ \E s \in Logins : ExpireToken(s)
  BY <1>2, LoginStep
<1>3. ASSUME NEW r \in Requests, NEW b \in Browsers, NEW s \in Logins, Send(r, b, s)
      PROVE  IInv'
  BY <1>3, SendStep
<1>4. ASSUME NEW r \in Requests, Callback(r) PROVE IInv'
  BY <1>4, CallbackStep
<1>5. ASSUME NEW r \in Requests, ExchangeCode(r) \/ ExchangeFails(r) PROVE IInv'
  BY <1>5, ExchangeStep
<1>6. ASSUME NEW r \in Requests, FindOrCreateUser(r) PROVE IInv'
  BY <1>6, UpsertStep
<1>7. ASSUME NEW r \in Requests, Deliver(r) \/ Lose(r) PROVE IInv'
  BY <1>7, DeliverStep
<1>8. CASE \/ \E b \in Browsers : CookieExpires(b)
           \/ \E u \in Subjects : \/ DeleteUser(u) \/ DropUser(u)
                                  \/ \E id \in UserIds : CacheUser(u, id)
  BY <1>8, OutsideStep
<1> QED
  BY <1>1, <1>2, <1>3, <1>4, <1>5, <1>6, <1>7, <1>8 DEF Next

\* The invariant holds in every state.
THEOREM Invariance == Spec => []IInv
<1>1. Init => IInv
  BY InvInit
<1>2. IInv /\ [Next]_vars => IInv'
  BY InvStep
<1> QED
  BY <1>1, <1>2, PTL DEF Spec

-----------------------------------------------------------------------------
\* Type correctness of the sign-in.
THEOREM AuthFlowTyped == Spec => []TypeOK
  BY Invariance, PTL DEF IInv

\* Only the browser that began a login completes it (Callback's comparison of the
\* state with the cookie).
THEOREM LoginCompletesWhereBegun == Spec => []CompletesWhereBegun
<1>1. IInv => CompletesWhereBegun
  <2> SUFFICES ASSUME IInv, NEW r \in Requests,
                      At(r, "exchange") \/ At(r, "upsert") \/ call[r].answer = "SignedIn"
               PROVE  login[call[r].state].browser = call[r].browser
    BY DEF CompletesWhereBegun
  <2>1. call[r] \in CallType /\ Formed(call[r], login)
    BY DEF IInv, TypeOK, CallsFormed
  <2> QED
    BY <2>1, NullAssumption DEF Formed, Clears, Answers
<1> QED
  BY <1>1, Invariance, PTL

\* Until it expires, a token somebody was signed in with is let in as the user id it
\* was answered with, or as a deleted user of its subject that the cache still has
\* (the claims of Callback and JWTAuth, the upsert, the cached resolver).
THEOREM SignedInActs == Spec => []TokensActAsAnswered
<1>1. IInv => TokensActAsAnswered
  <2> SUFFICES ASSUME IInv, NEW s \in Logins, NEW i \in UserIds, <<s, i>> \in signedIn,
                      login[s].verdict.fault # "expired"
               PROVE  LET t == login[s].verdict
                          u == JWTAuth(t)
                      IN  \/ u = i
                          \/ <<t.sub, u>> \in former
                          \/ <<t.sub, i>> \in former /\ u \in {Null, users[t.sub]}
    BY DEF TokensActAsAnswered
  <2> DEFINE t == login[s].verdict
  <2>1. /\ t \in Tokens /\ t.sub \in Subjects /\ ClaimsAccepted(t)
        /\ AsResolver!HadBy(t.sub, i)
    BY DEF IInv, SignedInHolds, Good, Tokens
  <2>2. TokenAccepted(t)
    BY <2>1 DEF ClaimsAccepted, TokenAccepted
  <2>3. /\ JWTAuth(t) = IF cached[t.sub] # Null THEN cached[t.sub] ELSE users[t.sub]
        /\ cached[t.sub] # Null => AsResolver!HadBy(t.sub, cached[t.sub])
    BY <2>1, <2>2 DEF JWTAuth, AsResolver!Resolved, IInv, CachedHolds
  <2> QED
    BY <2>1, <2>3 DEF AsResolver!HadBy
<1> QED
  BY <1>1, Invariance, PTL

\* Once an answer has closed a state, no callback sent with it matches its cookie.
THEOREM ClosedStateStaysSpent == Spec => SpentStateStaysSpent
<1> DEFINE A == \A r \in Requests :
             At(r, "sent")' /\ At(r, "idle") /\ call'[r].state \in closed =>
               ~StateMatches(r)'
<1>1. IInv /\ [Next]_vars => [A]_vars
  <2> SUFFICES ASSUME IInv, Next, NEW r \in Requests,
                      call'[r].pc = "sent", call[r].pc = "idle",
                      call'[r].state \in closed
               PROVE  call'[r].cookie # call'[r].state
    BY DEF StateMatches
  <2>1. ASSUME NEW t \in Requests,
               \/ Callback(t) \/ ExchangeCode(t) \/ ExchangeFails(t)
               \/ FindOrCreateUser(t) \/ Deliver(t) \/ Lose(t)
        PROVE  FALSE
    <3>1. call[t].pc # "idle" /\ \A x \in Requests \ {t} : call'[x] = call[x]
      BY <2>1 DEF Callback, ExchangeCode, ExchangeFails, FindOrCreateUser, Deliver, Lose,
                  Reply, IInv, TypeOK
    <3> QED
      BY <3>1
  <2>2. ASSUME NEW t \in Requests, NEW b \in Browsers, NEW s \in Logins, Send(t, b, s)
        PROVE  call'[r].cookie # call'[r].state
    <3>1. t = r
      BY <2>2 DEF Send, IInv, TypeOK
    <3>2. call'[r].state = s /\ call'[r].cookie = cookie[b]
      BY <2>2, <3>1 DEF Send, NoCall, IInv, TypeOK
    <3> QED
      BY <3>2 DEF IInv, ClosedGone
  <2>3. CASE UNCHANGED call
    BY <2>3
  <2> QED
    BY <2>1, <2>2, <2>3 DEF Next, Login, Decide, ExpireToken, CookieExpires,
                           DeleteUser, DropUser, CacheUser
<1> QED
  BY <1>1, Invariance, PTL DEF Spec, SpentStateStaysSpent
=============================================================================
