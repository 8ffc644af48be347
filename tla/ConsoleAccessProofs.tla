------------------------- MODULE ConsoleAccessProofs -------------------------
(***************************************************************************)
(* Proofs about ConsoleAccess, for any users, browsers, requests, OAuth    *)
(* states, tokens and session ids.                                         *)
(***************************************************************************)
EXTENDS ConsoleAccess, TLAPS

SessionType == [phase : {"unused", "live", "expired", "deleted"},
                user : Users \cup {None}, role : Roles, via : States \cup Tokens \cup {None}]

RequestType == [pc : {"idle", "exchange", "select", "insert", "session", "respond", "serve"},
                browser : Browsers \cup {None}, user : Users \cup {None},
                role : Roles, need : Needs,
                via : States \cup Tokens \cup {None}, sid : Sids \cup {None}]

Used(sid) == sessions[sid].phase # "unused"

\* What a handler does for a browser rests on a grant, and the session it made is
\* of the user and the role it was granted.
Backed(q) ==
  /\ Granted(q.browser, q.user, q.role)
  /\ q.pc = "serve" => Admits(q.need, q.role)
  /\ q.pc = "respond" => /\ q.sid \in Sids /\ Used(q.sid)
                         /\ sessions[q.sid].user = q.user /\ sessions[q.sid].role = q.role

RequestsBacked == \A r \in Requests : requests[r].pc # "idle" => Backed(requests[r])

\* So does the session that a cookie names.
Carried(browser, sid) == Used(sid) /\ Granted(browser, sessions[sid].user, sessions[sid].role)

CookiesBacked ==
  \A browser \in Browsers, name \in Cookies :
    cookies[browser][name] # None => Carried(browser, cookies[browser][name])

IInv == TypeOK /\ RequestsBacked /\ CookiesBacked

-----------------------------------------------------------------------------
LEMMA IdleType == Idle \in RequestType /\ Idle.pc = "idle" /\ Idle.via = None /\ Idle.sid = None
BY DEF Idle, RequestType, Roles, Needs

LEMMA InitIInv == Init => IInv
<1> SUFFICES ASSUME Init PROVE IInv
  OBVIOUS
<1>1. sessions \in [Sids -> SessionType]
  BY DEF Init, NoSession, SessionType, Roles
<1>2. requests \in [Requests -> RequestType]
  BY IdleType DEF Init
<1>3. cookies \in [Browsers -> [Cookies -> Sids \cup {None}]]
  BY DEF Init
<1>4. TypeOK
  BY <1>1, <1>2, <1>3 DEF Init, TypeOK, SessionType, RequestType, Kinds
<1>5. RequestsBacked
  BY IdleType DEF Init, RequestsBacked
<1>6. CookiesBacked
  BY DEF Init, CookiesBacked
<1> QED
  BY <1>4, <1>5, <1>6 DEF IInv

-----------------------------------------------------------------------------
\* Steps that grant no less, forget no session and set no cookie.

Calm ==
  /\ granted \subseteq granted'
  /\ \A sid \in Sids : Used(sid) =>
       Used(sid)' /\ sessions'[sid].user = sessions[sid].user /\ sessions'[sid].role = sessions[sid].role
  /\ \A browser \in Browsers, name \in Cookies :
       cookies'[browser][name] \in {cookies[browser][name], None}

\* A calm step keeps what rests on grants.
LEMMA CookiesKeep ==
  ASSUME IInv, Calm
  PROVE  CookiesBacked'
<1> SUFFICES ASSUME NEW browser \in Browsers, NEW name \in Cookies, cookies'[browser][name] # None
             PROVE  Carried(browser, cookies[browser][name])'
  BY DEF CookiesBacked
<1> DEFINE sid == cookies[browser][name]
<1>1. cookies'[browser][name] = sid /\ sid # None
  BY DEF Calm
<1>2. sid \in Sids /\ Carried(browser, sid)
  BY <1>1 DEF IInv, TypeOK, CookiesBacked
<1> HIDE DEF sid
<1>3. Used(sid) /\ [browser |-> browser, user |-> sessions[sid].user, role |-> sessions[sid].role] \in granted
  BY <1>2 DEF Carried, Granted
<1>4. /\ sessions'[sid].phase # "unused"
      /\ [browser |-> browser, user |-> sessions'[sid].user, role |-> sessions'[sid].role] \in granted'
  BY <1>2, <1>3 DEF Calm, Used
<1> QED
  BY <1>1, <1>4 DEF Carried, Used, Granted

LEMMA CalmStep ==
  ASSUME IInv, TypeOK', Calm,
         \A r \in Requests : requests'[r] = requests[r] \/ requests'[r].pc = "idle"
  PROVE  IInv'
<1>1. ASSUME NEW r \in Requests, requests'[r].pc # "idle" PROVE Backed(requests[r])'
  <2> DEFINE q == requests[r]
  <2>1. requests'[r] = q /\ Backed(q)
    BY <1>1 DEF IInv, RequestsBacked
  <2> HIDE DEF q
  <2>2. /\ [browser |-> q.browser, user |-> q.user, role |-> q.role] \in granted'
        /\ q.pc = "serve" => Admits(q.need, q.role)
        /\ q.pc = "respond" => /\ q.sid \in Sids /\ sessions'[q.sid].phase # "unused"
                               /\ sessions'[q.sid].user = q.user /\ sessions'[q.sid].role = q.role
    BY <2>1 DEF Backed, Granted, Used, Calm
  <2> QED
    BY <2>1, <2>2 DEF Backed, Granted, Used, Admits
<1>2. RequestsBacked'
  BY <1>1 DEF RequestsBacked
<1> QED
  BY <1>2, CookiesKeep DEF IInv

\* The same for a step in which one handler goes on.
LEMMA HandlerStep ==
  ASSUME IInv, TypeOK', Calm, NEW r \in Requests, NEW q \in RequestType,
         requests' = [requests EXCEPT ![r] = q],
         [browser |-> q.browser, user |-> q.user, role |-> q.role] \in granted',
         q.pc = "serve" => Admits(q.need, q.role),
         q.pc = "respond" => /\ q.sid \in Sids /\ sessions'[q.sid].phase # "unused"
                             /\ sessions'[q.sid].user = q.user /\ sessions'[q.sid].role = q.role
  PROVE  IInv'
<1>1. ASSUME NEW p \in Requests, requests'[p].pc # "idle" PROVE Backed(requests[p])'
  <2> DEFINE o == requests[p]
  <2>1. CASE p = r
    <3>1. requests'[p] = q
      BY <2>1 DEF IInv, TypeOK
    <3> QED
      BY <3>1 DEF Backed, Granted, Used, Admits
  <2>2. CASE p # r
    <3>1. requests'[p] = o
      BY <2>2 DEF IInv, TypeOK
    <3>2. Backed(o)
      BY <1>1, <3>1 DEF IInv, RequestsBacked
    <3> HIDE DEF o
    <3>3. /\ [browser |-> o.browser, user |-> o.user, role |-> o.role] \in granted'
          /\ o.pc = "serve" => Admits(o.need, o.role)
          /\ o.pc = "respond" => /\ o.sid \in Sids /\ sessions'[o.sid].phase # "unused"
                                 /\ sessions'[o.sid].user = o.user /\ sessions'[o.sid].role = o.role
      BY <3>2 DEF Backed, Granted, Used, Calm
    <3> QED
      BY <3>1, <3>3 DEF Backed, Granted, Used, Admits
  <2> QED
    BY <2>1, <2>2
<1>2. RequestsBacked'
  BY <1>1 DEF RequestsBacked
<1> QED
  BY <1>2, CookiesKeep DEF IInv

\* Marking sessions deleted keeps whose they are.
LEMMA SignOutKeeps ==
  ASSUME IInv, NEW sids \in SUBSET Sids, SignOut(sids), \A sid \in sids : Used(sid)
  PROVE  /\ sessions' \in [Sids -> SessionType]
         /\ \A sid \in Sids : /\ sessions'[sid].user = sessions[sid].user
                              /\ sessions'[sid].role = sessions[sid].role
                              /\ Used(sid) => Used(sid)'
<1>1. sessions \in [Sids -> SessionType]
  BY DEF IInv, TypeOK, SessionType
<1>2. \A sid \in Sids : [sessions[sid] EXCEPT !.phase = "deleted"] \in SessionType
  BY <1>1 DEF SessionType
<1>3. \A sid \in Sids : sessions'[sid] =
        IF sid \in sids THEN [sessions[sid] EXCEPT !.phase = "deleted"] ELSE sessions[sid]
  BY DEF SignOut
<1>4. sessions' \in [Sids -> SessionType]
  BY <1>1, <1>2 DEF SignOut
<1>5. \A sid \in Sids : /\ sessions'[sid].user = sessions[sid].user
                        /\ sessions'[sid].role = sessions[sid].role
                        /\ Used(sid) => Used(sid)'
  BY <1>1, <1>3 DEF Used, SessionType
<1> QED
  BY <1>4, <1>5

-----------------------------------------------------------------------------
\* Steps of Login.

LEMMA StateStep ==
  ASSUME IInv, NEW state \in States,
         StateExpires(state) \/ \E kind \in Kinds : StartLogin(state, kind)
  PROVE  IInv'
<1>1. UNCHANGED <<playerKey, keys, viewers, sessions, links, cookies, requests, minter, granted,
                  revoked, racing>>
  BY DEF StateExpires, StartLogin, accountVars, historyVars
<1>2. pending' \in [States -> Kinds \cup {"unused", "spent"}]
  BY DEF StateExpires, StartLogin, IInv, TypeOK
<1>3. TypeOK'
  BY <1>1, <1>2 DEF IInv, TypeOK
<1>4. Calm
  BY <1>1 DEF Calm, Used
<1> QED
  BY <1>1, <1>3, <1>4, CalmStep

LEMMA CallbackStep ==
  ASSUME IInv, NEW r \in Requests, NEW browser \in Browsers, NEW user \in Users, NEW state \in States,
         Callback(r, browser, user, state)
  PROVE  IInv'
<1> DEFINE role == LoginAs(pending[state])
           q == [Idle EXCEPT !.pc = "exchange", !.browser = browser, !.user = user,
                             !.role = role, !.via = state]
<1>1. role = pending[state] /\ role \in Roles
  BY DEF Callback, Consented, LoginAs, Kinds, Roles
<1>2. /\ granted' = granted \cup {[browser |-> browser, user |-> user, role |-> role]}
      /\ requests' = [requests EXCEPT ![r] = q]
      /\ pending' = [pending EXCEPT ![state] = "spent"]
      /\ UNCHANGED <<playerKey, keys, viewers, sessions, links, cookies, minter, revoked, racing>>
  BY <1>1 DEF Callback, Consented, accountVars
<1> HIDE DEF role
<1>3. /\ q \in RequestType /\ q.pc = "exchange" /\ q.browser = browser /\ q.user = user
      /\ q.role = role
  BY <1>1 DEF Idle, RequestType, Needs, Roles
<1> HIDE DEF q
<1>4. requests \in [Requests -> RequestType]
  BY DEF IInv, TypeOK, RequestType
<1>5. requests' \in [Requests -> RequestType]
  BY <1>2, <1>3, <1>4
<1>6. granted' \subseteq Grants
  BY <1>1, <1>2 DEF IInv, TypeOK, Grants
<1>7. TypeOK'
  BY <1>2, <1>5, <1>6 DEF IInv, TypeOK, RequestType
<1>8. Calm
  BY <1>2 DEF Calm, Used
<1>9. [browser |-> q.browser, user |-> q.user, role |-> q.role] \in granted'
  BY <1>2, <1>3
<1> QED
  BY <1>2, <1>3, <1>7, <1>8, <1>9, HandlerStep

\* A handler goes on in the same name, or ends; tables other than accounts stay.
LEMMA GoOn ==
  ASSUME IInv, NEW r \in Requests, requests[r].pc # "idle",
         End(r) \/ \E pc \in {"select", "insert", "session"} : Goto(r, pc),
         playerKey' \in [Users -> Nat], keys' \in Nat, viewers' \subseteq Users,
         UNCHANGED <<pending, sessions, links, cookies, historyVars>>
  PROVE  IInv'
<1>1. requests \in [Requests -> RequestType]
  BY DEF IInv, TypeOK, RequestType
<1>2. Calm
  BY DEF Calm, Used, historyVars
<1>3. CASE End(r)
  <2>1. requests' \in [Requests -> RequestType]
    BY <1>1, <1>3, IdleType DEF End
  <2>2. TypeOK'
    BY <2>1 DEF IInv, TypeOK, RequestType, historyVars
  <2>3. \A p \in Requests : requests'[p] = requests[p] \/ requests'[p].pc = "idle"
    BY <1>1, <1>3, IdleType DEF End
  <2> QED
    BY <1>2, <2>2, <2>3, CalmStep
<1>4. ASSUME NEW pc \in {"select", "insert", "session"}, Goto(r, pc) PROVE IInv'
  <2> DEFINE q == [requests[r] EXCEPT !.pc = pc]
  <2>1. /\ q \in RequestType /\ q.pc = pc /\ q.browser = requests[r].browser
        /\ q.user = requests[r].user /\ q.role = requests[r].role
    BY <1>1 DEF RequestType
  <2>2. requests' = [requests EXCEPT ![r] = q]
    BY <1>1, <1>4 DEF Goto
  <2> HIDE DEF q
  <2>3. requests' \in [Requests -> RequestType] /\ requests'[r] = q
        /\ \A p \in Requests \ {r} : requests'[p] = requests[p]
    BY <1>1, <2>1, <2>2
  <2>4. TypeOK'
    BY <2>3 DEF IInv, TypeOK, RequestType, historyVars
  <2>5. [browser |-> q.browser, user |-> q.user, role |-> q.role] \in granted'
    BY <2>1 DEF IInv, RequestsBacked, Backed, Granted, historyVars
  <2>6. q.pc # "serve" /\ q.pc # "respond"
    BY <2>1
  <2> QED
    BY <1>2, <2>1, <2>2, <2>4, <2>5, <2>6, HandlerStep
<1> QED
  BY <1>3, <1>4

LEMMA AccountStep ==
  ASSUME IInv, NEW r \in Requests, Exchange(r) \/ SelectAccount(r) \/ InsertAccount(r) \/ Served(r)
  PROVE  IInv'
<1>1. playerKey \in [Users -> Nat] /\ keys \in Nat /\ viewers \subseteq Users
  BY DEF IInv, TypeOK
<1>2. CASE Exchange(r) \/ SelectAccount(r) \/ Served(r)
  <2>1. requests[r].pc # "idle"
    BY <1>2 DEF Exchange, SelectAccount, Served
  <2>2. End(r) \/ \E pc \in {"select", "insert", "session"} : Goto(r, pc)
    BY <1>2 DEF Exchange, SelectAccount, Served
  <2>3. UNCHANGED <<playerKey, keys, viewers, pending, sessions, links, cookies, historyVars>>
    BY <1>2 DEF Exchange, SelectAccount, Served, accountVars
  <2> QED
    BY <1>1, <2>1, <2>2, <2>3, GoOn
<1>3. CASE InsertAccount(r)
  <2>1. requests[r].pc # "idle" /\ requests[r].pc = "insert"
    BY <1>3 DEF InsertAccount
  <2>2. requests[r] \in RequestType /\ requests[r].user \in Users
    BY <2>1 DEF IInv, TypeOK, RequestType, RequestsBacked, Backed, Granted, Grants
  <2>3. End(r) \/ Goto(r, "session")
    BY <1>3 DEF InsertAccount
  <2>4. playerKey' \in [Users -> Nat] /\ keys' \in Nat /\ viewers' \subseteq Users
    BY <1>1, <1>3, <2>2 DEF InsertAccount, CreateAccount, accountVars
  <2>5. UNCHANGED <<pending, sessions, links, cookies, historyVars>>
    BY <1>3 DEF InsertAccount
  <2> QED
    BY <2>1, <2>3, <2>4, <2>5, GoOn
<1> QED
  BY <1>2, <1>3

LEMMA CreateSessionStep ==
  ASSUME IInv, NEW r \in Requests, NEW sid \in Sids, CreateSession(r, sid)
  PROVE  IInv'
<1> DEFINE q == [requests[r] EXCEPT !.pc = "respond", !.sid = sid]
           s == [phase |-> "live", user |-> requests[r].user, role |-> requests[r].role,
                 via |-> requests[r].via]
<1>1. /\ requests \in [Requests -> RequestType] /\ sessions \in [Sids -> SessionType]
      /\ requests[r].pc = "session" /\ ~Used(sid)
  BY DEF CreateSession, IInv, TypeOK, RequestType, SessionType, Used
<1>2. /\ q \in RequestType /\ q.pc = "respond" /\ q.sid = sid /\ q.browser = requests[r].browser
      /\ q.user = requests[r].user /\ q.role = requests[r].role
  BY <1>1 DEF RequestType
<1>3. /\ s \in SessionType /\ s.phase = "live" /\ s.user = requests[r].user
      /\ s.role = requests[r].role
  BY <1>1 DEF RequestType, SessionType
<1>4. /\ requests' = [requests EXCEPT ![r] = q] /\ sessions' = [sessions EXCEPT ![sid] = s]
      /\ UNCHANGED <<pending, playerKey, keys, viewers, links, cookies, minter, granted, revoked, racing>>
  BY <1>1 DEF CreateSession, accountVars, historyVars
<1> HIDE DEF q, s
<1>5. /\ requests' \in [Requests -> RequestType] /\ requests'[r] = q
      /\ \A p \in Requests \ {r} : requests'[p] = requests[p]
  BY <1>1, <1>2, <1>4
<1>6. /\ sessions' \in [Sids -> SessionType] /\ sessions'[sid] = s
      /\ \A t \in Sids \ {sid} : sessions'[t] = sessions[t]
  BY <1>1, <1>3, <1>4
<1>7. TypeOK'
  BY <1>4, <1>5, <1>6 DEF IInv, TypeOK, RequestType, SessionType
<1>8. Calm
  BY <1>1, <1>4, <1>6 DEF Calm, Used
<1>9. [browser |-> q.browser, user |-> q.user, role |-> q.role] \in granted'
  BY <1>1, <1>2, <1>4 DEF IInv, RequestsBacked, Backed, Granted
<1>10. /\ sessions'[sid].phase # "unused"
       /\ sessions'[sid].user = q.user /\ sessions'[sid].role = q.role
  BY <1>2, <1>3, <1>6
<1> QED
  BY <1>2, <1>4, <1>7, <1>8, <1>9, <1>10, HandlerStep

LEMMA RespondStep ==
  ASSUME IInv, NEW r \in Requests, Respond(r)
  PROVE  IInv'
<1> DEFINE browser == requests[r].browser
           sid == requests[r].sid
           name == Cookie(requests[r].role)
<1>1. /\ requests \in [Requests -> RequestType] /\ cookies \in [Browsers -> [Cookies -> Sids \cup {None}]]
      /\ requests[r].pc = "respond"
  BY DEF Respond, IInv, TypeOK, RequestType
<1>2. /\ sid \in Sids /\ Used(sid)
      /\ Granted(browser, sessions[sid].user, sessions[sid].role) /\ browser \in Browsers
  BY <1>1 DEF IInv, TypeOK, RequestsBacked, Backed, Granted, Grants
<1>3. name \in Cookies
  BY DEF Cookie, Cookies
<1>4. /\ cookies' \in {cookies, [cookies EXCEPT ![browser] = [cookies[browser] EXCEPT ![name] = sid]]}
      /\ requests' = [requests EXCEPT ![r] = Idle]
      /\ UNCHANGED <<pending, playerKey, keys, viewers, sessions, links, minter, granted, revoked, racing>>
  BY <1>1 DEF Respond, End, accountVars, historyVars
<1> HIDE DEF browser, sid, name
<1>5. [cookies[browser] EXCEPT ![name] = sid] \in [Cookies -> Sids \cup {None}]
  BY <1>1, <1>2, <1>3
<1>6. cookies' \in [Browsers -> [Cookies -> Sids \cup {None}]]
  BY <1>1, <1>2, <1>4, <1>5
<1>7. requests' \in [Requests -> RequestType]
  BY <1>1, <1>4, IdleType
<1>8. TypeOK'
  BY <1>4, <1>6, <1>7 DEF IInv, TypeOK, RequestType
<1>9. RequestsBacked'
  <2> SUFFICES ASSUME NEW p \in Requests, requests'[p].pc # "idle" PROVE Backed(requests[p])'
    BY DEF RequestsBacked
  <2>1. requests'[p] = requests[p]
    BY <1>1, <1>4, IdleType
  <2>2. Backed(requests[p])
    BY <2>1 DEF IInv, RequestsBacked
  <2> QED
    BY <1>4, <2>1, <2>2 DEF Backed, Granted, Used
<1>10. CookiesBacked'
  <2> SUFFICES ASSUME NEW b \in Browsers, NEW n \in Cookies, cookies'[b][n] # None
               PROVE  Carried(b, cookies'[b][n])
    BY <1>4 DEF CookiesBacked, Carried, Used, Granted
  <2>1. CASE cookies'[b][n] = cookies[b][n]
    BY <2>1 DEF IInv, CookiesBacked
  <2>2. CASE cookies'[b][n] # cookies[b][n]
    <3>1. b = browser /\ cookies'[b][n] = sid
      BY <1>1, <1>2, <1>3, <1>4, <2>2
    <3> QED
      BY <1>2, <3>1 DEF Carried
  <2> QED
    BY <2>1, <2>2
<1> QED
  BY <1>8, <1>9, <1>10 DEF IInv

-----------------------------------------------------------------------------
\* Moderator links.

LEMMA ClaimStep ==
  ASSUME IInv, NEW r \in Requests, NEW browser \in Browsers, NEW user \in Users, Claim(r, browser, user)
  PROVE  IInv'
<1> DEFINE q == [Idle EXCEPT !.pc = "session", !.browser = browser, !.user = user,
                             !.role = "moderator", !.via = links[user]]
<1>1. /\ granted' = granted \cup {[browser |-> browser, user |-> user, role |-> "moderator"]}
      /\ requests' = [requests EXCEPT ![r] = q]
      /\ UNCHANGED <<pending, playerKey, keys, viewers, sessions, links, cookies, minter, revoked, racing>>
  BY DEF Claim, accountVars
<1>2. links[user] \in Tokens \cup {None}
  BY DEF IInv, TypeOK
<1>3. /\ q \in RequestType /\ q.pc = "session" /\ q.browser = browser /\ q.user = user
      /\ q.role = "moderator"
  BY <1>2 DEF Idle, RequestType, Needs, Roles
<1> HIDE DEF q
<1>4. requests \in [Requests -> RequestType]
  BY DEF IInv, TypeOK, RequestType
<1>5. /\ requests' \in [Requests -> RequestType] /\ requests'[r] = q
      /\ \A p \in Requests \ {r} : requests'[p] = requests[p]
  BY <1>1, <1>3, <1>4
<1>6. granted' \subseteq Grants
  BY <1>1 DEF IInv, TypeOK, Grants, Roles
<1>7. TypeOK'
  BY <1>1, <1>5, <1>6 DEF IInv, TypeOK, RequestType
<1>8. Calm
  BY <1>1 DEF Calm, Used
<1>9. [browser |-> q.browser, user |-> q.user, role |-> q.role] \in granted'
  BY <1>1, <1>3
<1> QED
  BY <1>1, <1>3, <1>7, <1>8, <1>9, HandlerStep

\* The owner of a link-managing request is a streamer.
LEMMA RegenerateStep ==
  ASSUME IInv, NEW r \in Requests, NEW token \in Tokens, Regenerate(r, token)
  PROVE  IInv'
<1>1. /\ requests \in [Requests -> RequestType] /\ requests[r].user \in Users
      /\ links \in [Users -> Tokens \cup {None}] /\ minter \in [Tokens -> Users \cup {None}]
  BY DEF Regenerate, IInv, TypeOK, RequestType, RequestsBacked, Backed, Granted, Grants
<1>2. /\ links' = [links EXCEPT ![requests[r].user] = token]
      /\ minter' = [minter EXCEPT ![token] = requests[r].user]
      /\ requests' = [requests EXCEPT ![r] = Idle]
      /\ UNCHANGED <<pending, playerKey, keys, viewers, sessions, cookies, granted, revoked, racing>>
  BY DEF Regenerate, End, accountVars
<1>3. /\ requests' \in [Requests -> RequestType]
      /\ \A p \in Requests : requests'[p] = requests[p] \/ requests'[p].pc = "idle"
  BY <1>1, <1>2, IdleType
<1>4. links' \in [Users -> Tokens \cup {None}] /\ minter' \in [Tokens -> Users \cup {None}]
  BY <1>1, <1>2
<1>5. TypeOK'
  BY <1>2, <1>3, <1>4 DEF IInv, TypeOK, RequestType
<1>6. Calm
  BY <1>2 DEF Calm, Used
<1> QED
  BY <1>3, <1>5, <1>6, CalmStep

LEMMA RevokeStep ==
  ASSUME IInv, NEW r \in Requests, Revoke(r)
  PROVE  IInv'
<1> DEFINE user == requests[r].user
           sids == ModeratorSessions(user)
<1>1. /\ requests \in [Requests -> RequestType] /\ links \in [Users -> Tokens \cup {None}]
  BY DEF IInv, TypeOK, RequestType
<1>2. /\ links' = [links EXCEPT ![user] = None] /\ SignOut(sids)
      /\ revoked' = revoked \cup TokensOf(user)
      /\ racing' = racing \cup (TokensOf(user) \cap Claimed)
      /\ requests' = [requests EXCEPT ![r] = Idle]
      /\ UNCHANGED <<pending, playerKey, keys, viewers, cookies, minter, granted>>
  BY DEF Revoke, End, accountVars
<1>3. sids \in SUBSET Sids /\ \A sid \in sids : Used(sid)
  BY DEF ModeratorSessions, Stored, Used
<1> HIDE DEF sids, user
<1>4. /\ sessions' \in [Sids -> SessionType]
      /\ \A sid \in Sids : /\ sessions'[sid].user = sessions[sid].user
                           /\ sessions'[sid].role = sessions[sid].role
                           /\ Used(sid) => Used(sid)'
  BY <1>2, <1>3, SignOutKeeps
<1>5. /\ requests' \in [Requests -> RequestType]
      /\ \A p \in Requests : requests'[p] = requests[p] \/ requests'[p].pc = "idle"
  BY <1>1, <1>2, IdleType
<1>6. TokensOf(user) \subseteq Tokens
  BY DEF TokensOf
<1>7. links' \in [Users -> Tokens \cup {None}] /\ revoked' \subseteq Tokens /\ racing' \subseteq Tokens
  BY <1>1, <1>2, <1>6 DEF IInv, TypeOK
<1>8. TypeOK'
  BY <1>2, <1>4, <1>5, <1>7 DEF IInv, TypeOK, RequestType, SessionType
<1>9. Calm
  BY <1>2, <1>4 DEF Calm
<1> QED
  BY <1>5, <1>8, <1>9, CalmStep

-----------------------------------------------------------------------------
\* Requests of users who are logged in.

LEMMA AdmitStep ==
  ASSUME IInv, NEW r \in Requests, NEW browser \in Browsers, NEW need \in Needs, Admit(r, browser, need)
  PROVE  IInv'
<1> DEFINE sid == cookies[browser][Cookie(need)]
           q == [Idle EXCEPT !.pc = "serve", !.browser = browser, !.user = sessions[sid].user,
                             !.role = sessions[sid].role, !.need = need]
<1>1. Cookie(need) \in Cookies
  BY DEF Cookie, Cookies
<1>2. sid \in Sids /\ Granted(browser, sessions[sid].user, sessions[sid].role)
  BY <1>1 DEF Admit, IInv, TypeOK, CookiesBacked, Carried
<1>3. sessions[sid] \in SessionType
  BY <1>2 DEF IInv, TypeOK, SessionType
<1>4. /\ requests' = [requests EXCEPT ![r] = q] /\ Admits(need, sessions[sid].role)
      /\ UNCHANGED <<pending, playerKey, keys, viewers, sessions, links, cookies, minter, granted,
                     revoked, racing>>
  BY DEF Admit, accountVars, historyVars
<1> HIDE DEF sid
<1>5. /\ q \in RequestType /\ q.pc = "serve" /\ q.browser = browser /\ q.user = sessions[sid].user
      /\ q.role = sessions[sid].role /\ q.need = need
  BY <1>3 DEF Idle, RequestType, SessionType
<1> HIDE DEF q
<1>6. requests \in [Requests -> RequestType]
  BY DEF IInv, TypeOK, RequestType
<1>7. /\ requests' \in [Requests -> RequestType] /\ requests'[r] = q
      /\ \A p \in Requests \ {r} : requests'[p] = requests[p]
  BY <1>4, <1>5, <1>6
<1>8. TypeOK'
  BY <1>4, <1>7 DEF IInv, TypeOK, RequestType
<1>9. Calm
  BY <1>4 DEF Calm, Used
<1>10. /\ [browser |-> q.browser, user |-> q.user, role |-> q.role] \in granted'
       /\ Admits(q.need, q.role)
  BY <1>2, <1>4, <1>5 DEF Granted
<1> QED
  BY <1>4, <1>5, <1>8, <1>9, <1>10, HandlerStep

LEMMA SessionEnds ==
  ASSUME IInv,
         \/ \E sid \in Sids : SessionExpires(sid)
         \/ \E browser \in Browsers, name \in Cookies : DeleteExpired(browser, name) \/ Logout(browser, name)
  PROVE  IInv'
<1>1. ASSUME NEW sid \in Sids, SessionExpires(sid) PROVE IInv'
  <2> DEFINE s == [sessions[sid] EXCEPT !.phase = "expired"]
  <2>1. sessions \in [Sids -> SessionType]
    BY DEF IInv, TypeOK, SessionType
  <2>2. /\ s \in SessionType /\ s.phase = "expired" /\ s.user = sessions[sid].user
        /\ s.role = sessions[sid].role
    BY <2>1 DEF SessionType
  <2>3. /\ sessions' = [sessions EXCEPT ![sid] = s]
        /\ UNCHANGED <<pending, playerKey, keys, viewers, links, cookies, requests, minter, granted,
                       revoked, racing>>
    BY <1>1, <2>1 DEF SessionExpires, accountVars, historyVars
  <2> HIDE DEF s
  <2>4. /\ sessions' \in [Sids -> SessionType] /\ sessions'[sid] = s
        /\ \A t \in Sids \ {sid} : sessions'[t] = sessions[t]
    BY <2>1, <2>2, <2>3
  <2>5. TypeOK'
    BY <2>3, <2>4 DEF IInv, TypeOK, SessionType
  <2>6. Calm
    BY <2>2, <2>3, <2>4 DEF Calm, Used
  <2> QED
    BY <2>3, <2>5, <2>6, CalmStep
<1>2. ASSUME NEW browser \in Browsers, NEW name \in Cookies, DeleteExpired(browser, name) PROVE IInv'
  <2> DEFINE sid == cookies[browser][name]
  <2>1. sid \in Sids /\ Used(sid) /\ SignOut({sid})
    BY <1>2 DEF DeleteExpired, IInv, TypeOK, Used
  <2>2. UNCHANGED <<pending, playerKey, keys, viewers, links, cookies, requests, minter, granted,
                    revoked, racing>>
    BY <1>2 DEF DeleteExpired, accountVars, historyVars
  <2> HIDE DEF sid
  <2>3. /\ sessions' \in [Sids -> SessionType]
        /\ \A t \in Sids : /\ sessions'[t].user = sessions[t].user
                           /\ sessions'[t].role = sessions[t].role
                           /\ Used(t) => Used(t)'
    BY <2>1, SignOutKeeps
  <2>4. TypeOK'
    BY <2>2, <2>3 DEF IInv, TypeOK, SessionType
  <2>5. Calm
    BY <2>2, <2>3 DEF Calm
  <2> QED
    BY <2>2, <2>4, <2>5, CalmStep
<1>3. ASSUME NEW browser \in Browsers, NEW name \in Cookies, Logout(browser, name) PROVE IInv'
  <2> DEFINE sids == {cookies[browser][name]} \cap Stored
  <2>1. sids \in SUBSET Sids /\ (\A sid \in sids : Used(sid)) /\ SignOut(sids)
    BY <1>3 DEF Logout, Stored, Used
  <2> HIDE DEF sids
  <2>2. /\ cookies' \in {cookies, [cookies EXCEPT ![browser][name] = None]}
        /\ UNCHANGED <<pending, playerKey, keys, viewers, links, requests, minter, granted, revoked, racing>>
    BY <1>3 DEF Logout, accountVars, historyVars
  <2>3. /\ sessions' \in [Sids -> SessionType]
        /\ \A t \in Sids : /\ sessions'[t].user = sessions[t].user
                           /\ sessions'[t].role = sessions[t].role
                           /\ Used(t) => Used(t)'
    BY <2>1, SignOutKeeps
  <2>4. cookies \in [Browsers -> [Cookies -> Sids \cup {None}]]
    BY DEF IInv, TypeOK
  <2>5. [cookies[browser] EXCEPT ![name] = None] \in [Cookies -> Sids \cup {None}]
    BY <2>4
  <2>6. cookies' \in [Browsers -> [Cookies -> Sids \cup {None}]]
    BY <2>2, <2>4, <2>5
  <2>7. \A b \in Browsers, n \in Cookies : cookies'[b][n] \in {cookies[b][n], None}
    BY <2>2, <2>4
  <2>8. TypeOK'
    BY <2>2, <2>3, <2>6 DEF IInv, TypeOK, SessionType
  <2>9. Calm
    BY <2>2, <2>3, <2>7 DEF Calm
  <2> QED
    BY <2>2, <2>8, <2>9, CalmStep
<1> QED
  BY <1>1, <1>2, <1>3

LEMMA RestartStep == ASSUME IInv, Restart PROVE IInv'
<1>1. /\ pending' \in [States -> Kinds \cup {"unused", "spent"}]
      /\ \A r \in Requests : requests'[r] = Idle
      /\ requests' = [r \in Requests |-> Idle]
      /\ UNCHANGED <<playerKey, keys, viewers, sessions, links, cookies, minter, granted, revoked, racing>>
  BY DEF Restart, IInv, TypeOK, accountVars, historyVars
<1>2. requests' \in [Requests -> RequestType]
  BY <1>1, IdleType
<1>3. TypeOK'
  BY <1>1, <1>2 DEF IInv, TypeOK, RequestType
<1>4. Calm
  BY <1>1 DEF Calm, Used
<1> QED
  BY <1>1, <1>3, <1>4, IdleType, CalmStep

LEMMA StutterStep == ASSUME IInv, UNCHANGED vars PROVE IInv'
<1>1. UNCHANGED <<pending, playerKey, keys, viewers, sessions, links, cookies, requests, minter,
                  granted, revoked, racing>>
  BY DEF vars
<1>2. TypeOK'
  BY <1>1 DEF IInv, TypeOK
<1>3. Calm
  BY <1>1 DEF Calm, Used
<1> QED
  BY <1>1, <1>2, <1>3, CalmStep

LEMMA NextKeeps == IInv /\ [Next]_vars => IInv'
<1> SUFFICES ASSUME IInv, [Next]_vars PROVE IInv'
  OBVIOUS
<1>1. ASSUME NEW state \in States, StateExpires(state) \/ \E kind \in Kinds : StartLogin(state, kind)
      PROVE  IInv'
  BY <1>1, StateStep
<1>2. ASSUME NEW r \in Requests, NEW browser \in Browsers, NEW user \in Users, NEW state \in States,
             Callback(r, browser, user, state)
      PROVE  IInv'
  BY <1>2, CallbackStep
<1>3. ASSUME NEW r \in Requests, LoginStep(r) PROVE IInv'
  BY <1>3, AccountStep, CreateSessionStep, RespondStep DEF LoginStep
<1>4. ASSUME NEW r \in Requests, NEW browser \in Browsers, NEW user \in Users, Claim(r, browser, user)
      PROVE  IInv'
  BY <1>4, ClaimStep
<1>5. ASSUME NEW r \in Requests, NEW browser \in Browsers, NEW need \in Needs, Admit(r, browser, need)
      PROVE  IInv'
  BY <1>5, AdmitStep
<1>6. ASSUME NEW r \in Requests, Revoke(r) \/ Served(r) \/ \E token \in Tokens : Regenerate(r, token)
      PROVE  IInv'
  BY <1>6, RevokeStep, AccountStep, RegenerateStep
<1>7. ASSUME \/ \E sid \in Sids : SessionExpires(sid)
             \/ \E browser \in Browsers, name \in Cookies :
                  DeleteExpired(browser, name) \/ Logout(browser, name)
      PROVE  IInv'
  BY <1>7, SessionEnds
<1> QED
  BY <1>1, <1>2, <1>3, <1>4, <1>5, <1>6, <1>7, RestartStep, StutterStep DEF Next

-----------------------------------------------------------------------------
\* Theorems.

\* The inductive invariant holds: every handler and cookie is backed by a grant.
THEOREM Invariance == Spec => []IInv
BY InitIInv, NextKeeps, PTL DEF Spec

\* Accounts, sessions, links, cookies and handlers keep their types.
THEOREM TypeCorrect == Spec => []TypeOK
<1>1. IInv => TypeOK
  BY DEF IInv
<1> QED
  BY <1>1, Invariance, PTL

\* No browser acts in a channel, or for a viewer, without having logged in as that
\* user or claimed that streamer's link, and owner-only requests are the owner's
\* alone (auth.go:307, auth.go:326).
THEOREM Confined == Spec => []ServedWithGrant
<1>1. IInv => ServedWithGrant
  <2> SUFFICES ASSUME IInv, NEW r \in Requests, requests[r].pc = "serve"
               PROVE  LET q == requests[r] IN
                        \/ Granted(q.browser, q.user, IF q.need = "viewer" THEN "viewer" ELSE "owner")
                        \/ q.need = "console" /\ Granted(q.browser, q.user, "moderator")
    BY DEF ServedWithGrant
  <2>1. /\ Granted(requests[r].browser, requests[r].user, requests[r].role)
        /\ Admits(requests[r].need, requests[r].role)
    BY DEF IInv, RequestsBacked, Backed
  <2>2. requests[r].need \in Needs
    BY DEF IInv, TypeOK
  <2> QED
    BY <2>1, <2>2 DEF Admits, Needs
<1> QED
  BY <1>1, Invariance, PTL

\* A player key is never replaced, whatever logins race (store.go:167).
THEOREM KeyKept == Spec => PlayerKeyKept
<1>1. ASSUME IInv, Next, NEW user \in Users, playerKey[user] # 0
      PROVE  playerKey'[user] = playerKey[user]
  <2>1. ASSUME NEW r \in Requests, InsertAccount(r) PROVE playerKey'[user] = playerKey[user]
    <3>1. playerKey \in [Users -> Nat]
      BY <1>1 DEF IInv, TypeOK
    <3>2. CASE HasAccount(requests[r].user, requests[r].role)
      BY <2>1, <3>2 DEF InsertAccount, accountVars
    <3>3. CASE ~HasAccount(requests[r].user, requests[r].role)
      BY <1>1, <2>1, <3>1, <3>3 DEF InsertAccount, CreateAccount, HasAccount
    <3> QED
      BY <3>2, <3>3
  <2>2. CASE \A r \in Requests : ~InsertAccount(r)
    BY <1>1, <2>2 DEF Next, LoginStep, StartLogin, StateExpires, Callback, Consented, Exchange,
       SelectAccount, CreateSession, Respond, Claim, Admit, Regenerate, Revoke, Served,
       DeleteExpired, Logout, SessionExpires, Restart, accountVars
  <2> QED
    BY <2>1, <2>2
<1>2. IInv /\ [Next]_vars =>
        [\A user \in Users : playerKey[user] # 0 => playerKey'[user] = playerKey[user]]_vars
  BY <1>1
<1> QED
  BY <1>2, Invariance, PTL DEF Spec, PlayerKeyKept

-----------------------------------------------------------------------------
\* What steps do to sessions and handlers, for the theorems that follow.

\* A handler that ends or goes on is the only one that changes.
LEMMA HandlerEnds ==
  ASSUME TypeOK, NEW r \in Requests, End(r)
  PROVE  requests'[r] = Idle /\ \A q \in Requests \ {r} : requests'[q] = requests[q]
BY DEF TypeOK, End

LEMMA HandlerGoes ==
  ASSUME TypeOK, NEW r \in Requests, NEW pc, Goto(r, pc)
  PROVE  /\ requests'[r] = [requests[r] EXCEPT !.pc = pc]
         /\ \A q \in Requests \ {r} : requests'[q] = requests[q]
BY DEF TypeOK, Goto

\* Signing out changes how long a session lasts and nothing else.
LEMMA SignOutDoes ==
  ASSUME TypeOK, NEW S, SignOut(S), NEW sid \in Sids
  PROVE  /\ sessions'[sid].via = sessions[sid].via /\ sessions'[sid].user = sessions[sid].user
         /\ sessions'[sid].role = sessions[sid].role
         /\ sid \notin S => sessions'[sid] = sessions[sid]
         /\ sid \in S => sessions'[sid].phase = "deleted"
<1>1. sessions[sid] \in SessionType
  BY DEF TypeOK, SessionType
<1>2. sessions'[sid] = IF sid \in S THEN [sessions[sid] EXCEPT !.phase = "deleted"] ELSE sessions[sid]
  BY DEF SignOut
<1> QED
  BY <1>1, <1>2 DEF SessionType

\* A handler keeps what let it in, and goes on towards its answer, or lets it go.
Proceeds(r) ==
  \/ requests'[r].via = None
  \/ /\ requests'[r].via = requests[r].via
     /\ requests'[r].user = requests[r].user /\ requests'[r].role = requests[r].role
     /\ \/ requests'[r].pc = requests[r].pc
        \/ requests[r].pc \in {"exchange", "select", "insert"}

\* A session keeps what it is, and does not come alive.
Keeps(sid) ==
  /\ sessions'[sid].via = sessions[sid].via /\ sessions'[sid].user = sessions[sid].user
  /\ sessions'[sid].role = sessions[sid].role
  /\ sessions'[sid].phase = "live" => sessions[sid].phase = "live"

Entering(r) ==
  \/ \E browser \in Browsers, user \in Users, state \in States : Callback(r, browser, user, state)
  \/ \E browser \in Browsers, user \in Users : Claim(r, browser, user)
  \/ \E sid \in Sids : CreateSession(r, sid)

\* Every step that does not begin a login or a claim, or create its session.
LEMMA OthersProceed ==
  ASSUME IInv, Next, \A r \in Requests : ~Entering(r)
  PROVE  /\ \A r \in Requests : Proceeds(r)
         /\ \A sid \in Sids : Keeps(sid)
         /\ \A state \in States : pending[state] = "spent" => pending'[state] = "spent"
<1> DEFINE Goal == /\ \A r \in Requests : Proceeds(r)
                   /\ \A sid \in Sids : Keeps(sid)
                   /\ \A state \in States : pending[state] = "spent" => pending'[state] = "spent"
<1>1. TypeOK
  BY DEF IInv
<1>2. UNCHANGED requests => \A r \in Requests : Proceeds(r)
  BY DEF Proceeds
<1>3. UNCHANGED sessions => \A sid \in Sids : Keeps(sid)
  BY DEF Keeps
<1>4. ASSUME NEW S, SignOut(S) PROVE \A sid \in Sids : Keeps(sid)
  <2> SUFFICES ASSUME NEW sid \in Sids PROVE Keeps(sid)
    OBVIOUS
  <2> QED
    BY <1>1, <1>4, SignOutDoes DEF Keeps
<1>5. ASSUME NEW r \in Requests, End(r) PROVE \A q \in Requests : Proceeds(q)
  <2>1. requests'[r].via = None
    BY <1>1, <1>5, HandlerEnds, IdleType
  <2> QED
    BY <1>1, <1>5, <2>1, HandlerEnds DEF Proceeds
<1>6. ASSUME NEW r \in Requests, NEW pc, Goto(r, pc), requests[r].pc \in {"exchange", "select", "insert"}
      PROVE  \A q \in Requests : Proceeds(q)
  <2>1. requests[r] \in RequestType
    BY <1>1 DEF TypeOK, RequestType
  <2>2. /\ requests'[r].via = requests[r].via /\ requests'[r].user = requests[r].user
        /\ requests'[r].role = requests[r].role
    <3>1. requests'[r] = [requests[r] EXCEPT !.pc = pc]
      BY <1>1, <1>6, HandlerGoes
    <3> QED
      BY <2>1, <3>1 DEF RequestType
  <2>3. \A q \in Requests \ {r} : requests'[q] = requests[q]
    BY <1>1, <1>6, HandlerGoes
  <2> QED
    BY <1>6, <2>2, <2>3 DEF Proceeds
<1>7. ASSUME NEW state \in States, StateExpires(state) \/ \E kind \in Kinds : StartLogin(state, kind)
      PROVE  Goal
  BY <1>1, <1>2, <1>3, <1>7 DEF StateExpires, StartLogin, TypeOK
<1>8. ASSUME NEW r \in Requests, Exchange(r) \/ SelectAccount(r) PROVE Goal
  BY <1>3, <1>5, <1>6, <1>8 DEF Exchange, SelectAccount
<1>9. ASSUME NEW r \in Requests, InsertAccount(r) PROVE Goal
  <2>1. CASE HasAccount(requests[r].user, requests[r].role)
    BY <1>3, <1>5, <1>9, <2>1 DEF InsertAccount
  <2>2. CASE ~HasAccount(requests[r].user, requests[r].role)
    BY <1>3, <1>6, <1>9, <2>2 DEF InsertAccount
  <2> QED
    BY <2>1, <2>2
<1>10. ASSUME NEW r \in Requests, Respond(r) \/ Served(r) \/ \E token \in Tokens : Regenerate(r, token)
       PROVE  Goal
  BY <1>3, <1>5, <1>10 DEF Respond, Served, Regenerate
<1>11. ASSUME NEW r \in Requests, Revoke(r) PROVE Goal
  BY <1>4, <1>5, <1>11 DEF Revoke
<1>12. ASSUME NEW r \in Requests, NEW browser \in Browsers, NEW need \in Needs, Admit(r, browser, need)
       PROVE  Goal
  <2> DEFINE s == sessions[cookies[browser][Cookie(need)]]
  <2>1. /\ requests'[r] = [Idle EXCEPT !.pc = "serve", !.browser = browser, !.user = s.user,
                                       !.role = s.role, !.need = need]
        /\ \A q \in Requests \ {r} : requests'[q] = requests[q]
    BY <1>1, <1>12 DEF Admit, TypeOK
  <2>2. requests'[r].via = None
    BY <2>1 DEF Idle
  <2>3. \A q \in Requests : Proceeds(q)
    BY <2>1, <2>2 DEF Proceeds
  <2> QED
    BY <1>3, <1>12, <2>3 DEF Admit
<1>13. ASSUME NEW browser \in Browsers, NEW name \in Cookies,
              DeleteExpired(browser, name) \/ Logout(browser, name)
       PROVE  Goal
  BY <1>2, <1>4, <1>13 DEF DeleteExpired, Logout
<1>14. ASSUME NEW sid \in Sids, SessionExpires(sid) PROVE Goal
  <2>1. sessions \in [Sids -> SessionType]
    BY <1>1 DEF TypeOK, SessionType
  <2>2. \A s \in Sids : Keeps(s)
    BY <1>14, <2>1 DEF SessionExpires, Keeps, SessionType
  <2> QED
    BY <1>2, <1>14, <2>2 DEF SessionExpires
<1>15. CASE Restart
  <2>1. \A r \in Requests : Proceeds(r)
    BY <1>15, IdleType DEF Restart, Proceeds
  <2>2. \A state \in States : pending[state] = "spent" => pending'[state] = "spent"
    BY <1>15 DEF Restart, Kinds
  <2> QED
    BY <1>3, <1>15, <2>1, <2>2 DEF Restart
<1> QED
  BY <1>7, <1>8, <1>9, <1>10, <1>11, <1>12, <1>13, <1>14, <1>15 DEF Next, LoginStep, Entering

\* A streamer is signed out by expiry or by its own logout only: a revocation looks at
\* moderators' sessions, and of two cookies that may hold a session each is its own
\* (store.go:349).
THEOREM OwnerKept == Spec => OwnerStaysSignedIn
<1> DEFINE Excused(sid) ==
             \/ sessions'[sid].phase = "expired"
             \/ \E browser \in Browsers, name \in Cookies :
                  cookies[browser][name] = sid /\ Logout(browser, name)
<1>1. ASSUME IInv, Next, NEW sid \in Sids, sessions[sid].role = "owner",
             sessions[sid].phase = "live", sessions'[sid].phase # "live"
      PROVE  Excused(sid)
  <2>1. TypeOK /\ sessions' # sessions
    BY <1>1 DEF IInv
  <2>2. ASSUME NEW r \in Requests, NEW s \in Sids, CreateSession(r, s) PROVE FALSE
    <3>1. s # sid /\ sessions'[sid] = sessions[sid]
      BY <1>1, <2>1, <2>2 DEF CreateSession, TypeOK
    <3> QED
      BY <1>1, <3>1
  <2>3. ASSUME NEW r \in Requests, Revoke(r) PROVE FALSE
    <3>1. SignOut(ModeratorSessions(requests[r].user))
      BY <2>3 DEF Revoke
    <3>2. sid \notin ModeratorSessions(requests[r].user)
      BY <1>1 DEF ModeratorSessions
    <3> QED
      BY <1>1, <2>1, <3>1, <3>2, SignOutDoes
  <2>4. ASSUME NEW browser \in Browsers, NEW name \in Cookies, DeleteExpired(browser, name)
        PROVE  FALSE
    <3>1. SignOut({cookies[browser][name]}) /\ sid \notin {cookies[browser][name]}
      BY <1>1, <2>4 DEF DeleteExpired
    <3> QED
      BY <1>1, <2>1, <3>1, SignOutDoes
  <2>5. ASSUME NEW browser \in Browsers, NEW name \in Cookies, Logout(browser, name)
        PROVE  Excused(sid)
    <3>1. SignOut({cookies[browser][name]} \cap Stored)
      BY <2>5 DEF Logout
    <3>2. cookies[browser][name] = sid
      BY <1>1, <2>1, <3>1, SignOutDoes
    <3> QED
      BY <2>5, <3>2
  <2>6. ASSUME NEW s \in Sids, SessionExpires(s) PROVE Excused(sid)
    <3>1. s = sid
      BY <1>1, <2>1, <2>6 DEF SessionExpires, TypeOK
    <3>2. sessions'[sid].phase = "expired"
      BY <2>1, <2>6, <3>1 DEF SessionExpires, TypeOK
    <3> QED
      BY <3>2
  <2>7. /\ \A state \in States, kind \in Kinds : ~StartLogin(state, kind)
        /\ \A state \in States : ~StateExpires(state)
        /\ \A r \in Requests :
             /\ \A browser \in Browsers, user \in Users :
                  /\ \A state \in States : ~Callback(r, browser, user, state)
                  /\ ~Claim(r, browser, user)
             /\ ~Exchange(r) /\ ~SelectAccount(r) /\ ~InsertAccount(r) /\ ~Respond(r) /\ ~Served(r)
             /\ \A browser \in Browsers, need \in Needs : ~Admit(r, browser, need)
             /\ \A token \in Tokens : ~Regenerate(r, token)
        /\ ~Restart
    BY <2>1 DEF StartLogin, StateExpires, Callback, Consented, Claim, Exchange, SelectAccount,
       InsertAccount, Respond, Served, Admit, Regenerate, Restart
  <2> QED
    BY <1>1, <2>2, <2>3, <2>4, <2>5, <2>6, <2>7 DEF Next, LoginStep
<1>2. IInv /\ [Next]_vars =>
        [\A sid \in Sids : sessions[sid].role = "owner" /\ sessions[sid].phase = "live"
                           /\ sessions'[sid].phase # "live" => Excused(sid)]_vars
  BY <1>1
<1> QED
  BY <1>2, Invariance, PTL DEF Spec, OwnerStaysSignedIn

-----------------------------------------------------------------------------
\* A state that let a handler or a session in is spent, and let in no other.
SpentOnce ==
  /\ \A sid \in Sids : sessions[sid].via \in States => pending[sessions[sid].via] = "spent"
  /\ \A r \in Requests : requests[r].via \in States => pending[requests[r].via] = "spent"
  /\ \A r \in Requests, sid \in Sids :
       requests[r].via \in States /\ requests[r].via = sessions[sid].via => requests[r].pc = "respond"
  /\ \A r, q \in Requests :
       requests[r].via \in States /\ requests[r].via = requests[q].via => r = q

Single == SpentOnce /\ OneLoginPerState

LEMMA SingleInit == Init => Single
<1> SUFFICES ASSUME Init PROVE Single
  OBVIOUS
<1>1. /\ \A sid \in Sids : sessions[sid].via = None
      /\ \A r \in Requests : requests[r].via = None
      /\ None \notin States
  BY IdleType, AccessAssumption DEF Init, NoSession
<1> QED
  BY <1>1 DEF Single, SpentOnce, OneLoginPerState

LEMMA SingleStep == IInv /\ Single /\ [Next]_vars => Single'
<1> SUFFICES ASSUME IInv, Single, [Next]_vars PROVE Single'
  OBVIOUS
<1> USE DEF Single
<1>1. TypeOK /\ None \notin States
  BY AccessAssumption DEF IInv
<1>2. ASSUME NEW r \in Requests, NEW browser \in Browsers, NEW user \in Users, NEW state \in States,
             Callback(r, browser, user, state)
      PROVE  Single'
  <2>1. /\ requests'[r].via = state /\ sessions' = sessions
        /\ \A q \in Requests \ {r} : requests'[q] = requests[q]
    <3>1. requests' = [requests EXCEPT ![r] =
            [Idle EXCEPT !.pc = "exchange", !.browser = browser, !.user = user,
                         !.role = LoginAs(pending[state]), !.via = state]]
      BY <1>2 DEF Callback, Consented
    <3>2. [Idle EXCEPT !.pc = "exchange", !.browser = browser, !.user = user,
                       !.role = LoginAs(pending[state]), !.via = state].via = state
      BY DEF Idle
    <3> QED
      BY <1>1, <1>2, <3>1, <3>2 DEF Callback, Consented, TypeOK
  <2>2. pending[state] # "spent" /\ pending' = [pending EXCEPT ![state] = "spent"]
    BY <1>2 DEF Callback, Consented, Kinds
  <2>3. \A s \in States : pending'[s] = IF s = state THEN "spent" ELSE pending[s]
    BY <1>1, <2>2 DEF TypeOK
  <2>4. /\ \A q \in Requests : requests[q].via # state
        /\ \A sid \in Sids : sessions[sid].via # state
    BY <2>2 DEF SpentOnce
  <2>5. SpentOnce'
    BY <2>1, <2>3, <2>4 DEF SpentOnce
  <2> QED
    BY <2>1, <2>5 DEF OneLoginPerState
<1>3. ASSUME NEW r \in Requests, NEW browser \in Browsers, NEW user \in Users,
             Claim(r, browser, user)
      PROVE  Single'
  <2>1. /\ requests'[r].via = links[user] /\ sessions' = sessions /\ pending' = pending
        /\ \A q \in Requests \ {r} : requests'[q] = requests[q]
    <3>1. requests' = [requests EXCEPT ![r] =
            [Idle EXCEPT !.pc = "session", !.browser = browser, !.user = user,
                         !.role = "moderator", !.via = links[user]]]
      BY <1>3 DEF Claim
    <3>2. [Idle EXCEPT !.pc = "session", !.browser = browser, !.user = user,
                       !.role = "moderator", !.via = links[user]].via = links[user]
      BY DEF Idle
    <3> QED
      BY <1>1, <1>3, <3>1, <3>2 DEF Claim, TypeOK
  <2>2. links[user] \notin States
    BY <1>3, AccessAssumption, <1>1 DEF Claim, TypeOK
  <2>3. SpentOnce'
    BY <2>1, <2>2 DEF SpentOnce
  <2> QED
    BY <2>1, <2>3 DEF OneLoginPerState
<1>4. ASSUME NEW r \in Requests, NEW sid \in Sids, CreateSession(r, sid) PROVE Single'
  <2> DEFINE via == requests[r].via
  <2>1. /\ sessions'[sid].via = via /\ pending' = pending /\ requests[r].pc = "session"
        /\ \A s \in Sids \ {sid} : sessions'[s] = sessions[s]
    BY <1>1, <1>4 DEF CreateSession, TypeOK
  <2>2. /\ requests'[r].via = via /\ requests'[r].pc = "respond"
        /\ \A q \in Requests \ {r} : requests'[q] = requests[q]
    <3>1. requests[r] \in RequestType
      BY <1>1 DEF TypeOK, RequestType
    <3>2. requests'[r] = [requests[r] EXCEPT !.pc = "respond", !.sid = sid]
      BY <1>1, <1>4 DEF CreateSession, TypeOK
    <3>3. \A q \in Requests \ {r} : requests'[q] = requests[q]
      BY <1>1, <1>4 DEF CreateSession, TypeOK
    <3> QED
      BY <3>1, <3>2, <3>3 DEF RequestType
  <2>3. via \in States => \A s \in Sids : sessions[s].via # via
    BY <2>1 DEF SpentOnce
  <2>4. via \in States => pending[via] = "spent" /\ \A q \in Requests \ {r} : requests[q].via # via
    BY DEF SpentOnce
  <2> HIDE DEF via
  <2>5. SpentOnce'
    <3>1. \A q \in Requests : requests'[q].via = (IF q = r THEN via ELSE requests[q].via)
                              /\ (q # r => requests'[q].pc = requests[q].pc)
      BY <2>2
    <3>2. \A s \in Sids : sessions'[s].via = IF s = sid THEN via ELSE sessions[s].via
      BY <2>1
    <3> QED
      BY <2>1, <2>2, <2>4, <3>1, <3>2 DEF SpentOnce, via
  <2>6. OneLoginPerState'
    BY <2>1, <2>3 DEF OneLoginPerState
  <2> QED
    BY <2>5, <2>6
<1>5. CASE Next /\ \A r \in Requests : ~Entering(r)
  <2>1. /\ \A r \in Requests : requests'[r].via = None
                               \/ /\ requests'[r].via = requests[r].via
                                  /\ requests[r].pc = "respond" => requests'[r].pc = "respond"
        /\ \A sid \in Sids : sessions'[sid].via = sessions[sid].via
        /\ \A state \in States : pending[state] = "spent" => pending'[state] = "spent"
    BY <1>5, OthersProceed DEF Proceeds, Keeps
  <2>2. SpentOnce'
    BY <1>1, <2>1 DEF SpentOnce
  <2> QED
    BY <2>1, <2>2 DEF OneLoginPerState
<1>6. CASE UNCHANGED vars
  BY <1>6 DEF vars, SpentOnce, OneLoginPerState
<1> QED
  BY <1>2, <1>3, <1>4, <1>5, <1>6 DEF Entering

\* A login with Twitch opens one session, however often and with whatever overlap its
\* callback is requested (auth.go:391).
THEOREM OneLogin == Spec => []OneLoginPerState
<1>1. Single => OneLoginPerState
  BY DEF Single
<1> QED
  BY <1>1, SingleInit, SingleStep, Invariance, PTL DEF Spec

-----------------------------------------------------------------------------
\* A streamer's link is the last token minted for it, and not revoked.
LinksMinted ==
  /\ \A token \in revoked : minter[token] # None
  /\ \A user \in Users : links[user] # None => links[user] \notin revoked /\ minter[links[user]] = user

\* Who came by a link is a moderator of the streamer that minted it.
ByLink(x) == x.role = "moderator" /\ x.user # None /\ minter[x.via] = x.user

CameByLink ==
  /\ \A sid \in Sids : sessions[sid].via \in Tokens => ByLink(sessions[sid])
  /\ \A r \in Requests : requests[r].via \in Tokens =>
       /\ requests[r].pc \in {"session", "respond"} /\ ByLink(requests[r])
       /\ requests[r].pc = "session" /\ requests[r].via \in revoked => requests[r].via \in racing

Cut == LinksMinted /\ CameByLink /\ RevokedSignedOut

LEMMA CutInit == Init => Cut
<1> SUFFICES ASSUME Init PROVE Cut
  OBVIOUS
<1>1. /\ \A sid \in Sids : sessions[sid].via = None
      /\ \A r \in Requests : requests[r].via = None
      /\ None \notin Tokens /\ revoked = {}
      /\ \A user \in Users : links[user] = None
  BY IdleType, AccessAssumption DEF Init, NoSession
<1> QED
  BY <1>1 DEF Cut, LinksMinted, CameByLink, RevokedSignedOut

\* A step that lets nobody in by a link, nor touches the links.
LEMMA CutCalm ==
  ASSUME TypeOK, Cut, UNCHANGED <<links, minter, revoked, racing>>,
         \A sid \in Sids : Keeps(sid) \/ sessions'[sid].via \notin Tokens,
         \A r \in Requests :
           \/ requests'[r].via \notin Tokens
           \/ /\ requests'[r].via = requests[r].via /\ requests'[r].user = requests[r].user
              /\ requests'[r].role = requests[r].role /\ requests'[r].pc = requests[r].pc
  PROVE  Cut'
<1> USE DEF Cut
<1>1. LinksMinted'
  BY DEF LinksMinted
<1>2. ASSUME NEW sid \in Sids, sessions'[sid].via \in Tokens
      PROVE  /\ ByLink(sessions[sid])'
             /\ sessions'[sid].phase = "live" /\ sessions'[sid].via \in revoked
                  => sessions'[sid].via \in racing
  BY <1>2 DEF Keeps, CameByLink, ByLink, RevokedSignedOut
<1>3. ASSUME NEW r \in Requests, requests'[r].via \in Tokens
      PROVE  /\ requests'[r].pc \in {"session", "respond"} /\ ByLink(requests[r])'
             /\ requests'[r].pc = "session" /\ requests'[r].via \in revoked
                  => requests'[r].via \in racing
  BY <1>3 DEF CameByLink, ByLink
<1>4. revoked' = revoked /\ racing' = racing
  OBVIOUS
<1>5. CameByLink'
  BY <1>2, <1>3, <1>4 DEF CameByLink
<1>6. revoked \subseteq Tokens
  BY DEF TypeOK
<1> QED
  BY <1>1, <1>2, <1>4, <1>5, <1>6 DEF RevokedSignedOut

\* A handler that was let in by a link and goes on keeps it, or lets it go.
LEMMA LinkKept ==
  ASSUME Cut, \A r \in Requests : Proceeds(r), None \notin Tokens
  PROVE  \A r \in Requests :
           \/ requests'[r].via \notin Tokens
           \/ /\ requests'[r].via = requests[r].via /\ requests'[r].user = requests[r].user
              /\ requests'[r].role = requests[r].role /\ requests'[r].pc = requests[r].pc
BY DEF Cut, CameByLink, Proceeds

LEMMA CutEntering ==
  ASSUME IInv, Cut, NEW r \in Requests, Entering(r)
  PROVE  Cut'
<1> USE DEF Cut
<1>1. TypeOK /\ revoked \subseteq Tokens
  BY DEF IInv, TypeOK
<1>2. ASSUME NEW browser \in Browsers, NEW user \in Users, NEW state \in States,
             Callback(r, browser, user, state)
      PROVE  Cut'
  <2>1. /\ requests'[r].via = state
        /\ \A q \in Requests \ {r} : requests'[q] = requests[q]
    <3>1. requests' = [requests EXCEPT ![r] =
            [Idle EXCEPT !.pc = "exchange", !.browser = browser, !.user = user,
                         !.role = LoginAs(pending[state]), !.via = state]]
      BY <1>2 DEF Callback, Consented
    <3>2. [Idle EXCEPT !.pc = "exchange", !.browser = browser, !.user = user,
                       !.role = LoginAs(pending[state]), !.via = state].via = state
      BY DEF Idle
    <3> QED
      BY <1>1, <3>1, <3>2 DEF TypeOK
  <2>2. state \notin Tokens
    BY AccessAssumption
  <2>3. UNCHANGED <<sessions, links, minter, revoked, racing>>
    BY <1>2 DEF Callback, Consented
  <2>4. \A sid \in Sids : Keeps(sid)
    BY <2>3 DEF Keeps
  <2> QED
    BY <1>1, <2>1, <2>2, <2>3, <2>4, CutCalm
<1>3. ASSUME NEW browser \in Browsers, NEW user \in Users, Claim(r, browser, user) PROVE Cut'
  <2>1. /\ requests'[r].via = links[user] /\ requests'[r].user = user
        /\ requests'[r].role = "moderator" /\ requests'[r].pc = "session"
        /\ \A q \in Requests \ {r} : requests'[q] = requests[q]
    <3> DEFINE q == [Idle EXCEPT !.pc = "session", !.browser = browser, !.user = user,
                                 !.role = "moderator", !.via = links[user]]
    <3>1. q.via = links[user] /\ q.user = user /\ q.role = "moderator" /\ q.pc = "session"
      BY DEF Idle
    <3>2. requests' = [requests EXCEPT ![r] = q]
      BY <1>3 DEF Claim
    <3> HIDE DEF q
    <3> QED
      BY <1>1, <3>1, <3>2 DEF TypeOK
  <2>2. UNCHANGED <<sessions, links, minter, revoked, racing>>
    BY <1>3 DEF Claim
  <2>3. /\ links[user] \notin revoked /\ minter[links[user]] = user /\ user # None
    BY <1>3, AccessAssumption DEF Claim, LinksMinted
  <2>4. LinksMinted' /\ RevokedSignedOut'
    BY <2>2 DEF LinksMinted, RevokedSignedOut
  <2>5. \A sid \in Sids : sessions'[sid].via \in Tokens => ByLink(sessions[sid])'
    BY <2>2 DEF CameByLink, ByLink
  <2>6. ASSUME NEW p \in Requests, requests'[p].via \in Tokens
        PROVE  /\ requests'[p].pc \in {"session", "respond"} /\ ByLink(requests[p])'
               /\ requests'[p].pc = "session" /\ requests'[p].via \in revoked'
                    => requests'[p].via \in racing'
    <3>1. CASE p = r
      BY <2>1, <2>2, <2>3, <3>1 DEF ByLink
    <3>2. CASE p # r
      BY <2>1, <2>2, <2>6, <3>2 DEF ByLink, CameByLink
    <3> QED
      BY <3>1, <3>2
  <2> QED
    BY <2>4, <2>5, <2>6 DEF CameByLink
<1>4. ASSUME NEW sid \in Sids, CreateSession(r, sid) PROVE Cut'
  <2>1. /\ sessions'[sid].via = requests[r].via /\ sessions'[sid].user = requests[r].user
        /\ sessions'[sid].role = requests[r].role /\ requests[r].pc = "session"
        /\ \A s \in Sids \ {sid} : sessions'[s] = sessions[s]
    BY <1>1, <1>4 DEF CreateSession, TypeOK
  <2>2. /\ requests'[r].via = requests[r].via /\ requests'[r].pc = "respond"
        /\ requests'[r].user = requests[r].user /\ requests'[r].role = requests[r].role
        /\ \A q \in Requests \ {r} : requests'[q] = requests[q]
    <3>1. requests[r] \in RequestType
      BY <1>1 DEF TypeOK, RequestType
    <3>2. /\ requests'[r] = [requests[r] EXCEPT !.pc = "respond", !.sid = sid]
          /\ \A q \in Requests \ {r} : requests'[q] = requests[q]
      BY <1>1, <1>4 DEF CreateSession, TypeOK
    <3> QED
      BY <3>1, <3>2 DEF RequestType
  <2>3. UNCHANGED <<links, minter, revoked, racing>>
    BY <1>4 DEF CreateSession, historyVars
  <2>4. LinksMinted'
    BY <2>3 DEF LinksMinted
  <2>5. ASSUME NEW s \in Sids, sessions'[s].via \in Tokens
        PROVE  /\ ByLink(sessions[s])'
               /\ sessions'[s].phase = "live" /\ sessions'[s].via \in revoked
                    => sessions'[s].via \in racing
    <3>1. CASE s = sid
      BY <2>1, <2>3, <2>5, <3>1 DEF ByLink, CameByLink
    <3>2. CASE s # sid
      BY <2>1, <2>3, <2>5, <3>2 DEF ByLink, CameByLink, RevokedSignedOut
    <3> QED
      BY <3>1, <3>2
  <2>6. ASSUME NEW p \in Requests, requests'[p].via \in Tokens
        PROVE  /\ requests'[p].pc \in {"session", "respond"} /\ ByLink(requests[p])'
               /\ requests'[p].pc = "session" /\ requests'[p].via \in revoked'
                    => requests'[p].via \in racing'
    <3>1. CASE p = r
      BY <2>2, <2>3, <2>6, <3>1 DEF ByLink, CameByLink
    <3>2. CASE p # r
      BY <2>2, <2>3, <2>6, <3>2 DEF ByLink, CameByLink
    <3> QED
      BY <3>1, <3>2
  <2>7. CameByLink'
    BY <2>5, <2>6 DEF CameByLink
  <2> QED
    BY <1>1, <2>3, <2>4, <2>5, <2>7 DEF RevokedSignedOut
<1> QED
  BY <1>2, <1>3, <1>4 DEF Entering

LEMMA CutRegenerate ==
  ASSUME IInv, Cut, NEW r \in Requests, NEW token \in Tokens, Regenerate(r, token)
  PROVE  Cut'
<1> USE DEF Cut
<1> DEFINE user == requests[r].user
<1>1. TypeOK /\ None \notin Tokens
  BY AccessAssumption DEF IInv
<1>2. user \in Users
  <2>1. Backed(requests[r])
    BY DEF IInv, RequestsBacked, Regenerate
  <2> QED
    BY <1>1, <2>1 DEF Backed, Granted, TypeOK, Grants
<1>3. /\ minter[token] = None /\ token \notin revoked /\ user # None
      /\ requests'[r].via = None /\ \A q \in Requests \ {r} : requests'[q] = requests[q]
      /\ UNCHANGED <<sessions, revoked, racing>>
  BY <1>1, <1>2, HandlerEnds, IdleType, AccessAssumption DEF Regenerate, LinksMinted
<1>4. /\ \A u \in Users : links'[u] = IF u = user THEN token ELSE links[u]
      /\ \A t \in Tokens : minter'[t] = IF t = token THEN user ELSE minter[t]
  BY <1>1 DEF Regenerate, TypeOK
<1> HIDE DEF user
<1>5. LinksMinted'
  <2>1. \A t \in revoked' : minter'[t] # None
    BY <1>1, <1>3, <1>4 DEF LinksMinted, TypeOK
  <2>2. ASSUME NEW u \in Users, links'[u] # None
        PROVE  links'[u] \notin revoked' /\ minter'[links'[u]] = u
    <3>1. CASE u = user
      BY <1>3, <1>4, <3>1
    <3>2. CASE u # user
      <4>1. links'[u] = links[u] /\ links[u] \in Tokens
        BY <1>1, <1>4, <2>2, <3>2 DEF TypeOK
      <4>2. links[u] \notin revoked /\ minter[links[u]] = u /\ u # None
        BY <2>2, <4>1, AccessAssumption DEF LinksMinted
      <4>3. links[u] # token
        BY <1>3, <4>2
      <4> QED
        BY <1>3, <1>4, <4>1, <4>2, <4>3
    <3> QED
      BY <3>1, <3>2
  <2> QED
    BY <2>1, <2>2 DEF LinksMinted
<1>6. \A t \in Tokens : minter[t] # None => minter'[t] = minter[t]
  BY <1>3, <1>4
<1>7. CameByLink'
  BY <1>1, <1>3, <1>6 DEF CameByLink, ByLink
<1> QED
  BY <1>3, <1>5, <1>7 DEF RevokedSignedOut

LEMMA CutRevoke ==
  ASSUME IInv, Cut, NEW r \in Requests, Revoke(r)
  PROVE  Cut'
<1> USE DEF Cut
<1> DEFINE user == requests[r].user
<1>1. TypeOK /\ None \notin Tokens /\ revoked \subseteq Tokens
  BY AccessAssumption DEF IInv, TypeOK
<1>2. user \in Users /\ user # None
  <2>1. Backed(requests[r])
    BY DEF IInv, RequestsBacked, Revoke
  <2> QED
    BY <1>1, <2>1, AccessAssumption DEF Backed, Granted, TypeOK, Grants
<1>3. /\ requests'[r].via = None /\ \A q \in Requests \ {r} : requests'[q] = requests[q]
      /\ minter' = minter
      /\ revoked' = revoked \cup TokensOf(user) /\ racing' = racing \cup (TokensOf(user) \cap Claimed)
      /\ \A u \in Users : links'[u] = IF u = user THEN None ELSE links[u]
      /\ SignOut(ModeratorSessions(user))
  BY <1>1, HandlerEnds, IdleType DEF Revoke, TypeOK
<1> HIDE DEF user
<1>4. LinksMinted'
  <2>1. \A t \in revoked' : minter'[t] # None
    BY <1>2, <1>3 DEF LinksMinted, TokensOf
  <2>2. ASSUME NEW u \in Users, links'[u] # None
        PROVE  links'[u] \notin revoked' /\ minter'[links'[u]] = u
    BY <1>3, <2>2 DEF LinksMinted, TokensOf
  <2> QED
    BY <2>1, <2>2 DEF LinksMinted
<1>5. ASSUME NEW sid \in Sids, sessions'[sid].via \in Tokens
      PROVE  /\ ByLink(sessions[sid])'
             /\ sessions'[sid].phase = "live" /\ sessions'[sid].via \in revoked'
                  => sessions'[sid].via \in racing'
  <2>1. /\ sessions'[sid].via = sessions[sid].via /\ sessions'[sid].user = sessions[sid].user
        /\ sessions'[sid].role = sessions[sid].role
        /\ sid \notin ModeratorSessions(user) => sessions'[sid] = sessions[sid]
        /\ sid \in ModeratorSessions(user) => sessions'[sid].phase = "deleted"
    BY <1>1, <1>3, SignOutDoes
  <2>2. ByLink(sessions[sid])
    BY <1>5, <2>1 DEF CameByLink
  <2>3. ByLink(sessions[sid])'
    BY <1>3, <2>1, <2>2 DEF ByLink
  <2>4. ASSUME sessions'[sid].phase = "live", sessions'[sid].via \in revoked'
        PROVE  sessions'[sid].via \in racing'
    <3>1. sid \notin ModeratorSessions(user) /\ sessions[sid].phase = "live"
      BY <2>1, <2>4
    <3>2. sessions[sid].user # user
      BY <2>2, <3>1 DEF ModeratorSessions, Stored, ByLink
    <3>3. sessions[sid].via \notin TokensOf(user)
      BY <2>2, <3>2 DEF TokensOf, ByLink
    <3> QED
      BY <1>3, <2>1, <2>4, <3>1, <3>3 DEF RevokedSignedOut
  <2> QED
    BY <2>3, <2>4
<1>6. ASSUME NEW p \in Requests, requests'[p].via \in Tokens
      PROVE  /\ requests'[p].pc \in {"session", "respond"} /\ ByLink(requests[p])'
             /\ requests'[p].pc = "session" /\ requests'[p].via \in revoked'
                  => requests'[p].via \in racing'
  <2>1. requests'[p] = requests[p]
    BY <1>1, <1>3, <1>6
  <2>2. /\ requests[p].pc \in {"session", "respond"} /\ ByLink(requests[p])
        /\ requests[p].pc = "session" /\ requests[p].via \in revoked => requests[p].via \in racing
    BY <1>6, <2>1 DEF CameByLink
  <2>3. requests[p].pc = "session" => requests[p].via \in Claimed
    BY DEF Claimed
  <2>4. ByLink(requests[p])'
    BY <1>3, <2>1, <2>2 DEF ByLink
  <2> QED
    BY <1>3, <2>1, <2>2, <2>3, <2>4
<1>7. CameByLink'
  BY <1>5, <1>6 DEF CameByLink
<1>8. revoked' \subseteq Tokens
  BY <1>1, <1>3 DEF TokensOf
<1> QED
  BY <1>4, <1>5, <1>7, <1>8 DEF RevokedSignedOut

LEMMA CutStep == IInv /\ Cut /\ [Next]_vars => Cut'
<1> SUFFICES ASSUME IInv, Cut, [Next]_vars PROVE Cut'
  OBVIOUS
<1>1. TypeOK /\ None \notin Tokens
  BY AccessAssumption DEF IInv
<1>2. CASE /\ Next /\ \A r \in Requests : ~Entering(r)
           /\ \A r \in Requests : ~Revoke(r) /\ \A token \in Tokens : ~Regenerate(r, token)
  <2>1. (\A r \in Requests : Proceeds(r)) /\ (\A sid \in Sids : Keeps(sid))
    BY <1>2, OthersProceed, Zenon
  <2>2. UNCHANGED <<links, minter, revoked, racing>>
    BY <1>2 DEF Next, LoginStep, StartLogin, StateExpires, Entering, Exchange, SelectAccount,
       InsertAccount, Respond, Admit, Served, DeleteExpired, Logout, SessionExpires, Restart,
       historyVars
  <2> QED
    BY <1>1, <2>1, <2>2, LinkKept, CutCalm
<1>3. CASE UNCHANGED vars
  <2>1. UNCHANGED <<sessions, requests, links, minter, revoked, racing>>
    BY <1>3 DEF vars
  <2>2. \A sid \in Sids : Keeps(sid)
    BY <2>1 DEF Keeps
  <2> QED
    BY <1>1, <2>1, <2>2, CutCalm
<1> QED
  BY <1>2, <1>3, CutEntering, CutRevoke, CutRegenerate

\* Revoking signs out every moderator that came by a link of that streamer, for any
\* number of them, links and claims, except who was claiming at that time
\* (store.go:350).
THEOREM RevocationCuts == Spec => []RevokedSignedOut
<1>1. Cut => RevokedSignedOut
  BY DEF Cut
<1> QED
  BY <1>1, CutInit, CutStep, Invariance, PTL DEF Spec
=============================================================================
