---------------------------- MODULE ConsoleAccess ----------------------------
(***************************************************************************)
(* Who may act in a channel: logging in with Twitch (internal/auth,        *)
(* handleAuthCallback), accounts, login sessions and moderator links in    *)
(* the database (internal/store), and the middleware that admits requests. *)
(*                                                                         *)
(* SQL statements and transactions run one at a time, on the only          *)
(* connection, so each is a step; a handler that issues several is         *)
(* interleaved with the others between them.  The database outlives a      *)
(* restart, the pending OAuth states do not.  States, link tokens and      *)
(* session ids are random: a new one is one that was never used.           *)
(* Names and times are left out; anything that expires may expire at any   *)
(* time.  The tables auth_sessions and viewer_sessions, with the cookies   *)
(* sid and vsid, are kept apart by the role of a session.                  *)
(***************************************************************************)
EXTENDS Integers, FiniteSets

CONSTANTS
  Users,     \* Twitch accounts
  Browsers,
  Requests,  \* requests that the server handles at once
  States,    \* OAuth states
  Tokens,    \* moderator link tokens
  Sids,      \* ids of login sessions
  None,
  MaxSecrets \* bound: link tokens and session ids minted in all

ASSUME AccessAssumption ==
  /\ None \notin Users \cup Browsers \cup States \cup Tokens \cup Sids
  /\ States \cap Tokens = {}
  /\ MaxSecrets \in Nat

Kinds == {"owner", "viewer"}             \* of OAuth logins
Roles == {"owner", "moderator", "viewer"}
Needs == {"console", "owner", "viewer"}  \* RequireStreamer, RequireOwner, RequireViewer
Cookies == {"sid", "vsid"}

VARIABLES
  pending,    \* Authenticator.states: each state's kind, "unused" or "spent"
  playerKey,  \* streamers: the player key, 0 without an account
  keys,       \* player keys minted
  viewers,    \* viewers
  sessions,   \* auth_sessions and viewer_sessions
  links,      \* moderator_links: each streamer's token
  cookies,    \* each browser's cookies
  requests,   \* the handlers in progress
  minter,     \* history: the streamer whose link each token was
  granted,    \* history: who agreed to what: [browser, user, role]
  revoked,    \* history: tokens whose streamer has revoked access since
  racing      \* history: tokens being claimed while their streamer revoked access

vars == <<pending, playerKey, keys, viewers, sessions, links, cookies, requests,
          minter, granted, revoked, racing>>

accountVars == <<playerKey, keys, viewers>>
historyVars == <<minter, granted, revoked, racing>>

NoSession == [phase |-> "unused", user |-> None, role |-> "viewer", via |-> None]

\* A handler: what it is about to do, for which browser and user, in which role,
\* what let it (a state, a token or nothing) and the session it made.
Idle == [pc |-> "idle", browser |-> None, user |-> None, role |-> "viewer", need |-> "viewer",
         via |-> None, sid |-> None]

Secrets == Cardinality({sid \in Sids : sessions[sid].phase # "unused"})
             + Cardinality({token \in Tokens : minter[token] # None})

Cookie(role) == IF role = "viewer" THEN "vsid" ELSE "sid"

Goto(r, pc) == requests' = [requests EXCEPT ![r].pc = pc]

End(r) == requests' = [requests EXCEPT ![r] = Idle]

-----------------------------------------------------------------------------
\* Logging in with Twitch.

\* AuthorizeURL, ViewerAuthorizeURL
StartLogin(state, kind) ==
  /\ pending[state] = "unused"
  /\ pending' = [pending EXCEPT ![state] = kind]
  /\ UNCHANGED <<accountVars, sessions, links, cookies, requests, historyVars>>

\* stateTTL is over: pruneLocked forgets the state before it looks any up.
StateExpires(state) ==
  /\ pending[state] \in Kinds
  /\ pending' = [pending EXCEPT ![state] = "spent"]
  /\ UNCHANGED <<accountVars, sessions, links, cookies, requests, historyVars>>

\* The callback's dispatch on the kind of the state.
LoginAs(kind) == IF kind = "viewer" THEN "viewer" ELSE "owner"

Consented(r, browser, user, state) ==
  /\ requests[r].pc = "idle"
  /\ pending[state] \in Kinds
  /\ granted' = granted \cup {[browser |-> browser, user |-> user, role |-> pending[state]]}
  /\ requests' = [requests EXCEPT ![r] =
       [Idle EXCEPT !.pc = "exchange", !.browser = browser, !.user = user,
                    !.role = LoginAs(pending[state]), !.via = state]]
  /\ UNCHANGED <<accountVars, sessions, links, cookies, minter, revoked, racing>>

\* Plausible bug: the state is checked and not consumed.
CallbackKeepsState(r, browser, user, state) ==
  Consented(r, browser, user, state) /\ UNCHANGED pending

\* handleAuthCallback, for a user who has agreed on Twitch's page: ConsumeState.
\* With any other state the callback changes nothing.
Callback(r, browser, user, state) ==
  /\ Consented(r, browser, user, state)
  /\ pending' = [pending EXCEPT ![state] = "spent"]

\* ExchangeCodeForUser
Exchange(r) ==
  /\ requests[r].pc = "exchange"
  /\ Goto(r, "select") \/ End(r)
  /\ UNCHANGED <<pending, accountVars, sessions, links, cookies, historyVars>>

HasAccount(user, role) == IF role = "viewer" THEN user \in viewers ELSE playerKey[user] # 0

\* UpsertStreamer and UpsertViewer: the query.
SelectAccount(r) ==
  /\ requests[r].pc = "select"
  /\ Goto(r, IF HasAccount(requests[r].user, requests[r].role) THEN "session" ELSE "insert")
  /\ UNCHANGED <<pending, accountVars, sessions, links, cookies, historyVars>>

CreateAccount(user, role) ==
  IF role = "viewer" THEN viewers' = viewers \cup {user} /\ UNCHANGED <<playerKey, keys>>
  ELSE /\ keys' = keys + 1
       /\ playerKey' = [playerKey EXCEPT ![user] = keys + 1]
       /\ UNCHANGED viewers

\* Plausible bug: INSERT OR REPLACE.
InsertOrReplaceAccount(r) ==
  /\ requests[r].pc = "insert"
  /\ CreateAccount(requests[r].user, requests[r].role) /\ Goto(r, "session")
  /\ UNCHANGED <<pending, sessions, links, cookies, historyVars>>

\* ... and the insertion, which fails when another login was faster.
InsertAccount(r) ==
  /\ requests[r].pc = "insert"
  /\ IF HasAccount(requests[r].user, requests[r].role) THEN End(r) /\ UNCHANGED accountVars
     ELSE CreateAccount(requests[r].user, requests[r].role) /\ Goto(r, "session")
  /\ UNCHANGED <<pending, sessions, links, cookies, historyVars>>

\* CreateAuthSession, CreateViewerSession
CreateSession(r, sid) ==
  /\ requests[r].pc = "session" /\ sessions[sid].phase = "unused" /\ Secrets < MaxSecrets
  /\ sessions' = [sessions EXCEPT ![sid] =
       [phase |-> "live", user |-> requests[r].user, role |-> requests[r].role, via |-> requests[r].via]]
  /\ requests' = [requests EXCEPT ![r].pc = "respond", ![r].sid = sid]
  /\ UNCHANGED <<pending, accountVars, links, cookies, historyVars>>

\* The response sets the cookie, unless it is lost.
Respond(r) ==
  /\ requests[r].pc = "respond"
  /\ \/ cookies' = [cookies EXCEPT ![requests[r].browser][Cookie(requests[r].role)] = requests[r].sid]
     \/ UNCHANGED cookies
  /\ End(r)
  /\ UNCHANGED <<pending, accountVars, sessions, links, historyVars>>

-----------------------------------------------------------------------------
\* Moderator links.

\* handleModClaim: ResolveModeratorLink, then CreateSession.  Whoever has the link
\* of a streamer was given it.
Claim(r, browser, user) ==
  /\ requests[r].pc = "idle" /\ links[user] # None
  /\ granted' = granted \cup {[browser |-> browser, user |-> user, role |-> "moderator"]}
  /\ requests' = [requests EXCEPT ![r] =
       [Idle EXCEPT !.pc = "session", !.browser = browser, !.user = user,
                    !.role = "moderator", !.via = links[user]]]
  /\ UNCHANGED <<pending, accountVars, sessions, links, cookies, minter, revoked, racing>>

\* RegenerateModeratorLink
Regenerate(r, token) ==
  /\ requests[r].pc = "serve" /\ requests[r].need = "owner"
  /\ minter[token] = None /\ Secrets < MaxSecrets
  /\ links' = [links EXCEPT ![requests[r].user] = token]
  /\ minter' = [minter EXCEPT ![token] = requests[r].user]
  /\ End(r)
  /\ UNCHANGED <<pending, accountVars, sessions, cookies, granted, revoked, racing>>

TokensOf(user) == {token \in Tokens : minter[token] = user}

Claimed == {requests[r].via : r \in {q \in Requests : requests[q].pc = "session"}}

SignOut(sids) ==
  sessions' = [sid \in Sids |-> IF sid \in sids THEN [sessions[sid] EXCEPT !.phase = "deleted"]
                                ELSE sessions[sid]]

Stored == {sid \in Sids : sessions[sid].phase \in {"live", "expired"}}

\* Plausible bug: revoking deletes the link alone.
NoSessions(user) == {}

\* Plausible bug: revoking forgets to look at the role.
AllSessions(user) == {sid \in Stored : sessions[sid].user = user}

ModeratorSessions(user) ==
  {sid \in Stored : sessions[sid].user = user /\ sessions[sid].role = "moderator"}

\* RevokeModeratorAccess
Revoke(r) ==
  LET user == requests[r].user
  IN /\ requests[r].pc = "serve" /\ requests[r].need = "owner"
     /\ links' = [links EXCEPT ![user] = None]
     /\ SignOut(ModeratorSessions(user))
     /\ revoked' = revoked \cup TokensOf(user)
     /\ racing' = racing \cup (TokensOf(user) \cap Claimed)
     /\ End(r)
     /\ UNCHANGED <<pending, accountVars, cookies, minter, granted>>

-----------------------------------------------------------------------------
\* Requests of users who are logged in.

\* Plausible bug: owner-only requests are admitted like the others.
AdmitsAnyStreamer(need, role) == (need = "viewer") = (role = "viewer")

\* RequireStreamer, RequireOwner, requireStreamerPage, handleWS; RequireViewer
Admits(need, role) ==
  \/ need = "console" /\ role \in {"owner", "moderator"}
  \/ need # "console" /\ role = need

\* Authenticate, AuthenticateViewer: the request goes on as the session's user.
Admit(r, browser, need) ==
  LET sid == cookies[browser][Cookie(need)]
  IN /\ requests[r].pc = "idle"
     /\ sid # None /\ sessions[sid].phase = "live"
     /\ Admits(need, sessions[sid].role)
     /\ requests' = [requests EXCEPT ![r] =
          [Idle EXCEPT !.pc = "serve", !.browser = browser, !.user = sessions[sid].user,
                       !.role = sessions[sid].role, !.need = need]]
     /\ UNCHANGED <<pending, accountVars, sessions, links, cookies, historyVars>>

\* ... or is refused and the expired session deleted.
DeleteExpired(browser, name) ==
  LET sid == cookies[browser][name]
  IN /\ sid # None /\ sessions[sid].phase = "expired"
     /\ SignOut({sid})
     /\ UNCHANGED <<pending, accountVars, links, cookies, requests, historyVars>>

\* A handler that changes nothing here is done.
Served(r) ==
  /\ requests[r].pc = "serve"
  /\ End(r)
  /\ UNCHANGED <<pending, accountVars, sessions, links, cookies, historyVars>>

\* Logout, LogoutViewer.  The response clears the cookie, unless it is lost.
Logout(browser, name) ==
  /\ cookies[browser][name] # None
  /\ SignOut({cookies[browser][name]} \cap Stored)
  /\ \/ cookies' = [cookies EXCEPT ![browser][name] = None]
     \/ UNCHANGED cookies
  /\ UNCHANGED <<pending, accountVars, links, requests, historyVars>>

\* sessionTTL is over.
SessionExpires(sid) ==
  /\ sessions[sid].phase = "live"
  /\ sessions' = [sessions EXCEPT ![sid].phase = "expired"]
  /\ UNCHANGED <<pending, accountVars, links, cookies, requests, historyVars>>

\* The server stops and starts again.
Restart ==
  /\ pending' = [state \in States |-> IF pending[state] \in Kinds THEN "spent" ELSE pending[state]]
  /\ requests' = [r \in Requests |-> Idle]
  /\ UNCHANGED <<accountVars, sessions, links, cookies, historyVars>>

-----------------------------------------------------------------------------
Init ==
  /\ pending = [state \in States |-> "unused"]
  /\ playerKey = [user \in Users |-> 0]
  /\ keys = 0
  /\ viewers = {}
  /\ sessions = [sid \in Sids |-> NoSession]
  /\ links = [user \in Users |-> None]
  /\ cookies = [browser \in Browsers |-> [name \in Cookies |-> None]]
  /\ requests = [r \in Requests |-> Idle]
  /\ minter = [token \in Tokens |-> None]
  /\ granted = {}
  /\ revoked = {}
  /\ racing = {}

LoginStep(r) ==
  \/ Exchange(r) \/ SelectAccount(r) \/ InsertAccount(r)
  \/ \E sid \in Sids : CreateSession(r, sid)
  \/ Respond(r)

Next ==
  \/ \E state \in States, kind \in Kinds : StartLogin(state, kind)
  \/ \E state \in States : StateExpires(state)
  \/ \E r \in Requests, browser \in Browsers, user \in Users, state \in States :
       Callback(r, browser, user, state)
  \/ \E r \in Requests : LoginStep(r)
  \/ \E r \in Requests, browser \in Browsers, user \in Users : Claim(r, browser, user)
  \/ \E r \in Requests, browser \in Browsers, need \in Needs : Admit(r, browser, need)
  \/ \E r \in Requests, token \in Tokens : Regenerate(r, token)
  \/ \E r \in Requests : Revoke(r)
  \/ \E r \in Requests : Served(r)
  \/ \E browser \in Browsers, name \in Cookies : DeleteExpired(browser, name)
  \/ \E browser \in Browsers, name \in Cookies : Logout(browser, name)
  \/ \E sid \in Sids : SessionExpires(sid)
  \/ Restart

Spec == Init /\ [][Next]_vars

-----------------------------------------------------------------------------
\* Properties.

Grants == [browser : Browsers, user : Users, role : Roles]

TypeOK ==
  /\ pending \in [States -> Kinds \cup {"unused", "spent"}]
  /\ playerKey \in [Users -> Nat]
  /\ keys \in Nat
  /\ viewers \subseteq Users
  /\ sessions \in [Sids -> [phase : {"unused", "live", "expired", "deleted"},
                            user : Users \cup {None}, role : Roles,
                            via : States \cup Tokens \cup {None}]]
  /\ links \in [Users -> Tokens \cup {None}]
  /\ cookies \in [Browsers -> [Cookies -> Sids \cup {None}]]
  /\ requests \in [Requests -> [pc : {"idle", "exchange", "select", "insert", "session", "respond", "serve"},
                                browser : Browsers \cup {None}, user : Users \cup {None},
                                role : Roles, need : Needs,
                                via : States \cup Tokens \cup {None}, sid : Sids \cup {None}]]
  /\ minter \in [Tokens -> Users \cup {None}]
  /\ granted \subseteq Grants
  /\ revoked \subseteq Tokens
  /\ racing \subseteq Tokens

Granted(browser, user, role) == [browser |-> browser, user |-> user, role |-> role] \in granted

\* A request is served in a channel only to a browser whose user logged in as its
\* streamer or was given one of its moderator links, an owner-only one only to the
\* streamer's, and a viewer's request only to a browser that logged in as that viewer
\* (docs/architecture.md:109).
ServedWithGrant ==
  \A r \in Requests : LET q == requests[r] IN
    q.pc = "serve" =>
      \/ Granted(q.browser, q.user, IF q.need = "viewer" THEN "viewer" ELSE "owner")
      \/ q.need = "console" /\ Granted(q.browser, q.user, "moderator")

\* "State is single-use" (docs/data-flows.md:29): a handshake opens one session,
\* however often its callback is requested.
OneLoginPerState ==
  \A s, t \in Sids : sessions[s].via \in States /\ sessions[s].via = sessions[t].via => s = t

\* "First login mints a stable player_key; later logins keep it"
\* (docs/data-flows.md:31), also when two first logins race.
PlayerKeyKept ==
  [][\A user \in Users : playerKey[user] # 0 => playerKey'[user] = playerKey[user]]_vars

\* A streamer's own session ends by its own logout or by expiry, never because
\* moderators come, go or are revoked ("The owner's own session is left untouched",
\* store.go:349).
OwnerStaysSignedIn ==
  [][\A sid \in Sids :
       sessions[sid].role = "owner" /\ sessions[sid].phase = "live" /\ sessions'[sid].phase # "live"
       => \/ sessions'[sid].phase = "expired"
          \/ \E browser \in Browsers, name \in Cookies :
               cookies[browser][name] = sid /\ Logout(browser, name)]_vars

\* Revoking signs out every moderator who came by a link of that streamer, except
\* by a link that was being claimed at that time.
RevokedSignedOut ==
  \A sid \in Sids :
    sessions[sid].phase = "live" /\ sessions[sid].via \in revoked => sessions[sid].via \in racing

\* What the comment promises: "revoking cuts off current moderators immediately"
\* (store.go:347).
RevokedCutOff ==
  \A sid \in Sids : sessions[sid].phase = "live" => sessions[sid].via \notin revoked
=============================================================================
