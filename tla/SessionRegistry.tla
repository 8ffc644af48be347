--------------------------- MODULE SessionRegistry ---------------------------
(***************************************************************************)
(* The submission session of every channel (internal/session/session.go)   *)
(* and the index of invite tokens (internal/tenant/registry.go).           *)
(*                                                                         *)
(* The session manager and the registry have a mutex each, so StartSession,*)
(* RegenerateSession and StopSession are three critical sections: read the *)
(* old token, change the session, update the index.  ResolveSession is two:*)
(* look the token up, ask the session whether it is valid.  The owner and  *)
(* the moderators of a channel run these concurrently, one controller per  *)
(* HTTP request being served.                                              *)
(*                                                                         *)
(* Start and Regenerate differ only in the start time, which is left out.  *)
(***************************************************************************)
EXTENDS FiniteSets, Naturals

CONSTANTS
  Streamers,
  Controllers,  \* slots for session-control requests being served
  Requests,     \* viewer requests that present an invite token, one each
  Tokens,       \* tokens that can be minted; each is minted at most once
  NoToken,      \* the empty token
  NoStreamer

ASSUME RegistryAssumption == NoToken \notin Tokens /\ NoStreamer \notin Streamers

VARIABLES
  active,   \* session.Manager.active of each streamer
  token,    \* session.Manager.token
  byToken,  \* Registry.byToken; NoStreamer where the map has no entry
  ctl,      \* each controller: where it is, and what it has read and minted
  req,      \* each viewer request in ResolveSession
  minter,   \* history: the streamer whose session minted the token
  revoked,  \* history: the tokens that were replaced or stopped
  overlapped  \* history: the tokens for which another control of the channel was
              \* being served at some time from their minting to their listing

vars == <<active, token, byToken, ctl, req, minter, revoked, overlapped>>

Idle == [pc |-> "idle", op |-> "stop", streamer |-> NoStreamer,
         old |-> NoToken, new |-> NoToken]

NewRequest == [pc |-> "new", tok |-> NoToken, tenant |-> NoStreamer, late |-> FALSE]

\* What may become of the token being replaced: it is revoked.
Revoke(s) == revoked' = revoked \cup ({token[s]} \ {NoToken})

Minted == {t \in Tokens : minter[t] # NoStreamer}

-----------------------------------------------------------------------------
\* Session control.

\* A control other than c is being served for the channel s.
Rival(c, s) == \E d \in Controllers \ {c} : ctl[d].pc # "idle" /\ ctl[d].streamer = s

\* The tokens of s that were minted and are not listed yet.
Unlisted(s) ==
  {ctl[d].new : d \in {d \in Controllers : ctl[d].pc = "changed" /\ ctl[d].streamer = s}}
    \ {NoToken}

\* Bound of the model: an opening that has begun finds a token to mint.
TokenReserved ==
  Cardinality({c \in Controllers : ctl[c].pc = "read" /\ ctl[c].op = "open"})
    < Cardinality(Tokens \ Minted)

\* old := t.Session.Token()
ReadOld(c, s, op) ==
  /\ ctl[c].pc = "idle"
  /\ op = "open" => TokenReserved
  /\ ctl' = [ctl EXCEPT ![c] = [pc |-> "read", op |-> op, streamer |-> s,
                                old |-> token[s], new |-> NoToken]]
  /\ overlapped' = overlapped \cup Unlisted(s)
  /\ UNCHANGED <<active, token, byToken, req, minter, revoked>>

\* Plausible bug: newToken may repeat (its random source failed, unnoticed).
OpenReusesToken(c) ==
  /\ ctl[c].pc = "read" /\ ctl[c].op = "open"
  /\ \E t \in Tokens :
       /\ active' = [active EXCEPT ![ctl[c].streamer] = TRUE]
       /\ token' = [token EXCEPT ![ctl[c].streamer] = t]
       /\ minter' = [minter EXCEPT ![t] = ctl[c].streamer]
       /\ ctl' = [ctl EXCEPT ![c].pc = "changed", ![c].new = t]
       /\ overlapped' = IF Rival(c, ctl[c].streamer) THEN overlapped \cup {t} ELSE overlapped
  /\ Revoke(ctl[c].streamer)
  /\ UNCHANGED <<byToken, req>>

\* Session.Start and Session.Regenerate: open the session with a fresh token.
Open(c) ==
  /\ ctl[c].pc = "read" /\ ctl[c].op = "open"
  /\ \E t \in Tokens \ Minted :
       /\ active' = [active EXCEPT ![ctl[c].streamer] = TRUE]
       /\ token' = [token EXCEPT ![ctl[c].streamer] = t]
       /\ minter' = [minter EXCEPT ![t] = ctl[c].streamer]
       /\ ctl' = [ctl EXCEPT ![c].pc = "changed", ![c].new = t]
       /\ overlapped' = IF Rival(c, ctl[c].streamer) THEN overlapped \cup {t} ELSE overlapped
  /\ Revoke(ctl[c].streamer)
  /\ UNCHANGED <<byToken, req>>

\* Session.Stop
Stop(c) ==
  /\ ctl[c].pc = "read" /\ ctl[c].op = "stop"
  /\ active' = [active EXCEPT ![ctl[c].streamer] = FALSE]
  /\ token' = [token EXCEPT ![ctl[c].streamer] = NoToken]
  /\ ctl' = [ctl EXCEPT ![c].pc = "changed"]
  /\ Revoke(ctl[c].streamer)
  /\ UNCHANGED <<byToken, req, minter, overlapped>>

\* Plausible bug: the old token is not deleted.
ReindexAddOnly(c) ==
  /\ ctl[c].pc = "changed"
  /\ byToken' = [t \in Tokens |-> IF t = ctl[c].new THEN ctl[c].streamer ELSE byToken[t]]
  /\ ctl' = [ctl EXCEPT ![c] = Idle]
  /\ UNCHANGED <<active, token, req, minter, revoked, overlapped>>

\* Plausible bug: the token to delete is read after the change, and deleted last.
ReindexRereads(c) ==
  /\ ctl[c].pc = "changed"
  /\ byToken' = [t \in Tokens |->
                   IF t = token[ctl[c].streamer] THEN NoStreamer
                   ELSE IF t = ctl[c].new THEN ctl[c].streamer ELSE byToken[t]]
  /\ ctl' = [ctl EXCEPT ![c] = Idle]
  /\ UNCHANGED <<active, token, req, minter, revoked, overlapped>>

\* reindex(streamer, old, new): drop the token read first, add the new one.
Reindex(c) ==
  /\ ctl[c].pc = "changed"
  /\ byToken' = [t \in Tokens |->
                   IF t = ctl[c].new THEN ctl[c].streamer
                   ELSE IF t = ctl[c].old THEN NoStreamer ELSE byToken[t]]
  /\ ctl' = [ctl EXCEPT ![c] = Idle]
  /\ UNCHANGED <<active, token, req, minter, revoked, overlapped>>

-----------------------------------------------------------------------------
\* ResolveSession.

\* The index lookup; a viewer presents a link that was once given out.
Lookup(r, tok) ==
  /\ req[r].pc = "new"
  /\ req' = [req EXCEPT ![r] =
               [pc |-> IF byToken[tok] = NoStreamer THEN "refused" ELSE "found",
                tok |-> tok, tenant |-> byToken[tok], late |-> tok \in revoked]]
  /\ UNCHANGED <<active, token, byToken, ctl, minter, revoked, overlapped>>

\* Plausible bug: the token is not compared, only the session's state.
CheckActiveOnly(r) ==
  /\ req[r].pc = "found"
  /\ req' = [req EXCEPT ![r].pc =
               IF active[req[r].tenant] THEN "admitted" ELSE "refused"]
  /\ UNCHANGED <<active, token, byToken, ctl, minter, revoked, overlapped>>

\* t.Session.Valid(token)
Check(r) ==
  /\ req[r].pc = "found"
  /\ LET s == req[r].tenant
     IN req' = [req EXCEPT ![r].pc =
                  IF active[s] /\ token[s] = req[r].tok THEN "admitted" ELSE "refused"]
  /\ UNCHANGED <<active, token, byToken, ctl, minter, revoked, overlapped>>

-----------------------------------------------------------------------------
Init ==
  /\ active = [s \in Streamers |-> FALSE]
  /\ token = [s \in Streamers |-> NoToken]
  /\ byToken = [t \in Tokens |-> NoStreamer]
  /\ ctl = [c \in Controllers |-> Idle]
  /\ req = [r \in Requests |-> NewRequest]
  /\ minter = [t \in Tokens |-> NoStreamer]
  /\ revoked = {}
  /\ overlapped = {}

Next ==
  \/ \E c \in Controllers, s \in Streamers, op \in {"open", "stop"} : ReadOld(c, s, op)
  \/ \E c \in Controllers : Open(c)
  \/ \E c \in Controllers : Stop(c)
  \/ \E c \in Controllers : Reindex(c)
  \/ \E r \in Requests, tok \in Minted : Lookup(r, tok)
  \/ \E r \in Requests : Check(r)

Spec == Init /\ [][Next]_vars

-----------------------------------------------------------------------------
\* Properties.

Control ==
  [pc : {"idle", "read", "changed"}, op : {"open", "stop"},
   streamer : Streamers \cup {NoStreamer},
   old : Tokens \cup {NoToken}, new : Tokens \cup {NoToken}]

Resolution ==
  [pc : {"new", "found", "admitted", "refused"}, tok : Tokens \cup {NoToken},
   tenant : Streamers \cup {NoStreamer}, late : BOOLEAN]

\* Types of the session, index and request records.
TypeOK ==
  /\ active \in [Streamers -> BOOLEAN]
  /\ token \in [Streamers -> Tokens \cup {NoToken}]
  /\ byToken \in [Tokens -> Streamers \cup {NoStreamer}]
  /\ ctl \in [Controllers -> Control]
  /\ req \in [Requests -> Resolution]
  /\ minter \in [Tokens -> Streamers \cup {NoStreamer}]
  /\ revoked \subseteq Tokens
  /\ overlapped \subseteq Tokens

\* Isolation of channels: however controls and lookups of several channels
\* interleave, a request is only ever admitted to the channel that gave out its
\* link (registry.go:65 ResolveSession).
AdmittedToMinter ==
  \A r \in Requests : req[r].pc = "admitted" => req[r].tenant = minter[req[r].tok]

\* A link that was replaced or stopped before the request arrived admits nobody,
\* even while the index still lists it.
RevokedLinkRefused ==
  \A r \in Requests : req[r].pc = "admitted" => ~req[r].late

\* The current link of an open session works: it is in the index, or the control
\* that minted it is about to put it there.  Controls racing on one channel never
\* delete it, whatever old token each of them read.
LiveLinkIndexed ==
  \A s \in Streamers : token[s] # NoToken =>
    \/ byToken[token[s]] = s
    \/ \E c \in Controllers : ctl[c].pc = "changed" /\ ctl[c].new = token[s]

Controlled(s) == \E c \in Controllers : ctl[c].pc # "idle" /\ ctl[c].streamer = s

\* "session control that keeps the token index in sync" (registry.go:103): however
\* many controls race, once none is being served for a channel, the index lists no
\* other link of it than the current one, except links during whose own minting and
\* listing another control of the channel was being served.
IndexInSync ==
  \A s \in Streamers, t \in Tokens :
    ~Controlled(s) /\ byToken[t] = s => (active[s] /\ token[s] = t) \/ t \in overlapped
=============================================================================
