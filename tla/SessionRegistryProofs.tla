------------------------ MODULE SessionRegistryProofs ------------------------
(***************************************************************************)
(* Proofs about SessionRegistry, for any number of channels, concurrent    *)
(* session controls, viewers and links.                                    *)
(***************************************************************************)
EXTENDS SessionRegistry, TLAPS

\* The strengthening that makes the properties above inductive, in three parts.

\* A token belongs to the streamer that minted it wherever it appears, and the
\* current token of a session has not been revoked.
Provenance ==
  /\ \A s \in Streamers : token[s] # NoToken => minter[token[s]] = s /\ token[s] \notin revoked
  /\ \A t \in Tokens : byToken[t] \in {NoStreamer, minter[t]}
  /\ \A t \in revoked : minter[t] # NoStreamer

\* A control that has changed the session is about to delete a token that is no
\* longer current, and to add one it minted.
ControlsHoldDeadOld ==
  \A c \in Controllers :
    /\ ctl[c].pc # "idle" => ctl[c].streamer \in Streamers
    /\ ctl[c].pc = "idle" => ctl[c].old = NoToken /\ ctl[c].new = NoToken
    /\ ctl[c].old # NoToken => minter[ctl[c].old] = ctl[c].streamer
    /\ ctl[c].new # NoToken => minter[ctl[c].new] = ctl[c].streamer
    /\ ctl[c].pc = "read" => ctl[c].old \in revoked \cup {NoToken, token[ctl[c].streamer]}
    /\ ctl[c].pc = "changed" => ctl[c].old \in revoked \cup {NoToken}

\* A request past the lookup holds a channel's own token, and was late only if
\* the token is revoked now.
LookupsHoldMinter ==
  \A r \in Requests :
    /\ req[r].pc \in {"found", "admitted"} =>
         req[r].tok \in Tokens /\ req[r].tenant \in Streamers /\ req[r].tenant = minter[req[r].tok]
    /\ req[r].late => req[r].tok \in revoked

IInv ==
  /\ TypeOK
  /\ Provenance
  /\ ControlsHoldDeadOld
  /\ LookupsHoldMinter
  /\ RevokedLinkRefused
  /\ LiveLinkIndexed

-----------------------------------------------------------------------------
LEMMA InitIInv == Init => IInv
BY RegistryAssumption
DEF Init, IInv, TypeOK, Idle, NewRequest, Control, Resolution, Provenance,
    ControlsHoldDeadOld, LookupsHoldMinter, RevokedLinkRefused, LiveLinkIndexed

\* Reading the old token: it is the current one, or the session is closed.
LEMMA ReadOldKeeps ==
  ASSUME IInv, NEW c \in Controllers, NEW s \in Streamers, NEW op \in {"open", "stop"},
         ReadOld(c, s, op)
  PROVE  IInv'
<1> USE DEF IInv, TypeOK, ReadOld
<1>1. TypeOK'
  BY DEF Control, Unlisted
<1>2. Provenance' /\ LookupsHoldMinter' /\ RevokedLinkRefused'
  BY DEF Provenance, LookupsHoldMinter, RevokedLinkRefused
<1>3. ControlsHoldDeadOld'
  BY RegistryAssumption DEF ControlsHoldDeadOld, Provenance, Control
<1>4. LiveLinkIndexed'
  BY DEF LiveLinkIndexed, Control
<1>5. QED BY <1>1, <1>2, <1>3, <1>4

\* Opening a session: the fresh token was in no place before, and the token it
\* replaces joins the revoked ones.
LEMMA OpenKeeps ==
  ASSUME IInv, NEW c \in Controllers, Open(c) PROVE IInv'
<1> USE DEF IInv, TypeOK
<1> DEFINE s == ctl[c].streamer
<1>1. PICK t \in Tokens \ Minted :
        /\ active' = [active EXCEPT ![s] = TRUE]
        /\ token' = [token EXCEPT ![s] = t]
        /\ minter' = [minter EXCEPT ![t] = s]
        /\ ctl' = [ctl EXCEPT ![c].pc = "changed", ![c].new = t]
        /\ overlapped' \subseteq overlapped \cup {t}
  BY DEF Open
<1>2. /\ ctl[c].pc = "read" /\ s \in Streamers
      /\ revoked' = revoked \cup ({token[s]} \ {NoToken})
      /\ UNCHANGED <<byToken, req>>
  BY DEF Open, Revoke, ControlsHoldDeadOld
<1>3. /\ minter[t] = NoStreamer /\ t \in Tokens /\ t # NoToken
      /\ t \notin revoked /\ token[s] # t
      /\ \A x \in Controllers : ctl[x].old # t /\ ctl[x].new # t
  <2>1. minter[t] = NoStreamer /\ t \in Tokens /\ t # NoToken
    BY RegistryAssumption DEF Minted
  <2>2. t \notin revoked /\ token[s] # t
    BY <1>2, <2>1, RegistryAssumption DEF Provenance
  <2>3. ASSUME NEW x \in Controllers PROVE ctl[x].old # t /\ ctl[x].new # t
    <3>1. CASE ctl[x].pc = "idle"
      BY <2>1, <3>1, RegistryAssumption DEF ControlsHoldDeadOld
    <3>2. CASE ctl[x].pc # "idle"
      BY <2>1, <3>2, RegistryAssumption DEF ControlsHoldDeadOld
    <3>3. QED BY <3>1, <3>2
  <2>4. QED BY <2>1, <2>2, <2>3
<1>4. TypeOK'
  BY <1>1, <1>2, <1>3 DEF Control
<1>5. Provenance'
  BY <1>1, <1>2, <1>3, RegistryAssumption DEF Provenance
<1>6. ControlsHoldDeadOld'
  <2>1. \A x \in Controllers : x # c => ctl'[x] = ctl[x]
    BY <1>1
  <2>2. /\ ctl'[c].pc = "changed" /\ ctl'[c].new = t
        /\ ctl'[c].old = ctl[c].old /\ ctl'[c].streamer = s
    BY <1>1 DEF Control
  <2>3. ctl[c].old \in revoked' \cup {NoToken}
    BY <1>2 DEF ControlsHoldDeadOld
  <2>4. ASSUME NEW x \in Controllers, x # c, ctl[x].pc = "read"
        PROVE  ctl[x].old \in revoked' \cup {NoToken, token'[ctl[x].streamer]}
    <3>1. ctl[x].streamer \in Streamers
      BY <2>4 DEF ControlsHoldDeadOld
    <3>2. CASE ctl[x].streamer = s
      BY <1>2, <2>4, <3>2 DEF ControlsHoldDeadOld
    <3>3. CASE ctl[x].streamer # s
      BY <1>1, <1>2, <2>4, <3>1, <3>3 DEF ControlsHoldDeadOld
    <3>4. QED BY <3>2, <3>3
  <2>5. \A y \in Tokens : y # t => minter'[y] = minter[y]
    BY <1>1
  <2>6. minter'[t] = s
    BY <1>1, <1>3
  <2>7. \A x \in Controllers :
          /\ ctl[x].old \in Tokens \cup {NoToken} /\ ctl[x].new \in Tokens \cup {NoToken}
    BY DEF Control
  <2>8. QED
    BY <1>2, <1>3, <2>1, <2>2, <2>3, <2>4, <2>5, <2>6, <2>7 DEF ControlsHoldDeadOld
<1>7. LookupsHoldMinter' /\ RevokedLinkRefused'
  BY <1>1, <1>2, <1>3, RegistryAssumption DEF LookupsHoldMinter, RevokedLinkRefused
<1>8. LiveLinkIndexed'
  BY <1>1, <1>2, <1>3 DEF LiveLinkIndexed, Control
<1>9. QED BY <1>4, <1>5, <1>6, <1>7, <1>8

\* Stopping a session: its token joins the revoked ones.
LEMMA StopKeeps ==
  ASSUME IInv, NEW c \in Controllers, Stop(c) PROVE IInv'
<1> USE DEF IInv, TypeOK
<1> DEFINE s == ctl[c].streamer
<1>1. /\ ctl[c].pc = "read" /\ s \in Streamers
      /\ active' = [active EXCEPT ![s] = FALSE]
      /\ token' = [token EXCEPT ![s] = NoToken]
      /\ ctl' = [ctl EXCEPT ![c].pc = "changed"]
      /\ revoked' = revoked \cup ({token[s]} \ {NoToken})
      /\ UNCHANGED <<byToken, req, minter, overlapped>>
  BY DEF Stop, Revoke, ControlsHoldDeadOld
<1>2. TypeOK'
  BY <1>1 DEF Control
<1>3. Provenance'
  BY <1>1, RegistryAssumption DEF Provenance
<1>4. ControlsHoldDeadOld'
  <2>1. /\ \A x \in Controllers : x # c => ctl'[x] = ctl[x]
        /\ ctl'[c] = [ctl[c] EXCEPT !.pc = "changed"]
    BY <1>1
  <2>2. ctl[c].old \in revoked' \cup {NoToken}
    BY <1>1 DEF ControlsHoldDeadOld
  <2>3. ASSUME NEW x \in Controllers, x # c, ctl[x].pc = "read"
        PROVE  ctl[x].old \in revoked' \cup {NoToken, token'[ctl[x].streamer]}
    BY <1>1, <2>3 DEF ControlsHoldDeadOld
  <2>4. QED
    BY <1>1, <2>1, <2>2, <2>3 DEF ControlsHoldDeadOld, Control
<1>5. LookupsHoldMinter' /\ RevokedLinkRefused'
  BY <1>1 DEF LookupsHoldMinter, RevokedLinkRefused
<1>6. LiveLinkIndexed'
  BY <1>1 DEF LiveLinkIndexed, Control
<1>7. QED BY <1>2, <1>3, <1>4, <1>5, <1>6

\* Updating the index: the deleted token is no current one, so no live link goes.
LEMMA ReindexKeeps ==
  ASSUME IInv, NEW c \in Controllers, Reindex(c) PROVE IInv'
<1> USE DEF IInv, TypeOK, Reindex
<1>1. /\ ctl[c].pc = "changed" /\ ctl[c].streamer \in Streamers
      /\ ctl[c].old \in revoked \cup {NoToken}
      /\ ctl[c].new # NoToken => minter[ctl[c].new] = ctl[c].streamer
  BY DEF ControlsHoldDeadOld
<1>2. TypeOK'
  BY <1>1 DEF Control, Idle
<1>3. Provenance'
  BY <1>1, RegistryAssumption DEF Provenance
<1>4. ControlsHoldDeadOld'
  BY <1>1 DEF ControlsHoldDeadOld, Idle
<1>5. LookupsHoldMinter' /\ RevokedLinkRefused'
  BY DEF LookupsHoldMinter, RevokedLinkRefused
<1>6. LiveLinkIndexed'
  <2> SUFFICES ASSUME NEW s \in Streamers, token[s] # NoToken
               PROVE  \/ byToken'[token[s]] = s
                      \/ \E x \in Controllers :
                           ctl'[x].pc = "changed" /\ ctl'[x].new = token[s]
    BY DEF LiveLinkIndexed
  <2>1. /\ token[s] \in Tokens /\ token[s] \notin revoked /\ minter[token[s]] = s
        /\ token[s] # ctl[c].old
    BY <1>1 DEF Provenance
  <2>2. CASE token[s] = ctl[c].new
    BY <1>1, <2>1, <2>2
  <2>3. CASE token[s] # ctl[c].new
    BY <2>1, <2>3 DEF LiveLinkIndexed
  <2>4. QED BY <2>2, <2>3
<1>7. QED BY <1>2, <1>3, <1>4, <1>5, <1>6

\* Looking a link up: what the index lists was minted by the channel it names.
LEMMA LookupKeeps ==
  ASSUME IInv, NEW r \in Requests, NEW tok \in Minted, Lookup(r, tok) PROVE IInv'
<1> USE DEF IInv, TypeOK, Lookup
<1>1. tok \in Tokens
  BY DEF Minted
<1>2. TypeOK'
  BY <1>1 DEF Resolution
<1>3. Provenance' /\ ControlsHoldDeadOld' /\ LiveLinkIndexed'
  BY DEF Provenance, ControlsHoldDeadOld, LiveLinkIndexed
<1>4. LookupsHoldMinter' /\ RevokedLinkRefused'
  <2>1. /\ req'[r].tok = tok /\ req'[r].tenant = byToken[tok]
        /\ req'[r].late = (tok \in revoked)
        /\ req'[r].pc = IF byToken[tok] = NoStreamer THEN "refused" ELSE "found"
    BY DEF Resolution
  <2>2. \A x \in Requests : x # r => req'[x] = req[x]
    OBVIOUS
  <2>3. byToken[tok] # NoStreamer => byToken[tok] \in Streamers /\ byToken[tok] = minter[tok]
    BY <1>1 DEF Provenance
  <2>4. UNCHANGED <<minter, revoked>>
    OBVIOUS
  <2> HIDE DEF IInv, TypeOK, Lookup
  <2>5. LookupsHoldMinter /\ RevokedLinkRefused
    BY DEF IInv
  <2>6. LookupsHoldMinter'
    BY <1>1, <2>1, <2>2, <2>3, <2>4, <2>5 DEF LookupsHoldMinter
  <2>7. RevokedLinkRefused'
    BY <2>1, <2>2, <2>5 DEF RevokedLinkRefused
  <2>8. QED BY <2>6, <2>7
<1>5. QED BY <1>2, <1>3, <1>4

\* Validating: a revoked token is nobody's current one.
LEMMA CheckKeeps ==
  ASSUME IInv, NEW r \in Requests, Check(r) PROVE IInv'
<1> USE DEF IInv, TypeOK, Check
<1>1. TypeOK'
  BY DEF Resolution
<1>2. Provenance' /\ ControlsHoldDeadOld' /\ LiveLinkIndexed'
  BY DEF Provenance, ControlsHoldDeadOld, LiveLinkIndexed
<1>3. LookupsHoldMinter'
  BY DEF LookupsHoldMinter, Resolution
<1>4. RevokedLinkRefused'
  BY RegistryAssumption
  DEF RevokedLinkRefused, LookupsHoldMinter, Provenance, Resolution
<1>5. QED BY <1>1, <1>2, <1>3, <1>4

LEMMA NextIInv == IInv /\ [Next]_vars => IInv'
<1> SUFFICES ASSUME IInv, [Next]_vars PROVE IInv'
  OBVIOUS
<1>1. CASE Next
  BY <1>1, ReadOldKeeps, OpenKeeps, StopKeeps, ReindexKeeps, LookupKeeps, CheckKeeps
  DEF Next
<1>2. CASE UNCHANGED vars
  BY <1>2
  DEF vars, IInv, TypeOK, Provenance, ControlsHoldDeadOld, LookupsHoldMinter,
      RevokedLinkRefused, LiveLinkIndexed
<1>3. QED BY <1>1, <1>2

\* The inductive invariant holds of every behaviour.
THEOREM Invariance == Spec => []IInv
<1>1. Init => IInv
  BY InitIInv
<1>2. IInv /\ [Next]_vars => IInv'
  BY NextIInv
<1>3. QED BY <1>1, <1>2, PTL DEF Spec

\* The records keep their types.
THEOREM TypeCorrect == Spec => []TypeOK
BY Invariance, PTL DEF IInv

\* No request is admitted to a channel that did not give out its link.
THEOREM Isolation == Spec => []AdmittedToMinter
<1>1. IInv => AdmittedToMinter
  BY DEF IInv, LookupsHoldMinter, AdmittedToMinter
<1>2. QED BY <1>1, Invariance, PTL

\* A link revoked before the request arrived admits nobody.
THEOREM Revocation == Spec => []RevokedLinkRefused
BY Invariance, PTL DEF IInv

\* Racing controls never delete the current link of an open session.
THEOREM LiveLink == Spec => []LiveLinkIndexed
BY Invariance, PTL DEF IInv

-----------------------------------------------------------------------------
\* The index.  A link that it lists wrongly was overlapped, or a control that has
\* changed the session is about to delete it; for that, a control has read the
\* current link unless that one was overlapped, and a link that was not is current
\* when it is listed.
SyncInv ==
  /\ \A s \in Streamers : active[s] <=> token[s] # NoToken
  /\ \A s \in Streamers, t \in Tokens : byToken[t] = s =>
       \/ token[s] = t
       \/ t \in overlapped
       \/ \E c \in Controllers : ctl[c].pc = "changed" /\ ctl[c].streamer = s /\ ctl[c].old = t
  /\ \A c \in Controllers : ctl[c].pc = "read" =>
       /\ ctl[c].new = NoToken
       /\ \/ ctl[c].old = token[ctl[c].streamer]
          \/ token[ctl[c].streamer] \in overlapped \cup {NoToken}
  /\ \A c \in Controllers :
       ctl[c].pc = "changed" /\ ctl[c].new \notin overlapped \cup {NoToken} =>
         token[ctl[c].streamer] = ctl[c].new /\ ~Rival(c, ctl[c].streamer)

LEMMA SyncInit == Init => SyncInv
BY RegistryAssumption DEF Init, Idle, SyncInv

\* A control that reads marks the links that its rivals have yet to list.
LEMMA SyncReadOld ==
  ASSUME IInv, SyncInv, NEW c \in Controllers, NEW s \in Streamers,
         NEW op \in {"open", "stop"}, ReadOld(c, s, op)
  PROVE  SyncInv'
<1>1. /\ ctl[c].pc = "idle" /\ UNCHANGED <<active, token, byToken>>
      /\ \A d \in Controllers \ {c} : ctl'[d] = ctl[d]
      /\ ctl'[c].pc = "read" /\ ctl'[c].streamer = s
      /\ ctl'[c].old = token[s] /\ ctl'[c].new = NoToken
      /\ overlapped \subseteq overlapped'
  BY DEF IInv, TypeOK, ReadOld
<1>2. ASSUME NEW d \in Controllers, ctl'[d].pc = "changed",
             ctl'[d].new \notin overlapped' \cup {NoToken}
      PROVE  token'[ctl'[d].streamer] = ctl'[d].new /\ ~Rival(d, ctl[d].streamer)'
  <2>1. d # c /\ ctl'[d] = ctl[d] /\ ctl[d].new \notin overlapped \cup {NoToken}
    BY <1>1, <1>2
  <2>2. ctl[d].streamer # s
    BY <1>2, <2>1 DEF ReadOld, Unlisted
  <2>3. token[ctl[d].streamer] = ctl[d].new /\ ~Rival(d, ctl[d].streamer)
    BY <1>2, <2>1 DEF SyncInv
  <2> QED
    BY <1>1, <2>1, <2>2, <2>3 DEF Rival
<1>3. ASSUME NEW x \in Streamers, NEW t \in Tokens, byToken'[t] = x
      PROVE  \/ token'[x] = t
             \/ t \in overlapped'
             \/ \E d \in Controllers : ctl'[d].pc = "changed" /\ ctl'[d].streamer = x /\ ctl'[d].old = t
  BY <1>1, <1>3 DEF SyncInv
<1>4. ASSUME NEW d \in Controllers, ctl'[d].pc = "read"
      PROVE  /\ ctl'[d].new = NoToken
             /\ \/ ctl'[d].old = token'[ctl'[d].streamer]
                \/ token'[ctl'[d].streamer] \in overlapped' \cup {NoToken}
  BY <1>1, <1>4 DEF SyncInv
<1>5. \A x \in Streamers : active'[x] <=> token'[x] # NoToken
  BY <1>1 DEF SyncInv
<1>6. \A d \in Controllers : ctl'[d].pc = "changed" => ctl'[d].streamer = ctl[d].streamer
  BY <1>1
<1> QED
  BY <1>1, <1>2, <1>3, <1>4, <1>5, <1>6 DEF SyncInv, Rival

\* What a control that changes the session of s leaves of every other one.
LEMMA SyncChange ==
  ASSUME IInv, SyncInv, NEW c \in Controllers, NEW t \in Tokens \cup {NoToken},
         ctl[c].pc = "read", byToken' = byToken,
         token' = [token EXCEPT ![ctl[c].streamer] = t],
         \A x \in Streamers : active'[x] <=> token'[x] # NoToken,
         \A d \in Controllers \ {c} : ctl'[d] = ctl[d],
         ctl'[c].pc = "changed", ctl'[c].streamer = ctl[c].streamer,
         ctl'[c].old = ctl[c].old, ctl'[c].new = t,
         overlapped \subseteq overlapped',
         t = NoToken \/ t \in overlapped' \/ ~Rival(c, ctl[c].streamer)
  PROVE  SyncInv'
<1> DEFINE s == ctl[c].streamer
<1>1. s \in Streamers /\ token \in [Streamers -> Tokens \cup {NoToken}]
  BY DEF IInv, TypeOK, ControlsHoldDeadOld
<1>2. token'[s] = t /\ \A x \in Streamers \ {s} : token'[x] = token[x]
  BY <1>1
<1>3. \A d \in Controllers : ctl[d].pc # "idle" => ctl[d].streamer \in Streamers
  BY DEF IInv, ControlsHoldDeadOld
<1>4. \A d \in Controllers : Rival(d, s)' <=> Rival(d, s)
  BY DEF Rival
<1> HIDE DEF s
<1>5. \A x : \A d \in Controllers : Rival(d, x)' <=> Rival(d, x)
  BY DEF Rival, s
<1>6. ASSUME NEW x \in Streamers, NEW u \in Tokens, byToken'[u] = x
      PROVE  \/ token'[x] = u
             \/ u \in overlapped'
             \/ \E d \in Controllers : ctl'[d].pc = "changed" /\ ctl'[d].streamer = x /\ ctl'[d].old = u
  <2>1. CASE x = s /\ token[s] = u /\ u \notin overlapped
    <3>1. ctl[c].old = u
      BY <2>1, RegistryAssumption DEF SyncInv, s
    <3> QED
      BY <2>1, <3>1 DEF s
  <2>2. CASE token[x] = u /\ x # s
    BY <1>2, <2>2
  <2>3. CASE u \in overlapped
    BY <2>3
  <2>4. CASE \E d \in Controllers : ctl[d].pc = "changed" /\ ctl[d].streamer = x /\ ctl[d].old = u
    <3>1. PICK d \in Controllers : ctl[d].pc = "changed" /\ ctl[d].streamer = x /\ ctl[d].old = u
      BY <2>4
    <3>2. d # c
      BY <3>1
    <3> QED
      BY <3>1, <3>2
  <2> QED
    BY <1>6, <2>1, <2>2, <2>3, <2>4 DEF SyncInv
<1>7. ASSUME NEW d \in Controllers, ctl'[d].pc = "read"
      PROVE  /\ ctl'[d].new = NoToken
             /\ \/ ctl'[d].old = token'[ctl'[d].streamer]
                \/ token'[ctl'[d].streamer] \in overlapped' \cup {NoToken}
  <2>1. d # c /\ ctl'[d] = ctl[d] /\ ctl[d].streamer \in Streamers
    BY <1>3, <1>7
  <2>2. ctl[d].streamer = s => Rival(c, s)
    BY <1>7, <2>1 DEF Rival
  <2>3. ctl[d].streamer = s => t \in overlapped' \cup {NoToken}
    BY <2>2 DEF s
  <2> QED
    BY <1>2, <1>7, <2>1, <2>3 DEF SyncInv
<1>8. ASSUME NEW d \in Controllers, ctl'[d].pc = "changed",
             ctl'[d].new \notin overlapped' \cup {NoToken}
      PROVE  token'[ctl'[d].streamer] = ctl'[d].new /\ ~Rival(d, ctl[d].streamer)'
  <2>1. CASE d = c
    BY <1>2, <1>5, <1>8, <2>1 DEF s
  <2>2. CASE d # c
    <3>1. ctl'[d] = ctl[d] /\ ctl[d].streamer \in Streamers
      BY <1>3, <1>8, <2>2
    <3>2. token[ctl[d].streamer] = ctl[d].new /\ ~Rival(d, ctl[d].streamer)
      BY <1>8, <3>1 DEF SyncInv
    <3>3. ctl[d].streamer # s
      BY <2>2, <3>2 DEF Rival, s
    <3> QED
      BY <1>2, <1>5, <3>1, <3>2, <3>3
  <2> QED
    BY <2>1, <2>2
<1> QED
  BY <1>5, <1>6, <1>7, <1>8 DEF SyncInv

LEMMA SyncOpen ==
  ASSUME IInv, SyncInv, NEW c \in Controllers, Open(c) PROVE SyncInv'
<1>1. PICK t \in Tokens \ Minted :
        /\ active' = [active EXCEPT ![ctl[c].streamer] = TRUE]
        /\ token' = [token EXCEPT ![ctl[c].streamer] = t]
        /\ ctl' = [ctl EXCEPT ![c].pc = "changed", ![c].new = t]
        /\ overlapped' = IF Rival(c, ctl[c].streamer) THEN overlapped \cup {t} ELSE overlapped
  BY DEF Open
<1>2. ctl[c].pc = "read" /\ byToken' = byToken /\ ctl[c].streamer \in Streamers
  BY DEF Open, IInv, ControlsHoldDeadOld
<1>3. /\ ctl \in [Controllers -> Control] /\ active \in [Streamers -> BOOLEAN]
      /\ token \in [Streamers -> Tokens \cup {NoToken}]
  BY DEF IInv, TypeOK
<1>4. /\ \A d \in Controllers \ {c} : ctl'[d] = ctl[d]
      /\ ctl'[c].pc = "changed" /\ ctl'[c].streamer = ctl[c].streamer
      /\ ctl'[c].old = ctl[c].old /\ ctl'[c].new = t
  BY <1>1, <1>3 DEF Control
<1>5. \A x \in Streamers : active'[x] <=> token'[x] # NoToken
  BY <1>1, <1>2, <1>3, RegistryAssumption DEF SyncInv
<1>6. overlapped \subseteq overlapped' /\ (t \in overlapped' \/ ~Rival(c, ctl[c].streamer))
  BY <1>1
<1> QED
  BY <1>1, <1>2, <1>4, <1>5, <1>6, SyncChange

LEMMA SyncStop ==
  ASSUME IInv, SyncInv, NEW c \in Controllers, Stop(c) PROVE SyncInv'
<1>1. /\ active' = [active EXCEPT ![ctl[c].streamer] = FALSE]
      /\ token' = [token EXCEPT ![ctl[c].streamer] = NoToken]
      /\ ctl' = [ctl EXCEPT ![c].pc = "changed"]
      /\ ctl[c].pc = "read" /\ UNCHANGED <<byToken, overlapped>>
      /\ ctl[c].streamer \in Streamers /\ ctl[c].new = NoToken
  BY DEF Stop, IInv, ControlsHoldDeadOld, SyncInv
<1>2. /\ ctl \in [Controllers -> Control] /\ active \in [Streamers -> BOOLEAN]
      /\ token \in [Streamers -> Tokens \cup {NoToken}]
  BY DEF IInv, TypeOK
<1>3. /\ \A d \in Controllers \ {c} : ctl'[d] = ctl[d]
      /\ ctl'[c].pc = "changed" /\ ctl'[c].streamer = ctl[c].streamer
      /\ ctl'[c].old = ctl[c].old /\ ctl'[c].new = NoToken
  BY <1>1, <1>2 DEF Control
<1>4. \A x \in Streamers : active'[x] <=> token'[x] # NoToken
  BY <1>1, <1>2 DEF SyncInv
<1> QED
  BY <1>1, <1>3, <1>4, SyncChange

\* The control that a wrongly listed link waits for deletes it, and the link that
\* it lists is current or was overlapped.
LEMMA SyncReindex ==
  ASSUME IInv, SyncInv, NEW c \in Controllers, Reindex(c) PROVE SyncInv'
<1> DEFINE s == ctl[c].streamer
<1>1. /\ ctl[c].pc = "changed" /\ s \in Streamers
      /\ UNCHANGED <<active, token, overlapped>>
      /\ byToken' = [t \in Tokens |-> IF t = ctl[c].new THEN s
                                      ELSE IF t = ctl[c].old THEN NoStreamer ELSE byToken[t]]
      /\ \A d \in Controllers \ {c} : ctl'[d] = ctl[d]
      /\ ctl'[c].pc = "idle"
  BY DEF IInv, TypeOK, ControlsHoldDeadOld, Reindex, Idle
<1>2. ASSUME NEW x \in Streamers, NEW t \in Tokens, byToken'[t] = x
      PROVE  \/ token'[x] = t
             \/ t \in overlapped'
             \/ \E d \in Controllers : ctl'[d].pc = "changed" /\ ctl'[d].streamer = x /\ ctl'[d].old = t
  <2>1. CASE t = ctl[c].new
    BY <1>1, <1>2, <2>1, RegistryAssumption DEF SyncInv
  <2>2. CASE t # ctl[c].new
    <3>1. byToken[t] = x /\ t # ctl[c].old
      BY <1>1, <1>2, <2>2, RegistryAssumption
    <3> QED
      BY <1>1, <3>1 DEF SyncInv
  <2> QED
    BY <2>1, <2>2
<1>3. \A x : \A d \in Controllers : Rival(d, x)' => Rival(d, x)
  BY <1>1 DEF Rival
<1>4. ASSUME NEW d \in Controllers, ctl'[d].pc # "idle" PROVE ctl'[d] = ctl[d]
  BY <1>1, <1>4
<1> HIDE DEF s
<1> QED
  BY <1>1, <1>2, <1>3, <1>4 DEF SyncInv

\* However many controls race, only links that a rival overlapped stay in the
\* index after they died (registry.go:103).
THEOREM OnlyRacesLeaveLinks == Spec => []IndexInSync
<1>1. IInv /\ SyncInv /\ [Next]_vars => SyncInv'
  <2> SUFFICES ASSUME IInv, SyncInv, [Next]_vars PROVE SyncInv'
    OBVIOUS
  <2>1. ASSUME UNCHANGED <<active, token, byToken, ctl, overlapped>> PROVE SyncInv'
    BY <2>1 DEF SyncInv, Rival
  <2>2. ASSUME NEW r \in Requests, NEW tok, Lookup(r, tok) \/ Check(r)
        PROVE  SyncInv'
    BY <2>1, <2>2 DEF Lookup, Check
  <2>3. CASE UNCHANGED vars
    BY <2>1, <2>3 DEF vars
  <2> QED
    BY <2>2, <2>3, SyncReadOld, SyncOpen, SyncStop, SyncReindex DEF Next
<1>2. SyncInv => IndexInSync
  BY RegistryAssumption DEF SyncInv, IndexInSync, Controlled
<1> QED
  BY <1>1, <1>2, SyncInit, Invariance, PTL DEF Spec
=============================================================================
