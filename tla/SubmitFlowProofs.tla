-------------------------- MODULE SubmitFlowProofs --------------------------
(***************************************************************************)
(* Proofs about SubmitFlow, for any number of channels, viewers, requests, *)
(* links, cheers and crashes.                                              *)
(*                                                                         *)
(* What SessionRegistryProofs and CreditsProofs show of the two parts is   *)
(* taken over: a step of the composition is, for each part, one of its own *)
(* steps or none, except that a crash empties the registry.                *)
(***************************************************************************)
EXTENDS SubmitFlow, TLAPS

RegistryProofs == INSTANCE SessionRegistryProofs

CreditsProofs == INSTANCE CreditsProofs WITH
  Items <- Requests, FirstStreamers <- Streamers, Amounts <- {}, MaxGrants <- 0

-----------------------------------------------------------------------------
\* The inductive invariant.

Stages == {"resolve", "saving", "unpaid", "paid", "queued", "answered", "lost"}

\* The stages of a handler that holds a channel.
Serving == {"saving", "unpaid", "paid", "queued"}

FlowTypes ==
  /\ creditsEnabled \in BOOLEAN
  /\ stage \in [Requests -> Stages]
  /\ files \subseteq Uploads
  /\ queue \in [Streamers -> SUBSET Requests]

\* A handler goes on only with an admitted link, and queues its clip in that
\* link's channel.
Admissions ==
  /\ \A r \in Requests : stage[r] \in Serving => req[r].pc = "admitted"
  /\ \A s \in Streamers, r \in Requests :
       r \in queue[s] <=> stage[r] = "queued" /\ req[r].tenant = s

\* Past the charge, the clip is paid for in that channel.
Payments ==
  \A r \in Requests : stage[r] \in {"paid", "queued"} /\ creditsEnabled =>
    charge[r] = "paid" /\ PaidIn(r, req[r].tenant)

\* An upload has its file from its creation until it is turned away.
Storage ==
  \A r \in Uploads :
    /\ stage[r] \in Serving => r \in files
    /\ r \in files => stage[r] \in Serving \cup {"lost"}

FlowInv == FlowTypes /\ Admissions /\ Payments /\ Storage

IInv == RegistryProofs!IInv /\ CreditsProofs!IInv /\ FlowInv

-----------------------------------------------------------------------------
\* The parts.

LEMMA RegistryAssumed == RegistryProofs!RegistryAssumption
BY PartsAssumption DEF RegistryProofs!RegistryAssumption

LEMMA CreditsAssumed == CreditsProofs!CreditsAssumption
<1>1. {} \subseteq Nat \ {0} /\ Streamers \subseteq Streamers
  OBVIOUS
<1> QED
  BY <1>1, PartsAssumption DEF CreditsProofs!CreditsAssumption

\* The actions and operators that the two instances share.
LEMMA RegistryAgrees ==
  /\ Registry!Init = RegistryProofs!Init
  /\ Registry!Idle = RegistryProofs!Idle
  /\ Registry!Minted = RegistryProofs!Minted
BY DEF Registry!Init, RegistryProofs!Init, Registry!Idle, RegistryProofs!Idle,
       Registry!NewRequest, RegistryProofs!NewRequest, Registry!Minted, RegistryProofs!Minted

\* What a crash does to the registry.
Forgotten ==
  /\ active' = [s \in Streamers |-> FALSE]
  /\ token' = [s \in Streamers |-> NoToken]
  /\ byToken' = [t \in Tokens |-> NoStreamer]
  /\ ctl' = [c \in Controllers |-> Registry!Idle]
  /\ revoked' = revoked \cup ({token[s] : s \in Streamers} \ {NoToken})
  /\ UNCHANGED <<req, minter, overlapped>>

LEMMA SharedActions ==
  /\ \A c, s, op : Registry!ReadOld(c, s, op) => RegistryProofs!ReadOld(c, s, op)
  /\ \A c : Registry!Open(c) => RegistryProofs!Open(c)
  /\ \A c : Registry!Stop(c) => RegistryProofs!Stop(c)
  /\ \A c : Registry!Reindex(c) => RegistryProofs!Reindex(c)
  /\ \A r, tok : Registry!Lookup(r, tok) => RegistryProofs!Lookup(r, tok)
  /\ \A r : Registry!Check(r) => RegistryProofs!Check(r)
<1>1. ASSUME NEW c, NEW s, NEW op, Registry!ReadOld(c, s, op) PROVE RegistryProofs!ReadOld(c, s, op)
  <2>1. Registry!TokenReserved = RegistryProofs!TokenReserved
    BY RegistryAgrees, Zenon
    DEF Registry!TokenReserved, RegistryProofs!TokenReserved,
        Registry!Cardinality, RegistryProofs!Cardinality
  <2> QED
    BY <1>1, <2>1, Zenon
    DEF Registry!ReadOld, RegistryProofs!ReadOld, Registry!Unlisted, RegistryProofs!Unlisted
<1>2. ASSUME NEW c, Registry!Open(c) PROVE RegistryProofs!Open(c)
  BY <1>2, RegistryAgrees, Zenon
  DEF Registry!Open, RegistryProofs!Open, Registry!Revoke, RegistryProofs!Revoke,
      Registry!Rival, RegistryProofs!Rival
<1>3. ASSUME NEW c, Registry!Stop(c) PROVE RegistryProofs!Stop(c)
  BY <1>3 DEF Registry!Stop, RegistryProofs!Stop, Registry!Revoke, RegistryProofs!Revoke
<1>4. ASSUME NEW c, Registry!Reindex(c) PROVE RegistryProofs!Reindex(c)
  BY <1>4, RegistryAgrees DEF Registry!Reindex, RegistryProofs!Reindex
<1>5. ASSUME NEW r, NEW tok, Registry!Lookup(r, tok) PROVE RegistryProofs!Lookup(r, tok)
  BY <1>5 DEF Registry!Lookup, RegistryProofs!Lookup
<1>6. ASSUME NEW r, Registry!Check(r) PROVE RegistryProofs!Check(r)
  BY <1>6 DEF Registry!Check, RegistryProofs!Check
<1> QED
  BY <1>1, <1>2, <1>3, <1>4, <1>5, <1>6

\* A step of the composition is one of the registry's, or none, or a crash.
LEMMA RegistryMoves ==
  ASSUME Next
  PROVE  RegistryProofs!Next \/ UNCHANGED registryVars \/ Forgotten
<1>1. ASSUME NEW r \in Requests, Handle(r)
      PROVE  RegistryProofs!Next \/ UNCHANGED registryVars
  <2>1. CASE Resolve(r)
    BY <2>1, SharedActions DEF Resolve, RegistryProofs!Next
  <2>2. CASE ~Resolve(r)
    BY <1>1, <2>2 DEF Handle, RejectForm, CreateFile, SaveFails, Charge, TurnAway, Enqueue
  <2> QED
    BY <2>1, <2>2
<1>2. CASE SessionStep
  BY <1>2, SharedActions, RegistryAgrees DEF SessionStep, RegistryProofs!Next
<1>3. CASE CreditStep
  BY <1>3 DEF CreditStep
<1>4. CASE Crash
  BY <1>4 DEF Crash, Forgotten
<1> QED
  BY <1>1, <1>2, <1>3, <1>4 DEF Next

LEMMA RegistryKept ==
  ASSUME RegistryProofs!IInv, RegistryProofs!Next \/ UNCHANGED registryVars \/ Forgotten
  PROVE  RegistryProofs!IInv'
<1>1. CASE RegistryProofs!Next \/ UNCHANGED registryVars
  <2>1. [RegistryProofs!Next]_(RegistryProofs!vars)
    BY <1>1 DEF registryVars, RegistryProofs!vars
  <2> QED
    BY <2>1, RegistryAssumed, RegistryProofs!NextIInv
<1>2. CASE Forgotten
  <2> USE DEF RegistryProofs!IInv, Forgotten
  <2>1. RegistryProofs!TypeOK'
    BY <1>2, RegistryAgrees
    DEF RegistryProofs!TypeOK, RegistryProofs!Control, RegistryProofs!Idle
  <2>2. RegistryProofs!Provenance'
    BY <1>2, PartsAssumption DEF RegistryProofs!TypeOK, RegistryProofs!Provenance
  <2>3. RegistryProofs!ControlsHoldDeadOld'
    BY <1>2, RegistryAgrees DEF RegistryProofs!ControlsHoldDeadOld, RegistryProofs!Idle
  <2>4. RegistryProofs!LookupsHoldMinter' /\ RegistryProofs!RevokedLinkRefused'
    BY <1>2 DEF RegistryProofs!LookupsHoldMinter, RegistryProofs!RevokedLinkRefused
  <2>5. RegistryProofs!LiveLinkIndexed'
    BY <1>2 DEF RegistryProofs!LiveLinkIndexed
  <2> QED
    BY <2>1, <2>2, <2>3, <2>4, <2>5
<1> QED
  BY <1>1, <1>2

\* An admitted request holds the channel that minted its link.
LEMMA AdmittedHolds ==
  ASSUME RegistryProofs!IInv, NEW r \in Requests, req[r].pc = "admitted"
  PROVE  /\ req[r].tenant \in Streamers /\ minter[req[r].tok] = req[r].tenant
         /\ ~req[r].late
BY DEF RegistryProofs!IInv, RegistryProofs!LookupsHoldMinter, RegistryProofs!RevokedLinkRefused

LEMMA ChargeAdmitted ==
  ASSUME IInv, NEW r \in Requests, ReadyToCharge(r)
  PROVE  req[r].pc = "admitted" /\ req[r].tenant \in Streamers /\ stage[r] \in {"resolve", "saving"}
<1>1. req[r].pc = "admitted" /\ stage[r] \in {"resolve", "saving"}
  BY DEF IInv, FlowInv, Admissions, Serving, ReadyToCharge, Admitted
<1> QED
  BY <1>1, AdmittedHolds DEF IInv

LEMMA CreditsAgree ==
  /\ Credits!Init = CreditsProofs!Init
  /\ Credits!vars = CreditsProofs!vars
  /\ \A v, s, i : Credits!SpendCredits(v, s, i) = CreditsProofs!SpendCredits(v, s, i)
  /\ Credits!Webhook => CreditsProofs!Webhook
<1>1. ASSUME NEW v, NEW s, NEW i
      PROVE  Credits!SpendCredits(v, s, i) = CreditsProofs!SpendCredits(v, s, i)
  BY Zenon
  DEF Credits!SpendCredits, CreditsProofs!SpendCredits, Credits!Upserted, CreditsProofs!Upserted,
      Credits!Held, CreditsProofs!Held, Credits!Entry, CreditsProofs!Entry
<1>2. ASSUME NEW m, Credits!NotifyTwitch(m) PROVE CreditsProofs!NotifyTwitch(m)
  <2>1. Credits!HandleCheer(m) => CreditsProofs!HandleCheer(m)
    BY Zenon
    DEF Credits!HandleCheer, CreditsProofs!HandleCheer, Credits!Creditable, CreditsProofs!Creditable,
        Credits!CreditBits, CreditsProofs!CreditBits, Credits!Upserted, CreditsProofs!Upserted,
        Credits!Held, CreditsProofs!Held, Credits!Entry, CreditsProofs!Entry
  <2> QED
    BY <1>2, <2>1, Zenon DEF Credits!NotifyTwitch, CreditsProofs!NotifyTwitch
<1>3. Credits!Webhook => CreditsProofs!Webhook
  BY <1>2
  DEF Credits!Webhook, CreditsProofs!Webhook, Credits!CheerSent, CreditsProofs!CheerSent,
      Credits!Expire, CreditsProofs!Expire
<1> QED
  BY <1>1, <1>3
  DEF Credits!Init, CreditsProofs!Init, Credits!vars, CreditsProofs!vars

\* A step of the composition is one of the credits', or none: a charge is made by
\* the viewer logged in, in a channel, for the clip of the request.
LEMMA CreditsMove ==
  ASSUME IInv, Next
  PROVE  (CreditsProofs!Next /\ Credits!Next) \/ UNCHANGED creditVars
<1>1. ASSUME NEW r \in Requests, Charge(r), creditsEnabled
      PROVE  CreditsProofs!Next /\ Credits!Next
  <2>1. Sender[r] \in Viewers /\ req[r].tenant \in Streamers
    BY <1>1, ChargeAdmitted, SubmitAssumption DEF Charge
  <2>2. CreditsProofs!SpendCredits(Sender[r], req[r].tenant, r)
    BY <1>1, CreditsAgree DEF Charge
  <2> QED
    BY <1>1, <2>1, <2>2 DEF Charge, CreditsProofs!Next, Credits!Next
<1>2. ASSUME NEW r \in Requests, Handle(r), ~(Charge(r) /\ creditsEnabled)
      PROVE  UNCHANGED creditVars
  BY <1>2 DEF Handle, Resolve, RejectForm, CreateFile, SaveFails, Charge, TurnAway, Enqueue
<1>3. CASE CreditStep
  BY <1>3, CreditsAgree DEF CreditStep, CreditsProofs!Next, Credits!Next
<1>4. CASE SessionStep \/ Crash
  BY <1>4 DEF SessionStep, Crash
<1> QED
  BY <1>1, <1>2, <1>3, <1>4 DEF Next

LEMMA CreditsKept ==
  ASSUME CreditsProofs!IInv, CreditsProofs!Next \/ UNCHANGED creditVars
  PROVE  CreditsProofs!IInv'
<1>1. [CreditsProofs!Next]_(CreditsProofs!vars)
  BY DEF creditVars, CreditsProofs!vars
<1> QED
  BY <1>1, CreditsAssumed, CreditsProofs!NextKeeps

-----------------------------------------------------------------------------
\* The flow.

\* The ledger is only appended to, and a clip that was paid for stays so.
LEMMA LedgerGrows ==
  ASSUME CreditsProofs!IInv, CreditsProofs!Next \/ UNCHANGED creditVars
  PROVE  /\ ledger' = ledger \/ \E e : ledger' = Append(ledger, e)
         /\ \A r \in Requests : charge[r] = "paid" => charge'[r] = "paid"
<1>1. ASSUME NEW v, NEW s, NEW i \in Requests, CreditsProofs!SpendCredits(v, s, i)
      PROVE  /\ ledger' = ledger \/ \E e : ledger' = Append(ledger, e)
             /\ \A r \in Requests : charge[r] = "paid" => charge'[r] = "paid"
  <2>1. ledger' = ledger \/ \E e : ledger' = Append(ledger, e)
    BY <1>1, Zenon DEF CreditsProofs!SpendCredits
  <2>2. charge[i] = "none" /\ \E out : charge' = [charge EXCEPT ![i] = out]
    BY <1>1, Zenon DEF CreditsProofs!SpendCredits
  <2>3. charge \in [Requests -> {"none", "paid", "refused", "failed"}]
    BY DEF CreditsProofs!IInv, CreditsProofs!TypeOK
  <2> QED
    BY <2>1, <2>2, <2>3
<1>2. ASSUME NEW v, NEW s, NEW amount, CreditsProofs!GrantCredits(v, s, amount)
      PROVE  (\E e : ledger' = Append(ledger, e)) /\ charge' = charge
  BY <1>2, Zenon DEF CreditsProofs!GrantCredits
<1>3. CASE CreditsProofs!Webhook
  <2>1. ASSUME NEW m, CreditsProofs!HandleCheer(m)
        PROVE  ledger' = ledger \/ \E e : ledger' = Append(ledger, e)
    BY <2>1, Zenon DEF CreditsProofs!HandleCheer, CreditsProofs!CreditBits
  <2> QED
    BY <1>3, <2>1
    DEF CreditsProofs!Webhook, CreditsProofs!CheerSent, CreditsProofs!NotifyTwitch, CreditsProofs!Expire
<1> QED
  BY <1>1, <1>2, <1>3 DEF CreditsProofs!Next, CreditsProofs!Register, creditVars

LEMMA PaidInKept ==
  ASSUME CreditsProofs!IInv, CreditsProofs!Next \/ UNCHANGED creditVars,
         NEW r, NEW s, PaidIn(r, s)
  PROVE  PaidIn(r, s)'
<1>1. PICK T : ledger \in Seq(T)
  BY DEF CreditsProofs!IInv, CreditsProofs!TypeOK
<1>2. \A k \in DOMAIN ledger : k \in DOMAIN ledger' /\ ledger'[k] = ledger[k]
  <2>1. CASE ledger' = ledger
    BY <2>1
  <2>2. ASSUME NEW e, ledger' = Append(ledger, e)
        PROVE  \A k \in DOMAIN ledger : k \in DOMAIN ledger' /\ ledger'[k] = ledger[k]
    BY <1>1, <2>2
  <2> QED
    BY <2>1, <2>2, LedgerGrows
<1> QED
  BY <1>2 DEF PaidIn, Credits!Entry

\* A request that is being served keeps its link.
LEMMA RequestKept ==
  ASSUME RegistryProofs!IInv, Next, NEW r \in Requests, stage[r] # "resolve"
  PROVE  req'[r] = req[r]
<1>1. req \in [Requests -> RegistryProofs!Resolution]
  BY DEF RegistryProofs!IInv, RegistryProofs!TypeOK
<1>2. ASSUME NEW q \in Requests, Handle(q) PROVE req'[r] = req[r]
  <2>1. CASE Resolve(q)
    <3>1. \E x : req' = [req EXCEPT ![q].pc = x]
      BY <2>1, Zenon DEF Resolve, Registry!Check
    <3> QED
      BY <1>1, <2>1, <3>1 DEF Resolve
  <2>2. CASE ~Resolve(q)
    BY <1>2, <2>2
    DEF Handle, RejectForm, CreateFile, SaveFails, Charge, TurnAway, Enqueue, registryVars
  <2> QED
    BY <2>1, <2>2
<1>3. ASSUME NEW q \in Requests, NEW tok, stage[q] = "resolve", Registry!Lookup(q, tok)
      PROVE  req'[r] = req[r]
  BY <1>1, <1>3 DEF Registry!Lookup
<1>4. CASE SessionStep
  BY <1>3, <1>4
  DEF SessionStep, Registry!ReadOld, Registry!Open, Registry!Stop, Registry!Reindex
<1>5. CASE CreditStep \/ Crash
  BY <1>5 DEF CreditStep, Crash, registryVars
<1> QED
  BY <1>2, <1>4, <1>5 DEF Next

\* Whatever step is made, a request keeps its link and its payment.
LEMMA Persists ==
  ASSUME IInv, Next, NEW r \in Requests, stage[r] # "resolve"
  PROVE  /\ req'[r] = req[r]
         /\ stage[r] \in {"paid", "queued"} /\ creditsEnabled =>
              charge'[r] = "paid" /\ PaidIn(r, req[r].tenant)'
<1>1. req'[r] = req[r]
  BY RequestKept DEF IInv
<1>2. ASSUME stage[r] \in {"paid", "queued"}, creditsEnabled
      PROVE  charge'[r] = "paid" /\ PaidIn(r, req[r].tenant)'
  <2>1. charge[r] = "paid" /\ PaidIn(r, req[r].tenant)
    BY <1>2 DEF IInv, FlowInv, Payments
  <2>2. CreditsProofs!IInv /\ (CreditsProofs!Next \/ UNCHANGED creditVars)
    BY CreditsMove DEF IInv
  <2>3. \A s : PaidIn(r, s) => PaidIn(r, s)'
    BY <2>2, PaidInKept
  <2>4. PaidIn(r, req[r].tenant)'
    BY <1>1, <2>1, <2>3 DEF PaidIn
  <2> QED
    BY <2>1, <2>2, <2>4, LedgerGrows
<1> QED
  BY <1>1, <1>2

\* The handler of r moves to another stage, short of the queue.
LEMMA StageStep ==
  ASSUME IInv, Next, NEW r \in Requests, NEW b \in Stages \ {"queued", "lost"},
         stage[r] # "queued", stage' = [stage EXCEPT ![r] = b],
         UNCHANGED <<queue, creditsEnabled>>,
         b \in Serving => req[r].pc = "admitted" /\ req'[r] = req[r],
         b = "paid" /\ creditsEnabled => charge'[r] = "paid" /\ PaidIn(r, req[r].tenant)',
         files' \subseteq Uploads, \A q \in Uploads \ {r} : q \in files' <=> q \in files,
         r \in Uploads => (r \in files' <=> b \in Serving)
  PROVE  FlowInv'
<1>1. FlowTypes /\ Admissions /\ Payments /\ Storage
  BY DEF IInv, FlowInv
<1>2. /\ stage'[r] = b
      /\ \A q \in Requests \ {r} : stage'[q] = stage[q]
  BY <1>1 DEF FlowTypes
<1>3. FlowTypes'
  BY <1>1 DEF FlowTypes
<1>4. \A q \in Requests \ {r} : stage[q] \in Serving => req'[q] = req[q]
  BY Persists DEF Serving
<1>5. Admissions'
  <2>1. \A q \in Requests : stage'[q] \in Serving => req'[q].pc = "admitted"
    BY <1>1, <1>2, <1>4 DEF Admissions
  <2>2. ASSUME NEW s \in Streamers, NEW q \in Requests
        PROVE  q \in queue'[s] <=> stage'[q] = "queued" /\ req'[q].tenant = s
    BY <1>1, <1>2, <1>4 DEF Admissions, Serving
  <2> QED
    BY <2>1, <2>2 DEF Admissions
<1>6. Payments'
  <2> SUFFICES ASSUME NEW q \in Requests, stage'[q] \in {"paid", "queued"}, creditsEnabled
               PROVE  charge'[q] = "paid" /\ PaidIn(q, req[q].tenant)' /\ req'[q].tenant = req[q].tenant
    BY DEF Payments, PaidIn
  <2>1. CASE q = r
    BY <1>2, <2>1 DEF Serving
  <2>2. CASE q # r
    BY <1>2, <2>2, Persists
  <2> QED
    BY <2>1, <2>2
<1>7. Storage'
  BY <1>1, <1>2 DEF Storage, Serving
<1> QED
  BY <1>3, <1>5, <1>6, <1>7 DEF FlowInv

LEMMA RejectFormKeeps ==
  ASSUME IInv, Next, NEW r \in Requests, RejectForm(r) PROVE FlowInv'
<1>1. stage[r] = "resolve" /\ stage' = [stage EXCEPT ![r] = "answered"]
      /\ UNCHANGED <<queue, creditsEnabled, files>>
  BY DEF RejectForm, Admitted
<1>2. files \subseteq Uploads /\ (r \in Uploads => r \notin files)
  BY <1>1 DEF IInv, FlowInv, FlowTypes, Storage, Serving
<1>3. "answered" \in Stages \ {"queued", "lost"} /\ "answered" \notin Serving \cup {"paid"}
  BY DEF Stages, Serving
<1> QED
  BY <1>1, <1>2, <1>3, StageStep

LEMMA CreateFileKeeps ==
  ASSUME IInv, Next, NEW r \in Requests, CreateFile(r) PROVE FlowInv'
<1>1. /\ stage[r] = "resolve" /\ stage' = [stage EXCEPT ![r] = "saving"]
      /\ req[r].pc = "admitted" /\ r \in Uploads /\ files' = files \cup {r}
      /\ UNCHANGED <<queue, creditsEnabled, req>>
  BY DEF CreateFile, Admitted, registryVars
<1>2. files \subseteq Uploads
  BY DEF IInv, FlowInv, FlowTypes
<1>3. "saving" \in Stages \ {"queued", "lost"} /\ "saving" \in Serving /\ "saving" # "paid"
  BY DEF Stages, Serving
<1> QED
  BY <1>1, <1>2, <1>3, StageStep

LEMMA FileRemoved ==
  ASSUME IInv, Next, NEW r \in Requests, SaveFails(r) \/ TurnAway(r) PROVE FlowInv'
<1>1. /\ stage[r] # "queued" /\ stage' = [stage EXCEPT ![r] = "answered"]
      /\ files' = files \ {r} /\ UNCHANGED <<queue, creditsEnabled>>
  BY DEF SaveFails, TurnAway
<1>2. files \subseteq Uploads
  BY DEF IInv, FlowInv, FlowTypes
<1>3. "answered" \in Stages \ {"queued", "lost"} /\ "answered" \notin Serving \cup {"paid"}
  BY DEF Stages, Serving
<1> QED
  BY <1>1, <1>2, <1>3, StageStep

\* A charge that is answered with "paid" left its entry in the ledger.
LEMMA SpentIsPaid ==
  ASSUME IInv, NEW r \in Requests, NEW s, Credits!SpendCredits(Sender[r], s, r), charge'[r] = "paid"
  PROVE  PaidIn(r, s)'
<1>1. charge \in [Requests -> {"none", "paid", "refused", "failed"}] /\ \E T : ledger \in Seq(T)
  BY DEF IInv, CreditsProofs!IInv, CreditsProofs!TypeOK
<1>2. ledger' = IF Price[r] = 0 THEN ledger
                ELSE Append(ledger, Credits!Entry(Sender[r], s, -Price[r], "submit", r))
  <2>1. CASE ledger' = IF Price[r] = 0 THEN ledger
                       ELSE Append(ledger, Credits!Entry(Sender[r], s, -Price[r], "submit", r))
    BY <2>1
  <2>2. CASE \/ charge' = [charge EXCEPT ![r] = "refused"]
             \/ charge' = [charge EXCEPT ![r] = "failed"]
    BY <1>1, <2>2
  <2> QED
    BY <2>1, <2>2, Zenon DEF Credits!SpendCredits
<1>3. CASE Price[r] = 0
  BY <1>3 DEF PaidIn
<1>4. CASE Price[r] # 0
  <2> DEFINE e == Credits!Entry(Sender[r], s, -Price[r], "submit", r)
  <2>1. ledger' = Append(ledger, e)
    BY <1>2, <1>4
  <2> HIDE DEF e
  <2>2. Len(ledger) + 1 \in DOMAIN ledger' /\ ledger'[Len(ledger) + 1] = e
    BY <1>1, <2>1
  <2>3. \E k \in DOMAIN ledger' : ledger'[k] = e
    BY <2>2
  <2> QED
    BY <2>3 DEF PaidIn, e, Credits!Entry
<1> QED
  BY <1>3, <1>4

LEMMA ChargeKeeps ==
  ASSUME IInv, Next, NEW r \in Requests, Charge(r) PROVE FlowInv'
<1>1. /\ req[r].pc = "admitted" /\ stage[r] \in {"resolve", "saving"}
      /\ r \in Uploads => stage[r] = "saving"
      /\ UNCHANGED <<creditsEnabled, req, files, queue>>
  BY ChargeAdmitted DEF Charge, ReadyToCharge, registryVars
<1>2. files \subseteq Uploads /\ (r \in Uploads => r \in files)
  BY <1>1 DEF IInv, FlowInv, FlowTypes, Storage, Serving
<1>3. PICK b \in {"paid", "unpaid"} :
        /\ stage' = [stage EXCEPT ![r] = b]
        /\ b = "paid" /\ creditsEnabled =>
             charge'[r] = "paid" /\ Credits!SpendCredits(Sender[r], req[r].tenant, r)
  BY DEF Charge
<1>4. b = "paid" /\ creditsEnabled => charge'[r] = "paid" /\ PaidIn(r, req[r].tenant)'
  <2> SUFFICES ASSUME b = "paid", creditsEnabled PROVE charge'[r] = "paid" /\ PaidIn(r, req[r].tenant)'
    OBVIOUS
  <2> DEFINE s == req[r].tenant
  <2>1. s' = s
    BY <1>1
  <2> HIDE DEF s
  <2>2. charge'[r] = "paid" /\ Credits!SpendCredits(Sender[r], s, r)
    BY <1>3 DEF s
  <2>3. \A x : Credits!SpendCredits(Sender[r], x, r) => PaidIn(r, x)'
    BY <2>2, SpentIsPaid
  <2> QED
    BY <2>1, <2>2, <2>3 DEF s, PaidIn
<1>5. b \in Stages \ {"queued", "lost"} /\ b \in Serving
  BY DEF Stages, Serving
<1> QED
  BY <1>1, <1>2, <1>3, <1>4, <1>5, StageStep

LEMMA EnqueueKeeps ==
  ASSUME IInv, Next, NEW r \in Requests, Enqueue(r) PROVE FlowInv'
<1>1. FlowTypes /\ Admissions /\ Payments /\ Storage
  BY DEF IInv, FlowInv
<1>2. /\ stage[r] = "paid" /\ stage' = [stage EXCEPT ![r] = "queued"]
      /\ queue' = [queue EXCEPT ![req[r].tenant] = queue[req[r].tenant] \cup {r}]
      /\ UNCHANGED <<creditsEnabled, req, charge, ledger, files>>
  BY DEF Enqueue, registryVars, creditVars
<1>3. /\ stage'[r] = "queued" /\ \A q \in Requests \ {r} : stage'[q] = stage[q]
      /\ \A s \in Streamers : queue'[s] = IF s = req[r].tenant THEN queue[s] \cup {r} ELSE queue[s]
  BY <1>1, <1>2 DEF FlowTypes
<1>4. FlowTypes'
  BY <1>1, <1>2, <1>3 DEF FlowTypes, Stages
<1>5. Admissions'
  BY <1>1, <1>2, <1>3 DEF Admissions, Serving
<1>6. Payments'
  <2>1. \A q, s : PaidIn(q, s) => PaidIn(q, s)'
    BY <1>2 DEF PaidIn, Credits!Entry
  <2>2. \A q \in Requests : stage'[q] \in {"paid", "queued"} => stage[q] \in {"paid", "queued"}
    BY <1>2, <1>3
  <2>3. ASSUME NEW q \in Requests, stage'[q] \in {"paid", "queued"}, creditsEnabled
        PROVE  charge'[q] = "paid" /\ PaidIn(q, req[q].tenant)'
    BY <1>1, <1>2, <2>1, <2>2, <2>3 DEF Payments, PaidIn
  <2> QED
    BY <1>2, <2>3 DEF Payments
<1>7. Storage'
  BY <1>1, <1>2, <1>3 DEF Storage, Serving
<1> QED
  BY <1>4, <1>5, <1>6, <1>7 DEF FlowInv

\* A crash empties the queues and loses the requests being served; files stay.
LEMMA CrashKeeps ==
  ASSUME IInv, Crash PROVE FlowInv'
<1>1. FlowTypes /\ Admissions /\ Payments /\ Storage
  BY DEF IInv, FlowInv
<1>2. /\ stage' = [r \in Requests |-> IF Begun(r) THEN "lost" ELSE stage[r]]
      /\ queue' = [s \in Streamers |-> {}]
      /\ UNCHANGED <<creditsEnabled, files, req>>
  BY DEF Crash
<1>3. \A r \in Requests : stage[r] \in Serving => stage'[r] = "lost"
  BY <1>1, <1>2 DEF Admissions, Begun, Serving
<1>4. \A r \in Requests : stage'[r] \in {stage[r], "lost"} /\ stage'[r] \notin Serving
  BY <1>2, <1>3 DEF Serving
<1>5. FlowTypes'
  BY <1>1, <1>2, <1>4 DEF FlowTypes, Stages
<1>6. Admissions' /\ Payments'
  BY <1>2, <1>4 DEF Admissions, Payments, Serving
<1>7. Storage'
  BY <1>1, <1>2, <1>3, <1>4, SubmitAssumption DEF Storage
<1> QED
  BY <1>5, <1>6, <1>7 DEF FlowInv

\* Session controls, lookups and cheers leave the flow alone.
LEMMA QuietKeeps ==
  ASSUME IInv, Next, UNCHANGED <<creditsEnabled, stage, files, queue>> PROVE FlowInv'
<1>1. FlowTypes /\ Admissions /\ Payments /\ Storage
  BY DEF IInv, FlowInv
<1>2. FlowTypes' /\ Storage'
  BY <1>1 DEF FlowTypes, Storage
<1>3. \A r \in Requests : stage[r] \in Serving => req'[r] = req[r]
  BY Persists DEF Serving
<1>4. Admissions'
  BY <1>1, <1>3 DEF Admissions, Serving
<1>5. Payments'
  <2> SUFFICES ASSUME NEW r \in Requests, stage[r] \in {"paid", "queued"}, creditsEnabled
               PROVE  charge'[r] = "paid" /\ PaidIn(r, req[r].tenant)' /\ req'[r].tenant = req[r].tenant
    BY DEF Payments, PaidIn
  <2> QED
    BY Persists
<1> QED
  BY <1>2, <1>4, <1>5 DEF FlowInv

-----------------------------------------------------------------------------
LEMMA InitIInv == Init => IInv
<1> SUFFICES ASSUME Init PROVE IInv
  OBVIOUS
<1>1. RegistryProofs!IInv
  BY RegistryAssumed, RegistryAgrees, RegistryProofs!InitIInv DEF Init
<1>2. CreditsProofs!IInv
  BY CreditsAssumed, CreditsAgree, CreditsProofs!InitIInv DEF Init
<1>3. FlowInv
  <2>1. /\ creditsEnabled \in BOOLEAN /\ stage = [r \in Requests |-> "resolve"]
        /\ files = {} /\ queue = [s \in Streamers |-> {}]
    BY DEF Init
  <2>2. FlowTypes
    BY <2>1 DEF FlowTypes, Stages
  <2>3. Admissions /\ Payments /\ Storage
    BY <2>1, SubmitAssumption DEF Admissions, Payments, Storage, Serving
  <2> QED
    BY <2>2, <2>3 DEF FlowInv
<1> QED
  BY <1>1, <1>2, <1>3 DEF IInv

LEMMA NextKeeps == IInv /\ [Next]_vars => IInv'
<1>1. ASSUME IInv, Next PROVE IInv'
  <2>1. RegistryProofs!IInv'
    BY <1>1, RegistryMoves, RegistryKept DEF IInv
  <2>2. CreditsProofs!IInv'
    BY <1>1, CreditsMove, CreditsKept DEF IInv
  <2>3. ASSUME NEW r \in Requests, Handle(r) PROVE FlowInv'
    <3>1. CASE Resolve(r)
      BY <1>1, <3>1, QuietKeeps DEF Resolve
    <3> QED
      BY <1>1, <2>3, <3>1, RejectFormKeeps, CreateFileKeeps, FileRemoved, ChargeKeeps, EnqueueKeeps
      DEF Handle
  <2>4. ASSUME SessionStep \/ CreditStep PROVE FlowInv'
    BY <1>1, <2>4, QuietKeeps DEF SessionStep, CreditStep
  <2>5. FlowInv'
    BY <1>1, <2>3, <2>4, CrashKeeps DEF Next
  <2> QED
    BY <2>1, <2>2, <2>5 DEF IInv
<1>2. ASSUME IInv, UNCHANGED vars PROVE IInv'
  <2>1. UNCHANGED <<registryVars, creditVars, creditsEnabled, stage, files, queue>>
    BY <1>2 DEF vars
  <2>2. RegistryProofs!IInv' /\ CreditsProofs!IInv'
    BY <1>2, <2>1, RegistryKept, CreditsKept DEF IInv
  <2>3. FlowInv'
    <3>1. FlowTypes' /\ Storage'
      BY <1>2, <2>1 DEF IInv, FlowInv, FlowTypes, Storage
    <3>2. Admissions' /\ Payments'
      BY <1>2, <2>1
      DEF IInv, FlowInv, Admissions, Payments, PaidIn, Credits!Entry, registryVars, creditVars
    <3> QED
      BY <3>1, <3>2 DEF FlowInv
  <2> QED
    BY <2>2, <2>3 DEF IInv
<1> QED
  BY <1>1, <1>2

-----------------------------------------------------------------------------
\* Theorems.

\* The registry, the credits and the handlers stay in agreement.
THEOREM Invariance == Spec => []IInv
BY InitIInv, NextKeeps, PTL DEF Spec

\* A clip is only ever in the queue of the channel that gave out its link, and
\* with credits enabled its viewer paid for it there (store.go:122).
THEOREM PaidWhereQueued == Spec => []QueuedWherePaid
<1>1. IInv => QueuedWherePaid
  <2> SUFFICES ASSUME IInv, NEW s \in Streamers, NEW r \in queue[s]
               PROVE  /\ minter[req[r].tok] = s
                      /\ creditsEnabled => charge[r] = "paid" /\ PaidIn(r, s)
    BY DEF QueuedWherePaid
  <2>1. r \in Requests /\ stage[r] = "queued" /\ req[r].tenant = s /\ req[r].pc = "admitted"
    BY DEF IInv, FlowInv, FlowTypes, Admissions, Serving
  <2>2. minter[req[r].tok] = s
    BY <2>1, AdmittedHolds DEF IInv
  <2>3. creditsEnabled => charge[r] = "paid" /\ PaidIn(r, s)
    BY <2>1 DEF IInv, FlowInv, Payments
  <2> QED
    BY <2>2, <2>3
<1> QED
  BY <1>1, Invariance, PTL

\* A link that was dead when a request arrived puts nothing in a queue, whatever
\* was opened, stopped or lost since (session.go:3).
THEOREM DeadLinksQueueNothing == Spec => []OpenWhenItArrived
<1>1. IInv => OpenWhenItArrived
  <2> SUFFICES ASSUME IInv, NEW s \in Streamers, NEW r \in queue[s] PROVE ~req[r].late
    BY DEF OpenWhenItArrived
  <2>1. r \in Requests /\ req[r].pc = "admitted"
    BY DEF IInv, FlowInv, FlowTypes, Admissions, Serving
  <2> QED
    BY <2>1, AdmittedHolds DEF IInv
<1> QED
  BY <1>1, Invariance, PTL

\* A queued upload has its file, and a file without a clip in a queue belongs to a
\* request under way or one that a crash cut off (handlers_submit.go:173).
THEOREM FilesKept == Spec => []FilesMatchQueues
<1>1. IInv => FilesMatchQueues
  <2> SUFFICES ASSUME IInv, NEW r \in Uploads
               PROVE  /\ (\E s \in Streamers : r \in queue[s]) => r \in files
                      /\ r \in files => \/ stage[r] \in {"saving", "paid", "unpaid", "lost"}
                                        \/ \E s \in Streamers : r \in queue[s]
    BY DEF FilesMatchQueues
  <2>1. r \in Requests
    BY SubmitAssumption
  <2>2. (\E s \in Streamers : r \in queue[s]) <=> stage[r] = "queued"
    <3>1. stage[r] = "queued" => req[r].tenant \in Streamers
      BY <2>1, AdmittedHolds DEF IInv, FlowInv, Admissions, Serving
    <3> QED
      BY <2>1, <3>1 DEF IInv, FlowInv, Admissions
  <2> QED
    BY <2>2 DEF IInv, FlowInv, Storage, Serving
<1> QED
  BY <1>1, Invariance, PTL

-----------------------------------------------------------------------------
\* Sessions, files and crashes do not disturb the accounts: the composition is an
\* implementation of Credits, and what is proved of credits holds in it.
THEOREM CreditsUndisturbed == Spec => Credits!Spec /\ []Credits!NeverNegative /\ []Credits!OneEntryEach
<1>1. Init => Credits!Init
  BY DEF Init
<1>2. IInv /\ [Next]_vars => [Credits!Next]_(Credits!vars)
  BY CreditsMove DEF vars, creditVars, Credits!vars
<1>3. IInv => Credits!NeverNegative /\ Credits!OneEntryEach
  <2>1. IInv => CreditsProofs!NeverNegative /\ CreditsProofs!OneEntryEach
    BY DEF IInv, CreditsProofs!IInv
  <2>2. CreditsProofs!NeverNegative = Credits!NeverNegative
    BY DEF CreditsProofs!NeverNegative, Credits!NeverNegative
  <2>3. CreditsProofs!OneEntryEach = Credits!OneEntryEach
    BY Zenon
    DEF CreditsProofs!OneEntryEach, Credits!OneEntryEach, CreditsProofs!CheeredOnce, Credits!CheeredOnce,
        CreditsProofs!ChargedOnce, Credits!ChargedOnce, CreditsProofs!EntriesOf, Credits!EntriesOf,
        CreditsProofs!Entry, Credits!Entry
  <2> QED
    BY <2>1, <2>2, <2>3
<1> QED
  BY <1>1, <1>2, <1>3, Invariance, PTL DEF Spec, Credits!Spec
=============================================================================
