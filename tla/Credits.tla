------------------------------- MODULE Credits -------------------------------
(***************************************************************************)
(* Credits: the transactions of internal/store/store.go over the tables    *)
(* streamers, credit_balances, bits_events and credit_ledger, and the      *)
(* EventSub webhook that turns cheers into them                            *)
(* (internal/server/handlers_eventsub.go).                                 *)
(*                                                                         *)
(* The store has one connection, so transactions run one after the other   *)
(* and each is one action.  All of it is on disk: a crash of the server    *)
(* loses nothing here but a response, which NotifyTwitch models.  Twitch   *)
(* redelivers a message until it sees a response, and may repeat one.      *)
(***************************************************************************)
EXTENDS Integers, Sequences

CONSTANTS
  Viewers, Streamers,
  Messages,       \* EventSub message ids
  Items,          \* queue item ids, the ref of a spend
  Price,          \* what chargeSubmit asks for each item
  Cheer,          \* what each message says: viewer, streamer and bits
  Anonymous,      \* the absent user id of an anonymous cheer
  Amounts,        \* what a development grant may be
  FirstStreamers, \* the streamers that have logged in when the model starts
  DbFaults,       \* whether a transaction may fail and roll back
  MaxGrants       \* bound: how many development grants are made

ASSUME CreditsAssumption ==
  /\ Anonymous \notin Viewers
  /\ Cheer \in [Messages -> [viewer : Viewers \cup {Anonymous}, streamer : Streamers, bits : Int]]
  /\ Price \in [Items -> Nat]
  /\ Amounts \subseteq Nat \ {0}
  /\ FirstStreamers \subseteq Streamers
  /\ DbFaults \in BOOLEAN

VARIABLES
  streamers,  \* rows of streamers, which credit_balances refers to
  balance,    \* credit_balances: a function on the pairs that have a row
  events,     \* bits_events: the message ids processed
  ledger,     \* credit_ledger, in order
  charge,     \* what SpendCredits returned for each item
  wire        \* Twitch's side of each message

vars == <<streamers, balance, events, ledger, charge, wire>>

\* The credits a pair holds; 0 without a row (Store.Balance).
Held(v, s) == IF <<v, s>> \in DOMAIN balance THEN balance[<<v, s>>] ELSE 0

\* INSERT .. ON CONFLICT DO UPDATE SET credits = credits + delta.
Upserted(v, s, delta) ==
  [a \in DOMAIN balance \cup {<<v, s>>} |->
     IF a = <<v, s>> THEN Held(v, s) + delta ELSE balance[a]]

Entry(v, s, delta, reason, ref) ==
  [viewer |-> v, streamer |-> s, delta |-> delta, reason |-> reason, ref |-> ref]

-----------------------------------------------------------------------------
\* Transactions.

\* A streamer's first login inserts the row of UpsertStreamer.
Register(s) ==
  /\ streamers' = streamers \cup {s}
  /\ UNCHANGED <<balance, events, ledger, charge, wire>>

\* Plausible bug: the credit is committed without its ledger entry.
CreditUnledgered(m) ==
  LET c == Cheer[m]
  IN /\ balance' = Upserted(c.viewer, c.streamer, c.bits)
     /\ events' = events \cup {m}
     /\ UNCHANGED ledger

\* Plausible bug: the dedup insert is not in the transaction, and is lost.
CreditNotDeduped(m) ==
  LET c == Cheer[m]
  IN /\ balance' = Upserted(c.viewer, c.streamer, c.bits)
     /\ ledger' = Append(ledger, Entry(c.viewer, c.streamer, c.bits, "cheer", m))
     /\ UNCHANGED events

\* The writes of a CreditBits that commits.
CreditBits(m) ==
  LET c == Cheer[m]
  IN /\ balance' = Upserted(c.viewer, c.streamer, c.bits)
     /\ events' = events \cup {m}
     /\ ledger' = Append(ledger, Entry(c.viewer, c.streamer, c.bits, "cheer", m))

\* Plausible bug: the balance is read and written without the condition.
SpendUnchecked(v, s, i) ==
  /\ charge[i] = "none"
  /\ IF <<v, s>> \in DOMAIN balance
     THEN /\ balance' = Upserted(v, s, -Price[i])
          /\ ledger' = IF Price[i] = 0 THEN ledger
                       ELSE Append(ledger, Entry(v, s, -Price[i], "submit", i))
          /\ charge' = [charge EXCEPT ![i] = "paid"]
     ELSE /\ charge' = [charge EXCEPT ![i] = "refused"]
          /\ UNCHANGED <<balance, ledger>>
  /\ UNCHANGED <<streamers, events, wire>>

\* SpendCredits: one conditional UPDATE.  Without a row even a free clip is
\* refused, and a free clip leaves no ledger entry.
SpendCredits(v, s, i) ==
  /\ charge[i] = "none"
  /\ \/ /\ <<v, s>> \in DOMAIN balance /\ balance[<<v, s>>] >= Price[i]
        /\ balance' = Upserted(v, s, -Price[i])
        /\ ledger' = IF Price[i] = 0 THEN ledger
                     ELSE Append(ledger, Entry(v, s, -Price[i], "submit", i))
        /\ charge' = [charge EXCEPT ![i] = "paid"]
     \/ /\ ~(<<v, s>> \in DOMAIN balance /\ balance[<<v, s>>] >= Price[i])
        /\ charge' = [charge EXCEPT ![i] = "refused"]
        /\ UNCHANGED <<balance, ledger>>
     \/ /\ DbFaults
        /\ charge' = [charge EXCEPT ![i] = "failed"]
        /\ UNCHANGED <<balance, ledger>>
  /\ UNCHANGED <<streamers, events, wire>>

Grants == SelectSeq(ledger, LAMBDA e : e.reason = "dev_grant")

\* GrantCredits; a foreign key refuses it for a streamer without a row.
GrantCredits(v, s, amount) ==
  /\ s \in streamers
  /\ Len(Grants) < MaxGrants
  /\ balance' = Upserted(v, s, amount)
  /\ ledger' = Append(ledger, Entry(v, s, amount, "dev_grant", ""))
  /\ UNCHANGED <<streamers, events, charge, wire>>

-----------------------------------------------------------------------------
\* The webhook.

Creditable(m) == Cheer[m].viewer # Anonymous /\ Cheer[m].bits > 0

\* Plausible bug: foreign keys are not enforced.
HandleCheerNoForeignKey(m) ==
  \/ /\ ~Creditable(m) \/ m \in events \/ DbFaults
     /\ UNCHANGED <<balance, events, ledger>>
  \/ Creditable(m) /\ m \notin events /\ CreditBits(m)

\* handleCheerNotification: nothing to credit, already credited, a failed
\* transaction (no streamer row, or a fault of the database), or a credit.
HandleCheer(m) ==
  \/ /\ ~Creditable(m) \/ m \in events
     /\ UNCHANGED <<balance, events, ledger>>
  \/ /\ Creditable(m) /\ m \notin events
     /\ Cheer[m].streamer \notin streamers \/ DbFaults
     /\ UNCHANGED <<balance, events, ledger>>
  \/ /\ Creditable(m) /\ m \notin events
     /\ Cheer[m].streamer \in streamers
     /\ CreditBits(m)

\* Someone cheers; Twitch starts delivering the notification.
CheerSent(m) ==
  /\ wire[m] = "unsent"
  /\ wire' = [wire EXCEPT ![m] = "sent"]
  /\ UNCHANGED <<streamers, balance, events, ledger, charge>>

\* handleEventSub on a fresh, signed notification: it answers 200 whatever
\* handleCheerNotification did.  The answer reaches Twitch or is lost.
NotifyTwitch(m) ==
  /\ wire[m] \in {"sent", "acked"}
  /\ HandleCheer(m)
  /\ \/ wire' = [wire EXCEPT ![m] = "acked"]
     \/ UNCHANGED wire
  /\ UNCHANGED <<streamers, charge>>

\* The message outlives the replay window of ten minutes: from now on it is
\* answered 403 and nothing else happens.
Expire(m) ==
  /\ wire[m] = "sent"
  /\ wire' = [wire EXCEPT ![m] = "expired"]
  /\ UNCHANGED <<streamers, balance, events, ledger, charge>>

-----------------------------------------------------------------------------
Init ==
  /\ streamers = FirstStreamers
  /\ balance = << >>
  /\ events = {}
  /\ ledger = << >>
  /\ charge = [i \in Items |-> "none"]
  /\ wire = [m \in Messages |-> "unsent"]

Webhook ==
  \/ \E m \in Messages : CheerSent(m)
  \/ \E m \in Messages : NotifyTwitch(m)
  \/ \E m \in Messages : Expire(m)

Next ==
  \/ \E s \in Streamers \ streamers : Register(s)
  \/ \E v \in Viewers, s \in Streamers, i \in Items : SpendCredits(v, s, i)
  \/ \E v \in Viewers, s \in Streamers, amount \in Amounts : GrantCredits(v, s, amount)
  \/ Webhook

Spec == Init /\ [][Next]_vars

-----------------------------------------------------------------------------
\* Properties.

Pairs == Viewers \X Streamers

Reasons == {"cheer", "submit", "dev_grant"}

\* Types; a row of credit_balances belongs to a streamer that has a row.
TypeOK ==
  /\ streamers \subseteq Streamers
  /\ DOMAIN balance \subseteq Viewers \X streamers
  /\ \A a \in DOMAIN balance : balance[a] \in Int
  /\ events \subseteq Messages
  /\ ledger \in Seq([viewer : Viewers, streamer : Streamers, delta : Int,
                     reason : Reasons, ref : Items \cup Messages \cup {""}])
  /\ charge \in [Items -> {"none", "paid", "refused", "failed"}]
  /\ wire \in [Messages -> {"unsent", "sent", "acked", "expired"}]

\* "credits INTEGER NOT NULL DEFAULT 0, -- never negative" (store.go:126),
\* whatever cheers, grants and charges come between two charges.
NeverNegative == \A a \in DOMAIN balance : balance[a] >= 0

Share(e, v, s) == IF e.viewer = v /\ e.streamer = s THEN e.delta ELSE 0

\* What the entries of a sequence add up to for a viewer and a channel.
SumOf(entries, v, s) ==
  LET sum[n \in 0 .. Len(entries)] == IF n = 0 THEN 0 ELSE sum[n - 1] + Share(entries[n], v, s)
  IN sum[Len(entries)]

\* "Append-only audit trail of every balance change" (store.go:138): the entries
\* of a viewer and a channel add up to the balance.
BalanceMatchesLedger == \A v \in Viewers, s \in Streamers : Held(v, s) = SumOf(ledger, v, s)

EntriesOf(reason, ref) == {k \in DOMAIN ledger : ledger[k].reason = reason /\ ledger[k].ref = ref}

CheeredOnce(m) ==
  /\ m \in events <=> EntriesOf("cheer", m) # {}
  /\ \A k \in EntriesOf("cheer", m) :
       ledger[k] = Entry(Cheer[m].viewer, Cheer[m].streamer, Cheer[m].bits, "cheer", m)
  /\ \A k, l \in EntriesOf("cheer", m) : k = l

ChargedOnce(i) ==
  /\ (charge[i] = "paid" /\ Price[i] > 0) <=> EntriesOf("submit", i) # {}
  /\ \A k \in EntriesOf("submit", i) : ledger[k].delta = -Price[i]
  /\ \A k, l \in EntriesOf("submit", i) : k = l

\* A message redelivered any number of times leaves one ledger entry, of its
\* bits to its viewer, when it was credited and none when it was not; a clip
\* leaves one exactly when it was paid for and not free.
OneEntryEach ==
  /\ \A m \in Messages : CheeredOnce(m)
  /\ \A i \in Items : ChargedOnce(i)

\* The transactions implement the accounts they promise.
Accounts == INSTANCE ChannelAccounts WITH
  Accounts <- Pairs,
  Account <- [m \in Messages |-> <<Cheer[m].viewer, Cheer[m].streamer>>],
  Bits <- [m \in Messages |-> Cheer[m].bits],
  purse <- [a \in Pairs |-> Held(a[1], a[2])],
  credited <- events,
  paid <- {i \in Items : charge[i] = "paid"}

ImplementsAccounts == Accounts!Spec

\* A cheer is not lost: once Twitch has its answer and will not send it again,
\* it was credited, if there was anything to credit.
AckedCheerIsCredited ==
  \A m \in Messages : wire[m] = "acked" /\ Creditable(m) => m \in events
=============================================================================
