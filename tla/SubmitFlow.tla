----------------------------- MODULE SubmitFlow -----------------------------
(***************************************************************************)
(* A viewer's submission from invite link to queue                         *)
(* (internal/server/handlers_submit.go), between the session registry in   *)
(* memory, the credits in the database, the media directory on disk and    *)
(* the queues in memory.                                                   *)
(*                                                                         *)
(* Each request is served by a goroutine of its own, and each of its calls *)
(* into another component is a step: resolve the link (two steps of        *)
(* SessionRegistry), create the file, finish it, charge, and queue the     *)
(* clip.  Session controls, cheers, other requests and a crash of the      *)
(* server come between any two of them.                                    *)
(***************************************************************************)
EXTENDS Integers, Sequences

CONSTANTS
  \* of SessionRegistry
  Streamers, Controllers, Requests, Tokens, NoToken, NoStreamer,
  \* of Credits; the items are named by the request that submits them
  Viewers, Messages, Price, Cheer, Anonymous, DbFaults,
  Sender,         \* the viewer logged in on each request
  Uploads,        \* the requests that upload a file; the others name a video
  MaxCrashes      \* bound: how often the server crashes

ASSUME SubmitAssumption ==
  /\ Sender \in [Requests -> Viewers]
  /\ Uploads \subseteq Requests
  /\ MaxCrashes \in Nat

\* What the two parts assume of their own constants.
ASSUME PartsAssumption ==
  /\ NoToken \notin Tokens
  /\ NoStreamer \notin Streamers
  /\ Anonymous \notin Viewers
  /\ Cheer \in [Messages -> [viewer : Viewers \cup {Anonymous}, streamer : Streamers, bits : Int]]
  /\ Price \in [Requests -> Nat]
  /\ DbFaults \in BOOLEAN

VARIABLES
  active, token, byToken, ctl, req, minter, revoked, overlapped,  \* SessionRegistry
  streamers, balance, events, ledger, charge, wire,   \* Credits
  creditsEnabled,  \* configuration: read at start, constant from then on
  stage,    \* where the handler of each request is, once its link is admitted
  files,    \* the uploads that have a file in the media directory
  queue,    \* the items each channel's queue took in
  crashes   \* bound

registryVars == <<active, token, byToken, ctl, req, minter, revoked, overlapped>>
creditVars == <<streamers, balance, events, ledger, charge, wire>>
vars == <<registryVars, creditVars, creditsEnabled, stage, files, queue, crashes>>

Registry == INSTANCE SessionRegistry
\* Every channel's owner has logged in; development grants are left out.
Credits == INSTANCE Credits WITH
  Items <- Requests, FirstStreamers <- Streamers, Amounts <- {}, MaxGrants <- 0

-----------------------------------------------------------------------------
\* The handler of request r.

Admitted(r) == req[r].pc = "admitted" /\ stage[r] = "resolve"

\* ResolveSession: a refused link is answered 403 and the request is over.
Resolve(r) ==
  /\ stage[r] = "resolve"
  /\ Registry!Check(r)
  /\ UNCHANGED <<creditsEnabled, creditVars, stage, files, queue, crashes>>

\* A bad form, address, size or file type, found before anything is stored.
RejectForm(r) ==
  /\ Admitted(r)
  /\ stage' = [stage EXCEPT ![r] = "answered"]
  /\ UNCHANGED <<creditsEnabled, registryVars, creditVars, files, queue, crashes>>

\* submitUpload: os.Create.
CreateFile(r) ==
  /\ r \in Uploads /\ Admitted(r)
  /\ stage' = [stage EXCEPT ![r] = "saving"]
  /\ files' = files \cup {r}
  /\ UNCHANGED <<creditsEnabled, registryVars, creditVars, queue, crashes>>

\* submitUpload: the copy failed or is too large; the file is removed.
SaveFails(r) ==
  /\ stage[r] = "saving"
  /\ stage' = [stage EXCEPT ![r] = "answered"]
  /\ files' = files \ {r}
  /\ UNCHANGED <<creditsEnabled, registryVars, creditVars, queue, crashes>>

ReadyToCharge(r) == IF r \in Uploads THEN stage[r] = "saving" ELSE Admitted(r)

\* Plausible bug: chargeSubmit looks at err and forgets ok.
ChargeIgnoresRefusal(r) ==
  /\ ReadyToCharge(r)
  /\ Credits!SpendCredits(Sender[r], req[r].tenant, r)
  /\ stage' = [stage EXCEPT ![r] = IF charge'[r] = "failed" THEN "unpaid" ELSE "paid"]
  /\ UNCHANGED <<creditsEnabled, registryVars, files, queue, crashes>>

\* chargeSubmit: pay, unless credits are disabled.
Charge(r) ==
  /\ ReadyToCharge(r)
  /\ \/ /\ creditsEnabled
        /\ Credits!SpendCredits(Sender[r], req[r].tenant, r)
        /\ stage' = [stage EXCEPT ![r] = IF charge'[r] = "paid" THEN "paid" ELSE "unpaid"]
     \/ /\ ~creditsEnabled
        /\ stage' = [stage EXCEPT ![r] = "paid"]
        /\ UNCHANGED creditVars
  /\ UNCHANGED <<creditsEnabled, registryVars, files, queue, crashes>>

\* The answer to a clip that was not paid for; the file is removed.
TurnAway(r) ==
  /\ stage[r] = "unpaid"
  /\ stage' = [stage EXCEPT ![r] = "answered"]
  /\ files' = files \ {r}
  /\ UNCHANGED <<creditsEnabled, registryVars, creditVars, queue, crashes>>

\* Plausible bug: the file is removed by a defer, on success too.
EnqueueRemovesFile(r) ==
  /\ stage[r] = "paid"
  /\ stage' = [stage EXCEPT ![r] = "queued"]
  /\ queue' = [queue EXCEPT ![req[r].tenant] = @ \cup {r}]
  /\ files' = files \ {r}
  /\ UNCHANGED <<creditsEnabled, registryVars, creditVars, crashes>>

\* Plausible bug: the session is checked again, after the charge.
EnqueueIfOpen(r) ==
  /\ stage[r] = "paid"
  /\ IF active[req[r].tenant]
     THEN /\ stage' = [stage EXCEPT ![r] = "queued"]
          /\ queue' = [queue EXCEPT ![req[r].tenant] = @ \cup {r}]
     ELSE stage' = [stage EXCEPT ![r] = "answered"] /\ UNCHANGED queue
  /\ UNCHANGED <<creditsEnabled, registryVars, creditVars, files, crashes>>

\* t.Queue.Submit(item), and the answer.
Enqueue(r) ==
  /\ stage[r] = "paid"
  /\ stage' = [stage EXCEPT ![r] = "queued"]
  /\ queue' = [queue EXCEPT ![req[r].tenant] = @ \cup {r}]
  /\ UNCHANGED <<creditsEnabled, registryVars, creditVars, files, crashes>>

-----------------------------------------------------------------------------
\* The rest of the system.

\* Session controls, and viewers opening links that were given out.
SessionStep ==
  /\ \/ \E c \in Controllers, s \in Streamers, op \in {"open", "stop"} : Registry!ReadOld(c, s, op)
     \/ \E c \in Controllers : Registry!Open(c) \/ Registry!Stop(c) \/ Registry!Reindex(c)
     \/ \E r \in Requests, tok \in Registry!Minted : stage[r] = "resolve" /\ Registry!Lookup(r, tok)
  /\ UNCHANGED <<creditsEnabled, creditVars, stage, files, queue, crashes>>

\* Cheers coming in.
CreditStep ==
  /\ Credits!Webhook
  /\ UNCHANGED <<creditsEnabled, registryVars, stage, files, queue, crashes>>

Begun(r) == req[r].pc \in {"found", "admitted"} /\ stage[r] # "answered"

\* The server dies and starts again: sessions, index, queues and the requests
\* being served are gone, the database and the media directory stay.
Crash ==
  /\ crashes < MaxCrashes
  /\ crashes' = crashes + 1
  /\ active' = [s \in Streamers |-> FALSE]
  /\ token' = [s \in Streamers |-> NoToken]
  /\ byToken' = [t \in Tokens |-> NoStreamer]
  /\ ctl' = [c \in Controllers |-> Registry!Idle]
  /\ revoked' = revoked \cup ({token[s] : s \in Streamers} \ {NoToken})
  /\ stage' = [r \in Requests |-> IF Begun(r) THEN "lost" ELSE stage[r]]
  /\ queue' = [s \in Streamers |-> {}]
  /\ UNCHANGED <<creditsEnabled, creditVars, req, minter, overlapped, files>>

-----------------------------------------------------------------------------
Init ==
  /\ Registry!Init
  /\ Credits!Init
  /\ creditsEnabled \in BOOLEAN
  /\ stage = [r \in Requests |-> "resolve"]
  /\ files = {}
  /\ queue = [s \in Streamers |-> {}]
  /\ crashes = 0

Handle(r) ==
  \/ Resolve(r)
  \/ RejectForm(r)
  \/ CreateFile(r)
  \/ SaveFails(r)
  \/ Charge(r)
  \/ TurnAway(r)
  \/ Enqueue(r)

Next ==
  \/ \E r \in Requests : Handle(r)
  \/ SessionStep
  \/ CreditStep
  \/ Crash

Spec == Init /\ [][Next]_vars

\* A goroutine that is serving a request keeps running until it answers.
FairSpec == Spec /\ \A r \in Requests : WF_vars(Handle(r))

-----------------------------------------------------------------------------
\* Properties.

PaidIn(r, s) ==
  \/ Price[r] = 0
  \/ \E k \in DOMAIN ledger :
       ledger[k] = Credits!Entry(Sender[r], s, -Price[r], "submit", r)

\* "Bits cheered in A's channel are only spendable in A's queue" (store.go:122):
\* a clip is only ever in the queue of the channel that gave out the link it came
\* by, and the viewer who sent it paid for it there.
QueuedWherePaid ==
  \A s \in Streamers : \A r \in queue[s] :
    /\ minter[req[r].tok] = s
    /\ creditsEnabled => charge[r] = "paid" /\ PaidIn(r, s)

\* "stops it when done -- after which the invite link and any submissions are
\* rejected" (session.go:3): a clip in a queue came by a link that was still good
\* when its request arrived; a link that was replaced, stopped or lost in a crash
\* before that puts nothing in a queue.  (A session that closes while a request is
\* being served does not stop it.)
OpenWhenItArrived == \A s \in Streamers : \A r \in queue[s] : ~req[r].late

\* The media directory holds the file of every queued upload, and nothing else
\* but files being written and those of requests and queues lost in a crash.
FilesMatchQueues ==
  \A r \in Uploads :
    /\ (\E s \in Streamers : r \in queue[s]) => r \in files
    /\ r \in files => \/ stage[r] \in {"saving", "paid", "unpaid", "lost"}
                      \/ \E s \in Streamers : r \in queue[s]

\* A clip that was paid for is queued, however the sessions change meanwhile;
\* only a crash takes it away.
PaidIsQueued ==
  \A r \in Requests :
    charge[r] = "paid" ~> (stage[r] = "lost" \/ \E s \in Streamers : r \in queue[s])
=============================================================================
