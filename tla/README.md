# A TLA+ model of media-share

media-share is a Go server through which the viewers of a Twitch channel submit clips,
uploaded or from YouTube, that play on the channel's stream. This directory holds
specifications of its core and of the pages around it, the TLC configurations that check
them on small instances, and proofs, checked by TLAPS, of the properties that hold for
instances of any size. `PROJECT.json` lists the runs, which source lines every
definition stands for, one mutation of the code that each property catches, and the
hazards that the properties are for.

To check a run: `tlc -config MCMediaQueue.cfg MCMediaQueue`. To check proofs: `tlapm
MediaQueueProofs.tla`.

## 1. The system

A *tenant* is one channel: its queue and its submission session, both in memory. The
accounts, credits, login sessions and moderator links of all tenants are in one SQLite
database with one connection (`store.Open` calls `SetMaxOpenConns(1)`), so its
statements and transactions run one at a time. HTTP requests are goroutines. One hub
sends the changes of a tenant to the WebSocket clients in its room.

| Component (source under `src/`) | State | Operations |
| --- | --- | --- |
| Playback queue (`internal/queue/queue.go`) | `pending`, `queue`, `nowPlaying`, `paused`, `bypass`, each item's status; behind a mutex | Submit, Approve, Reject, RemoveQueued, Ended, Skip, SetPaused, Clear, SetBypass |
| Submission sessions (`internal/session/session.go`) and link index (`internal/tenant/registry.go`) | `active`, `token` per tenant; `byToken` of the registry; a mutex each | Start, Regenerate, Stop, ResolveSession |
| Credits (`internal/store/store.go`) and the EventSub webhook (`internal/server/handlers_eventsub.go`) | `credit_balances`, `bits_events`, `credit_ledger` | CreditBits, SpendCredits, GrantCredits, a notification's delivery |
| Submission (`internal/server/handlers_submit.go`) | the request; the media directory | resolve the link, save the file, charge, queue |
| Live updates (`internal/hub/hub.go`, wired in `registry.go` and `server.go`) | `clients`, each client's bounded send channel, two pump goroutines per client | BroadcastTo, ServeWS, remove, writePump, readPump |
| Moderators and login sessions (`internal/auth/auth.go`, `handlers_moderators.go`, `handlers_auth.go`, `store.go`) | `moderator_links`, `auth_sessions`, `viewer_sessions`, cookies | claim a link, regenerate, revoke, admit, log out, expire |
| Login with Twitch (`internal/auth/auth.go`, `internal/oauth/oauth.go`) | pending OAuth states, in memory | start, callback, exchange, create the session |
| Accounts (`store.go`) | `streamers` with the player key, `viewers` | UpsertStreamer, UpsertViewer |
| Player page (`web/static/player.js`, `handlers_player.go`) | the item on screen, its timer, a YouTube player and a video element, the last id reported | apply a snapshot, arm and pause the timer, report an end, reconnect |
| Submit page (`web/static/submit.js`), pricing and links (`handlers_submit.go`, `queue/youtube.go`) | the card shown, the form, the cost shown | type, toggle, submit, poll; clamp, price, parse |
| Admin page (`web/static/admin.js`) | the last snapshot | render, post |
| Twitch bot controller (`internal/twitch/`), not started by `main.go` | token in memory and in `twitch.json`, OAuth states, one bot goroutine | Start, Connect, Disconnect, credentials, Run |
| Configuration, logging, templates, `main.go` | constant after start | start-up |

How they interact:

- A submission goes from the link index to the session that the link belongs to, from
  there to the media directory, to the credits, and into the tenant's queue. Each is a
  call of its own, with nothing held from one to the next.
- A queue operation takes a snapshot under its mutex and calls the broadcast callback
  after unlocking. The callback, set up in `registry.go`, is the hub's `BroadcastTo`.
- A page that opens a WebSocket is registered with the hub, and then gets the present
  state through `InitialMessages`, which reads the managers.
- The player page shows what the snapshots name, and reports the end of a clip with an
  HTTP request, which may be late, lost, or repeated by a second page. The queue moves
  on only by such a report or by a moderator.
- The submit page shows a cost that it computes itself, and the server charges one that
  it computes again.
- Twitch delivers a cheer, until it has seen an answer, to the webhook, which credits
  the viewer in the channel of the cheer.
- The middleware looks up the login session of the cookie for every console request. A
  session stands for a streamer, or for a moderator of one.

What is hard about it, and what makes each part correct:

- **Queue.** Nine operations move pointers between slices and each item has a status
  besides, so a long sequence of legal operations may leave the two at odds, leave the
  player idle with work to do, or overtake an approved clip. Reports of the player refer
  to the past.
- **Links.** A session control is three critical sections in two objects, and a lookup
  two. In every interleaving a link must lead to the channel that gave it out, a revoked
  one to nobody, and the current one must not be lost.
- **Credits.** Cheers are redelivered and may be processed twice at once; charges race;
  transactions fail. A cheer counts once, a balance never goes negative and is the sum
  of its ledger.
- **Submission.** It spans memory, disk and database. What is queued was paid for in the
  same channel, what is refused leaves no charge and no file, and what is paid for gets
  queued.
- **Hub.** Three goroutines and the broadcasters share a client's channel. It is closed
  once; messages arrive in order and in the right room; a page shows the present state,
  unless its last change crossed another or a greeting.
- **Player page.** Events of two players, a timeout, snapshots and reports cross, and
  snapshots may come in the wrong order. A clip is not ended before it was played out,
  its cap is measured through pauses, and a clip that has one ends, each but for causes
  that its property names.
- **Submit page.** A form that is edited while its link, the login and the connection
  may end. A clip plays for what was paid and starts where the viewer asked, nobody pays
  more than was shown, and a page with a dead link closes.
- **Bot.** Requests, a goroutine per bot and its refreshes touch a token in memory and
  on disk. One bot at most is left running, and a cancelled one leaves.
- **Access.** Logins, claims, revocations and late responses interleave across browsers.
  No request is served without a grant, and revoking leaves no moderator signed in.

## 2. Modules and plan

Built, in this order:

| Module | Models | Composes |
| --- | --- | --- |
| `ItemLifecycle` | abstract: stages of an item, one on the player, none waiting for an idle player | |
| `MediaQueue` | `queue.Manager` | refines `ItemLifecycle` |
| `SessionRegistry` | sessions and link index | |
| `ChannelAccounts` | abstract: a purse per viewer and channel | |
| `Credits` | store transactions and webhook | refines `ChannelAccounts` |
| `SubmitFlow` | `handleSubmit`, with crashes | instances of `SessionRegistry` and `Credits` |
| `HubFanout` | hub, publishers, pages | |
| `ConsoleAccess` | logins, accounts, links, sessions, middleware | |
| `PlayerPage` | `player.js`, the endpoint it reports to, the publishers and `ServeWS` between | the operations of `MediaQueue` |
| `SubmitPage` | `submit.js`, and what the server makes of its form: price, length, start | |
| `BotController` | bot controller, bot goroutine, OAuth client, token file | |
| `*Proofs` | theorems of `MediaQueue`, `SessionRegistry`, `Credits`, `SubmitFlow`, `HubFanout`, `ConsoleAccess`, `BotController` | each extends its module |
| `PagesProofs` | theorems of `PlayerPage` and `SubmitPage` | extends both |
| `MC*` | values of constants, and symmetry, for TLC | each extends its module |

Left for later: proofs that a session control, a lookup and a submission of `SubmitFlow`
together implement an abstract promise to the viewer, a clip that is either refused for
free or paid and queued; and of liveness, the steps that its argument rests on, as
action properties.

## 3. The models

One action is what the code does without releasing control: a critical section of a
mutex, or one SQL statement or transaction. Handlers that do several such things are
several actions, and a `pc` or `stage` says how far they are. History variables (marked
"history" where they are declared) record what properties need. The actions read them
only to mint a token that was never minted before, or to update other history. Operators
headed "Plausible bug" are mutated copies of the one they precede. No action uses them:
`PROJECT.json` substitutes them, one at a time, to show that the property it names can
fail.

**MediaQueue.** The variables are the fields of `Manager`, with an item's status in
`status` and `aired` as history. Every operation is one action, including
`startIfIdleLocked` (`StartIfIdle`). `Ended` takes any id, or none. Items are ids, and
their titles, sources and durations are left out. An operation that finds no such item
is a stuttering step, as it returns false.

**SessionRegistry.** A control request reads the old token (`ReadOld`), changes the
session (`Open`, `Stop`) and updates the index (`Reindex`), as the three calls in
`registry.go` do. A viewer request is `Lookup` and `Check`. `overlapped` is history: the
tokens during whose minting and listing a second control of the channel was being
served. Start and Regenerate differ only in the start time, which is left out. Tenants
exist from the start: that `Registry.Get` creates them when they are first used cannot
be observed.

**Credits.** `balance` is a function on the pairs that have a row. `CreditBits`,
`SpendCredits` and `GrantCredits` are transactions, and each may fail and roll back
(`DbFaults`). `wire` is Twitch's side of a message: sent, answered, sent again when the
answer is lost, or given up (`Expire`: past the replay window). The signature check is
taken as passed, as a request that fails it changes nothing.

**SubmitFlow.** Each request goes through `Resolve`, `RejectForm` or
`CreateFile`/`SaveFails`, `Charge`, `TurnAway` or `Enqueue`. Any step of a session
control, of the webhook, of another request, and a `Crash` that empties memory and keeps
the disk and the database, may come in between. `queue` is what each channel's queue
took in: what happens to a clip after that is `MediaQueue`'s. The credits feature is on
or off from the start. Removing a file is taken to succeed (the code ignores the error).

**HubFanout.** A message is reduced to the version of the state it shows. `Change` and
`Broadcast` are separate, as the managers publish after they unlock. `ServeWS` is
`Register`, `CollectState` and, for an admin, `CollectStatus` (the queue and the session
have a mutex each), one `Greet` per initial message, and `StartPumps`. `Greet` blocks on
a full channel, and panics on a closed one: net/http recovers the panic, nobody closes
the socket, and the runtime's finalizer does when the connection is collected
(`Finalize`). Each connection is its own client; a page that reconnects is another one.
`crossed` is history: the rooms and kinds of message whose last change was made while
another was to be broadcast or a page was being greeted. A change that is made alone
clears it.

**PlayerPage.** `page[p]` holds the script's variables, and what its YouTube player and
its video element are playing. A browser runs one event handler at a time, so a handler
is one action, and the script's functions (`StartItem`, `StartTimer`, `ApplyPause`,
`Teardown`, ...) are functions on that record; those that may throw half way return a
set of records. `made` is the item the YouTube player was created for: its handlers keep
that item for ever. Events that have happened and wait for their handler are in
`endings`, snapshots under way in `inbox`, reports in `reports`. The queue's steps are
the operations of `MediaQueue`, with bypass on; each leaves its snapshot in `unsent`
(`Publish`), and `Broadcast` takes any of those, as the handlers that hold them emit
after they unlock. A connection is registered (`Register`), takes the present state
(`Collect`) and queues it (`Greet`) in three steps, as in `HubFanout`, so its first
snapshot may come last. A medium that has ended does not end again until the page plays
it again (`atEnd`, `Play`). Of the hub only what a player page sees of it is here: its
room's state messages, the channel's capacity, the drop. Timers count ticks.

History says what the clock has measured (`watched`), what was played out, on which
pages a callback of an earlier clip has touched the present one (`marred`), in which
order clips were on the player (`programme`), the furthest of them a page was told of
(`latest`), which pages were told of a clip after one that followed it (`sentBack`),
under which ids such a page reported the end of another clip (`misnamed`), and on whose
connections changes or the greeting crossed (`crossed`).

**SubmitPage.** A typed text is reduced to what the two parsers tell apart in it:
`parseInt` in the page, `Atoi` and `ParseYouTube` in the server. Links are records of a
site, a path and parameters. The form, its answer and the answers of polls are under way
separately, and `SubmitFails` loses the connection before or after the server has acted.
The steps within the server are `SubmitFlow`'s; here it acts at once. The balance badge,
messages, the development top-up and the texts of errors are left out. Times are
unbounded integers: Go's `int` would overflow for times of 19 digits.

**BotController.** A request is at `exchange`, `save`, `adopt`, `start` (the steps of
`Connect`) or `clear` (the second of `Disconnect`). A bot is at the top of `Run`'s loop,
in `credentials` with its three steps of a refresh, dialling, or reading the chat, and
has a context that lives or was cancelled. A `Start` at any time is a restart: it loses
everything but the file. A token is its channel and a number; it can be refreshed.
`crossed` is history: operations have overlapped, or a write has failed, since the last
restart or the last disconnect that was made alone. Status broadcasts repeat the state
and are left out.

**ConsoleAccess.** A handler's steps are its SQL statements: `Callback` takes the state,
`Exchange` learns who agreed or fails, `SelectAccount` and `InsertAccount` are the query
and the insertion of an upsert, `CreateSession` stores the session and `Respond` sets
the cookie, possibly long after or never. The answer to a logout may be lost as well,
and leaves the browser with a cookie that stands for nothing. `Claim` resolves a
moderator link and goes on to `CreateSession`. `Admit` is the middleware with its three
requirements, after which the handler runs to `Regenerate`, `Revoke` or `Served`.
Anything that expires may expire at any time. `Restart` loses OAuth states and handlers
and keeps the database.

## 4. The runs

A passing run visits all reachable states of its instance; a violated one stops at its
counterexample.

| Run | Instance | Shows |
| --- | --- | --- |
| `queue` | 4 items | `StatusMatchesPlace`: every item is in exactly the place its status names. `NeverIdleWithWork`: nothing waits for an idle player. `FirstApprovedFirstPlayed`: no operation reorders approved items. `StaleReportKeepsProgramme`: a report of a clip that is not playing leaves the programme alone. `ImplementsLifecycle`: the manager refines `ItemLifecycle`. |
| `registry` | 2 channels, 2 concurrent controls, 3 tokens, 1 viewer request | `AdmittedToMinter`, `RevokedLinkRefused`, `LiveLinkIndexed`; `IndexInSync`: once no control is served, the index keeps no link but the current one, except those whose own control was overlapped by another |
| `credits` | 2 viewers, 2 channels (one without a row at first), 3 messages, 3 clips, 1 grant, failing transactions | `NeverNegative`, `BalanceMatchesLedger`, `OneEntryEach`; `ImplementsAccounts`: refines `ChannelAccounts` |
| `credits_lost` | the same | violated, see section 7 |
| `submit` | 2 channels, 1 control, 2 requests (one with an upload), 2 tokens, 1 viewer, 1 cheer, 1 crash, credits on and off | `QueuedWherePaid`; `OpenWhenItArrived`: a clip is queued in a channel whose link was open after the request came in; `FilesMatchQueues`; `PaidIsQueued` (liveness) |
| `hub` | 2 rooms, 1 connection, 2 publishers, capacity 2, 3 changes | `OpenWhileRegistered`: a channel is open exactly while its client is registered. `EveryBroadcastInOrder`: what a page got and has queued is the sequence of its room's broadcasts since it registered. `CurrentWhenSettled`: with nothing of a kind under way a page shows its present version, unless the last change crossed another or a greeting. `DroppedIsEnded` (liveness): a dropped connection ends, so its page reconnects. |
| `access` | 2 users, 2 browsers, 2 concurrent requests, 2 OAuth states, 2 link tokens, 3 session ids, 4 secrets in all | `ServedWithGrant`, `OneLoginPerState`, `RevokedSignedOut`, `PlayerKeyKept`, `OwnerStaysSignedIn` |
| `access_revoked` | 1 browser, 1 token | violated, see section 7 |
| `player` | 1 page, a clip capped at 2 ticks (YouTube or an upload) and a YouTube clip without a cap; 2 snapshots unsent, connections that hold 2, 1 disturbance | `EndedIsPlayedOut`: a clip is only done when its medium ended or its whole cap was measured, or when its id stood for the end of another on a page that was told of the two in the wrong order. `CapMeasured`: time played and time left add up to the cap, and the timer runs exactly while playback does, for the clip shown. `ClipEnds` (liveness): with a page connected and nobody pausing, a capped clip ends, but for the causes it names. |
| `player_stale` | 2 clips of either type, one capped; snapshots in order, 1 disturbance | violated, see section 7 |
| `form` | 4 texts for a length, 14 addresses, a minimum of 2 seconds and a maximum of 4, credits on and off | `PaidIsPlayed`, `ChargedAsShown`, `StartsWhereAsked`; `ClosedForGood` (liveness): a page whose link is dead comes to say so and never offers the form again |
| `bot` | 2 channels, 2 concurrent requests, 2 bots at once, 3 tokens, 1 restart | `OneLiveBot`: the bot that is not cancelled is the one `Controller.cancel` stops. `SettledAgrees`: memory, file, channel and bot agree when nothing is under way, unless operations overlapped or a write failed since the last restart or lone disconnect. `CancelledLeaves` (liveness) |

The runs `queue`, `credits`, `hub` and `player` also check their module's type
invariant, `TypeOK`; those of `SessionRegistry`, `SubmitFlow`, `ConsoleAccess`,
`SubmitPage` and `BotController` are proved only.

**Bounds.** They are the constants above and, inside modules, these guards: each item is
submitted once, each token is minted once (an opening that has begun finds one left),
`MaxGrants`, `MaxChanges`, `MaxCrashes`, `MaxSecrets`, `MaxUnsent`, `MaxDisturbed`,
`MaxClips`, `MaxTokens`, `MaxRestarts`. Why the instances are large enough:

- Four items put one clip on the player, two in an order and one before the moderator.
  Two would never be out of order.
- A race of controls needs two controls and, for a link that is replaced and replaced
  again, three tokens. A second channel is what a link could wrongly lead to.
- Three messages are an anonymous cheer and two others. Two viewers and two channels are
  what a credit could be misplaced to.
- Two concurrent submissions of one viewer race for one balance, and one crash can come
  between any two steps. A second crash finds the same states as the first.
- Capacity 2 lets a channel be empty, partly filled and full (16 in the code, which only
  takes more broadcasts to fill). Connections interact only through the hub's map, which
  a broadcast handles client by client, so one connection in one of two rooms stands for
  many; the proof of `OpenWhileRegistered` is for any number.
- Two users are an owner and someone who may be a moderator; two requests are the claim
  and what races with it; three session ids outlast two, so that an owner's, a
  moderator's and a newer session coexist.
- Two clips are the one shown and the one before, whose callbacks may come late. A cap
  of 2 ticks has a middle, in which a pause falls; the clip without one reaches the
  server by the end of its medium only. Two snapshots that are unsent at once are what
  it takes to swap them, and a connection that holds two gets both; a third makes the
  hub drop it. A disturbance (`MaxDisturbed`) is a pause, a skip, a removal, a clearing,
  a lost report, a broken connection or a reload; that a moderator resumes what was
  paused costs none, and neither do swaps and greetings that come late. One disturbance,
  in every order with these, makes 1.4 million states; a second is more than a run of
  minutes can hold. The clip without a cap is never an upload here: its end takes the
  same path, with the element's own id (`player.js:105`). A second page changes nothing
  on the first, and its reports, late or repeated, are the ones of
  `StaleReportKeepsProgramme`.
- Lengths are below, in and above the clamp, blank, and of the kind the two parsers read
  differently. Addresses hold each place and each way of writing a time.
- Two requests overlap each other and a refresh; two bots are a cancelled one and its
  successor; three tokens are one connected, one refreshed and one connected again.

Symmetry sets are used in runs without liveness properties only. The actors they permute
are interchangeable in the module.

**Deadlock** is checked where the system always has a step (`queue`, `registry`,
`access`, `form`). Elsewhere the bounds let an instance finish: every message answered
and every clip submitted, every change made, every clip reported, every token given out.

**Fairness** is stated in five modules.

- `SubmitFlow`: weak fairness of each request's handler. A goroutine is scheduled, and
  no step of it waits for another request; a crash excuses it, and `PaidIsQueued` says
  so. Nothing is assumed of session controls, viewers, or Twitch.
- `HubFanout`: weak fairness of the publishers' and `ServeWS` goroutines, of the write
  pump, of the read pump once the write pump has ended (without pings, and so pongs, the
  read deadline passes), and of the finalizer after a recovered panic. Not of users:
  nobody has to make a change, or to connect.
- `PlayerPage`: weak fairness of a page's connecting (a timer does) and being greeted by
  `ServeWS`, taken as one since at most one of these steps is possible at a time; of the
  handlers that have a snapshot to broadcast (of the oldest one: each of them comes to
  be that), of handling snapshots, of the clock and the timeout, taken as one as well,
  and of the arrival of each report that is not lost. Neither YouTube nor a medium has
  to end, load, or be ready.
- `SubmitPage`: weak fairness of polling (an interval), and strong fairness of the
  arrival of each kind of answer: connections that fail again and again do not fail for
  ever. No user has to act.
- `BotController`: weak fairness of each bot's goroutine, without the chat: dials and
  refreshes have timeouts, and the goroutine that waits for the context closes the
  connection. Nothing is assumed of requests, of Twitch, or of who writes in the chat.

## 5. What is proved

The theorems hold for every value of the constants that satisfies the assumptions, each
stated with its module: distinct "none" values, prices and capacities in Nat and the
like. None limits how many items, viewers, requests or clients there are.

**MediaQueueProofs.** `TypeCorrect`, `StatusCorrect`, `NeverIdle`, `FirstApproved`,
`StaleReports`, `Refinement`. The inductive invariant is `TypeOK /\ StatusMatchesPlace
/\ NeverIdleWithWork`. Statuses cannot be proved right without the places being disjoint
and free of duplicates, which `StatusMatchesPlace` includes. Lemmas about removing an
item from a sequence, and appending one, carry each operation. The refinement proof uses
the invariant to show that each operation only moves items forward.

**SessionRegistryProofs.** `TypeCorrect`, `Isolation` (`AdmittedToMinter`), `Revocation`
(`RevokedLinkRefused`), `LiveLink` (`LiveLinkIndexed`), `OnlyRacesLeaveLinks`
(`IndexInSync`). None of the last four is inductive. The invariant adds *provenance*
(tokens in sessions, in the index and in the controls' variables were minted by the
channel they are filed under), that the old token a control is about to delete from the
index is no longer current, and that a request between its two steps holds the channel
that minted its link. `OnlyRacesLeaveLinks` is for any number of controls, racing or
not. It adds `SyncInv`: a link listed wrongly was overlapped, or a control that has
changed the session is about to delete it; for that, each control that has read the old
token has read the current one, unless that was overlapped; and a link that was not is
still current when its control lists it.

**CreditsProofs.** `TypeCorrect`, `NonNegative`, `OnceInLedger` (`OneEntryEach`),
`Refinement` (`ImplementsAccounts`), `LedgerAddsUp` (`BalanceMatchesLedger`). The
invariant joins the type, the sign of balances, and the agreement of ledger with
`bits_events` and `charge`. A purse is the balance, or 0 where there is no row. For
`LedgerAddsUp`, a transaction either leaves balances and ledger alone, or appends one
entry and changes one balance by its amount. What a sum becomes when an entry is
appended is a lemma on a recursive function.

**Inductions on data.** Three operators run through a sequence of any length: `SumOf` of
`Credits` (a ledger's sum), `Fanned` of `HubFanout` (the messages of a channel that were
broadcast) and `Accumulate` of `SubmitPage` (the loop that reads a time). They are
recursive functions, not folds, and what they do for every length is proved with the
lemma `Induction` of each proof module: a set of naturals that holds 0 and the successor
of each of its members is Nat, since otherwise Nat minus the set had a least member
(`WFMin`).

**SubmitFlowProofs.** `PaidWhereQueued` (`QueuedWherePaid`), `DeadLinksQueueNothing`
(`OpenWhenItArrived`), `FilesKept` (`FilesMatchQueues`), and `CreditsUndisturbed`: the
composition implements `Credits`, so what is proved of credits holds in it. The
invariant is that of `SessionRegistryProofs`, that of `CreditsProofs` and `FlowInv`,
which joins the parts: a handler past its lookup holds the channel of an admitted link
(`Admissions`), past its charge it has a ledger entry there (`Payments`), and files
exist from creation to removal (`Storage`). The two invariants are taken over, not
proved again: every step is one of the registry's, or none, or a crash, and a crash is
shown to keep what the registry's invariant says (`Forgotten`). Likewise every step is
one of the credits', or none.

**HubFanoutProofs.** `TypeCorrect`, which includes that no channel exceeds its capacity,
`ChannelSafety` (`OpenWhileRegistered`), `Ordered` (`EveryBroadcastInOrder`) and
`Current` (`CurrentWhenSettled`). The invariant adds that publishers and connections
have a room (`Aimed`), and that a connection not yet made is `Untouched`: unknown to the
hub, never closed, without pumps. `Ordered` adds `InOrder`: initial messages are told
from broadcasts, and what a connection got and has queued is, without them, what its
room broadcast since it registered. `Current` adds that, for each room and kind whose
last change did not cross, the last message of that kind a page was sent shows the
present version or a publisher is about to send it (`Uncrossed`), and that a connection
that has collected one kind and not yet the other is no further than that (`Collected`).

**ConsoleAccessProofs.** `TypeCorrect`, `Confined` (`ServedWithGrant`), `KeyKept`
(`PlayerKeyKept`), `OwnerKept` (`OwnerStaysSignedIn`), `OneLogin` (`OneLoginPerState`),
`RevocationCuts` (`RevokedSignedOut`). The invariant adds that every handler in progress
(`RequestsBacked`), and every cookie (`CookiesBacked`), is backed by a grant: the
browser's user agreed to that login, or it claimed a link minted by that streamer. The
middleware's answer is then backed as well.

The last two need more. `OneLogin` adds `SpentOnce`: an OAuth state that let a handler
or a session in is spent, and let no other in. `RevocationCuts` adds `LinksMinted` (a
streamer's link was minted by that streamer and is not among the revoked) and
`CameByLink` (whoever came by a link is a moderator of its minter, and a claim still in
flight when its link is revoked is recorded as racing). The actions that neither let
anyone in nor change a link are treated at once, by `OthersProceed`.

**BotControllerProofs.** `TypeCorrect`, `OneLiveBotHolds`, `SettledAgreesHolds`.
`OneLiveBot` is inductive together with types, which need that a request or refresh
carries a token of the kind its place requires (`Carried`). `SettledAgrees` says nothing
of what is under way, and so is not: `Orderly` adds that, while nothing has crossed, at
most one request or refresh runs (`Apart`), what it has written so far is in its record
(`HandlerInOrder`, `BotInOrder`), and memory, file, channel and bot agree whenever none
has written one and not yet the other.

**PagesProofs**, on the player page. `TypeCorrect`, `NoEarlyEnd` (`EndedIsPlayedOut`),
`CapsKept` (`CapMeasured`), `QueueUndisturbed`. What `MediaQueueProofs` shows of the
queue is taken over: a step of the composition is an operation of the manager or leaves
it alone (`QueueKept`). `EndedIsPlayedOut` is not inductive: a report must have been
sent for a clip that was played out, and that takes the whole page. Snapshots may reach
it in any order, so nothing may rest on the last one it got. The invariant adds:

- `Programme`: clips go on the player one after another and none twice; all but the last
  are over. This is of the queue, and no order of snapshots disturbs it.
- `Networked`: a snapshot, wherever it waits, names a clip that has been on the player.
- `Reached` and `Loading`, for each page: what its script remembers in its YouTube
  player and its parked clip is at or behind the furthest clip it was told of. So, when
  a clip is loaded into a player that was made for another, that other one is over, or
  the page was told of the two in the wrong order (`sentBack`).
- `Named`: an end that waits for its handler is of a clip that was played out; the id it
  is reported under is that clip's, or of one that is over and so ends nothing, or comes
  from a page that was sent back, which is the exception.
- `Measured`: for the clip of the timer, ticks run and ticks left are its cap, and a
  running timeout belongs to a clip, on a page that is not paused.

**PagesProofs**, on the submit page. `Paid` (`PaidIsPlayed`), `Charged`
(`ChargedAsShown`), `Starts` (`StartsWhereAsked`). The invariant says that the cost
shown is the price of what the form holds (`CostShown`), that the form under way carries
the cost of its own text (`Requested`), and that the clip is what the server makes of
that form (`Clipped`). `Charged` then compares the two ways of reading a text, `Starts`
the loops of `parseColonTime` and `parseTimeToSeconds` with what a time means.

**Only model-checked.** `DroppedIsEnded`, `PaidIsQueued`, `ClipEnds`, `ClosedForGood`
and `CancelledLeaves`: liveness under fairness, which TLAPS cannot prove. Every
invariant and action property of a run is also proved.

## 6. What is not modelled

- The admin page beyond the version it shows and the operations it posts; its moderators
  panel.
- Layout, captions, volume, messages and the balance badge of the pages.
- Parsing of chat lines (`twitch/parse.go`): string processing without state; its
  commands are operations of `MediaQueue`.
- The bot's legacy token, which nothing passes any more, and its status broadcasts.
- Configuration, logging, templates: no state of the system's own.
- Development logins and, in `SubmitFlow`, development grants: they skip Twitch with a
  fixed account, and `config.go` tells operators not to enable them in production.
- The same-origin check on request headers, and the EventSub signature: what they refuse
  changes no state.
- Names, thumbnails and timestamps.
- A full or corrupted disk, beyond failing transactions and failing uploads.
- Files of clips that have been played, rejected or removed: the code never deletes
  them, so the media directory grows. `FilesMatchQueues` counts a clip as the queue's
  from the moment it was taken in.

## 7. Where code and documentation differ

Each of these has a run whose counterexample is the behaviour.

| Run, property | Behaviour | Says otherwise |
| --- | --- | --- |
| `credits_lost`, `AckedCheerIsCredited` | the webhook answers 200 when the credit failed (`handlers_eventsub.go:89`), so Twitch does not retry | `docs/data-flows.md:166`, `docs/http-api.md:75` |
| `access_revoked`, `RevokedCutOff` | a claim that resolved its link before `RevokeModeratorAccess` ran creates its session after, and keeps it for 30 days | `store.go:347` |
| `player_stale`, `EndNamesTheClip` | the YouTube player's handler keeps the item it was made for (`player.js:95`): the end of a later video without a cap is reported under the first one's id, and the queue stays where it is | `handlers_player.go:5`, `docs/data-flows.md:202` |

The passing counterparts say what does hold. `OneEntryEach`: what is credited is
credited once. `RevokedSignedOut`: only a claim in flight survives a revocation.
`EndedIsPlayedOut`: on pages that are told of clips in order, a report under the wrong
id ends no clip early.

Noted without a run of their own; what the runs above show of each is named with it:

- Two controls of one channel read the same old token, and neither deletes the link that
  the first of them minted: it stays in `byToken` (`registry.go:107`), which
  `docs/data-model.md:148` has kept in sync. `IndexInSync`: only a link whose own
  control was overlapped stays; `RevokedLinkRefused`: it admits nobody.
- The session is checked once, before the upload and the charge; one that stops
  meanwhile still takes the clip (`handlers_submit.go:131`), though by `session.go:3`
  submissions are rejected once it has stopped, and by `docs/architecture.md:112` the
  link submits only while it is open. `OpenWhenItArrived`: no clip comes by a link that
  was dead when its request arrived. `PaidIsQueued` relies on it.
- The snapshot taken when a page connects may be queued behind a newer broadcast, and
  stays on screen (`hub.go:101`); with two publishers, broadcasts may swap
  (`queue.go:143`). By `docs/agents/conventions.md:53` a page renders whatever the
  latest message says, and that one is not the latest state. `CurrentWhenSettled` and
  `ClipEnds` except such a page, until its next change.
- A page is told of the second clip, makes its YouTube player for it, and is told of the
  first one late: the first one's natural end is reported under the second one's id,
  which is marked done unplayed (`queue.go:143`, `player.js:95`), where by
  `handlers_player.go:5` a report means that the clip has finished, and by
  `docs/data-flows.md:204` its item is marked done for that. `EndedIsPlayedOut` names
  this cause and admits no other.
- A timer that is paused in the instant it is due is not armed again (`player.js:193`)
  and the clip plays on without a cap, where `player.js:16` has the remaining time
  survive pauses. The YouTube player, when it is ready, sets the timer of the clip it
  was made for (`player.js:93`), though another is shown by then, whose cap is lost; by
  `docs/data-flows.md:201` the clip that plays is given its own duration. `CapMeasured`
  and `ClipEnds` except pages on which this has happened.
- A refresh that was answered before a `Disconnect` stores its token after it, in the
  file and in memory (`controller.go:197`), and a restart connects with it, where
  `controller.go:131` has the credentials cleared. `SettledAgrees`: after the restart
  memory, file and bot agree, on that token, and a disconnect that is made alone removes
  it.
- The webhook accepts `channel.cheer` and `channel.bits.use`
  (`handlers_eventsub.go:29`). If an operator subscribes to both, a cheer arrives under
  two message ids and would be credited for each. In the model it has one.
- Session messages go to the whole room, players included; `docs/http-api.md:135` says
  admins only.
- Of two first logins of one account at once, one fails on the primary key
  (`store.go:170`) and answers with an error.
- `Ended` clears `paused` before it compares ids (`queue.go:212`): a late report of a
  skipped clip resumes a paused one. The comment at `queue.go:203` and
  `queue_test.go:87` have it ignored. `StaleReportKeepsProgramme`: it advances nothing.
- A channel that fills before the pumps start blocks `ServeWS` (`hub.go:101`), where the
  comment at `hub.go:97` counts on its capacity; the next broadcast drops the client.
  `DroppedIsEnded`: its connection ends.
- `player.js`: a report that is lost is not repeated (`:204`); `ClipEnds` names it. A
  page that is told of a clip again after it was told of none starts it again from its
  start, with its whole cap: a clip may then play longer than was paid for.
- A start field of more than three parts, such as 1:2:3:4, is read as a time
  (`handlers_submit.go:231`), where the comment at `:225` accepts h:mm:ss at most.
  `StartsWhereAsked` leaves such fields out; that it needs to was found in proving it.
- Above 3600 seconds the page shows a higher cost than the server charges, which clamps
  (`submit.js:67`); `ChargedAsShown` allows that.
- A viewer whose connection fails after the server has acted, and who tries again, pays
  for two clips (`submit.js:176`).
- Bot: a token that Twitch rejects before it expires is never refreshed, though the
  comment at `bot.go:140` expects that. A refresh that succeeds clears the error without
  broadcasting it, and one that a `Disconnect` cancels sets an error after it. The
  goroutine that waits for the context (`bot.go:107`) outlives its session: one more
  stays at every reconnection until the bot is cancelled.
