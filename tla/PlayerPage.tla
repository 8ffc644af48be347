----------------------------- MODULE PlayerPage -----------------------------
(***************************************************************************)
(* The player pages of one channel (web/static/player.js), over the queue  *)
(* that drives them (MediaQueue) and the endpoint they report to           *)
(* (handlers_player.go).                                                   *)
(*                                                                         *)
(* A page runs one event handler at a time, so one handler is one action:  *)
(* a snapshot arrives, the YouTube API or its player becomes ready, a      *)
(* medium ends, the cap's timeout fires.  Its world is asynchronous:       *)
(* snapshots wait in the connection, an end that has happened waits to be  *)
(* handled, reports travel and may be late or lost, and the connection     *)
(* drops and comes back while the page lives on.                           *)
(*                                                                         *)
(* A handler that changed the queue broadcasts its snapshot after it has   *)
(* released the mutex, so the snapshots of two handlers may reach a page   *)
(* in the wrong order.  A page that connects is registered with the hub    *)
(* first and is sent the present state then, perhaps behind broadcasts     *)
(* that are newer.  A connection that is Capacity snapshots behind is      *)
(* dropped.                                                                *)
(***************************************************************************)
EXTENDS Naturals, Sequences, SequencesExt

CONSTANTS
  Items,      \* ids of the clips that may be submitted
  NoItem,     \* no clip: null in the page, a nil *Item in the server
  Cap,        \* durationSeconds of each clip, in ticks; 0 is the whole clip
  Pages,      \* player pages that are open, in OBS and elsewhere
  Capacity,   \* snapshots a connection holds before the hub drops it
  MaxUnsent,  \* bound: handlers that have a snapshot to broadcast at one time
  Types,      \* types the clips may have, as functions on Items
  MaxDisturbed \* bound: what moderators do, and the network and the pages fail, in all

ASSUME ClipAssumption ==
  /\ NoItem \notin Items
  /\ Cap \in [Items -> Nat]
  /\ Types \subseteq [Items -> {"youtube", "upload"}]

ASSUME BoundAssumption ==
  Capacity \in Nat \ {0} /\ MaxUnsent \in Nat \ {0} /\ MaxDisturbed \in Nat

VARIABLES
  pending, queue, nowPlaying, paused, bypass, status,  \* of MediaQueue
  type,       \* Item.Type of each clip, as it is submitted
  unsent,     \* snapshots taken and not broadcast yet, in the order they were taken
  open,       \* pages whose WebSocket the hub has
  conn,       \* how far ServeWS is with each page's connection
  inbox,      \* snapshots on their way to each page
  page,       \* the script's variables, and what the stage plays
  endings,    \* media of each page that have ended, the event not yet handled
  atEnd,      \* media of each page that have ended and were not told to play since
  reports,    \* requests to /api/player/ended under way
  watched,    \* history: ticks the page's timer ran since it was set for its clip
  playedOut,  \* history: clips that ended, or whose cap ran out, on some page
  marred,     \* history: pages whose clip was touched by a callback of another
  lost,       \* history: reports that never arrived
  programme,  \* history: the clips that have been on the player, in this order
  latest,     \* history: of the clips a page was told of, the last in the programme
  sentBack,   \* history: pages told of a clip after one that followed it
  misnamed,   \* history: clips under whose id a page that was sent back has
              \* reported the end of another
  disturbed,  \* how often a moderator, the network or a reload has disturbed the show
  crossed     \* history: pages with a connection during which a change was made while
              \* a snapshot was not broadcast yet, or while ServeWS was at work

manager == <<pending, queue, nowPlaying, paused, bypass, status, type>>

network == <<unsent, open, conn, inbox, reports, lost, crossed>>

stage == <<page, endings, atEnd, watched, playedOut, marred, latest, sentBack, misnamed>>

vars == <<manager, network, stage, programme, disturbed>>

Manager == INSTANCE MediaQueue WITH aired <- {}

-----------------------------------------------------------------------------
\* The page's script, as functions on its variables.

NoTimer == [item |-> NoItem, remaining |-> 0, handle |-> FALSE, togo |-> 0]

\* A page that was just loaded.  made is the item the YouTube player was
\* created for, whose id its event handlers keep; loaded is the one it plays.
FreshPage ==
  [api |-> FALSE, made |-> NoItem, ready |-> FALSE, loaded |-> NoItem,
   video |-> NoItem, current |-> NoItem, paused |-> FALSE, parked |-> NoItem,
   timer |-> NoTimer, reported |-> NoItem]

ClearTimer(pg) == [pg EXCEPT !.timer = NoTimer]

ArmTimer(pg) == [pg EXCEPT !.timer.handle = TRUE, !.timer.togo = pg.timer.remaining]

\* startDurationTimer
StartTimer(pg, it) ==
  LET set == [pg EXCEPT !.timer = [NoTimer EXCEPT !.item = it, !.remaining = Cap[it]]]
  IN IF Cap[it] = 0 THEN ClearTimer(pg)
     ELSE IF pg.paused THEN set ELSE ArmTimer(set)

\* Plausible bug: what has been played is forgotten by a pause.
PauseTimerForgets(pg) == [pg EXCEPT !.timer.handle = FALSE, !.timer.togo = 0]

PauseTimer(pg) ==
  IF pg.timer.handle
  THEN [pg EXCEPT !.timer = [@ EXCEPT !.handle = FALSE, !.togo = 0,
                                      !.remaining = pg.timer.togo]]
  ELSE pg

\* applyPause: a timer that was paused with nothing left is not armed again.
ApplyPause(pg) ==
  IF pg.paused THEN PauseTimer(pg)
  ELSE IF /\ pg.timer.item # NoItem
          /\ pg.timer.remaining > 0
          /\ ~pg.timer.handle
       THEN ArmTimer(pg)
       ELSE pg

\* stopVideo, within try: a player that is not ready throws.
StopYouTube(pg) == IF pg.ready THEN [pg EXCEPT !.loaded = NoItem] ELSE pg

\* The pages playYouTube may leave.  Before the player is ready, the call to
\* loadVideoById may be obeyed, or throw and end the handler.
PlayYouTube(pg, it) ==
  LET cleared == [pg EXCEPT !.video = NoItem]
      obeyed  == StartTimer([cleared EXCEPT !.loaded = it], it)
  IN IF pg.made = NoItem
     THEN {[cleared EXCEPT !.made = it, !.loaded = it]}
     ELSE IF pg.ready THEN {obeyed} ELSE {obeyed, cleared}

PlayUpload(pg, it) == StartTimer([StopYouTube(pg) EXCEPT !.video = it], it)

\* startItem
StartItem(pg, it) ==
  LET begun == ClearTimer([pg EXCEPT !.current = it])
  IN IF type[it] = "upload" THEN {PlayUpload(begun, it)}
     ELSE IF ~pg.api THEN {[begun EXCEPT !.parked = it]}
     ELSE PlayYouTube(begun, it)

Teardown(pg) ==
  [StopYouTube(ClearTimer([pg EXCEPT !.current = NoItem])) EXCEPT !.video = NoItem]

\* The pages applyState may leave on a snapshot s.
ApplyState(pg, s) ==
  LET told == [pg EXCEPT !.paused = s.paused]
  IN IF s.nowPlaying = NoItem THEN {Teardown(told)}
     ELSE IF s.nowPlaying = pg.current THEN {ApplyPause(told)}
     ELSE StartItem(told, s.nowPlaying)

-----------------------------------------------------------------------------
\* The server and the network.

Snapshot == [nowPlaying |-> nowPlaying, paused |-> paused]

NothingShown == [nowPlaying |-> NoItem, paused |-> FALSE]

Unconnected == [at |-> "off", state |-> NothingShown]

\* ServeWS has yet to send the present state to p.
Greeting(p) == conn[p].at \in {"registered", "greeting"}

\* Everything but the playing and reporting of clips is limited to MaxDisturbed.
Disturb == disturbed < MaxDisturbed /\ disturbed' = disturbed + 1

\* A handler changes the queue and takes its snapshot, and has yet to broadcast it.
Publish ==
  /\ Len(unsent) < MaxUnsent
  /\ unsent' = Append(unsent, Snapshot')
  /\ programme' = IF nowPlaying' \in {NoItem, nowPlaying} THEN programme
                  ELSE Append(programme, nowPlaying')
  /\ crossed' = IF unsent = << >> THEN {p \in Pages : Greeting(p)} ELSE Pages
  /\ UNCHANGED <<open, conn, inbox>>

\* Plausible bug: a connection that falls behind is never dropped.
BroadcastUnbounded(n) ==
  /\ inbox' = [p \in Pages |-> IF p \in open THEN Append(inbox[p], unsent[n]) ELSE inbox[p]]
  /\ unsent' = RemoveAt(unsent, n)
  /\ UNCHANGED <<manager, open, conn, reports, lost, crossed, stage, programme, disturbed>>

\* Plausible bug: a connection whose channel is full just misses the snapshot.
BroadcastLossy(n) ==
  /\ inbox' = [p \in Pages |-> IF p \in open /\ Len(inbox[p]) < Capacity
                               THEN Append(inbox[p], unsent[n]) ELSE inbox[p]]
  /\ unsent' = RemoveAt(unsent, n)
  /\ UNCHANGED <<manager, open, conn, reports, lost, crossed, stage, programme, disturbed>>

\* BroadcastTo: any handler that has a snapshot to broadcast may be the next.
Broadcast(n) ==
  LET keeping == {p \in open : Len(inbox[p]) < Capacity}
  IN /\ open' = keeping
     /\ inbox' = [p \in Pages |-> IF p \in keeping THEN Append(inbox[p], unsent[n]) ELSE inbox[p]]
     /\ unsent' = RemoveAt(unsent, n)
     /\ UNCHANGED <<manager, conn, reports, lost, crossed, stage, programme, disturbed>>

\* What viewers and moderators do to the queue.  Bypass stays on: whether a
\* clip waited for approval before it was queued makes no difference to a page.
Moderate ==
  /\ \/ \E id \in Items : Manager!Submit(id) /\ UNCHANGED disturbed
     \/ paused /\ Manager!SetPaused(FALSE) /\ UNCHANGED disturbed
     \/ /\ Disturb
        /\ \/ \E id \in Items : Manager!RemoveQueued(id)
           \/ Manager!Skip
           \/ \E p \in BOOLEAN : (paused => p) /\ Manager!SetPaused(p)
           \/ \E all \in BOOLEAN : Manager!Clear(all)
  /\ Publish
  /\ UNCHANGED <<type, reports, lost, stage>>

\* handlePlayerEnded.  Requests travel apart and arrive in any order.
Arrive(p, id) ==
  /\ <<p, id>> \in reports
  /\ reports' = reports \ {<<p, id>>}
  /\ Manager!Ended(id)
  /\ Publish
  /\ UNCHANGED <<type, lost, stage, disturbed>>

\* The request fails; the page swallows the error.
Lose(p, id) ==
  /\ <<p, id>> \in reports
  /\ Disturb
  /\ reports' = reports \ {<<p, id>>}
  /\ lost' = lost \cup {<<p, id>>}
  /\ UNCHANGED <<manager, unsent, open, conn, inbox, crossed, stage, programme>>

\* The connection breaks, and what was not written to it is gone.  The pumps
\* write nothing before ServeWS has started them.
Drop(p) ==
  /\ conn[p].at # "off"
  /\ Disturb
  /\ open' = open \ {p}
  /\ conn' = [conn EXCEPT ![p] = Unconnected]
  /\ \E n \in 0..Len(inbox[p]) :
       /\ Greeting(p) => n = 0
       /\ inbox' = [inbox EXCEPT ![p] = SubSeq(@, 1, n)]
  /\ UNCHANGED <<manager, unsent, reports, lost, crossed, stage, programme>>

\* connect, and ServeWS on the other side: the hub registers the connection.
\* onclose comes after the last message, so the page has read everything.
Register(p) ==
  /\ p \notin open /\ ~Greeting(p)
  /\ inbox[p] = << >>
  /\ open' = open \cup {p}
  /\ conn' = [conn EXCEPT ![p].at = "registered"]
  /\ crossed' = IF unsent = << >> THEN crossed \ {p} ELSE crossed \cup {p}
  /\ UNCHANGED <<manager, unsent, inbox, reports, lost, stage, programme, disturbed>>

\* OnConnect: the state to greet the page with.
Collect(p) ==
  /\ conn[p].at = "registered"
  /\ conn' = [conn EXCEPT ![p] = [at |-> "greeting", state |-> Snapshot]]
  /\ UNCHANGED <<manager, unsent, open, inbox, reports, lost, crossed, stage, programme, disturbed>>

\* c.send <- data, and the pumps start: waits while the channel is full, and
\* panics when it was closed.  Such a connection ends without a message written.
Greet(p) ==
  /\ conn[p].at = "greeting"
  /\ \/ /\ p \in open /\ Len(inbox[p]) < Capacity
        /\ inbox' = [inbox EXCEPT ![p] = Append(@, conn[p].state)]
        /\ conn' = [conn EXCEPT ![p] = [at |-> "served", state |-> NothingShown]]
     \/ /\ p \notin open
        /\ inbox' = [inbox EXCEPT ![p] = << >>]
        /\ conn' = [conn EXCEPT ![p] = Unconnected]
  /\ UNCHANGED <<manager, unsent, open, reports, lost, crossed, stage, programme, disturbed>>

-----------------------------------------------------------------------------
\* The page's event handlers.

\* The script of p ends a handler with its variables as pg.
Become(p, pg) ==
  /\ page' = [page EXCEPT ![p] = pg]
  /\ watched' = [watched EXCEPT ![p] =
                   IF pg.timer.item = page[p].timer.item THEN @ ELSE 0]

\* A handler that starts or ends a clip: its timer has run for no time yet.
Restart(p, pg) ==
  /\ page' = [page EXCEPT ![p] = pg]
  /\ watched' = [watched EXCEPT ![p] = 0]

\* The page loads a medium or tells its media to play, from the start if they have
\* ended.
Play(p) == atEnd' = [atEnd EXCEPT ![p] = {}]

Mark(p, stale) == marred' = IF stale THEN marred \cup {p} ELSE marred

\* Plausible bug: the page reports whatever it shows when an event comes in.
ReportCurrent(p, pg, id) ==
  /\ Become(p, ClearTimer([pg EXCEPT !.reported = pg.current]))
  /\ reports' = IF pg.current = NoItem THEN reports
                ELSE reports \cup {<<p, pg.current>>}
  /\ UNCHANGED marred

\* Plausible bug: a page that is paused marks the report as sent and drops it.
ReportUnlessPaused(p, pg, id) ==
  IF id \in {NoItem, pg.reported}
  THEN Become(p, pg) /\ UNCHANGED <<reports, marred>>
  ELSE /\ Become(p, ClearTimer([pg EXCEPT !.reported = id]))
       /\ reports' = IF pg.paused THEN reports ELSE reports \cup {<<p, id>>}
       /\ Mark(p, id # pg.current)

\* reportEnded
ReportEnded(p, pg, id) ==
  IF id \in {NoItem, pg.reported}
  THEN Become(p, pg) /\ UNCHANGED <<reports, marred>>
  ELSE /\ Become(p, ClearTimer([pg EXCEPT !.reported = id]))
       /\ reports' = reports \cup {<<p, id>>}
       /\ Mark(p, id # pg.current)

\* The clip i was on the player before j was.
Before(i, j) ==
  \E m, n \in DOMAIN programme : m < n /\ programme[m] = i /\ programme[n] = j

\* A snapshot tells p that i is on the player.
Told(p, i) ==
  /\ latest' = IF i = NoItem \/ Before(i, latest[p]) THEN latest ELSE [latest EXCEPT ![p] = i]
  /\ sentBack' = IF Before(i, latest[p]) THEN sentBack \cup {p} ELSE sentBack

\* ws.onmessage
Receive(p) ==
  /\ inbox[p] # << >> /\ ~Greeting(p)
  /\ inbox' = [inbox EXCEPT ![p] = Tail(@)]
  /\ \E pg \in ApplyState(page[p], Head(inbox[p])) :
       IF Head(inbox[p]).nowPlaying = page[p].current
       THEN Become(p, pg) /\ UNCHANGED marred
       ELSE Restart(p, pg) /\ marred' = marred \ {p}
  /\ Told(p, Head(inbox[p]).nowPlaying)
  /\ IF Head(inbox[p]).nowPlaying = page[p].current /\ Head(inbox[p]).paused
     THEN UNCHANGED atEnd ELSE Play(p)
  /\ UNCHANGED <<manager, unsent, open, conn, reports, lost, crossed, endings, playedOut,
                 misnamed, programme, disturbed>>

\* onYouTubeIframeAPIReady starts the parked clip, whatever the page shows now.
ApiReady(p) ==
  LET pg == [page[p] EXCEPT !.api = TRUE, !.parked = NoItem]
      it == page[p].parked
  IN /\ ~page[p].api
     /\ IF it = NoItem THEN Become(p, pg)
                       ELSE \E started \in StartItem(pg, it) : Restart(p, started)
     /\ IF it = NoItem THEN UNCHANGED atEnd ELSE Play(p)
     /\ Mark(p, it \notin {NoItem, page[p].current})
     /\ UNCHANGED <<manager, network, endings, playedOut, latest, sentBack, misnamed, programme, disturbed>>

\* onReady of the YouTube player sets the timer of the clip it was created for.
PlayerReady(p) ==
  /\ page[p].made # NoItem
  /\ ~page[p].ready
  /\ Restart(p, StartTimer([page[p] EXCEPT !.ready = TRUE], page[p].made))
  /\ Play(p)
  /\ Mark(p, page[p].made # page[p].current)
  /\ UNCHANGED <<manager, network, endings, playedOut, latest, sentBack, misnamed, programme, disturbed>>

\* A medium plays to its natural end; the event is queued.  It ends again only if
\* it is played again.
MediumEnds(p, id) ==
  /\ \/ id = page[p].video
     \/ id = page[p].loaded /\ page[p].ready
  /\ id \notin endings[p] \cup atEnd[p] \cup {NoItem}
  /\ endings' = [endings EXCEPT ![p] = @ \cup {id}]
  /\ atEnd' = [atEnd EXCEPT ![p] = @ \cup {id}]
  /\ playedOut' = playedOut \cup {id}
  /\ UNCHANGED <<manager, network, page, watched, marred, latest, sentBack, misnamed, programme, disturbed>>

\* The id a media event is reported under: a video element has a handler of its
\* own, the YouTube player keeps the handler of the first clip.
HandlerItem(pg, id) == IF type[id] = "youtube" THEN pg.made ELSE id

HandleEnd(p, id) ==
  /\ id \in endings[p]
  /\ endings' = [endings EXCEPT ![p] = @ \ {id}]
  /\ ReportEnded(p, page[p], HandlerItem(page[p], id))
  /\ misnamed' = IF p \in sentBack /\ HandlerItem(page[p], id) # id
                 THEN misnamed \cup {HandlerItem(page[p], id)} ELSE misnamed
  /\ UNCHANGED <<manager, unsent, open, conn, inbox, lost, crossed, atEnd, playedOut, latest, sentBack, programme, disturbed>>

\* A tick of the clock while a timeout is set.
Tick(p) ==
  /\ page[p].timer.handle
  /\ page[p].timer.togo > 0
  /\ page' = [page EXCEPT ![p].timer.togo = @ - 1]
  /\ watched' = [watched EXCEPT ![p] =
                   IF page[p].timer.item = page[p].reported THEN @ ELSE @ + 1]
  /\ UNCHANGED <<manager, network, endings, atEnd, playedOut, marred, latest, sentBack, misnamed, programme, disturbed>>

\* The timeout's callback: the cap has run out.
Fire(p) ==
  LET it == page[p].timer.item
  IN /\ page[p].timer.handle
     /\ page[p].timer.togo = 0
     /\ playedOut' = playedOut \cup {it}
     /\ ReportEnded(p, [page[p] EXCEPT !.timer.handle = FALSE], it)
     /\ UNCHANGED <<manager, unsent, open, conn, inbox, lost, crossed, endings, atEnd, latest, sentBack,
                    misnamed, programme, disturbed>>

\* The page is loaded again.
Reload(p) ==
  /\ Disturb
  /\ page' = [page EXCEPT ![p] = FreshPage]
  /\ open' = open \ {p}
  /\ conn' = [conn EXCEPT ![p] = Unconnected]
  /\ inbox' = [inbox EXCEPT ![p] = << >>]
  /\ endings' = [endings EXCEPT ![p] = {}]
  /\ atEnd' = [atEnd EXCEPT ![p] = {}]
  /\ watched' = [watched EXCEPT ![p] = 0]
  /\ marred' = marred \ {p}
  /\ latest' = [latest EXCEPT ![p] = NoItem]
  /\ sentBack' = sentBack \ {p}
  /\ UNCHANGED <<manager, unsent, reports, lost, crossed, playedOut, misnamed, programme>>

-----------------------------------------------------------------------------
Init ==
  /\ pending = << >>
  /\ queue = << >>
  /\ nowPlaying = NoItem
  /\ paused = FALSE
  /\ bypass = TRUE
  /\ status = [i \in Items |-> "new"]
  /\ type \in Types
  /\ unsent = << >>
  /\ open = {}
  /\ conn = [p \in Pages |-> Unconnected]
  /\ inbox = [p \in Pages |-> << >>]
  /\ page = [p \in Pages |-> FreshPage]
  /\ endings = [p \in Pages |-> {}]
  /\ atEnd = [p \in Pages |-> {}]
  /\ reports = {}
  /\ watched = [p \in Pages |-> 0]
  /\ playedOut = {}
  /\ marred = {}
  /\ lost = {}
  /\ disturbed = 0
  /\ programme = << >>
  /\ latest = [p \in Pages |-> NoItem]
  /\ sentBack = {}
  /\ misnamed = {}
  /\ crossed = {}

PageStep(p) ==
  \/ Register(p) \/ Collect(p) \/ Greet(p) \/ Drop(p) \/ Reload(p)
  \/ Receive(p) \/ ApiReady(p) \/ PlayerReady(p)
  \/ Tick(p) \/ Fire(p)
  \/ \E id \in Items : \/ MediumEnds(p, id) \/ HandleEnd(p, id)
                       \/ Arrive(p, id) \/ Lose(p, id)

Next ==
  \/ Moderate
  \/ \E n \in DOMAIN unsent : Broadcast(n)
  \/ \E p \in Pages : PageStep(p)

\* A handler that has a snapshot broadcasts it, and one that serves a connection
\* goes on.  A page reconnects, handles its events and its clock runs; a request
\* that is not lost arrives.  YouTube need not load, and nobody need do anything.
Fairness ==
  /\ WF_vars(unsent # << >> /\ Broadcast(1))
  /\ \A p \in Pages :
       /\ WF_vars(Register(p) \/ Collect(p) \/ Greet(p))
       /\ WF_vars(Receive(p)) /\ WF_vars(Tick(p) \/ Fire(p))
       /\ \A id \in Items : WF_vars(Arrive(p, id))

Spec == Init /\ [][Next]_vars /\ Fairness

-----------------------------------------------------------------------------
\* Properties.

Snapshots == [nowPlaying : Items \cup {NoItem}, paused : BOOLEAN]

OfType(t) == {i \in Items : type[i] = t} \cup {NoItem}

Timers ==
  [item : Items \cup {NoItem}, remaining : Nat, handle : BOOLEAN, togo : Nat]

Scripts ==
  [api : BOOLEAN, made : OfType("youtube"), ready : BOOLEAN,
   loaded : OfType("youtube"), video : OfType("upload"),
   current : Items \cup {NoItem}, paused : BOOLEAN,
   parked : OfType("youtube"), timer : Timers, reported : Items \cup {NoItem}]

\* The page's variables and the network have their types; the queue's own are
\* checked with MediaQueue.
TypeOK ==
  /\ type \in [Items -> {"youtube", "upload"}]
  /\ unsent \in Seq(Snapshots) /\ Len(unsent) <= MaxUnsent
  /\ open \subseteq Pages
  /\ conn \in [Pages -> [at : {"off", "registered", "greeting", "served"}, state : Snapshots]]
  /\ inbox \in [Pages -> Seq(Snapshots)]
  /\ \A p \in Pages : Len(inbox[p]) <= Capacity
  /\ page \in [Pages -> Scripts]
  /\ endings \in [Pages -> SUBSET Items]
  /\ atEnd \in [Pages -> SUBSET Items]
  /\ reports \in SUBSET (Pages \X Items)
  /\ watched \in [Pages -> Nat]
  /\ playedOut \subseteq Items
  /\ marred \subseteq Pages
  /\ lost \in SUBSET (Pages \X Items)
  /\ programme \in Seq(Items)
  /\ latest \in [Pages -> Items \cup {NoItem}]
  /\ sentBack \subseteq Pages
  /\ misnamed \subseteq Items
  /\ crossed \subseteq Pages

\* A clip is only marked as done when it was played out somewhere: its medium
\* ended, or a page measured its whole cap.  Reports that name another clip, that
\* were overtaken by a skip, or that several pages send for one clip, finish no
\* clip early, in whatever order snapshots reach the pages.  The only exception is
\* a page that was told of a clip after one that followed it: its YouTube player may
\* have been made for the later clip, under whose id it reports the end of the
\* earlier one.
EndedIsPlayedOut ==
  \A i \in Items : status[i] = "done" => i \in playedOut \cup misnamed

\* The clip a page shows is limited by a cap that the page has to measure.
Measuring(p) ==
  /\ page[p].current # NoItem
  /\ Cap[page[p].current] > 0
  /\ type[page[p].current] = "youtube" => page[p].ready
  /\ page[p].reported # page[p].current

\* The timer was paused in the very instant it ran out, and is not set again.
Lapsed(p) ==
  /\ page[p].timer.item = page[p].current
  /\ ~page[p].timer.handle
  /\ page[p].timer.remaining = 0

\* What is paid for is what plays: pauses, resumptions, reconnects and changes
\* of clip in any order leave played and remaining time adding up to the cap, the
\* timer runs only while playback does, and it runs then for the clip shown,
\* unless a callback of an earlier clip has taken it or it has lapsed.
CapMeasured ==
  \A p \in Pages :
    LET t == page[p].timer
    IN /\ t.handle => ~page[p].paused
       /\ t.item \notin {NoItem, page[p].reported} =>
            watched[p] + (IF t.handle THEN t.togo ELSE t.remaining) = Cap[t.item]
       /\ Measuring(p) /\ p \notin marred =>
            /\ t.item = page[p].current
            /\ t.handle \/ page[p].paused \/ Lapsed(p)

\* The capped clip i stays on the player, with p connected and nobody pausing.
Unattended(p, i) ==
  Cap[i] > 0 /\ nowPlaying = i /\ ~paused /\ p \in open /\ conn[p].at = "served"

\* Snapshots crossed on their way to p, and the last it was given is not the
\* present state.
Outdated(p) ==
  p \in crossed /\ [nowPlaying |-> page[p].current, paused |-> page[p].paused] # Snapshot

\* What keeps p from ending i.
Hindered(p, i) ==
  \/ Outdated(p)
  \/ p \in marred
  \/ Lapsed(p)
  \/ page[p].reported = i /\ <<p, i>> \in lost
  \/ type[i] = "youtube" /\ ~page[p].ready

\* A clip with a cap ends by itself: it does not stay on the player for ever
\* while a page stays connected and nobody pauses, unless that page was left with
\* an old snapshot because changes or its greeting crossed, its report was lost, its
\* timer lapsed or was taken by an earlier clip's callback, or YouTube never loaded.
ClipEnds ==
  \A i \in Items, p \in Pages :
    <>[](Unattended(p, i)) => <>[](Hindered(p, i))

\* "Called by the player when a clip finishes" (handlers_player.go:5), with
\* the id of the item that finished (docs/data-flows.md:202): when the clip a
\* page shows has ended by itself, the page has reported that clip.
EndNamesTheClip ==
  [][\A p \in Pages, i \in Items :
       HandleEnd(p, i) /\ i = page[p].current => page'[p].reported = i]_vars
=============================================================================
