---------------------------- MODULE PagesProofs -----------------------------
(***************************************************************************)
(* Proofs about the two pages: PlayerPage, for any number of clips and     *)
(* pages, any caps and buffer, and SubmitPage, for any texts that          *)
(* are typed, any links, rate, balance and limits.                         *)
(*                                                                         *)
(* What MediaQueueProofs shows of the queue is taken over: a step of       *)
(* PlayerPage is, for the queue, one of its own operations or none.        *)
(***************************************************************************)
EXTENDS PlayerPage, SubmitPage, SequenceTheorems, WellFoundedInduction, TLAPS

QueueProofs == INSTANCE MediaQueueProofs WITH aired <- {}

-----------------------------------------------------------------------------
\* The player page: its inductive invariant.

\* The clip i was on the player, and is not any more.
Over(i) == i \in Items /\ status[i] \in {"done", "skipped"}

Aired(i) == i = NoItem \/ \E n \in DOMAIN programme : programme[n] = i

\* Clips go on the player one after another, each of them once, and only the last
\* of them is there now.
Programme ==
  /\ programme \in Seq(Items)
  /\ nowPlaying # NoItem => \E n \in DOMAIN programme : programme[n] = nowPlaying
  /\ \A n \in DOMAIN programme :
       Over(programme[n]) \/ (n = Len(programme) /\ programme[n] = nowPlaying)
  /\ \A m, n \in DOMAIN programme : m < n => programme[m] # programme[n]

\* What a snapshot may tell a page, in whatever order it comes.
Facts == {s \in Snapshots : Aired(s.nowPlaying)}

Networked ==
  /\ unsent \in Seq(Facts) /\ Len(unsent) <= MaxUnsent
  /\ open \subseteq Pages
  /\ conn \in [Pages -> [at : {"off", "registered", "greeting", "served"}, state : Facts]]
  /\ inbox \in [Pages -> Seq(Facts)]
  /\ \A p \in Pages : Len(inbox[p]) <= Capacity
  /\ crossed \subseteq Pages

\* A page that was told of clips up to l has learnt of x.
Reached(x, l) == x # NoItem => Aired(x) /\ (x = l \/ Before(x, l))

\* What the YouTube player of a page has been through: as long as the page is not
\* sent back, the clip the player was made for is over when it plays another.
Loading(pg, back) ==
  /\ pg.parked # NoItem => ~pg.api
  /\ ~pg.api => pg.made = NoItem
  /\ pg.made = NoItem => pg.loaded = NoItem /\ ~pg.ready
  /\ pg.loaded \notin {NoItem, pg.made} => Over(pg.made) \/ back

\* An end is reported under a clip that was played out or is over, or by a page
\* that was sent back.
Named(pg, back, i) ==
  /\ i \in playedOut
  /\ type[i] = "youtube" => pg.made # NoItem /\ (i # pg.made => Over(pg.made) \/ back)

Left(t) == IF t.handle THEN t.togo ELSE t.remaining

\* CapMeasured for one page, whose timer ran for w ticks.
Measured(pg, w, mar) ==
  /\ pg.timer.handle => ~pg.paused /\ pg.timer.item # NoItem
  /\ pg.timer.item \notin {NoItem, pg.reported} =>
       w + Left(pg.timer) = Cap[pg.timer.item]
  /\ /\ ~mar
     /\ pg.current # NoItem
     /\ Cap[pg.current] > 0
     /\ type[pg.current] = "youtube" => pg.ready
     /\ pg.reported # pg.current
     => /\ pg.timer.item = pg.current
        /\ \/ pg.timer.handle \/ pg.paused
           \/ ~pg.timer.handle /\ pg.timer.remaining = 0

\* The page shows pg, was told of clips up to l and sent back or not; the ends in
\* e wait to be handled and the timer ran for w ticks.
PageInv(pg, l, back, e, w, mar) ==
  /\ Aired(l)
  /\ Reached(pg.made, l) /\ Reached(pg.parked, l)
  /\ Loading(pg, back)
  /\ \A i \in e : Named(pg, back, i)
  /\ Measured(pg, w, mar)

Credited(i) == i \in playedOut \cup misnamed \/ Over(i)

IInv ==
  /\ QueueProofs!IInv
  /\ TypeOK
  /\ Programme
  /\ Networked
  /\ \A p \in Pages : PageInv(page[p], latest[p], p \in sentBack, endings[p],
                              watched[p], p \in marred)
  /\ \A r \in reports : Credited(r[2])
  /\ EndedIsPlayedOut

-----------------------------------------------------------------------------
\* The queue.

LEMMA QueueAssumed == QueueProofs!NoItemAssumption
BY ClipAssumption DEF QueueProofs!NoItemAssumption

Still == UNCHANGED <<pending, queue, nowPlaying, paused, bypass, status>>

\* The operations that the two instances share.
LEMMA QueueAgrees ==
  /\ \A id : Manager!Submit(id) => QueueProofs!Submit(id)
  /\ \A id : Manager!RemoveQueued(id) => QueueProofs!RemoveQueued(id)
  /\ \A id : Manager!Ended(id) => QueueProofs!Ended(id)
  /\ Manager!Skip => QueueProofs!Skip
  /\ \A b : Manager!SetPaused(b) => QueueProofs!SetPaused(b)
  /\ \A all : Manager!Clear(all) => QueueProofs!Clear(all)
<1>1. \A q, np, st : Manager!StartIfIdle(q, np, st) = QueueProofs!StartIfIdle(q, np, st)
  BY Zenon DEF Manager!StartIfIdle, QueueProofs!StartIfIdle
<1>2. ASSUME NEW id, Manager!Submit(id) PROVE QueueProofs!Submit(id)
  BY <1>1, <1>2, Zenon DEF Manager!Submit, QueueProofs!Submit
<1>3. ASSUME NEW id, Manager!RemoveQueued(id) PROVE QueueProofs!RemoveQueued(id)
  BY <1>3, Zenon
  DEF Manager!RemoveQueued, QueueProofs!RemoveQueued, Manager!RemoveAt, QueueProofs!RemoveAt
<1>4. ASSUME NEW id, Manager!Ended(id) PROVE QueueProofs!Ended(id)
  BY <1>1, <1>4, Zenon DEF Manager!Ended, QueueProofs!Ended
<1>5. Manager!Skip => QueueProofs!Skip
  BY <1>1, Zenon DEF Manager!Skip, QueueProofs!Skip
<1>6. ASSUME NEW b, Manager!SetPaused(b) PROVE QueueProofs!SetPaused(b)
  BY <1>6, Zenon DEF Manager!SetPaused, QueueProofs!SetPaused
<1>7. ASSUME NEW all, Manager!Clear(all) PROVE QueueProofs!Clear(all)
  BY <1>7, Zenon
  DEF Manager!Clear, QueueProofs!Clear, Manager!ToAll, QueueProofs!ToAll,
      Manager!ToSet, QueueProofs!ToSet
<1> QED
  BY <1>1, <1>2, <1>3, <1>4, <1>5, <1>6, <1>7

\* What the server does to the queue keeps the queue's own invariant.
LEMMA ManagerKeeps ==
  ASSUME QueueProofs!IInv, Moderate \/ \E p \in Pages, id \in Items : Arrive(p, id)
  PROVE  QueueProofs!Kept
<1>1. CASE Moderate
  <2>1. \/ \E id \in Items : QueueProofs!Submit(id) \/ QueueProofs!RemoveQueued(id)
        \/ QueueProofs!Skip
        \/ \E p \in BOOLEAN : QueueProofs!SetPaused(p)
        \/ \E all \in BOOLEAN : QueueProofs!Clear(all)
    <3>1. FALSE \in BOOLEAN
      OBVIOUS
    <3> QED
      BY <1>1, <3>1, QueueAgrees, Zenon DEF Moderate
  <2> QED
    BY <2>1, QueueAssumed, QueueProofs!SubmitKeeps, QueueProofs!RemoveQueuedKeeps,
       QueueProofs!SkipKeeps, QueueProofs!SwitchesKeep, QueueProofs!ClearKeeps
<1>2. ASSUME NEW p, NEW id \in Items, Arrive(p, id) PROVE QueueProofs!Kept
  BY <1>2, QueueAgrees, QueueAssumed, QueueProofs!EndedKeeps DEF Arrive
<1> QED
  BY <1>1, <1>2

\* A step of the composition is an operation of the queue, or leaves it alone.
Moved == QueueProofs!IInv /\ (QueueProofs!Kept \/ Still)

LEMMA QueueKept == Moved => QueueProofs!IInv'
BY DEF Moved, Still, QueueProofs!IInv, QueueProofs!Kept, QueueProofs!Typed,
       QueueProofs!TypeOK, QueueProofs!StatusMatchesPlace, QueueProofs!NeverIdleWithWork

\* A clip that is over stays so, and one that gives way on the player is over.
LEMMA ClipsMoveOn ==
  ASSUME Moved
  PROVE  /\ \A i : Over(i) => Over(i)' /\ i \notin {nowPlaying, nowPlaying'}
         /\ \A i : i = nowPlaying /\ i \notin {NoItem, nowPlaying'} => Over(i)'
         /\ nowPlaying \in Items \cup {NoItem} /\ nowPlaying' \in Items \cup {NoItem}
<1>1. nowPlaying \in Items \cup {NoItem} /\ nowPlaying' \in Items \cup {NoItem}
  BY QueueKept DEF Moved, QueueProofs!IInv, QueueProofs!TypeOK
<1>2. /\ \A i \in Items : nowPlaying = i <=> status[i] = "playing"
      /\ \A i \in Items : nowPlaying' = i <=> status'[i] = "playing"
  BY DEF Moved, Still, QueueProofs!IInv, QueueProofs!StatusMatchesPlace, QueueProofs!Placed,
         QueueProofs!Kept
<1>3. \A i \in Items :
        status'[i] = status[i] \/ status'[i] \in QueueProofs!Lifecycle!After(status[i])
  BY DEF Moved, Still, QueueProofs!Kept, QueueProofs!Forward
<1>4. \A i \in Items : status[i] \in {"done", "skipped"} => status'[i] = status[i]
  BY <1>3 DEF QueueProofs!Lifecycle!After
<1>5. \A i \in Items : status[i] = "playing" => status'[i] \in {"playing", "done", "skipped"}
  BY <1>3 DEF QueueProofs!Lifecycle!After
<1>6. \A i : Over(i) => Over(i)' /\ i \notin {nowPlaying, nowPlaying'}
  BY <1>2, <1>4 DEF Over
<1>7. \A i : i = nowPlaying /\ i \notin {NoItem, nowPlaying'} => Over(i)'
  BY <1>1, <1>2, <1>5 DEF Over
<1> QED
  BY <1>1, <1>6, <1>7

-----------------------------------------------------------------------------
\* The programme.

\* The clips that have been on the player are in a strict order.
LEMMA ProgrammeOrders ==
  ASSUME Programme
  PROVE  /\ \A i, j : Before(i, j) => Over(i) /\ NoItem \notin {i, j}
         /\ \A i, j : /\ Aired(i) /\ Aired(j) /\ i # j /\ NoItem \notin {i, j}
                      => Before(i, j) \/ Before(j, i)
         /\ \A i, j, k : Before(i, j) /\ Before(j, k) => Before(i, k)
<1>1. /\ Len(programme) \in Nat /\ DOMAIN programme = 1 .. Len(programme)
      /\ \A n \in DOMAIN programme : programme[n] \in Items
  BY LenProperties, ElementOfSeq DEF Programme
<1>2. \A n \in DOMAIN programme : programme[n] # NoItem
  BY <1>1, ClipAssumption
<1>3. ASSUME NEW i, NEW j, Before(i, j) PROVE Over(i) /\ NoItem \notin {i, j}
  <2>1. PICK m, n \in DOMAIN programme : m < n /\ programme[m] = i /\ programme[n] = j
    BY <1>3 DEF Before
  <2>2. m # Len(programme)
    BY <1>1, <2>1
  <2> QED
    BY <1>2, <2>1, <2>2 DEF Programme
<1>4. ASSUME NEW i, NEW j, Aired(i), Aired(j), i # j, NoItem \notin {i, j}
      PROVE  Before(i, j) \/ Before(j, i)
  <2>1. PICK m \in DOMAIN programme : programme[m] = i
    BY <1>4 DEF Aired
  <2>2. PICK n \in DOMAIN programme : programme[n] = j
    BY <1>4 DEF Aired
  <2>3. m < n \/ n < m
    BY <1>1, <1>4, <2>1, <2>2
  <2> QED
    BY <2>1, <2>2, <2>3 DEF Before
<1>5. ASSUME NEW i, NEW j, NEW k, Before(i, j), Before(j, k) PROVE Before(i, k)
  <2>1. PICK m, n \in DOMAIN programme : m < n /\ programme[m] = i /\ programme[n] = j
    BY <1>5 DEF Before
  <2>2. PICK o, q \in DOMAIN programme : o < q /\ programme[o] = j /\ programme[q] = k
    BY <1>5 DEF Before
  <2>3. n = o
    BY <1>1, <2>1, <2>2 DEF Programme
  <2>4. m < q
    BY <1>1, <2>1, <2>2, <2>3
  <2> QED
    BY <2>1, <2>2, <2>4 DEF Before
<1> QED
  BY <1>3, <1>4, <1>5

LEMMA PlayingIsAired == Programme => Aired(nowPlaying)
BY DEF Programme, Aired

\* What has been told stays true as the programme goes on.
Advances ==
  /\ \A i : Over(i) => Over(i)'
  /\ \A i : Aired(i) => Aired(i)'
  /\ \A i, j : Before(i, j) => Before(i, j)'

LEMMA ProgrammeStands ==
  ASSUME Moved, UNCHANGED <<programme, nowPlaying>>, Programme
  PROVE  Programme' /\ Advances
BY ClipsMoveOn DEF Programme, Advances, Aired, Before

LEMMA ProgrammeAdvances ==
  ASSUME Moved, Programme, Publish
  PROVE  Programme' /\ Advances
<1>1. PICK g : g = programme
  OBVIOUS
<1>2. /\ g \in Seq(Items) /\ Len(g) \in Nat /\ DOMAIN g = 1 .. Len(g)
      /\ \A n \in DOMAIN g : g[n] \in Items /\ g[n] # NoItem
      /\ \A n \in DOMAIN g : Over(g[n]) \/ (n = Len(g) /\ g[n] = nowPlaying)
      /\ \A m, n \in DOMAIN g : m < n => g[m] # g[n]
  BY <1>1, LenProperties, ElementOfSeq, ClipAssumption DEF Programme
<1>3. CASE nowPlaying' \in {NoItem, nowPlaying}
  <2>1. programme' = g
    BY <1>1, <1>3 DEF Publish
  <2>2. \A n \in DOMAIN g : Over(g[n])' \/ (n = Len(g) /\ g[n] = nowPlaying')
    BY <1>2, <1>3, ClipsMoveOn
  <2>3. nowPlaying' # NoItem => \E n \in DOMAIN g : g[n] = nowPlaying'
    BY <1>1, <1>3 DEF Programme
  <2>4. Programme'
    BY <1>2, <2>1, <2>2, <2>3 DEF Programme
  <2> QED
    BY <1>1, <2>1, <2>4, ClipsMoveOn DEF Advances, Aired, Before
<1>4. CASE nowPlaying' \notin {NoItem, nowPlaying}
  <2>1. PICK np : np = nowPlaying' /\ np \in Items
    BY <1>4, ClipsMoveOn
  <2>2. PICK h : h = Append(g, np)
    OBVIOUS
  <2>3. /\ h \in Seq(Items) /\ Len(h) = Len(g) + 1 /\ DOMAIN h = 1 .. Len(h)
        /\ \A n \in DOMAIN g : h[n] = g[n]
        /\ h[Len(h)] = np
    BY <1>2, <2>1, <2>2, AppendProperties, LenProperties
  <2>4. programme' = h
    BY <1>1, <1>4, <2>1, <2>2 DEF Publish
  <2>5. /\ DOMAIN g \subseteq DOMAIN h /\ Len(h) \in DOMAIN h
        /\ \A n \in DOMAIN h : n \in DOMAIN g \/ n = Len(h)
    BY <1>2, <2>3
  <2>6. \A n \in DOMAIN g : Over(g[n])' /\ g[n] # np
    BY <1>2, <1>4, <2>1, ClipsMoveOn
  <2>7. \A n \in DOMAIN h : Over(h[n])' \/ (n = Len(h) /\ h[n] = nowPlaying')
    BY <2>1, <2>3, <2>5, <2>6
  <2>8. ASSUME NEW m \in DOMAIN h, NEW n \in DOMAIN h, m < n PROVE h[m] # h[n]
    <3>1. m \in DOMAIN g
      BY <1>2, <2>3, <2>8
    <3>2. CASE n \in DOMAIN g
      BY <1>2, <2>3, <2>8, <3>1, <3>2
    <3>3. CASE n = Len(h)
      BY <2>3, <2>6, <3>1, <3>3
    <3> QED
      BY <2>5, <3>2, <3>3
  <2>9. \E n \in DOMAIN h : h[n] = nowPlaying'
    BY <2>1, <2>3, <2>5
  <2>10. Programme'
    BY <2>3, <2>4, <2>7, <2>8, <2>9 DEF Programme
  <2>11. /\ \A i : Aired(i) => Aired(i)'
         /\ \A i, j : Before(i, j) => Before(i, j)'
    BY <1>1, <2>3, <2>4, <2>5 DEF Aired, Before
  <2> QED
    BY <2>10, <2>11, ClipsMoveOn DEF Advances
<1> QED
  BY <1>3, <1>4

-----------------------------------------------------------------------------
\* The server and the network.

LEMMA FactsTyped == Facts \subseteq Snapshots /\ \A s \in Seq(Facts) : s \in Seq(Snapshots)
<1>1. Facts \subseteq Snapshots
  BY DEF Facts
<1> QED
  BY <1>1, SeqMonotonic

LEMMA FactsStand ==
  ASSUME Advances
  PROVE  Facts \subseteq Facts' /\ \A s \in Seq(Facts) : s \in Seq(Facts')
<1>1. Facts \subseteq Facts'
  BY DEF Facts, Advances, Snapshots
<1> QED
  BY <1>1, SeqMonotonic

LEMMA SnapshotIsFact ==
  ASSUME QueueProofs!IInv, Programme
  PROVE  Snapshot \in Facts
BY PlayingIsAired DEF QueueProofs!IInv, QueueProofs!TypeOK, Snapshot, Snapshots, Facts

\* A handler has one more snapshot to broadcast.
LEMMA PublishKeeps ==
  ASSUME IInv, Moved, Publish
  PROVE  Networked' /\ Programme' /\ Advances
<1>1. Programme' /\ Advances
  BY ProgrammeAdvances DEF IInv
<1>2. (Snapshot \in Facts)'
  BY <1>1, QueueKept, SnapshotIsFact, PTL
<1>3. PICK F : F = Facts'
  OBVIOUS
<1>4. Facts \subseteq F /\ \A s \in Seq(Facts) : s \in Seq(F)
  BY <1>1, <1>3, FactsStand
<1>5. unsent \in Seq(F) /\ Snapshot' \in F
  BY <1>2, <1>3, <1>4 DEF IInv, Networked
<1>6. unsent' \in Seq(F) /\ Len(unsent') <= MaxUnsent
  <2>1. Len(unsent) \in Nat /\ Len(unsent) < MaxUnsent /\ unsent' = Append(unsent, Snapshot')
    BY <1>5, LenProperties DEF Publish
  <2>2. Append(unsent, Snapshot') \in Seq(F) /\ Len(Append(unsent, Snapshot')) = Len(unsent) + 1
    BY <1>5, AppendProperties
  <2> QED
    BY <2>1, <2>2, BoundAssumption
<1>7. /\ UNCHANGED <<open, conn, inbox>> /\ crossed' \subseteq Pages
  BY DEF Publish, IInv, Networked
<1>8. /\ conn \in [Pages -> [at : {"off", "registered", "greeting", "served"}, state : F]]
      /\ inbox \in [Pages -> Seq(F)]
  BY <1>4 DEF IInv, Networked
<1> QED
  BY <1>1, <1>3, <1>6, <1>7, <1>8 DEF IInv, Networked

\* A moderator finishes no clip.
LEMMA ModeratorFinishesNothing ==
  ASSUME QueueProofs!IInv, Moderate, NEW i \in Items, status'[i] = "done"
  PROVE  status[i] = "done"
<1>1. status \in [Items -> QueueProofs!Lifecycle!Stages]
  BY DEF QueueProofs!IInv, QueueProofs!TypeOK
<1>2. ASSUME NEW q, NEW np, NEW st \in [Items -> QueueProofs!Lifecycle!Stages],
             Manager!StartIfIdle(q, np, st)
      PROVE  status'[i] \in {st[i], "playing"}
  BY <1>2 DEF Manager!StartIfIdle
<1>3. ASSUME NEW id \in Items, Manager!Submit(id) PROVE status[i] = "done"
  <2>1. PICK x \in {"approved", "pending"} :
          \E q : Manager!StartIfIdle(q, nowPlaying, [status EXCEPT ![id] = x])
    BY <1>3 DEF Manager!Submit
  <2>2. PICK q : Manager!StartIfIdle(q, nowPlaying, [status EXCEPT ![id] = x])
    BY <2>1
  <2>3. [status EXCEPT ![id] = x] \in [Items -> QueueProofs!Lifecycle!Stages]
    BY <1>1 DEF QueueProofs!Lifecycle!Stages
  <2> QED
    BY <1>1, <1>2, <2>2, <2>3
<1>4. ASSUME NEW id \in Items, Manager!RemoveQueued(id) PROVE status[i] = "done"
  BY <1>1, <1>4 DEF Manager!RemoveQueued
<1>5. ASSUME Manager!Skip PROVE status[i] = "done"
  <2>1. CASE nowPlaying # NoItem
    <3>1. Manager!StartIfIdle(queue, NoItem, [status EXCEPT ![nowPlaying] = "skipped"])
      BY <1>5, <2>1 DEF Manager!Skip
    <3>2. [status EXCEPT ![nowPlaying] = "skipped"] \in [Items -> QueueProofs!Lifecycle!Stages]
      BY <1>1 DEF QueueProofs!Lifecycle!Stages
    <3> QED
      BY <1>1, <1>2, <3>1, <3>2
  <2>2. CASE nowPlaying = NoItem
    BY <1>1, <1>2, <1>5, <2>2 DEF Manager!Skip
  <2> QED
    BY <2>1, <2>2
<1>6. ASSUME NEW all, Manager!Clear(all) PROVE status[i] = "done"
  BY <1>1, <1>6 DEF Manager!Clear, Manager!ToAll
<1> QED
  BY <1>3, <1>4, <1>5, <1>6 DEF Moderate, Manager!SetPaused

\* A report finishes the clip it names, which has been played out.
LEMMA ReportFinishesPlayedOut ==
  ASSUME IInv, NEW p \in Pages, NEW id \in Items, Arrive(p, id),
         NEW i \in Items, status'[i] = "done"
  PROVE  status[i] = "done" \/ i \in playedOut \cup misnamed
<1>1. /\ status \in [Items -> QueueProofs!Lifecycle!Stages]
      /\ \A k \in Items : nowPlaying = k <=> status[k] = "playing"
  BY DEF IInv, QueueProofs!IInv, QueueProofs!TypeOK, QueueProofs!StatusMatchesPlace,
         QueueProofs!Placed
<1>2. ASSUME NEW q, NEW np, NEW st \in [Items -> QueueProofs!Lifecycle!Stages],
             Manager!StartIfIdle(q, np, st)
      PROVE  status'[i] \in {st[i], "playing"}
  BY <1>2 DEF Manager!StartIfIdle
<1>3. Credited(id)
  BY DEF Arrive, IInv
<1>4. CASE nowPlaying # NoItem /\ id \in {NoItem, nowPlaying}
  <2>1. Manager!StartIfIdle(queue, NoItem, [status EXCEPT ![nowPlaying] = "done"])
    BY <1>4 DEF Arrive, Manager!Ended
  <2>2. [status EXCEPT ![nowPlaying] = "done"] \in [Items -> QueueProofs!Lifecycle!Stages]
    BY <1>1 DEF QueueProofs!Lifecycle!Stages
  <2>3. id = nowPlaying
    BY <1>4, ClipAssumption
  <2>4. id \in playedOut \cup misnamed
    BY <1>1, <1>3, <2>3 DEF Credited, Over
  <2>5. i # id => status'[i] \in {status[i], "playing"}
    BY <1>1, <1>2, <2>1, <2>2, <2>3
  <2> QED
    BY <2>4, <2>5
<1>5. CASE ~(nowPlaying # NoItem /\ id \in {NoItem, nowPlaying})
  BY <1>1, <1>2, <1>5 DEF Arrive, Manager!Ended
<1> QED
  BY <1>4, <1>5

\* A step of the server or of the network, which leaves the stages alone.
LEMMA ServerKeeps ==
  ASSUME IInv, Moved, UNCHANGED <<type, stage>>, Networked', Programme', Advances,
         reports' \subseteq reports, lost' \in SUBSET (Pages \X Items), EndedIsPlayedOut'
  PROVE  IInv'
<1>1. QueueProofs!IInv'
  BY QueueKept
<1>2. UNCHANGED <<page, endings, atEnd, watched, playedOut, marred, latest, sentBack, misnamed>>
  BY DEF stage
<1>3. TypeOK'
  <2>1. Scripts' = Scripts
    BY DEF Scripts, OfType
  <2>2. (Facts \subseteq Snapshots /\ \A s \in Seq(Facts) : s \in Seq(Snapshots))'
    BY FactsTyped, PTL
  <2>3. /\ unsent' \in Seq(Snapshots') /\ inbox' \in [Pages -> Seq(Snapshots')]
        /\ conn' \in [Pages -> [at : {"off", "registered", "greeting", "served"},
                                state : Snapshots']]
    BY <2>2 DEF Networked
  <2>4. reports' \in SUBSET (Pages \X Items) /\ programme' \in Seq(Items)
    BY DEF IInv, TypeOK, Programme
  <2> QED
    BY <1>2, <2>1, <2>3, <2>4 DEF IInv, TypeOK, Networked
<1>4. ASSUME NEW p \in Pages
      PROVE  PageInv(page[p], latest[p], p \in sentBack, endings[p], watched[p], p \in marred)'
  <2>1. PICK pg, l, back, e, w, mar :
          /\ pg = page[p] /\ l = latest[p] /\ back = (p \in sentBack)
          /\ e = endings[p] /\ w = watched[p] /\ mar = (p \in marred)
    OBVIOUS
  <2>2. PageInv(pg, l, back, e, w, mar)
    BY <2>1 DEF IInv
  <2>3. Aired(l)' /\ Reached(pg.made, l)' /\ Reached(pg.parked, l)'
    BY <2>2 DEF PageInv, Reached, Advances
  <2>4. Loading(pg, back)' /\ \A i \in e : Named(pg, back, i)'
    BY <1>2, <2>2 DEF PageInv, Loading, Named, Advances
  <2>5. Measured(pg, w, mar)'
    BY <2>2 DEF PageInv, Measured, Left
  <2>6. PageInv(pg, l, back, e, w, mar)'
    BY <2>3, <2>4, <2>5 DEF PageInv
  <2> QED
    BY <1>2, <2>1, <2>6
<1>5. (\A r \in reports : Credited(r[2]))'
  BY <1>2 DEF IInv, Credited, Advances
<1> QED
  BY <1>1, <1>3, <1>4, <1>5 DEF IInv

LEMMA ModerateKeeps == IInv /\ Moderate => IInv'
<1> SUFFICES ASSUME IInv, Moderate PROVE IInv'
  OBVIOUS
<1>1. Moved /\ Publish
  BY ManagerKeeps DEF IInv, Moved, Moderate
<1>2. UNCHANGED <<type, reports, lost, stage>>
  BY DEF Moderate
<1>3. EndedIsPlayedOut'
  BY <1>2, ModeratorFinishesNothing DEF IInv, EndedIsPlayedOut, stage
<1> QED
  BY <1>1, <1>2, <1>3, PublishKeeps, ServerKeeps DEF IInv, TypeOK

LEMMA ArriveKeeps ==
  ASSUME IInv, NEW p \in Pages, NEW id \in Items, Arrive(p, id)
  PROVE  IInv'
<1>1. Moved /\ Publish
  BY ManagerKeeps DEF IInv, Moved, Arrive
<1>2. UNCHANGED <<type, lost, stage>> /\ reports' \subseteq reports
  BY DEF Arrive
<1>3. EndedIsPlayedOut'
  BY <1>2, ReportFinishesPlayedOut DEF IInv, EndedIsPlayedOut, stage
<1> QED
  BY <1>1, <1>2, <1>3, PublishKeeps, ServerKeeps DEF IInv, TypeOK

\* A step that the queue takes no part in.
LEMMA QuietKeeps ==
  ASSUME IInv, UNCHANGED <<manager, programme>>
  PROVE  /\ Moved /\ QueueProofs!IInv' /\ Programme' /\ Advances
         /\ Facts' = Facts
<1>1. UNCHANGED <<pending, queue, nowPlaying, paused, bypass, status, type, programme>>
  BY DEF manager
<1>2. Moved /\ QueueProofs!IInv'
  BY <1>1, QueueKept DEF IInv, Moved, Still
<1>3. Programme' /\ Advances
  BY <1>1, <1>2, ProgrammeStands DEF IInv
<1>4. Facts' = Facts
  BY <1>1 DEF Facts, Snapshots, Aired
<1> QED
  BY <1>2, <1>3, <1>4

LEMMA NetworkKeeps ==
  ASSUME IInv, UNCHANGED <<manager, programme, stage>>, reports' \subseteq reports,
         lost' \in SUBSET (Pages \X Items), Networked'
  PROVE  IInv'
<1>1. EndedIsPlayedOut'
  BY DEF IInv, EndedIsPlayedOut, manager, stage
<1> QED
  BY <1>1, QuietKeeps, ServerKeeps DEF manager

\* Each connection is sent the snapshot, or the hub drops it.
LEMMA BroadcastKeeps ==
  ASSUME IInv, NEW n \in DOMAIN unsent, Broadcast(n)
  PROVE  IInv'
<1> DEFINE keeping == {p \in open : Len(inbox[p]) < Capacity}
           r == RemoveAt(unsent, n)
<1>1. /\ open' = keeping /\ unsent' = r
      /\ inbox' = [p \in Pages |-> IF p \in keeping THEN Append(inbox[p], unsent[n])
                                   ELSE inbox[p]]
      /\ UNCHANGED <<manager, conn, reports, lost, crossed, stage, programme>>
  BY DEF Broadcast
<1>2. Facts' = Facts
  BY <1>1, QuietKeeps
<1>3. /\ unsent \in Seq(Facts) /\ Len(unsent) \in Nat /\ n \in 1 .. Len(unsent)
      /\ unsent[n] \in Facts
  BY LenProperties, ElementOfSeq DEF IInv, Networked
<1>4. r \in Seq(Facts) /\ Len(r) = Len(unsent) - 1
  <2>1. r = QueueProofs!RemoveAt(unsent, n)
    BY DEF RemoveAt, QueueProofs!RemoveAt
  <2> QED
    BY <1>3, <2>1, QueueAssumed, QueueProofs!RemoveAtElements
<1>5. ASSUME NEW p \in Pages
      PROVE  inbox'[p] \in Seq(Facts) /\ Len(inbox'[p]) <= Capacity
  <2>1. inbox[p] \in Seq(Facts) /\ Len(inbox[p]) \in Nat /\ Len(inbox[p]) <= Capacity
    BY LenProperties DEF IInv, Networked
  <2>2. /\ Append(inbox[p], unsent[n]) \in Seq(Facts)
        /\ Len(Append(inbox[p], unsent[n])) = Len(inbox[p]) + 1
    BY <1>3, <2>1, AppendProperties
  <2>3. inbox'[p] = IF p \in keeping THEN Append(inbox[p], unsent[n]) ELSE inbox[p]
    BY <1>1
  <2> QED
    BY <2>1, <2>2, <2>3, BoundAssumption
<1>6. inbox' \in [Pages -> Seq(Facts)] /\ open' \subseteq Pages
  BY <1>1, <1>5 DEF IInv, Networked
<1>7. Len(unsent') <= MaxUnsent /\ unsent' \in Seq(Facts)
  BY <1>1, <1>3, <1>4, BoundAssumption DEF IInv, Networked
<1> HIDE DEF r, keeping
<1>8. Networked'
  BY <1>1, <1>2, <1>5, <1>6, <1>7 DEF IInv, Networked
<1> QED
  BY <1>1, <1>8, NetworkKeeps DEF IInv, TypeOK

\* The snapshots that one page has yet to read become s, its connection c.
LEMMA ConnectionKeeps ==
  ASSUME IInv, NEW p \in Pages, NEW s \in Seq(Facts), Len(s) <= Capacity,
         NEW c \in [at : {"off", "registered", "greeting", "served"}, state : Facts],
         inbox' = [inbox EXCEPT ![p] = s], conn' = [conn EXCEPT ![p] = c],
         open' \subseteq Pages, crossed' \subseteq Pages,
         UNCHANGED <<manager, programme, unsent>>
  PROVE  Networked'
<1>1. Facts' = Facts
  BY QuietKeeps
<1>2. inbox' \in [Pages -> Seq(Facts)] /\ \A q \in Pages : Len(inbox'[q]) <= Capacity
  BY DEF IInv, Networked
<1>3. conn' \in [Pages -> [at : {"off", "registered", "greeting", "served"}, state : Facts]]
  BY DEF IInv, Networked
<1> QED
  BY <1>1, <1>2, <1>3 DEF IInv, Networked

\* What the network does by itself.
LEMMA ConnectingKeeps ==
  ASSUME IInv, NEW p \in Pages,
         Register(p) \/ Collect(p) \/ Greet(p) \/ Drop(p) \/ \E id \in Items : Lose(p, id)
  PROVE  IInv'
<1> DEFINE Conns == [at : {"off", "registered", "greeting", "served"}, state : Facts]
<1>1. UNCHANGED <<manager, programme, stage, unsent>> /\ reports' \subseteq reports
  BY DEF Register, Collect, Greet, Drop, Lose
<1>2. /\ inbox \in [Pages -> Seq(Facts)] /\ conn \in [Pages -> Conns]
      /\ inbox[p] \in Seq(Facts) /\ Len(inbox[p]) \in Nat /\ Len(inbox[p]) <= Capacity
      /\ conn[p] \in Conns /\ open \subseteq Pages /\ crossed \subseteq Pages
  BY LenProperties DEF IInv, Networked
<1>3. NothingShown \in Facts /\ Snapshot \in Facts
  BY SnapshotIsFact DEF NothingShown, Facts, Snapshots, Aired, IInv
<1>4. Unconnected \in Conns /\ << >> \in Seq(Facts) /\ Len(<< >>) = 0 /\ 0 <= Capacity
  BY <1>3, BoundAssumption DEF Unconnected
<1>5. /\ inbox = [inbox EXCEPT ![p] = inbox[p]]
      /\ conn = [conn EXCEPT ![p] = conn[p]]
  BY <1>2
<1>6. ASSUME NEW s \in Seq(Facts), Len(s) <= Capacity, NEW c \in Conns,
             inbox' = [inbox EXCEPT ![p] = s], conn' = [conn EXCEPT ![p] = c],
             open' \subseteq Pages, crossed' \subseteq Pages, UNCHANGED lost
      PROVE  IInv'
  BY <1>1, <1>6, ConnectionKeeps, NetworkKeeps DEF IInv, TypeOK
<1>7. CASE Register(p)
  <2> DEFINE c == [conn[p] EXCEPT !.at = "registered"]
  <2>1. c \in Conns /\ conn' = [conn EXCEPT ![p] = c]
    BY <1>2, <1>7 DEF Register
  <2>2. inbox' = inbox /\ lost' = lost /\ open' \subseteq Pages /\ crossed' \subseteq Pages
    BY <1>2, <1>7 DEF Register
  <2> HIDE DEF c, Conns
  <2> QED
    BY <1>2, <1>5, <1>6, <2>1, <2>2
<1>8. CASE Collect(p)
  <2> DEFINE c == [at |-> "greeting", state |-> Snapshot]
  <2>1. c \in Conns /\ conn' = [conn EXCEPT ![p] = c]
    BY <1>3, <1>8 DEF Collect
  <2>2. inbox' = inbox /\ lost' = lost /\ open' \subseteq Pages /\ crossed' \subseteq Pages
    BY <1>2, <1>8 DEF Collect
  <2> HIDE DEF c, Conns
  <2> QED
    BY <1>2, <1>5, <1>6, <2>1, <2>2
<1>9. CASE Greet(p)
  <2>1. lost' = lost /\ open' \subseteq Pages /\ crossed' \subseteq Pages
    BY <1>2, <1>9 DEF Greet
  <2>2. CASE p \in open /\ Len(inbox[p]) < Capacity
    <3> DEFINE s == Append(inbox[p], conn[p].state)
               c == [at |-> "served", state |-> NothingShown]
    <3>1. conn[p].state \in Facts
      BY <1>2
    <3>2. s \in Seq(Facts) /\ Len(s) = Len(inbox[p]) + 1
      BY <1>2, <3>1, AppendProperties
    <3>3. Len(s) <= Capacity
      BY <1>2, <2>2, <3>2, BoundAssumption
    <3>4. c \in Conns /\ inbox' = [inbox EXCEPT ![p] = s] /\ conn' = [conn EXCEPT ![p] = c]
      BY <1>3, <1>9, <2>2 DEF Greet
    <3> HIDE DEF s, c, Conns
    <3> QED
      BY <1>6, <2>1, <3>2, <3>3, <3>4
  <2>3. CASE ~(p \in open /\ Len(inbox[p]) < Capacity)
    <3>1. inbox' = [inbox EXCEPT ![p] = << >>] /\ conn' = [conn EXCEPT ![p] = Unconnected]
      BY <1>9, <2>3 DEF Greet
    <3> HIDE DEF Conns
    <3> QED
      BY <1>4, <1>6, <2>1, <3>1
  <2> QED
    BY <2>2, <2>3
<1>10. CASE Drop(p)
  <2>1. PICK n \in 0 .. Len(inbox[p]) : inbox' = [inbox EXCEPT ![p] = SubSeq(@, 1, n)]
    BY <1>10 DEF Drop
  <2> DEFINE s == SubSeq(inbox[p], 1, n)
  <2>2. s \in Seq(Facts) /\ Len(s) = n
    <3>1. \A i \in 1 .. n : inbox[p][i] \in Facts
      BY <1>2, ElementOfSeq
    <3> QED
      BY <1>2, <3>1, SubSeqProperties
  <2>3. Len(s) <= Capacity
    BY <1>2, <2>2, BoundAssumption
  <2>4. /\ inbox' = [inbox EXCEPT ![p] = s] /\ conn' = [conn EXCEPT ![p] = Unconnected]
        /\ lost' = lost /\ open' \subseteq Pages /\ crossed' \subseteq Pages
    BY <1>2, <1>10, <2>1 DEF Drop
  <2> HIDE DEF s, Conns
  <2> QED
    BY <1>4, <1>6, <2>2, <2>3, <2>4
<1>11. CASE \E id \in Items : Lose(p, id)
  <2>1. /\ UNCHANGED <<unsent, open, conn, inbox, crossed>>
        /\ lost' \in SUBSET (Pages \X Items)
    BY <1>11 DEF Lose, IInv, TypeOK
  <2>2. Networked'
    <3>1. Facts' = Facts
      BY <1>1, QuietKeeps
    <3> QED
      BY <2>1, <3>1 DEF IInv, Networked
  <2> QED
    BY <1>1, <2>1, <2>2, NetworkKeeps
<1> QED
  BY <1>7, <1>8, <1>9, <1>10, <1>11

-----------------------------------------------------------------------------
\* The page's script.

\* r is pg, but for the timer.
Untimed(r, pg) ==
  /\ r.api = pg.api /\ r.made = pg.made /\ r.ready = pg.ready /\ r.loaded = pg.loaded
  /\ r.video = pg.video /\ r.current = pg.current /\ r.paused = pg.paused
  /\ r.parked = pg.parked /\ r.reported = pg.reported

LEMMA NoTimerTyped == NoTimer \in Timers /\ ~NoTimer.handle /\ NoTimer.item = NoItem
BY DEF NoTimer, Timers

LEMMA TimerSet ==
  ASSUME NEW pg \in Scripts, NEW t \in Timers
  PROVE  LET r == [pg EXCEPT !.timer = t]
         IN r \in Scripts /\ r.timer = t /\ Untimed(r, pg)
BY DEF Scripts, Untimed

LEMMA ClearTimerLeaves ==
  ASSUME NEW pg \in Scripts
  PROVE  /\ ClearTimer(pg) \in Scripts
         /\ ClearTimer(pg).timer = NoTimer
         /\ Untimed(ClearTimer(pg), pg)
BY TimerSet, NoTimerTyped DEF ClearTimer

LEMMA ArmTimerLeaves ==
  ASSUME NEW pg \in Scripts
  PROVE  LET r == ArmTimer(pg)
         IN /\ r \in Scripts
            /\ Untimed(r, pg)
            /\ r.timer.item = pg.timer.item
            /\ r.timer.handle
            /\ Left(r.timer) = pg.timer.remaining
<1> DEFINE t == [pg.timer EXCEPT !.handle = TRUE, !.togo = pg.timer.remaining]
<1>1. pg.timer \in Timers
  BY DEF Scripts
<1>2. /\ t \in Timers /\ t.item = pg.timer.item /\ t.handle
      /\ Left(t) = pg.timer.remaining
  BY <1>1 DEF Timers, Left
<1>3. ArmTimer(pg) = [pg EXCEPT !.timer = t]
  BY <1>1 DEF ArmTimer, Scripts, Timers
<1> HIDE DEF t
<1> QED
  BY <1>2, <1>3, TimerSet

LEMMA PauseTimerLeaves ==
  ASSUME NEW pg \in Scripts
  PROVE  LET r == PauseTimer(pg)
         IN /\ r \in Scripts
            /\ Untimed(r, pg)
            /\ r.timer.item = pg.timer.item
            /\ ~r.timer.handle
            /\ Left(r.timer) = Left(pg.timer)
<1> DEFINE t == [pg.timer EXCEPT !.handle = FALSE, !.togo = 0, !.remaining = pg.timer.togo]
<1>1. pg.timer \in Timers
  BY DEF Scripts
<1>2. CASE pg.timer.handle
  <2>1. /\ t \in Timers /\ t.item = pg.timer.item /\ ~t.handle
        /\ Left(t) = Left(pg.timer)
    BY <1>1, <1>2 DEF Timers, Left
  <2>2. PauseTimer(pg) = [pg EXCEPT !.timer = t]
    BY <1>2 DEF PauseTimer
  <2> HIDE DEF t
  <2> QED
    BY <2>1, <2>2, TimerSet
<1>3. CASE ~pg.timer.handle
  BY <1>1, <1>3 DEF PauseTimer, Untimed, Timers
<1> QED
  BY <1>2, <1>3

\* startDurationTimer sets a timer of the whole cap, which runs unless paused.
LEMMA StartTimerLeaves ==
  ASSUME NEW pg \in Scripts, NEW it \in Items
  PROVE  LET r == StartTimer(pg, it)
         IN /\ r \in Scripts
            /\ Untimed(r, pg)
            /\ Cap[it] = 0 => r.timer = NoTimer
            /\ Cap[it] > 0 => /\ r.timer.item = it
                              /\ r.timer.handle <=> ~pg.paused
                              /\ Left(r.timer) = Cap[it]
<1> DEFINE t == [NoTimer EXCEPT !.item = it, !.remaining = Cap[it]]
           set == [pg EXCEPT !.timer = t]
<1>1. Cap[it] \in Nat
  BY ClipAssumption
<1>2. /\ t \in Timers /\ t.item = it /\ ~t.handle /\ t.remaining = Cap[it]
      /\ Left(t) = Cap[it]
  BY <1>1 DEF NoTimer, Timers, Left
<1>3. set \in Scripts /\ set.timer = t /\ Untimed(set, pg) /\ pg.paused \in BOOLEAN
  BY <1>2, TimerSet DEF Scripts
<1>4. StartTimer(pg, it) = IF Cap[it] = 0 THEN ClearTimer(pg)
                           ELSE IF pg.paused THEN set ELSE ArmTimer(set)
  BY DEF StartTimer
<1> HIDE DEF t, set
<1>5. CASE Cap[it] = 0
  BY <1>4, <1>5, ClearTimerLeaves
<1>6. CASE Cap[it] # 0 /\ pg.paused
  BY <1>1, <1>2, <1>3, <1>4, <1>6
<1>7. CASE Cap[it] # 0 /\ ~pg.paused
  <2>1. /\ ArmTimer(set) \in Scripts /\ Untimed(ArmTimer(set), set)
        /\ ArmTimer(set).timer.item = it /\ ArmTimer(set).timer.handle
        /\ Left(ArmTimer(set).timer) = Cap[it]
    BY <1>2, <1>3, ArmTimerLeaves
  <2>2. Untimed(ArmTimer(set), pg)
    BY <1>3, <2>1 DEF Untimed
  <2> QED
    BY <1>1, <1>4, <1>7, <2>1, <2>2
<1> QED
  BY <1>1, <1>5, <1>6, <1>7

\* A change of pause keeps what is left of the clip, and leaves the timer running
\* just when playback runs, unless nothing is left.
LEMMA ApplyPauseLeaves ==
  ASSUME NEW pg \in Scripts
  PROVE  LET r == ApplyPause(pg)
         IN /\ r \in Scripts
            /\ Untimed(r, pg)
            /\ r.timer.item = pg.timer.item
            /\ Left(r.timer) = Left(pg.timer)
            /\ r.timer.handle => ~pg.paused /\ (pg.timer.handle \/ pg.timer.item # NoItem)
            /\ ~pg.paused /\ pg.timer.item # NoItem => r.timer.handle \/ r.timer.remaining = 0
<1>1. pg.timer \in Timers
  BY DEF Scripts
<1>2. CASE pg.paused
  BY <1>2, PauseTimerLeaves DEF ApplyPause
<1>3. CASE ~pg.paused /\ pg.timer.item # NoItem /\ pg.timer.remaining > 0 /\ ~pg.timer.handle
  BY <1>3, ArmTimerLeaves DEF ApplyPause, Left
<1>4. CASE ~pg.paused /\ ~(pg.timer.item # NoItem /\ pg.timer.remaining > 0 /\ ~pg.timer.handle)
  BY <1>1, <1>4 DEF ApplyPause, Untimed, Timers
<1> QED
  BY <1>2, <1>3, <1>4

\* r is what startItem makes of pg for the clip it: the clip is shown under a new
\* timer, if it has a cap and can play at once.
Started(r, pg, it) ==
  /\ r \in Scripts
  /\ r.current = it
  /\ r.api = pg.api /\ r.ready = pg.ready /\ r.paused = pg.paused /\ r.reported = pg.reported
  /\ r.timer.item \in {NoItem, it}
  /\ r.timer.handle => ~r.paused /\ r.timer.item # NoItem
  /\ r.timer.item = it => Left(r.timer) = Cap[it]
  /\ Cap[it] > 0 /\ (type[it] = "youtube" => pg.ready) =>
       r.timer.item = it /\ (r.timer.handle \/ r.paused)
  /\ type[it] = "youtube" /\ pg.made = NoItem => r.timer.item = NoItem
  /\ r.parked = pg.parked \/ (~pg.api /\ r.parked = it)
  /\ \/ r.made = pg.made /\ r.loaded \in {NoItem, pg.loaded}
     \/ r.made = pg.made /\ pg.made # NoItem /\ r.loaded = it
     \/ pg.made = NoItem /\ pg.api /\ type[it] = "youtube" /\ r.made = it /\ r.loaded = it

LEMMA StopYouTubeLeaves ==
  ASSUME NEW pg \in Scripts
  PROVE  LET r == StopYouTube(pg)     \* pg, but for what is loaded
         IN /\ r \in Scripts
            /\ r.loaded \in {NoItem, pg.loaded}
            /\ [r EXCEPT !.loaded = pg.loaded] = pg
BY DEF StopYouTube, Scripts, OfType

LEMMA StartItemLeaves ==
  ASSUME type \in [Items -> {"youtube", "upload"}], NEW pg \in Scripts, NEW back,
         Loading(pg, back), NEW it \in Items, NEW r \in StartItem(pg, it)
  PROVE  Started(r, pg, it)
<1> DEFINE shown == [pg EXCEPT !.current = it]
           begun == ClearTimer(shown)
           cleared == [begun EXCEPT !.video = NoItem]
<1>1. /\ shown \in Scripts /\ shown.current = it
      /\ shown.api = pg.api /\ shown.made = pg.made /\ shown.ready = pg.ready
      /\ shown.loaded = pg.loaded /\ shown.paused = pg.paused
      /\ shown.parked = pg.parked /\ shown.reported = pg.reported
  BY DEF Scripts
<1> HIDE DEF shown
<1>2. /\ begun \in Scripts /\ begun.current = it /\ begun.timer = NoTimer
      /\ begun.api = pg.api /\ begun.made = pg.made /\ begun.ready = pg.ready
      /\ begun.loaded = pg.loaded /\ begun.paused = pg.paused
      /\ begun.parked = pg.parked /\ begun.reported = pg.reported
  BY <1>1, ClearTimerLeaves DEF Untimed
<1>3. r \in IF type[it] = "upload" THEN {PlayUpload(begun, it)}
            ELSE IF ~pg.api THEN {[begun EXCEPT !.parked = it]}
            ELSE PlayYouTube(begun, it)
  <2>1. begun.api = pg.api
    BY <1>2
  <2> QED
    BY <2>1 DEF StartItem, shown
<1> HIDE DEF begun
<1>4. pg.ready => pg.api /\ pg.made # NoItem
  BY DEF Loading, Scripts
<1>5. NoItem \notin Items /\ NoTimer.item = NoItem /\ ~NoTimer.handle /\ Cap[it] \in Nat
  BY ClipAssumption, NoTimerTyped
\* What a new timer makes of a page that shows it.
<1>6. ASSUME NEW x \in Scripts, x.current = it, x.api = pg.api, x.made = pg.made,
             x.ready = pg.ready, x.paused = pg.paused, x.parked = pg.parked,
             x.reported = pg.reported, type[it] = "upload" \/ pg.made # NoItem,
             \/ x.loaded \in {NoItem, pg.loaded}
             \/ pg.made # NoItem /\ x.loaded = it
      PROVE  Started(StartTimer(x, it), pg, it)
  <2> DEFINE y == StartTimer(x, it)
  <2>1. /\ y \in Scripts /\ Untimed(y, x)
        /\ Cap[it] = 0 => y.timer = NoTimer
        /\ Cap[it] > 0 => /\ y.timer.item = it
                          /\ y.timer.handle <=> ~x.paused
                          /\ Left(y.timer) = Cap[it]
    BY <1>6, StartTimerLeaves
  <2> HIDE DEF y
  <2>2. y.timer.item \in {NoItem, it} /\ (y.timer.item = it => Cap[it] > 0)
    BY <1>5, <2>1
  <2>3. y.timer.handle => ~y.paused /\ y.timer.item # NoItem
    BY <1>5, <2>1 DEF Untimed
  <2> QED
    BY <1>6, <2>1, <2>2, <2>3 DEF Started, Untimed, y
<1>7. CASE type[it] = "upload"
  <2> DEFINE stop == StopYouTube(begun)
             x == [stop EXCEPT !.video = it]
  <2>1. /\ stop \in Scripts /\ stop.loaded \in {NoItem, pg.loaded}
        /\ [stop EXCEPT !.loaded = pg.loaded] = begun
    BY <1>2, StopYouTubeLeaves
  <2> HIDE DEF stop
  <2>2. /\ x \in Scripts /\ x.current = it /\ x.api = pg.api /\ x.made = pg.made
        /\ x.ready = pg.ready /\ x.paused = pg.paused /\ x.parked = pg.parked
        /\ x.reported = pg.reported /\ x.loaded \in {NoItem, pg.loaded}
    <3>1. it \in OfType("upload")
      BY <1>7 DEF OfType
    <3>2. /\ stop.current = begun.current /\ stop.api = begun.api /\ stop.made = begun.made
          /\ stop.ready = begun.ready /\ stop.paused = begun.paused
          /\ stop.parked = begun.parked /\ stop.reported = begun.reported
      BY <2>1 DEF Scripts
    <3>3. /\ x \in Scripts /\ x.current = stop.current /\ x.api = stop.api
          /\ x.made = stop.made /\ x.ready = stop.ready /\ x.paused = stop.paused
          /\ x.parked = stop.parked /\ x.reported = stop.reported /\ x.loaded = stop.loaded
      BY <2>1, <3>1 DEF Scripts
    <3> QED
      BY <1>2, <2>1, <3>2, <3>3
  <2>3. r = StartTimer(x, it)
    BY <1>3, <1>7 DEF PlayUpload, stop
  <2> HIDE DEF x
  <2> QED
    BY <1>6, <1>7, <2>2, <2>3
<1>8. CASE type[it] = "youtube" /\ ~pg.api
  <2>1. it \in OfType("youtube")
    BY <1>8 DEF OfType
  <2>2. r = [begun EXCEPT !.parked = it]
    BY <1>3, <1>8
  <2>3. /\ r \in Scripts /\ r.parked = it /\ r.current = begun.current /\ r.api = begun.api
        /\ r.made = begun.made /\ r.ready = begun.ready /\ r.paused = begun.paused
        /\ r.reported = begun.reported /\ r.loaded = begun.loaded /\ r.timer = begun.timer
    BY <1>2, <2>1, <2>2 DEF Scripts
  <2> QED
    BY <1>2, <1>4, <1>5, <1>8, <2>3 DEF Started
<1>9. CASE type[it] = "youtube" /\ pg.api
  <2>1. it \in OfType("youtube") /\ NoItem \in OfType("upload")
    BY <1>9 DEF OfType
  <2>2. /\ cleared \in Scripts /\ cleared.current = it /\ cleared.timer = NoTimer
        /\ cleared.api = pg.api /\ cleared.made = pg.made /\ cleared.ready = pg.ready
        /\ cleared.loaded = pg.loaded /\ cleared.paused = pg.paused
        /\ cleared.parked = pg.parked /\ cleared.reported = pg.reported
    BY <1>2, <2>1 DEF Scripts
  <2>3. r \in IF pg.made = NoItem
              THEN {[cleared EXCEPT !.made = it, !.loaded = it]}
              ELSE IF pg.ready THEN {StartTimer([cleared EXCEPT !.loaded = it], it)}
                   ELSE {StartTimer([cleared EXCEPT !.loaded = it], it), cleared}
    BY <1>2, <1>3, <1>9 DEF PlayYouTube
  <2> HIDE DEF cleared
  <2>4. CASE pg.made = NoItem
    <3>1. r = [cleared EXCEPT !.made = it, !.loaded = it]
      BY <2>3, <2>4
    <3>2. /\ r \in Scripts /\ r.made = it /\ r.loaded = it /\ r.current = cleared.current
          /\ r.api = cleared.api /\ r.ready = cleared.ready /\ r.paused = cleared.paused
          /\ r.parked = cleared.parked /\ r.reported = cleared.reported /\ r.timer = cleared.timer
      BY <2>1, <2>2, <3>1 DEF Scripts
    <3> QED
      BY <1>4, <1>5, <1>9, <2>2, <2>4, <3>2 DEF Started
  <2>5. CASE pg.made # NoItem /\ r = StartTimer([cleared EXCEPT !.loaded = it], it)
    <3> DEFINE x == [cleared EXCEPT !.loaded = it]
    <3>1. /\ x \in Scripts /\ x.loaded = it /\ x.current = cleared.current
          /\ x.api = cleared.api /\ x.made = cleared.made /\ x.ready = cleared.ready
          /\ x.paused = cleared.paused /\ x.parked = cleared.parked
          /\ x.reported = cleared.reported
      BY <2>1, <2>2 DEF Scripts
    <3> HIDE DEF x
    <3> QED
      BY <1>6, <2>2, <2>5, <3>1 DEF x
  <2>6. CASE pg.made # NoItem /\ ~pg.ready /\ r = cleared
    BY <1>5, <1>9, <2>2, <2>6 DEF Started
  <2> QED
    BY <2>3, <2>4, <2>5, <2>6
<1> QED
  BY <1>7, <1>8, <1>9

LEMMA TeardownLeaves ==
  ASSUME NEW pg \in Scripts
  PROVE  LET r == Teardown(pg)
         IN /\ r \in Scripts /\ r.current = NoItem /\ r.timer = NoTimer
            /\ r.api = pg.api /\ r.made = pg.made /\ r.ready = pg.ready
            /\ r.parked = pg.parked /\ r.reported = pg.reported
            /\ r.loaded \in {NoItem, pg.loaded}
<1> DEFINE shown == [pg EXCEPT !.current = NoItem]
           cleared == ClearTimer(shown)
           stop == StopYouTube(cleared)
<1>1. /\ shown \in Scripts /\ shown.current = NoItem /\ shown.api = pg.api
      /\ shown.made = pg.made /\ shown.ready = pg.ready /\ shown.parked = pg.parked
      /\ shown.reported = pg.reported /\ shown.loaded = pg.loaded
  BY DEF Scripts
<1> HIDE DEF shown
<1>2. cleared \in Scripts /\ cleared.timer = NoTimer /\ Untimed(cleared, shown)
  BY <1>1, ClearTimerLeaves
<1> HIDE DEF cleared
<1>3. /\ stop \in Scripts /\ stop.loaded \in {NoItem, cleared.loaded}
      /\ [stop EXCEPT !.loaded = cleared.loaded] = cleared
  BY <1>2, StopYouTubeLeaves
<1>4. Teardown(pg) = [stop EXCEPT !.video = NoItem]
  BY DEF Teardown, shown, cleared
<1> HIDE DEF stop
<1>5. /\ stop.current = cleared.current /\ stop.timer = cleared.timer /\ stop.api = cleared.api
      /\ stop.made = cleared.made /\ stop.ready = cleared.ready
      /\ stop.parked = cleared.parked /\ stop.reported = cleared.reported
  BY <1>3 DEF Scripts
<1>6. NoItem \in OfType("upload")
  BY DEF OfType
<1> DEFINE r == [stop EXCEPT !.video = NoItem]
<1>7. /\ r \in Scripts /\ r.current = stop.current /\ r.timer = stop.timer
      /\ r.api = stop.api /\ r.made = stop.made /\ r.ready = stop.ready
      /\ r.parked = stop.parked /\ r.reported = stop.reported /\ r.loaded = stop.loaded
  BY <1>3, <1>6 DEF Scripts
<1> HIDE DEF r
<1> QED
  BY <1>1, <1>2, <1>3, <1>4, <1>5, <1>7 DEF Untimed, r

-----------------------------------------------------------------------------
\* The page's event handlers.

LEMMA PageOf ==
  ASSUME IInv, NEW p \in Pages
  PROVE  /\ PageInv(page[p], latest[p], p \in sentBack, endings[p], watched[p], p \in marred)
         /\ page[p] \in Scripts /\ endings[p] \in SUBSET Items /\ watched[p] \in Nat
         /\ latest[p] \in Items \cup {NoItem}
BY DEF IInv, TypeOK

\* A handler of the page p, which leaves the queue and the other pages alone.
LEMMA PageKeeps ==
  ASSUME IInv, NEW p \in Pages, NEW pg \in Scripts, NEW l \in Items \cup {NoItem},
         NEW back, back = (p \in sentBack'), NEW mar, mar = (p \in marred'),
         NEW e \in SUBSET Items, NEW w \in Nat,
         UNCHANGED <<manager, lost, programme>>, Networked',
         page' = [page EXCEPT ![p] = pg], latest' = [latest EXCEPT ![p] = l],
         endings' = [endings EXCEPT ![p] = e], watched' = [watched EXCEPT ![p] = w],
         atEnd' \in [Pages -> SUBSET Items], reports' \in SUBSET (Pages \X Items),
         \A r \in reports' : r \in reports \/ Credited(r[2])',
         playedOut \subseteq playedOut', playedOut' \subseteq Items,
         misnamed \subseteq misnamed', misnamed' \subseteq Items,
         marred' \in {marred, marred \cup {p}, marred \ {p}},
         sentBack' \in {sentBack, sentBack \cup {p}, sentBack \ {p}},
         Aired(l), Reached(pg.made, l), Reached(pg.parked, l), Loading(pg, back),
         \A i \in e : Named(pg, back, i)', Measured(pg, w, mar)
  PROVE  IInv'
<1>1. UNCHANGED <<pending, queue, nowPlaying, paused, bypass, status, type, lost, programme>>
  BY DEF manager
<1>2. \A q \in Pages :
        /\ page'[q] = IF q = p THEN pg ELSE page[q]
        /\ latest'[q] = IF q = p THEN l ELSE latest[q]
        /\ endings'[q] = IF q = p THEN e ELSE endings[q]
        /\ watched'[q] = IF q = p THEN w ELSE watched[q]
        /\ q # p => (q \in marred') = (q \in marred) /\ (q \in sentBack') = (q \in sentBack)
  BY DEF IInv, TypeOK
<1>3. QueueProofs!IInv' /\ Programme' /\ Advances
  BY QuietKeeps
<1>4. TypeOK'
  <2>1. Scripts' = Scripts
    BY <1>1 DEF Scripts, OfType
  <2>2. (Facts \subseteq Snapshots /\ \A s \in Seq(Facts) : s \in Seq(Snapshots))'
    BY FactsTyped, PTL
  <2>3. /\ unsent' \in Seq(Snapshots') /\ inbox' \in [Pages -> Seq(Snapshots')]
        /\ conn' \in [Pages -> [at : {"off", "registered", "greeting", "served"},
                                state : Snapshots']]
    BY <2>2 DEF Networked
  <2>4. /\ page' \in [Pages -> Scripts] /\ latest' \in [Pages -> Items \cup {NoItem}]
        /\ endings' \in [Pages -> SUBSET Items] /\ watched' \in [Pages -> Nat]
        /\ marred' \subseteq Pages /\ sentBack' \subseteq Pages
    BY DEF IInv, TypeOK
  <2> QED
    BY <1>1, <2>1, <2>3, <2>4 DEF IInv, TypeOK, Networked
<1>5. ASSUME NEW q \in Pages
      PROVE  PageInv(page[q], latest[q], q \in sentBack, endings[q], watched[q], q \in marred)'
  <2>1. CASE q = p
    <3>1. Aired(l)' /\ Reached(pg.made, l)' /\ Reached(pg.parked, l)'
      BY <1>3 DEF Reached, Advances
    <3>2. Loading(pg, back)' /\ Measured(pg, w, mar)'
      BY <1>1 DEF Loading, Over, Measured, Left
    <3>3. PageInv(pg, l, back, e, w, mar)'
      BY <3>1, <3>2 DEF PageInv
    <3> QED
      BY <1>2, <2>1, <3>3
  <2>2. CASE q # p
    <3>1. PICK pg1, l1, back1, e1, w1, mar1 :
            /\ pg1 = page[q] /\ l1 = latest[q] /\ back1 = (q \in sentBack)
            /\ e1 = endings[q] /\ w1 = watched[q] /\ mar1 = (q \in marred)
      OBVIOUS
    <3>2. PageInv(pg1, l1, back1, e1, w1, mar1)
      BY <3>1 DEF IInv
    <3>3. Aired(l1)' /\ Reached(pg1.made, l1)' /\ Reached(pg1.parked, l1)'
      BY <1>3, <3>2 DEF PageInv, Reached, Advances
    <3>4. Loading(pg1, back1)' /\ \A i \in e1 : Named(pg1, back1, i)'
      BY <1>1, <3>2 DEF PageInv, Loading, Named, Over
    <3>5. Measured(pg1, w1, mar1)'
      BY <1>1, <3>2 DEF PageInv, Measured, Left
    <3>6. PageInv(pg1, l1, back1, e1, w1, mar1)'
      BY <1>1, <3>3, <3>4, <3>5 DEF PageInv
    <3> QED
      BY <1>2, <2>2, <3>1, <3>6
  <2> QED
    BY <2>1, <2>2
<1>6. (\A r \in reports : Credited(r[2]))'
  BY <1>1 DEF IInv, Credited, Over
<1>7. EndedIsPlayedOut'
  BY <1>1 DEF IInv, EndedIsPlayedOut
<1> QED
  BY <1>3, <1>4, <1>5, <1>6, <1>7 DEF IInv

\* A handler that leaves the network alone, but for its reports.
LEMMA NetworkStands ==
  ASSUME IInv, UNCHANGED <<manager, programme, unsent, open, conn, inbox, crossed>>
  PROVE  Networked'
BY QuietKeeps DEF IInv, Networked

\* A page that learns of h has learnt of all it knew, and what it knew is over, or
\* the page is sent back.
LEMMA ToldKeeps ==
  ASSUME IInv, NEW p \in Pages, NEW h \in Items \cup {NoItem}, Aired(h), Told(p, h)
  PROVE  /\ latest' = [latest EXCEPT ![p] = latest'[p]]
         /\ latest'[p] \in Items \cup {NoItem} /\ Aired(latest'[p])
         /\ sentBack' \in {sentBack, sentBack \cup {p}}
         /\ Reached(h, latest'[p])
         /\ \A x : Reached(x, latest[p]) => Reached(x, latest'[p])
         /\ \A x : Reached(x, latest[p]) /\ h # NoItem /\ x \notin {NoItem, h} =>
              Over(x) \/ p \in sentBack'
<1> DEFINE old == latest[p]
<1>1. /\ latest \in [Pages -> Items \cup {NoItem}] /\ old \in Items \cup {NoItem} /\ Aired(old)
      /\ sentBack' = IF Before(h, old) THEN sentBack \cup {p} ELSE sentBack
      /\ latest' = IF h = NoItem \/ Before(h, old) THEN latest ELSE [latest EXCEPT ![p] = h]
  BY PageOf DEF Told, IInv, TypeOK, PageInv
<1>2. /\ \A i, j : Before(i, j) => Over(i) /\ NoItem \notin {i, j}
      /\ \A i, j : /\ Aired(i) /\ Aired(j) /\ i # j /\ NoItem \notin {i, j}
                   => Before(i, j) \/ Before(j, i)
      /\ \A i, j, k : Before(i, j) /\ Before(j, k) => Before(i, k)
  BY ProgrammeOrders DEF IInv
<1> HIDE DEF old
<1>3. CASE h = NoItem
  <2>1. latest' = latest /\ sentBack' = sentBack
    BY <1>1, <1>2, <1>3
  <2> QED
    BY <1>1, <1>3, <2>1 DEF Reached, old
<1>4. CASE Before(h, old)
  <2>1. latest' = latest /\ p \in sentBack'
    BY <1>1, <1>4
  <2> QED
    BY <1>1, <1>4, <2>1 DEF Reached, old
<1>5. CASE h # NoItem /\ ~Before(h, old)
  <2>1. latest'[p] = h /\ latest' = [latest EXCEPT ![p] = h]
    BY <1>1, <1>5
  <2>2. \A x : Reached(x, old) => Reached(x, h)
    BY <1>1, <1>2, <1>5 DEF Reached
  <2>3. \A x : Reached(x, h) /\ x \notin {NoItem, h} => Over(x)
    BY <1>2 DEF Reached
  <2> QED
    BY <1>1, <1>5, <2>1, <2>2, <2>3 DEF Reached, old
<1> QED
  BY <1>3, <1>4, <1>5

\* A clip that was started has a timer of its own, which has run for no time.
LEMMA StartedKeeps ==
  ASSUME NEW pg \in Scripts, NEW it \in Items, NEW r, Started(r, pg, it), NEW back,
         Loading(pg, back), pg.made \notin {NoItem, it} => Over(pg.made) \/ back, NEW mar
  PROVE  /\ Loading(r, back) /\ Measured(r, 0, mar)
         /\ \A i : Named(pg, back, i) => Named(r, back, i)
<1>1. NoItem \notin Items /\ Cap[it] \in Nat
  BY ClipAssumption
<1>2. Loading(r, back)
  BY <1>1 DEF Started, Loading
<1>3. Measured(r, 0, mar)
  <2>1. r.timer.item \notin {NoItem, r.reported} => 0 + Left(r.timer) = Cap[r.timer.item]
    BY <1>1 DEF Started
  <2> QED
    BY <2>1 DEF Started, Measured
<1>4. \A i : Named(pg, back, i) => Named(r, back, i)
  BY DEF Started, Named
<1> QED
  BY <1>2, <1>3, <1>4

Ran(p, pg) == IF pg.timer.item = page[p].timer.item THEN watched[p] ELSE 0

LEMMA ReceiveKeeps ==
  ASSUME IInv, NEW p \in Pages, Receive(p)
  PROVE  IInv'
<1> DEFINE old == page[p]
           s == inbox[p]
           h == Head(s).nowPlaying
           l == latest'[p]
           told == [old EXCEPT !.paused = Head(s).paused]
<1>1. PICK pg \in ApplyState(old, Head(s)) :
        IF h = old.current THEN Become(p, pg) /\ UNCHANGED marred
        ELSE Restart(p, pg) /\ marred' = marred \ {p}
  BY DEF Receive
<1>2. PICK back, mar : back = (p \in sentBack') /\ mar = (p \in marred')
  OBVIOUS
<1>3. /\ old \in Scripts /\ endings[p] \in SUBSET Items /\ watched[p] \in Nat
      /\ PageInv(old, latest[p], p \in sentBack, endings[p], watched[p], p \in marred)
  BY PageOf
<1>4. /\ s \in Seq(Facts) /\ s # << >> /\ Head(s) \in Facts /\ Tail(s) \in Seq(Facts)
      /\ Len(Tail(s)) <= Capacity
  <2>1. s \in Seq(Facts) /\ s # << >> /\ Len(s) \in Nat /\ Len(s) <= Capacity
    BY LenProperties DEF Receive, IInv, Networked
  <2>2. Head(s) \in Facts /\ Tail(s) \in Seq(Facts) /\ Len(Tail(s)) = Len(s) - 1
    BY <2>1, HeadTailProperties
  <2> QED
    BY <2>1, <2>2, BoundAssumption
<1>5. h \in Items \cup {NoItem} /\ Aired(h) /\ Head(s).paused \in BOOLEAN
  BY <1>4 DEF Facts, Snapshots
<1>6. /\ latest' = [latest EXCEPT ![p] = l] /\ l \in Items \cup {NoItem} /\ Aired(l)
      /\ sentBack' \in {sentBack, sentBack \cup {p}}
      /\ Reached(h, l)
      /\ Reached(old.made, l) /\ Reached(old.parked, l)
      /\ h # NoItem /\ old.made \notin {NoItem, h} => Over(old.made) \/ back
  BY <1>2, <1>3, <1>5, ToldKeeps DEF Receive, PageInv
<1>7. /\ told \in Scripts /\ told.paused = Head(s).paused
      /\ told.api = old.api /\ told.made = old.made /\ told.ready = old.ready
      /\ told.loaded = old.loaded /\ told.current = old.current /\ told.parked = old.parked
      /\ told.timer = old.timer /\ told.reported = old.reported
  BY <1>3, <1>5 DEF Scripts
<1>8. /\ Loading(told, back) /\ \A i \in endings[p] : Named(told, back, i)
  BY <1>2, <1>3, <1>6, <1>7 DEF PageInv, Loading, Named
<1>9. pg \in IF h = NoItem THEN {Teardown(told)}
             ELSE IF h = old.current THEN {ApplyPause(told)} ELSE StartItem(told, h)
  BY <1>1 DEF ApplyState
<1>10. /\ inbox' = [inbox EXCEPT ![p] = Tail(s)]
       /\ UNCHANGED <<manager, programme, unsent, open, conn, crossed, lost, reports, endings,
                      playedOut, misnamed>>
  BY DEF Receive
<1>11. Networked'
  <2>1. Facts' = Facts
    BY <1>10, QuietKeeps
  <2>2. inbox' \in [Pages -> Seq(Facts)] /\ \A q \in Pages : Len(inbox'[q]) <= Capacity
    BY <1>4, <1>10 DEF IInv, Networked
  <2> QED
    BY <1>10, <2>1, <2>2 DEF IInv, Networked
<1>12. PICK w : /\ w = IF h = old.current THEN Ran(p, pg) ELSE 0
                /\ page' = [page EXCEPT ![p] = pg] /\ watched' = [watched EXCEPT ![p] = w]
  BY <1>1 DEF Become, Restart, Ran
<1>13. w \in Nat /\ marred' \in {marred, marred \cup {p}, marred \ {p}}
  BY <1>1, <1>3, <1>12 DEF Ran
<1> HIDE DEF told
<1>14. SUFFICES /\ pg \in Scripts /\ Reached(pg.made, l) /\ Reached(pg.parked, l)
                /\ Loading(pg, back) /\ \A i \in endings[p] : Named(pg, back, i)
                /\ Measured(pg, w, mar)
  <2>1. /\ endings' = [endings EXCEPT ![p] = endings[p]]
        /\ reports' \in SUBSET (Pages \X Items) /\ playedOut' \subseteq Items
        /\ misnamed' \subseteq Items
    BY <1>10 DEF IInv, TypeOK
  <2>4. atEnd' \in [Pages -> SUBSET Items]
    BY DEF IInv, TypeOK, Receive, Play
  <2>2. \A i \in endings[p] : Named(pg, back, i)'
    BY <1>10, <1>14 DEF Named, Over, manager
  <2>3. PICK ll : ll = l
    OBVIOUS
  <2> HIDE DEF s, old, h, l
  <2> QED
    BY <1>2, <1>3, <1>6, <1>10, <1>11, <1>12, <1>13, <1>14, <2>1, <2>2, <2>3,
       <2>4, PageKeeps
<1>15. CASE h = NoItem
  <2>1. /\ pg \in Scripts /\ pg.current = NoItem /\ pg.timer = NoTimer
        /\ pg.api = old.api /\ pg.made = old.made /\ pg.ready = old.ready
        /\ pg.parked = old.parked /\ pg.reported = old.reported
        /\ pg.loaded \in {NoItem, old.loaded}
    BY <1>7, <1>9, <1>15, TeardownLeaves
  <2>2. Loading(pg, back) /\ \A i \in endings[p] : Named(pg, back, i)
    BY <1>7, <1>8, <2>1 DEF Loading, Named
  <2>3. Measured(pg, w, mar)
    BY <2>1, NoTimerTyped DEF Measured
  <2> QED
    BY <1>6, <2>1, <2>2, <2>3
<1>16. CASE h # NoItem /\ h = old.current
  <2>1. /\ pg \in Scripts /\ Untimed(pg, told) /\ pg.timer.item = old.timer.item
        /\ Left(pg.timer) = Left(old.timer)
        /\ pg.timer.handle => ~pg.paused /\ (told.timer.handle \/ told.timer.item # NoItem)
        /\ ~pg.paused /\ pg.timer.item # NoItem => pg.timer.handle \/ pg.timer.remaining = 0
    BY <1>7, <1>9, <1>16, ApplyPauseLeaves DEF Untimed
  <2>2. Loading(pg, back) /\ \A i \in endings[p] : Named(pg, back, i)
    BY <1>8, <2>1 DEF Loading, Named, Untimed
  <2>3. Reached(pg.made, l) /\ Reached(pg.parked, l)
    BY <1>6, <1>7, <2>1 DEF Untimed
  <2>4. Measured(pg, w, mar)
    BY <1>1, <1>2, <1>3, <1>7, <1>12, <1>16, <2>1 DEF PageInv, Measured, Untimed, Ran
  <2> QED
    BY <2>1, <2>2, <2>3, <2>4
<1>17. CASE h # NoItem /\ h # old.current
  <2>1. Started(pg, told, h)
    BY <1>5, <1>7, <1>8, <1>9, <1>17, StartItemLeaves DEF IInv, TypeOK
  <2>2. /\ Loading(pg, back) /\ Measured(pg, w, mar)
        /\ \A i \in endings[p] : Named(pg, back, i)
    <3>1. h \in Items /\ w = 0
      BY <1>5, <1>12, <1>17
    <3>2. told.made \notin {NoItem, h} => Over(told.made) \/ back
      BY <1>6, <1>7, <1>17
    <3> QED
      BY <1>7, <1>8, <2>1, <3>1, <3>2, StartedKeeps
  <2>3. pg.made \in {old.made, h} /\ pg.parked \in {old.parked, h} /\ pg \in Scripts
    BY <1>7, <2>1 DEF Started
  <2> HIDE DEF s, old, h, l
  <2> QED
    BY <1>6, <2>2, <2>3
<1> QED
  BY <1>15, <1>16, <1>17

\* A handler of p that makes pg of the page and only touches the page itself.
LEMMA ScriptKeeps ==
  ASSUME IInv, NEW p \in Pages, NEW pg \in Scripts, NEW w \in Nat, NEW mar,
         mar = (p \in marred'),
         page' = [page EXCEPT ![p] = pg], watched' = [watched EXCEPT ![p] = w],
         marred' \in {marred, marred \cup {p}, marred \ {p}},
         atEnd' \in [Pages -> SUBSET Items],
         UNCHANGED <<manager, network, endings, playedOut, latest, sentBack, misnamed, programme>>,
         Reached(pg.made, latest[p]), Reached(pg.parked, latest[p]),
         Loading(pg, p \in sentBack),
         \A i \in endings[p] : Named(pg, p \in sentBack, i), Measured(pg, w, mar)
  PROVE  IInv'
<1>1. PICK l, back, e : l = latest[p] /\ back = (p \in sentBack) /\ e = endings[p]
  OBVIOUS
<1>2. /\ l \in Items \cup {NoItem} /\ Aired(l) /\ e \in SUBSET Items
      /\ Reached(pg.made, l) /\ Reached(pg.parked, l) /\ Loading(pg, back)
      /\ \A i \in e : Named(pg, back, i)
  BY <1>1, PageOf DEF PageInv
<1>3. Networked' /\ UNCHANGED <<lost, reports>>
  BY NetworkStands DEF network
<1>4. /\ latest' = [latest EXCEPT ![p] = l] /\ endings' = [endings EXCEPT ![p] = e]
      /\ reports' \in SUBSET (Pages \X Items) /\ playedOut' \subseteq Items
      /\ misnamed' \subseteq Items /\ back = (p \in sentBack')
  BY <1>1, <1>3 DEF IInv, TypeOK
<1>5. \A i \in e : Named(pg, back, i)'
  BY <1>2 DEF Named, Over, manager
<1> QED
  BY <1>2, <1>3, <1>4, <1>5, PageKeeps

\* onYouTubeIframeAPIReady: the page may show an older clip again, marred.
LEMMA ApiReadyKeeps ==
  ASSUME IInv, NEW p \in Pages, ApiReady(p)
  PROVE  IInv'
<1> DEFINE old == page[p]
           it == old.parked
           new == [old EXCEPT !.api = TRUE, !.parked = NoItem]
           l == latest[p]
           back == p \in sentBack
<1>1. /\ old \in Scripts /\ PageInv(old, l, back, endings[p], watched[p], p \in marred)
      /\ watched[p] \in Nat
  BY PageOf
<1>2. /\ new \in Scripts /\ new.api /\ new.parked = NoItem
      /\ new.made = old.made /\ new.ready = old.ready /\ new.loaded = old.loaded
      /\ new.current = old.current /\ new.paused = old.paused
      /\ new.timer = old.timer /\ new.reported = old.reported
  <2>1. NoItem \in OfType("youtube")
    BY DEF OfType
  <2> QED
    BY <1>1, <2>1 DEF Scripts
<1>3. old.made = NoItem
  BY <1>1 DEF ApiReady, PageInv, Loading
<1>4. Loading(new, back) /\ \A i \in endings[p] : Named(new, back, i)
  BY <1>1, <1>2 DEF PageInv, Loading, Named
<1>5. PICK pg : IF it = NoItem THEN pg = new /\ Become(p, pg)
                ELSE pg \in StartItem(new, it) /\ Restart(p, pg)
  BY DEF ApiReady
<1>6. PICK w, mar : /\ w = IF it = NoItem THEN Ran(p, pg) ELSE 0
                    /\ mar = (p \in marred')
                    /\ page' = [page EXCEPT ![p] = pg]
                    /\ watched' = [watched EXCEPT ![p] = w]
  BY <1>5 DEF Become, Restart, Ran
<1>7. /\ w \in Nat
      /\ marred' = IF it \notin {NoItem, old.current} THEN marred \cup {p} ELSE marred
      /\ atEnd' \in [Pages -> SUBSET Items]
      /\ UNCHANGED <<manager, network, endings, playedOut, latest, sentBack, misnamed, programme>>
  BY <1>1, <1>6 DEF ApiReady, Mark, Ran, Play, IInv, TypeOK
<1> HIDE DEF new
<1>8. SUFFICES /\ pg \in Scripts /\ Reached(pg.made, l) /\ Reached(pg.parked, l)
               /\ Loading(pg, back) /\ \A i \in endings[p] : Named(pg, back, i)
               /\ Measured(pg, w, mar)
  BY <1>6, <1>7, <1>8, ScriptKeeps
<1>9. CASE it = NoItem
  <2>1. pg = new
    BY <1>5, <1>9
  <2>2. Reached(pg.made, l) /\ Reached(pg.parked, l)
    BY <1>2, <1>3, <2>1 DEF Reached
  <2>3. Measured(pg, w, mar)
    BY <1>1, <1>2, <1>6, <1>7, <1>9, <2>1 DEF PageInv, Measured, Ran
  <2> QED
    BY <1>2, <1>4, <2>1, <2>2, <2>3
<1>10. CASE it # NoItem
  <2>1. it \in Items /\ Reached(it, l)
    BY <1>1, <1>10 DEF Scripts, OfType, PageInv
  <2>2. Started(pg, new, it)
    BY <1>2, <1>4, <1>5, <1>10, <2>1, StartItemLeaves DEF IInv, TypeOK
  <2>3. pg \in Scripts /\ pg.made \in {NoItem, it} /\ pg.parked = NoItem
    BY <1>2, <1>3, <2>2 DEF Started
  <2>4. Reached(pg.made, l) /\ Reached(pg.parked, l)
    BY <2>1, <2>3 DEF Reached
  <2>5. /\ Loading(pg, back) /\ Measured(pg, w, mar)
        /\ \A i \in endings[p] : Named(pg, back, i)
    BY <1>2, <1>3, <1>4, <1>6, <1>10, <2>1, <2>2, StartedKeeps
  <2> QED
    BY <2>3, <2>4, <2>5
<1> QED
  BY <1>9, <1>10

\* onReady: the timer is set for the clip the player was created for.
LEMMA PlayerReadyKeeps ==
  ASSUME IInv, NEW p \in Pages, PlayerReady(p)
  PROVE  IInv'
<1> DEFINE old == page[p]
           it == old.made
           new == [old EXCEPT !.ready = TRUE]
           l == latest[p]
           back == p \in sentBack
<1>1. old \in Scripts /\ PageInv(old, l, back, endings[p], watched[p], p \in marred)
  BY PageOf
<1>2. /\ new \in Scripts /\ new.ready /\ new.api = old.api /\ new.parked = old.parked
      /\ new.made = old.made /\ new.loaded = old.loaded
      /\ new.current = old.current /\ new.paused = old.paused /\ new.reported = old.reported
  BY <1>1 DEF Scripts
<1>3. it \in Items /\ ~old.ready
  BY <1>1 DEF PlayerReady, Scripts, OfType
<1>4. PICK pg : pg = StartTimer(new, it)
  OBVIOUS
<1>5. /\ page' = [page EXCEPT ![p] = pg] /\ watched' = [watched EXCEPT ![p] = 0]
      /\ marred' = IF it # old.current THEN marred \cup {p} ELSE marred
      /\ atEnd' \in [Pages -> SUBSET Items]
      /\ UNCHANGED <<manager, network, endings, playedOut, latest, sentBack, misnamed, programme>>
  BY <1>4 DEF PlayerReady, Restart, Mark, Play, IInv, TypeOK
<1> HIDE DEF new
<1>6. /\ pg \in Scripts /\ Untimed(pg, new)
      /\ Cap[it] = 0 => pg.timer = NoTimer
      /\ Cap[it] > 0 => /\ pg.timer.item = it
                        /\ pg.timer.handle <=> ~new.paused
                        /\ Left(pg.timer) = Cap[it]
  BY <1>2, <1>3, <1>4, StartTimerLeaves
<1>7. NoItem \notin Items /\ Cap[it] \in Nat
  BY <1>3, ClipAssumption
<1>8. pg.timer.item \in {NoItem, it} /\ (pg.timer.item = it => Cap[it] > 0)
  BY <1>3, <1>6, <1>7, NoTimerTyped
<1>9. Reached(pg.made, l) /\ Reached(pg.parked, l)
  BY <1>1, <1>2, <1>6 DEF PageInv, Untimed
<1>10. Loading(pg, back) /\ \A i \in endings[p] : Named(pg, back, i)
  BY <1>1, <1>2, <1>3, <1>6, <1>7 DEF PageInv, Loading, Named, Untimed
<1>11. PICK mar : mar = (p \in marred')
  OBVIOUS
<1>12. Measured(pg, 0, mar)
  <2>1. pg.timer.handle => ~pg.paused /\ pg.timer.item # NoItem
    BY <1>2, <1>3, <1>6, <1>7, NoTimerTyped DEF Untimed
  <2>2. pg.timer.item \notin {NoItem, pg.reported} =>
          0 + Left(pg.timer) = Cap[pg.timer.item]
    BY <1>6, <1>7, <1>8
  <2>3. ~mar => it = old.current
    BY <1>5, <1>11
  <2> QED
    BY <1>2, <1>6, <2>1, <2>2, <2>3 DEF Measured, Untimed
<1>13. marred' \in {marred, marred \cup {p}, marred \ {p}}
  BY <1>5
<1> HIDE DEF old, it
<1> QED
  BY <1>5, <1>6, <1>9, <1>10, <1>11, <1>12, <1>13, ScriptKeeps

\* A report, made under the clip id from a page that is pg but for its timer.
LEMMA ReportKeeps ==
  ASSUME IInv, NEW p \in Pages, NEW pg \in Scripts, NEW id \in Items \cup {NoItem},
         NEW e \in SUBSET endings[p], Untimed(pg, page[p]),
         pg.timer.item = page[p].timer.item,
         id \in {NoItem, pg.reported} => Measured(pg, watched[p], p \in marred),
         ReportEnded(p, pg, id), endings' = [endings EXCEPT ![p] = e],
         atEnd' \in [Pages -> SUBSET Items],
         UNCHANGED <<manager, programme, unsent, open, conn, inbox, crossed, lost, latest,
                     sentBack>>,
         playedOut \subseteq playedOut', playedOut' \subseteq Items,
         misnamed \subseteq misnamed', misnamed' \subseteq Items,
         id = NoItem \/ Credited(id)'
  PROVE  IInv'
<1> DEFINE old == page[p]
<1>1. PICK l, back : l = latest[p] /\ back = (p \in sentBack)
  OBVIOUS
<1>2. /\ old \in Scripts /\ endings[p] \in SUBSET Items /\ watched[p] \in Nat
      /\ PageInv(old, l, back, endings[p], watched[p], p \in marred)
      /\ l \in Items \cup {NoItem}
  BY <1>1, PageOf
<1>3. Networked'
  BY NetworkStands
<1>4. ASSUME NEW new \in Scripts, Become(p, new), new.made = old.made,
             new.parked = old.parked, Loading(new, back),
             Measured(new, Ran(p, new), p \in marred'),
             \/ UNCHANGED <<reports, marred>>
             \/ /\ id # NoItem /\ reports' = reports \cup {<<p, id>>}
                /\ marred' \in {marred, marred \cup {p}}
      PROVE  IInv'
  <2>1. /\ page' = [page EXCEPT ![p] = new] /\ watched' = [watched EXCEPT ![p] = Ran(p, new)]
        /\ Ran(p, new) \in Nat
    BY <1>2, <1>4 DEF Become, Ran
  <2>2. /\ latest' = [latest EXCEPT ![p] = l] /\ back = (p \in sentBack')
        /\ sentBack' \in {sentBack, sentBack \cup {p}, sentBack \ {p}}
        /\ marred' \in {marred, marred \cup {p}, marred \ {p}}
    BY <1>1, <1>4 DEF IInv, TypeOK
  <2>3. \A i \in e : Named(new, back, i)'
    <3>1. \A i \in e : Named(old, back, i)
      BY <1>2 DEF PageInv
    <3>2. UNCHANGED <<status, type>>
      BY DEF manager
    <3> QED
      BY <1>4, <3>1, <3>2 DEF Named, Over
  <2>4. /\ reports' \in SUBSET (Pages \X Items)
        /\ \A r \in reports' : r \in reports \/ Credited(r[2])'
    BY <1>4 DEF IInv, TypeOK
  <2>5. e \in SUBSET Items /\ Aired(l) /\ Reached(new.made, l) /\ Reached(new.parked, l)
    BY <1>2, <1>4 DEF PageInv
  <2>6. PICK mar : mar = (p \in marred')
    OBVIOUS
  <2>7. Measured(new, Ran(p, new), mar)
    BY <1>4, <2>6
  <2> HIDE DEF old
  <2> QED
    BY <1>2, <1>3, <1>4, <2>1, <2>2, <2>3, <2>4, <2>5, <2>6, <2>7, PageKeeps
<1>5. CASE id \in {NoItem, pg.reported}
  <2>1. Become(p, pg) /\ UNCHANGED <<reports, marred>> /\ Ran(p, pg) = watched[p]
    BY <1>5 DEF ReportEnded, Ran
  <2>2. Loading(pg, back)
    BY <1>2 DEF PageInv, Loading, Untimed
  <2> HIDE DEF old
  <2> QED
    BY <1>4, <1>5, <2>1, <2>2 DEF Untimed, old
<1>6. CASE id \notin {NoItem, pg.reported}
  <2>1. PICK new : new = ClearTimer([pg EXCEPT !.reported = id])
    OBVIOUS
  <2>2. /\ Become(p, new) /\ reports' = reports \cup {<<p, id>>}
        /\ marred' = IF id # pg.current THEN marred \cup {p} ELSE marred
    BY <1>6, <2>1 DEF ReportEnded, Mark
  <2>3. /\ new \in Scripts /\ new.timer = NoTimer /\ new.reported = id
        /\ new.api = old.api /\ new.made = old.made /\ new.ready = old.ready
        /\ new.loaded = old.loaded /\ new.current = old.current /\ new.parked = old.parked
    <3> DEFINE set == [pg EXCEPT !.reported = id]
    <3>1. /\ set \in Scripts /\ set.reported = id /\ set.api = pg.api /\ set.made = pg.made
          /\ set.ready = pg.ready /\ set.loaded = pg.loaded /\ set.current = pg.current
          /\ set.parked = pg.parked
      BY DEF Scripts
    <3>2. new = ClearTimer(set)
      BY <2>1
    <3> HIDE DEF set
    <3> QED
      BY <3>1, <3>2, ClearTimerLeaves DEF Untimed
  <2>4. Loading(new, back)
    BY <1>2, <2>3 DEF PageInv, Loading
  <2>5. Measured(new, Ran(p, new), p \in marred')
    <3>1. pg.current = old.current
      BY DEF Untimed
    <3> QED
      BY <2>2, <2>3, <3>1, NoTimerTyped DEF Measured
  <2> HIDE DEF old
  <2> QED
    BY <1>4, <1>6, <2>2, <2>3, <2>4, <2>5
<1> QED
  BY <1>5, <1>6

\* The YouTube player's end is reported under the clip the player was made for: the
\* page has been sent back if that clip was not played out and is not over.
LEMMA HandleEndKeeps ==
  ASSUME IInv, NEW p \in Pages, NEW id \in Items, HandleEnd(p, id)
  PROVE  IInv'
<1> DEFINE it == HandlerItem(page[p], id)
           e == endings[p] \ {id}
<1>1. /\ page[p] \in Scripts /\ Named(page[p], p \in sentBack, id)
      /\ Measured(page[p], watched[p], p \in marred)
  BY PageOf DEF HandleEnd, PageInv
<1>2. it \in Items /\ (it \in playedOut \/ Over(it) \/ (p \in sentBack /\ it # id))
  BY <1>1 DEF HandlerItem, Named, Scripts, OfType
<1>3. /\ endings' = [endings EXCEPT ![p] = e] /\ ReportEnded(p, page[p], it)
      /\ misnamed' = IF p \in sentBack /\ it # id THEN misnamed \cup {it} ELSE misnamed
      /\ UNCHANGED <<manager, programme, unsent, open, conn, inbox, crossed, lost, latest,
                     sentBack, playedOut>>
  BY DEF HandleEnd
<1>4. PICK c : c = it
  OBVIOUS
<1>5. Credited(c)'
  BY <1>2, <1>3, <1>4 DEF Credited, Over, manager
<1>6. /\ playedOut' \subseteq Items /\ misnamed \subseteq misnamed' /\ misnamed' \subseteq Items
      /\ atEnd' \in [Pages -> SUBSET Items] /\ Untimed(page[p], page[p])
  BY <1>2, <1>3 DEF IInv, TypeOK, Untimed, HandleEnd
<1> HIDE DEF it
<1> QED
  BY <1>1, <1>2, <1>3, <1>4, <1>5, <1>6, ReportKeeps

LEMMA FireKeeps ==
  ASSUME IInv, NEW p \in Pages, Fire(p)
  PROVE  IInv'
<1> DEFINE old == page[p]
<1>1. /\ old \in Scripts /\ old.timer \in Timers
      /\ Measured(old, watched[p], p \in marred) /\ old.timer.handle
  BY PageOf DEF Fire, PageInv, Scripts
<1>2. PICK it : it = old.timer.item /\ it \in Items
  BY <1>1 DEF Measured, Timers
<1>3. PICK pg : pg = [old EXCEPT !.timer.handle = FALSE]
  OBVIOUS
<1>4. /\ pg \in Scripts /\ Untimed(pg, old) /\ pg.timer.item = it /\ ~pg.timer.handle
  BY <1>1, <1>2, <1>3 DEF Scripts, Timers, Untimed
<1>5. it \in {NoItem, pg.reported} => Measured(pg, watched[p], p \in marred)
  BY <1>1, <1>2, <1>4, ClipAssumption DEF Measured, Untimed
<1>6. /\ ReportEnded(p, pg, it) /\ playedOut' = playedOut \cup {it}
      /\ UNCHANGED <<manager, programme, unsent, open, conn, inbox, crossed, lost, latest,
                     sentBack, misnamed, endings>>
  BY <1>2, <1>3 DEF Fire
<1>7. /\ endings' = [endings EXCEPT ![p] = endings[p]] /\ playedOut' \subseteq Items
      /\ misnamed' \subseteq Items /\ Credited(it)' /\ atEnd' \in [Pages -> SUBSET Items]
  BY <1>2, <1>6 DEF IInv, TypeOK, Credited, Fire
<1> QED
  BY <1>2, <1>4, <1>5, <1>6, <1>7, ReportKeeps

\* The rest of what a page does: its media play, its clock runs, it is reloaded.
LEMMA MediumEndsKeeps ==
  ASSUME IInv, NEW p \in Pages, NEW id \in Items, MediumEnds(p, id)
  PROVE  IInv'
<1> DEFINE old == page[p]
<1>1. PICK pg, l, back, e, w, mar :
        /\ pg = page[p] /\ l = latest[p] /\ back = (p \in sentBack)
        /\ e = endings[p] \cup {id} /\ w = watched[p] /\ mar = (p \in marred)
  OBVIOUS
<1>2. /\ pg \in Scripts /\ PageInv(pg, l, back, endings[p], w, mar)
      /\ e \in SUBSET Items /\ w \in Nat /\ l \in Items \cup {NoItem}
  BY <1>1, PageOf
<1>3. /\ endings' = [endings EXCEPT ![p] = e] /\ playedOut' = playedOut \cup {id}
      /\ UNCHANGED <<manager, network, page, watched, marred, latest, sentBack, misnamed, programme>>
  BY <1>1 DEF MediumEnds
<1>4. type[id] = "youtube" => pg.made # NoItem /\ (id # pg.made => Over(pg.made) \/ back)
  BY <1>1, <1>2, ClipAssumption DEF MediumEnds, PageInv, Loading, Scripts, OfType
<1>5. \A i \in e : Named(pg, back, i)'
  BY <1>1, <1>2, <1>3, <1>4 DEF PageInv, Named, Over, manager
<1>6. /\ page' = [page EXCEPT ![p] = pg] /\ watched' = [watched EXCEPT ![p] = w]
      /\ latest' = [latest EXCEPT ![p] = l]
      /\ back = (p \in sentBack') /\ mar = (p \in marred')
      /\ reports' \in SUBSET (Pages \X Items) /\ playedOut' \subseteq Items
      /\ misnamed' \subseteq Items /\ atEnd' \in [Pages -> SUBSET Items]
      /\ UNCHANGED <<manager, programme, lost, reports, marred, sentBack, misnamed>>
  BY <1>1, <1>3 DEF IInv, TypeOK, network, MediumEnds
<1>7. Networked'
  BY <1>3, NetworkStands DEF network
<1> QED
  BY <1>2, <1>3, <1>5, <1>6, <1>7, PageKeeps DEF PageInv

LEMMA TickKeeps ==
  ASSUME IInv, NEW p \in Pages, Tick(p)
  PROVE  IInv'
<1> DEFINE old == page[p]
           w == IF old.timer.item = old.reported THEN watched[p] ELSE watched[p] + 1
<1>1. /\ old \in Scripts /\ watched[p] \in Nat
      /\ PageInv(old, latest[p], p \in sentBack, endings[p], watched[p], p \in marred)
  BY PageOf
<1>2. PICK pg : pg = [old EXCEPT !.timer.togo = old.timer.togo - 1]
  OBVIOUS
<1>3. old.timer \in Timers /\ old.timer.handle /\ old.timer.togo > 0
  BY <1>1 DEF Tick, Scripts
<1>4. /\ pg \in Scripts /\ Untimed(pg, old) /\ pg.timer.item = old.timer.item
      /\ pg.timer.handle /\ pg.timer.togo = old.timer.togo - 1
  BY <1>1, <1>2, <1>3 DEF Scripts, Timers, Untimed
<1>5. w \in Nat
  BY <1>1
<1>6. /\ Reached(pg.made, latest[p]) /\ Reached(pg.parked, latest[p])
      /\ Loading(pg, p \in sentBack) /\ \A i \in endings[p] : Named(pg, p \in sentBack, i)
  BY <1>1, <1>4 DEF PageInv, Loading, Named, Untimed
<1>7. PICK mar : mar = (p \in marred) /\ mar = (p \in marred')
  BY DEF Tick
<1>8. Measured(pg, w, mar)
  <2>1. pg.timer.item \notin {NoItem, pg.reported} => w + Left(pg.timer) = Cap[pg.timer.item]
    BY <1>1, <1>3, <1>4 DEF PageInv, Measured, Untimed, Left, Timers
  <2> QED
    BY <1>1, <1>3, <1>4, <1>7, <2>1 DEF PageInv, Measured, Untimed
<1>9. /\ page' = [page EXCEPT ![p] = pg] /\ watched' = [watched EXCEPT ![p] = w]
      /\ atEnd' \in [Pages -> SUBSET Items]
      /\ UNCHANGED <<manager, network, endings, playedOut, marred, latest, sentBack, misnamed,
                     programme>>
  BY <1>1, <1>2 DEF Tick, IInv, TypeOK, Scripts, Timers
<1> HIDE DEF old, w
<1> QED
  BY <1>4, <1>5, <1>6, <1>7, <1>8, <1>9, ScriptKeeps

LEMMA ReloadKeeps ==
  ASSUME IInv, NEW p \in Pages, Reload(p)
  PROVE  IInv'
<1>1. PICK pg : pg = FreshPage
  OBVIOUS
<1>2. pg \in Scripts
  BY <1>1, NoTimerTyped DEF FreshPage, Scripts, OfType
<1>3. Aired(NoItem) /\ Reached(pg.made, NoItem) /\ Reached(pg.parked, NoItem)
  BY <1>1 DEF FreshPage, Aired, Reached
<1>4. PICK back, mar : back = (p \in sentBack') /\ mar = (p \in marred')
  OBVIOUS
<1>5. Loading(pg, back) /\ Measured(pg, 0, mar)
  BY <1>1, NoTimerTyped DEF FreshPage, Loading, Measured
<1>6. /\ UNCHANGED <<manager, programme, unsent, crossed, reports, lost, playedOut, misnamed>>
      /\ page' = [page EXCEPT ![p] = pg] /\ inbox' = [inbox EXCEPT ![p] = << >>]
      /\ conn' = [conn EXCEPT ![p] = Unconnected] /\ open' \subseteq Pages
      /\ crossed' \subseteq Pages
      /\ endings' = [endings EXCEPT ![p] = {}] /\ watched' = [watched EXCEPT ![p] = 0]
      /\ latest' = [latest EXCEPT ![p] = NoItem]
      /\ playedOut' \subseteq Items /\ misnamed' \subseteq Items
      /\ reports' \in SUBSET (Pages \X Items) /\ atEnd' \in [Pages -> SUBSET Items]
      /\ marred' \in {marred, marred \cup {p}, marred \ {p}}
      /\ sentBack' \in {sentBack, sentBack \cup {p}, sentBack \ {p}}
  BY <1>1 DEF Reload, IInv, TypeOK
<1>7. Networked'
  <2>1. /\ << >> \in Seq(Facts) /\ Len(<< >>) <= Capacity
        /\ Unconnected \in [at : {"off", "registered", "greeting", "served"}, state : Facts]
    BY BoundAssumption DEF Unconnected, NothingShown, Facts, Snapshots, Aired
  <2> QED
    BY <1>6, <2>1, ConnectionKeeps
<1>8. PICK l \in Items \cup {NoItem}, e \in SUBSET Items, w \in Nat :
        l = NoItem /\ e = {} /\ w = 0
  <2>1. {} \in SUBSET Items /\ 0 \in Nat
    OBVIOUS
  <2> QED
    BY <2>1
<1>9. \A i \in e : Named(pg, back, i)'
  BY <1>8
<1> QED
  BY <1>2, <1>3, <1>4, <1>5, <1>6, <1>7, <1>8, <1>9, PageKeeps

-----------------------------------------------------------------------------
\* The theorems.

LEMMA InitIInv == Init => IInv
<1> SUFFICES ASSUME Init PROVE IInv
  OBVIOUS
<1>1. QueueProofs!IInv
  <2>1. QueueProofs!TypeOK
    <3>1. {} \subseteq Items /\ << >> \in Seq(Items)
      BY QueueAssumed, QueueProofs!EmptySlice
    <3> QED
      BY <3>1 DEF Init, QueueProofs!TypeOK, QueueProofs!Lifecycle!Stages
  <2>2. QueueProofs!StatusMatchesPlace
    BY QueueAssumed, QueueProofs!EmptySlice
    DEF Init, QueueProofs!StatusMatchesPlace, QueueProofs!Placed, QueueProofs!NoItemAssumption
  <2> QED
    BY <2>1, <2>2 DEF Init, QueueProofs!IInv, QueueProofs!NeverIdleWithWork
<1>2. /\ FreshPage \in Scripts /\ << >> \in Seq(Snapshots) /\ << >> \in Seq(Facts)
      /\ << >> \in Seq(Items) /\ Len(<< >>) = 0 /\ DOMAIN << >> = {}
  BY NoTimerTyped DEF FreshPage, Scripts, OfType
<1>3. Unconnected.state \in Facts /\ Unconnected.state \in Snapshots /\ Unconnected.at = "off"
      /\ Unconnected = [at |-> "off", state |-> Unconnected.state]
  BY DEF Unconnected, NothingShown, Facts, Snapshots, Aired
<1>4. TypeOK
  BY <1>2, <1>3, BoundAssumption, ClipAssumption DEF Init, TypeOK
<1>5. Programme /\ Networked
  BY <1>2, <1>3, BoundAssumption DEF Init, Programme, Networked
<1>6. \A p \in Pages : PageInv(page[p], latest[p], p \in sentBack, endings[p],
                               watched[p], p \in marred)
  BY NoTimerTyped DEF Init, FreshPage, PageInv, Aired, Reached, Loading, Measured
<1>7. (\A r \in reports : Credited(r[2])) /\ EndedIsPlayedOut
  BY DEF Init, EndedIsPlayedOut
<1> QED
  BY <1>1, <1>4, <1>5, <1>6, <1>7 DEF IInv

LEMMA NextIInv == IInv /\ [Next]_vars => IInv'
<1> SUFFICES ASSUME IInv, [Next]_vars PROVE IInv'
  OBVIOUS
<1>1. CASE Moderate
  BY <1>1, ModerateKeeps
<1>2. ASSUME NEW n \in DOMAIN unsent, Broadcast(n) PROVE IInv'
  BY <1>2, BroadcastKeeps
<1>3. ASSUME NEW p \in Pages, PageStep(p) PROVE IInv'
  BY <1>3, ConnectingKeeps, ReloadKeeps, ReceiveKeeps, ApiReadyKeeps, PlayerReadyKeeps,
     TickKeeps, FireKeeps, MediumEndsKeeps, HandleEndKeeps, ArriveKeeps
  DEF PageStep
<1>4. CASE UNCHANGED vars
  <2>1. /\ UNCHANGED <<manager, programme, stage>> /\ reports' = reports
        /\ UNCHANGED <<unsent, open, conn, inbox, crossed, lost>>
    BY <1>4 DEF vars, network
  <2>2. Networked'
    BY <2>1, NetworkStands
  <2> QED
    BY <2>1, <2>2, NetworkKeeps DEF IInv, TypeOK
<1> QED
  BY <1>1, <1>2, <1>3, <1>4 DEF Next

\* Every step of the pages, the network and the server keeps the invariant.
THEOREM Invariance == Spec => []IInv
<1>1. Init => IInv
  BY InitIInv
<1>2. IInv /\ [Next]_vars => IInv'
  BY NextIInv
<1> QED
  BY <1>1, <1>2, PTL DEF Spec

\* The script's variables and the connections keep their types.
THEOREM TypeCorrect == Spec => []TypeOK
BY Invariance, PTL DEF IInv

\* In whatever order snapshots reach the pages, no report, however late, doubled or
\* misnamed, finishes a clip that no page has played to its end or to its cap, unless
\* a page reported it that had been told of a clip after one that followed it.
THEOREM NoEarlyEnd == Spec => []EndedIsPlayedOut
BY Invariance, PTL DEF IInv

\* However pages lag, lose connections and repeat themselves, the queue they play
\* keeps items and statuses together and is never idle while a clip waits.
THEOREM QueueUndisturbed ==
  Spec => []QueueProofs!StatusMatchesPlace /\ []QueueProofs!NeverIdleWithWork
<1>1. IInv => QueueProofs!StatusMatchesPlace /\ QueueProofs!NeverIdleWithWork
  BY DEF IInv, QueueProofs!IInv
<1> QED
  BY <1>1, Invariance, PTL

\* The timer adds up to the cap that was paid for, and runs when the clip does.
THEOREM CapsKept == Spec => []CapMeasured
<1>1. IInv => CapMeasured
  BY DEF IInv, PageInv, Measured, CapMeasured, Measuring, Lapsed, Left
<1> QED
  BY <1>1, Invariance, PTL

-----------------------------------------------------------------------------
\* The submit page: its inductive invariant.

\* What the duration fields hold.
Texts == [form : {"blank", "whole", "mixed"}, n : Int]

FormTypes ==
  /\ creditsEnabled \in BOOLEAN
  /\ currentType \in {"youtube", "upload"}
  /\ durationYt \in Texts /\ durationUp \in Texts

\* The cost that the page shows is the price of what the form holds.
CostShown ==
  creditsEnabled => costValue = Shown(currentType, durationYt, durationUp)

\* The form under way asks for what it was priced at.
Requested ==
  request # Nothing =>
    /\ request.type \in {"youtube", "upload"}
    /\ request.duration \in Texts
    /\ creditsEnabled =>
         request.shown = Billable(CurrentDuration(request.duration)) * Rate

\* The clip is the one that the form under way asked for.
Clipped ==
  clip # Nothing =>
    /\ request # Nothing
    /\ clip.length = Length(request.type, request.duration)
    /\ clip.charged = Cost(clip.length)
    /\ clip.start = StartOf(clip.address)
    /\ clip.address \in Addresses \cup {Nothing}

FormInv == FormTypes /\ CostShown /\ Requested /\ Clipped

\* A billed length is bounded by what bounds the length that was asked for.
LEMMA BillableBounds ==
  ASSUME NEW n \in Nat
  PROVE  /\ Billable(n) \in Nat
         /\ n <= Billable(n)
         /\ creditsEnabled => MinBillable <= Billable(n)
         /\ n <= MaxSeconds => Billable(n) <= MaxSeconds
         /\ \A m \in Nat : m <= n => Billable(m) <= Billable(n)
BY SubmitAssumption DEF Billable

\* The server never makes more of a text than the page does, except for the default.
LEMMA ClampBounds ==
  ASSUME NEW text \in Texts, NEW def \in Nat, def <= MaxSeconds
  PROVE  /\ ClampDuration(text, def) \in Nat
         /\ ClampDuration(text, def) <= MaxSeconds
         /\ CurrentDuration(text) \in Nat
         /\ text.form = "whole" /\ text.n >= 0 =>
              ClampDuration(text, def) <= CurrentDuration(text)
         /\ text.form = "whole" /\ text.n >= 0 /\ text.n <= MaxSeconds =>
              ClampDuration(text, def) = CurrentDuration(text)
BY SubmitAssumption DEF ClampDuration, CurrentDuration, Texts

LEMMA InitFormInv == FormInit => FormInv
<1> SUFFICES ASSUME FormInit PROVE FormInv
  OBVIOUS
<1>1. FormTypes
  BY SubmitAssumption
  DEF FormInit, FormTypes, Texts, Whole
<1>2. CostShown
  BY SubmitAssumption
  DEF FormInit, CostShown, Shown, Billable, CurrentDuration, Whole
<1> QED
  BY <1>1, <1>2 DEF FormInit, FormInv, Requested, Clipped

LEMMA NextFormInv == FormInv /\ [FormNext]_formVars => FormInv'
<1> SUFFICES ASSUME FormInv, [FormNext]_formVars PROVE FormInv'
  OBVIOUS
<1> USE DEF FormInv
<1>0. \A n \in Nat : Whole(n) \in Texts
  BY DEF Whole, Texts
<1>1. CASE Toggle
  BY <1>1
  DEF Toggle, server, sending, FormTypes, CostShown, Requested, Clipped, Shown,
      Billable, Length, Cost
<1>2. ASSUME NEW text \in Durations, TypeDuration(text) PROVE FormInv'
  BY <1>2, TextAssumption
  DEF Texts, TypeDuration, server, sending, FormTypes, CostShown, Requested,
      Clipped, Shown, Billable, Length, Cost
<1>3. CASE Submit
  <2>1. FormTypes' /\ CostShown'
    BY <1>3 DEF Submit, server, form, FormTypes, CostShown, Shown, Billable
  <2>2. Clipped'
    BY <1>3 DEF Submit, server, Clipped
  <2>3. Requested'
    <3> DEFINE text == IF currentType = "youtube" THEN durationYt ELSE durationUp
               def == IF currentType = "youtube" THEN MinBillable ELSE 0
    <3>1. /\ text \in Texts /\ def \in Nat /\ def <= MinBillable
          /\ creditsEnabled =>
               costValue = Billable(CurrentDuration(text)) * Rate
      BY SubmitAssumption DEF FormTypes, CostShown, Shown
    <3>2. /\ request'.type = currentType /\ request'.shown = costValue
          /\ request'.duration = Sent(text, def) /\ creditsEnabled' = creditsEnabled
      BY <1>3 DEF Submit, server
    <3> HIDE DEF text, def
    <3>3. Sent(text, def) \in Texts
      BY <1>0, <3>1 DEF Sent
    <3>4. creditsEnabled =>
            Billable(CurrentDuration(Sent(text, def))) =
              Billable(CurrentDuration(text))
      BY <3>1, SubmitAssumption DEF Sent, Billable, CurrentDuration, Whole, Texts
    <3> QED
      BY <3>1, <3>2, <3>3, <3>4 DEF Requested, FormTypes, Billable
  <2> QED
    BY <2>1, <2>2, <2>3
<1>4. ASSUME NEW address \in Addresses \cup {Nothing}, HandleSubmit(address) PROVE FormInv'
  <2>1. FormTypes' /\ CostShown' /\ Requested'
    BY <1>4 DEF HandleSubmit, form, FormTypes, CostShown, Requested, Shown, Billable
  <2>2. Clipped'
    <3>1. request # Nothing /\ UNCHANGED <<request, creditsEnabled>>
      BY <1>4 DEF HandleSubmit
    <3>2. \/ clip' = clip
          \/ Accept(Length(request.type, request.duration), address)
      BY <1>4 DEF HandleSubmit, Refuse
    <3> QED
      BY <3>1, <3>2 DEF Accept, Clipped, Length, Cost, Billable
  <2> QED
    BY <2>1, <2>2
<1>5. CASE AnswerArrives
  <2>1. FormTypes' /\ CostShown'
    BY <1>0, <1>5, SubmitAssumption
    DEF AnswerArrives, FormTypes, CostShown, Shown, Billable
  <2> QED
    BY <1>5, <2>1 DEF AnswerArrives, Requested, Clipped
<1>6. CASE SubmitFails
  BY <1>6
  DEF SubmitFails, form, FormTypes, CostShown, Requested, Clipped, Shown, Billable
<1>7. CASE UNCHANGED <<creditsEnabled, clip, form, sending>>
  BY <1>7
  DEF form, sending, FormTypes, CostShown, Requested, Clipped, Shown, Billable,
      Length, Cost
<1> QED
  BY <1>1, <1>2, <1>3, <1>4, <1>5, <1>6, <1>7
  DEF FormNext, formVars, server, CloseSession, LoginEnds, Poll, CheckArrives,
      PollFails

LEMMA LengthBounds ==
  ASSUME FormTypes, NEW kind \in {"youtube", "upload"}, NEW text \in Texts
  PROVE  /\ Length(kind, text) \in Nat
         /\ Length(kind, text) <= MaxSeconds
         /\ creditsEnabled => MinBillable <= Length(kind, text)
<1> DEFINE n == ClampDuration(text, IF kind = "youtube" THEN MinBillable ELSE 0)
<1>1. n \in Nat /\ n <= MaxSeconds
  BY ClampBounds, SubmitAssumption
<1> HIDE DEF n
<1> QED
  BY <1>1, BillableBounds DEF Length, n

LEMMA Dearer ==
  ASSUME NEW m \in Nat, NEW n \in Nat, m <= n, NEW r \in Nat
  PROVE  m * r <= n * r
OBVIOUS

\* Every step of the page, the viewer and the server keeps the invariant.
THEOREM FormInvariance == FormSpec => []FormInv
<1>1. FormInv /\ [FormNext]_formVars => FormInv'
  BY NextFormInv
<1> QED
  BY <1>1, InitFormInv, PTL DEF FormSpec

\* Of any text, a clip of a bounded length comes, charged for exactly that length.
THEOREM Paid == FormSpec => []PaidIsPlayed
<1>1. FormInv => PaidIsPlayed
  BY LengthBounds DEF FormInv, Requested, Clipped, PaidIsPlayed, Cost
<1> QED
  BY <1>1, FormInvariance, PTL

\* The price of the length the server makes of a text is at most the cost shown.
LEMMA ShownCovers ==
  ASSUME creditsEnabled, NEW kind \in {"youtube", "upload"}, NEW text \in Texts
  PROVE  LET seen == Billable(CurrentDuration(text))
         IN /\ seen \in Nat
            /\ Length(kind, text) <= seen
            /\ text.form = "whole" /\ text.n <= MaxSeconds => Length(kind, text) = seen
<1>1. {MinBillable, MaxSeconds} \subseteq Nat /\ MinBillable <= MaxSeconds
  BY SubmitAssumption
<1> QED
  BY <1>1
  DEF Length, Billable, ClampDuration, CurrentDuration, Texts

\* The charge never exceeds the cost shown, and equals it for a length that the
\* server can read and allows.
THEOREM Charged == FormSpec => []ChargedAsShown
<1>1. ASSUME FormInv, clip # Nothing, creditsEnabled
      PROVE  /\ clip.charged <= request.shown
             /\ request.duration.form = "whole" /\ request.duration.n <= MaxSeconds =>
                  clip.charged = request.shown
  <2> DEFINE length == Length(request.type, request.duration)
             seen == Billable(CurrentDuration(request.duration))
  <2>1. /\ request.type \in {"youtube", "upload"} /\ request.duration \in Texts
        /\ request.shown = seen * Rate /\ clip.charged = length * Rate
    BY <1>1 DEF FormInv, Requested, Clipped, Cost
  <2>2. /\ length \in Nat /\ seen \in Nat /\ length <= seen
        /\ request.duration.form = "whole" /\ request.duration.n <= MaxSeconds => length = seen
    BY <1>1, <2>1, ShownCovers, LengthBounds DEF FormInv
  <2>3. Rate \in Nat
    BY SubmitAssumption
  <2> HIDE DEF length, seen
  <2> QED
    BY <2>1, <2>2, <2>3, Dearer
<1>2. FormInv => ChargedAsShown
  BY <1>1 DEF ChargedAsShown
<1> QED
  BY <1>2, FormInvariance, PTL

-----------------------------------------------------------------------------
\* Starting times.

\* A set of naturals that holds 0 and every successor holds them all: its least
\* counterexample would have a predecessor.
LEMMA Induction ==
  ASSUME NEW P \in SUBSET Nat, 0 \in P, \A n \in P : n + 1 \in P
  PROVE  P = Nat
<1> DEFINE Rest == Nat \ P
<1>1. SUFFICES ASSUME Rest # {} PROVE FALSE
  OBVIOUS
<1>2. PICK x \in Rest : \A y \in Rest : <<y, x>> \notin OpToRel(<, Nat)
  <2>1. IsWellFoundedOn(OpToRel(<, Nat), Nat)
    BY NatLessThanWellFounded, Zenon
  <2> HIDE DEF Rest
  <2> QED
    BY <1>1, <2>1, WFMin, Zenon DEF Rest
<1>3. \A y \in Rest : ~(y < x)
  BY <1>2 DEF OpToRel
<1> QED
  BY <1>3

\* f holds the totals of the loop after each of k terms.
Totals(f, k, base, terms) ==
  f = [n \in 0 .. k |-> IF n = 0 THEN 0 ELSE f[n - 1] * base + terms[n]]

\* The loop has totals, however many terms there are.
LEMMA TotalsExist ==
  ASSUME NEW base, NEW terms, NEW k \in Nat
  PROVE  \E f : Totals(f, k, base, terms)
<1> DEFINE P == {j \in Nat : \E f : Totals(f, j, base, terms)}
<1>1. 0 \in P
  <2>1. Totals([n \in 0 .. 0 |-> 0], 0, base, terms)
    BY DEF Totals
  <2> QED
    BY <2>1
<1>2. ASSUME NEW j \in P PROVE j + 1 \in P
  <2>1. PICK f : Totals(f, j, base, terms)
    OBVIOUS
  <2> DEFINE g == [n \in 0 .. j + 1 |-> IF n <= j THEN f[n] ELSE f[j] * base + terms[j + 1]]
  <2>2. j \in Nat
    OBVIOUS
  <2>3. ASSUME NEW n \in 0 .. j + 1
        PROVE  g[n] = IF n = 0 THEN 0 ELSE g[n - 1] * base + terms[n]
    BY <2>1, <2>2 DEF Totals
  <2>4. Totals(g, j + 1, base, terms)
    BY <2>3 DEF Totals
  <2> HIDE DEF g
  <2>5. \E h : Totals(h, j + 1, base, terms)
    BY <2>4
  <2> QED
    BY <2>2, <2>5
<1> HIDE DEF P
<1>3. P \in SUBSET Nat
  BY DEF P
<1>4. P = Nat
  BY <1>1, <1>2, <1>3, Induction
<1> QED
  BY <1>4 DEF P

\* What the loop makes of the terms is the last of its totals.
LEMMA AccumulateIs ==
  ASSUME NEW base, NEW T, NEW terms \in Seq(T)
  PROVE  \E f : /\ Accumulate(base, terms) = f[Len(terms)]
                /\ f[0] = 0
                /\ \A n \in 1 .. Len(terms) : f[n] = f[n - 1] * base + terms[n]
<1> DEFINE f == CHOOSE g : g = [n \in 0 .. Len(terms) |->
                                  IF n = 0 THEN 0 ELSE g[n - 1] * base + terms[n]]
<1>1. Len(terms) \in Nat
  OBVIOUS
<1>2. f = [n \in 0 .. Len(terms) |-> IF n = 0 THEN 0 ELSE f[n - 1] * base + terms[n]]
  <2>1. \E g : g = [n \in 0 .. Len(terms) |-> IF n = 0 THEN 0 ELSE g[n - 1] * base + terms[n]]
    <3>1. \E g : Totals(g, Len(terms), base, terms)
      BY <1>1, TotalsExist
    <3> QED
      BY <3>1, Zenon DEF Totals
  <2> QED
    BY <2>1, Zenon
<1>3. Accumulate(base, terms) = f[Len(terms)]
  BY Zenon DEF Accumulate
<1> HIDE DEF f
<1>4. f[0] = 0 /\ \A n \in 1 .. Len(terms) : f[n] = f[n - 1] * base + terms[n]
  <2>1. 0 \in 0 .. Len(terms) /\ \A n \in 1 .. Len(terms) : n \in 0 .. Len(terms) /\ n # 0
    BY <1>1
  <2> QED
    BY <1>2, <2>1
<1> QED
  BY <1>3, <1>4

\* Terms without a sign add up to a total without one.
LEMMA AccumulateNat ==
  ASSUME NEW base \in Nat, NEW terms \in Seq(Nat)
  PROVE  Accumulate(base, terms) \in Nat
<1>1. PICK f : /\ Accumulate(base, terms) = f[Len(terms)]
               /\ f[0] = 0
               /\ \A n \in 1 .. Len(terms) : f[n] = f[n - 1] * base + terms[n]
  BY AccumulateIs
<1> DEFINE P == {n \in Nat : n <= Len(terms) => f[n] \in Nat}
<1>2. Len(terms) \in Nat
  OBVIOUS
<1>3. 0 \in P
  BY <1>1
<1>4. ASSUME NEW n \in P PROVE n + 1 \in P
  <2>1. CASE n + 1 <= Len(terms)
    <3>1. f[n] \in Nat /\ n + 1 \in 1 .. Len(terms) /\ n \in Nat
      BY <1>2, <2>1
    <3> DEFINE m == f[n] * base
    <3>2. m \in Nat
      BY <3>1
    <3>3. f[n + 1] = m + terms[n + 1]
      BY <1>1, <3>1
    <3> HIDE DEF m
    <3>4. terms[n + 1] \in Nat
      BY <3>1
    <3>5. \A a, b \in Nat : a + b \in Nat
      OBVIOUS
    <3>6. f[n + 1] \in Nat
      BY <3>2, <3>3, <3>4, <3>5, Zenon
    <3> QED
      BY <3>1, <3>6
  <2> QED
    BY <2>1
<1>5. P \in SUBSET Nat
  OBVIOUS
<1> HIDE DEF P
<1>6. P = Nat
  BY <1>3, <1>4, <1>5, Induction
<1> QED
  BY <1>1, <1>2, <1>6 DEF P

\* What the loop makes of up to three terms.
LEMMA AccumulateFew ==
  ASSUME NEW base \in Nat, NEW terms \in Seq(Int)
  PROVE  /\ Len(terms) = 1 => Accumulate(base, terms) = terms[1]
         /\ Len(terms) = 2 => Accumulate(base, terms) = terms[1] * base + terms[2]
         /\ Len(terms) = 3 =>
              Accumulate(base, terms) = (terms[1] * base + terms[2]) * base + terms[3]
<1>1. PICK f : /\ Accumulate(base, terms) = f[Len(terms)]
               /\ f[0] = 0
               /\ \A n \in 1 .. Len(terms) : f[n] = f[n - 1] * base + terms[n]
  BY AccumulateIs
<1>2. ASSUME Len(terms) >= 1 PROVE f[1] = terms[1]
  <2>1. f[1] = f[0] * base + terms[1] /\ terms[1] \in Int
    BY <1>1, <1>2
  <2> QED
    BY <1>1, <2>1
<1>3. ASSUME Len(terms) >= 2 PROVE f[2] = terms[1] * base + terms[2]
  BY <1>1, <1>2, <1>3
<1>4. ASSUME Len(terms) >= 3 PROVE f[3] = (terms[1] * base + terms[2]) * base + terms[3]
  BY <1>1, <1>3, <1>4
<1>5. CASE Len(terms) = 1
  BY <1>1, <1>2, <1>5
<1>6. CASE Len(terms) = 2
  BY <1>1, <1>3, <1>6
<1>7. CASE Len(terms) = 3
  BY <1>1, <1>4, <1>7
<1> QED
  BY <1>5, <1>6, <1>7

\* The texts of times, as TextAssumption types them.
Parts == [n : Int, suffix : STRING]

Times == Seq(Parts)

LEMMA TimesParts ==
  ASSUME NEW text \in Times
  PROVE  /\ DOMAIN text = 1 .. Len(text) /\ Len(text) \in Nat
         /\ \A i \in 1 .. Len(text) : text[i].n \in Int /\ text[i].suffix \in STRING
<1>1. DOMAIN text = 1 .. Len(text) /\ Len(text) \in Nat
  BY DEF Times
<1>2. ASSUME NEW i \in 1 .. Len(text) PROVE text[i].n \in Int /\ text[i].suffix \in STRING
  <2>1. text[i] \in Parts
    BY <1>1 DEF Times
  <2> QED
    BY <2>1 DEF Parts
<1> QED
  BY <1>1, <1>2

\* The suffixes of a text, one by one.
LEMMA UnitsAre ==
  ASSUME NEW text \in Times
  PROVE  /\ \A a : Units(text) = <<a>> <=> Len(text) = 1 /\ text[1].suffix = a
         /\ \A a, b : Units(text) = <<a, b>> <=>
              Len(text) = 2 /\ text[1].suffix = a /\ text[2].suffix = b
         /\ \A a, b, c : Units(text) = <<a, b, c>> <=>
              Len(text) = 3 /\ text[1].suffix = a /\ text[2].suffix = b /\ text[3].suffix = c
<1> DEFINE units == Units(text)
<1>1. /\ DOMAIN text = 1 .. Len(text) /\ Len(text) \in Nat
      /\ units = [i \in 1 .. Len(text) |-> text[i].suffix]
  BY TimesParts DEF Units
<1>2. \A i \in 1 .. Len(text) : text[i].suffix \in STRING
  BY TimesParts
<1>3. units \in Seq(STRING) /\ Len(units) = Len(text)
      /\ \A i \in 1 .. Len(text) : units[i] = text[i].suffix
  BY <1>1, <1>2
<1> HIDE DEF units
<1>4. \A a : units = <<a>> <=> Len(text) = 1 /\ text[1].suffix = a
  BY <1>1, <1>3
<1>5. \A a, b : units = <<a, b>> <=>
        Len(text) = 2 /\ text[1].suffix = a /\ text[2].suffix = b
  BY <1>1, <1>3
<1>6. \A a, b, c : units = <<a, b, c>> <=>
        Len(text) = 3 /\ text[1].suffix = a /\ text[2].suffix = b /\ text[3].suffix = c
  BY <1>1, <1>3
<1> QED
  BY <1>4, <1>5, <1>6 DEF units

\* What the loop of parseColonTime accepts.
Readable(text) ==
  \A i \in DOMAIN text :
    text[i].n >= 0 /\ text[i].suffix = (IF i < Len(text) THEN "colon" ELSE "end")

\* A clock time has up to three parts.
LEMMA ClockLength ==
  ASSUME NEW text \in Times, IsClock(text)
  PROVE  text # << >> /\ Len(text) \in 1 .. 3
<1>1. \/ Units(text) = <<"end">>
      \/ Units(text) = <<"colon", "end">>
      \/ Units(text) = <<"colon", "colon", "end">>
  BY DEF IsClock
<1>2. Len(text) \in 1 .. 3
  BY <1>1, UnitsAre
<1> QED
  BY <1>2, EmptySeq

\* The clock times are the readable texts of up to three parts.
LEMMA ClockIsReadable ==
  ASSUME NEW text \in Times, text # << >>
  PROVE  /\ IsClock(text) => Readable(text) /\ Len(text) \in 1 .. 3
         /\ Len(text) <= 3 /\ Readable(text) => IsClock(text)
<1>1. DOMAIN text = 1 .. Len(text) /\ Len(text) \in Nat /\ Len(text) # 0
  BY EmptySeq DEF Times
<1>2. ASSUME IsClock(text) PROVE Readable(text) /\ Len(text) \in 1 .. 3
  <2>1. \/ Units(text) = <<"end">>
        \/ Units(text) = <<"colon", "end">>
        \/ Units(text) = <<"colon", "colon", "end">>
    BY <1>2 DEF IsClock
  <2>2. CASE Units(text) = <<"end">>
    <3>1. Len(text) = 1 /\ text[1].suffix = "end"
      BY <2>2, UnitsAre
    <3> QED
      BY <1>1, <1>2, <3>1 DEF IsClock, Readable
  <2>3. CASE Units(text) = <<"colon", "end">>
    <3>1. Len(text) = 2 /\ text[1].suffix = "colon" /\ text[2].suffix = "end"
      BY <2>3, UnitsAre
    <3> QED
      BY <1>1, <1>2, <3>1 DEF IsClock, Readable
  <2>4. CASE Units(text) = <<"colon", "colon", "end">>
    <3>1. /\ Len(text) = 3 /\ text[1].suffix = "colon"
          /\ text[2].suffix = "colon" /\ text[3].suffix = "end"
      BY <2>4, UnitsAre
    <3> QED
      BY <1>1, <1>2, <3>1 DEF IsClock, Readable
  <2> QED
    BY <2>1, <2>2, <2>3, <2>4
<1>3. ASSUME Len(text) <= 3, Readable(text) PROVE IsClock(text)
  <2>1. Len(text) = 1 \/ Len(text) = 2 \/ Len(text) = 3
    BY <1>1, <1>3
  <2>2. \A i \in 1 .. Len(text) : text[i].suffix = (IF i < Len(text) THEN "colon" ELSE "end")
    BY <1>1, <1>3 DEF Readable
  <2>3. CASE Len(text) = 1
    <3>1. text[1].suffix = "end"
      BY <2>2, <2>3
    <3>2. Units(text) = <<"end">>
      BY <2>3, <3>1, UnitsAre
    <3> QED
      BY <1>3, <3>2 DEF IsClock, Readable
  <2>4. CASE Len(text) = 2
    <3>1. text[1].suffix = "colon" /\ text[2].suffix = "end"
      BY <2>2, <2>4
    <3>2. Units(text) = <<"colon", "end">>
      BY <2>4, <3>1, UnitsAre
    <3> QED
      BY <1>3, <3>2 DEF IsClock, Readable
  <2>5. CASE Len(text) = 3
    <3>1. text[1].suffix = "colon" /\ text[2].suffix = "colon" /\ text[3].suffix = "end"
      BY <2>2, <2>5
    <3>2. Units(text) = <<"colon", "colon", "end">>
      BY <2>5, <3>1, UnitsAre
    <3> QED
      BY <1>3, <3>2 DEF IsClock, Readable
  <2> QED
    BY <2>1, <2>3, <2>4, <2>5
<1> QED
  BY <1>2, <1>3

\* The loop reads a clock time as what it means, and a text it refuses as none.
LEMMA ColonTime ==
  ASSUME NEW text \in Times, text # << >>
  PROVE  /\ IsClock(text) => /\ ParseColonTime(text) = Meant(text)
                                  /\ Meant(text) \in Nat
         /\ ParseColonTime(text) # Unparsed => ParseColonTime(text) \in Nat
         /\ Len(text) <= 3 /\ ~IsClock(text) =>
              ParseColonTime(text) = Unparsed
<1> DEFINE terms == [i \in DOMAIN text |-> text[i].n]
           meant == [i \in DOMAIN text |-> text[i].n * Weight(text, i)]
<1>1. DOMAIN text = 1 .. Len(text) /\ Len(text) \in Nat
  BY DEF Times
<1>2. ParseColonTime(text) =
        IF Readable(text) THEN Accumulate(60, terms) ELSE Unparsed
  BY DEF ParseColonTime, Readable
<1>3. ASSUME Readable(text) PROVE terms \in Seq(Nat) /\ Len(terms) = Len(text)
  <2>1. \A i \in 1 .. Len(text) : text[i].n \in Nat
    BY <1>3, TimesParts DEF Readable
  <2> QED
    BY <1>1, <2>1
<1>4. Readable(text) => Accumulate(60, terms) \in Nat
  BY <1>3, AccumulateNat
<1>5. ASSUME IsClock(text)
      PROVE  Accumulate(60, terms) = Meant(text)
  <2>1. Readable(text) /\ Len(text) \in 1 .. 3
    BY <1>5, ClockIsReadable
  <2>2. \A i \in 1 .. Len(text) : text[i].n \in Nat /\ text[i].suffix \in {"colon", "end"}
    BY <2>1, TimesParts DEF Readable
  <2>3. ASSUME NEW i \in 1 .. Len(text)
        PROVE  Weight(text, i) = <<1, 60, 3600>>[Len(text) - i + 1]
    <3>1. /\ text[i].suffix # "h"
          /\ text[i].suffix # "m"
          /\ text[i].suffix # "s"
      BY <2>2
    <3> QED
      BY <3>1 DEF Weight
  <2>4. \A i \in 1 .. Len(text) : Weight(text, i) \in {1, 60, 3600}
    <3>1. \A n \in 1 .. 3 : \A i \in 1 .. n : n - i + 1 \in 1 .. 3
      OBVIOUS
    <3>2. \A i \in 1 .. Len(text) : Len(text) - i + 1 \in 1 .. 3
      BY <2>1, <3>1, Zenon
    <3> DEFINE weights == <<1, 60, 3600>>
    <3>3. \A k \in 1 .. 3 : weights[k] \in {1, 60, 3600}
      OBVIOUS
    <3>4. \A i \in 1 .. Len(text) : Weight(text, i) = weights[Len(text) - i + 1]
      BY <2>3
    <3> HIDE DEF weights
    <3>5. ASSUME NEW i \in 1 .. Len(text) PROVE Weight(text, i) \in {1, 60, 3600}
      <4>1. Len(text) - i + 1 \in 1 .. 3
        BY <3>2
      <4>2. weights[Len(text) - i + 1] \in {1, 60, 3600}
        BY <3>3, <4>1
      <4>3. Weight(text, i) = weights[Len(text) - i + 1]
        BY <3>4
      <4> QED
        BY <4>2, <4>3
    <3> QED
      BY <3>5
  <2>5. meant \in Seq(Nat) /\ Len(meant) = Len(text)
        /\ \A i \in 1 .. Len(text) : meant[i] = text[i].n * Weight(text, i)
    BY <1>1, <2>2, <2>4
  <2>6. \A i \in 1 .. Len(text) : terms[i] = text[i].n
    BY <1>1
  <2>7. terms \in Seq(Int) /\ meant \in Seq(Int) /\ Len(terms) = Len(text)
    BY <1>3, <2>1, <2>5
  <2>8. Meant(text) = Accumulate(1, meant)
    BY DEF Meant
  <2> HIDE DEF terms, meant
  <2>9. CASE Len(text) = 1
    <3>1. terms[1] = meant[1] /\ terms[1] \in Int
      BY <2>2, <2>3, <2>5, <2>6, <2>9
    <3> QED
      BY <2>5, <2>7, <2>8, <2>9, <3>1, AccumulateFew
  <2>10. CASE Len(text) = 2
    <3>1. /\ terms[1] \in Int /\ terms[2] \in Int
          /\ meant[1] = terms[1] * 60 /\ meant[2] = terms[2]
      BY <2>2, <2>3, <2>5, <2>6, <2>10
    <3>2. /\ Accumulate(60, terms) = terms[1] * 60 + terms[2]
          /\ Accumulate(1, meant) = meant[1] * 1 + meant[2]
      BY <2>5, <2>7, <2>10, AccumulateFew
    <3> QED
      BY <2>8, <3>1, <3>2
  <2>11. CASE Len(text) = 3
    <3>1. /\ terms[1] \in Int /\ terms[2] \in Int /\ terms[3] \in Int
          /\ meant[1] = terms[1] * 3600 /\ meant[2] = terms[2] * 60 /\ meant[3] = terms[3]
      BY <2>2, <2>3, <2>5, <2>6, <2>11
    <3>2. /\ Accumulate(60, terms) = (terms[1] * 60 + terms[2]) * 60 + terms[3]
          /\ Accumulate(1, meant) = (meant[1] * 1 + meant[2]) * 1 + meant[3]
      BY <2>5, <2>7, <2>11, AccumulateFew
    <3> QED
      BY <2>8, <3>1, <3>2
  <2> QED
    BY <2>1, <2>9, <2>10, <2>11
<1> HIDE DEF terms, meant
<1> QED
  BY <1>2, <1>4, <1>5, ClockIsReadable DEF Unparsed

\* Of a time with units, every part is read as what it means.
LEMMA UnitTerms ==
  ASSUME NEW text \in Times, IsUnits(text)
  PROVE  /\ text # << >>
         /\ \A i \in DOMAIN text : /\ text[i].n \in Nat
                                   /\ text[i].suffix \in {"h", "m", "s"}
                                   /\ Weight(text, i) = UnitSeconds[text[i].suffix]
<1>1. \/ \E a \in {"h", "m", "s"} : Units(text) = <<a>>
      \/ \E a, b \in {"h", "m", "s"} : Units(text) = <<a, b>>
      \/ Units(text) = <<"h", "m", "s">>
  BY DEF IsUnits
<1>2. \/ Len(text) = 1 /\ text[1].suffix \in {"h", "m", "s"}
      \/ Len(text) = 2 /\ {text[1].suffix, text[2].suffix} \subseteq {"h", "m", "s"}
      \/ /\ Len(text) = 3
         /\ {text[1].suffix, text[2].suffix, text[3].suffix} \subseteq {"h", "m", "s"}
  BY <1>1, UnitsAre
<1>3. ASSUME NEW i \in DOMAIN text PROVE text[i].suffix \in {"h", "m", "s"}
  <2>1. i \in Nat /\ 1 <= i /\ i <= Len(text) /\ Len(text) \in Nat
    BY TimesParts
  <2>2. CASE Len(text) = 1
    BY <1>2, <2>1, <2>2
  <2>3. CASE Len(text) = 2
    <3>1. i = 1 \/ i = 2
      BY <2>1, <2>3
    <3> QED
      BY <1>2, <2>3, <3>1
  <2>4. CASE Len(text) = 3
    <3>1. i = 1 \/ i = 2 \/ i = 3
      BY <2>1, <2>4
    <3> QED
      BY <1>2, <2>4, <3>1
  <2> QED
    BY <1>2, <2>2, <2>3, <2>4
<1>4. \A i \in DOMAIN text : text[i].n \in Nat
  BY TimesParts DEF IsUnits
<1>5. text # << >>
  BY <1>2, EmptySeq
<1>6. \A i \in DOMAIN text : Weight(text, i) = UnitSeconds[text[i].suffix]
  BY <1>3 DEF Weight, UnitSeconds
<1> QED
  BY <1>3, <1>4, <1>5, <1>6

\* The time in a link is read as what it means, and otherwise as some natural.
LEMMA TimeRead ==
  ASSUME NEW text \in Times
  PROVE  /\ IsClock(text) \/ IsUnits(text) =>
              ParseTimeToSeconds(text) = Meant(text)
         /\ ParseTimeToSeconds(text) \in Nat
<1> DEFINE terms == [i \in DOMAIN text |->
                      text[i].n * (IF text[i].suffix = "end" THEN 1
                                   ELSE UnitSeconds[text[i].suffix])]
           meant == [i \in DOMAIN text |-> text[i].n * Weight(text, i)]
           colon == \A i \in DOMAIN text : text[i].suffix \in {"colon", "end"}
           unit == \A i \in DOMAIN text :
                     /\ text[i].n >= 0
                     /\ \/ text[i].suffix \in DOMAIN UnitSeconds
                        \/ text[i].suffix = "end" /\ i = Len(text)
<1>1. DOMAIN text = 1 .. Len(text) /\ Len(text) \in Nat
  BY TimesParts
<1>2. DOMAIN UnitSeconds = {"h", "m", "s"}
      /\ \A u \in {"h", "m", "s"} : UnitSeconds[u] \in Nat
  BY DEF UnitSeconds
<1>3. ParseTimeToSeconds(text) =
        IF text = << >> THEN 0
        ELSE IF colon
        THEN IF ParseColonTime(text) = Unparsed THEN 0
             ELSE ParseColonTime(text)
        ELSE IF unit THEN Accumulate(1, terms) ELSE 0
  BY DEF ParseTimeToSeconds
<1>4. ASSUME IsUnits(text)
      PROVE  ParseTimeToSeconds(text) = Meant(text)
  <2>1. text # << >> /\ ~colon /\ unit
    <3>1. 1 \in DOMAIN text
      BY <1>1, <1>4, UnitTerms, EmptySeq DEF Times
    <3> QED
      BY <1>2, <1>4, <3>1, UnitTerms
  <2>2. terms = meant
    BY <1>4, UnitTerms
  <2> QED
    BY <1>3, <2>1, <2>2 DEF Meant
<1>5. ASSUME IsClock(text)
      PROVE  ParseTimeToSeconds(text) = Meant(text)
  <2>1. text # << >>
    BY <1>5, ClockLength
  <2>2. colon
    BY <1>5, <2>1, ClockIsReadable DEF Readable
  <2>3. ParseColonTime(text) = Meant(text) /\ Meant(text) \in Nat
    BY <1>5, <2>1, ColonTime
  <2> QED
    BY <1>3, <2>1, <2>2, <2>3 DEF Unparsed
<1>6. ASSUME text # << >>, unit
      PROVE  Accumulate(1, terms) \in Nat
  <2>1. ASSUME NEW i \in 1 .. Len(text)
        PROVE  text[i].n * (IF text[i].suffix = "end" THEN 1
                            ELSE UnitSeconds[text[i].suffix]) \in Nat
    <3>1. text[i].n \in Nat
      BY <1>1, <1>6, TimesParts
    <3>2. (IF text[i].suffix = "end" THEN 1 ELSE UnitSeconds[text[i].suffix]) \in Nat
      BY <1>1, <1>2, <1>6
    <3> QED
      BY <3>1, <3>2
  <2>2. terms \in Seq(Nat)
    BY <1>1, <2>1
  <2> QED
    BY <2>2, AccumulateNat
<1> HIDE DEF terms, meant, colon, unit
<1>7. ParseTimeToSeconds(text) \in Nat
  BY <1>3, <1>6, ColonTime
<1> QED
  BY <1>4, <1>5, <1>7

\* A clip starts at the time in the start field, or else at that in the link.
LEMMA StartRead ==
  ASSUME NEW address \in Addresses, address # Nothing
  PROVE  LET field == address.field
             time  == LinkTime(address.link)
         IN IF IsClock(field) THEN StartOf(address) = Meant(field)
            ELSE IF Len(field) <= 3 /\ (IsClock(time) \/ IsUnits(time))
            THEN StartOf(address) = Meant(time)
            ELSE StartOf(address) >= 0
<1> DEFINE field == address.field
           time == LinkTime(address.link)
<1>1. field \in Times /\ time \in Times
  <2>1. {address.field, address.link.t, address.link.start, address.link.fragment}
          \subseteq Times
    BY TextAssumption DEF Times, Parts
  <2> QED
    BY <2>1 DEF LinkTime
<1>2. StartOf(address) =
        IF ParseStart(field) = Unparsed THEN ParseTimeToSeconds(time)
        ELSE ParseStart(field)
  BY DEF StartOf, StartSeconds, LinkStart, LinkTime
<1> HIDE DEF field, time
<1>3. IsClock(field) => field # << >>
  BY <1>1, ClockLength
<1>4. IsClock(field) =>
        ParseStart(field) = Meant(field) /\ Meant(field) \in Nat
  BY <1>1, <1>3, ColonTime DEF ParseStart
<1>5. Len(field) <= 3 /\ ~IsClock(field) => ParseStart(field) = Unparsed
  BY <1>1, ColonTime DEF ParseStart
<1>6. ParseStart(field) # Unparsed => ParseStart(field) \in Nat
  BY <1>1, ColonTime DEF ParseStart
<1>7. /\ IsClock(time) \/ IsUnits(time) =>
           ParseTimeToSeconds(time) = Meant(time)
      /\ ParseTimeToSeconds(time) \in Nat
  BY <1>1, TimeRead
<1>8. CASE IsClock(field)
  BY <1>2, <1>4, <1>8 DEF Unparsed, field, time
<1>9. CASE ~IsClock(field) /\ Len(field) <= 3
  BY <1>2, <1>5, <1>7, <1>9 DEF field, time
<1>10. CASE ~IsClock(field) /\ ~(Len(field) <= 3)
  BY <1>2, <1>6, <1>7, <1>10 DEF field, time
<1> QED
  BY <1>8, <1>9, <1>10

\* A clip starts where the viewer said, in each way of writing a time.
THEOREM Starts == FormSpec => []StartsWhereAsked
<1>1. FormInv => StartsWhereAsked
  BY StartRead DEF FormInv, Clipped, StartsWhereAsked
<1> QED
  BY <1>1, FormInvariance, PTL
=============================================================================
