----------------------------- MODULE MediaQueue -----------------------------
(***************************************************************************)
(* The queue of one channel (internal/queue/queue.go, type Manager).       *)
(*                                                                         *)
(* Every operation holds the manager's mutex from its first read to its    *)
(* last write, so one operation is one action.  The snapshot it hands to   *)
(* the broadcast callback is computed under the lock and sent after it; it *)
(* does not feed back into the manager.                                    *)
(*                                                                         *)
(* An operation that finds no such item returns false and changes nothing: *)
(* it is a stuttering step.                                                *)
(***************************************************************************)
EXTENDS Naturals, Sequences, SequencesExt

CONSTANTS
  Items,    \* ids of the items that may be submitted; each is submitted once
  NoItem    \* a nil *Item, and the empty id ""

ASSUME NoItemAssumption == NoItem \notin Items

VARIABLES
  pending,      \* awaiting a moderator, in submission order
  queue,        \* approved, in play order
  nowPlaying,   \* the item on the player, or NoItem
  paused,
  bypass,       \* submissions skip the moderator
  status,       \* Item.Status of every item; "new" before it is submitted
  aired         \* history: the items players have been told to play

manager == <<pending, queue, nowPlaying, paused, bypass, status>>

vars == <<manager, aired>>

Lifecycle == INSTANCE ItemLifecycle

-----------------------------------------------------------------------------
\* Helpers.

ToAll(ids, stage) == [i \in Items |-> IF i \in ids THEN stage ELSE status[i]]

\* Plausible bug: the idle test is dropped, so the current item is replaced.
StartAlways(q, np, st) ==
  IF q = << >>
  THEN queue' = q /\ nowPlaying' = np /\ status' = st
  ELSE /\ queue' = Tail(q)
       /\ nowPlaying' = Head(q)
       /\ status' = [st EXCEPT ![Head(q)] = "playing"]

\* Plausible bug: the next item is taken from the wrong end of the queue.
StartNewest(q, np, st) ==
  IF np # NoItem \/ q = << >>
  THEN queue' = q /\ nowPlaying' = np /\ status' = st
  ELSE /\ queue' = Front(q)
       /\ nowPlaying' = Last(q)
       /\ status' = [st EXCEPT ![Last(q)] = "playing"]

\* startIfIdleLocked, applied to the queue q, now-playing np and stages st the
\* operation has computed so far.  A paused manager still starts an item.
StartIfIdle(q, np, st) ==
  IF np # NoItem \/ q = << >>
  THEN queue' = q /\ nowPlaying' = np /\ status' = st
  ELSE /\ queue' = Tail(q)
       /\ nowPlaying' = Head(q)
       /\ status' = [st EXCEPT ![Head(q)] = "playing"]

-----------------------------------------------------------------------------
\* Operations.

\* Plausible bug: the bypass branch leaves Item.Status at its zero value.
SubmitNoStatus(id) ==
  /\ status[id] = "new"
  /\ pending' = IF bypass THEN pending ELSE Append(pending, id)
  /\ queue' = IF bypass THEN Append(queue, id) ELSE queue
  /\ status' = [status EXCEPT ![id] = IF bypass THEN "" ELSE "pending"]
  /\ UNCHANGED <<nowPlaying, paused, bypass>>

Submit(id) ==
  /\ status[id] = "new"
  /\ IF bypass
     THEN /\ UNCHANGED pending
          /\ StartIfIdle(Append(queue, id), nowPlaying,
                         [status EXCEPT ![id] = "approved"])
     ELSE /\ pending' = Append(pending, id)
          /\ StartIfIdle(queue, nowPlaying, [status EXCEPT ![id] = "pending"])
  /\ UNCHANGED <<paused, bypass>>

\* Plausible bug: the item joins the queue but stays in pending.
ApproveCopy(id) ==
  /\ Contains(pending, id)
  /\ StartIfIdle(Append(queue, id), nowPlaying, [status EXCEPT ![id] = "approved"])
  /\ UNCHANGED <<pending, paused, bypass>>

Approve(id) ==
  \E i \in DOMAIN pending :
    /\ pending[i] = id
    /\ pending' = RemoveAt(pending, i)
    /\ StartIfIdle(Append(queue, id), nowPlaying,
                   [status EXCEPT ![id] = "approved"])
    /\ UNCHANGED <<paused, bypass>>

Reject(id) ==
  \E i \in DOMAIN pending :
    /\ pending[i] = id
    /\ pending' = RemoveAt(pending, i)
    /\ status' = [status EXCEPT ![id] = "rejected"]
    /\ UNCHANGED <<queue, nowPlaying, paused, bypass>>

\* Manager.Remove.
RemoveQueued(id) ==
  \E i \in DOMAIN queue :
    /\ queue[i] = id
    /\ queue' = RemoveAt(queue, i)
    /\ status' = [status EXCEPT ![id] = "skipped"]
    /\ UNCHANGED <<pending, nowPlaying, paused, bypass>>

\* Plausible bug: the id of the report is not compared with the current item.
EndedUnguarded(id) ==
  /\ StartIfIdle(queue, NoItem,
                 IF nowPlaying = NoItem THEN status
                 ELSE [status EXCEPT ![nowPlaying] = "done"])
  /\ paused' = FALSE
  /\ UNCHANGED <<pending, bypass>>

\* A player reports the end of id; NoItem is the empty id, which advances
\* whatever plays.  The rest runs whether or not the id matched.
Ended(id) ==
  /\ IF nowPlaying # NoItem /\ id \in {NoItem, nowPlaying}
     THEN StartIfIdle(queue, NoItem, [status EXCEPT ![nowPlaying] = "done"])
     ELSE StartIfIdle(queue, nowPlaying, status)
  /\ paused' = FALSE
  /\ UNCHANGED <<pending, bypass>>

\* Plausible bug: skipping does not call startIfIdleLocked.
SkipThenIdle ==
  /\ status' = IF nowPlaying = NoItem THEN status
               ELSE [status EXCEPT ![nowPlaying] = "skipped"]
  /\ nowPlaying' = NoItem
  /\ paused' = FALSE
  /\ UNCHANGED <<pending, queue, bypass>>

Skip ==
  /\ IF nowPlaying # NoItem
     THEN StartIfIdle(queue, NoItem, [status EXCEPT ![nowPlaying] = "skipped"])
     ELSE StartIfIdle(queue, nowPlaying, status)
  /\ paused' = FALSE
  /\ UNCHANGED <<pending, bypass>>

\* Pause and Resume.
SetPaused(p) ==
  /\ paused' = p
  /\ UNCHANGED <<pending, queue, nowPlaying, bypass, status>>

\* Clears the queue; with all, the pending items and the current one too.
Clear(all) ==
  /\ queue' = << >>
  /\ IF all
     THEN /\ pending' = << >>
          /\ nowPlaying' = NoItem
          /\ paused' = FALSE
          /\ status' = [i \in Items |->
                          IF i \in ToSet(pending) THEN "rejected"
                          ELSE IF i \in ToSet(queue) \cup {nowPlaying} THEN "skipped"
                          ELSE status[i]]
     ELSE /\ status' = ToAll(ToSet(queue), "skipped")
          /\ UNCHANGED <<pending, nowPlaying, paused>>
  /\ UNCHANGED bypass

SetBypass(enabled) ==
  /\ bypass' = enabled
  /\ UNCHANGED <<pending, queue, nowPlaying, paused, status>>

-----------------------------------------------------------------------------
Init ==
  /\ pending = << >>
  /\ queue = << >>
  /\ nowPlaying = NoItem
  /\ paused = FALSE
  /\ bypass = FALSE
  /\ status = [i \in Items |-> "new"]
  /\ aired = {}

Operation ==
  \/ \E id \in Items : Submit(id)
  \/ \E id \in Items : Approve(id)
  \/ \E id \in Items : Reject(id)
  \/ \E id \in Items : RemoveQueued(id)
  \/ \E id \in aired \cup {NoItem} : Ended(id)
  \/ Skip
  \/ \E p \in BOOLEAN : SetPaused(p)
  \/ \E all \in BOOLEAN : Clear(all)
  \/ \E enabled \in BOOLEAN : SetBypass(enabled)

\* A player reports only what it was once told to play.
Next ==
  /\ Operation
  /\ aired' = aired \cup ({nowPlaying'} \ {NoItem})

Spec == Init /\ [][Next]_vars

-----------------------------------------------------------------------------
\* Properties.

\* The manager's variables and every Item.Status have their types.
TypeOK ==
  /\ pending \in Seq(Items)
  /\ queue \in Seq(Items)
  /\ nowPlaying \in Items \cup {NoItem}
  /\ paused \in BOOLEAN
  /\ bypass \in BOOLEAN
  /\ status \in [Items -> Lifecycle!Stages]
  /\ aired \subseteq Items

NoDuplicates(s) == \A i, j \in DOMAIN s : s[i] = s[j] => i = j

Placed(p, q, np, st) ==
  /\ NoDuplicates(p)
  /\ NoDuplicates(q)
  /\ \A i \in Items :
       /\ Contains(p, i) <=> st[i] = "pending"
       /\ Contains(q, i) <=> st[i] = "approved"
       /\ np = i <=> st[i] = "playing"

\* The two slices and the pointer stay consistent with the status kept inside
\* the items across every sequence of operations: an item is pending, queued or
\* playing exactly where its status says, and in one place once.
StatusMatchesPlace == Placed(pending, queue, nowPlaying, status)

\* The player is never idle while an approved item waits: whichever operation
\* empties the player or fills the queue starts the next item itself.  (Reject,
\* Remove, Clear and SetBypass never call startIfIdleLocked and rely on this.)
NeverIdleWithWork == nowPlaying = NoItem => queue = << >>

InQueueOrder(q, a, b) == \E i, j \in DOMAIN q : i < j /\ q[i] = a /\ q[j] = b

\* No operation lets a later approval overtake an earlier one: two items that
\* both stay queued keep their order, and the one that starts playing is not
\* behind another that stays queued.
FirstApprovedFirstPlayed ==
  [][\A a, b \in Items :
       InQueueOrder(queue, a, b) /\ Contains(queue', a) =>
         /\ nowPlaying' # b
         /\ Contains(queue', b) => InQueueOrder(queue', a, b)]_vars

\* A report that names an item which is no longer on the player neither
\* advances the programme nor touches an item: a doubled report of two open
\* players finishes one clip, not two (comment at queue.go:203).
StaleReportKeepsProgramme ==
  [][\A id \in Items : Ended(id) /\ id # nowPlaying =>
       UNCHANGED <<pending, queue, nowPlaying, status, bypass>>]_vars

\* The manager implements the lifecycle a streamer is promised: items only move
\* forward, never play without an approval, and are final once done, skipped or
\* rejected.
ImplementsLifecycle == Lifecycle!Spec
=============================================================================
