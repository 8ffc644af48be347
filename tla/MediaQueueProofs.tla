-------------------------- MODULE MediaQueueProofs --------------------------
(***************************************************************************)
(* Proofs about MediaQueue, for any set of items.                          *)
(*                                                                         *)
(* The inductive invariant IInv says that the manager's slices, its        *)
(* now-playing pointer and the status inside each item agree, and that the *)
(* player is not idle while an item waits.                                 *)
(***************************************************************************)
EXTENDS MediaQueue, SequenceTheorems, TLAPS

-----------------------------------------------------------------------------
\* Facts about the slices.

\* removeAt shifts the elements after the removed one by one place.
LEMMA RemoveAtElements ==
  ASSUME NEW S, NEW s \in Seq(S), NEW k \in DOMAIN s
  PROVE  /\ RemoveAt(s, k) \in Seq(S)
         /\ Len(RemoveAt(s, k)) = Len(s) - 1
         /\ \A i \in 1 .. Len(RemoveAt(s, k)) :
              RemoveAt(s, k)[i] = IF i < k THEN s[i] ELSE s[i + 1]
<1> DEFINE r == RemoveAt(s, k)
<1> DEFINE a == SubSeq(s, 1, k - 1)
           b == SubSeq(s, k + 1, Len(s))
<1>1. k \in 1 .. Len(s) /\ Len(s) \in Nat
  BY LenProperties
<1>2. /\ a \in Seq(S) /\ Len(a) = k - 1
      /\ \A i \in 1 .. k - 1 : a[i] = s[i]
  <2>1. 1 \in 1 .. Len(s) + 1 /\ k - 1 \in 0 .. Len(s)
    BY <1>1
  <2>2. QED BY <2>1, <1>1, SubSeqProperties
<1>3. /\ b \in Seq(S) /\ Len(b) = Len(s) - k
      /\ \A i \in 1 .. Len(s) - k : b[i] = s[k + i]
  <2>1. k + 1 \in 1 .. Len(s) + 1 /\ Len(s) \in k .. Len(s)
    BY <1>1
  <2>2. /\ b \in Seq(S)
        /\ Len(b) = IF k + 1 <= Len(s) THEN Len(s) - (k + 1) + 1 ELSE 0
        /\ \A i \in 1 .. Len(s) - (k + 1) + 1 : b[i] = s[k + 1 + i - 1]
    BY <2>1, <1>1, SubSeqProperties
  <2>3. QED BY <2>2, <1>1
<1>4. r = a \o b
  BY DEF RemoveAt
<1> HIDE DEF r, a, b
<1>5. /\ r \in Seq(S) /\ Len(r) = Len(a) + Len(b)
      /\ \A i \in 1 .. Len(a) + Len(b) :
           r[i] = IF i <= Len(a) THEN a[i] ELSE b[i - Len(a)]
  BY <1>2, <1>3, <1>4, ConcatProperties
<1>6. Len(r) = Len(s) - 1
  BY <1>1, <1>2, <1>3, <1>5
<1>7. ASSUME NEW i \in 1 .. Len(r)
      PROVE  r[i] = IF i < k THEN s[i] ELSE s[i + 1]
  <2>1. CASE i < k
    BY <2>1, <1>1, <1>2, <1>3, <1>5, <1>6
  <2>2. CASE i >= k
    <3>1. r[i] = b[i - (k - 1)] /\ i - (k - 1) \in 1 .. Len(s) - k
      BY <2>2, <1>1, <1>2, <1>3, <1>5, <1>6, SMTT(30)
    <3>2. b[i - (k - 1)] = s[k + (i - (k - 1))] /\ k + (i - (k - 1)) = i + 1
      BY <3>1, <1>1, <1>3, SMTT(30)
    <3>3. QED BY <2>2, <3>1, <3>2, <1>1
  <2>3. QED BY <2>1, <2>2, <1>1
<1>8. QED BY <1>5, <1>6, <1>7 DEF r

\* What removeAt does to a slice without duplicates: the element is gone and
\* every other one stays.
LEMMA RemoveAtKeepsRest ==
  ASSUME NEW S, NEW s \in Seq(S), NEW k \in DOMAIN s, NoDuplicates(s)
  PROVE  /\ RemoveAt(s, k) \in Seq(S)
         /\ NoDuplicates(RemoveAt(s, k))
         /\ \A x : Contains(RemoveAt(s, k), x) <=> Contains(s, x) /\ x # s[k]
<1> DEFINE r == RemoveAt(s, k)
<1>1. /\ r \in Seq(S)
      /\ Len(r) = Len(s) - 1
      /\ \A i \in 1 .. Len(r) : r[i] = IF i < k THEN s[i] ELSE s[i + 1]
  BY RemoveAtElements
<1> HIDE DEF r
<1>2. NoDuplicates(r)
  BY <1>1, LenProperties, SMTT(30) DEF NoDuplicates
<1>3. ASSUME NEW x PROVE Contains(r, x) <=> Contains(s, x) /\ x # s[k]
  <2>1. ASSUME Contains(r, x) PROVE Contains(s, x) /\ x # s[k]
    <3>1. PICK i \in 1 .. Len(r) : r[i] = x
      BY <2>1 DEF Contains
    <3>2. PICK j \in 1 .. Len(s) : s[j] = x /\ j # k
      BY <3>1, <1>1, LenProperties
    <3>3. QED BY <3>2, LenProperties DEF Contains, NoDuplicates
  <2>2. ASSUME Contains(s, x), x # s[k] PROVE Contains(r, x)
    <3>1. PICK i \in 1 .. Len(s) : s[i] = x
      BY <2>2 DEF Contains
    <3>2. CASE i < k
      BY <3>1, <3>2, <1>1, LenProperties DEF Contains
    <3>3. CASE i > k
      <4>1. i - 1 \in 1 .. Len(r) /\ r[i - 1] = x
        BY <3>1, <3>3, <1>1, LenProperties
      <4>2. QED BY <4>1 DEF Contains
    <3>4. QED BY <3>1, <3>2, <3>3, <2>2, LenProperties
  <2>3. QED BY <2>1, <2>2
<1>4. QED BY <1>1, <1>2, <1>3 DEF r

\* Appending an element that is not there keeps a slice free of duplicates.
LEMMA AppendKeepsRest ==
  ASSUME NEW S, NEW s \in Seq(S), NEW e \in S
  PROVE  /\ Append(s, e) \in Seq(S)
         /\ Append(s, e) # << >>
         /\ NoDuplicates(s) /\ ~Contains(s, e) => NoDuplicates(Append(s, e))
         /\ \A x : Contains(Append(s, e), x) <=> Contains(s, x) \/ x = e
BY AppendProperties, LenProperties DEF NoDuplicates, Contains

\* Taking the head of a slice without duplicates removes that element only.
LEMMA TailKeepsRest ==
  ASSUME NEW S, NEW s \in Seq(S), s # << >>, NoDuplicates(s)
  PROVE  /\ Tail(s) \in Seq(S)
         /\ Head(s) \in S
         /\ Contains(s, Head(s))
         /\ NoDuplicates(Tail(s))
         /\ \A x : Contains(Tail(s), x) <=> Contains(s, x) /\ x # Head(s)
<1>1. /\ Tail(s) \in Seq(S)
      /\ Head(s) = s[1] /\ s[1] \in S /\ Len(s) > 0
      /\ Len(Tail(s)) = Len(s) - 1
      /\ \A i \in 1 .. Len(Tail(s)) : Tail(s)[i] = s[i + 1]
  BY HeadTailProperties, LenProperties, EmptySeq
<1>2. Contains(s, Head(s)) /\ NoDuplicates(Tail(s))
  BY <1>1, LenProperties DEF Contains, NoDuplicates
<1>3. ASSUME NEW x PROVE Contains(Tail(s), x) <=> Contains(s, x) /\ x # Head(s)
  <2>1. ASSUME Contains(Tail(s), x) PROVE Contains(s, x) /\ x # Head(s)
    BY <2>1, <1>1, LenProperties DEF Contains, NoDuplicates
  <2>2. ASSUME Contains(s, x), x # Head(s) PROVE Contains(Tail(s), x)
    <3>1. PICK i \in 1 .. Len(s) : s[i] = x
      BY <2>2 DEF Contains
    <3>2. i - 1 \in 1 .. Len(Tail(s)) /\ Tail(s)[i - 1] = x
      BY <3>1, <2>2, <1>1, LenProperties
    <3>3. QED BY <3>2 DEF Contains
  <2>3. QED BY <2>1, <2>2
<1>4. QED BY <1>1, <1>2, <1>3

\* The empty slice holds nothing.
LEMMA EmptySlice ==
  /\ << >> \in Seq(Items)
  /\ NoDuplicates(<< >>)
  /\ \A x : ~Contains(<< >>, x)
BY EmptySeq DEF NoDuplicates, Contains

-----------------------------------------------------------------------------
\* The invariant.

Typed(p, q, np, st) ==
  /\ p \in Seq(Items)
  /\ q \in Seq(Items)
  /\ np \in Items \cup {NoItem}
  /\ st \in [Items -> Lifecycle!Stages]

IInv == TypeOK /\ StatusMatchesPlace /\ NeverIdleWithWork

\* startIfIdleLocked repairs what an operation left: from consistent slices it
\* reaches consistent slices in which the player is not idle while items wait.
LEMMA StartIfIdlePlaces ==
  ASSUME NEW p, NEW q, NEW np, NEW st,
         Typed(p, q, np, st), Placed(p, q, np, st),
         StartIfIdle(q, np, st)
  PROVE  /\ Typed(p, queue', nowPlaying', status')
         /\ Placed(p, queue', nowPlaying', status')
         /\ nowPlaying' = NoItem => queue' = << >>
         /\ \A i \in Items :
              status'[i] = st[i] \/ (st[i] = "approved" /\ status'[i] = "playing")
<1>1. CASE np # NoItem \/ q = << >>
  <2>1. queue' = q /\ nowPlaying' = np /\ status' = st
    BY <1>1 DEF StartIfIdle
  <2>2. QED BY <1>1, <2>1
<1>2. CASE np = NoItem /\ q # << >>
  <2>1. /\ queue' = Tail(q)
        /\ nowPlaying' = Head(q)
        /\ status' = [st EXCEPT ![Head(q)] = "playing"]
    BY <1>2 DEF StartIfIdle
  <2>2. /\ Tail(q) \in Seq(Items) /\ Head(q) \in Items /\ Contains(q, Head(q))
        /\ NoDuplicates(Tail(q))
        /\ \A x : Contains(Tail(q), x) <=> Contains(q, x) /\ x # Head(q)
    BY <1>2, TailKeepsRest DEF Typed, Placed
  <2>3. Typed(p, queue', nowPlaying', status')
    BY <2>1, <2>2 DEF Typed, Lifecycle!Stages
  <2>4. Placed(p, queue', nowPlaying', status')
    BY <2>1, <2>2, <1>2, NoItemAssumption DEF Typed, Placed
  <2>5. st[Head(q)] = "approved"
    BY <2>2 DEF Placed
  <2>6. ASSUME NEW i \in Items
        PROVE  status'[i] = st[i] \/ (st[i] = "approved" /\ status'[i] = "playing")
    BY <2>1, <2>5 DEF Typed
  <2>7. nowPlaying' # NoItem
    BY <2>1, <2>2, NoItemAssumption
  <2>8. QED BY <2>3, <2>4, <2>6, <2>7
<1>3. QED BY <1>1, <1>2

\* No item moves backwards or skips its approval.
Forward(before, after) ==
  \A i \in Items :
    after[i] = before[i] \/ after[i] \in Lifecycle!After(before[i])

\* Steps that only move items forward compose with the start of the next item:
\* whatever may become approved may become playing at once.
LEMMA ForwardThenStart ==
  ASSUME NEW st, Forward(status, st),
         \A i \in Items :
           status'[i] = st[i] \/ (st[i] = "approved" /\ status'[i] = "playing")
  PROVE  Forward(status, status')
BY DEF Forward, Lifecycle!After

\* What an operation must establish for IInv and the lifecycle to survive it.
Kept ==
  /\ Typed(pending', queue', nowPlaying', status')
  /\ Placed(pending', queue', nowPlaying', status')
  /\ nowPlaying' = NoItem => queue' = << >>
  /\ paused' \in BOOLEAN /\ bypass' \in BOOLEAN
  /\ Forward(status, status')

\* Submit: a new item is in neither slice, so it can be appended to either.
LEMMA SubmitKeeps ==
  ASSUME IInv, NEW id \in Items, Submit(id) PROVE Kept
<1> USE DEF IInv, TypeOK, StatusMatchesPlace, Lifecycle!Stages
<1>1. ~Contains(pending, id) /\ ~Contains(queue, id) /\ nowPlaying # id
  BY DEF Submit, Placed
<1>2. CASE bypass
  <2> DEFINE q == Append(queue, id)
             st == [status EXCEPT ![id] = "approved"]
  <2>1. StartIfIdle(q, nowPlaying, st) /\ pending' = pending
    BY <1>2 DEF Submit
  <2>2. Typed(pending, q, nowPlaying, st) /\ Placed(pending, q, nowPlaying, st)
    BY <1>1, AppendKeepsRest DEF Typed, Placed, Submit
  <2>3. Forward(status, st)
    BY DEF Forward, Lifecycle!After, Submit
  <2>4. paused' \in BOOLEAN /\ bypass' \in BOOLEAN
    BY DEF Submit
  <2> HIDE DEF q, st
  <2>5. QED
    BY <2>1, <2>2, <2>3, <2>4, StartIfIdlePlaces, ForwardThenStart DEF Kept
<1>3. CASE ~bypass
  <2> DEFINE p == Append(pending, id)
             st == [status EXCEPT ![id] = "pending"]
  <2>1. StartIfIdle(queue, nowPlaying, st) /\ pending' = p
    BY <1>3 DEF Submit
  <2>2. Typed(p, queue, nowPlaying, st) /\ Placed(p, queue, nowPlaying, st)
    BY <1>1, AppendKeepsRest DEF Typed, Placed, Submit
  <2>3. Forward(status, st)
    BY DEF Forward, Lifecycle!After, Submit
  <2>4. paused' \in BOOLEAN /\ bypass' \in BOOLEAN
    BY DEF Submit
  <2> HIDE DEF p, st
  <2>5. QED
    BY <2>1, <2>2, <2>3, <2>4, StartIfIdlePlaces, ForwardThenStart DEF Kept
<1>4. QED BY <1>2, <1>3

\* Approve: the item leaves one slice and joins the other.
LEMMA ApproveKeeps ==
  ASSUME IInv, NEW id \in Items, Approve(id) PROVE Kept
<1> USE DEF IInv, TypeOK, StatusMatchesPlace, Lifecycle!Stages
<1>1. PICK k \in DOMAIN pending :
        /\ pending[k] = id
        /\ pending' = RemoveAt(pending, k)
        /\ StartIfIdle(Append(queue, id), nowPlaying, [status EXCEPT ![id] = "approved"])
        /\ UNCHANGED <<paused, bypass>>
  BY DEF Approve
<1> DEFINE q == Append(queue, id)
           st == [status EXCEPT ![id] = "approved"]
<1>2. Contains(pending, id)
  BY <1>1, LenProperties DEF Contains
<1>3. ~Contains(queue, id) /\ nowPlaying # id
  BY <1>2 DEF Placed
<1>4. /\ pending' \in Seq(Items) /\ NoDuplicates(pending')
      /\ \A x : Contains(pending', x) <=> Contains(pending, x) /\ x # id
  BY <1>1, RemoveAtKeepsRest DEF Placed
<1>5. Typed(pending', q, nowPlaying, st) /\ Placed(pending', q, nowPlaying, st)
  BY <1>3, <1>4, AppendKeepsRest DEF Typed, Placed
<1>6. StartIfIdle(q, nowPlaying, st) /\ UNCHANGED <<paused, bypass>>
  BY <1>1
<1>7. Forward(status, st)
  BY <1>2 DEF Forward, Lifecycle!After, Placed
<1> HIDE DEF q, st
<1>8. QED BY <1>5, <1>6, <1>7, StartIfIdlePlaces, ForwardThenStart DEF Kept

\* Reject: the item leaves pending.
LEMMA RejectKeeps ==
  ASSUME IInv, NEW id \in Items, Reject(id) PROVE Kept
<1> USE DEF IInv, TypeOK, StatusMatchesPlace, Lifecycle!Stages
<1>1. PICK k \in DOMAIN pending :
        /\ pending[k] = id
        /\ pending' = RemoveAt(pending, k)
        /\ status' = [status EXCEPT ![id] = "rejected"]
        /\ UNCHANGED <<queue, nowPlaying, paused, bypass>>
  BY DEF Reject
<1>2. /\ pending' \in Seq(Items) /\ NoDuplicates(pending')
      /\ \A x : Contains(pending', x) <=> Contains(pending, x) /\ x # id
  BY <1>1, RemoveAtKeepsRest DEF Placed
<1>3. status[id] = "pending"
  BY <1>1, LenProperties DEF Contains, Placed
<1>4. Forward(status, status')
  BY <1>1, <1>3 DEF Forward, Lifecycle!After
<1>5. QED BY <1>1, <1>2, <1>3, <1>4 DEF Kept, Typed, Placed, NeverIdleWithWork

\* Remove: the item leaves the queue; an idle player had an empty queue, so
\* there was nothing to remove.
LEMMA RemoveQueuedKeeps ==
  ASSUME IInv, NEW id \in Items, RemoveQueued(id) PROVE Kept
<1> USE DEF IInv, TypeOK, StatusMatchesPlace, Lifecycle!Stages
<1>1. PICK k \in DOMAIN queue :
        /\ queue[k] = id
        /\ queue' = RemoveAt(queue, k)
        /\ status' = [status EXCEPT ![id] = "skipped"]
        /\ UNCHANGED <<pending, nowPlaying, paused, bypass>>
  BY DEF RemoveQueued
<1>2. /\ queue' \in Seq(Items) /\ NoDuplicates(queue')
      /\ \A x : Contains(queue', x) <=> Contains(queue, x) /\ x # id
  BY <1>1, RemoveAtKeepsRest DEF Placed
<1>3. status[id] = "approved" /\ queue # << >>
  BY <1>1, LenProperties, EmptySeq DEF Contains, Placed
<1>4. Forward(status, status')
  BY <1>1, <1>3 DEF Forward, Lifecycle!After
<1>5. QED BY <1>1, <1>2, <1>3, <1>4 DEF Kept, Typed, Placed, NeverIdleWithWork

\* Taking the current item off the player, with whatever final status, leaves
\* consistent slices.
LEMMA FinishPlaces ==
  ASSUME IInv, nowPlaying # NoItem, NEW final \in {"done", "skipped"}
  PROVE  /\ Typed(pending, queue, NoItem, [status EXCEPT ![nowPlaying] = final])
         /\ Placed(pending, queue, NoItem, [status EXCEPT ![nowPlaying] = final])
         /\ Forward(status, [status EXCEPT ![nowPlaying] = final])
BY NoItemAssumption
DEF IInv, TypeOK, StatusMatchesPlace, Lifecycle!Stages, Typed, Placed, Forward,
    Lifecycle!After

\* Ended and Skip: the current item is finished, or the slices are as before.
LEMMA EndedKeeps ==
  ASSUME IInv, NEW id \in Items \cup {NoItem}, Ended(id) PROVE Kept
<1>1. bypass' \in BOOLEAN /\ paused' \in BOOLEAN /\ pending' = pending
  BY DEF Ended, IInv, TypeOK
<1>2. CASE nowPlaying # NoItem /\ id \in {NoItem, nowPlaying}
  <2> DEFINE st == [status EXCEPT ![nowPlaying] = "done"]
  <2>1. StartIfIdle(queue, NoItem, st)
    BY <1>2 DEF Ended
  <2>2. /\ Typed(pending, queue, NoItem, st) /\ Placed(pending, queue, NoItem, st)
        /\ Forward(status, st)
    BY <1>2, FinishPlaces
  <2> HIDE DEF st
  <2>3. QED
    BY <1>1, <2>1, <2>2, StartIfIdlePlaces, ForwardThenStart DEF Kept
<1>3. CASE ~(nowPlaying # NoItem /\ id \in {NoItem, nowPlaying})
  <2>1. StartIfIdle(queue, nowPlaying, status)
    BY <1>3 DEF Ended
  <2>2. /\ Typed(pending, queue, nowPlaying, status)
        /\ Placed(pending, queue, nowPlaying, status)
        /\ Forward(status, status)
    BY DEF IInv, TypeOK, StatusMatchesPlace, Typed, Forward
  <2>3. QED
    BY <1>1, <2>1, <2>2, StartIfIdlePlaces, ForwardThenStart DEF Kept
<1>4. QED BY <1>2, <1>3

LEMMA SkipKeeps ==
  ASSUME IInv, Skip PROVE Kept
<1>1. bypass' \in BOOLEAN /\ paused' \in BOOLEAN /\ pending' = pending
  BY DEF Skip, IInv, TypeOK
<1>2. CASE nowPlaying # NoItem
  <2> DEFINE st == [status EXCEPT ![nowPlaying] = "skipped"]
  <2>1. StartIfIdle(queue, NoItem, st)
    BY <1>2 DEF Skip
  <2>2. /\ Typed(pending, queue, NoItem, st) /\ Placed(pending, queue, NoItem, st)
        /\ Forward(status, st)
    BY <1>2, FinishPlaces
  <2> HIDE DEF st
  <2>3. QED
    BY <1>1, <2>1, <2>2, StartIfIdlePlaces, ForwardThenStart DEF Kept
<1>3. CASE nowPlaying = NoItem
  <2>1. StartIfIdle(queue, nowPlaying, status)
    BY <1>3 DEF Skip
  <2>2. /\ Typed(pending, queue, nowPlaying, status)
        /\ Placed(pending, queue, nowPlaying, status)
        /\ Forward(status, status)
    BY DEF IInv, TypeOK, StatusMatchesPlace, Typed, Forward
  <2>3. QED
    BY <1>1, <2>1, <2>2, StartIfIdlePlaces, ForwardThenStart DEF Kept
<1>4. QED BY <1>2, <1>3

\* Clear: every status that names a cleared place is moved on.
LEMMA ClearKeeps ==
  ASSUME IInv, NEW all \in BOOLEAN, Clear(all) PROVE Kept
<1> USE DEF IInv, TypeOK, StatusMatchesPlace, Lifecycle!Stages
<1>1. \A s \in Seq(Items) : \A x : x \in ToSet(s) <=> Contains(s, x)
  BY LenProperties DEF ToSet, Contains
<1>2. Forward(status, status')
  BY <1>1, NoItemAssumption DEF Clear, ToAll, Forward, Lifecycle!After, Placed
<1>3. CASE all
  BY <1>1, <1>2, EmptySlice, <1>3, NoItemAssumption DEF Clear, Kept, Typed, Placed
<1>4. CASE ~all
  BY <1>1, <1>2, EmptySlice, <1>4, NoItemAssumption
  DEF Clear, ToAll, Kept, Typed, Placed
<1>5. QED BY <1>3, <1>4

\* Pausing and the bypass switch leave the items alone.
LEMMA SwitchesKeep ==
  ASSUME IInv, NEW b \in BOOLEAN, SetPaused(b) \/ SetBypass(b) PROVE Kept
BY DEF IInv, TypeOK, StatusMatchesPlace, NeverIdleWithWork, SetPaused, SetBypass,
       Kept, Typed, Forward

LEMMA InitIInv == Init => IInv
<1> SUFFICES ASSUME Init PROVE IInv
  OBVIOUS
<1>1. TypeOK
  BY EmptySlice DEF Init, TypeOK, Lifecycle!Stages
<1>2. StatusMatchesPlace
  BY EmptySlice, NoItemAssumption DEF Init, StatusMatchesPlace, Placed
<1>3. NeverIdleWithWork
  BY DEF Init, NeverIdleWithWork
<1>4. QED BY <1>1, <1>2, <1>3 DEF IInv

LEMMA OperationKeeps ==
  ASSUME IInv, Operation PROVE Kept
<1>1. aired \cup {NoItem} \subseteq Items \cup {NoItem}
  BY DEF IInv, TypeOK
<1>2. QED
  BY <1>1, SubmitKeeps, ApproveKeeps, RejectKeeps, RemoveQueuedKeeps, EndedKeeps,
     SkipKeeps, ClearKeeps, SwitchesKeep
  DEF Operation

LEMMA NextIInv == IInv /\ [Next]_vars => IInv'
<1> SUFFICES ASSUME IInv, [Next]_vars PROVE IInv'
  OBVIOUS
<1>1. CASE Next
  <2>1. Kept /\ aired' = aired \cup ({nowPlaying'} \ {NoItem})
    BY <1>1, OperationKeeps DEF Next
  <2>2. QED
    BY <2>1 DEF Kept, Typed, IInv, TypeOK, StatusMatchesPlace, NeverIdleWithWork
<1>2. CASE UNCHANGED vars
  BY <1>2 DEF vars, manager, IInv, TypeOK, StatusMatchesPlace, NeverIdleWithWork,
              Placed, NoDuplicates, Contains
<1>3. QED BY <1>1, <1>2

\* The inductive invariant holds of every behaviour of the manager.
THEOREM Invariance == Spec => []IInv
<1>1. Init => IInv
  BY InitIInv
<1>2. IInv /\ [Next]_vars => IInv'
  BY NextIInv
<1>3. QED BY <1>1, <1>2, PTL DEF Spec

\* The manager's variables keep their types.
THEOREM TypeCorrect == Spec => []TypeOK
BY Invariance, PTL DEF IInv

\* Slices, now-playing pointer and item statuses agree after every operation.
THEOREM StatusCorrect == Spec => []StatusMatchesPlace
BY Invariance, PTL DEF IInv

\* The player is never idle while an approved item waits.
THEOREM NeverIdle == Spec => []NeverIdleWithWork
BY Invariance, PTL DEF IInv

-----------------------------------------------------------------------------
\* Order.

\* Removing one element leaves the order of the others.
LEMMA RemoveAtKeepsOrder ==
  ASSUME NEW S, NEW s \in Seq(S), NEW k \in DOMAIN s, NEW a, NEW b,
         InQueueOrder(s, a, b), a # s[k], b # s[k]
  PROVE  InQueueOrder(RemoveAt(s, k), a, b)
<1> DEFINE r == RemoveAt(s, k)
           at(i) == IF i < k THEN i ELSE i - 1
<1>1. PICK i, j \in 1 .. Len(s) : i < j /\ s[i] = a /\ s[j] = b
  BY LenProperties DEF InQueueOrder
<1>2. /\ r \in Seq(S)
      /\ Len(r) = Len(s) - 1
      /\ \A n \in 1 .. Len(r) : r[n] = IF n < k THEN s[n] ELSE s[n + 1]
  BY RemoveAtElements
<1> HIDE DEF r
<1>3. i # k /\ j # k /\ k \in 1 .. Len(s) /\ Len(s) \in Nat
  BY <1>1, LenProperties
<1>4. ASSUME NEW n \in 1 .. Len(s), n # k
      PROVE  at(n) \in 1 .. Len(r) /\ r[at(n)] = s[n]
  <2>1. CASE n < k
    BY <2>1, <1>2, <1>3
  <2>2. CASE n > k
    <3>1. n - 1 \in 1 .. Len(r) /\ r[n - 1] = s[(n - 1) + 1] /\ (n - 1) + 1 = n
      BY <2>2, <1>2, <1>3
    <3>2. QED BY <3>1, <2>2, <1>3
  <2>3. QED BY <2>1, <2>2, <1>4, <1>3
<1>5. at(i) < at(j)
  BY <1>1, <1>3
<1>6. DOMAIN r = 1 .. Len(r)
  BY <1>2, LenProperties
<1> HIDE DEF at
<1>7. InQueueOrder(r, a, b)
  BY <1>1, <1>3, <1>4, <1>5, <1>6 DEF InQueueOrder
<1>8. QED BY <1>7 DEF r

\* Appending leaves the order of what was there.
LEMMA AppendKeepsOrder ==
  ASSUME NEW S, NEW s \in Seq(S), NEW e \in S, NEW a, NEW b, InQueueOrder(s, a, b)
  PROVE  InQueueOrder(Append(s, e), a, b)
BY AppendProperties, LenProperties DEF InQueueOrder

\* Taking the head leaves the order of the rest, and the head has nothing
\* before it.
LEMMA TailKeepsOrder ==
  ASSUME NEW S, NEW s \in Seq(S), NoDuplicates(s), NEW a, NEW b,
         InQueueOrder(s, a, b)
  PROVE  /\ s # << >>
         /\ b # Head(s)
         /\ a # Head(s) => InQueueOrder(Tail(s), a, b)
<1>1. PICK i, j \in 1 .. Len(s) : i < j /\ s[i] = a /\ s[j] = b
  BY LenProperties DEF InQueueOrder
<1>2. s # << >> /\ Len(s) \in Nat /\ DOMAIN s = 1 .. Len(s)
  BY <1>1, EmptySeq, LenProperties
<1>3. /\ Head(s) = s[1]
      /\ Tail(s) \in Seq(S) /\ Len(Tail(s)) = Len(s) - 1
      /\ \A n \in 1 .. Len(Tail(s)) : Tail(s)[n] = s[n + 1]
  BY <1>2, HeadTailProperties
<1>4. b # Head(s)
  BY <1>1, <1>2, <1>3 DEF NoDuplicates
<1>5. ASSUME a # Head(s) PROVE InQueueOrder(Tail(s), a, b)
  <2>1. /\ i - 1 \in 1 .. Len(Tail(s)) /\ j - 1 \in 1 .. Len(Tail(s))
        /\ i - 1 < j - 1
        /\ Tail(s)[i - 1] = a /\ Tail(s)[j - 1] = b
    BY <1>1, <1>2, <1>3, <1>5
  <2>2. QED BY <2>1, <1>3, LenProperties DEF InQueueOrder
<1>6. QED BY <1>2, <1>4, <1>5

\* One operation keeps the order of any two queued items: a queued item means
\* that something plays, so nothing starts unless the current item finished, and
\* then it is the head that starts.
LEMMA OperationKeepsOrder ==
  ASSUME IInv, Operation, NEW a \in Items, NEW b \in Items,
         InQueueOrder(queue, a, b), Contains(queue', a)
  PROVE  /\ nowPlaying' # b
         /\ Contains(queue', b) => InQueueOrder(queue', a, b)
<1> USE DEF IInv, TypeOK
<1>1. /\ queue # << >> /\ b # Head(queue)
      /\ a # Head(queue) => InQueueOrder(Tail(queue), a, b)
  BY TailKeepsOrder DEF StatusMatchesPlace, Placed
<1>2. nowPlaying # NoItem /\ nowPlaying # b
  <2>1. Contains(queue, b)
    BY LenProperties DEF InQueueOrder, Contains
  <2>2. QED BY <1>1, <2>1 DEF StatusMatchesPlace, Placed, NeverIdleWithWork
<1>3. ASSUME NEW st, StartIfIdle(queue, NoItem, st)
      PROVE  /\ nowPlaying' # b
             /\ Contains(queue', b) => InQueueOrder(queue', a, b)
  <2>1. queue' = Tail(queue) /\ nowPlaying' = Head(queue)
    BY <1>1, <1>3 DEF StartIfIdle
  <2>2. a # Head(queue)
    BY <1>1, <2>1, TailKeepsRest DEF StatusMatchesPlace, Placed
  <2>3. QED BY <1>1, <2>1, <2>2
<1>4. ASSUME NEW q, NEW st, StartIfIdle(q, nowPlaying, st),
             InQueueOrder(q, a, b)
      PROVE  /\ nowPlaying' # b
             /\ Contains(queue', b) => InQueueOrder(queue', a, b)
  <2>1. queue' = q /\ nowPlaying' = nowPlaying
    BY <1>2, <1>4 DEF StartIfIdle
  <2>2. QED BY <1>2, <1>4, <2>1
<1>5. CASE \E id \in Items : Submit(id) \/ Approve(id)
  <2>1. PICK id \in Items : Submit(id) \/ Approve(id)
    BY <1>5
  <2>2. \E q, st : StartIfIdle(q, nowPlaying, st) /\ q \in {queue, Append(queue, id)}
    BY <2>1 DEF Submit, Approve
  <2>3. InQueueOrder(Append(queue, id), a, b)
    BY AppendKeepsOrder
  <2>4. QED BY <1>4, <2>2, <2>3
<1>6. CASE \E id \in Items : Reject(id)
  BY <1>2, <1>6 DEF Reject
<1>7. CASE \E id \in Items : RemoveQueued(id)
  <2>1. PICK k \in DOMAIN queue : queue' = RemoveAt(queue, k) /\ nowPlaying' = nowPlaying
    BY <1>7 DEF RemoveQueued
  <2>2. \A x : Contains(queue', x) => x # queue[k]
    BY <2>1, RemoveAtKeepsRest DEF StatusMatchesPlace, Placed
  <2>3. QED BY <1>2, <2>1, <2>2, RemoveAtKeepsOrder
<1>8. CASE (\E id \in aired \cup {NoItem} : Ended(id)) \/ Skip
  <2>1. \/ \E st : StartIfIdle(queue, NoItem, st)
        \/ StartIfIdle(queue, nowPlaying, status)
    BY <1>8 DEF Ended, Skip
  <2>2. QED BY <1>3, <1>4, <2>1
<1>9. CASE \E x \in BOOLEAN : SetPaused(x) \/ SetBypass(x)
  BY <1>2, <1>9 DEF SetPaused, SetBypass
<1>10. CASE \E all \in BOOLEAN : Clear(all)
  <2>1. queue' = << >>
    BY <1>10 DEF Clear
  <2>2. QED BY <2>1, EmptySlice
<1>11. QED
  BY <1>5, <1>6, <1>7, <1>8, <1>9, <1>10 DEF Operation

\* No approval overtakes an earlier one, whatever the moderators do in between.
THEOREM FirstApproved == Spec => FirstApprovedFirstPlayed
<1>1. ASSUME IInv, [Next]_vars
      PROVE  [\A a, b \in Items :
                InQueueOrder(queue, a, b) /\ Contains(queue', a) =>
                  /\ nowPlaying' # b
                  /\ Contains(queue', b) => InQueueOrder(queue', a, b)]_vars
  BY <1>1, OperationKeepsOrder DEF Next
<1>2. QED
  BY <1>1, Invariance, PTL DEF Spec, FirstApprovedFirstPlayed

-----------------------------------------------------------------------------
\* Stale reports and the lifecycle.

\* A report that does not name the current item changes no item: the idle test
\* it ends with finds a busy player or an empty queue.
THEOREM StaleReports == Spec => StaleReportKeepsProgramme
<1>1. ASSUME IInv, [Next]_vars
      PROVE  [\A id \in Items : Ended(id) /\ id # nowPlaying =>
                UNCHANGED <<pending, queue, nowPlaying, status, bypass>>]_vars
  <2>1. ASSUME NEW id \in Items, Ended(id), id # nowPlaying
        PROVE  UNCHANGED <<pending, queue, nowPlaying, status, bypass>>
    <3>1. StartIfIdle(queue, nowPlaying, status) /\ UNCHANGED <<pending, bypass>>
      BY <2>1, NoItemAssumption DEF Ended
    <3>2. nowPlaying # NoItem \/ queue = << >>
      BY <1>1 DEF IInv, NeverIdleWithWork
    <3>3. QED BY <3>1, <3>2 DEF StartIfIdle
  <2>2. QED BY <2>1
<1>2. QED
  BY <1>1, Invariance, PTL DEF Spec, StaleReportKeepsProgramme

\* Consistent slices and a player that is not idle while items wait are what the
\* lifecycle asks of every state.
LEMMA PlacedOrderly ==
  ASSUME NEW p, NEW q, NEW np, NEW st,
         Typed(p, q, np, st), Placed(p, q, np, st), np = NoItem => q = << >>
  PROVE  Lifecycle!Orderly(st)
<1>1. \A i \in Items : st[i] = "playing" => np = i
  BY DEF Placed
<1>2. \A i \in Items : st[i] = "approved" => q # << >> /\ np # NoItem
  BY EmptySlice DEF Placed
<1>3. np # NoItem => np \in Items /\ st[np] = "playing"
  BY DEF Typed, Placed
<1>4. QED
  BY <1>1, <1>2, <1>3 DEF Lifecycle!Orderly, Lifecycle!OnAir, Lifecycle!Waiting

\* The manager implements the lifecycle promised to the streamer.
THEOREM Refinement == Spec => ImplementsLifecycle
<1>1. Init => Lifecycle!Init
  BY DEF Init, Lifecycle!Init
<1>2. ASSUME IInv, [Next]_vars
      PROVE  [Lifecycle!Advance]_status
  <2>1. CASE Next
    <3>1. Kept
      BY <1>2, <2>1, OperationKeeps DEF Next
    <3>2. Lifecycle!Orderly(status')
      BY <3>1, PlacedOrderly DEF Kept
    <3>3. QED BY <3>1, <3>2 DEF Kept, Typed, Forward, Lifecycle!Advance
  <2>2. CASE UNCHANGED vars
    BY <2>2 DEF vars, manager
  <2>3. QED BY <1>2, <2>1, <2>2
<1>3. QED
  BY <1>1, <1>2, Invariance, PTL DEF Spec, ImplementsLifecycle, Lifecycle!Spec
=============================================================================
