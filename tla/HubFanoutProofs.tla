--------------------------- MODULE HubFanoutProofs ---------------------------
(***************************************************************************)
(* Proofs about HubFanout, for any number of rooms, connections and        *)
(* publishers and any channel capacity.                                    *)
(***************************************************************************)
EXTENDS HubFanout, TLAPS, SequenceTheorems, WellFoundedInduction

PubType == [pc : {"idle", "changed", "ready"}, room : Rooms \cup {NoRoom},
            kind : Kinds, version : Nat]

ConnType == [pc : {"off", "registered", "collecting", "greeting", "served", "panicked"},
             room : Rooms \cup {NoRoom}, role : Roles, todo : Seq(Broadcasts)]

\* Work under way belongs to a room.
Aimed ==
  /\ \A p \in Publishers : pub[p].pc # "idle" => pub[p].room \in Rooms
  /\ \A c \in Clients : conn[c].pc # "off" => conn[c].room \in Rooms

\* A connection that has not been made is unknown to the hub and has no pumps.
Untouched ==
  \A c \in Clients : conn[c].pc = "off" =>
    c \notin clients /\ closes[c] = 0 /\ reader[c] = "off" /\ writer[c] = "off"

IInv == TypeOK /\ Aimed /\ Untouched /\ OpenWhileRegistered

-----------------------------------------------------------------------------
LEMMA InitIInv == Init => IInv
<1> SUFFICES ASSUME Init PROVE IInv
  OBVIOUS
<1> USE DEF Init
<1>1. pub \in [Publishers -> PubType] /\ conn \in [Clients -> ConnType]
  BY DEF PubType, ConnType, NothingToPublish, Unconnected, Kinds, Roles
<1>2. /\ chan \in [Clients -> Seq(Broadcasts)] /\ \A c \in Clients : Len(chan[c]) <= Cap
      /\ got \in [Clients -> Seq(Broadcasts)] /\ sent \in [Rooms -> Seq(Broadcasts)]
  BY HubAssumption
<1>3. TypeOK
  BY <1>1, <1>2, HubAssumption DEF TypeOK, PubType, ConnType
<1>4. Aimed /\ Untouched /\ OpenWhileRegistered
  BY DEF Aimed, Untouched, OpenWhileRegistered, Unconnected, NothingToPublish
<1> QED
  BY <1>3, <1>4 DEF IInv

-----------------------------------------------------------------------------
\* Managers.

\* A managers' step touches no connection.
LEMMA ManagerStep ==
  ASSUME IInv, UNCHANGED <<clients, conn, chan, closes, socketVars, sent, joined>>,
         version' \in [Rooms -> [Kinds -> Nat]], changes' \in 0 .. MaxChanges,
         crossed' \subseteq Rooms \X Kinds, pub' \in [Publishers -> PubType],
         \A p \in Publishers : pub'[p].pc # "idle" => pub'[p].room \in Rooms
  PROVE  IInv'
<1> USE DEF IInv, socketVars
<1>1. TypeOK'
  BY DEF TypeOK, PubType
<1>2. Aimed' /\ Untouched' /\ OpenWhileRegistered'
  BY DEF Aimed, Untouched, OpenWhileRegistered
<1> QED
  BY <1>1, <1>2

LEMMA ChangeStep ==
  ASSUME IInv, NEW p \in Publishers, NEW room \in Rooms, NEW kind \in Kinds, Change(p, room, kind)
  PROVE  IInv'
<1>1. version[room] \in [Kinds -> Nat] /\ version[room][kind] + 1 \in Nat
  BY DEF IInv, TypeOK
<1>2. version' \in [Rooms -> [Kinds -> Nat]]
  <2>1. [version[room] EXCEPT ![kind] = @ + 1] \in [Kinds -> Nat]
    BY <1>1
  <2> QED
    BY <1>1, <2>1 DEF Change, IInv, TypeOK
<1>3. changes' \in 0 .. MaxChanges
  BY HubAssumption DEF Change, IInv, TypeOK
<1>4. pub' \in [Publishers -> PubType]
  BY <1>1 DEF Change, IInv, TypeOK, PubType
<1>5. \A q \in Publishers : pub'[q].pc # "idle" => pub'[q].room \in Rooms
  BY DEF Change, IInv, TypeOK, Aimed
<1>6. crossed' \subseteq Rooms \X Kinds
  BY DEF Change, IInv, TypeOK
<1> QED
  BY <1>2, <1>3, <1>4, <1>5, <1>6, ManagerStep DEF Change

LEMMA ReadStatusStep ==
  ASSUME IInv, NEW p \in Publishers, ReadStatus(p)
  PROVE  IInv'
<1>1. pub \in [Publishers -> PubType] /\ pub[p].pc = "changed" /\ pub[p].room \in Rooms
  BY DEF ReadStatus, IInv, TypeOK, PubType, Aimed
<1>2. pub[p].kind \in Kinds /\ version \in [Rooms -> [Kinds -> Nat]]
  BY <1>1 DEF IInv, TypeOK, PubType
<1>3. version[pub[p].room][pub[p].kind] \in Nat
  BY <1>1, <1>2
<1> DEFINE r == [pub[p] EXCEPT !.pc = "ready", !.version = version[pub[p].room][pub[p].kind]]
<1>4. r \in PubType /\ r.room = pub[p].room
  BY <1>1, <1>3 DEF PubType
<1>5. pub' = [pub EXCEPT ![p] = r]
  BY <1>1 DEF ReadStatus, PubType
<1> HIDE DEF r
<1>6. pub' \in [Publishers -> PubType]
  BY <1>1, <1>4, <1>5
<1>7. \A q \in Publishers : pub'[q].pc # "idle" => pub'[q].room \in Rooms
  BY <1>1, <1>4, <1>5 DEF IInv, Aimed
<1>8. /\ version' \in [Rooms -> [Kinds -> Nat]] /\ changes' \in 0 .. MaxChanges
      /\ crossed' \subseteq Rooms \X Kinds
  BY DEF ReadStatus, IInv, TypeOK
<1> QED
  BY <1>6, <1>7, <1>8, ManagerStep DEF ReadStatus

-----------------------------------------------------------------------------
\* Channels.

\* A delivery to registered clients keeps channels within their capacity, and
\* closes exactly the channels of those it forgets.
LEMMA DeliverFacts ==
  ASSUME IInv, NEW receivers \in SUBSET clients, NEW m \in Broadcasts, Deliver(receivers, m),
         UNCHANGED <<conn, reader, writer>>
  PROVE  /\ clients' \subseteq Clients
         /\ chan' \in [Clients -> Seq(Broadcasts)]
         /\ \A c \in Clients : Len(chan'[c]) <= Cap
         /\ closes' \in [Clients -> Nat]
         /\ Untouched' /\ OpenWhileRegistered'
<1> DEFINE full == Full(receivers)
<1>1. full \subseteq clients /\ clients \subseteq Clients
  BY DEF Full, IInv, TypeOK
<1>2. /\ chan \in [Clients -> Seq(Broadcasts)] /\ \A c \in Clients : Len(chan[c]) <= Cap
      /\ closes \in [Clients -> Nat]
  BY DEF IInv, TypeOK
<1>3. clients' = clients \ full
  BY DEF Deliver
<1>4. closes' = [c \in Clients |-> IF c \in full THEN closes[c] + 1 ELSE closes[c]]
  BY DEF Deliver
<1>5. chan' = [c \in Clients |-> IF c \in receivers \ full THEN Append(chan[c], m) ELSE chan[c]]
  BY DEF Deliver, Queued
<1>6. \A c \in receivers \ full : Len(chan[c]) # Cap
  BY DEF Full
<1> HIDE DEF full
<1>7. \A c \in Clients : chan'[c] \in Seq(Broadcasts) /\ Len(chan'[c]) <= Cap
  <2> SUFFICES ASSUME NEW c \in Clients
               PROVE  chan'[c] \in Seq(Broadcasts) /\ Len(chan'[c]) <= Cap
    OBVIOUS
  <2>1. CASE c \in receivers \ full
    <3>1. chan[c] \in Seq(Broadcasts) /\ Len(chan[c]) \in Nat /\ Len(chan[c]) < Cap
      BY <1>2, <1>6, <2>1, HubAssumption
    <3>2. chan'[c] = Append(chan[c], m)
      BY <1>5, <2>1
    <3> QED
      BY <3>1, <3>2, HubAssumption
  <2>2. CASE c \notin receivers \ full
    BY <1>2, <1>5, <2>2
  <2> QED
    BY <2>1, <2>2
<1>8. chan' \in [Clients -> Seq(Broadcasts)]
  BY <1>5, <1>7
<1>9. closes' \in [Clients -> Nat]
  BY <1>2, <1>4
<1>10. Untouched'
  BY <1>1, <1>3, <1>4 DEF IInv, Untouched
<1>11. OpenWhileRegistered'
  <2> SUFFICES ASSUME NEW c \in Clients, conn[c].pc # "off"
               PROVE  closes'[c] = IF c \in clients' THEN 0 ELSE 1
    BY DEF OpenWhileRegistered
  <2>1. closes[c] = IF c \in clients THEN 0 ELSE 1
    BY DEF IInv, OpenWhileRegistered
  <2> QED
    BY <1>1, <1>3, <1>4, <2>1
<1> QED
  BY <1>1, <1>3, <1>7, <1>8, <1>9, <1>10, <1>11

LEMMA BroadcastStep ==
  ASSUME IInv, NEW p \in Publishers, Broadcast(p)
  PROVE  IInv'
<1> DEFINE m == Message(pub[p].room, pub[p].kind, pub[p].version, FALSE)
<1>1. pub \in [Publishers -> PubType] /\ pub[p].room \in Rooms
  BY DEF Broadcast, IInv, TypeOK, PubType, Aimed
<1>2. m \in Broadcasts /\ m.room = pub[p].room
  BY <1>1 DEF Message, Broadcasts, PubType
<1>3. /\ Deliver(Members(m.room), m) /\ sent' = [sent EXCEPT ![m.room] = Append(@, m)]
      /\ pub' = [pub EXCEPT ![p] = NothingToPublish]
      /\ UNCHANGED <<version, crossed, changes, conn, socketVars, joined>>
  BY DEF Broadcast
<1> HIDE DEF m
<1>4. Members(m.room) \in SUBSET clients
  BY DEF Members
<1>5. UNCHANGED <<conn, reader, writer, shown, got>>
  BY <1>3 DEF socketVars
<1>6. /\ clients' \subseteq Clients
      /\ chan' \in [Clients -> Seq(Broadcasts)]
      /\ \A c \in Clients : Len(chan'[c]) <= Cap
      /\ closes' \in [Clients -> Nat]
      /\ Untouched' /\ OpenWhileRegistered'
  BY <1>2, <1>3, <1>4, <1>5, DeliverFacts
<1>7. sent' \in [Rooms -> Seq(Broadcasts)]
  BY <1>1, <1>2, <1>3 DEF IInv, TypeOK
<1>8. pub' \in [Publishers -> PubType]
  <2>1. NothingToPublish \in PubType
    BY DEF NothingToPublish, PubType, Kinds
  <2> QED
    BY <1>1, <1>3, <2>1
<1>9. Aimed'
  BY <1>1, <1>3 DEF IInv, Aimed, NothingToPublish
<1>10. TypeOK'
  BY <1>3, <1>5, <1>6, <1>7, <1>8 DEF IInv, TypeOK, PubType
<1> QED
  BY <1>6, <1>9, <1>10 DEF IInv

-----------------------------------------------------------------------------
\* Connections.

LEMMA RegisterStep ==
  ASSUME IInv, NEW c \in Clients, NEW room \in Rooms, NEW role \in Roles, Register(c, room, role)
  PROVE  IInv'
<1> DEFINE r == [pc |-> "registered", room |-> room, role |-> role, todo |-> << >>]
<1>1. r \in ConnType /\ r.pc = "registered" /\ r.room = room
  BY DEF ConnType
<1>2. /\ conn[c].pc = "off" /\ conn' = [conn EXCEPT ![c] = r] /\ clients' = clients \cup {c}
      /\ joined' = [joined EXCEPT ![c] = Len(sent[room])]
      /\ UNCHANGED <<version, pub, changes, chan, closes, writer, reader, shown, got, sent>>
  BY DEF Register, managerVars, socketVars
<1>7. crossed' \subseteq Rooms \X Kinds
  BY DEF Register, IInv, TypeOK
<1> HIDE DEF r
<1>3. conn \in [Clients -> ConnType] /\ sent[room] \in Seq(Broadcasts)
  BY DEF IInv, TypeOK, ConnType
<1>4. TypeOK'
  <2>1. conn' \in [Clients -> ConnType]
    BY <1>1, <1>2, <1>3
  <2>2. joined' \in [Clients -> Nat]
    BY <1>2, <1>3 DEF IInv, TypeOK
  <2> QED
    BY <1>2, <1>7, <2>1, <2>2 DEF IInv, TypeOK, ConnType
<1>5. Aimed' /\ Untouched'
  BY <1>1, <1>2, <1>3 DEF IInv, Aimed, Untouched
<1>6. OpenWhileRegistered'
  BY <1>1, <1>2, <1>3 DEF IInv, Untouched, OpenWhileRegistered
<1> QED
  BY <1>4, <1>5, <1>6 DEF IInv

\* A step of ServeWS after registration, or of the pumps, keeps the connection
\* and the registration as they are.
LEMMA ConnectionStep ==
  ASSUME IInv, NEW c \in Clients, conn[c].pc # "off",
         NEW r \in ConnType, r.pc # "off", r.room = conn[c].room,
         conn' = [conn EXCEPT ![c] = r],
         UNCHANGED <<managerVars, clients, closes, sent, joined>>,
         chan' \in [Clients -> Seq(Broadcasts)], \A d \in Clients : Len(chan'[d]) <= Cap,
         writer' \in [Clients -> {"off", "run", "done"}],
         reader' \in [Clients -> {"off", "run", "done"}],
         \A d \in Clients \ {c} : reader'[d] = reader[d] /\ writer'[d] = writer[d],
         shown' \in [Clients -> [Kinds -> Nat]], got' \in [Clients -> Seq(Broadcasts)]
  PROVE  IInv'
<1>1. conn \in [Clients -> ConnType]
  BY DEF IInv, TypeOK, ConnType
<1>2. conn' \in [Clients -> ConnType]
  BY <1>1
<1>3. TypeOK'
  BY <1>2 DEF IInv, TypeOK, ConnType, managerVars
<1>4. Aimed' /\ Untouched' /\ OpenWhileRegistered'
  BY <1>1 DEF IInv, Aimed, Untouched, OpenWhileRegistered, managerVars
<1> QED
  BY <1>3, <1>4 DEF IInv

LEMMA CollectStateStep ==
  ASSUME IInv, NEW c \in Clients, CollectState(c)
  PROVE  IInv'
<1> DEFINE room == conn[c].room
           state == Message(room, "state", version[room].state, TRUE)
           r == [conn[c] EXCEPT !.pc = IF conn[c].role = "admin" THEN "collecting" ELSE "greeting",
                                !.todo = <<state>>]
<1>1. /\ conn[c].pc = "registered" /\ conn[c] \in ConnType /\ room \in Rooms
      /\ version[room] \in [Kinds -> Nat]
  BY DEF CollectState, IInv, TypeOK, ConnType, Aimed
<1>2. state \in Broadcasts
  <2>1. version[room].state \in Nat
    BY <1>1 DEF Kinds
  <2> QED
    BY <1>1, <2>1 DEF Message, Broadcasts, Kinds
<1> HIDE DEF state
<1>3. conn' = [conn EXCEPT ![c] = r]
  BY <1>1 DEF CollectState, state, IInv, TypeOK, ConnType
<1> HIDE DEF room
<1>4. r \in ConnType /\ r.pc # "off" /\ r.room = conn[c].room
  <2>1. <<state>> \in Seq(Broadcasts)
    BY <1>2
  <2> QED
    BY <1>1, <2>1 DEF ConnType
<1> HIDE DEF r
<1>5. UNCHANGED <<managerVars, clients, closes, sent, joined, chan, writer, reader, shown, got>>
  BY DEF CollectState, socketVars
<1> QED
  BY <1>1, <1>3, <1>4, <1>5, ConnectionStep DEF IInv, TypeOK

LEMMA CollectStatusStep ==
  ASSUME IInv, NEW c \in Clients, CollectStatus(c)
  PROVE  IInv'
<1> DEFINE room == conn[c].room
           session == Message(room, "session", version[room].session, TRUE)
           r == [conn[c] EXCEPT !.pc = "greeting", !.todo = Append(@, session)]
<1>1. /\ conn[c].pc = "collecting" /\ conn[c] \in ConnType /\ room \in Rooms
      /\ version[room] \in [Kinds -> Nat]
  BY DEF CollectStatus, IInv, TypeOK, ConnType, Aimed
<1>2. session \in Broadcasts
  <2>1. version[room].session \in Nat
    BY <1>1 DEF Kinds
  <2> QED
    BY <1>1, <2>1 DEF Message, Broadcasts, Kinds
<1> HIDE DEF session
<1>3. conn' = [conn EXCEPT ![c] = r]
  BY <1>1 DEF CollectStatus, session, IInv, TypeOK, ConnType
<1> HIDE DEF room
<1>4. r \in ConnType /\ r.pc # "off" /\ r.room = conn[c].room
  <2>1. conn[c].todo \in Seq(Broadcasts)
    BY <1>1 DEF ConnType
  <2>2. Append(conn[c].todo, session) \in Seq(Broadcasts)
    BY <1>2, <2>1
  <2> QED
    BY <1>1, <2>2 DEF ConnType
<1> HIDE DEF r
<1>5. UNCHANGED <<managerVars, clients, closes, sent, joined, chan, writer, reader, shown, got>>
  BY DEF CollectStatus, socketVars
<1> QED
  BY <1>1, <1>3, <1>4, <1>5, ConnectionStep DEF IInv, TypeOK

LEMMA GreetStep ==
  ASSUME IInv, NEW c \in Clients, Greet(c)
  PROVE  IInv'
<1>1. /\ conn[c].pc = "greeting" /\ conn[c] \in ConnType /\ conn[c].todo # << >>
      /\ conn \in [Clients -> ConnType]
      /\ chan \in [Clients -> Seq(Broadcasts)] /\ \A d \in Clients : Len(chan[d]) <= Cap
      /\ UNCHANGED <<managerVars, clients, closes, sent, joined, writer, reader, shown, got>>
  BY DEF Greet, IInv, TypeOK, ConnType, socketVars
<1>2. Head(conn[c].todo) \in Broadcasts /\ Tail(conn[c].todo) \in Seq(Broadcasts)
  BY <1>1 DEF ConnType
<1>3. CASE /\ Len(chan[c]) < Cap /\ chan' = [chan EXCEPT ![c] = Append(@, Head(conn[c].todo))]
           /\ conn' = [conn EXCEPT ![c].todo = Tail(@)]
  <2> DEFINE r == [conn[c] EXCEPT !.todo = Tail(conn[c].todo)]
  <2>1. r \in ConnType /\ r.pc = "greeting" /\ r.room = conn[c].room
    BY <1>1, <1>2 DEF ConnType
  <2>2. conn' = [conn EXCEPT ![c] = r]
    BY <1>1, <1>3
  <2> HIDE DEF r
  <2>3. chan' \in [Clients -> Seq(Broadcasts)] /\ \A d \in Clients : Len(chan'[d]) <= Cap
    BY <1>1, <1>2, <1>3, HubAssumption
  <2> QED
    BY <1>1, <2>1, <2>2, <2>3, ConnectionStep DEF IInv, TypeOK
<1>4. CASE conn' = [conn EXCEPT ![c].pc = "panicked"] /\ UNCHANGED chan
  <2> DEFINE r == [conn[c] EXCEPT !.pc = "panicked"]
  <2>1. r \in ConnType /\ r.pc = "panicked" /\ r.room = conn[c].room
    BY <1>1 DEF ConnType
  <2>2. conn' = [conn EXCEPT ![c] = r]
    BY <1>1, <1>4
  <2> HIDE DEF r
  <2> QED
    BY <1>1, <1>4, <2>1, <2>2, ConnectionStep DEF IInv, TypeOK
<1> QED
  BY <1>3, <1>4 DEF Greet

LEMMA StartPumpsStep ==
  ASSUME IInv, NEW c \in Clients, StartPumps(c)
  PROVE  IInv'
<1> DEFINE r == [conn[c] EXCEPT !.pc = "served"]
<1>1. /\ conn[c].pc = "greeting" /\ conn[c] \in ConnType /\ conn \in [Clients -> ConnType]
      /\ UNCHANGED <<managerVars, clients, closes, sent, joined, chan, shown, got>>
  BY DEF StartPumps, IInv, TypeOK, ConnType
<1>2. r \in ConnType /\ r.pc = "served" /\ r.room = conn[c].room
  BY <1>1 DEF ConnType
<1>3. conn' = [conn EXCEPT ![c] = r]
  BY <1>1 DEF StartPumps
<1> HIDE DEF r
<1>4. /\ writer' \in [Clients -> {"off", "run", "done"}]
      /\ reader' \in [Clients -> {"off", "run", "done"}]
      /\ \A d \in Clients \ {c} : reader'[d] = reader[d] /\ writer'[d] = writer[d]
  BY DEF StartPumps, IInv, TypeOK
<1> QED
  BY <1>1, <1>2, <1>3, <1>4, ConnectionStep DEF IInv, TypeOK

-----------------------------------------------------------------------------
\* Pumps.

\* A step of a connection's own pumps that leaves its registration alone.
LEMMA PumpStep ==
  ASSUME IInv, NEW c \in Clients, conn[c].pc # "off",
         UNCHANGED <<managerVars, conn, clients, closes, sent, joined>>,
         chan' \in [Clients -> Seq(Broadcasts)], \A d \in Clients : Len(chan'[d]) <= Cap,
         writer' \in [Clients -> {"off", "run", "done"}],
         reader' \in [Clients -> {"off", "run", "done"}],
         \A d \in Clients \ {c} : reader'[d] = reader[d] /\ writer'[d] = writer[d],
         shown' \in [Clients -> [Kinds -> Nat]], got' \in [Clients -> Seq(Broadcasts)]
  PROVE  IInv'
<1>1. conn[c] \in ConnType /\ conn \in [Clients -> ConnType]
  BY DEF IInv, TypeOK, ConnType
<1>2. conn' = [conn EXCEPT ![c] = conn[c]]
  BY <1>1
<1> QED
  BY <1>1, <1>2, ConnectionStep

LEMMA WriteStep ==
  ASSUME IInv, NEW c \in Clients, Write(c)
  PROVE  IInv'
<1> DEFINE m == Head(chan[c])
<1>1. /\ conn[c].pc # "off" /\ chan[c] # << >> /\ chan[c] \in Seq(Broadcasts)
      /\ chan \in [Clients -> Seq(Broadcasts)] /\ \A d \in Clients : Len(chan[d]) <= Cap
      /\ shown \in [Clients -> [Kinds -> Nat]] /\ got \in [Clients -> Seq(Broadcasts)]
      /\ UNCHANGED <<managerVars, conn, clients, closes, sent, joined, writer, reader>>
  BY DEF Write, IInv, TypeOK, Untouched
<1>2. m \in Broadcasts
  BY <1>1
<1>3. chan' \in [Clients -> Seq(Broadcasts)] /\ \A d \in Clients : Len(chan'[d]) <= Cap
  <2>1. chan' = [chan EXCEPT ![c] = Tail(chan[c])]
    BY DEF Write
  <2>2. Tail(chan[c]) \in Seq(Broadcasts) /\ Len(Tail(chan[c])) <= Cap
    BY <1>1, HubAssumption
  <2> QED
    BY <1>1, <2>1, <2>2
<1> HIDE DEF m
<1>4. shown' \in [Clients -> [Kinds -> Nat]]
  <2>1. m.kind \in Kinds /\ m.version \in Nat
    BY <1>2 DEF Broadcasts
  <2>2. [shown[c] EXCEPT ![m.kind] = m.version] \in [Kinds -> Nat]
    BY <1>1, <2>1
  <2>3. shown' \in {shown, [shown EXCEPT ![c] = [shown[c] EXCEPT ![m.kind] = m.version]]}
    BY <1>1 DEF Write, m
  <2> QED
    BY <1>1, <2>2, <2>3
<1>5. got' \in [Clients -> Seq(Broadcasts)]
  <2>1. got' \in {got, [got EXCEPT ![c] = Append(got[c], m)]}
    BY DEF Write, m
  <2>2. Append(got[c], m) \in Seq(Broadcasts)
    BY <1>1, <1>2
  <2> DEFINE longer == Append(got[c], m)
  <2> HIDE DEF longer
  <2>3. [got EXCEPT ![c] = longer] \in [Clients -> Seq(Broadcasts)]
    <3>1. longer \in Seq(Broadcasts)
      BY <2>2 DEF longer
    <3> QED
      BY <1>1, <3>1
  <2> QED
    BY <1>1, <2>1, <2>3 DEF longer
<1> QED
  BY <1>1, <1>3, <1>4, <1>5, PumpStep DEF IInv, TypeOK

LEMMA WriterEnds ==
  ASSUME IInv, NEW c \in Clients, WriteClose(c) \/ WriteFails(c)
  PROVE  IInv'
<1>1. conn[c].pc # "off"
  BY DEF WriteClose, WriteFails, IInv, Untouched
<1>2. /\ writer' \in [Clients -> {"off", "run", "done"}]
      /\ \A d \in Clients \ {c} : writer'[d] = writer[d]
      /\ UNCHANGED <<managerVars, conn, clients, closes, sent, joined, chan, reader, shown, got>>
  BY DEF WriteClose, WriteFails, IInv, TypeOK
<1> QED
  BY <1>1, <1>2, PumpStep DEF IInv, TypeOK

LEMMA FinalizeStep ==
  ASSUME IInv, NEW c \in Clients, Finalize(c)
  PROVE  IInv'
<1>1. conn[c].pc # "off"
  BY DEF Finalize
<1>2. /\ reader' \in [Clients -> {"off", "run", "done"}]
      /\ \A d \in Clients \ {c} : reader'[d] = reader[d]
      /\ UNCHANGED <<managerVars, conn, clients, closes, sent, joined, chan, writer, shown, got>>
  BY DEF Finalize, IInv, TypeOK
<1> QED
  BY <1>1, <1>2, PumpStep DEF IInv, TypeOK

\* The read pump unregisters its client, closing the channel unless BroadcastTo did.
LEMMA ReadFailsStep ==
  ASSUME IInv, NEW c \in Clients, ReadFails(c)
  PROVE  IInv'
<1>1. conn[c].pc # "off"
  BY DEF ReadFails, IInv, Untouched
<1>2. /\ clients' = clients \ {c}
      /\ closes' = IF c \in clients THEN [closes EXCEPT ![c] = @ + 1] ELSE closes
      /\ reader' = [reader EXCEPT ![c] = "done"]
      /\ UNCHANGED <<version, pub, crossed, changes, conn, sent, joined, chan, writer, shown, got>>
  BY DEF ReadFails, Remove, managerVars
<1>3. TypeOK'
  BY <1>2 DEF IInv, TypeOK
<1>4. Aimed' /\ Untouched'
  BY <1>1, <1>2 DEF IInv, TypeOK, Aimed, Untouched
<1>5. OpenWhileRegistered'
  BY <1>2 DEF IInv, TypeOK, OpenWhileRegistered
<1> QED
  BY <1>3, <1>4, <1>5 DEF IInv

LEMMA StutterStep == ASSUME IInv, UNCHANGED vars PROVE IInv'
<1>1. UNCHANGED <<version, pub, crossed, changes, clients, conn, chan, closes, writer, reader, shown, got, sent, joined>>
  BY DEF vars
<1>2. TypeOK'
  BY <1>1 DEF IInv, TypeOK
<1>3. Aimed' /\ Untouched' /\ OpenWhileRegistered'
  BY <1>1 DEF IInv, Aimed, Untouched, OpenWhileRegistered
<1> QED
  BY <1>2, <1>3 DEF IInv

LEMMA NextKeeps == IInv /\ [Next]_vars => IInv'
<1> SUFFICES ASSUME IInv, [Next]_vars PROVE IInv'
  OBVIOUS
<1>1. ASSUME NEW p \in Publishers, NEW room \in Rooms, NEW kind \in Kinds, Change(p, room, kind)
      PROVE  IInv'
  BY <1>1, ChangeStep
<1>2. ASSUME NEW p \in Publishers, Publish(p) PROVE IInv'
  BY <1>2, ReadStatusStep, BroadcastStep DEF Publish
<1>3. ASSUME NEW c \in Clients, NEW room \in Rooms, NEW role \in Roles, Register(c, room, role)
      PROVE  IInv'
  BY <1>3, RegisterStep
<1>4. ASSUME NEW c \in Clients, ServeWS(c) PROVE IInv'
  BY <1>4, CollectStateStep, CollectStatusStep, GreetStep, StartPumpsStep DEF ServeWS
<1>5. ASSUME NEW c \in Clients, WritePump(c) \/ WriteFails(c) PROVE IInv'
  BY <1>5, WriteStep, WriterEnds DEF WritePump
<1>6. ASSUME NEW c \in Clients, ReadFails(c) PROVE IInv'
  BY <1>6, ReadFailsStep
<1>7. ASSUME NEW c \in Clients, Finalize(c) PROVE IInv'
  BY <1>7, FinalizeStep
<1> QED
  BY <1>1, <1>2, <1>3, <1>4, <1>5, <1>6, <1>7, StutterStep DEF Next

-----------------------------------------------------------------------------
\* The broadcasts among the messages of a channel.

\* A set of numbers with 0 and with the successor of each of its members has them all:
\* a least number outside it would have its predecessor in it.
LEMMA Induction ==
  ASSUME NEW P \in SUBSET Nat, 0 \in P, \A n \in P : n + 1 \in P
  PROVE  P = Nat
<1> DEFINE Rest == Nat \ P
<1>1. SUFFICES ASSUME Rest # {} PROVE FALSE
  OBVIOUS
<1>2. PICK x \in Rest : \A y \in Rest : <<y, x>> \notin OpToRel(<, Nat)
  <2>1. IsWellFoundedOn(OpToRel(<, Nat), Nat)
    BY NatLessThanWellFounded
  <2> HIDE DEF Rest
  <2> QED
    BY <1>1, <2>1, WFMin DEF Rest
<1>3. \A y \in Rest : ~(y < x)
  BY <1>2 DEF OpToRel
<1> QED
  BY <1>3

\* One message after what was kept before it.
Kept(before, m) == IF m.initial THEN before ELSE Append(before, m)

\* f holds what is kept of the first 0 .. k messages.
KeptTo(f, k, q) ==
  /\ DOMAIN f = 0 .. k
  /\ f[0] = << >>
  /\ \A n \in 1 .. k : f[n] = Kept(f[n - 1], q[n])

LEMMA KeptOne ==
  ASSUME NEW before \in Seq(Broadcasts), NEW m \in Broadcasts
  PROVE  Kept(before, m) \in Seq(Broadcasts)
BY DEF Kept

LEMMA KeptExists ==
  ASSUME NEW q \in Seq(Broadcasts), NEW k \in Nat
  PROVE  \E f : f = [n \in 0 .. k |-> IF n = 0 THEN << >> ELSE Kept(f[n - 1], q[n])]
<1> DEFINE Fill(f, j) == f = [n \in 0 .. j |-> IF n = 0 THEN << >> ELSE Kept(f[n - 1], q[n])]
           P == {j \in Nat : \E f : Fill(f, j)}
<1>1. 0 \in P
  <2>1. Fill([n \in 0 .. 0 |-> << >>], 0)
    OBVIOUS
  <2> QED
    BY <2>1
<1>2. ASSUME NEW j \in P PROVE j + 1 \in P
  <2>1. PICK f : Fill(f, j)
    OBVIOUS
  <2> DEFINE g == [n \in 0 .. j + 1 |-> IF n <= j THEN f[n] ELSE Kept(f[j], q[j + 1])]
  <2>2. j \in Nat
    OBVIOUS
  <2>3. \A n \in 0 .. j + 1 : g[n] = IF n = 0 THEN << >> ELSE Kept(g[n - 1], q[n])
    BY <2>1, <2>2
  <2>4. Fill(g, j + 1)
    BY <2>3
  <2> HIDE DEF g, Fill
  <2>5. \E h : Fill(h, j + 1)
    BY <2>4
  <2> QED
    BY <2>2, <2>5
<1>3. P = Nat
  <2> HIDE DEF P
  <2>1. P \in SUBSET Nat
    BY DEF P
  <2> QED
    BY <1>1, <1>2, <2>1, Induction
<1> QED
  BY <1>3

LEMMA FannedIs ==
  ASSUME NEW q \in Seq(Broadcasts)
  PROVE  \E f : KeptTo(f, Len(q), q) /\ Fanned(q) = f[Len(q)]
<1> DEFINE f == CHOOSE g : g = [n \in 0 .. Len(q) |-> IF n = 0 THEN << >> ELSE Kept(g[n - 1], q[n])]
<1>1. Len(q) \in Nat
  OBVIOUS
<1>2. f = [n \in 0 .. Len(q) |-> IF n = 0 THEN << >> ELSE Kept(f[n - 1], q[n])]
  <2>1. \E g : g = [n \in 0 .. Len(q) |-> IF n = 0 THEN << >> ELSE Kept(g[n - 1], q[n])]
    BY <1>1, KeptExists
  <2> QED
    BY <2>1, Zenon
<1>3. Fanned(q) = f[Len(q)]
  BY Zenon DEF Fanned, Kept
<1> HIDE DEF f
<1> QED
  BY <1>1, <1>2, <1>3 DEF KeptTo

LEMMA KeptTyped ==
  ASSUME NEW q \in Seq(Broadcasts), NEW f, NEW k \in 0 .. Len(q), KeptTo(f, k, q)
  PROVE  f[k] \in Seq(Broadcasts)
<1> DEFINE P == {n \in Nat : n <= k => f[n] \in Seq(Broadcasts)}
<1>1. 0 \in P
  <2>1. f[0] = << >> /\ << >> \in Seq(Broadcasts)
    BY DEF KeptTo
  <2> QED
    BY <2>1
<1>2. ASSUME NEW n \in P PROVE n + 1 \in P
  <2>1. CASE n + 1 <= k
    <3>1. f[n] \in Seq(Broadcasts) /\ q[n + 1] \in Broadcasts
      BY <2>1
    <3>2. f[n + 1] = Kept(f[n], q[n + 1])
      BY <2>1 DEF KeptTo
    <3>3. f[n + 1] \in Seq(Broadcasts)
      BY <3>1, <3>2 DEF Kept
    <3> QED
      BY <3>3
  <2> QED
    BY <2>1
<1>3. P = Nat
  <2> HIDE DEF P
  <2>1. P \in SUBSET Nat
    BY DEF P
  <2> QED
    BY <1>1, <1>2, <2>1, Induction
<1> QED
  BY <1>3

LEMMA FannedTyped == ASSUME NEW q \in Seq(Broadcasts) PROVE Fanned(q) \in Seq(Broadcasts)
<1>1. PICK f : KeptTo(f, Len(q), q) /\ Fanned(q) = f[Len(q)]
  BY FannedIs
<1> QED
  BY <1>1, KeptTyped

LEMMA FannedEmpty == Fanned(<< >>) = << >>
<1> DEFINE q == << >>
<1>1. q \in Seq(Broadcasts) /\ Len(q) = 0
  OBVIOUS
<1> HIDE DEF q
<1>2. PICK f : KeptTo(f, Len(q), q) /\ Fanned(q) = f[Len(q)]
  BY <1>1, FannedIs
<1> QED
  BY <1>1, <1>2 DEF KeptTo, q

LEMMA KeptAgrees ==
  ASSUME NEW q, NEW k \in Nat, NEW j \in k .. k + 1,
         NEW f, NEW g, KeptTo(f, k, q), KeptTo(g, j, q)
  PROVE  g[k] = f[k]
<1> DEFINE P == {n \in Nat : n <= k => g[n] = f[n]}
<1>1. 0 \in P
  BY DEF KeptTo
<1>2. ASSUME NEW n \in P PROVE n + 1 \in P
  BY <1>2 DEF KeptTo
<1>3. P = Nat
  <2> HIDE DEF P
  <2>1. P \in SUBSET Nat
    BY DEF P
  <2> QED
    BY <1>1, <1>2, <2>1, Induction
<1> QED
  BY <1>3

LEMMA FannedAppend ==
  ASSUME NEW q \in Seq(Broadcasts), NEW m \in Broadcasts
  PROVE  Fanned(Append(q, m)) = Kept(Fanned(q), m)
<1> DEFINE r == Append(q, m)
           k == Len(q)
<1>1. /\ r \in Seq(Broadcasts) /\ k \in Nat /\ Len(r) = k + 1 /\ r[k + 1] = m
      /\ \A n \in 1 .. k : r[n] = q[n]
  OBVIOUS
<1> HIDE DEF r, k
<1>2. PICK f : KeptTo(f, k, q) /\ Fanned(q) = f[k]
  BY FannedIs DEF k
<1>3. PICK g : KeptTo(g, k + 1, r) /\ Fanned(r) = g[k + 1]
  BY <1>1, FannedIs
<1>4. KeptTo(f, k, r)
  BY <1>1, <1>2 DEF KeptTo
<1>5. g[k] = f[k]
  BY <1>1, <1>3, <1>4, KeptAgrees
<1>6. g[k + 1] = Kept(g[k], m)
  BY <1>1, <1>3 DEF KeptTo
<1> QED
  BY <1>2, <1>3, <1>5, <1>6 DEF r

LEMMA ConcatAppend ==
  ASSUME NEW s \in Seq(Broadcasts), NEW t \in Seq(Broadcasts), NEW m \in Broadcasts
  PROVE  Append(s \o t, m) = s \o Append(t, m)
<1> DEFINE u == << m >>
           st == s \o t
<1>1. u \in Seq(Broadcasts) /\ st \in Seq(Broadcasts)
  OBVIOUS
<1>2. Append(st, m) = st \o u
  BY <1>1, AppendIsConcat
<1>3. Append(t, m) = t \o u
  BY AppendIsConcat
<1> HIDE DEF u
<1>4. st \o u = s \o (t \o u)
  BY <1>1, ConcatAssociative
<1> QED
  BY <1>2, <1>3, <1>4

LEMMA FannedTail ==
  ASSUME NEW q \in Seq(Broadcasts), q # << >>
  PROVE  Fanned(q) = Kept(<< >>, Head(q)) \o Fanned(Tail(q))
<1> DEFINE r == Tail(q)
           k == Len(r)
           h == Kept(<< >>, Head(q))
<1>1. /\ r \in Seq(Broadcasts) /\ k \in Nat /\ Len(q) = k + 1 /\ Head(q) = q[1] /\ q[1] \in Broadcasts
      /\ \A n \in 1 .. k : r[n] = q[n + 1] /\ r[n] \in Broadcasts
  OBVIOUS
<1>2. h \in Seq(Broadcasts)
  BY <1>1 DEF Kept
<1> HIDE DEF r, k
<1>3. PICK f : KeptTo(f, k + 1, q) /\ Fanned(q) = f[k + 1]
  BY <1>1, FannedIs
<1>4. PICK g : KeptTo(g, k, r) /\ Fanned(r) = g[k]
  BY <1>1, FannedIs DEF k
<1> DEFINE Both(n) == n <= k => f[n + 1] = h \o g[n] /\ g[n] \in Seq(Broadcasts)
           P == {n \in Nat : Both(n)}
<1>5. 0 \in P
  <2>1. g[0] = << >> /\ << >> \in Seq(Broadcasts)
    BY <1>4 DEF KeptTo
  <2>2. f[1] = h
    BY <1>1, <1>3 DEF KeptTo
  <2> HIDE DEF h
  <2>3. h \o << >> = h
    BY <1>2, ConcatEmptySeq
  <2>4. Both(0)
    BY <2>1, <2>2, <2>3
  <2> HIDE DEF Both
  <2> QED
    BY <2>4
<1> HIDE DEF h
<1>6. ASSUME NEW n \in P PROVE n + 1 \in P
  <2> SUFFICES ASSUME n + 1 <= k
               PROVE  f[n + 1 + 1] = h \o g[n + 1] /\ g[n + 1] \in Seq(Broadcasts)
    OBVIOUS
  <2>1. n \in Nat /\ n + 1 \in 1 .. k /\ n + 1 + 1 \in 1 .. k + 1
    BY <1>1
  <2>2. f[n + 1] = h \o g[n] /\ g[n] \in Seq(Broadcasts)
    BY <1>1
  <2> DEFINE x == q[n + 1 + 1]
  <2>3. x \in Broadcasts /\ r[n + 1] = x
    BY <1>1, <2>1
  <2> HIDE DEF x, P
  <2>4. f[n + 1 + 1] = Kept(f[n + 1], x)
    BY <1>3, <2>1 DEF KeptTo, x
  <2>5. g[n + 1] = Kept(g[n], x)
    BY <1>4, <2>1, <2>3 DEF KeptTo
  <2>6. Append(h \o g[n], x) = h \o Append(g[n], x)
    BY <1>2, <2>2, <2>3, ConcatAppend
  <2>7. Append(g[n], x) \in Seq(Broadcasts)
    BY <2>2, <2>3
  <2> QED
    BY <2>2, <2>4, <2>5, <2>6, <2>7 DEF Kept
<1>7. P = Nat
  <2> HIDE DEF P
  <2>1. P \in SUBSET Nat
    BY DEF P
  <2> QED
    BY <1>5, <1>6, <2>1, Induction
<1>8. f[k + 1] = h \o g[k]
  <2>1. Both(k)
    <3> HIDE DEF Both
    <3> QED
      BY <1>1, <1>7
  <2> QED
    BY <1>1, <2>1
<1> QED
  BY <1>3, <1>4, <1>8 DEF r, h
-----------------------------------------------------------------------------
\* Every broadcast in order.

\* The initial messages say that they are.
Greetings == \A c \in Clients : \A i \in 1 .. Len(conn[c].todo) : conn[c].todo[i].initial

\* A connection that has not been made was given nothing.
Unserved == \A c \in Clients : conn[c].pc = "off" => got[c] = << >> /\ chan[c] = << >>

\* The i-th broadcast given to c is the i-th of its room after c joined, and none is
\* missing as long as c is registered.
Follows(c) ==
  LET given == Given(c)
      said == sent[conn[c].room]
  IN /\ joined[c] + Len(given) <= Len(said)
     /\ c \in clients => joined[c] + Len(given) = Len(said)
     /\ \A i \in 1 .. Len(given) : given[i] = said[joined[c] + i]

InOrder == Greetings /\ Unserved /\ \A c \in Clients : conn[c].pc # "off" => Follows(c)

LEMMA GivenTyped == ASSUME TypeOK, NEW c \in Clients PROVE Given(c) \in Seq(Broadcasts)
<1>1. chan[c] \in Seq(Broadcasts) /\ got[c] \in Seq(Broadcasts)
  BY DEF TypeOK
<1>2. Fanned(chan[c]) \in Seq(Broadcasts)
  BY <1>1, FannedTyped
<1> QED
  BY <1>1, <1>2 DEF Given

\* What a client was given does not change when an initial message enters its
\* channel, nor when the page receives a message; a broadcast is added at the end.
LEMMA GivenSame ==
  ASSUME NEW c \in Clients, got'[c] = got[c], chan'[c] = chan[c]
  PROVE  Given(c)' = Given(c)
BY DEF Given

LEMMA GivenAppend ==
  ASSUME TypeOK, NEW c \in Clients, NEW m \in Broadcasts,
         got'[c] = got[c], chan'[c] = Append(chan[c], m)
  PROVE  Given(c)' = Kept(Given(c), m)
<1>1. chan[c] \in Seq(Broadcasts) /\ got[c] \in Seq(Broadcasts)
  BY DEF TypeOK
<1>2. Fanned(chan[c]) \in Seq(Broadcasts)
  BY <1>1, FannedTyped
<1>3. Fanned(chan'[c]) = Kept(Fanned(chan[c]), m)
  BY <1>1, FannedAppend
<1>4. Given(c)' = got[c] \o Kept(Fanned(chan[c]), m)
  BY <1>3 DEF Given
<1>5. Append(got[c] \o Fanned(chan[c]), m) = got[c] \o Append(Fanned(chan[c]), m)
  BY <1>1, <1>2, ConcatAppend
<1> QED
  BY <1>4, <1>5 DEF Given, Kept

LEMMA GivenReceived ==
  ASSUME TypeOK, NEW c \in Clients, chan[c] # << >>, chan'[c] = Tail(chan[c]),
         got'[c] = Kept(got[c], Head(chan[c]))
  PROVE  Given(c)' = Given(c)
<1> DEFINE m == Head(chan[c])
           rest == Fanned(Tail(chan[c]))
           first == Kept(<< >>, m)
<1>1. /\ chan[c] \in Seq(Broadcasts) /\ got[c] \in Seq(Broadcasts)
      /\ m \in Broadcasts /\ Tail(chan[c]) \in Seq(Broadcasts)
  BY DEF TypeOK
<1>2. rest \in Seq(Broadcasts) /\ first \in Seq(Broadcasts)
  <2>1. << >> \in Seq(Broadcasts)
    OBVIOUS
  <2> QED
    BY <1>1, <2>1, FannedTyped, KeptOne
<1>3. Given(c) = got[c] \o (first \o rest)
  BY <1>1, FannedTail DEF Given
<1>4. Given(c)' = Kept(got[c], m) \o rest
  BY DEF Given
<1>5. Kept(got[c], m) = got[c] \o first
  <2>1. CASE m.initial
    BY <1>1, <2>1, ConcatEmptySeq DEF Kept
  <2>2. CASE ~m.initial
    <3>1. first = << m >>
      BY <2>2 DEF Kept
    <3> HIDE DEF first, m
    <3> QED
      BY <1>1, <2>2, <3>1, AppendIsConcat DEF Kept
  <2> QED
    BY <2>1, <2>2
<1> HIDE DEF first, rest, m
<1>6. (got[c] \o first) \o rest = got[c] \o (first \o rest)
  <2> DEFINE had == got[c]
  <2>1. had \in Seq(Broadcasts)
    BY <1>1
  <2> HIDE DEF had
  <2>2. (had \o first) \o rest = had \o (first \o rest)
    BY <1>2, <2>1, ConcatAssociative
  <2> QED
    BY <2>2 DEF had
<1> QED
  BY <1>3, <1>4, <1>5, <1>6

\* A step that gives c nothing, while the room may go on without it.
LEMMA FollowsKept ==
  ASSUME TypeOK, NEW c \in Clients, Follows(c), conn[c].room \in Rooms,
         conn'[c].room = conn[c].room, joined' = joined, Given(c)' = Given(c),
         LET said == sent[conn[c].room]
             saidNext == sent'[conn[c].room]
         IN \/ saidNext = said /\ (c \in clients' => c \in clients)
            \/ c \notin clients' /\ \E m \in Broadcasts : saidNext = Append(said, m)
  PROVE  Follows(c)'
<1> DEFINE said == sent[conn[c].room]
           given == Given(c)
           j == joined[c]
<1>1. said \in Seq(Broadcasts) /\ given \in Seq(Broadcasts) /\ j \in Nat
  BY GivenTyped DEF TypeOK
<1>2. /\ j + Len(given) <= Len(said)
      /\ c \in clients => j + Len(given) = Len(said)
      /\ \A i \in 1 .. Len(given) : given[i] = said[j + i]
  BY DEF Follows
<1> HIDE DEF said, given, j
<1>3. CASE sent'[conn[c].room] = said /\ (c \in clients' => c \in clients)
  BY <1>2, <1>3 DEF Follows, said, given, j
<1>4. CASE c \notin clients' /\ \E m \in Broadcasts : sent'[conn[c].room] = Append(said, m)
  <2>1. PICK m \in Broadcasts : sent'[conn[c].room] = Append(said, m)
    BY <1>4
  <2>2. /\ Len(Append(said, m)) = Len(said) + 1
        /\ \A i \in 1 .. Len(said) : Append(said, m)[i] = said[i]
    BY <1>1
  <2>3. \A i \in 1 .. Len(given) : j + i \in 1 .. Len(said)
    BY <1>1, <1>2
  <2> DEFINE saidNext == Append(said, m)
  <2>4. /\ j + Len(given) <= Len(saidNext)
        /\ \A i \in 1 .. Len(given) : given[i] = saidNext[j + i]
    BY <1>1, <1>2, <2>2, <2>3
  <2> HIDE DEF saidNext
  <2> QED
    BY <1>4, <2>1, <2>4 DEF Follows, given, j, saidNext
<1> QED
  BY <1>3, <1>4 DEF said

\* A registered client is given the broadcast of its room.
LEMMA FollowsAppend ==
  ASSUME TypeOK, NEW c \in clients, Follows(c), conn[c].room \in Rooms,
         conn'[c].room = conn[c].room, joined' = joined, NEW m \in Broadcasts,
         Given(c)' = Append(Given(c), m), sent'[conn[c].room] = Append(sent[conn[c].room], m)
  PROVE  Follows(c)'
<1> DEFINE said == sent[conn[c].room]
           given == Given(c)
           j == joined[c]
           saidNext == Append(said, m)
           givenNext == Append(given, m)
<1>1. said \in Seq(Broadcasts) /\ given \in Seq(Broadcasts) /\ j \in Nat
  BY GivenTyped DEF TypeOK
<1>2. /\ j + Len(given) = Len(said)
      /\ \A i \in 1 .. Len(given) : given[i] = said[j + i]
  BY DEF Follows
<1> HIDE DEF said, given, j
<1>3. /\ Len(saidNext) = Len(said) + 1 /\ saidNext[Len(said) + 1] = m
      /\ \A i \in 1 .. Len(said) : saidNext[i] = said[i]
      /\ Len(givenNext) = Len(given) + 1 /\ givenNext[Len(given) + 1] = m
      /\ \A i \in 1 .. Len(given) : givenNext[i] = given[i]
      /\ Len(said) \in Nat /\ Len(given) \in Nat
  BY <1>1
<1> HIDE DEF saidNext, givenNext
<1>4. j + Len(givenNext) = Len(saidNext)
  BY <1>1, <1>2, <1>3
<1>5. ASSUME NEW i \in 1 .. Len(givenNext) PROVE givenNext[i] = saidNext[j + i]
  <2>1. CASE i \in 1 .. Len(given)
    <3>1. j + i \in 1 .. Len(said)
      BY <1>1, <1>2, <1>3, <2>1
    <3> QED
      BY <1>2, <1>3, <2>1, <3>1
  <2>2. CASE i = Len(given) + 1
    <3>1. j \in Nat /\ Len(given) \in Nat /\ j + Len(given) = Len(said)
      BY <1>1, <1>2
    <3>2. j + (Len(given) + 1) = Len(said) + 1
      BY <3>1
    <3> QED
      BY <1>3, <2>2, <3>2
  <2> QED
    BY <1>3, <2>1, <2>2
<1>6. j + Len(givenNext) <= Len(saidNext)
  BY <1>1, <1>3, <1>4
<1>7. Given(c)' = givenNext /\ sent'[conn'[c].room] = saidNext /\ joined'[c] = j
  BY DEF said, given, j, saidNext, givenNext
<1> QED
  BY <1>4, <1>5, <1>6, <1>7 DEF Follows

\* A step that gives no client anything and makes no connection.
LEMMA SameOrder ==
  ASSUME IInv, InOrder, UNCHANGED <<sent, joined>>, clients' \subseteq clients,
         Greetings', Unserved',
         \A c \in Clients : /\ conn'[c].room = conn[c].room
                            /\ conn'[c].pc = "off" <=> conn[c].pc = "off"
                            /\ conn[c].pc # "off" => Given(c)' = Given(c)
  PROVE  InOrder'
<1> SUFFICES ASSUME NEW c \in Clients, conn'[c].pc # "off" PROVE Follows(c)'
  BY DEF InOrder
<1>1. conn[c].pc # "off" /\ conn[c].room \in Rooms /\ Follows(c)
  BY DEF InOrder, IInv, Aimed
<1>2. Given(c)' = Given(c) /\ conn'[c].room = conn[c].room /\ TypeOK
  BY <1>1 DEF IInv
<1> QED
  BY <1>1, <1>2, FollowsKept

\* A step that leaves the channels alone, too.
LEMMA QuietOrder ==
  ASSUME IInv, InOrder, UNCHANGED <<chan, got, sent, joined>>, clients' \subseteq clients,
         Greetings',
         \A c \in Clients : /\ conn'[c].room = conn[c].room
                            /\ conn'[c].pc = "off" <=> conn[c].pc = "off"
  PROVE  InOrder'
<1>1. Unserved'
  BY DEF InOrder, Unserved
<1>2. \A c \in Clients : Given(c)' = Given(c)
  BY GivenSame
<1> QED
  BY <1>1, <1>2, SameOrder

LEMMA IdleOrder ==
  ASSUME IInv, InOrder, UNCHANGED <<conn, chan, got, sent, joined>>, clients' \subseteq clients
  PROVE  InOrder'
<1>1. Greetings'
  BY DEF InOrder, Greetings
<1> QED
  BY <1>1, QuietOrder

LEMMA CollectStateOrder ==
  ASSUME IInv, InOrder, NEW c \in Clients, CollectState(c)
  PROVE  InOrder'
<1> DEFINE state == Message(conn[c].room, "state", version[conn[c].room].state, TRUE)
<1>1. conn \in [Clients -> ConnType] /\ conn[c].pc = "registered" /\ state.initial
  BY DEF CollectState, IInv, TypeOK, ConnType, Message
<1>2. conn' = [conn EXCEPT ![c].pc = IF conn[c].role = "admin" THEN "collecting" ELSE "greeting",
                           ![c].todo = <<state>>]
  BY DEF CollectState
<1> HIDE DEF state
<1>3. conn'[c].todo = <<state>> /\ \A d \in Clients \ {c} : conn'[d] = conn[d]
  BY <1>1, <1>2 DEF ConnType
<1>4. Greetings'
  BY <1>1, <1>3 DEF InOrder, Greetings
<1>5. \A d \in Clients : /\ conn'[d].room = conn[d].room
                         /\ conn'[d].pc = "off" <=> conn[d].pc = "off"
  BY <1>1, <1>2 DEF ConnType
<1> QED
  BY <1>4, <1>5, QuietOrder DEF CollectState, socketVars

LEMMA CollectStatusOrder ==
  ASSUME IInv, InOrder, NEW c \in Clients, CollectStatus(c)
  PROVE  InOrder'
<1> DEFINE session == Message(conn[c].room, "session", version[conn[c].room].session, TRUE)
           todo == conn[c].todo
<1>1. /\ conn \in [Clients -> ConnType] /\ conn[c].pc = "collecting" /\ session.initial
      /\ todo \in Seq(Broadcasts)
  BY DEF CollectStatus, IInv, TypeOK, ConnType, Message
<1>2. conn' = [conn EXCEPT ![c].pc = "greeting", ![c].todo = Append(todo, session)]
  BY DEF CollectStatus
<1>3. \A i \in 1 .. Len(todo) : todo[i].initial
  BY DEF InOrder, Greetings
<1> HIDE DEF session, todo
<1>4. conn'[c].todo = Append(todo, session) /\ \A d \in Clients \ {c} : conn'[d] = conn[d]
  BY <1>1, <1>2 DEF ConnType
<1>5. \A i \in 1 .. Len(Append(todo, session)) : Append(todo, session)[i].initial
  BY <1>1, <1>3
<1>6. Greetings'
  BY <1>4, <1>5 DEF InOrder, Greetings
<1>7. \A d \in Clients : /\ conn'[d].room = conn[d].room
                         /\ conn'[d].pc = "off" <=> conn[d].pc = "off"
  BY <1>1, <1>2 DEF ConnType
<1> QED
  BY <1>6, <1>7, QuietOrder DEF CollectStatus, socketVars

LEMMA GreetOrder ==
  ASSUME IInv, InOrder, NEW c \in Clients, Greet(c)
  PROVE  InOrder'
<1>1. /\ conn[c].pc = "greeting" /\ conn[c].todo # << >> /\ conn \in [Clients -> ConnType]
      /\ chan \in [Clients -> Seq(Broadcasts)] /\ conn[c].todo \in Seq(Broadcasts)
      /\ UNCHANGED <<clients, got, sent, joined>>
  BY DEF Greet, socketVars, IInv, TypeOK, ConnType
<1>2. CASE chan' = [chan EXCEPT ![c] = Append(@, Head(conn[c].todo))]
           /\ conn' = [conn EXCEPT ![c].todo = Tail(@)]
  <2> DEFINE m == Head(conn[c].todo)
  <2>1. /\ m \in Broadcasts /\ m = conn[c].todo[1] /\ 1 \in 1 .. Len(conn[c].todo)
        /\ Len(Tail(conn[c].todo)) + 1 = Len(conn[c].todo)
        /\ \A i \in 1 .. Len(Tail(conn[c].todo)) :
             Tail(conn[c].todo)[i] = conn[c].todo[i + 1] /\ i + 1 \in 1 .. Len(conn[c].todo)
    BY <1>1
  <2>2. m.initial
    BY <2>1 DEF InOrder, Greetings
  <2>3. \A d \in Clients : /\ conn'[d].room = conn[d].room
                           /\ conn'[d].pc = conn[d].pc
                           /\ d # c => conn'[d] = conn[d]
    BY <1>1, <1>2 DEF ConnType
  <2>4. conn'[c].todo = Tail(conn[c].todo)
    BY <1>1, <1>2 DEF ConnType
  <2>5. chan'[c] = Append(chan[c], m) /\ \A d \in Clients \ {c} : chan'[d] = chan[d]
    BY <1>1, <1>2
  <2> HIDE DEF m
  <2>6. Greetings'
    <3>1. \A i \in 1 .. Len(conn'[c].todo) : conn'[c].todo[i].initial
      BY <2>1, <2>4 DEF InOrder, Greetings
    <3>2. \A d \in Clients \ {c} : \A i \in 1 .. Len(conn'[d].todo) : conn'[d].todo[i].initial
      BY <2>3 DEF InOrder, Greetings
    <3> QED
      BY <3>1, <3>2 DEF Greetings
  <2>7. Unserved'
    BY <1>1, <2>3, <2>5 DEF InOrder, Unserved
  <2>8. ASSUME NEW d \in Clients PROVE Given(d)' = Given(d)
    <3>1. CASE d = c
      BY <1>1, <2>1, <2>2, <2>5, <3>1, GivenAppend DEF IInv, Kept
    <3>2. CASE d # c
      BY <1>1, <2>5, <3>2, GivenSame
    <3> QED
      BY <3>1, <3>2
  <2> QED
    BY <1>1, <2>3, <2>6, <2>7, <2>8, SameOrder
<1>3. CASE conn' = [conn EXCEPT ![c].pc = "panicked"] /\ UNCHANGED chan
  <2>1. \A d \in Clients : /\ conn'[d].room = conn[d].room /\ conn'[d].todo = conn[d].todo
                           /\ conn'[d].pc = "off" <=> conn[d].pc = "off"
    BY <1>1, <1>3 DEF ConnType
  <2>2. Greetings'
    BY <2>1 DEF InOrder, Greetings
  <2> QED
    BY <1>1, <1>3, <2>1, <2>2, QuietOrder
<1> QED
  BY <1>2, <1>3 DEF Greet

LEMMA StartPumpsOrder ==
  ASSUME IInv, InOrder, NEW c \in Clients, StartPumps(c)
  PROVE  InOrder'
<1>1. \A d \in Clients : /\ conn'[d].room = conn[d].room /\ conn'[d].todo = conn[d].todo
                         /\ conn'[d].pc = "off" <=> conn[d].pc = "off"
  BY DEF StartPumps, IInv, TypeOK
<1>2. Greetings'
  BY <1>1 DEF InOrder, Greetings
<1> QED
  BY <1>1, <1>2, QuietOrder DEF StartPumps

LEMMA WriteOrder ==
  ASSUME IInv, InOrder, NEW c \in Clients, Write(c)
  PROVE  InOrder'
<1>1. /\ chan[c] # << >> /\ chan \in [Clients -> Seq(Broadcasts)] /\ got \in [Clients -> Seq(Broadcasts)]
      /\ chan' = [chan EXCEPT ![c] = Tail(@)]
      /\ UNCHANGED <<clients, conn, sent, joined>>
  BY DEF Write, IInv, TypeOK
<1>2. got' = IF Head(chan[c]).initial THEN got ELSE [got EXCEPT ![c] = Append(@, Head(chan[c]))]
  BY DEF Write
<1>3. got'[c] = Kept(got[c], Head(chan[c])) /\ \A d \in Clients \ {c} : got'[d] = got[d]
  BY <1>1, <1>2 DEF Kept
<1>4. chan'[c] = Tail(chan[c]) /\ \A d \in Clients \ {c} : chan'[d] = chan[d]
  BY <1>1
<1>5. Greetings'
  BY <1>1 DEF InOrder, Greetings
<1>6. conn[c].pc # "off"
  BY <1>1 DEF InOrder, Unserved
<1>7. Unserved'
  BY <1>1, <1>3, <1>4, <1>6 DEF InOrder, Unserved
<1>8. ASSUME NEW d \in Clients PROVE Given(d)' = Given(d)
  <2>1. CASE d = c
    BY <1>1, <1>3, <1>4, <2>1, GivenReceived DEF IInv
  <2>2. CASE d # c
    BY <1>3, <1>4, <2>2, GivenSame
  <2> QED
    BY <2>1, <2>2
<1> QED
  BY <1>1, <1>5, <1>7, <1>8, SameOrder

LEMMA RegisterOrder ==
  ASSUME IInv, InOrder, NEW c \in Clients, NEW room \in Rooms, NEW role \in Roles,
         Register(c, room, role)
  PROVE  InOrder'
<1> DEFINE r == [pc |-> "registered", room |-> room, role |-> role, todo |-> << >>]
<1>1. /\ conn[c].pc = "off" /\ conn' = [conn EXCEPT ![c] = r] /\ clients' = clients \cup {c}
      /\ joined' = [joined EXCEPT ![c] = Len(sent[room])]
      /\ UNCHANGED <<chan, got, sent>>
  BY DEF Register, socketVars
<1>2. conn \in [Clients -> ConnType] /\ joined \in [Clients -> Nat] /\ sent[room] \in Seq(Broadcasts)
  BY DEF IInv, TypeOK, ConnType
<1>3. /\ conn'[c].pc = "registered" /\ conn'[c].room = room /\ conn'[c].todo = << >>
      /\ joined'[c] = Len(sent[room])
      /\ \A d \in Clients \ {c} : conn'[d] = conn[d] /\ joined'[d] = joined[d]
  BY <1>1, <1>2
<1>4. got[c] = << >> /\ chan[c] = << >>
  BY <1>1 DEF InOrder, Unserved
<1> HIDE DEF r
<1>5. Greetings'
  BY <1>3 DEF InOrder, Greetings
<1>6. Unserved'
  BY <1>1, <1>3 DEF InOrder, Unserved
<1>7. Follows(c)'
  <2>1. Given(c)' = << >>
    <3>1. got'[c] = << >> /\ Fanned(chan'[c]) = << >>
      BY <1>1, <1>4, FannedEmpty
    <3>2. << >> \o << >> = << >>
      OBVIOUS
    <3> QED
      BY <3>1, <3>2 DEF Given
  <2>2. Len(sent[room]) \in Nat /\ sent'[conn'[c].room] = sent[room]
    BY <1>1, <1>2, <1>3
  <2>3. Len(Given(c)') = 0
    BY <2>1
  <2> QED
    BY <1>3, <2>2, <2>3 DEF Follows
<1>8. ASSUME NEW d \in Clients \ {c}, conn'[d].pc # "off" PROVE Follows(d)'
  <2>1. Follows(d) /\ conn[d].room \in Rooms
    BY <1>3, <1>8 DEF InOrder, IInv, Aimed
  <2>2. Given(d)' = Given(d)
    BY <1>1, GivenSame
  <2>3. sent'[conn'[d].room] = sent[conn[d].room] /\ joined'[d] = joined[d] /\ (d \in clients' => d \in clients)
    BY <1>1, <1>3
  <2> QED
    BY <2>1, <2>2, <2>3 DEF Follows
<1> QED
  BY <1>5, <1>6, <1>7, <1>8 DEF InOrder

LEMMA BroadcastOrder ==
  ASSUME IInv, InOrder, NEW p \in Publishers, Broadcast(p)
  PROVE  InOrder'
<1> DEFINE m == Message(pub[p].room, pub[p].kind, pub[p].version, FALSE)
           full == Full(Members(m.room))
<1>1. pub \in [Publishers -> PubType] /\ pub[p].room \in Rooms
  BY DEF Broadcast, IInv, TypeOK, PubType, Aimed
<1>2. m \in Broadcasts /\ ~m.initial /\ m.room \in Rooms
  BY <1>1 DEF Message, Broadcasts, PubType
<1>3. /\ Deliver(Members(m.room), m) /\ sent' = [sent EXCEPT ![m.room] = Append(@, m)]
      /\ UNCHANGED <<conn, got, joined>>
  BY DEF Broadcast, socketVars
<1> HIDE DEF m
<1>4. /\ clients' = clients \ full
      /\ chan' = [c \in Clients |-> IF c \in Members(m.room) \ full THEN Append(chan[c], m) ELSE chan[c]]
  BY <1>3 DEF Deliver, Queued
<1>5. \A c \in Clients : c \in Members(m.room) <=> c \in clients /\ conn[c].room = m.room
  BY DEF Members, IInv, TypeOK
<1>6. full \subseteq Members(m.room)
  BY DEF Full
<1> HIDE DEF full
<1>7. sent'[m.room] = Append(sent[m.room], m) /\ \A room \in Rooms \ {m.room} : sent'[room] = sent[room]
  BY <1>2, <1>3 DEF IInv, TypeOK
<1>8. Greetings'
  BY <1>3 DEF InOrder, Greetings
<1>9. Unserved'
  BY <1>3, <1>4, <1>5 DEF InOrder, Unserved, IInv, Untouched
<1>10. ASSUME NEW c \in Clients, conn'[c].pc # "off" PROVE Follows(c)'
  <2>1. Follows(c) /\ conn[c].room \in Rooms /\ TypeOK /\ conn'[c].room = conn[c].room /\ joined' = joined
    BY <1>3, <1>10 DEF InOrder, IInv, Aimed
  <2>2. CASE c \in Members(m.room) \ full
    <3>1. Given(c)' = Kept(Given(c), m)
      BY <1>2, <1>3, <1>4, <2>1, <2>2, GivenAppend
    <3>2. c \in clients /\ conn[c].room = m.room
      BY <1>5, <2>2
    <3> QED
      BY <1>2, <1>7, <2>1, <3>1, <3>2, FollowsAppend DEF Kept
  <2>3. CASE c \notin Members(m.room) \ full
    <3>1. Given(c)' = Given(c)
      BY <1>3, <1>4, <2>3, GivenSame
    <3>2. conn[c].room = m.room => c \notin clients'
      BY <1>4, <1>5, <2>3
    <3>3. clients' \subseteq clients
      BY <1>4
    <3> QED
      BY <1>2, <1>7, <2>1, <3>1, <3>2, <3>3, FollowsKept
  <2> QED
    BY <2>2, <2>3
<1> QED
  BY <1>8, <1>9, <1>10 DEF InOrder

LEMMA NextOrder == IInv /\ InOrder /\ [Next]_vars => InOrder'
<1> SUFFICES ASSUME IInv, InOrder, [Next]_vars PROVE InOrder'
  OBVIOUS
<1>1. ASSUME NEW p, NEW room, NEW kind, Change(p, room, kind) \/ ReadStatus(p) PROVE InOrder'
  BY <1>1, IdleOrder DEF Change, ReadStatus, socketVars
<1>2. ASSUME NEW c \in Clients, WriteClose(c) \/ WriteFails(c) \/ Finalize(c) \/ ReadFails(c)
      PROVE  InOrder'
  BY <1>2, IdleOrder DEF WriteClose, WriteFails, Finalize, ReadFails, Remove
<1>3. CASE UNCHANGED vars
  BY <1>3, IdleOrder DEF vars
<1> QED
  BY <1>1, <1>2, <1>3, CollectStateOrder, CollectStatusOrder, GreetOrder, StartPumpsOrder, WriteOrder, RegisterOrder, BroadcastOrder
  DEF Next, Publish, ServeWS, WritePump

LEMMA InitOrder == Init => InOrder
BY DEF Init, InOrder, Greetings, Unserved, Unconnected

LEMMA OrderKept == IInv /\ InOrder => EveryBroadcastInOrder
<1> SUFFICES ASSUME IInv, InOrder, NEW c \in Clients, conn[c].pc # "off"
             PROVE  LET due == SubSeq(sent[conn[c].room], joined[c] + 1, Len(sent[conn[c].room]))
                    IN IF c \in clients THEN Given(c) = due
                       ELSE Given(c) = SubSeq(due, 1, Len(Given(c)))
  BY DEF EveryBroadcastInOrder
<1> DEFINE said == sent[conn[c].room]
           given == Given(c)
           j == joined[c]
           due == SubSeq(said, j + 1, Len(said))
           start == SubSeq(due, 1, Len(given))
<1>1. said \in Seq(Broadcasts) /\ given \in Seq(Broadcasts) /\ j \in Nat
  BY GivenTyped DEF IInv, TypeOK, Aimed
<1>2. /\ j + Len(given) <= Len(said)
      /\ c \in clients => j + Len(given) = Len(said)
      /\ \A i \in 1 .. Len(given) : given[i] = said[j + i]
  BY DEF InOrder, Follows
<1> HIDE DEF said, given, j
<1>3. Len(said) \in Nat /\ Len(given) \in Nat
  BY <1>1
<1>4. /\ due \in Seq(Broadcasts) /\ Len(due) = Len(said) - j
      /\ \A i \in 1 .. Len(said) - j : due[i] = said[j + i]
  BY <1>1, <1>2, <1>3
<1> HIDE DEF due
<1>5. \A i \in 1 .. Len(given) : given[i] = due[i]
  BY <1>1, <1>2, <1>3, <1>4
<1>6. CASE c \in clients
  <2>1. Len(given) = Len(due)
    BY <1>1, <1>2, <1>3, <1>4, <1>6
  <2>2. given = due
    BY <1>1, <1>4, <1>5, <2>1, SeqEqual
  <2> QED
    BY <1>6, <2>2 DEF given, due, said, j
<1>7. CASE c \notin clients
  <2>1. /\ start \in Seq(Broadcasts) /\ Len(start) = Len(given)
        /\ \A i \in 1 .. Len(given) : start[i] = due[i]
    BY <1>1, <1>2, <1>3, <1>4
  <2> HIDE DEF start
  <2>2. given = start
    BY <1>1, <1>5, <2>1, SeqEqual
  <2> QED
    BY <1>7, <2>2 DEF start, given, due, said, j
<1> QED
  BY <1>6, <1>7

-----------------------------------------------------------------------------
\* The present state on every page that has settled.

\* The last message of a kind in a sequence shows version v.
LastShows(q, kind, v) ==
  \E i \in 1 .. Len(q) :
    /\ q[i].kind = kind /\ q[i].version = v
    /\ \A j \in 1 .. Len(q) : j > i => q[j].kind # kind

NoneOf(q, kind) == \A i \in 1 .. Len(q) : q[i].kind # kind

\* The last message of a kind, or what the page has when there is none.
Brings(q, kind, v, before) == LastShows(q, kind, v) \/ (NoneOf(q, kind) /\ before = v)

\* The page of c shows the present version of a kind once it has all messages in its
\* channel and all that ServeWS is about to put there.
WillShow(c, kind) ==
  LET v == version[conn[c].room][kind]
  IN \/ LastShows(conn[c].todo, kind, v)
     \/ NoneOf(conn[c].todo, kind) /\ Brings(chan[c], kind, v, shown[c][kind])

\* While no messages of a kind cross in a room: one publisher at most, with the present
\* version, and none while a client is connecting.
Orderly(room, kind) ==
  /\ \A p, q \in Publishers :
       /\ pub[p].pc # "idle" /\ pub[p].room = room /\ pub[p].kind = kind
       /\ pub[q].pc # "idle" /\ pub[q].room = room /\ pub[q].kind = kind
       => p = q
  /\ \A p \in Publishers :
       pub[p].pc # "idle" /\ pub[p].room = room /\ pub[p].kind = kind =>
         pub[p].version = version[room][kind]
  /\ Connecting(room) => ~Pending(room, kind)

\* What OnConnect has read for c.
Collected(c) == IF conn[c].pc = "collecting" THEN {"state"} ELSE Rendered(c)

Told(c, kind) ==
  /\ conn[c].pc \in {"collecting", "greeting", "served"}
  /\ kind \in Collected(c) /\ ~Pending(conn[c].room, kind)
  => WillShow(c, kind)

Greeted == \A c \in Clients : conn[c].pc = "served" => conn[c].todo = << >>

Uncrossed ==
  /\ Greeted
  /\ \A room \in Rooms, kind \in Kinds : <<room, kind>> \notin crossed => Orderly(room, kind)
  /\ \A c \in clients, kind \in Kinds : <<conn[c].room, kind>> \notin crossed => Told(c, kind)

LEMMA AppendShows ==
  ASSUME NEW q \in Seq(Broadcasts), NEW m \in Broadcasts, NEW kind, NEW v, NEW before,
         IF m.kind = kind THEN m.version = v ELSE Brings(q, kind, v, before)
  PROVE  Brings(Append(q, m), kind, v, before)
<1> DEFINE r == Append(q, m)
           n == Len(q)
<1>1. n \in Nat /\ Len(r) = n + 1 /\ r[n + 1] = m /\ \A i \in 1 .. n : r[i] = q[i]
  OBVIOUS
<1> HIDE DEF r
<1>2. CASE m.kind = kind
  <2>1. n + 1 \in 1 .. Len(r) /\ \A j \in 1 .. Len(r) : ~(j > n + 1)
    BY <1>1
  <2> HIDE DEF n
  <2>2. LastShows(r, kind, v)
    BY <1>1, <1>2, <2>1 DEF LastShows
  <2> QED
    BY <2>2 DEF Brings, r
<1>3. CASE m.kind # kind /\ LastShows(q, kind, v)
  <2>1. PICK i \in 1 .. n : /\ q[i].kind = kind /\ q[i].version = v
                            /\ \A j \in 1 .. n : j > i => q[j].kind # kind
    BY <1>3 DEF LastShows
  <2> HIDE DEF n
  <2>2. i \in 1 .. Len(r) /\ \A j \in 1 .. Len(r) : j \in 1 .. n \/ j = n + 1
    BY <1>1
  <2>3. \A j \in 1 .. Len(r) : j > i => r[j].kind # kind
    BY <1>1, <1>3, <2>1, <2>2
  <2>4. LastShows(r, kind, v)
    BY <1>1, <2>1, <2>2, <2>3 DEF LastShows
  <2> QED
    BY <2>4 DEF Brings, r
<1>4. CASE m.kind # kind /\ NoneOf(q, kind) /\ before = v
  <2>1. \A j \in 1 .. Len(r) : j \in 1 .. n \/ j = n + 1
    BY <1>1
  <2>2. NoneOf(r, kind)
    BY <1>1, <1>4, <2>1 DEF NoneOf
  <2> QED
    BY <1>4, <2>2 DEF Brings, r
<1> QED
  BY <1>2, <1>3, <1>4 DEF Brings

\* A message of another kind changes nothing.
LEMMA AppendKeeps ==
  ASSUME NEW q \in Seq(Broadcasts), NEW m \in Broadcasts, NEW kind, NEW v, m.kind # kind
  PROVE  /\ LastShows(q, kind, v) => LastShows(Append(q, m), kind, v)
         /\ NoneOf(q, kind) => NoneOf(Append(q, m), kind)
<1> DEFINE r == Append(q, m)
           n == Len(q)
<1>1. /\ n \in Nat /\ Len(r) = n + 1 /\ r[n + 1] = m /\ \A i \in 1 .. n : r[i] = q[i]
      /\ \A j \in 1 .. n + 1 : j \in 1 .. n \/ j = n + 1
  OBVIOUS
<1> HIDE DEF r
<1>2. ASSUME LastShows(q, kind, v) PROVE LastShows(r, kind, v)
  <2>1. PICK i \in 1 .. n : /\ q[i].kind = kind /\ q[i].version = v
                            /\ \A j \in 1 .. n : j > i => q[j].kind # kind
    BY <1>2 DEF LastShows
  <2> HIDE DEF n
  <2>2. i \in 1 .. Len(r) /\ \A j \in 1 .. Len(r) : j > i => r[j].kind # kind
    BY <1>1, <2>1
  <2> QED
    BY <1>1, <2>1, <2>2 DEF LastShows
<1>3. ASSUME NoneOf(q, kind) PROVE NoneOf(r, kind)
  BY <1>1, <1>3 DEF NoneOf
<1> QED
  BY <1>2, <1>3 DEF r

LEMMA TailShows ==
  ASSUME NEW q \in Seq(Broadcasts), q # << >>, NEW kind, NEW v
  PROVE  /\ NoneOf(q, kind) => Head(q).kind # kind /\ NoneOf(Tail(q), kind)
         /\ LastShows(q, kind, v) =>
              \/ LastShows(Tail(q), kind, v)
              \/ NoneOf(Tail(q), kind) /\ Head(q).kind = kind /\ Head(q).version = v
<1> DEFINE r == Tail(q)
           n == Len(q)
<1>1. /\ n \in Nat /\ n > 0 /\ Len(r) = n - 1 /\ Head(q) = q[1] /\ 1 \in 1 .. n
      /\ \A i \in 1 .. n - 1 : r[i] = q[i + 1] /\ i + 1 \in 1 .. n /\ i + 1 > 1
  OBVIOUS
<1> HIDE DEF r
<1>2. ASSUME NoneOf(q, kind) PROVE Head(q).kind # kind /\ NoneOf(r, kind)
  BY <1>1, <1>2 DEF NoneOf
<1>3. ASSUME LastShows(q, kind, v)
      PROVE  \/ LastShows(r, kind, v)
             \/ NoneOf(r, kind) /\ Head(q).kind = kind /\ Head(q).version = v
  <2>1. PICK i \in 1 .. n : /\ q[i].kind = kind /\ q[i].version = v
                            /\ \A j \in 1 .. n : j > i => q[j].kind # kind
    BY <1>3 DEF LastShows
  <2> HIDE DEF n
  <2>2. CASE i = 1
    BY <1>1, <2>1, <2>2 DEF NoneOf
  <2>3. CASE i # 1
    <3>1. i - 1 \in 1 .. Len(r) /\ (i - 1) + 1 = i
      BY <1>1, <2>3
    <3>2. r[i - 1] = q[i]
      BY <1>1, <3>1
    <3>3. \A j \in 1 .. Len(r) : j > i - 1 => r[j].kind # kind
      BY <1>1, <2>1, SMTT(30)
    <3> QED
      BY <2>1, <3>1, <3>2, <3>3 DEF LastShows
  <2> QED
    BY <2>2, <2>3
<1> QED
  BY <1>2, <1>3 DEF r

\* A step that takes nothing from c and makes no other version the present one, unless
\* it is about to be broadcast.
LEMMA ToldSame ==
  ASSUME NEW c \in Clients, NEW kind, Told(c, kind),
         conn'[c].room = conn[c].room, conn'[c].role = conn[c].role, conn'[c].todo = conn[c].todo,
         conn'[c].pc \in {"greeting", "served"} => conn[c].pc \in {"greeting", "served"},
         conn'[c].pc = "collecting" => conn[c].pc = "collecting",
         chan'[c] = chan[c], shown'[c] = shown[c],
         ~Pending(conn[c].room, kind)' =>
           ~Pending(conn[c].room, kind) /\ version'[conn[c].room][kind] = version[conn[c].room][kind]
  PROVE  Told(c, kind)'
<1> SUFFICES ASSUME conn'[c].pc \in {"collecting", "greeting", "served"}, kind \in Collected(c)',
                    ~Pending(conn[c].room, kind)'
             PROVE  WillShow(c, kind)'
  BY DEF Told, Pending
<1>1. kind \in Collected(c)
  BY DEF Collected, Rendered
<1>2. WillShow(c, kind)
  BY <1>1 DEF Told
<1> QED
  BY <1>2 DEF WillShow

\* A step that publishes nothing and makes no connection.
LEMMA OrderlySame ==
  ASSUME NEW room \in Rooms, NEW kind \in Kinds, Orderly(room, kind), UNCHANGED <<pub, version>>,
         Connecting(room)' => Connecting(room)
  PROVE  Orderly(room, kind)'
BY DEF Orderly, Pending

LEMMA PendingSame ==
  ASSUME UNCHANGED pub, NEW room, NEW kind
  PROVE  Pending(room, kind)' = Pending(room, kind)
BY DEF Pending

\* A step of connections whose rooms were made before.
LEMMA ServedStep ==
  ASSUME IInv, Uncrossed, UNCHANGED managerVars, clients' \subseteq clients,
         \A c \in Clients :
           /\ conn'[c].room = conn[c].room /\ conn'[c].role = conn[c].role
           /\ conn'[c].pc \in {"registered", "collecting", "greeting"} =>
                conn[c].pc \in {"registered", "collecting", "greeting"},
         Greeted',
         \A c \in clients' :
           \/ \A kind \in Kinds : Told(c, kind)'
           \/ /\ conn'[c].todo = conn[c].todo /\ chan'[c] = chan[c] /\ shown'[c] = shown[c]
              /\ conn'[c].pc \in {"greeting", "served"} => conn[c].pc \in {"greeting", "served"}
              /\ conn'[c].pc = "collecting" => conn[c].pc = "collecting"
  PROVE  Uncrossed'
<1>1. UNCHANGED <<version, pub, crossed>>
  BY DEF managerVars
<1>2. ASSUME NEW room \in Rooms, NEW kind \in Kinds, <<room, kind>> \notin crossed'
      PROVE  Orderly(room, kind)'
  <2>1. Connecting(room)' => Connecting(room)
    BY DEF Connecting
  <2> QED
    BY <1>1, <1>2, <2>1, OrderlySame DEF Uncrossed
<1>3. ASSUME NEW c \in clients', NEW kind \in Kinds, <<conn'[c].room, kind>> \notin crossed'
      PROVE  Told(c, kind)'
  <2>1. c \in clients /\ c \in Clients /\ <<conn[c].room, kind>> \notin crossed
    BY <1>1, <1>3 DEF IInv, TypeOK
  <2>2. Told(c, kind)
    BY <2>1 DEF Uncrossed
  <2> QED
    BY <1>1, <2>1, <2>2, ToldSame, PendingSame
<1> QED
  BY <1>2, <1>3 DEF Uncrossed

LEMMA PumpSettles ==
  ASSUME IInv, Uncrossed, UNCHANGED managerVars, clients' \subseteq clients,
         UNCHANGED <<conn, chan, shown>>
  PROVE  Uncrossed'
<1>1. Greeted'
  BY DEF Uncrossed, Greeted
<1> QED
  BY <1>1, ServedStep DEF IInv, TypeOK

LEMMA StartPumpsSettles ==
  ASSUME IInv, Uncrossed, NEW c \in Clients, StartPumps(c)
  PROVE  Uncrossed'
<1>1. /\ conn[c].pc = "greeting" /\ conn[c].todo = << >> /\ conn \in [Clients -> ConnType]
      /\ conn' = [conn EXCEPT ![c].pc = "served"]
      /\ UNCHANGED <<managerVars, clients, chan, shown>>
  BY DEF StartPumps, IInv, TypeOK, ConnType
<1>2. \A d \in Clients :
        /\ conn'[d].room = conn[d].room /\ conn'[d].role = conn[d].role /\ conn'[d].todo = conn[d].todo
        /\ d # c => conn'[d].pc = conn[d].pc
  BY <1>1 DEF ConnType
<1>3. Greeted'
  BY <1>1, <1>2 DEF Uncrossed, Greeted
<1>4. conn'[c].pc = "served"
  BY <1>1 DEF ConnType
<1>5. \A d \in clients' : d \in Clients
  BY <1>1 DEF IInv, TypeOK
<1> QED
  BY <1>1, <1>2, <1>3, <1>4, <1>5, ServedStep

LEMMA CollectStateSettles ==
  ASSUME IInv, Uncrossed, NEW c \in Clients, CollectState(c)
  PROVE  Uncrossed'
<1> DEFINE room == conn[c].room
           state == Message(room, "state", version[room].state, TRUE)
           pc == IF conn[c].role = "admin" THEN "collecting" ELSE "greeting"
<1>1. /\ conn \in [Clients -> ConnType] /\ conn[c].pc = "registered"
      /\ conn' = [conn EXCEPT ![c].pc = pc, ![c].todo = <<state>>]
      /\ UNCHANGED <<managerVars, clients, chan, shown>>
  BY DEF CollectState, IInv, TypeOK, ConnType, socketVars
<1>2. /\ conn'[c].pc = pc /\ conn'[c].todo = <<state>>
      /\ conn'[c].room = room /\ conn'[c].role = conn[c].role
      /\ \A d \in Clients \ {c} : conn'[d] = conn[d]
  BY <1>1 DEF ConnType
<1>3. UNCHANGED version
  BY <1>1 DEF managerVars
<1>4. LastShows(<<state>>, "state", version[room].state)
  BY DEF LastShows, Message
<1> HIDE DEF state
<1>5. Collected(c)' = {"state"}
  BY <1>2 DEF Collected, Rendered
<1>6. \A kind \in Kinds : Told(c, kind)'
  BY <1>2, <1>3, <1>4, <1>5 DEF Told, WillShow
<1>7. Greeted' /\ \A d \in clients' : d \in Clients
  BY <1>1, <1>2 DEF Uncrossed, Greeted, IInv, TypeOK
<1>8. \A d \in Clients : /\ conn'[d].room = conn[d].room /\ conn'[d].role = conn[d].role
                         /\ d # c => conn'[d] = conn[d]
  BY <1>2
<1> QED
  BY <1>1, <1>6, <1>7, <1>8, ServedStep

LEMMA CollectStatusSettles ==
  ASSUME IInv, Uncrossed, NEW c \in Clients, CollectStatus(c)
  PROVE  Uncrossed'
<1> DEFINE room == conn[c].room
           session == Message(room, "session", version[room].session, TRUE)
           todo == conn[c].todo
<1>1. /\ conn \in [Clients -> ConnType] /\ conn[c].pc = "collecting" /\ room \in Rooms
      /\ todo \in Seq(Broadcasts) /\ version[room] \in [Kinds -> Nat] /\ clients \subseteq Clients
      /\ conn' = [conn EXCEPT ![c].pc = "greeting", ![c].todo = Append(todo, session)]
      /\ UNCHANGED <<managerVars, clients, chan, shown>>
  BY DEF CollectStatus, IInv, TypeOK, ConnType, socketVars, Aimed
<1>2. /\ conn'[c].pc = "greeting" /\ conn'[c].todo = Append(todo, session)
      /\ conn'[c].room = room /\ conn'[c].role = conn[c].role
      /\ \A d \in Clients \ {c} : conn'[d] = conn[d]
  BY <1>1 DEF ConnType
<1>3. UNCHANGED <<version, chan, shown>> /\ UNCHANGED <<pub, crossed>>
  BY <1>1 DEF managerVars
<1>4. /\ session \in Broadcasts /\ session.kind = "session"
      /\ session.version = version[room].session /\ version[room].session \in Nat
  <2>1. version[room].session \in Nat
    BY <1>1 DEF Kinds
  <2> QED
    BY <1>1, <2>1 DEF Message, Broadcasts, Kinds
<1> HIDE DEF session
<1>5. LastShows(Append(todo, session), "session", version[room].session)
  <2>1. Brings(Append(todo, session), "session", version[room].session, version[room].session + 1)
    BY <1>1, <1>4, AppendShows
  <2> QED
    BY <1>4, <2>1 DEF Brings
<1>6. ASSUME c \in clients, NEW kind \in Kinds, <<room, kind>> \notin crossed
      PROVE  Told(c, kind)'
  <2> SUFFICES ASSUME kind \in Rendered(c), ~Pending(room, kind) PROVE WillShow(c, kind)'
    BY <1>2, <1>3, PendingSame DEF Told, Collected, Rendered
  <2> DEFINE v == version[room][kind]
             behind == Brings(chan[c], kind, v, shown[c][kind])
  <2>1. CASE kind = "session"
    BY <1>2, <1>3, <1>5, <2>1 DEF WillShow
  <2>2. CASE kind = "state"
    <3>1. WillShow(c, kind)
      BY <1>1, <1>6, <2>2 DEF Uncrossed, Told, Collected
    <3>2. LastShows(todo, kind, v) \/ (NoneOf(todo, kind) /\ behind)
      BY <3>1 DEF WillShow
    <3>3. LastShows(Append(todo, session), kind, v) \/ (NoneOf(Append(todo, session), kind) /\ behind)
      BY <1>1, <1>4, <2>2, <3>2, AppendKeeps
    <3> QED
      BY <1>2, <1>3, <3>3 DEF WillShow
  <2> QED
    BY <2>1, <2>2 DEF Rendered
<1>7. ASSUME NEW other \in Rooms, NEW kind \in Kinds, <<other, kind>> \notin crossed'
      PROVE  Orderly(other, kind)'
  <2>1. Connecting(other)' => Connecting(other)
    BY <1>1, <1>2 DEF Connecting
  <2> QED
    BY <1>3, <1>7, <2>1, OrderlySame DEF Uncrossed
<1>8. ASSUME NEW d \in clients', NEW kind \in Kinds,
             <<conn'[d].room, kind>> \notin crossed'
      PROVE  Told(d, kind)'
  <2>1. CASE d = c
    BY <1>1, <1>2, <1>3, <1>6, <1>8, <2>1
  <2>2. CASE d # c
    BY <1>1, <1>2, <1>3, <1>8, <2>2, ToldSame, PendingSame DEF Uncrossed
  <2> QED
    BY <2>1, <2>2
<1>9. Greeted'
  BY <1>2 DEF Uncrossed, Greeted
<1> QED
  BY <1>7, <1>8, <1>9 DEF Uncrossed

LEMMA GreetSettles ==
  ASSUME IInv, Uncrossed, NEW c \in Clients, Greet(c)
  PROVE  Uncrossed'
<1>1. /\ conn[c].pc = "greeting" /\ conn[c].todo # << >> /\ conn \in [Clients -> ConnType]
      /\ chan \in [Clients -> Seq(Broadcasts)] /\ conn[c].todo \in Seq(Broadcasts)
      /\ clients \subseteq Clients
      /\ UNCHANGED <<managerVars, clients, shown>>
  BY DEF Greet, socketVars, IInv, TypeOK, ConnType
<1>2. CASE chan' = [chan EXCEPT ![c] = Append(@, Head(conn[c].todo))]
           /\ conn' = [conn EXCEPT ![c].todo = Tail(@)]
  <2> DEFINE todo == conn[c].todo
             m == Head(todo)
  <2>1. /\ \A d \in Clients : /\ conn'[d].room = conn[d].room /\ conn'[d].role = conn[d].role
                              /\ conn'[d].pc = conn[d].pc
                              /\ d # c => conn'[d] = conn[d] /\ chan'[d] = chan[d]
        /\ conn'[c].todo = Tail(todo) /\ chan'[c] = Append(chan[c], m) /\ chan[c] \in Seq(Broadcasts)
    BY <1>1, <1>2 DEF ConnType
  <2>2. m \in Broadcasts /\ todo \in Seq(Broadcasts) /\ todo # << >>
    BY <1>1
  <2>3. Greeted'
    BY <1>1, <2>1 DEF Uncrossed, Greeted
  <2>4. ASSUME c \in clients, NEW kind \in Kinds, <<conn[c].room, kind>> \notin crossed
        PROVE  Told(c, kind)'
    <3> SUFFICES ASSUME kind \in Rendered(c), ~Pending(conn[c].room, kind)
                 PROVE  WillShow(c, kind)'
      BY <1>1, <2>1, PendingSame DEF Told, Collected, Rendered, managerVars
    <3> DEFINE v == version[conn[c].room][kind]
               was == shown[c][kind]
    <3>1. WillShow(c, kind)
      BY <1>1, <2>4 DEF Uncrossed, Told, Collected
    <3>2. LastShows(todo, kind, v) \/ (NoneOf(todo, kind) /\ Brings(chan[c], kind, v, was))
      BY <3>1 DEF WillShow
    <3> HIDE DEF m, todo, v, was
    <3>3. LastShows(Tail(todo), kind, v)
          \/ (NoneOf(Tail(todo), kind) /\ Brings(Append(chan[c], m), kind, v, was))
      BY <2>1, <2>2, <3>2, AppendShows, TailShows DEF m
    <3>4. version' = version /\ shown' = shown
      BY <1>1 DEF managerVars
    <3> QED
      BY <2>1, <3>3, <3>4 DEF WillShow, v, was
  <2>5. ASSUME NEW d \in clients', NEW kind \in Kinds,
               <<conn'[d].room, kind>> \notin crossed', d # c
        PROVE  Told(d, kind)'
    BY <1>1, <2>1, <2>5, ToldSame, PendingSame DEF Uncrossed, managerVars
  <2>6. ASSUME NEW room \in Rooms, NEW kind \in Kinds, <<room, kind>> \notin crossed'
        PROVE  Orderly(room, kind)'
    BY <1>1, <2>1, <2>6, OrderlySame DEF Uncrossed, Connecting, managerVars
  <2>7. ASSUME NEW d \in clients', NEW kind \in Kinds,
               <<conn'[d].room, kind>> \notin crossed'
        PROVE  Told(d, kind)'
    BY <1>1, <2>1, <2>4, <2>5, <2>7 DEF managerVars
  <2> QED
    BY <2>3, <2>6, <2>7 DEF Uncrossed
<1>3. CASE conn' = [conn EXCEPT ![c].pc = "panicked"] /\ UNCHANGED chan
  <2>1. \A d \in Clients : /\ conn'[d].room = conn[d].room /\ conn'[d].role = conn[d].role
                           /\ conn'[d].todo = conn[d].todo
                           /\ d # c => conn'[d].pc = conn[d].pc
    BY <1>1, <1>3 DEF ConnType
  <2>2. conn'[c].pc = "panicked"
    BY <1>1, <1>3 DEF ConnType
  <2>3. Greeted'
    BY <2>1, <2>2 DEF Uncrossed, Greeted
  <2> QED
    BY <1>1, <1>3, <2>1, <2>2, <2>3, ServedStep
<1> QED
  BY <1>2, <1>3 DEF Greet

LEMMA WriteSettles ==
  ASSUME IInv, Uncrossed, NEW c \in Clients, Write(c)
  PROVE  Uncrossed'
<1> DEFINE m == Head(chan[c])
<1>1. /\ chan[c] # << >> /\ chan \in [Clients -> Seq(Broadcasts)]
      /\ chan' = [chan EXCEPT ![c] = Tail(@)] /\ clients \subseteq Clients
      /\ shown \in [Clients -> [Kinds -> Nat]]
      /\ UNCHANGED <<managerVars, clients, conn>>
  BY DEF Write, IInv, TypeOK
<1>2. shown' = IF m.kind = "state" \/ conn[c].role = "admin"
               THEN [shown EXCEPT ![c][m.kind] = m.version] ELSE shown
  BY DEF Write
<1>3. m \in Broadcasts /\ m.kind \in Kinds /\ chan[c] \in Seq(Broadcasts)
  <2>1. m \in Broadcasts /\ chan[c] \in Seq(Broadcasts)
    BY <1>1
  <2> QED
    BY <2>1 DEF Broadcasts
<1>4. chan'[c] = Tail(chan[c]) /\ \A d \in Clients \ {c} : chan'[d] = chan[d] /\ shown'[d] = shown[d]
  BY <1>1, <1>2
<1>5. \A kind \in Rendered(c) : shown'[c][kind] = IF m.kind = kind THEN m.version ELSE shown[c][kind]
  BY <1>1, <1>2, <1>3 DEF Rendered, Kinds
<1> HIDE DEF m
<1>6. Greeted'
  BY <1>1 DEF Uncrossed, Greeted
<1>7. ASSUME c \in clients, NEW kind \in Kinds, <<conn[c].room, kind>> \notin crossed
      PROVE  Told(c, kind)'
  <2> SUFFICES ASSUME conn[c].pc \in {"collecting", "greeting", "served"},
                      kind \in Collected(c), ~Pending(conn[c].room, kind)
               PROVE  WillShow(c, kind)'
    BY <1>1, PendingSame DEF Told, Collected, Rendered, managerVars
  <2> DEFINE v == version[conn[c].room][kind]
             todo == conn[c].todo
  <2>1. WillShow(c, kind)
    BY <1>7 DEF Uncrossed, Told
  <2>2. LastShows(todo, kind, v) \/ (NoneOf(todo, kind) /\ Brings(chan[c], kind, v, shown[c][kind]))
    BY <2>1 DEF WillShow
  <2> HIDE DEF v, todo
  <2>3. Brings(chan[c], kind, v, shown[c][kind]) => Brings(chan'[c], kind, v, shown'[c][kind])
    BY <1>1, <1>3, <1>4, <1>5, TailShows DEF Brings, m, Collected, Rendered
  <2>4. version' = version /\ conn' = conn
    BY <1>1 DEF managerVars
  <2> QED
    BY <2>2, <2>3, <2>4 DEF WillShow, v, todo
<1>8. ASSUME NEW room \in Rooms, NEW kind \in Kinds, <<room, kind>> \notin crossed'
      PROVE  Orderly(room, kind)'
  BY <1>1, <1>8, OrderlySame DEF Uncrossed, Connecting, managerVars
<1>9. ASSUME NEW d \in clients', NEW kind \in Kinds,
             <<conn'[d].room, kind>> \notin crossed', d # c
      PROVE  Told(d, kind)'
  BY <1>1, <1>4, <1>9, ToldSame, PendingSame DEF Uncrossed, managerVars
<1>10. ASSUME NEW d \in clients', NEW kind \in Kinds,
             <<conn'[d].room, kind>> \notin crossed'
      PROVE  Told(d, kind)'
  BY <1>1, <1>7, <1>9, <1>10 DEF managerVars
<1> QED
  BY <1>6, <1>8, <1>10 DEF Uncrossed

LEMMA RegisterSettles ==
  ASSUME IInv, Uncrossed, NEW c \in Clients, NEW room \in Rooms, NEW role \in Roles,
         Register(c, room, role)
  PROVE  Uncrossed'
<1> DEFINE r == [pc |-> "registered", room |-> room, role |-> role, todo |-> << >>]
<1>1. /\ conn[c].pc = "off" /\ conn \in [Clients -> ConnType]
      /\ conn' = [conn EXCEPT ![c] = r] /\ clients' = clients \cup {c} /\ clients \subseteq Clients
      /\ UNCHANGED <<version, pub, chan, shown>>
  BY DEF Register, socketVars, IInv, TypeOK, ConnType
<1>2. /\ conn'[c].pc = "registered" /\ conn'[c].room = room
      /\ \A d \in Clients \ {c} : conn'[d] = conn[d]
  BY <1>1
<1> HIDE DEF r
<1>3. \A other \in Rooms, kind \in Kinds : <<other, kind>> \notin crossed' =>
        <<other, kind>> \notin crossed /\ (other = room => ~Pending(room, kind))
  BY DEF Register
<1>4. Greeted'
  BY <1>2 DEF Uncrossed, Greeted
<1>5. ASSUME NEW other \in Rooms, NEW kind \in Kinds, <<other, kind>> \notin crossed'
      PROVE  Orderly(other, kind)'
  <2>1. Orderly(other, kind)
    BY <1>3, <1>5 DEF Uncrossed
  <2>2. CASE other # room
    <3>1. Connecting(other)' => Connecting(other)
      BY <1>2, <2>2 DEF Connecting
    <3> QED
      BY <1>1, <2>1, <3>1, OrderlySame
  <2>3. CASE other = room
    <3>1. ~Pending(other, kind)'
      BY <1>1, <1>3, <1>5, <2>3, PendingSame
    <3> QED
      BY <1>1, <2>1, <3>1 DEF Orderly
  <2> QED
    BY <2>2, <2>3
<1>6. ASSUME NEW d \in clients', NEW kind \in Kinds, <<conn'[d].room, kind>> \notin crossed'
      PROVE  Told(d, kind)'
  <2>1. CASE d = c
    BY <1>2, <2>1 DEF Told
  <2>2. CASE d # c
    <3>1. d \in clients /\ d \in Clients /\ conn'[d] = conn[d]
      BY <1>1, <1>2, <2>2
    <3>2. conn[d].room \in Rooms
      BY <3>1 DEF IInv, Aimed, Untouched
    <3>3. Told(d, kind)
      BY <1>3, <1>6, <3>1, <3>2 DEF Uncrossed
    <3> QED
      BY <1>1, <3>1, <3>3, ToldSame, PendingSame
  <2> QED
    BY <2>1, <2>2
<1> QED
  BY <1>4, <1>5, <1>6 DEF Uncrossed

\* A change that is made alone restores the order of its kind: its broadcast will be
\* the last, with the present version.
LEMMA ChangeSettles ==
  ASSUME IInv, Uncrossed, NEW p \in Publishers, NEW room \in Rooms, NEW kind \in Kinds,
         Change(p, room, kind)
  PROVE  Uncrossed'
<1> DEFINE r == [pc |-> IF kind = "state" THEN "ready" ELSE "changed", room |-> room,
                 kind |-> kind, version |-> version[room][kind] + 1]
<1>1. /\ pub[p].pc = "idle" /\ pub \in [Publishers -> PubType]
      /\ version \in [Rooms -> [Kinds -> Nat]] /\ clients \subseteq Clients
      /\ pub' = [pub EXCEPT ![p] = r] /\ version' = [version EXCEPT ![room][kind] = @ + 1]
      /\ UNCHANGED <<clients, conn, chan, shown>>
  BY DEF Change, socketVars, IInv, TypeOK, PubType
<1>2. /\ pub'[p].pc # "idle" /\ pub'[p].room = room /\ pub'[p].kind = kind
      /\ pub'[p].version = version[room][kind] + 1
      /\ \A q \in Publishers \ {p} : pub'[q] = pub[q]
  BY <1>1
<1> HIDE DEF r
<1>3. /\ version'[room][kind] = version[room][kind] + 1
      /\ \A other \in Rooms, k \in Kinds :
           <<other, k>> # <<room, kind>> => version'[other][k] = version[other][k]
  BY <1>1
<1>4. /\ <<room, kind>> \notin crossed' => ~Pending(room, kind) /\ ~Connecting(room)
      /\ \A other \in Rooms, k \in Kinds :
           <<other, k>> # <<room, kind>> /\ <<other, k>> \notin crossed' => <<other, k>> \notin crossed
  BY DEF Change
<1>5. Greeted'
  BY <1>1 DEF Uncrossed, Greeted
<1>6. ASSUME NEW other \in Rooms, NEW k \in Kinds, <<other, k>> \notin crossed'
      PROVE  Orderly(other, k)'
  <2>1. Connecting(other)' <=> Connecting(other)
    BY <1>1 DEF Connecting
  <2>2. CASE <<other, k>> # <<room, kind>>
    <3>1. Orderly(other, k)
      BY <1>4, <1>6, <2>2 DEF Uncrossed
    <3>2. \A q \in Publishers : pub'[q].pc # "idle" /\ pub'[q].room = other /\ pub'[q].kind = k =>
            /\ q # p /\ pub[q].pc # "idle" /\ pub[q].room = other /\ pub[q].kind = k
            /\ pub'[q] = pub[q]
      BY <1>2, <2>2
    <3>3. version'[other][k] = version[other][k]
      BY <1>3, <2>2
    <3>4. Pending(other, k)' => Pending(other, k)
      BY <3>2 DEF Pending
    <3> QED
      BY <2>1, <3>1, <3>2, <3>3, <3>4 DEF Orderly
  <2>3. CASE other = room /\ k = kind
    <3>1. ~Pending(room, kind) /\ ~Connecting(room)'
      BY <1>4, <1>6, <2>1, <2>3
    <3>2. \A q \in Publishers :
            pub'[q].pc # "idle" /\ pub'[q].room = room /\ pub'[q].kind = kind => q = p
      BY <1>2, <3>1 DEF Pending
    <3>3. pub'[p].version = version'[room][kind]
      BY <1>2, <1>3
    <3> QED
      BY <2>3, <3>1, <3>2, <3>3 DEF Orderly
  <2> QED
    BY <2>2, <2>3
<1>7. ASSUME NEW c \in clients', NEW k \in Kinds, <<conn'[c].room, k>> \notin crossed'
      PROVE  Told(c, k)'
  <2>1. c \in clients /\ c \in Clients /\ conn[c].room \in Rooms /\ conn' = conn
    BY <1>1 DEF IInv, Aimed, Untouched
  <2>2. CASE <<conn[c].room, k>> = <<room, kind>>
    <3>1. Pending(room, kind)' /\ conn'[c].room = room /\ k = kind
      BY <1>2, <2>1, <2>2 DEF Pending
    <3> QED
      BY <3>1 DEF Told
  <2>3. CASE <<conn[c].room, k>> # <<room, kind>>
    <3>1. Told(c, k)
      BY <1>4, <1>7, <2>1, <2>3 DEF Uncrossed
    <3>2. ~Pending(conn[c].room, k)' => ~Pending(conn[c].room, k)
      BY <1>1, <1>2 DEF Pending
    <3>3. version'[conn[c].room][k] = version[conn[c].room][k]
      BY <1>3, <2>1, <2>3
    <3> QED
      BY <1>1, <2>1, <3>1, <3>2, <3>3, ToldSame
  <2> QED
    BY <2>2, <2>3
<1> QED
  BY <1>5, <1>6, <1>7 DEF Uncrossed

LEMMA ReadStatusSettles ==
  ASSUME IInv, Uncrossed, NEW p \in Publishers, ReadStatus(p)
  PROVE  Uncrossed'
<1>1. /\ pub \in [Publishers -> PubType] /\ pub[p].pc = "changed" /\ clients \subseteq Clients
      /\ pub' = [pub EXCEPT ![p].pc = "ready", ![p].version = version[pub[p].room][pub[p].kind]]
      /\ UNCHANGED <<version, crossed, clients, conn, chan, shown>>
  BY DEF ReadStatus, socketVars, IInv, TypeOK, PubType
<1>2. \A q \in Publishers : /\ pub'[q].room = pub[q].room /\ pub'[q].kind = pub[q].kind
                            /\ pub'[q].pc = "idle" <=> pub[q].pc = "idle"
                            /\ \/ pub'[q].version = pub[q].version
                               \/ pub'[q].version = version[pub[q].room][pub[q].kind]
  BY <1>1 DEF PubType
<1>3. Greeted'
  BY <1>1 DEF Uncrossed, Greeted
<1>4. ASSUME NEW room \in Rooms, NEW kind \in Kinds, <<room, kind>> \notin crossed'
      PROVE  Orderly(room, kind)'
  <2>1. Orderly(room, kind)
    BY <1>1, <1>4 DEF Uncrossed
  <2>2. Connecting(room)' <=> Connecting(room)
    BY <1>1 DEF Connecting
  <2>3. Pending(room, kind)' <=> Pending(room, kind)
    BY <1>2 DEF Pending
  <2> QED
    BY <1>1, <1>2, <2>1, <2>2, <2>3 DEF Orderly
<1>5. ASSUME NEW c \in clients', NEW kind \in Kinds,
             <<conn'[c].room, kind>> \notin crossed'
      PROVE  Told(c, kind)'
  <2>1. Pending(conn[c].room, kind)' <=> Pending(conn[c].room, kind)
    BY <1>1, <1>2 DEF Pending
  <2>2. c \in Clients /\ Told(c, kind)
    BY <1>1, <1>5 DEF Uncrossed
  <2> QED
    BY <1>1, <2>1, <2>2, ToldSame
<1> QED
  BY <1>3, <1>4, <1>5 DEF Uncrossed

LEMMA BroadcastSettles ==
  ASSUME IInv, Uncrossed, NEW p \in Publishers, Broadcast(p)
  PROVE  Uncrossed'
<1>0. PICK room \in Rooms : room = pub[p].room
  BY DEF Broadcast, IInv, TypeOK, Aimed
<1> DEFINE m == Message(room, pub[p].kind, pub[p].version, FALSE)
           full == Full(Members(room))
<1>1. /\ pub \in [Publishers -> PubType] /\ pub[p].pc = "ready"
      /\ chan \in [Clients -> Seq(Broadcasts)] /\ clients \subseteq Clients
      /\ pub' = [pub EXCEPT ![p] = NothingToPublish]
      /\ UNCHANGED <<version, crossed, conn, shown>>
  BY DEF Broadcast, socketVars, IInv, TypeOK, PubType
<1>2. m \in Broadcasts /\ m.kind = pub[p].kind /\ m.version = pub[p].version /\ m.room = room
  BY <1>0, <1>1 DEF Message, Broadcasts, PubType
<1>3. Deliver(Members(m.room), m)
  BY <1>0 DEF Broadcast
<1> HIDE DEF m
<1>4. /\ clients' = clients \ full
      /\ chan' = [c \in Clients |-> IF c \in Members(room) \ full THEN Append(chan[c], m) ELSE chan[c]]
  BY <1>2, <1>3 DEF Deliver, Queued
<1> HIDE DEF full
<1>5. /\ pub'[p].pc = "idle" /\ \A q \in Publishers \ {p} : pub'[q] = pub[q]
  BY <1>1 DEF NothingToPublish
<1>6. Greeted'
  BY <1>1 DEF Uncrossed, Greeted
<1>7. ASSUME NEW other \in Rooms, NEW kind \in Kinds, <<other, kind>> \notin crossed'
      PROVE  Orderly(other, kind)'
  <2>1. Orderly(other, kind)
    BY <1>1, <1>7 DEF Uncrossed
  <2>2. Connecting(other)' <=> Connecting(other)
    BY <1>1 DEF Connecting
  <2>3. \A q \in Publishers : pub'[q].pc # "idle" => q # p /\ pub'[q] = pub[q]
    BY <1>5
  <2>4. Pending(other, kind)' => Pending(other, kind)
    BY <2>3 DEF Pending
  <2> QED
    BY <1>1, <2>1, <2>2, <2>3, <2>4 DEF Orderly
<1>8. ASSUME NEW c \in clients', NEW kind \in Kinds, <<conn'[c].room, kind>> \notin crossed'
      PROVE  Told(c, kind)'
  <2>1. /\ c \in clients /\ c \in Clients /\ c \notin full /\ conn[c].room \in Rooms
        /\ <<conn[c].room, kind>> \notin crossed /\ Told(c, kind)
    BY <1>1, <1>4, <1>8 DEF Uncrossed, IInv, Aimed, Untouched
  <2>2. CASE conn[c].room # room
    <3>1. chan'[c] = chan[c]
      BY <1>4, <2>1, <2>2 DEF Members
    <3>2. ~Pending(conn[c].room, kind)' => ~Pending(conn[c].room, kind)
      BY <1>0, <1>1, <1>5, <2>2 DEF Pending
    <3> QED
      BY <1>1, <2>1, <3>1, <3>2, ToldSame
  <2>3. CASE conn[c].room = room
    <3> DEFINE v == version[room][kind]
               todo == conn[c].todo
    <3>1. chan'[c] = Append(chan[c], m) /\ chan[c] \in Seq(Broadcasts)
      BY <1>1, <1>4, <2>1, <2>3 DEF Members
    <3> SUFFICES ASSUME conn[c].pc \in {"collecting", "greeting", "served"},
                        kind \in Collected(c), ~Pending(room, kind)'
                 PROVE  WillShow(c, kind)'
      BY <1>1, <2>3 DEF Told, Collected, Rendered, Pending
    <3>2. LastShows(todo, kind, v)
          \/ (NoneOf(todo, kind) /\ Brings(Append(chan[c], m), kind, v, shown[c][kind]))
      <4>1. CASE m.kind = kind
        <5>1. Orderly(room, kind) /\ Pending(room, kind)
          BY <1>0, <1>1, <1>2, <2>1, <2>3, <4>1 DEF Uncrossed, Pending
        <5>2. m.version = v /\ conn[c].pc = "served"
          BY <1>0, <1>1, <1>2, <2>1, <2>3, <4>1, <5>1 DEF Orderly, Connecting
        <5>3. todo = << >>
          BY <2>1, <5>2 DEF Uncrossed, Greeted
        <5>4. NoneOf(todo, kind)
          BY <5>3 DEF NoneOf
        <5>5. Brings(Append(chan[c], m), kind, v, shown[c][kind])
          BY <1>2, <3>1, <4>1, <5>2, AppendShows
        <5> QED
          BY <5>4, <5>5
      <4>2. CASE m.kind # kind
        <5>1. ~Pending(room, kind)
          BY <1>2, <1>5, <4>2 DEF Pending
        <5>2. WillShow(c, kind)
          BY <2>1, <2>3, <5>1 DEF Told
        <5>3. LastShows(todo, kind, v)
              \/ (NoneOf(todo, kind) /\ Brings(chan[c], kind, v, shown[c][kind]))
          BY <2>3, <5>2 DEF WillShow
        <5> HIDE DEF todo, v
        <5> QED
          BY <1>2, <3>1, <4>2, <5>3, AppendShows
      <4> QED
        BY <4>1, <4>2
    <3> QED
      BY <1>1, <2>3, <3>1, <3>2 DEF WillShow
  <2> QED
    BY <2>2, <2>3
<1> QED
  BY <1>6, <1>7, <1>8 DEF Uncrossed

LEMMA NextSettles == IInv /\ Uncrossed /\ [Next]_vars => Uncrossed'
<1> SUFFICES ASSUME IInv, Uncrossed, [Next]_vars PROVE Uncrossed'
  OBVIOUS
<1>1. ASSUME NEW c \in Clients, WriteClose(c) \/ WriteFails(c) \/ Finalize(c) \/ ReadFails(c)
      PROVE  Uncrossed'
  BY <1>1, PumpSettles DEF WriteClose, WriteFails, Finalize, ReadFails, Remove
<1>2. CASE UNCHANGED vars
  BY <1>2, PumpSettles DEF vars, managerVars
<1> QED
  BY <1>1, <1>2, ChangeSettles, ReadStatusSettles, BroadcastSettles, RegisterSettles,
     CollectStateSettles, CollectStatusSettles, GreetSettles, StartPumpsSettles, WriteSettles
  DEF Next, Publish, ServeWS, WritePump

LEMMA InitSettles == Init => Uncrossed
<1> SUFFICES ASSUME Init PROVE Uncrossed
  OBVIOUS
<1>1. /\ \A p \in Publishers : pub[p].pc = "idle"
      /\ \A c \in Clients : conn[c].pc = "off"
      /\ clients = {}
  BY DEF Init, NothingToPublish, Unconnected
<1>2. Greeted
  BY <1>1 DEF Greeted
<1>3. \A room \in Rooms, kind \in Kinds : Orderly(room, kind)
  BY <1>1 DEF Orderly, Connecting
<1> QED
  BY <1>1, <1>2, <1>3 DEF Uncrossed

LEMMA SettledShows == IInv /\ Uncrossed => CurrentWhenSettled
<1> SUFFICES ASSUME IInv, Uncrossed, NEW c \in clients, NEW kind \in Rendered(c),
                    Settled(c, kind), <<conn[c].room, kind>> \notin crossed
             PROVE  shown[c][kind] = version[conn[c].room][kind]
  BY DEF CurrentWhenSettled
<1>1. /\ conn[c].pc = "served" /\ conn[c].todo = << >> /\ chan[c] = << >>
      /\ c \in Clients /\ kind \in Kinds
  BY DEF Settled, Uncrossed, Greeted, IInv, TypeOK, Rendered, Kinds
<1>2. Told(c, kind) /\ ~Pending(conn[c].room, kind)
  BY <1>1 DEF Settled, Uncrossed
<1>3. NoneOf(<< >>, kind) /\ \A v : ~LastShows(<< >>, kind, v)
  BY DEF NoneOf, LastShows
<1>4. WillShow(c, kind)
  BY <1>1, <1>2 DEF Told, Collected
<1> QED
  BY <1>1, <1>3, <1>4 DEF WillShow, Brings

-----------------------------------------------------------------------------
\* Theorems.

THEOREM Invariance == Spec => []IInv
BY InitIInv, NextKeeps, PTL DEF Spec

\* The hub keeps its types, and no channel holds more than its capacity.
THEOREM TypeCorrect == Spec => []TypeOK
<1>1. IInv => TypeOK
  BY DEF IInv
<1> QED
  BY <1>1, Invariance, PTL

\* A registered client's channel is open and a dropped one's was closed once, so
\* BroadcastTo and remove never panic (hub.go:76 and hub.go:120).
THEOREM ChannelSafety == Spec => []OpenWhileRegistered
<1>1. IInv => OpenWhileRegistered
  BY DEF IInv
<1> QED
  BY <1>1, Invariance, PTL

\* A client gets the broadcasts of its room, each once and in the order they were
\* made, from its registration until it is dropped, whatever connects, fails and
\* is dropped meanwhile (hub.go:66).
THEOREM Ordered == Spec => []EveryBroadcastInOrder
BY Invariance, InitOrder, NextOrder, OrderKept, PTL DEF Spec

\* Every page that has settled shows the present version of a kind unless that was made
\* while another was still to be broadcast or a page was connecting, whatever crossed
\* before and whatever is dropped, fails and reconnects meanwhile (queue.go:143 and
\* hub.go:101).
THEOREM Current == Spec => []CurrentWhenSettled
BY Invariance, InitSettles, NextSettles, SettledShows, PTL DEF Spec
=============================================================================
