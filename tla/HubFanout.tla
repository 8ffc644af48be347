------------------------------ MODULE HubFanout ------------------------------
(***************************************************************************)
(* Live updates: the managers of a channel publish what they changed       *)
(* (internal/queue/queue.go, internal/session/session.go) and the hub      *)
(* fans it out to the WebSocket clients in the channel's room              *)
(* (internal/hub/hub.go).                                                  *)
(*                                                                         *)
(* What a message shows is reduced to its version: the number of changes   *)
(* the manager had made when the snapshot was taken.  The managers publish *)
(* after they release their mutex, so a change and its broadcast are       *)
(* separate steps; BroadcastTo and remove hold the hub's mutex and are one *)
(* step each; ServeWS registers, collects the initial messages and sends   *)
(* them one at a time.  Every connection is a client of its own: a page    *)
(* that reconnects is another one.                                         *)
(***************************************************************************)
EXTENDS Integers, Sequences, FiniteSets

CONSTANTS
  Rooms,       \* one per streamer
  Clients,     \* WebSocket connections
  Publishers,  \* HTTP handlers that change a channel
  NoRoom,
  Cap,         \* capacity of a client's send channel (16 in the code)
  MaxChanges   \* bound: changes made in all

ASSUME HubAssumption ==
  /\ NoRoom \notin Rooms
  /\ Cap \in Nat \ {0}
  /\ MaxChanges \in Nat

Kinds == {"state", "session"}
Roles == {"player", "admin"}

VARIABLES
  version,  \* changes made to each room's queue and session
  pub,      \* what each publisher is about to broadcast
  clients,  \* Hub.clients: the registered connections
  conn,     \* each connection: where ServeWS is, its room, role and messages to send
  chan,     \* client.send
  closes,   \* how often client.send was closed
  writer,   \* writePump of each connection: "off", "run", "done"
  reader,   \* readPump
  shown,    \* the version of each kind that the page renders
  got,      \* history: broadcast messages the page received
  sent,     \* history: broadcasts to each room
  joined,   \* history: how many broadcasts the room had seen at registration
  crossed,  \* history: of each room, the kinds whose last change was made while another
            \* of the kind was to be broadcast or a client was connecting, or was
            \* still to be broadcast when a client connected
  changes   \* bound

vars == <<version, pub, clients, conn, chan, closes, writer, reader, shown, got, sent, joined, crossed, changes>>

managerVars == <<version, pub, crossed, changes>>
socketVars == <<writer, reader, shown, got>>

Message(room, kind, v, initial) == [room |-> room, kind |-> kind, version |-> v, initial |-> initial]

NothingToPublish == [pc |-> "idle", room |-> NoRoom, kind |-> "state", version |-> 0]

Unconnected == [pc |-> "off", room |-> NoRoom, role |-> "player", todo |-> << >>]

Closed(c) == closes[c] > 0

Members(room) == {c \in clients : conn[c].room = room}

-----------------------------------------------------------------------------
\* Managers.

\* A message of this kind is about to be broadcast to the room.
Pending(room, kind) ==
  \E p \in Publishers : pub[p].pc # "idle" /\ pub[p].room = room /\ pub[p].kind = kind

Connecting(room) == \E c \in Clients : conn[c].pc \in {"registered", "collecting", "greeting"} /\ conn[c].room = room

\* A queue operation changes the state and takes its snapshot in one critical
\* section; a session operation takes its status in a second one.
Change(p, room, kind) ==
  /\ pub[p].pc = "idle"
  /\ changes < MaxChanges
  /\ changes' = changes + 1
  /\ version' = [version EXCEPT ![room][kind] = @ + 1]
  /\ pub' = [pub EXCEPT ![p] =
               [pc |-> IF kind = "state" THEN "ready" ELSE "changed", room |-> room,
                kind |-> kind, version |-> version[room][kind] + 1]]
  /\ crossed' = IF Pending(room, kind) \/ Connecting(room)
                THEN crossed \cup {<<room, kind>>} ELSE crossed \ {<<room, kind>>}
  /\ UNCHANGED <<clients, conn, chan, closes, socketVars, sent, joined>>

\* session.Manager.broadcast reads the status again.
ReadStatus(p) ==
  /\ pub[p].pc = "changed"
  /\ pub' = [pub EXCEPT ![p].pc = "ready",
                        ![p].version = version[pub[p].room][pub[p].kind]]
  /\ UNCHANGED <<version, crossed, changes, clients, conn, chan, closes, socketVars, sent, joined>>

-----------------------------------------------------------------------------
\* The hub.

Full(receivers) == {c \in receivers : Len(chan[c]) = Cap}

Queued(receivers, m) == [c \in Clients |-> IF c \in receivers THEN Append(chan[c], m) ELSE chan[c]]

\* Plausible bug: the channels have no bound.
DeliverUnbounded(receivers, m) == chan' = Queued(receivers, m) /\ UNCHANGED <<closes, clients>>

\* Plausible bug: a client whose channel is full is forgotten, not closed.
DeliverForgets(receivers, m) ==
  /\ chan' = Queued(receivers \ Full(receivers), m)
  /\ clients' = clients \ Full(receivers)
  /\ UNCHANGED closes

\* Plausible bug: a client whose channel is full misses the message and stays.
DeliverSkips(receivers, m) ==
  chan' = Queued(receivers \ Full(receivers), m) /\ UNCHANGED <<closes, clients>>

\* Puts a message in the channels that have room, and closes and forgets the
\* clients whose channel is full.
Deliver(receivers, m) ==
  /\ chan' = Queued(receivers \ Full(receivers), m)
  /\ closes' = [c \in Clients |-> IF c \in Full(receivers) THEN closes[c] + 1 ELSE closes[c]]
  /\ clients' = clients \ Full(receivers)

\* Plausible bug: the room is not looked at.
BroadcastEverywhere(p) ==
  LET m == Message(pub[p].room, pub[p].kind, pub[p].version, FALSE)
  IN /\ pub[p].pc = "ready"
     /\ Deliver(clients, m)
     /\ sent' = [sent EXCEPT ![m.room] = Append(@, m)]
     /\ pub' = [pub EXCEPT ![p] = NothingToPublish]
     /\ UNCHANGED <<version, crossed, changes, conn, socketVars, joined>>

\* BroadcastTo
Broadcast(p) ==
  LET m == Message(pub[p].room, pub[p].kind, pub[p].version, FALSE)
  IN /\ pub[p].pc = "ready"
     /\ Deliver(Members(m.room), m)
     /\ sent' = [sent EXCEPT ![m.room] = Append(@, m)]
     /\ pub' = [pub EXCEPT ![p] = NothingToPublish]
     /\ UNCHANGED <<version, crossed, changes, conn, socketVars, joined>>

-----------------------------------------------------------------------------
\* ServeWS.

\* The connection is upgraded and registered.
Register(c, room, role) ==
  /\ conn[c].pc = "off"
  /\ conn' = [conn EXCEPT ![c] = [pc |-> "registered", room |-> room, role |-> role, todo |-> << >>]]
  /\ clients' = clients \cup {c}
  /\ joined' = [joined EXCEPT ![c] = Len(sent[room])]
  /\ crossed' = crossed \cup ({room} \X {kind \in Kinds : Pending(room, kind)})
  /\ UNCHANGED <<version, pub, changes, chan, closes, socketVars, sent>>

\* OnConnect reads the queue's snapshot first.
CollectState(c) ==
  /\ conn[c].pc = "registered"
  /\ LET room == conn[c].room
     IN conn' = [conn EXCEPT ![c].pc = IF conn[c].role = "admin" THEN "collecting" ELSE "greeting",
                             ![c].todo = <<Message(room, "state", version[room].state, TRUE)>>]
  /\ UNCHANGED <<managerVars, clients, chan, closes, socketVars, sent, joined>>

\* Then, for an admin, it reads the session's status, under a mutex of its own.
CollectStatus(c) ==
  /\ conn[c].pc = "collecting"
  /\ LET room == conn[c].room
     IN conn' = [conn EXCEPT ![c].pc = "greeting",
                             ![c].todo = Append(@, Message(room, "session", version[room].session, TRUE))]
  /\ UNCHANGED <<managerVars, clients, chan, closes, socketVars, sent, joined>>

\* c.send <- data: blocks while the channel is full (nothing reads it yet), and
\* panics when it is closed; net/http recovers and the handler is over.
Greet(c) ==
  /\ conn[c].pc = "greeting" /\ conn[c].todo # << >>
  /\ \/ /\ ~Closed(c) /\ Len(chan[c]) < Cap
        /\ chan' = [chan EXCEPT ![c] = Append(@, Head(conn[c].todo))]
        /\ conn' = [conn EXCEPT ![c].todo = Tail(@)]
     \/ /\ Closed(c)
        /\ conn' = [conn EXCEPT ![c].pc = "panicked"]
        /\ UNCHANGED chan
  /\ UNCHANGED <<managerVars, clients, closes, socketVars, sent, joined>>

\* The pumps start and the handler returns.
StartPumps(c) ==
  /\ conn[c].pc = "greeting" /\ conn[c].todo = << >>
  /\ conn' = [conn EXCEPT ![c].pc = "served"]
  /\ writer' = [writer EXCEPT ![c] = "run"]
  /\ reader' = [reader EXCEPT ![c] = "run"]
  /\ UNCHANGED <<managerVars, clients, chan, closes, shown, got, sent, joined>>

-----------------------------------------------------------------------------
\* The pumps.

\* writePump writes a message, and the page renders it: player.js renders only
\* the state.
Write(c) ==
  /\ writer[c] = "run" /\ chan[c] # << >>
  /\ LET m == Head(chan[c])
     IN /\ shown' = IF m.kind = "state" \/ conn[c].role = "admin"
                    THEN [shown EXCEPT ![c][m.kind] = m.version] ELSE shown
        /\ got' = IF m.initial THEN got ELSE [got EXCEPT ![c] = Append(@, m)]
  /\ chan' = [chan EXCEPT ![c] = Tail(@)]
  /\ UNCHANGED <<managerVars, clients, conn, closes, writer, reader, sent, joined>>

\* The channel is closed and drained: writePump sends a close frame.
WriteClose(c) ==
  /\ writer[c] = "run" /\ Closed(c) /\ chan[c] = << >>
  /\ writer' = [writer EXCEPT ![c] = "done"]
  /\ UNCHANGED <<managerVars, clients, conn, chan, closes, reader, shown, got, sent, joined>>

\* A write or a ping fails; what is left in the channel is never written.
WriteFails(c) ==
  /\ writer[c] = "run"
  /\ writer' = [writer EXCEPT ![c] = "done"]
  /\ UNCHANGED <<managerVars, clients, conn, chan, closes, reader, shown, got, sent, joined>>

\* Plausible bug: remove closes the channel whether or not it is registered.
RemoveUnchecked(c) ==
  /\ clients' = clients \ {c}
  /\ closes' = [closes EXCEPT ![c] = @ + 1]

\* Hub.remove
Remove(c) ==
  /\ clients' = clients \ {c}
  /\ closes' = IF c \in clients THEN [closes EXCEPT ![c] = @ + 1] ELSE closes

\* readPump ends: the page went away, the network failed, or no pong came.
ReadFails(c) ==
  /\ reader[c] = "run"
  /\ Remove(c)
  /\ reader' = [reader EXCEPT ![c] = "done"]
  /\ UNCHANGED <<managerVars, conn, chan, writer, shown, got, sent, joined>>

\* The Go runtime closes the connection that a panicked handler left behind.
Finalize(c) ==
  /\ conn[c].pc = "panicked" /\ reader[c] = "off"
  /\ reader' = [reader EXCEPT ![c] = "done"]
  /\ UNCHANGED <<managerVars, clients, conn, chan, closes, writer, shown, got, sent, joined>>

-----------------------------------------------------------------------------
Init ==
  /\ version = [room \in Rooms |-> [kind \in Kinds |-> 0]]
  /\ pub = [p \in Publishers |-> NothingToPublish]
  /\ clients = {}
  /\ conn = [c \in Clients |-> Unconnected]
  /\ chan = [c \in Clients |-> << >>]
  /\ closes = [c \in Clients |-> 0]
  /\ writer = [c \in Clients |-> "off"]
  /\ reader = [c \in Clients |-> "off"]
  /\ shown = [c \in Clients |-> [kind \in Kinds |-> 0]]
  /\ got = [c \in Clients |-> << >>]
  /\ sent = [room \in Rooms |-> << >>]
  /\ joined = [c \in Clients |-> 0]
  /\ crossed = {}
  /\ changes = 0

Publish(p) == ReadStatus(p) \/ Broadcast(p)
ServeWS(c) == CollectState(c) \/ CollectStatus(c) \/ Greet(c) \/ StartPumps(c)
WritePump(c) == Write(c) \/ WriteClose(c)

Next ==
  \/ \E p \in Publishers, room \in Rooms, kind \in Kinds : Change(p, room, kind)
  \/ \E p \in Publishers : Publish(p)
  \/ \E c \in Clients, room \in Rooms, role \in Roles : Register(c, room, role)
  \/ \E c \in Clients : ServeWS(c)
  \/ \E c \in Clients : WritePump(c)
  \/ \E c \in Clients : WriteFails(c)
  \/ \E c \in Clients : ReadFails(c)
  \/ \E c \in Clients : Finalize(c)

Spec == Init /\ [][Next]_vars

\* Handlers and pumps keep running, and a connection that is not pinged any more
\* misses its read deadline.
FairSpec ==
  /\ Spec
  /\ \A p \in Publishers : WF_vars(Publish(p))
  /\ \A c \in Clients :
       /\ WF_vars(ServeWS(c))
       /\ WF_vars(WritePump(c))
       /\ WF_vars(writer[c] = "done" /\ ReadFails(c))
       /\ WF_vars(Finalize(c))

-----------------------------------------------------------------------------
\* Properties.

Broadcasts == [room : Rooms, kind : Kinds, version : Nat, initial : BOOLEAN]

TypeOK ==
  /\ version \in [Rooms -> [Kinds -> Nat]]
  /\ pub \in [Publishers -> [pc : {"idle", "changed", "ready"}, room : Rooms \cup {NoRoom},
                             kind : Kinds, version : Nat]]
  /\ clients \subseteq Clients
  /\ conn \in [Clients -> [pc : {"off", "registered", "collecting", "greeting", "served", "panicked"},
                           room : Rooms \cup {NoRoom}, role : Roles, todo : Seq(Broadcasts)]]
  /\ chan \in [Clients -> Seq(Broadcasts)]
  /\ \A c \in Clients : Len(chan[c]) <= Cap
  /\ closes \in [Clients -> Nat]
  /\ writer \in [Clients -> {"off", "run", "done"}]
  /\ reader \in [Clients -> {"off", "run", "done"}]
  /\ shown \in [Clients -> [Kinds -> Nat]]
  /\ got \in [Clients -> Seq(Broadcasts)]
  /\ sent \in [Rooms -> Seq(Broadcasts)]
  /\ joined \in [Clients -> Nat]
  /\ crossed \subseteq Rooms \X Kinds
  /\ changes \in 0 .. MaxChanges

\* A client's channel is open exactly while the hub knows the client, and is
\* closed once: BroadcastTo and remove never send on a closed channel and never
\* close one twice, which would panic with the hub's mutex held.
OpenWhileRegistered ==
  \A c \in Clients : conn[c].pc # "off" => closes[c] = IF c \in clients THEN 0 ELSE 1

\* The broadcasts of a channel, without the initial messages of ServeWS.
Fanned(msgs) ==
  LET kept[n \in 0 .. Len(msgs)] ==
        IF n = 0 THEN << >>
        ELSE IF msgs[n].initial THEN kept[n - 1] ELSE Append(kept[n - 1], msgs[n])
  IN kept[Len(msgs)]

\* What a client has been given: received, or on its way.
Given(c) == got[c] \o Fanned(chan[c])

\* A client gets the broadcasts of its own room and of no other, each once and in
\* the order they were made, from its registration until it is dropped.
EveryBroadcastInOrder ==
  \A c \in Clients : conn[c].pc # "off" =>
    LET due == SubSeq(sent[conn[c].room], joined[c] + 1, Len(sent[conn[c].room]))
    IN IF c \in clients THEN Given(c) = due
       ELSE Given(c) = SubSeq(due, 1, Len(Given(c)))

\* What the page of c renders.
Rendered(c) == {"state"} \cup (IF conn[c].role = "admin" THEN {"session"} ELSE {})

\* The page has all it was sent, and nothing of this kind is on the way to it.
Settled(c, kind) ==
  /\ conn[c].pc = "served" /\ writer[c] = "run" /\ chan[c] = << >>
  /\ ~Pending(conn[c].room, kind)

\* Clients "render whatever the latest state/session message says"
\* (docs/agents/conventions.md:53): every page that the hub still serves shows the
\* present state once it has settled, and the present status, each unless its last
\* change was made while another of the kind was still to be broadcast or while a
\* page was connecting.  What an earlier crossing has left on a page, the next
\* change that is made alone puts right.
CurrentWhenSettled ==
  \A c \in clients : \A kind \in Rendered(c) :
    Settled(c, kind) /\ <<conn[c].room, kind>> \notin crossed =>
      shown[c][kind] = version[conn[c].room][kind]

\* "if it's full (slow client) the client is dropped" (docs/architecture.md:138):
\* a connection that the hub drops is ended, so that the page connects anew.
DroppedIsEnded ==
  \A c \in Clients :
    (conn[c].pc # "off" /\ c \notin clients) ~> (writer[c] = "done" \/ reader[c] = "done")
=============================================================================
