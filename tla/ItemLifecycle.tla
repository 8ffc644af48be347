--------------------------- MODULE ItemLifecycle ---------------------------
(***************************************************************************)
(* What a streamer is promised about the submissions of one channel, with  *)
(* no queue in it: every item walks forward through its stages, at most    *)
(* one item is on the player, and the player is never left idle while an   *)
(* approved item waits.  MediaQueue is shown to implement this.            *)
(***************************************************************************)
CONSTANT Items          \* ids of the items that may ever be submitted

VARIABLE status         \* stage of each item

Stages == {"new", "pending", "approved", "playing", "done", "rejected", "skipped"}

\* The stages an item may reach from each stage in one step.  An item may be
\* approved and put on the player by the same operation.
After(stage) ==
  CASE stage = "new"      -> {"pending", "approved", "playing"}
    [] stage = "pending"  -> {"approved", "playing", "rejected"}
    [] stage = "approved" -> {"playing", "skipped"}
    [] stage = "playing"  -> {"done", "skipped"}
    [] OTHER              -> {}

OnAir(st) == {i \in Items : st[i] = "playing"}

Waiting(st) == {i \in Items : st[i] = "approved"}

Orderly(st) ==
  /\ \A i, j \in OnAir(st) : i = j
  /\ OnAir(st) = {} => Waiting(st) = {}

Init == status = [i \in Items |-> "new"]

\* Several items move at once when a moderator clears the queue.
Advance ==
  /\ status' \in [Items -> Stages]
  /\ \A i \in Items : status'[i] = status[i] \/ status'[i] \in After(status[i])
  /\ Orderly(status')

Spec == Init /\ [][Advance]_status
=============================================================================
