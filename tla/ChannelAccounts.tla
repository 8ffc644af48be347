--------------------------- MODULE ChannelAccounts ---------------------------
(***************************************************************************)
(* What viewers and streamers are promised about credits, with no database *)
(* and no network in it: a purse per viewer and channel that never goes    *)
(* negative, every cheer credited to its own purse at most once, a clip    *)
(* paid for at most once and only from a purse that holds its price.       *)
(* Credits is shown to implement this.                                     *)
(***************************************************************************)
EXTENDS Integers

CONSTANTS
  Accounts,   \* pairs of a viewer and a channel
  Messages,   \* cheers
  Items,      \* clips
  Account,    \* the purse each cheer belongs to
  Bits,       \* what each cheer is worth
  Price,      \* what each clip costs
  Amounts     \* what a development top-up may be

VARIABLES
  purse,      \* credits of each account
  credited,   \* the cheers that were credited
  paid        \* the clips that were paid for

vars == <<purse, credited, paid>>

Init ==
  /\ purse = [a \in Accounts |-> 0]
  /\ credited = {}
  /\ paid = {}

Credit(m) ==
  /\ m \notin credited
  /\ credited' = credited \cup {m}
  /\ purse' = [purse EXCEPT ![Account[m]] = @ + Bits[m]]
  /\ UNCHANGED paid

Pay(i, a) ==
  /\ i \notin paid
  /\ purse[a] >= Price[i]
  /\ paid' = paid \cup {i}
  /\ purse' = [purse EXCEPT ![a] = @ - Price[i]]
  /\ UNCHANGED credited

\* A development top-up.
Grant(a, amount) ==
  /\ purse' = [purse EXCEPT ![a] = @ + amount]
  /\ UNCHANGED <<credited, paid>>

Next ==
  \/ \E m \in Messages : Credit(m)
  \/ \E i \in Items, a \in Accounts : Pay(i, a)
  \/ \E a \in Accounts, amount \in Amounts : Grant(a, amount)

Spec == Init /\ [][Next]_vars
=============================================================================
