--------------------------- MODULE BotController ---------------------------
(***************************************************************************)
(* The chat bot's controller: internal/twitch controller.go, bot.go,       *)
(* oauth.go, store.go.  It connects a bot account by OAuth, keeps its      *)
(* token in memory and in twitch.json, refreshes it, and runs one bot      *)
(* goroutine at a time, which is stopped by cancelling its context.        *)
(* main.go no longer starts it; its exported operations are called here by *)
(* Handlers, in any order and at once, as its comment allows ("safe for    *)
(* concurrent use").  No caller is left that passes a legacy token: Start  *)
(* has none.                                                               *)
(*                                                                         *)
(* A token is reduced to the channel it joins, once trimmed or defaulted   *)
(* to the bot's own, and a number that tells refreshed ones apart; it can  *)
(* be refreshed, as all of Twitch's can.  Network calls and disk writes    *)
(* may fail.  Left out: the status that is broadcast, which repeats this   *)
(* state, and chat commands, which are operations of MediaQueue.           *)
(***************************************************************************)
EXTENDS Integers

CONSTANTS Channels,     \* channels to join; bound: an OAuth state is minted for each once
          Handlers,     \* requests that call Connect or Disconnect
          Bots,         \* bot goroutines there may be at once
          MaxTokens,    \* bound: tokens Twitch gives out
          MaxRestarts,  \* bound: restarts of the server
          NoToken, NoBot, NoChannel

ASSUME NoTokenAssumption == NoToken \notin [channel : Channels, number : 1..MaxTokens]
ASSUME NoBotAssumption == NoBot \notin Bots
ASSUME BoundAssumption == MaxTokens \in Nat /\ MaxRestarts \in Nat

VARIABLES memory,    \* Controller.token
          disk,      \* twitch.json
          cancel,    \* the bot whose context Controller.cancel cancels
          lastErr,   \* is Controller.lastErr set?
          states,    \* the channels of the entries of Controller.states
          issued,    \* the channels that states were minted for
          handler,   \* where each request is, its channel, and the token it got
          bot,       \* where each goroutine is, its context and its copy of the token
          expired,   \* numbers of the tokens past their expiry
          minted,    \* tokens given out so far
          restarts,
          connected, \* history: the channel connected last, unless disconnected
          crossed    \* history: did operations overlap, or writes fail, since the start
                     \* or the last disconnect that began alone?

vars == <<memory, disk, cancel, lastErr, states, issued, handler, bot, expired,
          minted, restarts, connected, crossed>>
external == <<states, issued, restarts>>

Tokens == [channel : Channels, number : 1..MaxTokens]
Idle == [at |-> "idle", channel |-> NoChannel, token |-> NoToken]
Ended == [at |-> "done", live |-> FALSE, token |-> NoToken]
Started == [at |-> "top", live |-> TRUE, token |-> NoToken]
ChannelOf(t) == IF t = NoToken THEN NoChannel ELSE t.channel

HandlerStates ==
  [at : {"idle", "exchange", "save", "adopt", "start", "clear"},
   channel : Channels \cup {NoChannel}, token : Tokens \cup {NoToken}]

BotStates ==
  [at : {"top", "credentials", "refresh", "save", "store", "dial", "chat", "done"},
   live : BOOLEAN, token : Tokens \cup {NoToken}]

TypeOK ==
  /\ memory \in Tokens \cup {NoToken} /\ disk \in Tokens \cup {NoToken}
  /\ cancel \in Bots \cup {NoBot} /\ lastErr \in BOOLEAN /\ crossed \in BOOLEAN
  /\ states \subseteq issued /\ issued \subseteq Channels
  /\ handler \in [Handlers -> HandlerStates]
  /\ bot \in [Bots -> BotStates]
  /\ expired \subseteq 1..MaxTokens /\ minted \in 0..MaxTokens
  /\ restarts \in 0..MaxRestarts /\ connected \in Channels \cup {NoChannel}

Busy(h) == handler[h].at # "idle"
Refreshing(b) == bot[b].at \in {"refresh", "save", "store"}
Goto(h, at, c, t) == handler' = [handler EXCEPT ![h] = [at |-> at, channel |-> c, token |-> t]]
BotGoto(b, at, t) ==
  bot' = [bot EXCEPT ![b] = [at |-> at, live |-> bot[b].live, token |-> t]]
Crosses(h) == \/ \E g \in Handlers \ {h} : Busy(g)
              \/ \E b \in Bots : Refreshing(b)
MintOne == minted < MaxTokens /\ minted' = minted + 1
Minted(c) == [channel |-> c, number |-> minted + 1]
-----------------------------------------------------------------------------
(* OAuth states, controller.go:216-254.  NewState mints one that nobody    *)
(* can guess; time passes and the next call prunes it.                     *)

NewState(c) ==
  /\ c \notin issued
  /\ issued' = issued \cup {c} /\ states' = states \cup {c}
  /\ UNCHANGED <<memory, disk, cancel, lastErr, handler, bot, expired, minted,
                 restarts, connected, crossed>>

StateExpires(c) ==
  /\ c \in states
  /\ states' = states \ {c}
  /\ UNCHANGED <<memory, disk, cancel, lastErr, issued, handler, bot, expired, minted,
                 restarts, connected, crossed>>

ConsumeState(h, c) ==
  /\ ~Busy(h) /\ c \in states
  /\ states' = states \ {c}
  /\ Goto(h, "exchange", c, NoToken)
  /\ crossed' = (crossed \/ Crosses(h))
  /\ UNCHANGED <<memory, disk, cancel, lastErr, issued, bot, expired, minted,
                 restarts, connected>>
-----------------------------------------------------------------------------
(* Connect: exchange the code, save the token, adopt it under the mutex,   *)
(* and start a bot under it again.                                         *)

ConnectFails(h) ==
  /\ handler[h].at \in {"exchange", "save"}
  /\ lastErr' = TRUE
  /\ handler' = [handler EXCEPT ![h] = Idle]
  /\ UNCHANGED <<memory, disk, cancel, bot, expired, minted, connected, crossed>>
  /\ UNCHANGED external

ExchangeCode(h) ==
  /\ handler[h].at = "exchange"
  /\ MintOne /\ Goto(h, "save", handler[h].channel, Minted(handler[h].channel))
  /\ UNCHANGED <<memory, disk, cancel, lastErr, bot, expired, connected, crossed>>
  /\ UNCHANGED external

Save(h) ==
  /\ handler[h].at = "save"
  /\ disk' = handler[h].token
  /\ Goto(h, "adopt", handler[h].channel, handler[h].token)
  /\ UNCHANGED <<memory, cancel, lastErr, bot, expired, minted, connected, crossed>>
  /\ UNCHANGED external

Adopt(h) ==
  /\ handler[h].at = "adopt"
  /\ memory' = handler[h].token /\ lastErr' = FALSE
  /\ Goto(h, "start", handler[h].channel, handler[h].token)
  /\ UNCHANGED <<disk, cancel, bot, expired, minted, connected, crossed>>
  /\ UNCHANGED external

(* Plausible bug: the bot that is running is not cancelled. *)
BotsAfterStartKeepsOld(b) == [bot EXCEPT ![b] = Started]

(* startBot: cancel the context there is, and run bot b on a new one. *)
BotsAfterStart(b) ==
  [c \in Bots |-> IF c = b THEN Started
                  ELSE IF c = cancel THEN [bot[c] EXCEPT !.live = FALSE] ELSE bot[c]]

StartBot(h) ==
  /\ handler[h].at = "start"
  /\ \E b \in Bots : /\ bot[b].at = "done"
                     /\ bot' = BotsAfterStart(b) /\ cancel' = b
  /\ connected' = handler[h].channel
  /\ handler' = [handler EXCEPT ![h] = Idle]
  /\ UNCHANGED <<memory, disk, lastErr, expired, minted, crossed>>
  /\ UNCHANGED external
-----------------------------------------------------------------------------
(* Disconnect: cancel and forget under the mutex, then clear the file.     *)

Disconnect(h) ==
  /\ ~Busy(h)
  /\ bot' = [b \in Bots |-> IF b = cancel THEN [bot[b] EXCEPT !.live = FALSE] ELSE bot[b]]
  /\ cancel' = NoBot /\ memory' = NoToken /\ lastErr' = FALSE
  /\ Goto(h, "clear", NoChannel, NoToken)
  /\ crossed' = Crosses(h)
  /\ UNCHANGED <<disk, expired, minted, connected>>
  /\ UNCHANGED external

Clear(h) ==
  /\ handler[h].at = "clear"
  /\ \/ disk' = NoToken /\ UNCHANGED crossed
     \/ UNCHANGED disk /\ crossed' = TRUE      \* the removal fails, and is logged
  /\ connected' = NoChannel
  /\ handler' = [handler EXCEPT ![h] = Idle]
  /\ UNCHANGED <<memory, cancel, lastErr, bot, expired, minted>>
  /\ UNCHANGED external
-----------------------------------------------------------------------------
(* The bot's goroutine: Run's loop, session, and credentials, which reads  *)
(* the token under the mutex, refreshes it without, and stores the result. *)

Idles(b) == UNCHANGED <<memory, disk, cancel, lastErr, handler, expired, minted,
                        connected, crossed>>

(* A session that failed ends here again, once its backoff is over or the  *)
(* context is cancelled.                                                   *)
RunLoop(b) ==
  /\ bot[b].at = "top"
  /\ IF bot[b].live THEN BotGoto(b, "credentials", NoToken)
                    ELSE bot' = [bot EXCEPT ![b] = Ended]
  /\ Idles(b) /\ UNCHANGED external

Credentials(b) ==
  /\ bot[b].at = "credentials"
  /\ \/ memory = NoToken /\ BotGoto(b, "top", NoToken) /\ UNCHANGED crossed
     \/ /\ memory # NoToken /\ memory.number \notin expired
        /\ BotGoto(b, "dial", memory) /\ UNCHANGED crossed
     \/ /\ memory # NoToken /\ memory.number \in expired
        /\ BotGoto(b, "refresh", memory)
        /\ crossed' = (crossed \/ (\E h \in Handlers : Busy(h))
                               \/ (\E c \in Bots \ {b} : Refreshing(c)))
  /\ UNCHANGED <<memory, disk, cancel, lastErr, handler, expired, minted, connected>>
  /\ UNCHANGED external

RefreshFails(b) ==
  /\ bot[b].at = "refresh"
  /\ lastErr' = TRUE
  /\ BotGoto(b, "top", NoToken)
  /\ UNCHANGED <<memory, disk, cancel, handler, expired, minted, connected, crossed>>
  /\ UNCHANGED external

(* The request carries the bot's context: it is answered only while that   *)
(* lives.  The new token keeps the channel.                                *)
Refresh(b) ==
  /\ bot[b].at = "refresh" /\ bot[b].live
  /\ MintOne
  /\ BotGoto(b, "save", Minted(bot[b].token.channel))
  /\ UNCHANGED <<memory, disk, cancel, lastErr, handler, expired, connected, crossed>>
  /\ UNCHANGED external

(* Plausible bug: the refreshed token is kept in memory only. *)
SaveRefreshedNever(b) ==
  /\ bot[b].at = "save"
  /\ BotGoto(b, "store", bot[b].token)
  /\ Idles(b) /\ UNCHANGED external

SaveRefreshed(b) ==
  /\ bot[b].at = "save"
  /\ \/ disk' = bot[b].token /\ UNCHANGED crossed
     \/ UNCHANGED disk /\ crossed' = TRUE      \* it fails, and is logged
  /\ BotGoto(b, "store", bot[b].token)
  /\ UNCHANGED <<memory, cancel, lastErr, handler, expired, minted, connected>>
  /\ UNCHANGED external

StoreRefreshed(b) ==
  /\ bot[b].at = "store"
  /\ memory' = bot[b].token /\ lastErr' = FALSE
  /\ BotGoto(b, "dial", bot[b].token)
  /\ UNCHANGED <<disk, cancel, handler, expired, minted, connected, crossed>>
  /\ UNCHANGED external

(* Dialling, and the four commands that log in, fail or lead to the chat.  *)
Dial(b) ==
  /\ bot[b].at = "dial"
  /\ \/ bot[b].live /\ BotGoto(b, "chat", bot[b].token)
     \/ BotGoto(b, "top", NoToken)
  /\ Idles(b) /\ UNCHANGED external

(* Twitch rejects the token or drops the connection. *)
ChatFails(b) ==
  /\ bot[b].at = "chat"
  /\ BotGoto(b, "top", NoToken)
  /\ Idles(b) /\ UNCHANGED external

(* Plausible bug: the connection is closed by its own session only, which  *)
(* waits for a message.                                                    *)
UnblockNever(b) == FALSE /\ UNCHANGED vars

(* The goroutine that waits for the context closes the connection. *)
Unblock(b) ==
  /\ bot[b].at = "chat" /\ ~bot[b].live
  /\ BotGoto(b, "top", NoToken)
  /\ Idles(b) /\ UNCHANGED external

BotStep(b) == \/ RunLoop(b) \/ Credentials(b) \/ RefreshFails(b) \/ Refresh(b)
              \/ SaveRefreshed(b) \/ StoreRefreshed(b) \/ Dial(b) \/ Unblock(b)
-----------------------------------------------------------------------------
TokenExpires(n) ==
  /\ n \in (1..minted) \ expired
  /\ expired' = expired \cup {n}
  /\ UNCHANGED <<memory, disk, cancel, lastErr, handler, bot, minted, connected, crossed>>
  /\ UNCHANGED external

(* The process ends at any point, and Start reads the file again. *)
Start(b) ==
  /\ restarts < MaxRestarts
  /\ restarts' = restarts + 1
  /\ memory' = disk /\ lastErr' = FALSE /\ states' = {}
  /\ handler' = [h \in Handlers |-> Idle]
  /\ bot' = [c \in Bots |-> IF c = b /\ disk # NoToken THEN Started ELSE Ended]
  /\ cancel' = IF disk = NoToken THEN NoBot ELSE b
  /\ connected' = ChannelOf(disk) /\ crossed' = FALSE
  /\ UNCHANGED <<disk, issued, expired, minted>>

(* After the first Start, which found no token. *)
Init ==
  /\ memory = NoToken /\ disk = NoToken /\ cancel = NoBot
  /\ lastErr = FALSE /\ states = {} /\ issued = {}
  /\ handler = [h \in Handlers |-> Idle] /\ bot = [b \in Bots |-> Ended]
  /\ expired = {} /\ minted = 0 /\ restarts = 0
  /\ connected = NoChannel /\ crossed = FALSE

Next ==
  \/ \E c \in Channels : NewState(c) \/ StateExpires(c)
  \/ \E h \in Handlers :
       \/ \E c \in Channels : ConsumeState(h, c)
       \/ ConnectFails(h) \/ ExchangeCode(h) \/ Save(h) \/ Adopt(h) \/ StartBot(h)
       \/ Disconnect(h) \/ Clear(h)
  \/ \E b \in Bots : BotStep(b) \/ ChatFails(b) \/ Start(b)
  \/ \E n \in 1..MaxTokens : TokenExpires(n)

(* A bot's goroutine goes on: its network calls have timeouts or end with  *)
(* the context, its backoff ends.  Nothing is assumed of Twitch, of the    *)
(* chat, or of who connects.                                               *)
Fairness == \A b \in Bots : WF_vars(BotStep(b))

Spec == Init /\ [][Next]_vars /\ Fairness
-----------------------------------------------------------------------------
(* Disconnect and the next start reach every bot that is not cancelled:    *)
(* there is one at most, and it is the one that Controller.cancel stops,   *)
(* however connects, disconnects and restarts interleave.                  *)
OneLiveBot ==
  \A b \in Bots : bot[b].at # "done" /\ bot[b].live => cancel = b

(* Once requests and refreshes are over, and unless some overlapped or a   *)
(* write failed, memory and disk hold the same token, it is for the        *)
(* channel connected last, or there is none after a disconnect, and a bot  *)
(* runs exactly when there is one.  Whatever an overlap or a failure has   *)
(* left behind, a restart or a disconnect that is made alone puts right.   *)
SettledAgrees ==
  (~crossed /\ (\A h \in Handlers : ~Busy(h)) /\ (\A b \in Bots : ~Refreshing(b)))
    => /\ memory = disk /\ ChannelOf(memory) = connected
       /\ (memory = NoToken) = (\A b \in Bots : bot[b].at = "done" \/ ~bot[b].live)

(* A bot that is cancelled leaves: it is not left reading a chat that says *)
(* nothing, nor waiting to reconnect.  (A restart may give its place to a  *)
(* new one at once, which lives.)                                          *)
CancelledLeaves ==
  \A b \in Bots : (bot[b].at # "done" /\ ~bot[b].live)
                     ~> (bot[b].at = "done" \/ bot[b].live)
=============================================================================
