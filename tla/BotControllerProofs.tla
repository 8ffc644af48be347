------------------------- MODULE BotControllerProofs -------------------------
(***************************************************************************)
(* Proofs about BotController, for any channels, handlers, bots and bounds *)
(* that satisfy its assumptions.                                           *)
(***************************************************************************)
EXTENDS BotController, TLAPS

HandlerPlaces == {"idle", "exchange", "save", "adopt", "start", "clear"}
BotPlaces == {"top", "credentials", "refresh", "save", "store", "dial", "chat", "done"}

(* What moving one request, or one bot, does to all of them. *)
LEMMA HandlerMoves ==
  ASSUME TypeOK, NEW h \in Handlers, NEW at \in HandlerPlaces,
         NEW c \in Channels \cup {NoChannel}, NEW t \in Tokens \cup {NoToken},
         Goto(h, at, c, t)
  PROVE  /\ handler' \in [Handlers -> HandlerStates]
         /\ handler'[h] = [at |-> at, channel |-> c, token |-> t]
         /\ \A g \in Handlers \ {h} : handler'[g] = handler[g]
<1>1. [at |-> at, channel |-> c, token |-> t] \in HandlerStates
  BY DEF HandlerStates, HandlerPlaces
<1>. QED BY <1>1 DEF TypeOK, Goto

LEMMA HandlerIdles ==
  ASSUME TypeOK, NEW h \in Handlers, handler' = [handler EXCEPT ![h] = Idle]
  PROVE  /\ handler' \in [Handlers -> HandlerStates]
         /\ handler'[h] = Idle
         /\ \A g \in Handlers \ {h} : handler'[g] = handler[g]
<1>1. Idle \in HandlerStates
  BY DEF HandlerStates, Idle
<1>. QED BY <1>1 DEF TypeOK

LEMMA BotMoves ==
  ASSUME TypeOK, NEW b \in Bots, NEW at \in BotPlaces, NEW t \in Tokens \cup {NoToken},
         BotGoto(b, at, t)
  PROVE  /\ bot' \in [Bots -> BotStates]
         /\ bot'[b] = [at |-> at, live |-> bot[b].live, token |-> t]
         /\ \A c \in Bots \ {b} : bot'[c] = bot[c]
<1>1. /\ bot \in [Bots -> BotStates] /\ bot[b] \in BotStates
  BY DEF TypeOK
<1>2. [at |-> at, live |-> bot[b].live, token |-> t] \in BotStates
  BY <1>1 DEF BotStates, BotPlaces
<1>. QED BY <1>1, <1>2 DEF BotGoto

(* A token that Twitch gives out is one of the instance's. *)
LEMMA MintedType ==
  ASSUME TypeOK, MintOne, NEW c \in Channels
  PROVE  /\ Minted(c) \in Tokens /\ Minted(c).channel = c
         /\ minted' \in 0..MaxTokens
BY BoundAssumption DEF TypeOK, MintOne, Minted, Tokens

(* Cancelling a bot, ending or starting one leaves states of bots. *)
LEMMA BotRecords ==
  ASSUME TypeOK
  PROVE  /\ Started \in BotStates /\ Ended \in BotStates
         /\ \A b \in Bots : [bot[b] EXCEPT !.live = FALSE] \in BotStates
BY DEF TypeOK, BotStates, Started, Ended
-----------------------------------------------------------------------------
(* A request that connects carries its channel, and then a token for it; a *)
(* bot that refreshes carries a token.                                     *)
Carried ==
  /\ \A h \in Handlers :
       /\ handler[h].at \in {"exchange", "save", "adopt", "start"} =>
            handler[h].channel \in Channels
       /\ handler[h].at \in {"save", "adopt", "start"} =>
            /\ handler[h].token \in Tokens
            /\ handler[h].token.channel = handler[h].channel
  /\ \A b \in Bots : Refreshing(b) => bot[b].token \in Tokens

Typed == TypeOK /\ Carried

LEMMA TypedInit == Init => Typed
<1> SUFFICES ASSUME Init PROVE Typed
  OBVIOUS
<1>1. Idle \in HandlerStates /\ Ended \in BotStates
  BY DEF HandlerStates, BotStates, Idle, Ended
<1>2. handler \in [Handlers -> HandlerStates] /\ bot \in [Bots -> BotStates]
  BY <1>1 DEF Init
<1>3. TypeOK
  <2>1. minted \in 0..MaxTokens /\ restarts \in 0..MaxRestarts
    BY BoundAssumption DEF Init
  <2>2. /\ memory = NoToken /\ disk = NoToken /\ cancel = NoBot /\ lastErr = FALSE
        /\ crossed = FALSE /\ states = {} /\ issued = {} /\ expired = {}
        /\ connected = NoChannel
    BY DEF Init
  <2>. QED BY <1>2, <2>1, <2>2 DEF TypeOK
<1>4. Carried
  <2>1. \A h \in Handlers : handler[h].at = "idle"
    BY DEF Init, Idle
  <2>2. \A b \in Bots : bot[b].at = "done"
    BY DEF Init, Ended
  <2>. QED BY <2>1, <2>2 DEF Carried, Refreshing
<1>. QED BY <1>3, <1>4 DEF Typed

LEMMA TypedStep == Typed /\ [Next]_vars => Typed'
<1> SUFFICES ASSUME Typed, [Next]_vars PROVE Typed'
  OBVIOUS
<1> USE DEF Typed
<1>1. ASSUME NEW c \in Channels, NewState(c) PROVE Typed'
  BY <1>1 DEF NewState, TypeOK, Carried, Refreshing
<1>2. ASSUME NEW c \in Channels, StateExpires(c) PROVE Typed'
  BY <1>2 DEF StateExpires, TypeOK, Carried, Refreshing
<1>3. ASSUME NEW h \in Handlers, NEW c \in Channels, ConsumeState(h, c) PROVE Typed'
  <2>1. /\ handler' \in [Handlers -> HandlerStates]
        /\ handler'[h] = [at |-> "exchange", channel |-> c, token |-> NoToken]
        /\ \A g \in Handlers \ {h} : handler'[g] = handler[g]
    BY <1>3, HandlerMoves DEF ConsumeState, HandlerPlaces
  <2>2. TypeOK'
    BY <1>3, <2>1 DEF ConsumeState, TypeOK, Crosses, Busy, Refreshing
  <2>3. Carried'
    BY <1>3, <2>1 DEF ConsumeState, Carried, Refreshing
  <2>. QED BY <2>2, <2>3
<1>4. ASSUME NEW h \in Handlers, ConnectFails(h) PROVE Typed'
  <2>1. /\ handler' \in [Handlers -> HandlerStates] /\ handler'[h] = Idle
        /\ \A g \in Handlers \ {h} : handler'[g] = handler[g]
    BY <1>4, HandlerIdles DEF ConnectFails
  <2>. QED BY <1>4, <2>1 DEF ConnectFails, TypeOK, Carried, Refreshing, external, Idle
<1>5. ASSUME NEW h \in Handlers, ExchangeCode(h) PROVE Typed'
  <2> DEFINE c == handler[h].channel
  <2>1. c \in Channels
    BY <1>5 DEF ExchangeCode, Carried
  <2>2. Minted(c) \in Tokens /\ Minted(c).channel = c /\ minted' \in 0..MaxTokens
    BY <1>5, <2>1, MintedType DEF ExchangeCode
  <2>3. /\ handler' \in [Handlers -> HandlerStates]
        /\ handler'[h] = [at |-> "save", channel |-> c, token |-> Minted(c)]
        /\ \A g \in Handlers \ {h} : handler'[g] = handler[g]
    BY <1>5, <2>1, <2>2, HandlerMoves DEF ExchangeCode, HandlerPlaces
  <2>4. TypeOK'
    BY <1>5, <2>2, <2>3 DEF ExchangeCode, TypeOK, external
  <2>5. Carried'
    BY <1>5, <2>1, <2>2, <2>3 DEF ExchangeCode, Carried, Refreshing
  <2>. QED BY <2>4, <2>5
<1>6. ASSUME NEW h \in Handlers, Save(h) PROVE Typed'
  <2>1. /\ handler[h].channel \in Channels /\ handler[h].token \in Tokens
        /\ handler[h].token.channel = handler[h].channel
    BY <1>6 DEF Save, Carried
  <2>2. /\ handler' \in [Handlers -> HandlerStates]
        /\ handler'[h] = [at |-> "adopt", channel |-> handler[h].channel,
                          token |-> handler[h].token]
        /\ \A g \in Handlers \ {h} : handler'[g] = handler[g]
    BY <1>6, <2>1, HandlerMoves DEF Save, HandlerPlaces
  <2>3. TypeOK'
    BY <1>6, <2>1, <2>2 DEF Save, TypeOK, external
  <2>4. Carried'
    BY <1>6, <2>1, <2>2 DEF Save, Carried, Refreshing
  <2>. QED BY <2>3, <2>4
<1>7. ASSUME NEW h \in Handlers, Adopt(h) PROVE Typed'
  <2>1. /\ handler[h].channel \in Channels /\ handler[h].token \in Tokens
        /\ handler[h].token.channel = handler[h].channel
    BY <1>7 DEF Adopt, Carried
  <2>2. /\ handler' \in [Handlers -> HandlerStates]
        /\ handler'[h] = [at |-> "start", channel |-> handler[h].channel,
                          token |-> handler[h].token]
        /\ \A g \in Handlers \ {h} : handler'[g] = handler[g]
    BY <1>7, <2>1, HandlerMoves DEF Adopt, HandlerPlaces
  <2>3. TypeOK'
    BY <1>7, <2>1, <2>2 DEF Adopt, TypeOK, external
  <2>4. Carried'
    BY <1>7, <2>1, <2>2 DEF Adopt, Carried, Refreshing
  <2>. QED BY <2>3, <2>4
<1>8. ASSUME NEW h \in Handlers, StartBot(h) PROVE Typed'
  <2>1. /\ handler' \in [Handlers -> HandlerStates] /\ handler'[h] = Idle
        /\ \A g \in Handlers \ {h} : handler'[g] = handler[g]
    BY <1>8, HandlerIdles DEF StartBot
  <2>2. PICK b \in Bots : bot' = BotsAfterStart(b) /\ cancel' = b
    BY <1>8 DEF StartBot
  <2>3. bot' \in [Bots -> BotStates]
    BY <2>2, BotRecords DEF BotsAfterStart, TypeOK
  <2>4. \A d \in Bots : Refreshing(d)' => Refreshing(d) /\ bot'[d].token = bot[d].token
    BY <2>2 DEF BotsAfterStart, Refreshing, Started, TypeOK, BotStates
  <2>5. handler[h].channel \in Channels
    BY <1>8 DEF StartBot, Carried
  <2>6. TypeOK'
    BY <1>8, <2>1, <2>2, <2>3, <2>5 DEF StartBot, TypeOK, external
  <2>7. Carried'
    BY <2>1, <2>4 DEF Carried, Idle
  <2>. QED BY <2>6, <2>7
<1>9. ASSUME NEW h \in Handlers, Disconnect(h) PROVE Typed'
  <2>1. /\ handler' \in [Handlers -> HandlerStates]
        /\ handler'[h] = [at |-> "clear", channel |-> NoChannel, token |-> NoToken]
        /\ \A g \in Handlers \ {h} : handler'[g] = handler[g]
    BY <1>9, HandlerMoves DEF Disconnect, HandlerPlaces
  <2>2. bot' \in [Bots -> BotStates]
    BY <1>9, BotRecords DEF Disconnect, TypeOK
  <2>3. \A d \in Bots : Refreshing(d)' => Refreshing(d) /\ bot'[d].token = bot[d].token
    BY <1>9 DEF Disconnect, Refreshing, TypeOK, BotStates
  <2>4. TypeOK'
    BY <1>9, <2>1, <2>2 DEF Disconnect, TypeOK, external, Crosses, Busy, Refreshing
  <2>5. Carried'
    BY <2>1, <2>3 DEF Carried
  <2>. QED BY <2>4, <2>5
<1>10. ASSUME NEW h \in Handlers, Clear(h) PROVE Typed'
  <2>1. /\ handler' \in [Handlers -> HandlerStates] /\ handler'[h] = Idle
        /\ \A g \in Handlers \ {h} : handler'[g] = handler[g]
    BY <1>10, HandlerIdles DEF Clear
  <2>. QED BY <1>10, <2>1 DEF Clear, TypeOK, Carried, Refreshing, external, Idle
<1>11. ASSUME NEW b \in Bots, NEW at \in BotPlaces, NEW t \in Tokens \cup {NoToken},
              BotGoto(b, at, t), at \in {"refresh", "save", "store"} => t \in Tokens
       PROVE  /\ bot' \in [Bots -> BotStates]
              /\ \A d \in Bots : Refreshing(d)' => bot'[d].token \in Tokens
  <2>1. /\ bot' \in [Bots -> BotStates]
        /\ bot'[b] = [at |-> at, live |-> bot[b].live, token |-> t]
        /\ \A c \in Bots \ {b} : bot'[c] = bot[c]
    BY <1>11, BotMoves
  <2>2. ASSUME NEW d \in Bots, Refreshing(d)' PROVE bot'[d].token \in Tokens
    <3>1. CASE d = b
      BY <1>11, <2>1, <2>2, <3>1 DEF Refreshing
    <3>2. CASE d # b
      BY <2>1, <2>2, <3>2 DEF Refreshing, Carried
    <3>. QED BY <3>1, <3>2
  <2>. QED BY <2>1, <2>2
<1>12. ASSUME NEW b \in Bots, RunLoop(b) PROVE Typed'
  <2>1. /\ bot' \in [Bots -> BotStates]
        /\ \A d \in Bots : Refreshing(d)' => bot'[d].token \in Tokens
    <3>1. CASE bot[b].live
      BY <1>12, <1>11, <3>1 DEF RunLoop, BotPlaces
    <3>2. CASE ~bot[b].live
      <4>1. bot' = [bot EXCEPT ![b] = Ended] /\ Ended \in BotStates
        BY <1>12, <3>2, BotRecords DEF RunLoop
      <4>2. bot' \in [Bots -> BotStates]
        BY <4>1 DEF TypeOK
      <4>3. /\ bot'[b].at = "done"
            /\ \A d \in Bots \ {b} : bot'[d] = bot[d]
        BY <4>1 DEF TypeOK, Ended
      <4>. QED BY <4>2, <4>3 DEF Carried, Refreshing
    <3>. QED BY <3>1, <3>2
  <2>. QED BY <1>12, <2>1 DEF RunLoop, Idles, external, TypeOK, Carried
<1>13. ASSUME NEW b \in Bots, Credentials(b) PROVE Typed'
  <2>1. memory \in Tokens \cup {NoToken} /\ (memory # NoToken => memory \in Tokens)
    BY DEF TypeOK
  <2>2. /\ bot' \in [Bots -> BotStates]
        /\ \A d \in Bots : Refreshing(d)' => bot'[d].token \in Tokens
    BY <1>13, <1>11, <2>1 DEF Credentials, BotPlaces
  <2>3. crossed' \in BOOLEAN
    BY <1>13 DEF Credentials, TypeOK, Busy, Refreshing
  <2>. QED BY <1>13, <2>2, <2>3 DEF Credentials, external, TypeOK, Carried
<1>14. ASSUME NEW b \in Bots, RefreshFails(b) PROVE Typed'
  <2>1. /\ bot' \in [Bots -> BotStates]
        /\ \A d \in Bots : Refreshing(d)' => bot'[d].token \in Tokens
    BY <1>14, <1>11 DEF RefreshFails, BotPlaces
  <2>. QED BY <1>14, <2>1 DEF RefreshFails, external, TypeOK, Carried
<1>15. ASSUME NEW b \in Bots, Refresh(b) PROVE Typed'
  <2>1. bot[b].token \in Tokens /\ bot[b].token.channel \in Channels
    BY <1>15 DEF Refresh, Carried, Refreshing, Tokens
  <2>2. Minted(bot[b].token.channel) \in Tokens /\ minted' \in 0..MaxTokens
    BY <1>15, <2>1, MintedType DEF Refresh
  <2>3. /\ bot' \in [Bots -> BotStates]
        /\ \A d \in Bots : Refreshing(d)' => bot'[d].token \in Tokens
    BY <1>15, <1>11, <2>2 DEF Refresh, BotPlaces
  <2>. QED BY <1>15, <2>2, <2>3 DEF Refresh, external, TypeOK, Carried
<1>16. ASSUME NEW b \in Bots, SaveRefreshed(b) PROVE Typed'
  <2>1. bot[b].token \in Tokens
    BY <1>16 DEF SaveRefreshed, Carried, Refreshing
  <2>2. /\ bot' \in [Bots -> BotStates]
        /\ \A d \in Bots : Refreshing(d)' => bot'[d].token \in Tokens
    BY <1>16, <1>11, <2>1 DEF SaveRefreshed, BotPlaces
  <2>. QED BY <1>16, <2>1, <2>2 DEF SaveRefreshed, external, TypeOK, Carried
<1>17. ASSUME NEW b \in Bots, StoreRefreshed(b) PROVE Typed'
  <2>1. bot[b].token \in Tokens
    BY <1>17 DEF StoreRefreshed, Carried, Refreshing
  <2>2. /\ bot' \in [Bots -> BotStates]
        /\ \A d \in Bots : Refreshing(d)' => bot'[d].token \in Tokens
    BY <1>17, <1>11, <2>1 DEF StoreRefreshed, BotPlaces
  <2>. QED BY <1>17, <2>1, <2>2 DEF StoreRefreshed, external, TypeOK, Carried
<1>18. ASSUME NEW b \in Bots, Dial(b) \/ ChatFails(b) \/ Unblock(b) PROVE Typed'
  <2>1. bot[b].token \in Tokens \cup {NoToken}
    BY DEF TypeOK, BotStates
  <2>2. /\ bot' \in [Bots -> BotStates]
        /\ \A d \in Bots : Refreshing(d)' => bot'[d].token \in Tokens
    BY <1>18, <1>11, <2>1 DEF Dial, ChatFails, Unblock, BotPlaces
  <2>. QED BY <1>18, <2>2 DEF Dial, ChatFails, Unblock, Idles, external, TypeOK, Carried
<1>19. ASSUME NEW n \in 1..MaxTokens, TokenExpires(n) PROVE Typed'
  BY <1>19 DEF TokenExpires, external, TypeOK, Carried, Refreshing
<1>20. ASSUME NEW b \in Bots, Start(b) PROVE Typed'
  <2>1. Idle \in HandlerStates /\ Started \in BotStates /\ Ended \in BotStates
    BY BotRecords DEF HandlerStates, Idle
  <2>2. restarts' \in 0..MaxRestarts
    BY <1>20, BoundAssumption DEF Start, TypeOK
  <2>3. connected' \in Channels \cup {NoChannel}
    BY <1>20 DEF Start, TypeOK, ChannelOf, Tokens
  <2>4. bot' \in [Bots -> BotStates] /\ handler' \in [Handlers -> HandlerStates]
    BY <1>20, <2>1 DEF Start
  <2>5. TypeOK'
    BY <1>20, <2>2, <2>3, <2>4 DEF Start, TypeOK
  <2>6. Carried'
    BY <1>20 DEF Start, Carried, Refreshing, Idle, Started, Ended
  <2>. QED BY <2>5, <2>6
<1>21. CASE UNCHANGED vars
  BY <1>21 DEF vars, TypeOK, Carried, Refreshing
<1>. QED
  BY <1>1, <1>2, <1>3, <1>4, <1>5, <1>6, <1>7, <1>8, <1>9, <1>10, <1>12, <1>13, <1>14,
     <1>15, <1>16, <1>17, <1>18, <1>19, <1>20, <1>21 DEF Next, BotStep

(* The controller's variables, its requests and its bots keep their types. *)
THEOREM TypeCorrect == Spec => []TypeOK
<1>1. Typed => TypeOK
  BY DEF Typed
<1>. QED BY <1>1, TypedInit, TypedStep, PTL DEF Spec
-----------------------------------------------------------------------------
(* A bot that is not cancelled, and whether there is none. *)
Live(b) == bot[b].at # "done" /\ bot[b].live
NoneLive == \A b \in Bots : ~Live(b)

(* What a bot does by itself makes no bot live, and ends none that is. *)
LEMMA BotMovesKeepLive ==
  ASSUME TypeOK, NEW b \in Bots, bot[b].at # "done",
         NEW at \in BotPlaces \ {"done"}, NEW t \in Tokens \cup {NoToken},
         BotGoto(b, at, t)
  PROVE  \A c \in Bots : Live(c)' <=> Live(c)
<1>1. /\ bot'[b] = [at |-> at, live |-> bot[b].live, token |-> t]
      /\ \A c \in Bots \ {b} : bot'[c] = bot[c]
  BY BotMoves
<1>2. Live(b)' <=> Live(b)
  BY <1>1 DEF Live
<1>. QED BY <1>1, <1>2 DEF Live

LEMMA BotStepsKeepLive ==
  ASSUME Typed, NEW b \in Bots, BotStep(b) \/ ChatFails(b)
  PROVE  /\ \A c \in Bots : Live(c)' <=> Live(c)
         /\ \A c \in Bots \ {b} : bot'[c] = bot[c]
         /\ cancel' = cancel
<1> USE DEF Typed
<1>1. CASE \E at \in BotPlaces \ {"done"}, t \in Tokens \cup {NoToken} :
             bot[b].at # "done" /\ BotGoto(b, at, t) /\ cancel' = cancel
  BY <1>1, BotMoves, BotMovesKeepLive
<1>2. CASE bot' = [bot EXCEPT ![b] = Ended] /\ ~bot[b].live /\ cancel' = cancel
  <2>1. bot'[b] = Ended /\ \A c \in Bots \ {b} : bot'[c] = bot[c]
    BY <1>2 DEF TypeOK
  <2>. QED BY <1>2, <2>1 DEF Live, Ended
<1>3. memory \in Tokens \cup {NoToken} /\ bot[b].token \in Tokens \cup {NoToken}
  BY DEF TypeOK, BotStates
<1>4. CASE RunLoop(b)
  <2>1. CASE bot[b].live
    BY <1>1, <1>4, <2>1 DEF RunLoop, Idles, BotPlaces
  <2>2. CASE ~bot[b].live
    BY <1>2, <1>4, <2>2 DEF RunLoop, Idles
  <2>. QED BY <2>1, <2>2
<1>5. CASE Credentials(b)
  BY <1>1, <1>3, <1>5 DEF Credentials, BotPlaces
<1>6. CASE RefreshFails(b)
  BY <1>1, <1>6 DEF RefreshFails, BotPlaces
<1>7. CASE Refresh(b)
  <2>1. bot[b].token.channel \in Channels
    BY <1>7 DEF Refresh, Carried, Refreshing, Tokens
  <2>2. Minted(bot[b].token.channel) \in Tokens
    BY <1>7, <2>1, MintedType DEF Refresh
  <2>. QED BY <1>1, <1>7, <2>2 DEF Refresh, BotPlaces
<1>8. CASE SaveRefreshed(b)
  BY <1>1, <1>3, <1>8 DEF SaveRefreshed, BotPlaces
<1>9. CASE StoreRefreshed(b)
  BY <1>1, <1>3, <1>9 DEF StoreRefreshed, BotPlaces
<1>10. CASE Dial(b) \/ ChatFails(b) \/ Unblock(b)
  BY <1>1, <1>3, <1>10 DEF Dial, ChatFails, Unblock, Idles, BotPlaces
<1>. QED BY <1>4, <1>5, <1>6, <1>7, <1>8, <1>9, <1>10 DEF BotStep

(* Starting a bot leaves it the only live one; disconnecting leaves none.  *)
LEMMA StartBotLive ==
  ASSUME TypeOK, OneLiveBot, NEW b \in Bots, bot' = BotsAfterStart(b)
  PROVE  Live(b)' /\ \A c \in Bots \ {b} : ~Live(c)'
BY DEF BotsAfterStart, Live, OneLiveBot, Started, TypeOK, BotStates

LEMMA DisconnectLive ==
  ASSUME TypeOK, OneLiveBot, NEW h \in Handlers, Disconnect(h)
  PROVE  NoneLive'
BY DEF Disconnect, NoneLive, Live, OneLiveBot, TypeOK, BotStates

LEMMA StartLive ==
  ASSUME TypeOK, NEW b \in Bots, Start(b)
  PROVE  \A c \in Bots : Live(c)' <=> (c = b /\ disk # NoToken)
BY DEF Start, Live, Started, Ended

LEMMA OneLiveStep == Typed /\ OneLiveBot /\ [Next]_vars => OneLiveBot'
<1> SUFFICES ASSUME Typed, OneLiveBot, [Next]_vars PROVE OneLiveBot'
  OBVIOUS
<1>1. CASE bot' = bot /\ cancel' = cancel
  BY <1>1 DEF OneLiveBot
<1>2. ASSUME NEW h \in Handlers, StartBot(h) PROVE OneLiveBot'
  BY <1>2, StartBotLive DEF StartBot, OneLiveBot, Live, Typed
<1>3. ASSUME NEW h \in Handlers, Disconnect(h) PROVE OneLiveBot'
  BY <1>3, DisconnectLive DEF OneLiveBot, NoneLive, Live, Typed
<1>4. ASSUME NEW b \in Bots, BotStep(b) \/ ChatFails(b) PROVE OneLiveBot'
  BY <1>4, BotStepsKeepLive DEF OneLiveBot, Live
<1>5. ASSUME NEW b \in Bots, Start(b) PROVE OneLiveBot'
  <2>1. disk # NoToken => cancel' = b
    BY <1>5 DEF Start
  <2>. QED BY <1>5, <2>1, StartLive DEF OneLiveBot, Live, Typed
<1>6. ASSUME NEW c \in Channels, NewState(c) \/ StateExpires(c) PROVE OneLiveBot'
  BY <1>1, <1>6 DEF NewState, StateExpires
<1>7. ASSUME NEW h \in Handlers, NEW c \in Channels, ConsumeState(h, c) PROVE OneLiveBot'
  BY <1>1, <1>7 DEF ConsumeState
<1>8. ASSUME NEW h \in Handlers,
             ConnectFails(h) \/ ExchangeCode(h) \/ Save(h) \/ Adopt(h) \/ Clear(h)
      PROVE  OneLiveBot'
  BY <1>1, <1>8 DEF ConnectFails, ExchangeCode, Save, Adopt, Clear
<1>9. ASSUME NEW n \in 1..MaxTokens, TokenExpires(n) PROVE OneLiveBot'
  BY <1>1, <1>9 DEF TokenExpires
<1>10. CASE UNCHANGED vars
  BY <1>1, <1>10 DEF vars
<1>. QED BY <1>2, <1>3, <1>4, <1>5, <1>6, <1>7, <1>8, <1>9, <1>10 DEF Next

LEMMA OneLiveInit == Init => OneLiveBot
BY DEF Init, OneLiveBot, Ended

(* Controller.cancel stops the only bot that is not cancelled, however     *)
(* connects, disconnects, refreshes and restarts interleave: no bot is     *)
(* left in a chat that nobody can stop.                                    *)
THEOREM OneLiveBotHolds == Spec => []OneLiveBot
<1>. QED BY TypedInit, TypedStep, OneLiveInit, OneLiveStep, PTL DEF Spec
-----------------------------------------------------------------------------
(* What holds while nothing has crossed: one request or one refresh runs   *)
(* at a time, and each has done its part of the work in order.             *)
Apart ==
  /\ \A g, h \in Handlers : Busy(g) /\ Busy(h) => g = h
  /\ \A b, c \in Bots : Refreshing(b) /\ Refreshing(c) => b = c
  /\ \A h \in Handlers, b \in Bots : ~(Busy(h) /\ Refreshing(b))

Agree == memory = disk /\ ChannelOf(memory) = connected /\ (memory = NoToken <=> NoneLive)

(* No request and no refresh has written one of memory and disk only. *)
Whole == /\ \A h \in Handlers : handler[h].at \in {"idle", "exchange", "save"}
         /\ \A b \in Bots : bot[b].at # "store"

HandlerInOrder(h) ==
  /\ handler[h].at \in {"adopt", "start"} => disk = handler[h].token
  /\ handler[h].at = "start" => memory = handler[h].token
  /\ handler[h].at = "clear" => memory = NoToken /\ NoneLive

BotInOrder(b) ==
  /\ Refreshing(b) => bot[b].token.channel = connected /\ ~NoneLive
  /\ bot[b].at = "store" => disk = bot[b].token

InOrder == /\ Whole => Agree
           /\ \A h \in Handlers : HandlerInOrder(h)
           /\ \A b \in Bots : BotInOrder(b)

Orderly == ~crossed => Apart /\ InOrder

(* After the step of the only request that runs, what is left to show is   *)
(* about that request.                                                     *)
LEMMA OneRequest ==
  ASSUME NEW h \in Handlers, \A g \in Handlers \ {h} : ~Busy(g)',
         \A b \in Bots : ~Refreshing(b)', Whole' => Agree', HandlerInOrder(h)'
  PROVE  Apart' /\ InOrder'
<1>1. Apart'
  BY DEF Apart
<1>2. \A g \in Handlers : HandlerInOrder(g)'
  BY DEF HandlerInOrder, Busy
<1>3. \A b \in Bots : BotInOrder(b)'
  BY DEF BotInOrder, Refreshing
<1>. QED BY <1>1, <1>2, <1>3 DEF InOrder

LEMMA OneRefresh ==
  ASSUME NEW b \in Bots, \A h \in Handlers : ~Busy(h)',
         \A c \in Bots \ {b} : ~Refreshing(c)', Whole' => Agree', BotInOrder(b)'
  PROVE  Apart' /\ InOrder'
<1>1. Apart'
  BY DEF Apart
<1>2. \A h \in Handlers : HandlerInOrder(h)'
  BY DEF HandlerInOrder, Busy
<1>3. \A c \in Bots : BotInOrder(c)'
  BY DEF BotInOrder, Refreshing
<1>. QED BY <1>1, <1>2, <1>3 DEF InOrder

(* A bot that is not refreshing moves, and nothing else. *)
LEMMA PlainBotMove ==
  ASSUME Orderly, NEW b \in Bots, ~Refreshing(b), ~Refreshing(b)',
         \A c \in Bots \ {b} : bot'[c] = bot[c],
         \A c \in Bots : Live(c)' <=> Live(c),
         UNCHANGED <<memory, disk, handler, connected, crossed>>
  PROVE  Orderly'
<1> SUFFICES ASSUME ~crossed PROVE Apart' /\ InOrder'
  BY DEF Orderly
<1>1. Apart /\ InOrder
  BY DEF Orderly
<1>2. NoneLive' <=> NoneLive
  BY DEF NoneLive
<1>3. \A c \in Bots : Refreshing(c)' <=> Refreshing(c)
  BY DEF Refreshing
<1>4. Apart'
  BY <1>1, <1>3 DEF Apart, Busy
<1>5. bot[b].at # "store" /\ bot'[b].at # "store"
  BY DEF Refreshing
<1>6. Whole' => Agree'
  BY <1>1, <1>2, <1>5 DEF InOrder, Whole, Agree, ChannelOf
<1>7. \A h \in Handlers : HandlerInOrder(h)'
  BY <1>1, <1>2 DEF InOrder, HandlerInOrder
<1>8. ASSUME NEW c \in Bots PROVE BotInOrder(c)'
  <2>1. CASE c = b
    BY <2>1, <1>5 DEF BotInOrder
  <2>2. CASE c # b
    BY <1>1, <1>2, <1>3, <2>2 DEF InOrder, BotInOrder
  <2>. QED BY <2>1, <2>2
<1>. QED BY <1>4, <1>6, <1>7, <1>8 DEF InOrder

(* A request that runs, or a refresh, is the only one. *)
LEMMA Alone ==
  ASSUME Orderly, ~crossed
  PROVE  /\ \A h \in Handlers : Busy(h) =>
              /\ \A g \in Handlers \ {h} : ~Busy(g)
              /\ \A b \in Bots : ~Refreshing(b)
         /\ \A b \in Bots : Refreshing(b) =>
              /\ \A h \in Handlers : ~Busy(h)
              /\ \A c \in Bots \ {b} : ~Refreshing(c)
BY DEF Orderly, Apart

LEMMA ConnectOrderly ==
  ASSUME Typed, Orderly, NEW h \in Handlers,
         ConnectFails(h) \/ ExchangeCode(h) \/ Save(h) \/ Adopt(h)
  PROVE  Orderly'
<1> USE DEF Typed
<1> SUFFICES ASSUME ~crossed' PROVE Apart' /\ InOrder'
  BY DEF Orderly
<1>1. UNCHANGED <<bot, connected, crossed>> /\ Busy(h)
  BY DEF ConnectFails, ExchangeCode, Save, Adopt, Busy
<1>2. /\ \A g \in Handlers \ {h} : ~Busy(g) /\ handler'[g] = handler[g]
      /\ \A b \in Bots : ~Refreshing(b)
  BY <1>1, Alone DEF ConnectFails, ExchangeCode, Save, Adopt, Goto, TypeOK
<1>3. /\ \A g \in Handlers \ {h} : ~Busy(g)'
      /\ \A b \in Bots : ~Refreshing(b)'
  BY <1>1, <1>2 DEF Busy, Refreshing
<1>4. NoneLive' <=> NoneLive
  BY <1>1 DEF NoneLive, Live
<1>5. handler[h].at \in {"exchange", "save"} => Agree
  BY <1>1, <1>2 DEF Orderly, InOrder, Whole, Busy, Refreshing
<1>6. CASE ConnectFails(h)
  <2>1. handler'[h].at = "idle"
    BY <1>6 DEF ConnectFails, TypeOK, Idle
  <2>2. Agree' /\ HandlerInOrder(h)'
    BY <1>1, <1>4, <1>5, <1>6, <2>1 DEF ConnectFails, Agree, ChannelOf, HandlerInOrder
  <2>. QED BY <1>3, <2>2, OneRequest
<1>7. CASE ExchangeCode(h)
  <2>1. handler'[h].at = "save"
    BY <1>7 DEF ExchangeCode, Goto, TypeOK
  <2>2. Agree' /\ HandlerInOrder(h)'
    BY <1>1, <1>4, <1>5, <1>7, <2>1 DEF ExchangeCode, Agree, ChannelOf, HandlerInOrder, external
  <2>. QED BY <1>3, <2>2, OneRequest
<1>8. CASE Save(h)
  <2>1. handler'[h].at = "adopt" /\ handler'[h].token = handler[h].token
    BY <1>8 DEF Save, Goto, TypeOK
  <2>2. ~Whole' /\ HandlerInOrder(h)'
    BY <1>8, <2>1 DEF Save, HandlerInOrder, Whole
  <2>. QED BY <1>3, <2>2, OneRequest
<1>9. CASE Adopt(h)
  <2>1. handler'[h].at = "start" /\ handler'[h].token = handler[h].token
    BY <1>9 DEF Adopt, Goto, TypeOK
  <2>2. disk = handler[h].token
    BY <1>1, <1>9 DEF Adopt, Orderly, InOrder, HandlerInOrder
  <2>3. ~Whole' /\ HandlerInOrder(h)'
    BY <1>9, <2>1, <2>2 DEF Adopt, HandlerInOrder, Whole
  <2>. QED BY <1>3, <2>3, OneRequest
<1>. QED BY <1>6, <1>7, <1>8, <1>9

LEMMA StartBotOrderly ==
  ASSUME Typed, OneLiveBot, Orderly, NEW h \in Handlers, StartBot(h)
  PROVE  Orderly'
<1> USE DEF Typed
<1> SUFFICES ASSUME ~crossed' PROVE Apart' /\ InOrder'
  BY DEF Orderly
<1>1. PICK b \in Bots : bot' = BotsAfterStart(b)
  BY DEF StartBot
<1>2. ~crossed /\ Busy(h)
  BY DEF StartBot, Busy
<1>3. /\ \A g \in Handlers \ {h} : ~Busy(g) /\ handler'[g] = handler[g]
      /\ \A c \in Bots : ~Refreshing(c)
      /\ handler'[h].at = "idle"
  BY <1>2, Alone DEF StartBot, TypeOK, Idle
<1>4. \A g \in Handlers \ {h} : ~Busy(g)'
  BY <1>3 DEF Busy
<1>5. ASSUME NEW c \in Bots PROVE ~Refreshing(c)'
  <2>1. bot'[c] = Started \/ bot'[c].at = bot[c].at
    BY <1>1 DEF BotsAfterStart, TypeOK, BotStates
  <2>. QED BY <1>3, <2>1 DEF Refreshing, Started
<1>6. memory = handler[h].token /\ disk = handler[h].token
  BY <1>2 DEF Orderly, InOrder, HandlerInOrder, StartBot
<1>7. handler[h].token \in Tokens /\ handler[h].token.channel = handler[h].channel
  BY DEF StartBot, Carried
<1>8. ~NoneLive'
  BY <1>1, StartBotLive DEF NoneLive
<1>9. memory' # NoToken
  BY <1>6, <1>7, NoTokenAssumption DEF StartBot, Tokens
<1>10. Agree'
  BY <1>6, <1>7, <1>8, <1>9 DEF StartBot, Agree, ChannelOf
<1>11. HandlerInOrder(h)'
  BY <1>3 DEF HandlerInOrder
<1>. QED BY <1>4, <1>5, <1>10, <1>11, OneRequest

LEMMA DisconnectOrderly ==
  ASSUME Typed, OneLiveBot, Orderly, NEW h \in Handlers, Disconnect(h)
  PROVE  Orderly'
<1> USE DEF Typed
<1> SUFFICES ASSUME ~crossed' PROVE Apart' /\ InOrder'
  BY DEF Orderly
<1>1. ~Crosses(h)
  BY DEF Disconnect, TypeOK
<1>2. /\ handler'[h].at = "clear"
      /\ \A g \in Handlers \ {h} : handler'[g] = handler[g]
  BY DEF Disconnect, Goto, TypeOK
<1>3. \A g \in Handlers \ {h} : ~Busy(g)'
  BY <1>1, <1>2 DEF Crosses, Busy
<1>4. ASSUME NEW c \in Bots PROVE ~Refreshing(c)'
  <2>1. bot'[c].at = bot[c].at
    BY DEF Disconnect, TypeOK, BotStates
  <2>. QED BY <1>1, <2>1 DEF Crosses, Refreshing
<1>5. NoneLive' /\ memory' = NoToken
  BY DisconnectLive DEF Disconnect
<1>6. ~Whole' /\ HandlerInOrder(h)'
  BY <1>2, <1>5 DEF Whole, HandlerInOrder
<1>. QED BY <1>3, <1>4, <1>6, OneRequest

LEMMA ClearOrderly ==
  ASSUME Typed, Orderly, NEW h \in Handlers, Clear(h)
  PROVE  Orderly'
<1> USE DEF Typed
<1> SUFFICES ASSUME ~crossed' PROVE Apart' /\ InOrder'
  BY DEF Orderly
<1>1. disk' = NoToken /\ ~crossed /\ Busy(h) /\ bot' = bot
  BY DEF Clear, Busy
<1>2. /\ \A g \in Handlers \ {h} : ~Busy(g) /\ handler'[g] = handler[g]
      /\ \A b \in Bots : ~Refreshing(b)
      /\ handler'[h].at = "idle"
  BY <1>1, Alone DEF Clear, TypeOK, Idle
<1>3. /\ \A g \in Handlers \ {h} : ~Busy(g)'
      /\ \A b \in Bots : ~Refreshing(b)'
  BY <1>1, <1>2 DEF Busy, Refreshing
<1>4. memory' = NoToken /\ NoneLive'
  BY <1>1 DEF Clear, Orderly, InOrder, HandlerInOrder, NoneLive, Live
<1>5. Agree' /\ HandlerInOrder(h)'
  BY <1>1, <1>2, <1>4 DEF Clear, Agree, ChannelOf, HandlerInOrder
<1>. QED BY <1>3, <1>5, OneRequest

LEMMA ConsumeOrderly ==
  ASSUME Typed, Orderly, NEW h \in Handlers, NEW c \in Channels, ConsumeState(h, c)
  PROVE  Orderly'
<1> USE DEF Typed
<1> SUFFICES ASSUME ~crossed' PROVE Apart' /\ InOrder'
  BY DEF Orderly
<1>1. ~Crosses(h) /\ ~crossed /\ ~Busy(h)
  BY DEF ConsumeState, TypeOK
<1>2. /\ handler'[h].at = "exchange"
      /\ \A g \in Handlers \ {h} : ~Busy(g) /\ handler'[g] = handler[g]
      /\ \A b \in Bots : ~Refreshing(b)
  BY <1>1 DEF ConsumeState, Goto, TypeOK, Crosses
<1>3. /\ \A g \in Handlers \ {h} : ~Busy(g)'
      /\ \A b \in Bots : ~Refreshing(b)'
  BY <1>2 DEF ConsumeState, Busy, Refreshing
<1>4. Agree
  BY <1>1, <1>2 DEF Orderly, InOrder, Whole, Busy, Refreshing
<1>5. Agree' /\ HandlerInOrder(h)'
  BY <1>2, <1>4 DEF ConsumeState, Agree, ChannelOf, NoneLive, Live, HandlerInOrder
<1>. QED BY <1>3, <1>5, OneRequest

LEMMA BotOrderly ==
  ASSUME Typed, OneLiveBot, Orderly, NEW b \in Bots, BotStep(b) \/ ChatFails(b)
  PROVE  Orderly'
<1> USE DEF Typed
<1>1. /\ \A c \in Bots : Live(c)' <=> Live(c)
      /\ \A c \in Bots \ {b} : bot'[c] = bot[c]
  BY BotStepsKeepLive
<1>2. NoneLive' <=> NoneLive
  BY <1>1 DEF NoneLive
<1>3. ASSUME ~Refreshing(b), ~Refreshing(b)',
             UNCHANGED <<memory, disk, handler, connected, crossed>>
      PROVE  Orderly'
  BY <1>1, <1>3, PlainBotMove
<1>4. ASSUME Refreshing(b), ~crossed, UNCHANGED handler
      PROVE  /\ \A h \in Handlers : ~Busy(h)'
             /\ \A c \in Bots \ {b} : ~Refreshing(c)'
             /\ bot[b].token.channel = connected /\ ~NoneLive
             /\ bot[b].at = "store" => disk = bot[b].token
             /\ bot[b].at # "store" => Agree
  <2>1. /\ \A h \in Handlers : ~Busy(h)
        /\ \A c \in Bots \ {b} : ~Refreshing(c)
    BY <1>4, Alone
  <2>2. /\ \A h \in Handlers : ~Busy(h)'
        /\ \A c \in Bots \ {b} : ~Refreshing(c)'
    BY <1>1, <1>4, <2>1 DEF Busy, Refreshing
  <2>3. Apart /\ InOrder
    BY <1>4 DEF Orderly
  <2>4. bot[b].at # "store" => Whole
    BY <2>1 DEF Whole, Busy, Refreshing
  <2>. QED BY <1>4, <2>2, <2>3, <2>4 DEF InOrder, BotInOrder
<1>5. CASE RunLoop(b)
  <2>1. bot'[b].at \in {"credentials", "done"}
    BY <1>5 DEF RunLoop, BotGoto, Ended, TypeOK
  <2>. QED BY <1>3, <1>5, <2>1 DEF RunLoop, Idles, Refreshing
<1>6. CASE Dial(b) \/ ChatFails(b) \/ Unblock(b)
  <2>1. bot'[b].at \in {"chat", "top"}
    BY <1>6 DEF Dial, ChatFails, Unblock, BotGoto, TypeOK
  <2>. QED BY <1>3, <1>6, <2>1 DEF Dial, ChatFails, Unblock, Idles, Refreshing
<1>7. CASE Credentials(b)
  <2>1. CASE crossed' = crossed /\ bot'[b].at \in {"top", "dial"}
    BY <1>3, <1>7, <2>1 DEF Credentials, Refreshing
  <2>2. CASE /\ memory # NoToken /\ BotGoto(b, "refresh", memory)
             /\ crossed' = (crossed \/ (\E h \in Handlers : Busy(h))
                                    \/ (\E c \in Bots \ {b} : Refreshing(c)))
    <3> SUFFICES ASSUME ~crossed' PROVE Apart' /\ InOrder'
      BY DEF Orderly
    <3>1. /\ ~crossed /\ \A h \in Handlers : ~Busy(h)
          /\ \A c \in Bots \ {b} : ~Refreshing(c)
      BY <2>2 DEF TypeOK
    <3>2. bot'[b].at = "refresh" /\ bot'[b].token = memory
      BY <2>2 DEF BotGoto, TypeOK
    <3>3. Agree
      <4>1. \A c \in Bots : bot[c].at # "store"
        BY <1>7, <3>1 DEF Credentials, Refreshing
      <4>2. Whole
        BY <3>1, <4>1 DEF Whole, Busy
      <4>. QED BY <3>1, <4>2 DEF Orderly, InOrder
    <3>4. Agree'
      BY <1>2, <1>7, <3>3 DEF Credentials, Agree, ChannelOf
    <3>5. BotInOrder(b)'
      BY <1>2, <1>7, <2>2, <3>2, <3>3 DEF Credentials, BotInOrder, Agree, ChannelOf
    <3>6. /\ \A h \in Handlers : ~Busy(h)'
          /\ \A c \in Bots \ {b} : ~Refreshing(c)'
      BY <1>1, <1>7, <3>1 DEF Credentials, Busy, Refreshing
    <3>. QED BY <3>4, <3>5, <3>6, OneRefresh
  <2>3. \/ crossed' = crossed /\ BotGoto(b, "top", NoToken)
        \/ crossed' = crossed /\ BotGoto(b, "dial", memory)
        \/ /\ memory # NoToken /\ BotGoto(b, "refresh", memory)
           /\ crossed' = (crossed \/ (\E h \in Handlers : Busy(h))
                                  \/ (\E c \in Bots \ {b} : Refreshing(c)))
    BY <1>7 DEF Credentials
  <2>. QED BY <2>1, <2>2, <2>3 DEF BotGoto, TypeOK
<1>8. CASE RefreshFails(b)
  <2> SUFFICES ASSUME ~crossed' PROVE Apart' /\ InOrder'
    BY DEF Orderly
  <2>1. Refreshing(b) /\ ~crossed /\ UNCHANGED <<memory, disk, handler, connected>>
    BY <1>8 DEF RefreshFails, Refreshing
  <2>2. bot'[b].at = "top"
    BY <1>8 DEF RefreshFails, BotGoto, TypeOK
  <2>3. Agree' /\ BotInOrder(b)'
    BY <1>2, <1>4, <1>8, <2>1, <2>2
       DEF RefreshFails, Agree, ChannelOf, BotInOrder, Refreshing
  <2>. QED BY <1>4, <2>1, <2>3, OneRefresh
<1>9. CASE Refresh(b)
  <2> SUFFICES ASSUME ~crossed' PROVE Apart' /\ InOrder'
    BY DEF Orderly
  <2>1. Refreshing(b) /\ ~crossed /\ UNCHANGED <<memory, disk, handler, connected>>
    BY <1>9 DEF Refresh, Refreshing
  <2>2. /\ bot'[b].at = "save"
        /\ bot'[b].token = Minted(bot[b].token.channel)
    BY <1>9 DEF Refresh, BotGoto, TypeOK
  <2>3. bot'[b].token.channel = bot[b].token.channel
    BY <2>2 DEF Minted
  <2>4. Agree'
    BY <1>2, <1>4, <1>9, <2>1 DEF Refresh, Agree, ChannelOf
  <2>5. BotInOrder(b)'
    BY <1>2, <1>4, <2>1, <2>2, <2>3 DEF BotInOrder
  <2>. QED BY <1>4, <2>1, <2>4, <2>5, OneRefresh
<1>10. CASE SaveRefreshed(b)
  <2> SUFFICES ASSUME ~crossed' PROVE Apart' /\ InOrder'
    BY DEF Orderly
  <2>1. /\ Refreshing(b) /\ ~crossed /\ UNCHANGED <<memory, handler, connected>>
        /\ disk' = bot[b].token
    BY <1>10 DEF SaveRefreshed, Refreshing
  <2>2. bot'[b].at = "store" /\ bot'[b].token = bot[b].token
    BY <1>10 DEF SaveRefreshed, BotGoto, TypeOK
  <2>3. ~Whole'
    BY <2>2 DEF Whole
  <2>4. BotInOrder(b)'
    BY <1>2, <1>4, <2>1, <2>2 DEF BotInOrder
  <2>. QED BY <1>4, <2>1, <2>3, <2>4, OneRefresh
<1>11. CASE StoreRefreshed(b)
  <2> SUFFICES ASSUME ~crossed' PROVE Apart' /\ InOrder'
    BY DEF Orderly
  <2>1. /\ Refreshing(b) /\ ~crossed /\ UNCHANGED <<disk, handler, connected>>
        /\ memory' = bot[b].token /\ bot[b].token \in Tokens
    BY <1>11 DEF StoreRefreshed, Refreshing, Carried
  <2>2. bot'[b].at = "dial"
    BY <1>11 DEF StoreRefreshed, BotGoto, TypeOK
  <2>3. memory' # NoToken
    BY <2>1, NoTokenAssumption DEF Tokens
  <2>4. Agree'
    BY <1>2, <1>4, <1>11, <2>1, <2>3 DEF StoreRefreshed, Agree, ChannelOf
  <2>5. BotInOrder(b)'
    BY <2>2 DEF BotInOrder, Refreshing
  <2>. QED BY <1>4, <2>1, <2>4, <2>5, OneRefresh
<1>. QED BY <1>5, <1>6, <1>7, <1>8, <1>9, <1>10, <1>11 DEF BotStep

LEMMA StartOrderly ==
  ASSUME Typed, NEW b \in Bots, Start(b)
  PROVE  Orderly'
<1>1. \A h \in Handlers : ~Busy(h)'
  BY DEF Start, Busy, Idle
<1>2. ASSUME NEW c \in Bots PROVE ~Refreshing(c)'
  BY DEF Start, Refreshing, Started, Ended
<1>3. NoneLive' <=> disk = NoToken
  BY StartLive DEF NoneLive, Typed
<1>4. Agree'
  BY <1>3 DEF Start, Agree, ChannelOf
<1>5. BotInOrder(b)'
  BY <1>2 DEF BotInOrder, Refreshing
<1>. QED BY <1>1, <1>2, <1>4, <1>5, OneRefresh DEF Orderly

LEMMA OrderlyInit == Init => Orderly
<1> SUFFICES ASSUME Init PROVE Apart /\ InOrder
  BY DEF Orderly
<1>1. \A h \in Handlers : handler[h].at = "idle"
  BY DEF Init, Idle
<1>2. \A b \in Bots : bot[b].at = "done"
  BY DEF Init, Ended
<1>3. Apart
  BY <1>1, <1>2 DEF Apart, Busy, Refreshing
<1>4. Agree
  BY <1>2 DEF Init, Agree, ChannelOf, NoneLive, Live
<1>5. (\A h \in Handlers : HandlerInOrder(h)) /\ (\A b \in Bots : BotInOrder(b))
  BY <1>1, <1>2 DEF HandlerInOrder, BotInOrder, Refreshing
<1>. QED BY <1>3, <1>4, <1>5 DEF InOrder

LEMMA OrderlyStep == Typed /\ OneLiveBot /\ Orderly /\ [Next]_vars => Orderly'
<1> SUFFICES ASSUME Typed, OneLiveBot, Orderly, [Next]_vars PROVE Orderly'
  OBVIOUS
<1>1. ASSUME UNCHANGED <<memory, disk, handler, bot, connected, crossed>> PROVE Orderly'
  <2>1. NoneLive' <=> NoneLive
    BY <1>1 DEF NoneLive, Live
  <2>2. Apart' <=> Apart
    BY <1>1 DEF Apart, Busy, Refreshing
  <2>3. InOrder' <=> InOrder
    BY <1>1, <2>1 DEF InOrder, Whole, Agree, ChannelOf, HandlerInOrder, BotInOrder,
                      Refreshing
  <2>. QED BY <1>1, <2>2, <2>3 DEF Orderly
<1>2. ASSUME NEW c \in Channels, NewState(c) \/ StateExpires(c) PROVE Orderly'
  BY <1>1, <1>2 DEF NewState, StateExpires
<1>3. ASSUME NEW n \in 1..MaxTokens, TokenExpires(n) PROVE Orderly'
  BY <1>1, <1>3 DEF TokenExpires
<1>4. CASE UNCHANGED vars
  BY <1>1, <1>4 DEF vars
<1>. QED BY <1>2, <1>3, <1>4, ConsumeOrderly, ConnectOrderly, StartBotOrderly,
            DisconnectOrderly, ClearOrderly, BotOrderly, StartOrderly DEF Next

(* Once requests and refreshes are over, and unless some overlapped or a   *)
(* write failed, memory, twitch.json, the channel connected last and the   *)
(* bot that runs agree.                                                    *)
THEOREM SettledAgreesHolds == Spec => []SettledAgrees
<1>1. Typed /\ OneLiveBot /\ Orderly => SettledAgrees
  <2> SUFFICES ASSUME Orderly, ~crossed, \A h \in Handlers : ~Busy(h),
                      \A b \in Bots : ~Refreshing(b)
               PROVE  Agree
    BY DEF SettledAgrees, Agree, NoneLive, Live
  <2>1. Whole
    BY DEF Whole, Busy, Refreshing
  <2>. QED BY <2>1 DEF Orderly, InOrder
<1>. QED BY <1>1, TypedInit, TypedStep, OneLiveInit, OneLiveStep, OrderlyInit,
            OrderlyStep, PTL DEF Spec
=============================================================================
