----------------------------- MODULE SubmitPage -----------------------------
(***************************************************************************)
(* One viewer's submit page (web/static/submit.js) and what the server     *)
(* makes of the form it sends (handlers_submit.go, queue/youtube.go): the  *)
(* clip's length, its price and where it starts.                           *)
(*                                                                         *)
(* The page shows one of three cards, and the cost of what the form holds. *)
(* It polls the session while a submission may be under way, and answers   *)
(* arrive in any order.  The balance it also shows is left out.            *)
(*                                                                         *)
(* A text the viewer types is what the parsers tell apart in it.  A        *)
(* duration is blank, a whole number, or a number like 50e1, which the     *)
(* browser accepts, parseInt reads as 50 and Atoi refuses.  A time is a    *)
(* sequence of numbers with what follows each: a unit, a colon or the end. *)
(*                                                                         *)
(* The specification is FormSpec: there are proofs, in PagesProofs, about  *)
(* both this page and the player page, whose specification is Spec.        *)
(***************************************************************************)
EXTENDS Integers, Sequences

CONSTANTS
  Videos,         \* well-formed YouTube ids
  NoVideo,        \* an id that is not well-formed
  Durations,      \* texts that the duration fields may hold
  Addresses,      \* what a viewer may put in the link and the start field
  Rate,           \* CREDITS_PER_SECOND
  OpeningBalance, \* credits the viewer has in this channel at first
  MinBillable,    \* minBillableSeconds, and the page's default: 10 in the code
  MaxSeconds,     \* the longest play length: 3600 in the code
  MaxClips,       \* bound: clips accepted
  Nothing         \* no request, no answer, no clip, nothing shown yet

ASSUME SubmitAssumption ==
  /\ NoVideo \notin Videos
  /\ {Rate, OpeningBalance, MaxClips} \subseteq Nat
  /\ {MinBillable, MaxSeconds} \subseteq Nat
  /\ MinBillable <= MaxSeconds

ASSUME TextAssumption ==
  /\ Durations \subseteq [form : {"blank", "whole", "mixed"}, n : Int]
  /\ \A a \in Addresses :
       {a.field, a.link.t, a.link.start, a.link.fragment} \subseteq
         Seq([n : Int, suffix : STRING])

VARIABLES
  creditsEnabled, \* the server's configuration
  valid,          \* the page's link leads to an open session
  signedIn,       \* the viewer's login session is valid
  balance,        \* the viewer's credits in the channel
  clips,          \* clips accepted so far
  clip,           \* history: the clip that the request under way became
  loggedIn,       \* of the page, as are the following
  card,           \* the card shown: none at first
  currentType,
  durationYt,     \* text of the field for YouTube clips
  durationUp,     \* text of the field for uploads
  costValue,      \* the cost shown
  request,        \* the form under way, while the button is disabled
  answer,         \* its answer under way
  checks          \* answers of /api/session/check under way

server == <<creditsEnabled, valid, signedIn, balance, clips, clip>>

form == <<currentType, durationYt, durationUp, costValue>>

sending == <<request, answer>>

formVars == <<server, loggedIn, card, form, sending, checks>>

-----------------------------------------------------------------------------
\* Lengths and prices.

Blank == [form |-> "blank", n |-> 0]

Whole(n) == [form |-> "whole", n |-> n]

\* A number whose digits, up to the first other character, read n.
Mixed(n) == [form |-> "mixed", n |-> n]

\* clampDuration
ClampDuration(text, def) ==
  IF text.form # "whole" \/ text.n < 0 THEN def
  ELSE IF text.n > MaxSeconds THEN MaxSeconds ELSE text.n

\* billableDuration, and billable of the page.
Billable(seconds) ==
  IF creditsEnabled /\ seconds < MinBillable THEN MinBillable ELSE seconds

\* The play length the server gives a clip.
Length(type, text) ==
  Billable(ClampDuration(text, IF type = "youtube" THEN MinBillable ELSE 0))

\* chargeSubmit
Cost(seconds) == IF creditsEnabled THEN seconds * Rate ELSE 0

\* currentDuration of the page: parseInt, or 0.
CurrentDuration(text) ==
  IF text.form = "blank" \/ text.n < 0 THEN 0 ELSE text.n

\* updateCost
Shown(type, yt, up) ==
  IF creditsEnabled
  THEN Billable(CurrentDuration(IF type = "youtube" THEN yt ELSE up)) * Rate
  ELSE costValue

-----------------------------------------------------------------------------
\* Starting times.  A text is a sequence of [n, suffix].  n is -1 where no natural
\* number is written, but 0 for a unit with nothing before it, which counts none.

Unparsed == -1

\* A loop that multiplies its total by base and adds the next of the terms.
Accumulate(base, terms) ==
  LET total[k \in 0 .. Len(terms)] ==
        IF k = 0 THEN 0 ELSE total[k - 1] * base + terms[k]
  IN total[Len(terms)]

\* Minutes and seconds, or hours too: every part but the last ends in a colon.
ParseColonTime(text) ==
  IF \A i \in DOMAIN text :
       text[i].n >= 0 /\ text[i].suffix = (IF i < Len(text) THEN "colon" ELSE "end")
  THEN Accumulate(60, [i \in DOMAIN text |-> text[i].n])
  ELSE Unparsed

\* Plausible bug: the hours of a time like 1h2m3s count as minutes.
UnitSecondsFlat == [h |-> 60, m |-> 60, s |-> 1]

UnitSeconds == [h |-> 3600, m |-> 60, s |-> 1]

\* parseTimeToSeconds: a number, a colon time, or numbers with units, where the
\* last unit may be left out.
ParseTimeToSeconds(text) ==
  IF text = << >> THEN 0
  ELSE IF \A i \in DOMAIN text : text[i].suffix \in {"colon", "end"}
  THEN IF ParseColonTime(text) = Unparsed THEN 0 ELSE ParseColonTime(text)
  ELSE IF \A i \in DOMAIN text :
            /\ text[i].n >= 0
            /\ \/ text[i].suffix \in DOMAIN UnitSeconds
               \/ text[i].suffix = "end" /\ i = Len(text)
  THEN Accumulate(1, [i \in DOMAIN text |->
                        text[i].n * (IF text[i].suffix = "end" THEN 1
                                     ELSE UnitSeconds[text[i].suffix])])
  ELSE 0

\* parseStart of the start field: a number or a colon time.
ParseStart(text) == IF text = << >> THEN Unparsed ELSE ParseColonTime(text)

\* The id ParseYouTube finds: of a bare id, in the path of youtu.be, or in the
\* v parameter or the path of youtube.com.
VideoOf(link) ==
  IF link.site \in {"bare", "youtu.be"}
  THEN IF Len(link.path) = 1 THEN link.path[1] ELSE NoVideo
  ELSE IF link.site # "youtube.com" THEN NoVideo
  ELSE IF link.v # NoVideo THEN link.v
  ELSE IF Len(link.path) >= 2 /\ link.path[1] \in {"embed", "shorts", "v", "live"}
  THEN link.path[2]
  ELSE NoVideo

\* The start that ParseYouTube finds: the parameters t and start come first.
LinkStart(link) ==
  ParseTimeToSeconds(IF link.t # << >> THEN link.t
                     ELSE IF link.start # << >> THEN link.start
                     ELSE link.fragment)

\* submitYouTube: a start field that can be read overrides the link.
StartSeconds(link, field) ==
  IF ParseStart(field) = Unparsed THEN LinkStart(link) ELSE ParseStart(field)

\* An upload, which has no address, starts at the beginning.
StartOf(address) ==
  IF address = Nothing THEN 0 ELSE StartSeconds(address.link, address.field)

-----------------------------------------------------------------------------
\* What the viewer does.

\* Plausible bug: the cost is not updated for the other type.
ToggleKeepsCost ==
  /\ card = "form"
  /\ currentType' = IF currentType = "youtube" THEN "upload" ELSE "youtube"
  /\ UNCHANGED <<server, loggedIn, card, durationYt, durationUp, costValue,
                 sending, checks>>

\* The type buttons.
Toggle ==
  /\ card = "form"
  /\ currentType' = IF currentType = "youtube" THEN "upload" ELSE "youtube"
  /\ costValue' = Shown(currentType', durationYt, durationUp)
  /\ UNCHANGED <<server, loggedIn, card, durationYt, durationUp,
                 sending, checks>>

\* Typing in the duration field that is shown.
TypeDuration(text) ==
  /\ card = "form"
  /\ IF currentType = "youtube"
     THEN durationYt' = text /\ UNCHANGED durationUp
     ELSE durationUp' = text /\ UNCHANGED durationYt
  /\ costValue' = Shown(currentType, durationYt', durationUp')
  /\ UNCHANGED <<server, loggedIn, card, currentType, sending, checks>>

\* The browser checks the min and step of every field before it submits, of the
\* hidden one too.
Submittable ==
  /\ durationYt.form = "whole" => durationYt.n >= 1
  /\ durationUp.form = "whole" => durationUp.n >= 0

Sent(text, default) == IF text.form = "blank" THEN Whole(default) ELSE text

\* The submit event.  The page sends the fields of the type chosen, and the
\* button is disabled until the answer is in.  Its link and start field do
\* not matter to the page, and are chosen when the server reads them.
Submit ==
  /\ card = "form"
  /\ request = Nothing
  /\ Submittable
  /\ request' = [type |-> currentType, shown |-> costValue,
                 duration |-> IF currentType = "youtube"
                              THEN Sent(durationYt, MinBillable)
                              ELSE Sent(durationUp, 0)]
  /\ UNCHANGED <<server, loggedIn, card, form, answer, checks>>

-----------------------------------------------------------------------------
\* What the server does.

\* Plausible bug: the charge is for the length that was asked for.
AcceptAsked(length, address) ==
  /\ clips < MaxClips
  /\ clips' = clips + 1
  /\ balance' = balance - Cost(request.duration.n)
  /\ clip' = [length |-> length, address |-> address, start |-> StartOf(address),
              charged |-> Cost(request.duration.n)]
  /\ answer' = "ok"

\* chargeSubmit, and the item that is queued.
Accept(length, address) ==
  /\ clips < MaxClips
  /\ clips' = clips + 1
  /\ balance' = balance - Cost(length)
  /\ clip' = [length |-> length, address |-> address, start |-> StartOf(address),
              charged |-> Cost(length)]
  /\ answer' = "ok"

Refuse(code) == answer' = code /\ UNCHANGED <<balance, clips, clip>>

\* handleSubmit, behind RequireViewer.  An upload may fail on its file.
HandleSubmit(address) ==
  LET length == Length(request.type, request.duration)
  IN /\ request # Nothing
     /\ answer = Nothing
     /\ address = Nothing <=> request.type = "upload"
     /\ IF ~signedIn THEN Refuse("401")
        ELSE IF ~valid THEN Refuse("403")
        ELSE IF address # Nothing /\ VideoOf(address.link) \notin Videos
        THEN Refuse("400")
        ELSE \/ request.type = "upload" /\ Refuse("400")
             \/ IF Cost(length) > balance THEN Refuse("402") ELSE Accept(length, address)
     /\ UNCHANGED <<creditsEnabled, valid, signedIn, loggedIn, card, form,
                    request, checks>>

\* The streamer stops the session or regenerates the link.
CloseSession ==
  /\ valid
  /\ valid' = FALSE
  /\ UNCHANGED <<creditsEnabled, signedIn, balance, clips, clip, loggedIn, card,
                 form, sending, checks>>

\* The viewer's login session ends: by a logout elsewhere, or with its term.
LoginEnds ==
  /\ signedIn
  /\ signedIn' = FALSE
  /\ UNCHANGED <<creditsEnabled, valid, balance, clips, clip, loggedIn, card,
                 form, sending, checks>>

-----------------------------------------------------------------------------
\* What the page does with answers.

\* checkSession, every ten seconds: the server answers whether the link is valid.
Poll ==
  /\ checks' = checks \cup {valid}
  /\ UNCHANGED <<server, loggedIn, card, form, sending>>

\* Plausible bug: only a page that shows no form yet listens to the poll.
CheckArrivesFirst(isValid) ==
  /\ isValid \in checks
  /\ checks' = checks \ {isValid}
  /\ card' = IF card = "form" THEN card
             ELSE IF ~isValid THEN "closed" ELSE IF loggedIn THEN "form" ELSE "login"
  /\ UNCHANGED <<server, loggedIn, form, sending>>

\* The answer of a poll chooses the card, whatever has happened since.
CheckArrives(isValid) ==
  /\ isValid \in checks
  /\ checks' = checks \ {isValid}
  /\ card' = IF ~isValid THEN "closed" ELSE IF loggedIn THEN "form" ELSE "login"
  /\ UNCHANGED <<server, loggedIn, form, sending>>

\* The answer to a submission.  Success resets the fields, but not the type.
AnswerArrives ==
  /\ answer # Nothing
  /\ request' = Nothing
  /\ answer' = Nothing
  /\ clip' = Nothing
  /\ card' = IF answer = "401" THEN "login" ELSE IF answer = "403" THEN "closed"
             ELSE card
  /\ loggedIn' = (loggedIn /\ answer # "401")
  /\ IF answer = "ok"
     THEN /\ durationYt' = Whole(MinBillable)
          /\ durationUp' = Whole(0)
          /\ costValue' = Shown(currentType, durationYt', durationUp')
     ELSE UNCHANGED <<durationYt, durationUp, costValue>>
  /\ UNCHANGED <<creditsEnabled, valid, signedIn, balance, clips,
                 currentType, checks>>

\* The connection fails before the server has the form, or before the page has
\* the answer.  The page cannot tell which, and lets the viewer try again.
SubmitFails ==
  /\ request # Nothing
  /\ request' = Nothing
  /\ answer' = Nothing
  /\ clip' = Nothing
  /\ UNCHANGED <<creditsEnabled, valid, signedIn, balance, clips,
                 loggedIn, card, form, checks>>

\* A poll fails; the page swallows the error.
PollFails(isValid) ==
  /\ isValid \in checks
  /\ checks' = checks \ {isValid}
  /\ UNCHANGED <<server, loggedIn, card, form, sending>>

-----------------------------------------------------------------------------
FormInit ==
  /\ creditsEnabled \in BOOLEAN
  /\ valid = TRUE
  /\ signedIn \in BOOLEAN
  /\ balance = OpeningBalance
  /\ clips = 0
  /\ clip = Nothing
  /\ loggedIn = signedIn
  /\ card = "none"
  /\ currentType = "youtube"
  /\ durationYt = Whole(MinBillable)
  /\ durationUp = Whole(0)
  /\ costValue = IF creditsEnabled THEN MinBillable * Rate ELSE Nothing
  /\ request = Nothing
  /\ answer = Nothing
  /\ checks = {}

FormNext ==
  \/ Toggle
  \/ \E text \in Durations : TypeDuration(text)
  \/ Submit
  \/ \E address \in Addresses \cup {Nothing} : HandleSubmit(address)
  \/ CloseSession \/ LoginEnds
  \/ Poll
  \/ \E isValid \in checks : CheckArrives(isValid) \/ PollFails(isValid)
  \/ AnswerArrives \/ SubmitFails

\* The page polls, and of answers that keep coming some arrive.
FormFairness ==
  /\ WF_formVars(Poll)
  /\ \A isValid \in BOOLEAN : SF_formVars(CheckArrives(isValid))

FormSpec == FormInit /\ [][FormNext]_formVars /\ FormFairness

-----------------------------------------------------------------------------
\* Properties.

\* "What's charged always equals what plays" (docs/data-flows.md:139): with
\* credits on, whatever text comes for the length, a clip has a bounded length
\* of its own and is charged for exactly that; with credits off it is free.
PaidIsPlayed ==
  clip # Nothing =>
    /\ clip.length <= MaxSeconds
    /\ creditsEnabled => /\ clip.length >= MinBillable
                         /\ clip.charged = clip.length * Rate
    /\ ~creditsEnabled => clip.charged = 0

\* A viewer never pays more than the cost the page showed when the form was
\* sent, and pays just that for a length the server can read and allows,
\* whatever was typed, toggled and reset on the way to it (submit.js:10).
ChargedAsShown ==
  clip # Nothing /\ creditsEnabled =>
    LET text == request.duration
    IN /\ clip.charged <= request.shown
       /\ text.form = "whole" /\ text.n <= MaxSeconds =>
            clip.charged = request.shown

\* What a time means: the number before each unit, or in each place of a clock
\* time, times its seconds.
Weight(text, i) ==
  IF text[i].suffix = "h" THEN 3600
  ELSE IF text[i].suffix = "m" THEN 60
  ELSE IF text[i].suffix = "s" THEN 1
  ELSE <<1, 60, 3600>>[Len(text) - i + 1]

Meant(text) ==
  Accumulate(1, [i \in DOMAIN text |-> text[i].n * Weight(text, i)])

Units(text) == [i \in DOMAIN text |-> text[i].suffix]

IsClock(text) ==
  /\ Units(text) \in {<<"end">>, <<"colon", "end">>, <<"colon", "colon", "end">>}
  /\ \A i \in DOMAIN text : text[i].n >= 0

IsUnits(text) ==
  /\ Units(text) \in {<<"h">>, <<"m">>, <<"s">>, <<"h", "m">>, <<"m", "s">>,
                      <<"h", "s">>, <<"h", "m", "s">>}
  /\ \A i \in DOMAIN text : text[i].n >= 0

LinkTime(link) ==
  IF link.t # << >> THEN link.t
  ELSE IF link.start # << >> THEN link.start ELSE link.fragment

\* A clip starts where the viewer said: at the time in the start field if that
\* is a clock time, or else at the time in the link (comments at
\* handlers_submit.go:108, youtube.go:12), in every way of writing them.  A field
\* of more than three parts is no time, but is read like one.
StartsWhereAsked ==
  clip # Nothing /\ clip.address # Nothing =>
    LET field == clip.address.field
        time  == LinkTime(clip.address.link)
    IN IF IsClock(field) THEN clip.start = Meant(field)
       ELSE IF Len(field) <= 3 /\ (IsClock(time) \/ IsUnits(time))
       THEN clip.start = Meant(time)
       ELSE clip.start >= 0

\* "Poll so the page closes promptly if the streamer stops the session"
\* (submit.js:189): whatever answers cross, of polls and of submissions, a page
\* whose link is dead comes to show that and never offers the form again.
ClosedForGood == ~valid ~> [](card = "closed")
=============================================================================
