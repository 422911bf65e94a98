--------------------------- MODULE TelegramSetup ---------------------------
(***************************************************************************)
(* The dialog that connects a bot (ui/src/components/TelegramSetup.tsx and *)
(* internal/api/handler/telegram_setup_handler.go), open in a job's form   *)
(* while jobs wait for replies through the same bot.  Its interval asks    *)
(* for the updates of a bot until one shows a chat.  Requests are served   *)
(* at one time and their answers received at another, in any order.        *)
(***************************************************************************)
EXTENDS Telegram

CONSTANTS
    Bot,         \* the token of the bot the jobs use
    OtherBot,    \* the token of another one
    MaxActs,     \* bound: clicks and messages to the bot in all
    MaxPolls     \* bound: different requests for updates under way

ASSUME SetupAssumption == Bot # OtherBot /\ None \notin {Bot, OtherBot} /\ MaxActs \in Nat /\ MaxPolls \in Nat

Tokens == {Bot, OtherBot}

\* A request for the updates of a bot, with its answer once it was served.
PollRequest == [token : Tokens, answer : Chats \cup {None, "sent"}]

VARIABLES
    token, chatId,  \* the form: telegram_bot_token, telegram_chat_id
    step,           \* "create", "token", "chat"; "left" once the form is closed
    input,          \* tokenInput
    bot,            \* the token that botInfo is about
    timer,          \* the token the running interval asks for
    verifies,       \* verifications under way
    polls,          \* requests for updates under way
    source,         \* history: the token chatId was detected for
    mixed,          \* history: the token changed, or differed from the input, while detecting
    clicks

uiVars == <<token, chatId, step, input, bot, timer, verifies, polls, source, mixed, clicks>>
botVars == <<tgVars, uiVars>>

BotInit ==
    /\ TgInit
    /\ \/ \* no form is open
          step = "left" /\ token = None /\ chatId = None /\ verifies = {}
       \/ \* the form of a new job, or of one without a bot
          step = "create" /\ token = None /\ chatId \in Chats \cup {None} /\ verifies = {}
       \/ \* the form of a job with a bot: autoVerify
          step = "chat" /\ token = Bot /\ chatId \in Chats \cup {None} /\ verifies = {[token |-> Bot, auto |-> TRUE]}
    \* Two waits, or a form and a wait that has sent its prompt.
    /\ IF step = "left" THEN stage = [w \in Waits |-> "away"]
       ELSE /\ alone /\ \A v, w \in Waits : chat[v] = chat[w]
            /\ \E w \in Waits : stage = [v \in Waits |-> IF v = w THEN "poll" ELSE "done"]
    /\ input = token
    /\ bot = None /\ timer = None /\ polls = {}
    /\ source = None /\ mixed = FALSE /\ clicks = 0

-----------------------------------------------------------------------------

Click == clicks + Len(updates) < MaxActs /\ clicks' = clicks + 1

\* The buttons of the steps, and the one of the first step.
GoTo(s) ==
    /\ Click
    /\ \/ s = "create" /\ step # "left"
       \/ s = "token" /\ (step \in {"create", "chat"} \/ (bot # None /\ step # "left"))
    /\ step # s
    /\ step' = s
    /\ UNCHANGED <<tgVars, token, chatId, input, bot, timer, verifies, polls, source, mixed>>

EditToken ==
    /\ Click
    /\ step = "token"
    /\ input' \in (Tokens \cup {None}) \ {input}
    /\ UNCHANGED <<tgVars, token, chatId, step, bot, timer, verifies, polls, source, mixed>>

\* handleVerify sends the token it was clicked with.
Verify ==
    /\ Click
    /\ step = "token" /\ input # None
    /\ verifies' = verifies \cup {[token |-> input, auto |-> FALSE]}
    /\ UNCHANGED <<tgVars, token, chatId, step, input, bot, timer, polls, source, mixed>>

\* The answer of a verification; autoVerify leaves the form's token alone.
Verified(r) ==
    /\ r \in verifies
    /\ verifies' = verifies \ {r}
    /\ \/ UNCHANGED <<token, step, bot, mixed>>
       \/ /\ step # "left"
          /\ bot' = r.token
          /\ step' = "chat"
          /\ token' = IF r.auto THEN token ELSE r.token
          /\ mixed' = (mixed \/ (token' # token /\ (timer # None \/ polls # {} \/ chatId # None)))
    /\ UNCHANGED <<tgVars, chatId, input, timer, polls, source, clicks>>

\* startDetecting: the interval keeps the token of this moment.
StartDetecting ==
    /\ Click
    /\ step = "chat" /\ chatId = None /\ timer = None /\ bot # None
    /\ timer' = IF input # None THEN input ELSE token
    /\ mixed' = (mixed \/ timer' # token)
    /\ UNCHANGED <<tgVars, token, chatId, step, input, bot, verifies, polls, source>>

StopPolling ==
    /\ Click
    /\ step = "chat" /\ chatId = None /\ timer # None
    /\ timer' = None
    /\ UNCHANGED <<tgVars, token, chatId, step, input, bot, verifies, polls, source, mixed>>

\* The interval fires, whatever became of its earlier requests.
Tick ==
    /\ timer # None
    /\ Cardinality(polls) < MaxPolls
    /\ polls' = polls \cup {[token |-> timer, answer |-> "sent"]}
    /\ UNCHANGED <<tgVars, token, chatId, step, input, bot, timer, verifies, source, mixed, clicks>>

Messages(ids) == {u \in ids : updates[u].chat # None}

\* Faulty: the last update is taken for a message.
Detected_Last == IF Batch(0) = {} THEN None ELSE updates[BatchEnd(0)].chat

\* The latest message of the updates that getUpdates returns without an offset.
Detected ==
    LET ms == Messages(Batch(0)) IN
    IF ms = {} THEN None ELSE updates[CHOOSE u \in ms : \A v \in ms : u >= v].chat

Answered(p, a) == polls' = (polls \ {p}) \cup {[p EXCEPT !.answer = a]}

\* Faulty: the request confirms what it returns.
DetectChatID_Confirms(p) ==
    /\ p \in polls /\ p.answer = "sent"
    /\ IF p.token = Bot
       THEN Answered(p, Detected) /\ confirmed' = BatchEnd(0)
       ELSE (\E a \in Chats \cup {None} : Answered(p, a)) /\ UNCHANGED confirmed
    /\ UNCHANGED <<updates, chat, alone, waitVars, token, chatId, step, input, bot, timer, verifies,
                   source, mixed, clicks>>

\* DetectChatID: nothing is confirmed.  The other bot may have any message.
DetectChatID(p) ==
    /\ p \in polls /\ p.answer = "sent"
    /\ IF p.token = Bot THEN Answered(p, Detected)
       ELSE \E a \in Chats \cup {None} : Answered(p, a)
    /\ UNCHANGED <<tgVars, token, chatId, step, input, bot, timer, verifies, source, mixed, clicks>>

\* The request fails: the interval goes on.
DetectFails(p) ==
    /\ p \in polls /\ p.answer = "sent"
    /\ polls' = polls \ {p}
    /\ UNCHANGED <<tgVars, token, chatId, step, input, bot, timer, verifies, source, mixed, clicks>>

\* The answer reaches the form, if it is still there, even after the interval was stopped.
Receive(p) ==
    /\ p \in polls /\ p.answer # "sent"
    /\ polls' = polls \ {p}
    /\ IF p.answer # None /\ step # "left"
       THEN chatId' = p.answer /\ source' = p.token /\ timer' = None
       ELSE UNCHANGED <<chatId, source, timer>>
    /\ UNCHANGED <<tgVars, token, step, input, bot, verifies, mixed, clicks>>

\* "Sil", and the field for a chat id.
SetChat ==
    /\ Click
    /\ step = "chat"
    /\ \/ chatId # None /\ chatId' = None
       \/ chatId = None /\ chatId' \in Chats
    /\ source' = None
    /\ UNCHANGED <<tgVars, token, step, input, bot, timer, verifies, polls, mixed>>

\* Faulty: the interval goes on.
Reset_Polls ==
    /\ Click
    /\ step # "left" /\ (bot # None \/ chatId # None)
    /\ token' = None /\ chatId' = None /\ input' = None /\ bot' = None
    /\ step' = "create"
    /\ source' = None /\ mixed' = (mixed \/ polls # {})
    /\ UNCHANGED <<tgVars, timer, verifies, polls>>

\* "Sıfırla": requests under way are not called back.
Reset ==
    /\ Click
    /\ step # "left" /\ (bot # None \/ chatId # None)
    /\ token' = None /\ chatId' = None /\ input' = None /\ bot' = None /\ timer' = None
    /\ step' = "create"
    /\ source' = None /\ mixed' = (mixed \/ polls # {})
    /\ UNCHANGED <<tgVars, verifies, polls>>

\* The form is saved or left: the component's clean-up stops the interval.
Leave ==
    /\ Click
    /\ step # "left" /\ step' = "left"
    /\ timer' = None
    /\ UNCHANGED <<tgVars, token, chatId, input, bot, verifies, polls, source, mixed>>

SetupNext ==
    \/ GoTo("create") \/ GoTo("token") \/ EditToken \/ Verify \/ StartDetecting \/ StopPolling \/ SetChat \/ Reset \/ Leave
    \/ \E r \in verifies : Verified(r)
    \/ Tick
    \/ \E p \in polls : DetectChatID(p) \/ DetectFails(p) \/ Receive(p)

BotNext == (WaitNext /\ clicks + Len(updates') <= MaxActs /\ UNCHANGED uiVars) \/ SetupNext

\* The interval fires, answers arrive, and not every request fails.
BotSpec ==
    /\ BotInit /\ [][BotNext]_botVars
    /\ WaitFairness
    /\ WF_botVars(Tick)
    /\ \A t \in Tokens :
        /\ SF_botVars(DetectChatID([token |-> t, answer |-> "sent"]))
        /\ \A c \in Chats : WF_botVars(Receive([token |-> t, answer |-> c]))

-----------------------------------------------------------------------------

SetupTypeOK ==
    /\ WaitTypeOK
    /\ {token, input, bot, timer, source} \subseteq Tokens \cup {None}
    /\ chatId \in Chats \cup {None}
    /\ step \in {"create", "token", "chat", "left"}
    /\ verifies \subseteq [token : Tokens, auto : BOOLEAN]
    /\ polls \subseteq PollRequest /\ Cardinality(polls) <= MaxPolls
    /\ mixed \in BOOLEAN /\ clicks \in 0..MaxActs

\* A detected chat id is one of the bot whose token the form holds, unless the
\* token changed, or was edited and not verified, while a request was under way.
ChatOfToken == source # None /\ ~mixed => source = token

\* A form that was left asks for nothing more.
LeftIsQuiet == step = "left" => timer = None

\* The types, the replies, and the form against the requests.
TelegramInv == SetupTypeOK /\ OldSkipped /\ FirstReply /\ ChatOfToken /\ LeftIsQuiet

\* Detecting ends once the bot has a message, unless a job's wait confirms it first
\* (or the updates returned hold no message).
DetectEnds ==
    timer = Bot /\ Messages(Batch(0)) # {} ~> timer # Bot \/ Messages(Batch(0)) = {}
=============================================================================
