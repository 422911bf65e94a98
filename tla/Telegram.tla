------------------------------ MODULE Telegram ------------------------------
(***************************************************************************)
(* Waiting for replies in Telegram chats (internal/notifier/telegram.go).  *)
(* Jobs may share a bot: each wait has an offset of its own, the updates   *)
(* are the bot's.  The Bot API, external, keeps those that are not         *)
(* confirmed; getUpdates(offset) confirms every update below offset and    *)
(* returns the first Limit of the rest.  Anybody may write at any time.    *)
(***************************************************************************)
EXTENDS Integers, Sequences, FiniteSets

CONSTANTS
    Waits,       \* calls of WaitForReply
    Chats,       \* the chats of the bot
    None,        \* no chat
    Subjects,    \* the chats the waits may be about
    Update,      \* what may arrive
    Limit,       \* the limit parameter of getUpdates
    MaxUpdates   \* bound: updates in all

ASSUME LimitAssumption == Limit \in Nat \ {0} /\ MaxUpdates \in Nat
\* A text, or a message without one, in a chat; or an update that is no message.
ASSUME UpdateAssumption ==
    /\ None \notin Chats /\ Subjects \subseteq [Waits -> Chats]
    /\ Update \subseteq [chat : Chats, text : BOOLEAN] \cup [chat : {None}, text : {FALSE}]

VARIABLES
    updates,    \* the updates so far; the index is the update id
    confirmed,  \* updates with an id up to this are confirmed
    chat,       \* the chat each wait is about; never changes
    alone,      \* only one wait at a time; never changes
    stage,      \* WaitForReply: "away", "send", "poll", "done" (or never called)
    offset,     \* a local variable: 0 outside the call
    reply,      \* the update a wait returned, 0 when none
    begun       \* history, when the offset was asked for: the last update, and whether the backlog can be skipped

waitVars == <<stage, offset, reply, begun>>
tgVars == <<updates, confirmed, chat, alone, waitVars>>

TgInit ==
    /\ updates = << >> /\ confirmed = 0
    /\ chat \in Subjects /\ alone \in BOOLEAN
    /\ stage \in [Waits -> {"away", "done", "poll"}]
    /\ offset = [w \in Waits |-> 0] /\ reply = [w \in Waits |-> 0]
    /\ begun = [w \in Waits |-> [last |-> 0, skips |-> TRUE]]

-----------------------------------------------------------------------------

Smaller(a, b) == IF a < b THEN a ELSE b
Larger(a, b) == IF a > b THEN a ELSE b

\* getUpdates(off): what is confirmed by it, and the ids it returns.
Confirms(off) == Larger(confirmed, off - 1)
BatchEnd(off) == Smaller(Confirms(off) + Limit, Len(updates))
Batch(off) == (Confirms(off) + 1)..BatchEnd(off)

Ours(w, ids) == {u \in ids : updates[u].text /\ updates[u].chat = chat[w]}

\* Faulty: the last text of our chat.
TextOf_Last(w, ids) ==
    IF Ours(w, ids) = {} THEN 0 ELSE CHOOSE u \in Ours(w, ids) : \A v \in Ours(w, ids) : u >= v

\* pollUpdates: the first text of our chat in the batch, 0 when there is none.
TextOf(w, ids) ==
    IF Ours(w, ids) = {} THEN 0 ELSE CHOOSE u \in Ours(w, ids) : \A v \in Ours(w, ids) : u <= v

\* Faulty: an update is passed over after each batch.
NextOffset_TooFar(w, off) == IF Batch(off) = {} THEN off ELSE BatchEnd(off) + 2

\* newOffset: past the text it stopped at, else past the batch.
NextOffset(w, off) ==
    IF Ours(w, Batch(off)) # {} THEN TextOf(w, Batch(off)) + 1
    ELSE IF Batch(off) = {} THEN off ELSE BatchEnd(off) + 1

\* The messages already there are skipped (the comment in WaitForReply) when our chat
\* left at most one text and the backlog fits in one answer, which does not fail.
Mark(w, failed) ==
    [last |-> Len(updates),
     skips |-> /\ ~failed
               /\ Cardinality(Ours(w, (confirmed + 1)..Len(updates))) <= 1
               /\ Len(updates) - confirmed <= Limit]

\* Where waits come one at a time, the next one begins after the last.
MayBegin(w) == stage[w] = "away" /\ (alone => \A v \in Waits : stage[v] \in {"away", "done"})

\* Faulty: the backlog is not skipped.
GetCurrentOffset_Zero(w) ==
    /\ MayBegin(w)
    /\ stage' = [stage EXCEPT ![w] = "send"]
    /\ offset' = [offset EXCEPT ![w] = 0]
    /\ begun' = [begun EXCEPT ![w] = Mark(w, FALSE)]
    /\ UNCHANGED <<updates, confirmed, chat, alone, reply>>

\* A wait begins: getCurrentOffset polls once from 0; after an error the offset is 0.
GetCurrentOffset(w) ==
    /\ MayBegin(w)
    /\ stage' = [stage EXCEPT ![w] = "send"]
    /\ \E failed \in BOOLEAN :
        /\ offset' = [offset EXCEPT ![w] = IF failed THEN 0 ELSE NextOffset(w, 0)]
        /\ begun' = [begun EXCEPT ![w] = Mark(w, failed)]
    /\ UNCHANGED <<updates, confirmed, chat, alone, reply>>

Return(w) == stage' = [stage EXCEPT ![w] = "done"] /\ offset' = [offset EXCEPT ![w] = 0]

\* Send the prompt; an error ends the wait.
SendPrompt(w) ==
    /\ stage[w] = "send"
    /\ \/ stage' = [stage EXCEPT ![w] = "poll"] /\ UNCHANGED offset
       \/ Return(w)
    /\ UNCHANGED <<updates, confirmed, chat, alone, reply, begun>>

\* pollUpdates(offset, ...): a text of our chat is the reply; otherwise the
\* offset moves past what was seen.  An error changes nothing.
Poll(w) ==
    /\ stage[w] = "poll"
    /\ confirmed' = Confirms(offset[w])
    /\ reply' = [reply EXCEPT ![w] = TextOf(w, Batch(offset[w]))]
    /\ IF Ours(w, Batch(offset[w])) # {} THEN Return(w)
       ELSE offset' = [offset EXCEPT ![w] = Larger(@, NextOffset(w, @))] /\ UNCHANGED stage
    /\ UNCHANGED <<updates, chat, alone, begun>>

\* The context is cancelled or the time is over.
GiveUp(w) ==
    /\ stage[w] = "poll"
    /\ Return(w)
    /\ UNCHANGED <<updates, confirmed, chat, alone, reply, begun>>

\* Somebody writes to the bot.
Arrive ==
    /\ Len(updates) < MaxUpdates
    /\ \E u \in Update : updates' = Append(updates, u)
    /\ UNCHANGED <<confirmed, chat, alone, waitVars>>

WaitNext ==
    \/ \E w \in Waits :
        GetCurrentOffset(w) \/ SendPrompt(w) \/ Poll(w) \/ GiveUp(w)
    \/ Arrive

\* Polls are made as long as a wait goes on.
WaitFairness ==
    \A w \in Waits :
        WF_tgVars(SendPrompt(w)) /\ WF_tgVars(Poll(w))

-----------------------------------------------------------------------------

WaitTypeOK ==
    /\ updates \in Seq(Update) /\ Len(updates) <= MaxUpdates
    /\ confirmed \in 0..MaxUpdates
    /\ chat \in [Waits -> Chats] /\ alone \in BOOLEAN
    /\ stage \in [Waits -> {"away", "send", "poll", "done"}]
    /\ offset \in [Waits -> 0..(MaxUpdates + 1)]
    /\ reply \in [Waits -> 0..MaxUpdates]
    /\ begun \in [Waits -> [last : 0..MaxUpdates, skips : BOOLEAN]]

\* The updates that came after a wait began.
Since(w) == (begun[w].last + 1)..Len(updates)

\* The reply is none of the messages that were there when the wait began, if they
\* could be skipped.
OldSkipped == \A w \in Waits : reply[w] # 0 /\ begun[w].skips => reply[w] > begun[w].last

\* No message the user writes from then on is passed over: as long as the wait
\* goes on, every one of them is still to be returned by a poll.  Another wait on
\* the same bot can take one away in two ways only: it is about another chat, or
\* it began after the message was written.
NothingPassedOver ==
    \A w \in Waits : stage[w] = "poll" =>
        \A u \in Ours(w, Since(w)) :
            \/ u >= offset[w] /\ u > confirmed
            \/ \E v \in Waits \ {w} :
                /\ ~alone
                /\ chat[v] # chat[w] \/ u <= begun[v].last

\* The reply is a text of our own chat, whoever else writes to the bot, and the
\* first of the wait, unless it is an older one or another wait was there.
FirstReply ==
    \A w \in Waits : reply[w] # 0 =>
        /\ updates[reply[w]].text /\ updates[reply[w]].chat = chat[w]
        /\ alone => Ours(w, (begun[w].last + 1)..(reply[w] - 1)) = {}

\* A message written while a wait goes on ends it, unless another wait takes it.
ReplyEndsWait ==
    \A w \in Waits :
        stage[w] = "poll" /\ Ours(w, Since(w)) # {}
            ~> stage[w] = "done" \/ (~alone /\ \A u \in Ours(w, Since(w)) : u <= confirmed)
=============================================================================
