------------------------------ MODULE SmsReply ------------------------------
(***************************************************************************)
(* How an SMS code reaches the run that waits for it: SMSCodeRegistry      *)
(* (service/sms_registry.go), APINotifier.WaitForReply                     *)
(* (service/api_notifier.go) and the sms-reply request, for one job.       *)
(*                                                                         *)
(* The registry has one entry per job, but a job may have several runs at  *)
(* a time: the loop's, and one per RunNow.  Every WaitForReply makes a     *)
(* channel of its own.  When TelegramNotifier.WaitForReply returns the     *)
(* right text is the subject of module Telegram; here its goroutine        *)
(* delivers any text or nothing: an answer to this wait's prompt, or a     *)
(* stray one, older than the wait or returned to another wait as well.     *)
(***************************************************************************)
EXTENDS Naturals, FiniteSets

CONSTANTS
    Runs,        \* runs of the job that may be in progress at once
    Requests,    \* sms-reply requests in progress at once
    Chans,       \* bound: the channels, one for each WaitForReply
    Codes,       \* codes; a user submits each once or answers a prompt with it
    None

ASSUME SmsAssumption == None \notin Chans /\ None \notin Codes

VARIABLES
    entry,    \* registry.channels[jobID], or None
    buf,      \* the buffer of each channel (capacity 1), or None
    tg,       \* the Telegram goroutine of each wait: "off", "poll", "done"
    tgBuf,    \* its channel tgCh
    run,      \* the runs: where they are, their channel, the code they got, and, as
              \* history, the codes sent off before the wait began
    req,      \* the requests: where they are, the channel looked up, the code
    made,     \* channels made so far
    typed,    \* history: the codes sent off so far
    stray     \* history: those that the chat gave a wait they were not written for

vars == <<entry, buf, tg, tgBuf, run, req, made, typed, stray>>

Away == [pc |-> "away", chan |-> None, got |-> None, old |-> {}]
NoReq == [pc |-> "idle", chan |-> None, code |-> None]

Init ==
    /\ entry = None
    /\ buf = [c \in Chans |-> None]
    /\ tg = [c \in Chans |-> "off"]
    /\ tgBuf = [c \in Chans |-> None]
    /\ run = [r \in Runs |-> Away]
    /\ req = [q \in Requests |-> NoReq]
    /\ made = {}
    /\ typed = {}
    /\ stray = {}

-----------------------------------------------------------------------------
(* SMSCodeRegistry *)

\* Faulty: the job's channel is made once and used again.
Register_Reused(r) ==
    \E c \in IF entry = None THEN Chans \ made ELSE {entry} :
        /\ made' = made \cup {c}
        /\ entry' = c
        /\ run' = [run EXCEPT ![r] = [pc |-> "wait", chan |-> c, got |-> None, old |-> typed]]

\* Register: a new channel takes the job's entry, whether it has one or not.
Register(r) ==
    \E c \in Chans \ made :
        /\ made' = made \cup {c}
        /\ entry' = c
        /\ run' = [run EXCEPT ![r] = [pc |-> "wait", chan |-> c, got |-> None, old |-> typed]]

\* Faulty: the deferred call is missing.
Unregister_Missing == UNCHANGED entry

\* Unregister: the job's entry is deleted, whosever channel it holds.
Unregister == entry' = None

IsWaiting == entry # None

-----------------------------------------------------------------------------
(* APINotifier.WaitForReply *)

\* The wait begins; with a Telegram configuration its goroutine starts too.
WaitBegin(r) ==
    /\ run[r].pc = "away"
    /\ Register(r)
    /\ tg' \in {tg, [tg EXCEPT ![run'[r].chan] = "poll"]}
    /\ UNCHANGED <<buf, tgBuf, req, typed, stray>>

\* Faulty: the code stays in the channel.
TakeApi_Left(r) ==
    /\ run[r].pc = "wait" /\ buf[run[r].chan] # None
    /\ run' = [run EXCEPT ![r].pc = "leave", ![r].got = buf[run[r].chan]]
    /\ UNCHANGED <<entry, buf, tg, tgBuf, req, made, typed, stray>>

\* case code := <-apiCh
TakeApi(r) ==
    /\ run[r].pc = "wait" /\ buf[run[r].chan] # None
    /\ run' = [run EXCEPT ![r].pc = "leave", ![r].got = buf[run[r].chan]]
    /\ buf' = [buf EXCEPT ![run[r].chan] = None]
    /\ UNCHANGED <<entry, tg, tgBuf, req, made, typed, stray>>

\* Faulty: the goroutines of all waits share one tgCh.
TakeTelegram_Shared(r) ==
    /\ run[r].pc = "wait"
    /\ \E c \in Chans : /\ tgBuf[c] # None
                        /\ run' = [run EXCEPT ![r].pc = "leave", ![r].got = tgBuf[c]]
                        /\ tgBuf' = [tgBuf EXCEPT ![c] = None]
    /\ UNCHANGED <<entry, buf, tg, req, made, typed, stray>>

\* case code := <-tgCh
TakeTelegram(r) ==
    /\ run[r].pc = "wait" /\ tgBuf[run[r].chan] # None
    /\ run' = [run EXCEPT ![r].pc = "leave", ![r].got = tgBuf[run[r].chan]]
    /\ tgBuf' = [tgBuf EXCEPT ![run[r].chan] = None]
    /\ UNCHANGED <<entry, buf, tg, req, made, typed, stray>>

\* Faulty: the select has no case for its context or its timer.
GiveUp_Missing(r) == FALSE /\ run[r].pc = "wait" /\ UNCHANGED vars

\* case <-timer.C or <-ctx.Done(): possible in every select, a code in the
\* buffer or not.
GiveUp(r) ==
    /\ run[r].pc = "wait"
    /\ run' = [run EXCEPT ![r].pc = "leave"]
    /\ UNCHANGED <<entry, buf, tg, tgBuf, req, made, typed, stray>>

\* The deferred calls: tgCancel, then Unregister; the run goes on.
WaitEnd(r) ==
    /\ run[r].pc = "leave"
    /\ run' = [run EXCEPT ![r] = [Away EXCEPT !.got = run[r].got]]
    /\ Unregister
    /\ UNCHANGED <<buf, tg, tgBuf, req, made, typed, stray>>

\* WaitForReply of the chat returns, even when its wait is over: with the answer to this
\* wait's prompt, or with any other text the chat has (an old one, an answer that
\* another wait got too, a code that the user also submits).
TgReply(c) ==
    /\ tg[c] = "poll"
    /\ \E k \in Codes :
         /\ \/ k \notin typed /\ UNCHANGED stray
            \/ stray' = stray \cup {k}
         /\ typed' = typed \cup {k}
         /\ tgBuf' = [tgBuf EXCEPT ![c] = k]
    /\ tg' = [tg EXCEPT ![c] = "done"]
    /\ UNCHANGED <<entry, buf, run, req, made>>

\* It fails, or sees its context cancelled between two polls.
TgFail(c) ==
    /\ tg[c] = "poll"
    /\ tg' = [tg EXCEPT ![c] = "done"]
    /\ UNCHANGED <<entry, buf, tgBuf, run, req, made, typed, stray>>

-----------------------------------------------------------------------------
(* The sms-reply request: JobHandler.SubmitSMSCode and Submit *)

\* Submit looks the channel up under the read lock; without one it answers 409.
SubmitLook(q, k) ==
    /\ req[q].pc = "idle"
    /\ entry # None
    /\ k \notin typed
    /\ typed' = typed \cup {k}
    /\ req' = [req EXCEPT ![q] = [pc |-> "send", chan |-> entry, code |-> k]]
    /\ UNCHANGED <<entry, buf, tg, tgBuf, run, made, stray>>

\* The send outside the lock: into the buffer (true, 200), or not when it is
\* full (false, 409).
SubmitSend(q) ==
    /\ req[q].pc = "send"
    /\ IF buf[req[q].chan] = None
       THEN /\ buf' = [buf EXCEPT ![req[q].chan] = req[q].code]
            /\ req' = [req EXCEPT ![q].pc = "ok"]
       ELSE /\ req' = [req EXCEPT ![q].pc = "conflict"]
            /\ UNCHANGED buf
    /\ UNCHANGED <<entry, tg, tgBuf, run, made, typed, stray>>

SubmitReturn(q) ==
    /\ req[q].pc \in {"ok", "conflict"}
    /\ req' = [req EXCEPT ![q] = NoReq]
    /\ UNCHANGED <<entry, buf, tg, tgBuf, run, made, typed, stray>>

-----------------------------------------------------------------------------
Next ==
    \/ \E r \in Runs : WaitBegin(r) \/ TakeApi(r) \/ TakeTelegram(r) \/ GiveUp(r) \/ WaitEnd(r)
    \/ \E c \in Chans : TgReply(c) \/ TgFail(c)
    \/ \E q \in Requests : (\E k \in Codes : SubmitLook(q, k)) \/ SubmitSend(q) \/ SubmitReturn(q)

Spec == Init /\ [][Next]_vars

\* The context of a wait has a deadline; a goroutine that can go on does.
FairSpec == /\ Spec
            /\ \A r \in Runs : /\ WF_vars(GiveUp(r))
                               /\ WF_vars(WaitEnd(r))
            /\ \A c \in Chans : WF_vars(TgFail(c))

-----------------------------------------------------------------------------

TypeOK ==
    /\ entry \in Chans \cup {None}
    /\ buf \in [Chans -> Codes \cup {None}]
    /\ tg \in [Chans -> {"off", "poll", "done"}]
    /\ tgBuf \in [Chans -> Codes \cup {None}]
    /\ run \in [Runs -> [pc : {"away", "wait", "leave"}, chan : Chans \cup {None},
                         got : Codes \cup {None}, old : SUBSET Codes]]
    /\ req \in [Requests -> {NoReq} \cup [pc : {"send", "ok", "conflict"}, chan : Chans, code : Codes]]
    /\ made \subseteq Chans
    /\ typed \subseteq Codes
    /\ stray \subseteq typed

Waiting(r) == run[r].pc = "wait"

\* A wait never returns a code that was sent off before it began, unless the chat itself
\* gave it a stray text: not one left over from an earlier wait or accepted for another
\* run, whatever requests and chat goroutines are still on their way when it begins.
OwnCode == \A r \in Runs : run[r].got \in run[r].old => run[r].got \in stray

\* A code goes to one wait and is not left in a channel once it was taken, again with
\* the chat's stray texts excepted (two waits that poll one chat may get one update).
CodeOnce ==
    \A r \in Runs : run[r].got \notin stray \cup {None} =>
        /\ \A c \in Chans : buf[c] # run[r].got /\ tgBuf[c] # run[r].got
        /\ \A s \in Runs \ {r} : run[s].got # run[r].got

\* Once no run waits the registry has no entry for the job: the UI does not go
\* on asking for a code.
NoLeftEntry == (\A r \in Runs : run[r].pc = "away") => ~IsWaiting

\* The types, the registry against the runs, and the codes.
SmsInv == TypeOK /\ NoLeftEntry /\ CodeOnce

\* Every wait ends.
WaitsEnd == \A r \in Runs : Waiting(r) ~> run[r].pc = "away"

-----------------------------------------------------------------------------
(* What a run may rely on *)

\* A code is on its way to a wait in one of its two channels, or in a request that has
\* looked up its channel and not sent yet.
OnItsWay(r, k) ==
    /\ Waiting(r)
    /\ \/ buf[run[r].chan] = k
       \/ tgBuf[run[r].chan] = k
       \/ \E q \in Requests : req[q].pc = "send" /\ req[q].chan = run[r].chan /\ req[q].code = k

Delivery == INSTANCE CodeDelivery WITH
    waiting <- {r \in Runs : Waiting(r)},
    typed   <- typed,
    stray   <- stray,
    owed    <- [r \in Runs |-> {k \in Codes : OnItsWay(r, k)}],
    got     <- [r \in Runs |-> run[r].got]

\* However runs, requests and the chat overlap, a run sees no more of them than codes
\* that are for its wait alone, and what the chat itself gets wrong: it returns one of
\* them, or gives up, and one is turned away only because another is there
\* (WaitForReply and Submit).
ImplementsDelivery == Delivery!Spec
=============================================================================
