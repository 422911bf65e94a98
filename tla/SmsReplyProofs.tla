--------------------------- MODULE SmsReplyProofs ---------------------------
(* Theorems about SmsReply, for any number of runs, requests, channels and codes. *)
EXTENDS SmsReply, TLAPS

-----------------------------------------------------------------------------
(* The inductive invariant *)

\* A channel belongs to the wait that made it; one not made yet is in nobody's hands.
OwnChannel ==
    /\ \A r \in Runs : run[r].pc # "away" => run[r].chan \in made
    /\ \A r, s \in Runs : run[r].pc # "away" /\ run[s].pc # "away" /\ run[r].chan = run[s].chan => r = s
    /\ \A q \in Requests : req[q].pc = "send" => req[q].chan \in made
    /\ \A c \in Chans \ made : buf[c] = None /\ tgBuf[c] = None /\ tg[c] = "off"

\* An entry is the channel of a wait that has not ended.
EntryOwned == entry # None => \E r \in Runs : run[r].pc # "away" /\ run[r].chan = entry

\* Every code on its way was sent off.
Underway ==
    /\ \A c \in Chans : {buf[c], tgBuf[c]} \subseteq typed \cup {None}
    /\ \A q \in Requests : req[q].pc = "send" => req[q].code \in typed
    /\ \A r \in Runs : run[r].got \in typed \cup {None} /\ run[r].old \subseteq typed

\* Every code is in one place, a channel, a request, or the run that returned it, unless
\* it is a stray text of the chat; one that was submitted is in one request or buffer.
OnePlace ==
    /\ \A c, d \in Chans : buf[c] # None =>
        /\ buf[c] = buf[d] => c = d
        /\ buf[c] = tgBuf[d] => buf[c] \in stray
    /\ \A c, d \in Chans : tgBuf[c] # None /\ tgBuf[c] = tgBuf[d] => c = d \/ tgBuf[c] \in stray
    /\ \A q \in Requests : req[q].pc = "send" =>
        /\ \A c \in Chans : /\ req[q].code # buf[c]
                            /\ req[q].code = tgBuf[c] => req[q].code \in stray
        /\ \A p \in Requests : req[p].pc = "send" /\ req[p].code = req[q].code => p = q
        /\ \A r \in Runs : run[r].got = req[q].code => req[q].code \in stray

\* A code on its way to a wait was sent off after the wait began, or is stray.
NewCodes ==
    \A r \in Runs : run[r].pc # "away" =>
        /\ buf[run[r].chan] \in run[r].old => buf[run[r].chan] \in stray
        /\ tgBuf[run[r].chan] \in run[r].old => tgBuf[run[r].chan] \in stray
        /\ \A q \in Requests : req[q].pc = "send" /\ req[q].chan = run[r].chan
             => (req[q].code \in run[r].old => req[q].code \in stray)

\* A reply of the chat is put into its channel once.
OneReply == \A c \in Chans : tg[c] # "done" => tgBuf[c] = None

IndInv ==
    /\ TypeOK /\ OwnChannel /\ EntryOwned /\ Underway /\ OnePlace /\ CodeOnce /\ NewCodes /\ OwnCode
    /\ OneReply

-----------------------------------------------------------------------------
\* A wait that takes a code has a channel to take it from.
LEMMA TypeStep ==
    ASSUME TypeOK, OwnChannel, [Next]_vars
    PROVE  TypeOK'
  <1> USE SmsAssumption DEF TypeOK, OwnChannel, NoReq, Away
  <1>1. ASSUME NEW r \in Runs, WaitBegin(r) PROVE TypeOK'
    BY <1>1 DEF WaitBegin, Register
  <1>2. ASSUME NEW r \in Runs, TakeApi(r) PROVE TypeOK'
    <2>1. run[r].chan \in Chans /\ buf[run[r].chan] \in Codes
      BY <1>2 DEF TakeApi
    <2>2. run'[r] = [run[r] EXCEPT !.pc = "leave", !.got = buf[run[r].chan]]
      BY <1>2 DEF TakeApi
    <2>3. run'[r] \in [pc : {"away", "wait", "leave"}, chan : Chans \cup {None},
                       got : Codes \cup {None}, old : SUBSET Codes]
      BY <2>1, <2>2
    <2>4. buf' \in [Chans -> Codes \cup {None}]
      BY <1>2 DEF TakeApi
    <2>5. run' = [run EXCEPT ![r] = run'[r]]
      BY <1>2 DEF TakeApi
    <2> QED BY <1>2, <2>3, <2>4, <2>5 DEF TakeApi
  <1>3. ASSUME NEW r \in Runs, TakeTelegram(r) PROVE TypeOK'
    <2>1. run[r].chan \in Chans /\ tgBuf[run[r].chan] \in Codes
      BY <1>3 DEF TakeTelegram
    <2>2. run'[r] = [run[r] EXCEPT !.pc = "leave", !.got = tgBuf[run[r].chan]]
      BY <1>3 DEF TakeTelegram
    <2>3. run'[r] \in [pc : {"away", "wait", "leave"}, chan : Chans \cup {None},
                       got : Codes \cup {None}, old : SUBSET Codes]
      BY <2>1, <2>2
    <2>4. tgBuf' \in [Chans -> Codes \cup {None}]
      BY <1>3 DEF TakeTelegram
    <2>5. run' = [run EXCEPT ![r] = run'[r]]
      BY <1>3 DEF TakeTelegram
    <2> QED BY <1>3, <2>3, <2>4, <2>5 DEF TakeTelegram
  <1>4. ASSUME NEW r \in Runs, GiveUp(r) PROVE TypeOK'
    BY <1>4 DEF GiveUp
  <1>5. ASSUME NEW r \in Runs, WaitEnd(r) PROVE TypeOK'
    BY <1>5 DEF WaitEnd, Unregister, Away
  <1>6. ASSUME NEW c \in Chans, TgReply(c) PROVE TypeOK'
    BY <1>6 DEF TgReply
  <1>7. ASSUME NEW c \in Chans, TgFail(c) PROVE TypeOK'
    BY <1>7 DEF TgFail
  <1>8. ASSUME NEW q \in Requests, NEW k \in Codes, SubmitLook(q, k) PROVE TypeOK'
    BY <1>8 DEF SubmitLook
  <1>9. ASSUME NEW q \in Requests, SubmitSend(q) PROVE TypeOK'
    BY <1>9 DEF SubmitSend
  <1>10. ASSUME NEW q \in Requests, SubmitReturn(q) PROVE TypeOK'
    BY <1>10 DEF SubmitReturn, NoReq
  <1>11. ASSUME UNCHANGED vars PROVE TypeOK'
    BY <1>11 DEF vars
  <1> QED BY <1>1, <1>2, <1>3, <1>4, <1>5, <1>6, <1>7, <1>8, <1>9, <1>10, <1>11 DEF Next

\* Register makes a channel nobody has; SubmitLook takes one that was made.
LEMMA ChannelStep ==
    ASSUME TypeOK, OwnChannel, EntryOwned, [Next]_vars
    PROVE  OwnChannel'
  <1> USE SmsAssumption DEF TypeOK, OwnChannel, EntryOwned, NoReq, Away
  <1>1. ASSUME NEW r \in Runs, WaitBegin(r) PROVE OwnChannel'
    BY <1>1 DEF WaitBegin, Register
  <1>2. ASSUME NEW r \in Runs, TakeApi(r) PROVE OwnChannel'
    BY <1>2 DEF TakeApi
  <1>3. ASSUME NEW r \in Runs, TakeTelegram(r) PROVE OwnChannel'
    BY <1>3 DEF TakeTelegram
  <1>4. ASSUME NEW r \in Runs, GiveUp(r) PROVE OwnChannel'
    BY <1>4 DEF GiveUp
  <1>5. ASSUME NEW r \in Runs, WaitEnd(r) PROVE OwnChannel'
    BY <1>5 DEF WaitEnd, Unregister, Away
  <1>6. ASSUME NEW c \in Chans, TgReply(c) PROVE OwnChannel'
    BY <1>6 DEF TgReply
  <1>7. ASSUME NEW c \in Chans, TgFail(c) PROVE OwnChannel'
    BY <1>7 DEF TgFail
  <1>8. ASSUME NEW q \in Requests, NEW k \in Codes, SubmitLook(q, k) PROVE OwnChannel'
    BY <1>8 DEF SubmitLook
  <1>9. ASSUME NEW q \in Requests, SubmitSend(q) PROVE OwnChannel'
    BY <1>9 DEF SubmitSend
  <1>10. ASSUME NEW q \in Requests, SubmitReturn(q) PROVE OwnChannel'
    BY <1>10 DEF SubmitReturn, NoReq
  <1>11. ASSUME UNCHANGED vars PROVE OwnChannel'
    BY <1>11 DEF vars
  <1> QED BY <1>1, <1>2, <1>3, <1>4, <1>5, <1>6, <1>7, <1>8, <1>9, <1>10, <1>11 DEF Next

\* The wait whose channel is the entry deletes it when it ends.
LEMMA EntryStep ==
    ASSUME TypeOK, EntryOwned, [Next]_vars
    PROVE  EntryOwned'
  <1> USE SmsAssumption DEF TypeOK, EntryOwned, NoReq, Away
  <1>1. ASSUME NEW r \in Runs, WaitBegin(r) PROVE EntryOwned'
    BY <1>1 DEF WaitBegin, Register
  <1>2. ASSUME NEW r \in Runs, TakeApi(r) PROVE EntryOwned'
    BY <1>2 DEF TakeApi
  <1>3. ASSUME NEW r \in Runs, TakeTelegram(r) PROVE EntryOwned'
    BY <1>3 DEF TakeTelegram
  <1>4. ASSUME NEW r \in Runs, GiveUp(r) PROVE EntryOwned'
    BY <1>4 DEF GiveUp
  <1>5. ASSUME NEW r \in Runs, WaitEnd(r) PROVE EntryOwned'
    BY <1>5 DEF WaitEnd, Unregister, Away
  <1>6. ASSUME NEW c \in Chans, TgReply(c) PROVE EntryOwned'
    BY <1>6 DEF TgReply
  <1>7. ASSUME NEW c \in Chans, TgFail(c) PROVE EntryOwned'
    BY <1>7 DEF TgFail
  <1>8. ASSUME NEW q \in Requests, NEW k \in Codes, SubmitLook(q, k) PROVE EntryOwned'
    BY <1>8 DEF SubmitLook
  <1>9. ASSUME NEW q \in Requests, SubmitSend(q) PROVE EntryOwned'
    BY <1>9 DEF SubmitSend
  <1>10. ASSUME NEW q \in Requests, SubmitReturn(q) PROVE EntryOwned'
    BY <1>10 DEF SubmitReturn, NoReq
  <1>11. ASSUME UNCHANGED vars PROVE EntryOwned'
    BY <1>11 DEF vars
  <1> QED BY <1>1, <1>2, <1>3, <1>4, <1>5, <1>6, <1>7, <1>8, <1>9, <1>10, <1>11 DEF Next

\* A code is sent off before it is in a request or a channel.
LEMMA UnderwayStep ==
    ASSUME TypeOK, Underway, [Next]_vars
    PROVE  Underway'
  <1> USE SmsAssumption DEF TypeOK, Underway, NoReq, Away
  <1>1. ASSUME NEW r \in Runs, WaitBegin(r) PROVE Underway'
    BY <1>1 DEF WaitBegin, Register
  <1>2. ASSUME NEW r \in Runs, TakeApi(r) PROVE Underway'
    BY <1>2 DEF TakeApi
  <1>3. ASSUME NEW r \in Runs, TakeTelegram(r) PROVE Underway'
    BY <1>3 DEF TakeTelegram
  <1>4. ASSUME NEW r \in Runs, GiveUp(r) PROVE Underway'
    BY <1>4 DEF GiveUp
  <1>5. ASSUME NEW r \in Runs, WaitEnd(r) PROVE Underway'
    BY <1>5 DEF WaitEnd, Unregister, Away
  <1>6. ASSUME NEW c \in Chans, TgReply(c) PROVE Underway'
    BY <1>6 DEF TgReply
  <1>7. ASSUME NEW c \in Chans, TgFail(c) PROVE Underway'
    BY <1>7 DEF TgFail
  <1>8. ASSUME NEW q \in Requests, NEW k \in Codes, SubmitLook(q, k) PROVE Underway'
    BY <1>8 DEF SubmitLook
  <1>9. ASSUME NEW q \in Requests, SubmitSend(q) PROVE Underway'
    BY <1>9 DEF SubmitSend
  <1>10. ASSUME NEW q \in Requests, SubmitReturn(q) PROVE Underway'
    BY <1>10 DEF SubmitReturn, NoReq
  <1>11. ASSUME UNCHANGED vars PROVE Underway'
    BY <1>11 DEF vars
  <1> QED BY <1>1, <1>2, <1>3, <1>4, <1>5, <1>6, <1>7, <1>8, <1>9, <1>10, <1>11 DEF Next

\* A code moves from a request to a channel and from there to a run; a new one is nowhere yet.
LEMMA PlaceStep ==
    ASSUME TypeOK, OwnChannel, Underway, OnePlace, CodeOnce, [Next]_vars
    PROVE  OnePlace'
  <1> USE SmsAssumption DEF TypeOK, OwnChannel, Underway, OnePlace, CodeOnce, NoReq, Away
  <1>1. ASSUME NEW r \in Runs, WaitBegin(r) PROVE OnePlace'
    BY <1>1 DEF WaitBegin, Register
  <1>2. ASSUME NEW r \in Runs, TakeApi(r) PROVE OnePlace'
    BY <1>2 DEF TakeApi
  <1>3. ASSUME NEW r \in Runs, TakeTelegram(r) PROVE OnePlace'
    BY <1>3 DEF TakeTelegram
  <1>4. ASSUME NEW r \in Runs, GiveUp(r) PROVE OnePlace'
    BY <1>4 DEF GiveUp
  <1>5. ASSUME NEW r \in Runs, WaitEnd(r) PROVE OnePlace'
    BY <1>5 DEF WaitEnd, Unregister, Away
  <1>6. ASSUME NEW c \in Chans, TgReply(c) PROVE OnePlace'
    BY <1>6 DEF TgReply
  <1>7. ASSUME NEW c \in Chans, TgFail(c) PROVE OnePlace'
    BY <1>7 DEF TgFail
  <1>8. ASSUME NEW q \in Requests, NEW k \in Codes, SubmitLook(q, k) PROVE OnePlace'
    BY <1>8 DEF SubmitLook
  <1>9. ASSUME NEW q \in Requests, SubmitSend(q) PROVE OnePlace'
    BY <1>9 DEF SubmitSend
  <1>10. ASSUME NEW q \in Requests, SubmitReturn(q) PROVE OnePlace'
    BY <1>10 DEF SubmitReturn, NoReq
  <1>11. ASSUME UNCHANGED vars PROVE OnePlace'
    BY <1>11 DEF vars
  <1> QED BY <1>1, <1>2, <1>3, <1>4, <1>5, <1>6, <1>7, <1>8, <1>9, <1>10, <1>11 DEF Next

\* A run that takes a code takes it from its only place.
LEMMA OnceStep ==
    ASSUME TypeOK, Underway, OnePlace, CodeOnce, [Next]_vars
    PROVE  CodeOnce'
  <1> USE SmsAssumption DEF TypeOK, Underway, OnePlace, CodeOnce, NoReq, Away
  <1>1. ASSUME NEW r \in Runs, WaitBegin(r) PROVE CodeOnce'
    BY <1>1 DEF WaitBegin, Register
  <1>2. ASSUME NEW r \in Runs, TakeApi(r) PROVE CodeOnce'
    BY <1>2 DEF TakeApi
  <1>3. ASSUME NEW r \in Runs, TakeTelegram(r) PROVE CodeOnce'
    BY <1>3 DEF TakeTelegram
  <1>4. ASSUME NEW r \in Runs, GiveUp(r) PROVE CodeOnce'
    BY <1>4 DEF GiveUp
  <1>5. ASSUME NEW r \in Runs, WaitEnd(r) PROVE CodeOnce'
    BY <1>5 DEF WaitEnd, Unregister, Away
  <1>6. ASSUME NEW c \in Chans, TgReply(c) PROVE CodeOnce'
    BY <1>6 DEF TgReply
  <1>7. ASSUME NEW c \in Chans, TgFail(c) PROVE CodeOnce'
    BY <1>7 DEF TgFail
  <1>8. ASSUME NEW q \in Requests, NEW k \in Codes, SubmitLook(q, k) PROVE CodeOnce'
    BY <1>8 DEF SubmitLook
  <1>9. ASSUME NEW q \in Requests, SubmitSend(q) PROVE CodeOnce'
    BY <1>9 DEF SubmitSend
  <1>10. ASSUME NEW q \in Requests, SubmitReturn(q) PROVE CodeOnce'
    BY <1>10 DEF SubmitReturn, NoReq
  <1>11. ASSUME UNCHANGED vars PROVE CodeOnce'
    BY <1>11 DEF vars
  <1> QED BY <1>1, <1>2, <1>3, <1>4, <1>5, <1>6, <1>7, <1>8, <1>9, <1>10, <1>11 DEF Next

\* A wait begins with a channel that is empty and that no request has looked up.
LEMMA NewStep ==
    ASSUME TypeOK, OwnChannel, Underway, NewCodes, [Next]_vars
    PROVE  NewCodes'
  <1> USE SmsAssumption DEF TypeOK, OwnChannel, Underway, NewCodes, NoReq, Away
  <1>1. ASSUME NEW r \in Runs, WaitBegin(r) PROVE NewCodes'
    BY <1>1 DEF WaitBegin, Register
  <1>2. ASSUME NEW r \in Runs, TakeApi(r) PROVE NewCodes'
    BY <1>2 DEF TakeApi
  <1>3. ASSUME NEW r \in Runs, TakeTelegram(r) PROVE NewCodes'
    BY <1>3 DEF TakeTelegram
  <1>4. ASSUME NEW r \in Runs, GiveUp(r) PROVE NewCodes'
    BY <1>4 DEF GiveUp
  <1>5. ASSUME NEW r \in Runs, WaitEnd(r) PROVE NewCodes'
    BY <1>5 DEF WaitEnd, Unregister, Away
  <1>6. ASSUME NEW c \in Chans, TgReply(c) PROVE NewCodes'
    BY <1>6 DEF TgReply
  <1>7. ASSUME NEW c \in Chans, TgFail(c) PROVE NewCodes'
    BY <1>7 DEF TgFail
  <1>8. ASSUME NEW q \in Requests, NEW k \in Codes, SubmitLook(q, k) PROVE NewCodes'
    BY <1>8 DEF SubmitLook
  <1>9. ASSUME NEW q \in Requests, SubmitSend(q) PROVE NewCodes'
    <2>1. CASE buf[req[q].chan] # None
      BY <1>9, <2>1 DEF SubmitSend
    <2>2. CASE buf[req[q].chan] = None
      <3>1. /\ buf' = [buf EXCEPT ![req[q].chan] = req[q].code]
            /\ req' = [req EXCEPT ![q].pc = "ok"]
            /\ UNCHANGED <<tgBuf, run, stray>>
        BY <1>9, <2>2 DEF SubmitSend
      <3>2. req[q].pc = "send" /\ req[q].chan \in Chans
        BY <1>9 DEF SubmitSend
      <3>3. ASSUME NEW r \in Runs, run[r].pc # "away"
            PROVE  /\ buf'[run[r].chan] \in run[r].old => buf'[run[r].chan] \in stray
                   /\ \A p \in Requests : req'[p].pc = "send" /\ req'[p].chan = run[r].chan
                        => (req'[p].code \in run[r].old => req'[p].code \in stray)
        <4>1. run[r].chan \in Chans
          BY <3>3
        <4>2. buf'[run[r].chan] = IF run[r].chan = req[q].chan THEN req[q].code ELSE buf[run[r].chan]
          BY <3>1, <3>2, <4>1
        <4>3. \A p \in Requests : req'[p].pc = "send" => req'[p] = req[p]
          BY <3>1
        <4> QED BY <3>2, <3>3, <4>2, <4>3
      <3> QED BY <3>1, <3>3
    <2> QED BY <2>1, <2>2
  <1>10. ASSUME NEW q \in Requests, SubmitReturn(q) PROVE NewCodes'
    BY <1>10 DEF SubmitReturn, NoReq
  <1>11. ASSUME UNCHANGED vars PROVE NewCodes'
    BY <1>11 DEF vars
  <1> QED BY <1>1, <1>2, <1>3, <1>4, <1>5, <1>6, <1>7, <1>8, <1>9, <1>10, <1>11 DEF Next

\* What a wait returns was in its channel.
LEMMA OwnStep ==
    ASSUME TypeOK, NewCodes, OwnCode, [Next]_vars
    PROVE  OwnCode'
  <1> USE SmsAssumption DEF TypeOK, NewCodes, OwnCode, NoReq, Away
  <1>1. ASSUME NEW r \in Runs, WaitBegin(r) PROVE OwnCode'
    BY <1>1 DEF WaitBegin, Register
  <1>2. ASSUME NEW r \in Runs, TakeApi(r) PROVE OwnCode'
    BY <1>2 DEF TakeApi
  <1>3. ASSUME NEW r \in Runs, TakeTelegram(r) PROVE OwnCode'
    BY <1>3 DEF TakeTelegram
  <1>4. ASSUME NEW r \in Runs, GiveUp(r) PROVE OwnCode'
    BY <1>4 DEF GiveUp
  <1>5. ASSUME NEW r \in Runs, WaitEnd(r) PROVE OwnCode'
    BY <1>5 DEF WaitEnd, Unregister, Away
  <1>6. ASSUME NEW c \in Chans, TgReply(c) PROVE OwnCode'
    BY <1>6 DEF TgReply
  <1>7. ASSUME NEW c \in Chans, TgFail(c) PROVE OwnCode'
    BY <1>7 DEF TgFail
  <1>8. ASSUME NEW q \in Requests, NEW k \in Codes, SubmitLook(q, k) PROVE OwnCode'
    BY <1>8 DEF SubmitLook
  <1>9. ASSUME NEW q \in Requests, SubmitSend(q) PROVE OwnCode'
    BY <1>9 DEF SubmitSend
  <1>10. ASSUME NEW q \in Requests, SubmitReturn(q) PROVE OwnCode'
    BY <1>10 DEF SubmitReturn, NoReq
  <1>11. ASSUME UNCHANGED vars PROVE OwnCode'
    BY <1>11 DEF vars
  <1> QED BY <1>1, <1>2, <1>3, <1>4, <1>5, <1>6, <1>7, <1>8, <1>9, <1>10, <1>11 DEF Next

\* The goroutine of a chat has done with it when it has put its reply there.
LEMMA ReplyStep ==
    ASSUME TypeOK, OwnChannel, OneReply, [Next]_vars
    PROVE  OneReply'
  <1> USE SmsAssumption DEF TypeOK, OwnChannel, OneReply, NoReq, Away
  <1>1. ASSUME NEW r \in Runs, WaitBegin(r) PROVE OneReply'
    BY <1>1 DEF WaitBegin, Register
  <1>2. ASSUME NEW r \in Runs, TakeApi(r) PROVE OneReply'
    BY <1>2 DEF TakeApi
  <1>3. ASSUME NEW r \in Runs, TakeTelegram(r) PROVE OneReply'
    BY <1>3 DEF TakeTelegram
  <1>4. ASSUME NEW r \in Runs, GiveUp(r) PROVE OneReply'
    BY <1>4 DEF GiveUp
  <1>5. ASSUME NEW r \in Runs, WaitEnd(r) PROVE OneReply'
    BY <1>5 DEF WaitEnd, Unregister, Away
  <1>6. ASSUME NEW c \in Chans, TgReply(c) PROVE OneReply'
    BY <1>6 DEF TgReply
  <1>7. ASSUME NEW c \in Chans, TgFail(c) PROVE OneReply'
    BY <1>7 DEF TgFail
  <1>8. ASSUME NEW q \in Requests, NEW k \in Codes, SubmitLook(q, k) PROVE OneReply'
    BY <1>8 DEF SubmitLook
  <1>9. ASSUME NEW q \in Requests, SubmitSend(q) PROVE OneReply'
    BY <1>9 DEF SubmitSend
  <1>10. ASSUME NEW q \in Requests, SubmitReturn(q) PROVE OneReply'
    BY <1>10 DEF SubmitReturn, NoReq
  <1>11. ASSUME UNCHANGED vars PROVE OneReply'
    BY <1>11 DEF vars
  <1> QED BY <1>1, <1>2, <1>3, <1>4, <1>5, <1>6, <1>7, <1>8, <1>9, <1>10, <1>11 DEF Next

-----------------------------------------------------------------------------

LEMMA InitInv == ASSUME Init PROVE IndInv
  BY SmsAssumption DEF Init, IndInv, TypeOK, OwnChannel, EntryOwned, Underway, OnePlace, CodeOnce,
     NewCodes, OwnCode, OneReply, NoReq, Away

LEMMA AlwaysInd == Spec => []IndInv
  <1>1. Init => IndInv
    BY InitInv
  <1>2. IndInv /\ [Next]_vars => IndInv'
    BY TypeStep, ChannelStep, EntryStep, UnderwayStep, PlaceStep, OnceStep, NewStep, OwnStep,
       ReplyStep DEF IndInv
  <1> QED BY <1>1, <1>2, PTL DEF Spec

\* A wait returns no code that was sent off before it began, however many runs and
\* requests of the job overlap (SMSCodeRegistry makes a channel for every wait), unless
\* the chat's own WaitForReply gave it a stray text.
THEOREM NoOldCode == Spec => []OwnCode
  <1>1. IndInv => OwnCode
    BY DEF IndInv
  <1> QED BY <1>1, AlwaysInd, PTL

\* The variables keep their types; the registry forgets a job whose waits are over,
\* although Unregister deletes the entry of whoever has it; and no code is used twice but a
\* stray text of the chat: a wait takes it out of the only place it is in.
THEOREM RegistryCorrect == Spec => []SmsInv
  <1>1. IndInv => SmsInv
    BY SmsAssumption DEF IndInv, SmsInv, TypeOK, EntryOwned, NoLeftEntry, IsWaiting
  <1> QED BY <1>1, AlwaysInd, PTL

-----------------------------------------------------------------------------
(* The refinement of CodeDelivery *)

SameWait(r) == Waiting(r)' = Waiting(r) /\ run'[r].got = run[r].got
SameOwed(r) == \A k \in Codes : OnItsWay(r, k)' <=> OnItsWay(r, k)
SameFor(r) == SameWait(r) /\ SameOwed(r)

\* What changes for the runs, and the abstract step that it is.
LEMMA DeliveryStutter ==
    ASSUME \A r \in Runs : SameFor(r), UNCHANGED <<typed, stray>>
    PROVE  UNCHANGED Delivery!vars
  <1>1. {r \in Runs : Waiting(r)}' = {r \in Runs : Waiting(r)}
    BY DEF SameFor, SameWait
  <1>2. \A r \in Runs : {k \in Codes : OnItsWay(r, k)}' = {k \in Codes : OnItsWay(r, k)}
    BY DEF SameFor, SameOwed
  <1>3. [r \in Runs |-> run[r].got]' = [r \in Runs |-> run[r].got]
    BY DEF SameFor, SameWait
  <1> QED BY <1>1, <1>2, <1>3 DEF Delivery!vars

LEMMA DeliveryBegin ==
    ASSUME NEW r \in Runs, ~Waiting(r), Waiting(r)', run'[r].got = None,
           \A s \in Runs \ {r} : SameWait(s), \A s \in Runs : SameOwed(s), UNCHANGED <<typed, stray>>
    PROVE  Delivery!Begin(r)
  <1>1. {s \in Runs : Waiting(s)}' = {s \in Runs : Waiting(s)} \cup {r}
    BY DEF SameWait
  <1>2. [s \in Runs |-> {k \in Codes : OnItsWay(s, k)}]' = [s \in Runs |-> {k \in Codes : OnItsWay(s, k)}]
    <2>1. \A s \in Runs : {k \in Codes : OnItsWay(s, k)}' = {k \in Codes : OnItsWay(s, k)}
      BY DEF SameOwed
    <2> QED BY <2>1
  <1>3. [s \in Runs |-> run[s].got]' = [[s \in Runs |-> run[s].got] EXCEPT ![r] = None]
    BY DEF SameWait
  <1> QED BY <1>1, <1>2, <1>3 DEF Delivery!Begin

LEMMA DeliveryGoes ==
    ASSUME NEW k \in Codes, \A r \in Runs : SameWait(r),
           \/ \A r \in Runs : SameOwed(r)
           \/ \E r \in Runs :
                /\ Waiting(r)
                /\ \A s \in Runs \ {r} : SameOwed(s)
                /\ \A l \in Codes : OnItsWay(r, l)' <=> OnItsWay(r, l) \/ l = k
    PROVE  /\ k \notin typed /\ typed' = typed \cup {k} /\ stray' = stray => Delivery!Type(k)
           /\ typed' = typed \cup {k} /\ stray' = stray \cup {k} => Delivery!Stray(k)
  <1> DEFINE owed == [r \in Runs |-> {l \in Codes : OnItsWay(r, l)}]
  <1>1. {r \in Runs : Waiting(r)}' = {r \in Runs : Waiting(r)}
    BY DEF SameWait
  <1>2. [r \in Runs |-> run[r].got]' = [r \in Runs |-> run[r].got]
    BY DEF SameWait
  <1>3. owed' \in {owed} \cup {[owed EXCEPT ![r] = @ \cup {k}] : r \in {s \in Runs : Waiting(s)}}
    <2>1. CASE \A r \in Runs : SameOwed(r)
      <3>1. \A r \in Runs : {l \in Codes : OnItsWay(r, l)}' = {l \in Codes : OnItsWay(r, l)}
        BY <2>1 DEF SameOwed
      <3>2. owed' = owed
        BY <3>1
      <3> QED BY <3>2
    <2>2. ASSUME NEW r \in Runs, Waiting(r), \A s \in Runs \ {r} : SameOwed(s),
                 \A l \in Codes : OnItsWay(r, l)' <=> OnItsWay(r, l) \/ l = k
          PROVE  owed' = [owed EXCEPT ![r] = @ \cup {k}]
      <3>1. {l \in Codes : OnItsWay(r, l)}' = {l \in Codes : OnItsWay(r, l)} \cup {k}
        BY <2>2
      <3>2. \A s \in Runs \ {r} : {l \in Codes : OnItsWay(s, l)}' = {l \in Codes : OnItsWay(s, l)}
        BY <2>2 DEF SameOwed
      <3> QED BY <3>1, <3>2
    <2> QED BY <2>1, <2>2
  <1> QED BY <1>1, <1>2, <1>3 DEF Delivery!Type, Delivery!Stray, Delivery!Goes

LEMMA DeliveryTurnAway ==
    ASSUME NEW r \in Runs, NEW k \in Codes, NEW l \in Codes \ {k}, OnItsWay(r, k), OnItsWay(r, l),
           \A s \in Runs : SameWait(s), \A s \in Runs \ {r} : SameOwed(s),
           \A m \in Codes : OnItsWay(r, m)' <=> OnItsWay(r, m) /\ m # k, UNCHANGED <<typed, stray>>
    PROVE  Delivery!TurnAway(r, k)
  <1> DEFINE owed == [s \in Runs |-> {m \in Codes : OnItsWay(s, m)}]
  <1>1. {s \in Runs : Waiting(s)}' = {s \in Runs : Waiting(s)}
    BY DEF SameWait
  <1>2. [s \in Runs |-> run[s].got]' = [s \in Runs |-> run[s].got]
    BY DEF SameWait
  <1>3. owed' = [owed EXCEPT ![r] = @ \ {k}]
    <2>1. {m \in Codes : OnItsWay(r, m)}' = {m \in Codes : OnItsWay(r, m)} \ {k}
      OBVIOUS
    <2>2. \A s \in Runs \ {r} : {m \in Codes : OnItsWay(s, m)}' = {m \in Codes : OnItsWay(s, m)}
      BY DEF SameOwed
    <2> QED BY <2>1, <2>2
  <1>4. k \in owed[r] /\ owed[r] # {k}
    OBVIOUS
  <1> QED BY <1>1, <1>2, <1>3, <1>4 DEF Delivery!TurnAway

LEMMA DeliveryEnd ==
    ASSUME NEW r \in Runs, Waiting(r), ~Waiting(r)', \A s \in Runs \ {r} : SameFor(s), UNCHANGED <<typed, stray>>
    PROVE  /\ Delivery!End(r)
           /\ run'[r].got = run[r].got => Delivery!GiveUp(r)
           /\ \A k \in Codes : OnItsWay(r, k) /\ run'[r].got = k => Delivery!Return(r, k)
  <1> DEFINE owed == [s \in Runs |-> {k \in Codes : OnItsWay(s, k)}]
             got == [s \in Runs |-> run[s].got]
  <1>1. {s \in Runs : Waiting(s)}' = {s \in Runs : Waiting(s)} \ {r}
    BY DEF SameFor, SameWait
  <1>2. owed' = [owed EXCEPT ![r] = {}]
    <2>1. {k \in Codes : OnItsWay(r, k)}' = {}
      BY DEF OnItsWay
    <2>2. \A s \in Runs \ {r} : {k \in Codes : OnItsWay(s, k)}' = {k \in Codes : OnItsWay(s, k)}
      BY DEF SameFor, SameOwed
    <2> QED BY <2>1, <2>2
  <1>3. Delivery!End(r)
    BY <1>1, <1>2 DEF Delivery!End
  <1>4. ASSUME run'[r].got = run[r].got PROVE got' = got
    BY <1>4 DEF SameFor, SameWait
  <1>5. got' = [got EXCEPT ![r] = run'[r].got]
    BY DEF SameFor, SameWait
  <1>6. ASSUME NEW k \in Codes, OnItsWay(r, k) PROVE k \in owed[r]
    BY <1>6
  <1> QED BY <1>3, <1>4, <1>5, <1>6 DEF Delivery!GiveUp, Delivery!Return

\* What is on its way to a run is left alone by a step that does not touch the run, its
\* channel or a request that sends.
LEMMA OwedKept ==
    ASSUME NEW r \in Runs, Waiting(r)' = Waiting(r),
           Waiting(r) => /\ run'[r].chan = run[r].chan
                         /\ buf'[run[r].chan] = buf[run[r].chan]
                         /\ tgBuf'[run[r].chan] = tgBuf[run[r].chan],
           \A q \in Requests : \/ req'[q] = req[q]
                               \/ req[q].pc # "send" /\ req'[q].pc # "send"
    PROVE  SameOwed(r)
  BY DEF SameOwed, OnItsWay

\* What one step may do, of all that CodeDelivery allows.
Delivered == Delivery!Next \/ UNCHANGED Delivery!vars

LEMMA WaitRefines ==
    ASSUME IndInv, NEW r \in Runs,
           WaitBegin(r) \/ TakeApi(r) \/ TakeTelegram(r) \/ GiveUp(r) \/ WaitEnd(r)
    PROVE  Delivered
  <1> USE DEF TypeOK, OwnChannel
  <1>0. TypeOK /\ OwnChannel
    BY DEF IndInv
  <1>1. CASE WaitBegin(r)
    <2>1. PICK c \in Chans \ made :
            run' = [run EXCEPT ![r] = [pc |-> "wait", chan |-> c, got |-> None, old |-> typed]]
      BY <1>1 DEF WaitBegin, Register
    <2>2. run[r].pc = "away" /\ UNCHANGED <<buf, tgBuf, req, typed, stray>>
      BY <1>1 DEF WaitBegin
    <2>3. run'[r].pc = "wait" /\ run'[r].chan = c /\ run'[r].got = None
      BY <1>0, <2>1
    <2>4. \A s \in Runs \ {r} : run'[s] = run[s]
      BY <1>0, <2>1
    <2>5. ~Waiting(r) /\ Waiting(r)' /\ run'[r].got = None
      BY <2>2, <2>3 DEF Waiting
    <2>6. \A s \in Runs \ {r} : SameWait(s)
      BY <2>4 DEF SameWait, Waiting
    <2>7. SameOwed(r)
      <3>1. \A k \in Codes : ~OnItsWay(r, k)
        BY <2>5 DEF OnItsWay
      <3>2. \A k \in Codes : buf[c] # k /\ tgBuf[c] # k
        BY <1>0, SmsAssumption
      <3>3. \A q \in Requests : req[q].pc = "send" => req[q].chan # c
        BY <1>0
      <3>4. \A k \in Codes : ~OnItsWay(r, k)'
        BY <2>2, <2>3, <3>2, <3>3 DEF OnItsWay
      <3> QED BY <3>1, <3>4 DEF SameOwed
    <2>8. \A s \in Runs \ {r} : SameOwed(s)
      BY <2>2, <2>4, <2>6, OwedKept DEF SameWait
    <2>9. Delivery!Begin(r)
      BY <2>2, <2>5, <2>6, <2>7, <2>8, DeliveryBegin
    <2> QED BY <2>9 DEF Delivered, Delivery!Next
  <1>2. ASSUME run[r].pc = "wait", run'[r].pc = "leave", \A s \in Runs \ {r} : run'[s] = run[s],
               \A c \in Chans \ {run[r].chan} : buf'[c] = buf[c] /\ tgBuf'[c] = tgBuf[c],
               UNCHANGED <<req, typed, stray>>,
               run'[r].got = run[r].got \/ \E k \in Codes : OnItsWay(r, k) /\ run'[r].got = k
        PROVE  Delivered
    <2>1. Waiting(r) /\ ~Waiting(r)'
      BY <1>2 DEF Waiting
    <2>2. ASSUME NEW s \in Runs \ {r} PROVE SameFor(s)
      <3>1. SameWait(s)
        BY <1>2, <2>2 DEF SameWait, Waiting
      <3>2. Waiting(s) => run[s].chan \in Chans \ {run[r].chan}
        BY <1>0, <1>2 DEF Waiting
      <3>3. SameOwed(s)
        BY <1>2, <3>1, <3>2, OwedKept DEF SameWait
      <3> QED BY <3>1, <3>3 DEF SameFor
    <2>3. CASE run'[r].got = run[r].got
      <3>1. Delivery!GiveUp(r)
        BY <1>2, <2>1, <2>2, <2>3, DeliveryEnd
      <3> QED BY <3>1 DEF Delivered, Delivery!Next
    <2>4. ASSUME NEW k \in Codes, OnItsWay(r, k), run'[r].got = k PROVE Delivered
      <3>1. Delivery!Return(r, k)
        BY <1>2, <2>1, <2>2, <2>4, DeliveryEnd
      <3> QED BY <3>1 DEF Delivered, Delivery!Next
    <2> QED BY <1>2, <2>3, <2>4
  <1>3. CASE TakeApi(r)
    <2>1. buf[run[r].chan] \in Codes /\ OnItsWay(r, buf[run[r].chan])
      BY <1>0, <1>3 DEF TakeApi, OnItsWay, Waiting
    <2>2. run'[r].pc = "leave" /\ run'[r].got = buf[run[r].chan]
      BY <1>0, <1>3 DEF TakeApi
    <2>3. \A s \in Runs \ {r} : run'[s] = run[s]
      BY <1>0, <1>3 DEF TakeApi
    <2> QED BY <1>0, <1>2, <1>3, <2>1, <2>2, <2>3 DEF TakeApi
  <1>4. CASE TakeTelegram(r)
    <2>1. tgBuf[run[r].chan] \in Codes /\ OnItsWay(r, tgBuf[run[r].chan])
      BY <1>0, <1>4 DEF TakeTelegram, OnItsWay, Waiting
    <2>2. run'[r].pc = "leave" /\ run'[r].got = tgBuf[run[r].chan]
      BY <1>0, <1>4 DEF TakeTelegram
    <2>3. \A s \in Runs \ {r} : run'[s] = run[s]
      BY <1>0, <1>4 DEF TakeTelegram
    <2> QED BY <1>0, <1>2, <1>4, <2>1, <2>2, <2>3 DEF TakeTelegram
  <1>5. CASE GiveUp(r)
    BY <1>0, <1>2, <1>5 DEF GiveUp
  <1>6. CASE WaitEnd(r)
    <2>1. run[r].pc = "leave" /\ run'[r].pc = "away" /\ run'[r].got = run[r].got
      BY <1>0, <1>6 DEF WaitEnd, Away
    <2>2. \A s \in Runs \ {r} : run'[s] = run[s]
      BY <1>0, <1>6 DEF WaitEnd
    <2>3. \A s \in Runs : SameWait(s)
      BY <2>1, <2>2 DEF SameWait, Waiting
    <2>4. UNCHANGED <<buf, tgBuf, req, typed, stray>>
      BY <1>6 DEF WaitEnd
    <2>5. \A s \in Runs : SameOwed(s)
      BY <2>1, <2>2, <2>3, <2>4, OwedKept DEF SameWait, Waiting
    <2> QED BY <2>3, <2>4, <2>5, DeliveryStutter DEF Delivered, SameFor
  <1> QED BY <1>1, <1>3, <1>4, <1>5, <1>6

LEMMA ChatRefines ==
    ASSUME IndInv, NEW c \in Chans, TgReply(c) \/ TgFail(c)
    PROVE  Delivered
  <1> USE DEF TypeOK, OwnChannel
  <1>0. TypeOK /\ OwnChannel /\ OneReply
    BY DEF IndInv
  <1>1. CASE TgReply(c)
    <2>1. PICK k \in Codes : /\ (k \notin typed /\ stray' = stray) \/ stray' = stray \cup {k}
                             /\ typed' = typed \cup {k}
                             /\ tgBuf' = [tgBuf EXCEPT ![c] = k]
      BY <1>1 DEF TgReply
    <2>2. UNCHANGED <<buf, run, req>> /\ tgBuf[c] = None
      BY <1>0, <1>1 DEF TgReply, OneReply
    <2>3. \A r \in Runs : SameWait(r)
      BY <2>2 DEF SameWait, Waiting
    <2>4. ASSUME NEW r \in Runs, Waiting(r) => run[r].chan # c PROVE SameOwed(r)
      <3>1. Waiting(r) => run[r].chan \in Chans
        BY <1>0 DEF Waiting
      <3>2. Waiting(r) => tgBuf'[run[r].chan] = tgBuf[run[r].chan]
        BY <1>0, <2>1, <2>4, <3>1
      <3> QED BY <2>2, <2>3, <3>2, OwedKept DEF SameWait
    <2>5. ASSUME NEW r \in Runs, Waiting(r), run[r].chan = c
          PROVE  /\ \A s \in Runs \ {r} : SameOwed(s)
                 /\ \A l \in Codes : OnItsWay(r, l)' <=> OnItsWay(r, l) \/ l = k
      <3>1. \A s \in Runs \ {r} : SameOwed(s)
        BY <1>0, <2>4, <2>5 DEF Waiting
      <3>2. tgBuf'[c] = k
        BY <1>0, <2>1
      <3>3. Waiting(r)' /\ run'[r].chan = c
        BY <2>2, <2>5 DEF Waiting
      <3> QED BY <2>2, <2>5, <3>1, <3>2, <3>3, SmsAssumption DEF OnItsWay
    <2>6. Delivery!Type(k) \/ Delivery!Stray(k)
      BY <2>1, <2>3, <2>4, <2>5, DeliveryGoes
    <2> QED BY <2>6 DEF Delivered, Delivery!Next
  <1>2. CASE TgFail(c)
    <2>1. UNCHANGED <<buf, tgBuf, run, req, typed, stray>>
      BY <1>2 DEF TgFail
    <2> QED BY <2>1, DeliveryStutter, OwedKept DEF Delivered, SameFor, SameWait, Waiting
  <1> QED BY <1>1, <1>2

LEMMA RequestRefines ==
    ASSUME IndInv, NEW q \in Requests, (\E k \in Codes : SubmitLook(q, k)) \/ SubmitSend(q) \/ SubmitReturn(q)
    PROVE  Delivered
  <1> USE DEF TypeOK, OwnChannel
  <1>0. TypeOK /\ OwnChannel /\ OnePlace
    BY DEF IndInv
  <1>1. ASSUME NEW k \in Codes, SubmitLook(q, k) PROVE Delivered
    <2>1. /\ req[q].pc = "idle" /\ k \notin typed /\ typed' = typed \cup {k}
          /\ UNCHANGED <<buf, tgBuf, run, stray>>
      BY <1>1 DEF SubmitLook
    <2>2. req'[q] = [pc |-> "send", chan |-> entry, code |-> k] /\ \A p \in Requests \ {q} : req'[p] = req[p]
      BY <1>0, <1>1 DEF SubmitLook
    <2>3. \A r \in Runs : SameWait(r)
      BY <2>1 DEF SameWait, Waiting
    <2>4. ASSUME NEW r \in Runs, Waiting(r) => run[r].chan # entry PROVE SameOwed(r)
      BY <2>1, <2>2, <2>4 DEF SameOwed, OnItsWay, Waiting
    <2>5. ASSUME NEW r \in Runs, Waiting(r), run[r].chan = entry
          PROVE  /\ \A s \in Runs \ {r} : SameOwed(s)
                 /\ \A l \in Codes : OnItsWay(r, l)' <=> OnItsWay(r, l) \/ l = k
      <3>1. \A s \in Runs \ {r} : SameOwed(s)
        BY <1>0, <2>4, <2>5 DEF Waiting
      <3> QED BY <2>1, <2>2, <2>5, <3>1 DEF OnItsWay, Waiting
    <2>6. Delivery!Type(k)
      BY <2>1, <2>3, <2>4, <2>5, DeliveryGoes
    <2> QED BY <2>6 DEF Delivered, Delivery!Next
  <1>2. CASE SubmitSend(q)
    <2> DEFINE c == req[q].chan
               k == req[q].code
    <2>1. req[q].pc = "send" /\ c \in Chans /\ k \in Codes
      BY <1>0, <1>2 DEF SubmitSend, NoReq
    <2>2. UNCHANGED <<tgBuf, run, typed, stray>>
      BY <1>2 DEF SubmitSend
    <2>3. req'[q].pc # "send" /\ \A p \in Requests \ {q} : req'[p] = req[p]
      <3>1. PICK a \in {"ok", "conflict"} : req' = [req EXCEPT ![q].pc = a]
        BY <1>2 DEF SubmitSend
      <3>2. req'[q] = [req[q] EXCEPT !.pc = a] /\ \A p \in Requests \ {q} : req'[p] = req[p]
        BY <1>0, <3>1
      <3>3. req'[q].pc = a
        BY <1>0, <2>1, <3>2, Zenon DEF NoReq
      <3> QED BY <3>2, <3>3
    <2>4. \A r \in Runs : SameWait(r)
      BY <2>2 DEF SameWait, Waiting
    <2>5. \A d \in Chans \ {c} : buf'[d] = buf[d]
      BY <1>0, <1>2, <2>1 DEF SubmitSend
    <2>6. ASSUME NEW r \in Runs, Waiting(r) => run[r].chan # c PROVE SameOwed(r)
      <3>1. Waiting(r) => run[r].chan \in Chans \ {c}
        BY <1>0, <2>6 DEF Waiting
      <3> QED BY <2>2, <2>3, <2>5, <2>6, <3>1 DEF SameOwed, OnItsWay, Waiting
    <2>7. CASE buf[c] = None
      <3>1. buf'[c] = k
        BY <1>0, <1>2, <2>1, <2>7 DEF SubmitSend
      <3>2. ASSUME NEW r \in Runs, Waiting(r), run[r].chan = c PROVE SameOwed(r)
        BY <2>1, <2>2, <2>3, <2>7, <3>1, <3>2, SmsAssumption DEF SameOwed, OnItsWay, Waiting
      <3>3. \A r \in Runs : SameOwed(r)
        BY <2>6, <3>2
      <3> QED BY <2>2, <2>4, <3>3, DeliveryStutter DEF Delivered, SameFor
    <2>8. CASE buf[c] # None
      <3>1. UNCHANGED buf
        BY <1>2, <2>8 DEF SubmitSend
      <3>2. CASE \A r \in Runs : Waiting(r) => run[r].chan # c
        BY <2>2, <2>4, <2>6, <3>2, DeliveryStutter DEF Delivered, SameFor
      <3>3. ASSUME NEW r \in Runs, Waiting(r), run[r].chan = c PROVE Delivered
        <4>1. \A s \in Runs \ {r} : SameOwed(s)
          BY <1>0, <2>6, <3>3 DEF Waiting
        <4>2. \A p \in Requests \ {q} : req[p].pc = "send" => req[p].code # k
          BY <1>0, <2>1 DEF OnePlace
        <4>3. CASE tgBuf[c] = k
          <5>1. SameOwed(r)
            BY <2>1, <2>2, <2>3, <3>1, <3>3, <4>3 DEF SameOwed, OnItsWay, Waiting
          <5>2. \A s \in Runs : SameFor(s)
            BY <2>4, <4>1, <5>1 DEF SameFor
          <5> QED BY <2>2, <5>2, DeliveryStutter DEF Delivered
        <4>4. CASE tgBuf[c] # k
          <5>1. OnItsWay(r, k)
            BY <2>1, <3>3 DEF OnItsWay
          <5>2. buf[c] \in Codes \ {k} /\ OnItsWay(r, buf[c])
            BY <1>0, <2>1, <2>8, <3>3 DEF OnePlace, OnItsWay
          <5>3. \A m \in Codes : OnItsWay(r, m)' <=> OnItsWay(r, m) /\ m # k
            BY <2>1, <2>2, <2>3, <3>1, <3>3, <4>2, <4>4, <5>2 DEF OnItsWay, Waiting
          <5>4. Delivery!TurnAway(r, k)
            BY <2>1, <2>2, <2>4, <4>1, <5>1, <5>2, <5>3, DeliveryTurnAway
          <5> QED BY <2>1, <5>4 DEF Delivered, Delivery!Next
        <4> QED BY <4>3, <4>4
      <3> QED BY <3>2, <3>3
    <2> QED BY <2>7, <2>8
  <1>3. CASE SubmitReturn(q)
    <2>1. UNCHANGED <<buf, tgBuf, run, typed, stray>>
      BY <1>3 DEF SubmitReturn
    <2>2. \A p \in Requests : req'[p] = req[p] \/ (req[p].pc # "send" /\ req'[p].pc # "send")
      BY <1>0, <1>3 DEF SubmitReturn, NoReq
    <2>3. \A r \in Runs : SameWait(r)
      BY <2>1 DEF SameWait, Waiting
    <2>4. \A r \in Runs : SameOwed(r)
      BY <2>1, <2>2, <2>3, OwedKept DEF SameWait
    <2> QED BY <2>1, <2>3, <2>4, DeliveryStutter DEF Delivered, SameFor
  <1> QED BY <1>1, <1>2, <1>3

LEMMA SmsInitRefines == Init => Delivery!Init
  <1> SUFFICES ASSUME Init PROVE Delivery!Init
    OBVIOUS
  <1>1. \A r \in Runs : ~Waiting(r) /\ run[r].got = None
    BY DEF Init, Waiting, Away
  <1>2. \A r \in Runs : {k \in Codes : OnItsWay(r, k)} = {}
    BY <1>1 DEF OnItsWay
  <1> QED BY <1>1, <1>2 DEF Init, Delivery!Init

\* All that is between a run and its user, the registry with its channels, the requests
\* and the chat, is a delivery of each code to one wait in progress or to nobody; what the
\* chat gives a wrong wait reaches that wait and no other.
THEOREM SmsImplementsDelivery == Spec => ImplementsDelivery
  <1>1. IndInv /\ [Next]_vars => [Delivery!Next]_(Delivery!vars)
    <2> SUFFICES ASSUME IndInv, [Next]_vars PROVE Delivered
      BY DEF Delivered
    <2>1. CASE UNCHANGED vars
      BY <2>1, DeliveryStutter, OwedKept DEF vars, Delivered, SameFor, SameWait, Waiting
    <2>2. CASE Next
      BY <2>2, WaitRefines, ChatRefines, RequestRefines DEF Next
    <2> QED BY <2>1, <2>2
  <1> QED BY <1>1, SmsInitRefines, AlwaysInd, PTL DEF Spec, ImplementsDelivery, Delivery!Spec
=============================================================================
