-------------------------- MODULE BookingTestProofs --------------------------
(* Theorems about BookingTest, for any number of waits, lines and lost sessions. *)
EXTENDS BookingTest, SequenceTheorems, TLAPS

-----------------------------------------------------------------------------
(* The inductive invariant *)

\* An SMS has been sent before its code is waited for.
SmsSent == pc \in {"cartSms", "sms", "wait", "code"} => wait # 0

\* The search runs with its filters, or finds itself on the login page.
Filtered ==
    /\ ~failing /\ alive /\ pc \in {"loop", "attempt", "search", "look"} => page # "blank"
    /\ ~failing /\ narrow => page # "wide"
    /\ OnlyTarget

\* Where an attempt has found its button, with the end of the program it leads to.
Attempted ==
    {"reserve", "cart", "cartDone", "cartSms", "sms", "wait", "code", "booked", "enter"}

\* What the program holds when it announces a booking.
Announced ==
    ~failing /\ narrow =>
        /\ pc \in Attempted => seen = "target"
        /\ pc = "cartDone" => slot = "ours" \/ missed
        /\ pc \in {"cartSms", "sms", "wait", "code"} => slot = "pending"
        /\ pc \in {"booked", "enter"} /\ alive => slot = "ours" \/ missed \/ leftover

\* A file that is there during a wait was written for it.
OwnFile ==
    /\ pc = "wait" => file \in {NoFile, [code |-> wait, at |-> wait]}
    /\ FileIsFresh

\* When no line was left over, those there now, and what a reader has handed on, are the
\* answer to this SMS or empty.
OwnLines ==
    /\ pc = "wait" /\ ~leftover => stdin \in Seq({0, wait}) /\ chan \in {0, wait}
    /\ CodeFits

IndInv == TypeOK /\ SmsSent /\ Filtered /\ Announced /\ OwnFile /\ OwnLines

-----------------------------------------------------------------------------
(* Types *)

\* A reader's buffer takes lines off stdin, and changes none.
LEMMA LinesTaken ==
    ASSUME NEW S, NEW s \in Seq(S), NEW n \in 1..Len(s)
    PROVE  /\ SubSeq(s, n + 1, Len(s)) \in Seq(S)
           /\ Head(s) \in S
  <1>1. \A k \in (n + 1)..Len(s) : s[k] \in S
    BY ElementOfSeq
  <1>2. Len(s) \in Nat /\ n + 1 \in Int
    BY LenProperties
  <1>3. SubSeq(s, n + 1, Len(s)) \in Seq(S)
    BY <1>1, <1>2, SubSeqProperties
  <1>4. s # << >>
    BY <1>2
  <1> QED BY <1>3, <1>4, HeadTailProperties

\* The types as the provers take them: one fact for each variable.
LEMMA Bounds == {MaxWaits, MaxLines, MaxDrops} \subseteq Nat /\ 1 \in 0..MaxWaits
  BY BookingAssumption

LEMMA InitInv == Init => IndInv
  <1> SUFFICES ASSUME Init PROVE IndInv
    OBVIOUS
  <1> USE Bounds DEF Init
  <1>1. {failing, narrow, alive, closed, entered, leftover, missed} \subseteq BOOLEAN
    OBVIOUS
  <1>2. file \in [code : 0..MaxWaits, at : 0..MaxWaits]
    BY DEF NoFile
  <1>3. TypeOK
    BY <1>1, <1>2 DEF TypeOK
  <1> QED
    BY <1>3 DEF IndInv, SmsSent, Filtered, OnlyTarget, Announced, Attempted, OwnFile, FileIsFresh, OwnLines, CodeFits

\* The steps that leave stdin, the file and the readers alone, and the others.
Quiet ==
    \/ Login \/ SetupSearchPage \/ Loop \/ Attempt \/ Search \/ Look \/ Reserve \/ AddCart
    \/ SmsScreen \/ Recover \/ SmsEnter \/ End \/ WaitTimeout \/ CtrlC \/ SlotChange \/ SessionLost

Handling ==
    \/ WaitBegin \/ WaitStdin \/ WaitFile \/ Booked \/ ReadLine \/ ReadEnd
    \/ TypeLine \/ WriteFile \/ CloseStdin

\* A step that is quiet leaves the answer alone too, or drops it with the attempt.
Left ==
    /\ UNCHANGED input
    /\ \/ UNCHANGED <<code, fileAt, leftover>>
       \/ code' = 0 /\ fileAt' = 0 /\ leftover' = FALSE /\ pc' \in {"login", "setup"}

\* No step of the one kind changes what those of the other kind do.
LEMMA QuietOrHandling ==
    /\ Next => (Quiet \/ Handling) /\ manners' = manners
    /\ Quiet => Left
    /\ Handling => UNCHANGED <<ret, site, seen, alive, wait, missed>>
  <1>1. Next => (Quiet \/ Handling) /\ manners' = manners
    BY DEF Next, Program, Quiet, Handling
  <1>2. Login => Left
    BY DEF Left, Login, history
  <1>3. SetupSearchPage => Left
    BY DEF Left, SetupSearchPage, history
  <1>4. Loop => Left
    BY DEF Left, Loop, history
  <1>5. Attempt => Left
    BY DEF Left, Attempt, history
  <1>6. Search => Left
    BY DEF Left, Search, history
  <1>7. Look => Left
    BY DEF Left, Look, history
  <1>8. Reserve => Left
    BY DEF Left, Reserve, history
  <1>9. AddCart => Left
    BY DEF Left, AddCart, history
  <1>10. SmsScreen => Left
    BY DEF Left, SmsScreen, history
  <1>11. Recover => Left
    BY DEF Left, Recover, history
  <1>12. SmsEnter => Left
    BY DEF Left, SmsEnter, history
  <1>13. End => Left
    BY DEF Left, End, history
  <1>14. WaitTimeout => Left
    BY DEF Left, WaitTimeout, history
  <1>15. CtrlC => Left
    BY DEF Left, CtrlC, history
  <1>16. SlotChange => Left
    BY DEF Left, SlotChange, history
  <1>17. SessionLost => Left
    BY DEF Left, SessionLost, history
  <1>18. Quiet => Left
    BY <1>2, <1>3, <1>4, <1>5, <1>6, <1>7, <1>8, <1>9, <1>10, <1>11, <1>12, <1>13, <1>14, <1>15, <1>16, <1>17 DEF Quiet
  <1>19. WaitBegin => UNCHANGED <<ret, site, seen, alive, wait, missed>>
    BY DEF WaitBegin, history
  <1>20. WaitStdin => UNCHANGED <<ret, site, seen, alive, wait, missed>>
    BY DEF WaitStdin, history
  <1>21. WaitFile => UNCHANGED <<ret, site, seen, alive, wait, missed>>
    BY DEF WaitFile, history
  <1>22. Booked => UNCHANGED <<ret, site, seen, alive, wait, missed>>
    BY DEF Booked, history
  <1>23. ReadLine => UNCHANGED <<ret, site, seen, alive, wait, missed>>
    BY DEF ReadLine, history
  <1>24. ReadEnd => UNCHANGED <<ret, site, seen, alive, wait, missed>>
    BY DEF ReadEnd, history
  <1>25. TypeLine => UNCHANGED <<ret, site, seen, alive, wait, missed>>
    BY DEF TypeLine, history
  <1>26. WriteFile => UNCHANGED <<ret, site, seen, alive, wait, missed>>
    BY DEF WriteFile, history
  <1>27. CloseStdin => UNCHANGED <<ret, site, seen, alive, wait, missed>>
    BY DEF CloseStdin, history
  <1>28. Handling => UNCHANGED <<ret, site, seen, alive, wait, missed>>
    BY <1>19, <1>20, <1>21, <1>22, <1>23, <1>24, <1>25, <1>26, <1>27 DEF Handling
  <1> QED BY <1>1, <1>18, <1>28

\* Where the program is, and what it sees of the site.
Places ==
    /\ pc \in {"login", "setup", "loop", "attempt", "search", "look", "reserve", "cart",
               "cartDone", "cartSms", "recover", "sms", "wait", "code", "booked", "enter", "done"}
    /\ ret \in {"start", "attempt", "recover"}
    /\ page \in {"login", "blank", "wide", "set"} /\ seen \in {"target", "court", "other"}
    /\ slot \in {"closed", "open", "taken", "pending", "ours"}

Numbers == wait \in 0..MaxWaits /\ drops \in 0..MaxDrops

Flags == {failing, narrow, alive, closed, entered, leftover, missed} \subseteq BOOLEAN

\* waitEnter comes last.
EnterLast == 0 \in readers => pc \in {"enter", "done"}

Inputs ==
    /\ readers \subseteq 0..MaxWaits /\ stdin \in Seq(0..MaxWaits)
    /\ chan \in 0..MaxWaits /\ code \in 0..MaxWaits /\ fileAt \in 0..MaxWaits
    /\ file \in [code : 0..MaxWaits, at : 0..MaxWaits]
    /\ typed \in 0..MaxLines

LEMMA TypeParts == TypeOK <=> Places /\ Numbers /\ Flags /\ EnterLast /\ Inputs
  BY DEF TypeOK, Places, Numbers, Flags, EnterLast, Inputs

LEMMA PlacesQuiet == Places /\ Quiet => Places'
  <1> SUFFICES ASSUME Places, Quiet PROVE Places'
    OBVIOUS
  <1>1. CASE Login
    BY <1>1 DEF Places, Login, site, OnError
  <1>2. CASE SetupSearchPage
    BY <1>2 DEF Places, SetupSearchPage, site, OnError
  <1>3. CASE Loop
    BY <1>3 DEF Places, Loop, site
  <1>4. CASE Attempt
    BY <1>4 DEF Places, Attempt, site
  <1>5. CASE Search
    BY <1>5 DEF Places, Search, site
  <1>6. CASE Look
    BY <1>6 DEF Places, Look, site
  <1>7. CASE Reserve
    BY <1>7 DEF Places, Reserve, site
  <1>8. CASE AddCart
    BY <1>8 DEF Places, AddCart, site
  <1>9. CASE SmsScreen
    BY <1>9 DEF Places, SmsScreen, site
  <1>10. CASE Recover
    BY <1>10 DEF Places, Recover, site
  <1>11. CASE SmsEnter
    BY <1>11 DEF Places, SmsEnter, site
  <1>12. CASE End
    BY <1>12 DEF Places, End, site
  <1>13. CASE WaitTimeout
    BY <1>13 DEF Places, WaitTimeout, site
  <1>14. CASE CtrlC
    BY <1>14 DEF Places, CtrlC, site
  <1>15. CASE SlotChange
    BY <1>15 DEF Places, SlotChange, site
  <1>16. CASE SessionLost
    BY <1>16 DEF Places, SessionLost, site
  <1> QED
    BY <1>1, <1>2, <1>3, <1>4, <1>5, <1>6, <1>7, <1>8, <1>9, <1>10, <1>11, <1>12, <1>13, <1>14, <1>15, <1>16 DEF Quiet

LEMMA PlacesHandling == Places /\ Handling => Places'
  <1> SUFFICES ASSUME Places, Handling PROVE Places'
    OBVIOUS
  <1>1. CASE WaitBegin
    BY <1>1 DEF Places, WaitBegin, site
  <1>2. CASE WaitStdin
    BY <1>2 DEF Places, WaitStdin, site
  <1>3. CASE WaitFile
    BY <1>3 DEF Places, WaitFile, site
  <1>4. CASE Booked
    BY <1>4 DEF Places, Booked, site
  <1>5. CASE ReadLine
    BY <1>5 DEF Places, ReadLine, site, Hands
  <1>6. CASE ReadEnd
    BY <1>6 DEF Places, ReadEnd, site, Hands
  <1>7. CASE TypeLine
    BY <1>7 DEF Places, TypeLine, site
  <1>8. CASE WriteFile
    BY <1>8 DEF Places, WriteFile, site
  <1>9. CASE CloseStdin
    BY <1>9 DEF Places, CloseStdin, site
  <1> QED
    BY <1>1, <1>2, <1>3, <1>4, <1>5, <1>6, <1>7, <1>8, <1>9 DEF Handling

LEMMA NumbersQuiet == Numbers /\ Quiet => Numbers'
  <1> SUFFICES ASSUME Numbers, Quiet PROVE Numbers'
    OBVIOUS
  <1>1. CASE Login
    BY <1>1, Bounds DEF Numbers, Login, site
  <1>2. CASE SetupSearchPage
    BY <1>2, Bounds DEF Numbers, SetupSearchPage, site
  <1>3. CASE Loop
    BY <1>3, Bounds DEF Numbers, Loop, site
  <1>4. CASE Attempt
    BY <1>4, Bounds DEF Numbers, Attempt, site
  <1>5. CASE Search
    BY <1>5, Bounds DEF Numbers, Search, site
  <1>6. CASE Look
    BY <1>6, Bounds DEF Numbers, Look, site
  <1>7. CASE Reserve
    BY <1>7, Bounds DEF Numbers, Reserve, site
  <1>8. CASE AddCart
    BY <1>8, Bounds DEF Numbers, AddCart, site
  <1>9. CASE SmsScreen
    BY <1>9, Bounds DEF Numbers, SmsScreen, site
  <1>10. CASE Recover
    BY <1>10, Bounds DEF Numbers, Recover, site
  <1>11. CASE SmsEnter
    BY <1>11, Bounds DEF Numbers, SmsEnter, site
  <1>12. CASE End
    BY <1>12, Bounds DEF Numbers, End, site
  <1>13. CASE WaitTimeout
    BY <1>13, Bounds DEF Numbers, WaitTimeout, site
  <1>14. CASE CtrlC
    BY <1>14, Bounds DEF Numbers, CtrlC, site
  <1>15. CASE SlotChange
    BY <1>15, Bounds DEF Numbers, SlotChange, site
  <1>16. CASE SessionLost
    BY <1>16, Bounds DEF Numbers, SessionLost, site
  <1> QED
    BY <1>1, <1>2, <1>3, <1>4, <1>5, <1>6, <1>7, <1>8, <1>9, <1>10, <1>11, <1>12, <1>13, <1>14, <1>15, <1>16 DEF Quiet

LEMMA InputsQuiet == Inputs /\ Quiet => Inputs'
  <1> SUFFICES ASSUME Inputs, Quiet PROVE Inputs'
    OBVIOUS
  <1>1. UNCHANGED <<readers, stdin, chan, file, typed>>
    BY QuietOrHandling DEF Left, input
  <1>2. code' \in {code, 0} /\ fileAt' \in {fileAt, 0}
    BY QuietOrHandling DEF Left
  <1>3. 0 \in 0..MaxWaits
    BY Bounds
  <1> QED BY <1>1, <1>2, <1>3 DEF Inputs

LEMMA InputsHandling == Inputs /\ Numbers /\ Handling => Inputs'
  <1> SUFFICES ASSUME Inputs, Numbers, Handling PROVE Inputs'
    OBVIOUS
  <1>1. CASE WaitBegin
    BY <1>1, Bounds DEF Inputs, Numbers, WaitBegin, NoFile, Codes, history
  <1>2. CASE WaitStdin
    BY <1>2, Bounds DEF Inputs, Numbers, WaitStdin, NoFile, Codes, history
  <1>3. CASE WaitFile
    BY <1>3, Bounds DEF Inputs, Numbers, WaitFile, NoFile, Codes, history
  <1>4. CASE Booked
    BY <1>4, Bounds DEF Inputs, Numbers, Booked, NoFile, Codes, history
  <1>5. CASE ReadLine
    <2>1. PICK r \in readers, n \in 1..Len(stdin) :
            Hands(r, Head(stdin)) /\ stdin' = SubSeq(stdin, n + 1, Len(stdin))
      BY <1>5 DEF ReadLine
    <2>2. stdin' \in Seq(0..MaxWaits) /\ Head(stdin) \in 0..MaxWaits
      BY <2>1, LinesTaken DEF Inputs
    <2>3. UNCHANGED <<file, typed, code, fileAt>>
      BY <1>5 DEF ReadLine, history
    <2> QED BY <2>1, <2>2, <2>3 DEF Inputs, Hands
  <1>6. CASE ReadEnd
    <2>1. PICK r \in readers : Hands(r, 0)
      BY <1>6 DEF ReadEnd
    <2>2. UNCHANGED <<stdin, file, typed, code, fileAt>>
      BY <1>6 DEF ReadEnd, history
    <2> QED BY <2>1, <2>2, Bounds DEF Inputs, Hands
  <1>7. CASE TypeLine
    <2>1. stdin' \in Seq(0..MaxWaits)
      BY <1>7, AppendProperties, Bounds DEF TypeLine, Codes, Inputs, Numbers
    <2>2. typed' \in 0..MaxLines
      BY <1>7, Bounds DEF TypeLine, Inputs
    <2> QED BY <1>7, <2>1, <2>2 DEF TypeLine, Inputs, history
  <1>8. CASE WriteFile
    BY <1>8, Bounds DEF Inputs, Numbers, WriteFile, NoFile, Codes, history
  <1>9. CASE CloseStdin
    BY <1>9, Bounds DEF Inputs, Numbers, CloseStdin, NoFile, Codes, history
  <1> QED
    BY <1>1, <1>2, <1>3, <1>4, <1>5, <1>6, <1>7, <1>8, <1>9 DEF Handling

LEMMA FlagsQuiet == Flags /\ Quiet /\ manners' = manners => Flags'
  <1> SUFFICES ASSUME Flags, Quiet, manners' = manners PROVE Flags'
    OBVIOUS
  <1>1. CASE Login
    BY <1>1 DEF Flags, Login, input, history, manners
  <1>2. CASE SetupSearchPage
    BY <1>2 DEF Flags, SetupSearchPage, input, history, manners
  <1>3. CASE Loop
    BY <1>3 DEF Flags, Loop, input, history, manners
  <1>4. CASE Attempt
    BY <1>4 DEF Flags, Attempt, input, history, manners
  <1>5. CASE Search
    BY <1>5 DEF Flags, Search, input, history, manners
  <1>6. CASE Look
    BY <1>6 DEF Flags, Look, input, history, manners
  <1>7. CASE Reserve
    BY <1>7 DEF Flags, Reserve, input, history, manners
  <1>8. CASE AddCart
    BY <1>8 DEF Flags, AddCart, input, history, manners
  <1>9. CASE SmsScreen
    BY <1>9 DEF Flags, SmsScreen, input, history, manners
  <1>10. CASE Recover
    BY <1>10 DEF Flags, Recover, input, history, manners
  <1>11. CASE SmsEnter
    BY <1>11 DEF Flags, SmsEnter, input, history, manners
  <1>12. CASE End
    BY <1>12 DEF Flags, End, input, history, manners
  <1>13. CASE WaitTimeout
    BY <1>13 DEF Flags, WaitTimeout, input, history, manners
  <1>14. CASE CtrlC
    BY <1>14 DEF Flags, CtrlC, input, history, manners
  <1>15. CASE SlotChange
    BY <1>15 DEF Flags, SlotChange, input, history, manners
  <1>16. CASE SessionLost
    BY <1>16 DEF Flags, SessionLost, input, history, manners
  <1> QED
    BY <1>1, <1>2, <1>3, <1>4, <1>5, <1>6, <1>7, <1>8, <1>9, <1>10, <1>11, <1>12, <1>13, <1>14, <1>15, <1>16 DEF Quiet

LEMMA FlagsHandling == Flags /\ Handling /\ manners' = manners => Flags'
  <1> SUFFICES ASSUME Flags, Handling, manners' = manners PROVE Flags'
    OBVIOUS
  <1>1. CASE WaitBegin
    BY <1>1 DEF Flags, WaitBegin, input, history, manners
  <1>2. CASE WaitStdin
    BY <1>2 DEF Flags, WaitStdin, input, history, manners
  <1>3. CASE WaitFile
    BY <1>3 DEF Flags, WaitFile, input, history, manners
  <1>4. CASE Booked
    BY <1>4 DEF Flags, Booked, input, history, manners
  <1>5. CASE ReadLine
    <2>1. PICK r \in readers : entered' = (entered \/ r = 0)
      BY <1>5 DEF ReadLine, Hands
    <2> QED BY <1>5, <2>1 DEF ReadLine, Flags, history, manners
  <1>6. CASE ReadEnd
    <2>1. PICK r \in readers : entered' = (entered \/ r = 0)
      BY <1>6 DEF ReadEnd, Hands
    <2> QED BY <1>6, <2>1 DEF ReadEnd, Flags, history, manners
  <1>7. CASE TypeLine
    BY <1>7 DEF Flags, TypeLine, input, history, manners
  <1>8. CASE WriteFile
    BY <1>8 DEF Flags, WriteFile, input, history, manners
  <1>9. CASE CloseStdin
    BY <1>9 DEF Flags, CloseStdin, input, history, manners
  <1> QED
    BY <1>1, <1>2, <1>3, <1>4, <1>5, <1>6, <1>7, <1>8, <1>9 DEF Handling

LEMMA EnterLastQuiet == EnterLast /\ Quiet => EnterLast'
  <1> SUFFICES ASSUME EnterLast, Quiet PROVE EnterLast'
    OBVIOUS
  <1>1. CASE Login
    BY <1>1 DEF EnterLast, Login, input, OnError
  <1>2. CASE SetupSearchPage
    BY <1>2 DEF EnterLast, SetupSearchPage, input, OnError
  <1>3. CASE Loop
    BY <1>3 DEF EnterLast, Loop, input
  <1>4. CASE Attempt
    BY <1>4 DEF EnterLast, Attempt, input
  <1>5. CASE Search
    BY <1>5 DEF EnterLast, Search, input
  <1>6. CASE Look
    BY <1>6 DEF EnterLast, Look, input
  <1>7. CASE Reserve
    BY <1>7 DEF EnterLast, Reserve, input
  <1>8. CASE AddCart
    BY <1>8 DEF EnterLast, AddCart, input
  <1>9. CASE SmsScreen
    BY <1>9 DEF EnterLast, SmsScreen, input
  <1>10. CASE Recover
    BY <1>10 DEF EnterLast, Recover, input
  <1>11. CASE SmsEnter
    BY <1>11 DEF EnterLast, SmsEnter, input
  <1>12. CASE End
    BY <1>12 DEF EnterLast, End, input
  <1>13. CASE WaitTimeout
    BY <1>13 DEF EnterLast, WaitTimeout, input
  <1>14. CASE CtrlC
    BY <1>14 DEF EnterLast, CtrlC, input
  <1>15. CASE SlotChange
    BY <1>15 DEF EnterLast, SlotChange, input
  <1>16. CASE SessionLost
    BY <1>16 DEF EnterLast, SessionLost, input
  <1> QED
    BY <1>1, <1>2, <1>3, <1>4, <1>5, <1>6, <1>7, <1>8, <1>9, <1>10, <1>11, <1>12, <1>13, <1>14, <1>15, <1>16 DEF Quiet

LEMMA EnterLastHandling == EnterLast /\ SmsSent /\ Handling => EnterLast'
  <1> SUFFICES ASSUME EnterLast, SmsSent, Handling PROVE EnterLast'
    OBVIOUS
  <1>1. CASE WaitBegin
    BY <1>1 DEF EnterLast, SmsSent, WaitBegin
  <1>2. CASE WaitStdin
    BY <1>2 DEF EnterLast, SmsSent, WaitStdin
  <1>3. CASE WaitFile
    BY <1>3 DEF EnterLast, SmsSent, WaitFile
  <1>4. CASE Booked
    BY <1>4 DEF EnterLast, SmsSent, Booked
  <1>5. CASE ReadLine
    BY <1>5 DEF EnterLast, SmsSent, ReadLine, Hands
  <1>6. CASE ReadEnd
    BY <1>6 DEF EnterLast, SmsSent, ReadEnd, Hands
  <1>7. CASE TypeLine
    BY <1>7 DEF EnterLast, SmsSent, TypeLine
  <1>8. CASE WriteFile
    BY <1>8 DEF EnterLast, SmsSent, WriteFile
  <1>9. CASE CloseStdin
    BY <1>9 DEF EnterLast, SmsSent, CloseStdin
  <1> QED
    BY <1>1, <1>2, <1>3, <1>4, <1>5, <1>6, <1>7, <1>8, <1>9 DEF Handling

LEMMA TypeStep == TypeOK /\ SmsSent /\ Next => TypeOK'
  <1> SUFFICES ASSUME TypeOK, SmsSent, Next PROVE TypeOK'
    OBVIOUS
  <1>1. Places /\ Numbers /\ Flags /\ EnterLast /\ Inputs
    BY TypeParts
  <1>2. (Quiet \/ Handling) /\ manners' = manners
    BY QuietOrHandling
  <1>3. Places' /\ Inputs' /\ Flags' /\ EnterLast'
    BY <1>1, <1>2, PlacesQuiet, PlacesHandling, InputsQuiet, InputsHandling, FlagsQuiet,
       FlagsHandling, EnterLastQuiet, EnterLastHandling
  <1>4. Numbers'
    BY <1>1, <1>2, NumbersQuiet, QuietOrHandling DEF Numbers, site
  <1> QED BY <1>3, <1>4 DEF TypeOK, Places, Numbers, Flags, EnterLast, Inputs

-----------------------------------------------------------------------------
(* What the theorems are about *)

LEMMA SmsSentQuiet == SmsSent /\ Numbers /\ Quiet => SmsSent'
  <1> SUFFICES ASSUME SmsSent, Numbers, Quiet PROVE SmsSent'
    OBVIOUS
  <1>1. CASE Login
    BY <1>1, Bounds DEF SmsSent, Numbers, Login, site, OnError
  <1>2. CASE SetupSearchPage
    BY <1>2, Bounds DEF SmsSent, Numbers, SetupSearchPage, site, OnError
  <1>3. CASE Loop
    BY <1>3, Bounds DEF SmsSent, Numbers, Loop, site
  <1>4. CASE Attempt
    BY <1>4, Bounds DEF SmsSent, Numbers, Attempt, site
  <1>5. CASE Search
    BY <1>5, Bounds DEF SmsSent, Numbers, Search, site
  <1>6. CASE Look
    BY <1>6, Bounds DEF SmsSent, Numbers, Look, site
  <1>7. CASE Reserve
    BY <1>7, Bounds DEF SmsSent, Numbers, Reserve, site
  <1>8. CASE AddCart
    BY <1>8, Bounds DEF SmsSent, Numbers, AddCart, site
  <1>9. CASE SmsScreen
    BY <1>9, Bounds DEF SmsSent, Numbers, SmsScreen, site
  <1>10. CASE Recover
    BY <1>10, Bounds DEF SmsSent, Numbers, Recover, site
  <1>11. CASE SmsEnter
    BY <1>11, Bounds DEF SmsSent, Numbers, SmsEnter, site
  <1>12. CASE End
    BY <1>12, Bounds DEF SmsSent, Numbers, End, site
  <1>13. CASE WaitTimeout
    BY <1>13, Bounds DEF SmsSent, Numbers, WaitTimeout, site
  <1>14. CASE CtrlC
    BY <1>14, Bounds DEF SmsSent, Numbers, CtrlC, site
  <1>15. CASE SlotChange
    BY <1>15, Bounds DEF SmsSent, Numbers, SlotChange, site
  <1>16. CASE SessionLost
    BY <1>16, Bounds DEF SmsSent, Numbers, SessionLost, site
  <1> QED
    BY <1>1, <1>2, <1>3, <1>4, <1>5, <1>6, <1>7, <1>8, <1>9, <1>10, <1>11, <1>12, <1>13, <1>14, <1>15, <1>16 DEF Quiet

LEMMA SmsSentHandling == SmsSent /\ Handling => SmsSent'
  <1>1. Handling => pc' = pc \/ pc' \notin {"cartSms", "sms", "wait", "code"} \/ pc \in {"sms", "wait"}
    BY DEF Handling, WaitBegin, WaitStdin, WaitFile, Booked, ReadLine, ReadEnd, TypeLine, WriteFile, CloseStdin
  <1> QED BY <1>1, QuietOrHandling DEF SmsSent

LEMMA FilteredQuiet == Filtered /\ Places /\ Flags /\ manners' = manners /\ Quiet => Filtered'
  <1> SUFFICES ASSUME Filtered, Places, Flags, manners' = manners, Quiet PROVE Filtered'
    OBVIOUS
  <1>1. CASE Login
    BY <1>1 DEF Filtered, OnlyTarget, Places, Flags, Login, MayFail, site, manners, OnError
  <1>2. CASE SetupSearchPage
    BY <1>2 DEF Filtered, OnlyTarget, Places, Flags, SetupSearchPage, MayFail, site, manners, OnError
  <1>3. CASE Loop
    BY <1>3 DEF Filtered, OnlyTarget, Places, Flags, Loop, MayFail, site, manners
  <1>4. CASE Attempt
    BY <1>4 DEF Filtered, OnlyTarget, Places, Flags, Attempt, MayFail, site, manners
  <1>5. CASE Search
    BY <1>5 DEF Filtered, OnlyTarget, Places, Flags, Search, MayFail, site, manners
  <1>6. CASE Look
    BY <1>6 DEF Filtered, OnlyTarget, Places, Flags, Look, MayFail, site, manners
  <1>7. CASE Reserve
    BY <1>7 DEF Filtered, OnlyTarget, Places, Flags, Reserve, MayFail, site, manners
  <1>8. CASE AddCart
    BY <1>8 DEF Filtered, OnlyTarget, Places, Flags, AddCart, MayFail, site, manners
  <1>9. CASE SmsScreen
    BY <1>9 DEF Filtered, OnlyTarget, Places, Flags, SmsScreen, MayFail, site, manners
  <1>10. CASE Recover
    BY <1>10 DEF Filtered, OnlyTarget, Places, Flags, Recover, MayFail, site, manners
  <1>11. CASE SmsEnter
    BY <1>11 DEF Filtered, OnlyTarget, Places, Flags, SmsEnter, MayFail, site, manners
  <1>12. CASE End
    BY <1>12 DEF Filtered, OnlyTarget, Places, Flags, End, MayFail, site, manners
  <1>13. CASE WaitTimeout
    BY <1>13 DEF Filtered, OnlyTarget, Places, Flags, WaitTimeout, MayFail, site, manners
  <1>14. CASE CtrlC
    BY <1>14 DEF Filtered, OnlyTarget, Places, Flags, CtrlC, MayFail, site, manners
  <1>15. CASE SlotChange
    BY <1>15 DEF Filtered, OnlyTarget, Places, Flags, SlotChange, MayFail, site, manners
  <1>16. CASE SessionLost
    BY <1>16 DEF Filtered, OnlyTarget, Places, Flags, SessionLost, MayFail, site, manners
  <1> QED
    BY <1>1, <1>2, <1>3, <1>4, <1>5, <1>6, <1>7, <1>8, <1>9, <1>10, <1>11, <1>12, <1>13, <1>14, <1>15, <1>16 DEF Quiet

LEMMA FilteredHandling == Filtered /\ manners' = manners /\ Handling => Filtered'
  <1>1. Handling => pc' = pc \/ pc' \in {"wait", "code", "enter"}
    BY DEF Handling, WaitBegin, WaitStdin, WaitFile, Booked, ReadLine, ReadEnd, TypeLine, WriteFile, CloseStdin
  <1> QED BY <1>1, QuietOrHandling DEF Filtered, OnlyTarget, site, manners

LEMMA AnnouncedQuiet == Announced /\ Filtered /\ CodeFits /\ Flags /\ manners' = manners /\ Quiet => Announced'
  <1> SUFFICES ASSUME Announced, Filtered, CodeFits, Flags, manners' = manners, Quiet PROVE Announced'
    OBVIOUS
  <1>1. CASE Login
    BY <1>1 DEF Announced, Attempted, Filtered, CodeFits, Flags, Login, Available, MayFail, site, history, manners, OnError
  <1>2. CASE SetupSearchPage
    BY <1>2 DEF Announced, Attempted, Filtered, CodeFits, Flags, SetupSearchPage, Available, MayFail, site, history, manners, OnError
  <1>3. CASE Loop
    BY <1>3 DEF Announced, Attempted, Filtered, CodeFits, Flags, Loop, Available, MayFail, site, history, manners
  <1>4. CASE Attempt
    BY <1>4 DEF Announced, Attempted, Filtered, CodeFits, Flags, Attempt, Available, MayFail, site, history, manners
  <1>5. CASE Search
    BY <1>5 DEF Announced, Attempted, Filtered, CodeFits, Flags, Search, Available, MayFail, site, history, manners
  <1>6. CASE Look
    BY <1>6 DEF Announced, Attempted, Filtered, CodeFits, Flags, Look, Available, MayFail, site, history, manners
  <1>7. CASE Reserve
    BY <1>7 DEF Announced, Attempted, Filtered, CodeFits, Flags, Reserve, Available, MayFail, site, history, manners
  <1>8. CASE AddCart
    BY <1>8 DEF Announced, Attempted, Filtered, CodeFits, Flags, AddCart, Available, MayFail, site, history, manners
  <1>9. CASE SmsScreen
    BY <1>9 DEF Announced, Attempted, Filtered, CodeFits, Flags, SmsScreen, Available, MayFail, site, history, manners
  <1>10. CASE Recover
    BY <1>10 DEF Announced, Attempted, Filtered, CodeFits, Flags, Recover, Available, MayFail, site, history, manners
  <1>11. CASE SmsEnter
    BY <1>11 DEF Announced, Attempted, Filtered, CodeFits, Flags, SmsEnter, Available, MayFail, site, history, manners
  <1>12. CASE End
    BY <1>12 DEF Announced, Attempted, Filtered, CodeFits, Flags, End, Available, MayFail, site, history, manners
  <1>13. CASE WaitTimeout
    BY <1>13 DEF Announced, Attempted, Filtered, CodeFits, Flags, WaitTimeout, Available, MayFail, site, history, manners
  <1>14. CASE CtrlC
    BY <1>14 DEF Announced, Attempted, Filtered, CodeFits, Flags, CtrlC, Available, MayFail, site, history, manners
  <1>15. CASE SlotChange
    BY <1>15 DEF Announced, Attempted, Filtered, CodeFits, Flags, SlotChange, Available, MayFail, site, history, manners
  <1>16. CASE SessionLost
    BY <1>16 DEF Announced, Attempted, Filtered, CodeFits, Flags, SessionLost, Available, MayFail, site, history, manners
  <1> QED
    BY <1>1, <1>2, <1>3, <1>4, <1>5, <1>6, <1>7, <1>8, <1>9, <1>10, <1>11, <1>12, <1>13, <1>14, <1>15, <1>16 DEF Quiet

LEMMA AnnouncedHandling == Announced /\ manners' = manners /\ Handling => Announced'
  <1>1. Handling => \/ pc' = pc /\ leftover' = leftover
                    \/ pc' = "wait" /\ pc = "sms"
                    \/ pc' = "code" /\ pc = "wait"
                    \/ pc' = "enter" /\ pc = "booked" /\ leftover' = leftover
    BY DEF Handling, WaitBegin, WaitStdin, WaitFile, Booked, ReadLine, ReadEnd, TypeLine, WriteFile, CloseStdin, history
  <1> QED BY <1>1, QuietOrHandling DEF Announced, Attempted, site, manners

LEMMA OwnQuiet == OwnFile /\ OwnLines /\ Quiet => (OwnFile /\ OwnLines)'
  <1> SUFFICES ASSUME OwnFile, OwnLines, Quiet PROVE (OwnFile /\ OwnLines)'
    OBVIOUS
  <1>1. CASE Login
    BY <1>1, QuietOrHandling DEF OwnFile, OwnLines, FileIsFresh, CodeFits, Login, Left, input, history, site, OnError
  <1>2. CASE SetupSearchPage
    BY <1>2, QuietOrHandling DEF OwnFile, OwnLines, FileIsFresh, CodeFits, SetupSearchPage, Left, input, history, site, OnError
  <1>3. CASE Loop
    BY <1>3, QuietOrHandling DEF OwnFile, OwnLines, FileIsFresh, CodeFits, Loop, Left, input, history, site, OnError
  <1>4. CASE Attempt
    BY <1>4, QuietOrHandling DEF OwnFile, OwnLines, FileIsFresh, CodeFits, Attempt, Left, input, history, site, OnError
  <1>5. CASE Search
    BY <1>5, QuietOrHandling DEF OwnFile, OwnLines, FileIsFresh, CodeFits, Search, Left, input, history, site, OnError
  <1>6. CASE Look
    BY <1>6, QuietOrHandling DEF OwnFile, OwnLines, FileIsFresh, CodeFits, Look, Left, input, history, site, OnError
  <1>7. CASE Reserve
    BY <1>7, QuietOrHandling DEF OwnFile, OwnLines, FileIsFresh, CodeFits, Reserve, Left, input, history, site, OnError
  <1>8. CASE AddCart
    BY <1>8, QuietOrHandling DEF OwnFile, OwnLines, FileIsFresh, CodeFits, AddCart, Left, input
  <1>9. CASE SmsScreen
    BY <1>9, QuietOrHandling DEF OwnFile, OwnLines, FileIsFresh, CodeFits, SmsScreen, Left, input, history, site, OnError
  <1>10. CASE Recover
    BY <1>10, QuietOrHandling DEF OwnFile, OwnLines, FileIsFresh, CodeFits, Recover, Left, input, history, site, OnError
  <1>11. CASE SmsEnter
    BY <1>11, QuietOrHandling DEF OwnFile, OwnLines, FileIsFresh, CodeFits, SmsEnter, Left, input, history, site, OnError
  <1>12. CASE End
    BY <1>12, QuietOrHandling DEF OwnFile, OwnLines, FileIsFresh, CodeFits, End, Left, input, history, site, OnError
  <1>13. CASE WaitTimeout
    BY <1>13, QuietOrHandling DEF OwnFile, OwnLines, FileIsFresh, CodeFits, WaitTimeout, Left, input, history, site, OnError
  <1>14. CASE CtrlC
    BY <1>14, QuietOrHandling DEF OwnFile, OwnLines, FileIsFresh, CodeFits, CtrlC, Left, input, history, site, OnError
  <1>15. CASE SlotChange
    BY <1>15, QuietOrHandling DEF OwnFile, OwnLines, FileIsFresh, CodeFits, SlotChange, Left, input, history, site, OnError
  <1>16. CASE SessionLost
    BY <1>16, QuietOrHandling DEF OwnFile, OwnLines, FileIsFresh, CodeFits, SessionLost, Left, input, history, site, OnError
  <1> QED
    BY <1>1, <1>2, <1>3, <1>4, <1>5, <1>6, <1>7, <1>8, <1>9, <1>10, <1>11, <1>12, <1>13, <1>14, <1>15, <1>16 DEF Quiet

LEMMA OwnFileHandling == OwnFile /\ Handling => OwnFile'
  <1> SUFFICES ASSUME OwnFile, Handling PROVE OwnFile'
    OBVIOUS
  <1>1. CASE WaitBegin
    BY <1>1 DEF OwnFile, FileIsFresh, WaitBegin, NoFile, Codes, history
  <1>2. CASE WaitStdin
    BY <1>2 DEF OwnFile, FileIsFresh, WaitStdin, NoFile, Codes, history
  <1>3. CASE WaitFile
    BY <1>3 DEF OwnFile, FileIsFresh, WaitFile, NoFile, Codes, history
  <1>4. CASE Booked
    BY <1>4 DEF OwnFile, FileIsFresh, Booked, NoFile, Codes, history
  <1>5. CASE ReadLine
    BY <1>5 DEF OwnFile, FileIsFresh, ReadLine, NoFile, Codes, history, Hands
  <1>6. CASE ReadEnd
    BY <1>6 DEF OwnFile, FileIsFresh, ReadEnd, NoFile, Codes, history, Hands
  <1>7. CASE TypeLine
    BY <1>7 DEF OwnFile, FileIsFresh, TypeLine, NoFile, Codes, history
  <1>8. CASE WriteFile
    BY <1>8 DEF OwnFile, FileIsFresh, WriteFile, NoFile, Codes, history
  <1>9. CASE CloseStdin
    BY <1>9 DEF OwnFile, FileIsFresh, CloseStdin, NoFile, Codes, history
  <1> QED
    BY <1>1, <1>2, <1>3, <1>4, <1>5, <1>6, <1>7, <1>8, <1>9 DEF Handling

LEMMA OwnLinesHandling == OwnFile /\ OwnLines /\ Handling => OwnLines'
  <1> SUFFICES ASSUME OwnFile, OwnLines, Handling PROVE OwnLines'
    OBVIOUS
  <1>1. CASE WaitBegin
    <2>1. << >> \in Seq({0, wait})
      BY EmptySeq
    <2> QED BY <1>1, <2>1 DEF OwnLines, CodeFits, WaitBegin
  <1>2. CASE WaitStdin
    BY <1>2 DEF OwnLines, CodeFits, WaitStdin, NoFile, Codes, history
  <1>3. CASE WaitFile
    <2>1. code' = wait
      BY <1>3 DEF WaitFile, OwnFile, NoFile
    <2> QED BY <1>3, <2>1 DEF OwnLines, CodeFits, WaitFile
  <1>4. CASE Booked
    BY <1>4 DEF OwnLines, CodeFits, Booked, NoFile, Codes, history
  <1>5. CASE ReadLine
    <2>1. PICK r \in readers, n \in 1..Len(stdin) :
            Hands(r, Head(stdin)) /\ stdin' = SubSeq(stdin, n + 1, Len(stdin))
      BY <1>5 DEF ReadLine
    <2>2. UNCHANGED <<pc, wait, code, fileAt, leftover>>
      BY <1>5 DEF ReadLine, history
    <2>3. CASE pc = "wait" /\ ~leftover
      <3>1. stdin \in Seq({0, wait}) /\ chan \in {0, wait}
        BY <2>3 DEF OwnLines
      <3>2. stdin' \in Seq({0, wait}) /\ Head(stdin) \in {0, wait}
        BY <2>1, <3>1, LinesTaken
      <3> QED BY <2>1, <2>2, <2>3, <3>1, <3>2 DEF OwnLines, CodeFits, Hands
    <2> QED BY <2>2, <2>3 DEF OwnLines, CodeFits
  <1>6. CASE ReadEnd
    <2>1. PICK r \in readers : Hands(r, 0)
      BY <1>6 DEF ReadEnd
    <2>2. UNCHANGED <<pc, wait, code, stdin, leftover>>
      BY <1>6 DEF ReadEnd, history
    <2> QED BY <2>1, <2>2 DEF OwnLines, CodeFits, Hands
  <1>7. CASE TypeLine
    <2>1. UNCHANGED <<pc, wait, code, chan, leftover>>
      BY <1>7 DEF TypeLine, history
    <2>2. stdin \in Seq({0, wait}) => stdin' \in Seq({0, wait})
      BY <1>7, AppendProperties DEF TypeLine, Codes
    <2> QED BY <2>1, <2>2 DEF OwnLines, CodeFits
  <1>8. CASE WriteFile
    BY <1>8 DEF OwnLines, CodeFits, WriteFile, NoFile, Codes, history
  <1>9. CASE CloseStdin
    BY <1>9 DEF OwnLines, CodeFits, CloseStdin, NoFile, Codes, history
  <1> QED
    BY <1>1, <1>2, <1>3, <1>4, <1>5, <1>6, <1>7, <1>8, <1>9 DEF Handling

-----------------------------------------------------------------------------

LEMMA NextInv == IndInv /\ [Next]_vars => IndInv'
  <1> SUFFICES ASSUME IndInv, [Next]_vars PROVE IndInv'
    OBVIOUS
  <1>1. CASE Next
    <2>1. Places /\ Numbers /\ Flags /\ EnterLast /\ Inputs /\ SmsSent /\ Filtered /\ Announced /\ OwnFile /\ OwnLines
      BY TypeParts DEF IndInv
    <2>2. (Quiet \/ Handling) /\ manners' = manners
      BY <1>1, QuietOrHandling
    <2>3. TypeOK'
      BY <1>1, TypeStep DEF IndInv
    <2>4. SmsSent' /\ Filtered'
      BY <2>1, <2>2, SmsSentQuiet, SmsSentHandling, FilteredQuiet, FilteredHandling
    <2>6. Announced'
      BY <2>1, <2>2, AnnouncedQuiet, AnnouncedHandling DEF OwnLines
    <2>5. OwnFile' /\ OwnLines'
      BY <2>1, <2>2, OwnQuiet, OwnFileHandling, OwnLinesHandling
    <2> QED BY <2>3, <2>4, <2>5, <2>6 DEF IndInv
  <1>2. CASE UNCHANGED vars
    <2>1. TypeOK'
      BY <1>2 DEF IndInv, TypeOK, vars, site, input, history, manners
    <2>2. (SmsSent /\ Filtered /\ Announced)' /\ OwnFile'
      BY <1>2 DEF IndInv, SmsSent, Announced, Attempted, manners, Filtered, OnlyTarget, OwnFile, FileIsFresh, vars, site, input, history
    <2>3. OwnLines'
      BY <1>2 DEF IndInv, OwnLines, CodeFits, vars, site, input, history
    <2> QED BY <2>1, <2>2, <2>3 DEF IndInv
  <1> QED BY <1>1, <1>2

LEMMA Invariance == Spec => []IndInv
  BY InitInv, NextInv, PTL DEF Spec

\* Only the slot asked for is reserved, or another court of its facility where
\* setupSearchPage could not select one: when no call fails by itself, attempt's search
\* finds its filters set, whatever sessions were lost and however often recover ran.
THEOREM TargetOnly == Spec => []OnlyTarget
  <1>1. IndInv => OnlyTarget
    BY DEF IndInv, Filtered
  <1> QED BY <1>1, Invariance, PTL

\* attempt announces a booking that is the target's, unless the slot or the session was
\* gone at "Sepete Ekle"; waitForSMSCode returns a file only when it was written during this wait, and a line
\* only when it is the answer to this SMS, unless an unread line was left over: however
\* many goroutines of earlier waits still read stdin.
THEOREM CodesAnswerTheirSms == Spec => []BookingInv
  <1>1. IndInv => BookingInv
    BY DEF IndInv, OwnFile, OwnLines, Announced, BookedIsOurs, BookingInv
  <1> QED BY <1>1, Invariance, PTL
=============================================================================
