-------------------------- MODULE QuestionsProofs --------------------------
(***************************************************************************)
(* Proofs about Questions, for every number of routes and frequencies,      *)
(* every retry count, feature list and size of block, and any number of     *)
(* commands, losses and reconnects: the shared flags are right about the    *)
(* radio, and no block of a reading is passed over.                         *)
(***************************************************************************)
EXTENDS Questions, TLAPS

Asks == [kind : Kinds, n : Nat]
Protos == [event : Events, retry : Nat, first : BOOLEAN,
           next : Polls, nflag : 0 .. SdevTries, nfqcy : 0 .. MaxFqcy]

Soes == [num : -1 .. MaxSoe, sum : Nat, got : SUBSET Nat, lost : SUBSET Nat,
         ended : BOOLEAN]

(* A device said to be initialised is on the configured frequency.          *)
RadioInv == \A r \in Routes : sdevInit[r] => radio[r] = Goal

(* The receiver is moved off the configured frequency only by a route whose *)
(* own device is not initialised, and repeated only by such a one.          *)
ScanInv ==
  \A r \in Routes : ask[r].kind = "rdev" /\ ask[r].n # Goal => ~sdevInit[r]

(* Only frequencies there are are asked for.                                *)
FqcyInv == \A r \in Routes : ask[r].kind = "rdev" => ask[r].n \in Fqcys

(* When the receiver is off it while it counts as initialised, some route   *)
(* has yet to begin the question that initialises its device, and will      *)
(* first make the receiver count as not initialised.                        *)
TuneInv ==
  rdevInit /\ ~misled /\ tuned # Goal =>
    \E r \in Routes : ~sdevInit[r] /\ ask[r].kind # "sdev"

PairInv == RadioInv /\ ScanInv /\ FqcyInv /\ TuneInv

(* The places that a reading has not asked for, that it has asked and may   *)
(* yet be given, and that are settled.                                      *)
Left(r) == IF soe[r].num > 0 THEN soe[r].num ELSE 0
Settled(r, k) == \E n \in soe[r].got \cup soe[r].lost : k \in Named(n)
Pending(r, k) == Outstanding(r) /\ k \in Named(ask[r].n)

SoePart(r) ==
  /\ \A k \in 0 .. soe[r].sum - 1 : k < Left(r) \/ Settled(r, k) \/ Pending(r, k)
  /\ soe[r].ended => \A k \in 0 .. soe[r].sum - 1 : Settled(r, k)

SoeInv == \A r \in Routes : SoePart(r)

IInv == TypeOK /\ PairInv /\ SoeInv

-----------------------------------------------------------------------------
(* What the protocol is left with after each way of sending.                *)

LEMMA ModRange ==
  ASSUME NEW n \in Nat \ {0}, NEW a \in Nat PROVE a % n \in 0 .. n - 1
  BY SMT

LEMMA FollowingType == ASSUME NEW c \in Polls PROVE Following(c) \in Polls
  <1>1. PollNum \in Nat \ {0} /\ c + 1 \in Nat
    BY SMT, QuestionAssumption DEF Polls
  <1>2. QED BY <1>1, ModRange DEF Following, Polls

LEMMA ZeroPoll == 0 \in Polls /\ Following(0) \in Polls
  <1>1. 0 \in Polls
    BY SMT, QuestionAssumption DEF Polls
  <1>2. QED BY <1>1, FollowingType

LEMMA OpenedType == ASSUME NEW p \in Protos PROVE Opened(p) \in Protos
  BY ZeroPoll DEF Opened, Protos, Events

LEMMA NewProtoType == NewProto \in Protos
  <1>1. 0 \in 0 .. SdevTries /\ 0 \in 0 .. MaxFqcy
    BY SMT, QuestionAssumption
  <1>2. [event |-> "Succeeded", retry |-> 0, first |-> TRUE, next |-> 0,
         nflag |-> 0, nfqcy |-> 0] \in Protos
    BY <1>1, ZeroPoll DEF Protos, Events
  <1>3. QED BY <1>2, OpenedType DEF NewProto

LEMMA FoundType ==
  ASSUME TypeOK, NEW r \in Routes
  PROVE proto[r] \in Protos /\ Found(r) \in Protos /\ Pcmd(r) \in Protos /\ ask[r] \in Asks
  <1>1. proto[r] \in Protos /\ ask[r] \in Asks
    BY DEF TypeOK, Protos, Asks
  <1>2. Found(r) \in Protos
    BY <1>1 DEF Found, Protos
  <1>3. Pcmd(r) \in Protos
    BY <1>2, ZeroPoll DEF Pcmd, Protos
  <1>4. QED BY <1>1, <1>2, <1>3

LEMMA NextTurnType == ASSUME TypeOK, NextTurn PROVE turn' \in Routes
  <1>1. RouteNum \in Nat \ {0} /\ turn + 1 \in Nat
    BY SMT, QuestionAssumption DEF TypeOK, Routes
  <1>2. QED BY <1>1, ModRange DEF NextTurn, Routes

LEMMA SoeType ==
  ASSUME TypeOK PROVE soe \in [Routes -> Soes] /\ \A r \in Routes : soe[r] \in Soes
  BY DEF TypeOK, Soes

LEMMA SendType ==
  ASSUME TypeOK, NEW r \in Routes, NEW q \in Asks, NEW p \in Protos, Send(r, q, p)
  PROVE  /\ ask' \in [Routes -> Asks] /\ proto' \in [Routes -> Protos]
         /\ turn' \in Routes
  <1>1. ask' \in [Routes -> Asks]
    BY DEF TypeOK, Send, Asks
  <1>2. proto' \in [Routes -> Protos]
    BY DEF TypeOK, Send, Protos, Events
  <1>3. turn' \in Routes
    BY NextTurnType DEF TypeOK, Send
  <1>4. QED BY <1>1, <1>2, <1>3

LEMMA SendPollType ==
  ASSUME TypeOK, NEW r \in Routes, SendPoll(r)
  PROVE  /\ ask' \in [Routes -> Asks] /\ proto' \in [Routes -> Protos]
         /\ turn' \in Routes
  <1>1. PICK c \in NextPolls(r) :
          Send(r, Question("poll", c), [Found(r) EXCEPT !.first = FALSE, !.next = Following(c)])
    BY DEF SendPoll
  <1>2. c \in Polls
    BY SMT, QuestionAssumption DEF NextPolls, Polls
  <1>3. Question("poll", c) \in Asks
    BY SMT, <1>2 DEF Question, Asks, Kinds, Polls
  <1>4. [Found(r) EXCEPT !.first = FALSE, !.next = Following(c)] \in Protos
    BY <1>2, FoundType, FollowingType DEF Protos
  <1>5. QED BY <1>1, <1>3, <1>4, SendType

(* A question of a fixed kind.                                              *)
LEMMA AskType ==
  ASSUME TypeOK, NEW r \in Routes, NEW kind \in Kinds, NEW n \in Nat,
         Send(r, Question(kind, n), Found(r)) \/ Send(r, Question(kind, n), Pcmd(r))
  PROVE  /\ ask' \in [Routes -> Asks] /\ proto' \in [Routes -> Protos]
         /\ turn' \in Routes
  <1>1. Question(kind, n) \in Asks
    BY DEF Question, Asks
  <1>2. QED BY <1>1, FoundType, SendType

(* The current question goes out again.                                     *)
LEMMA AgainType ==
  ASSUME TypeOK, NEW r \in Routes, Send(r, ask[r], Found(r))
  PROVE  /\ ask' \in [Routes -> Asks] /\ proto' \in [Routes -> Protos]
         /\ turn' \in Routes
  BY FoundType, SendType

(* Every way of finding a command.                                          *)

Asked3 == ask' \in [Routes -> Asks] /\ proto' \in [Routes -> Protos] /\ turn' \in Routes
Rest == <<devices, readings, jobs, history>>

LEMMA AskedRest ==
  ASSUME TypeOK, Asked3,
         sdevInit' \in [Routes -> BOOLEAN], rdevInit' \in BOOLEAN, misled' \in BOOLEAN,
         tuned' \in Fqcys, radio' \in [Routes -> Fqcys],
         soe' = soe \/ soe' \in [Routes -> Soes],
         recs' = recs \/ recs' \in [Routes -> [num : -1 .. MaxRecords, left : Nat]],
         udp' = udp \/ udp' \in [Routes -> Int],
         jobs' \subseteq jobs, history' = history \/ (posted' = posted /\ resent' \in BOOLEAN /\ troubles' = troubles)
  PROVE  TypeOK'
  BY DEF TypeOK, Asked3, Asks, Protos, Soes, history

LEMMA PairSearchType ==
  ASSUME TypeOK, NEW r \in Routes,
         EditSdevFqcy(r) \/ ScanRdevFqcy(r) \/ AwaitOthers(r) \/ EditRdevFqcy(r)
  PROVE  TypeOK'
  <1>1. CASE EditSdevFqcy(r)
    <2>1. Question("sdev", 0) \in Asks
      BY DEF Question, Asks, Kinds
    <2>2. proto[r].nflag + 1 \in 0 .. SdevTries
      BY SMT, <1>1, FoundType, QuestionAssumption DEF EditSdevFqcy, Protos
    <2>3. [Pcmd(r) EXCEPT !.nflag = @ + 1] \in Protos
      BY <2>2, FoundType, ZeroPoll DEF Pcmd, Found, Protos
    <2>4. Asked3
      BY <1>1, <2>1, <2>3, SendType DEF EditSdevFqcy, Asked3
    <2>5. QED BY <1>1, <2>4, AskedRest DEF EditSdevFqcy, Searches, readings, history, TypeOK
  <1>2. CASE ScanRdevFqcy(r)
    <2>1. ScanFqcy(r) \in Nat
      BY SMT, FoundType, QuestionAssumption DEF ScanFqcy, Protos
    <2>2. Question("rdev", ScanFqcy(r)) \in Asks
      BY <2>1 DEF Question, Asks, Kinds
    <2>3. NextFqcy(proto[r].nfqcy) \in 0 .. MaxFqcy
      BY SMT, FoundType, QuestionAssumption DEF NextFqcy, Protos
    <2>4. [Pcmd(r) EXCEPT !.nfqcy = NextFqcy(@)] \in Protos
      BY <2>3, FoundType, ZeroPoll DEF Pcmd, Found, Protos
    <2>5. Asked3
      BY <1>2, <2>2, <2>4, SendType DEF ScanRdevFqcy, Asked3
    <2>6. QED BY <1>2, <2>5, AskedRest DEF ScanRdevFqcy, Searches, readings, history, TypeOK
  <1>3. CASE AwaitOthers(r)
    <2>1. "nothing" \in Kinds /\ 0 \in Nat
      BY DEF Kinds
    <2>2. Asked3
      BY <1>3, <2>1, AskType, AgainType DEF AwaitOthers, Asked3
    <2>3. QED BY <1>3, <2>2, AskedRest DEF AwaitOthers, devices, readings, history, TypeOK
  <1>4. CASE EditRdevFqcy(r)
    <2>1. "rdev" \in Kinds /\ Goal \in Nat
      BY SMT, QuestionAssumption DEF Kinds
    <2>2. Asked3
      BY <1>4, <2>1, AskType DEF EditRdevFqcy, Asked3
    <2>3. QED BY <1>4, <2>2, AskedRest DEF EditRdevFqcy, devices, readings, history, TypeOK
  <1>5. QED BY <1>1, <1>2, <1>3, <1>4

LEMMA GetSOEDataType ==
  ASSUME TypeOK, NEW r \in Routes, GetSOEData(r)
  PROVE  /\ Asked3
         /\ soe' \in [Routes -> Soes]
  <1>1. CASE soe[r].num < 0
    <2>1. "soecount" \in Kinds /\ 0 \in Nat
      BY DEF Kinds
    <2>2. QED BY <1>1, <2>1, AskType, SoeType DEF GetSOEData, Asked3
  <1>2. CASE ~(soe[r].num < 0)
    <2> DEFINE left == soe[r].num - Least(soe[r].num, SoeBlock)
    <2>1. soe[r] \in Soes
      BY SoeType
    <2>2. soe[r].num \in Nat /\ left \in -1 .. MaxSoe
      BY SMT, <1>2, <2>1, QuestionAssumption DEF Least, Soes
    <2>3. "soeblock" \in Kinds
      BY DEF Kinds
    <2>4. Send(r, Question("soeblock", soe[r].num), Pcmd(r))
          /\ soe' = [soe EXCEPT ![r].num = left]
      BY <1>2, SoeType DEF GetSOEData
    <2>5. Asked3
      BY <2>2, <2>3, <2>4, AskType DEF Asked3
    <2> HIDE DEF left
    <2>6. QED BY <2>1, <2>2, <2>4, <2>5, SoeType DEF Soes
  <1>3. QED BY <1>1, <1>2

LEMMA GetRecordsDataType ==
  ASSUME TypeOK, NEW r \in Routes, GetRecordsData(r)
  PROVE  /\ Asked3 /\ resent' \in BOOLEAN
         /\ recs' \in [Routes -> [num : -1 .. MaxRecords, left : Nat]]
  <1>0. recs[r] \in [num : -1 .. MaxRecords, left : Nat] /\ -1 \in -1 .. MaxRecords
    BY SMT, QuestionAssumption DEF TypeOK
  <1>1. CASE recs[r].num < 0
    <2>1. "reccount" \in Kinds /\ 0 \in Nat
      BY DEF Kinds
    <2>2. Send(r, Question("reccount", 0), Pcmd(r)) /\ recs' = recs /\ resent' = resent
      BY <1>0, <1>1 DEF GetRecordsData
    <2>3. QED BY <2>1, <2>2, AskType DEF Asked3, TypeOK
  <1>2. CASE recs[r].num >= 0 /\ recs[r].left > 0
    <2>1. "recpart" \in Kinds
      BY DEF Kinds
    <2>2. Send(r, Question("recpart", recs[r].left), Pcmd(r)) /\ resent' = resent
      BY <1>0, <1>2 DEF GetRecordsData
    <2>3. recs' = [recs EXCEPT ![r].left = @ - 1,
                               ![r].num = IF recs[r].left = 1 THEN -1 ELSE @]
      BY <1>0, <1>2 DEF GetRecordsData
    <2>4. recs[r].left - 1 \in Nat
      BY SMT, <1>0, <1>2
    <2>5. Asked3
      BY <1>0, <2>1, <2>2, AskType DEF Asked3
    <2>6. recs' \in [Routes -> [num : -1 .. MaxRecords, left : Nat]]
      BY <1>0, <2>3, <2>4 DEF TypeOK
    <2>7. QED BY <2>2, <2>5, <2>6 DEF TypeOK
  <1>3. CASE recs[r].num >= 0 /\ recs[r].left = 0
    <2>1. Send(r, ask[r], Found(r)) /\ recs' = [recs EXCEPT ![r].num = -1]
          /\ resent' = (resent \/ ask[r].kind = "control")
      BY <1>0, <1>3 DEF GetRecordsData
    <2>2. Asked3
      BY <2>1, AgainType DEF Asked3
    <2>3. QED BY <1>0, <2>1, <2>2 DEF TypeOK
  <1>4. QED BY <1>0, <1>1, <1>2, <1>3

LEMMA ReadingType ==
  ASSUME TypeOK, NEW r \in Routes, SendUdp(r) \/ ReadOnSOE(r) \/ ReadOnRecords(r)
  PROVE  TypeOK'
  <1>1. CASE SendUdp(r)
    <2>1. "udp" \in Kinds /\ 0 \in Nat
      BY DEF Kinds
    <2>2. Asked3
      BY <1>1, <2>1, AskType DEF SendUdp, Asked3
    <2>3. udp[r] - 1 \in Int
      BY SMT DEF TypeOK
    <2>4. udp' \in [Routes -> Int]
      BY <1>1, <2>3 DEF SendUdp, TypeOK
    <2>5. QED BY <1>1, <2>2, <2>4, AskedRest DEF SendUdp, devices, history, TypeOK
  <1>2. CASE ReadOnSOE(r)
    BY <1>2, GetSOEDataType, AskedRest DEF ReadOnSOE, devices, history, TypeOK
  <1>3. CASE ReadOnRecords(r)
    BY <1>3, GetRecordsDataType, AskedRest DEF ReadOnRecords, devices, history, TypeOK
  <1>4. QED BY <1>1, <1>2, <1>3

(* The operators' commands.                                                 *)
LEMMA ManualType ==
  ASSUME TypeOK, NEW r \in Routes,
         \/ MakeYkSelect(r) \/ MakeYkExecute(r) \/ MakeSelectParameter(r)
         \/ MakeSetParameter(r) \/ MakeConstantValue(r) \/ SendYcCommand(r)
         \/ SendTime(r) \/ CancelYk(r) \/ Poll(r)
  PROVE  TypeOK'
  <1>1. "control" \in Kinds /\ "constant" \in Kinds /\ "yc" \in Kinds
        /\ "time" \in Kinds /\ 0 \in Nat /\ Goal \in Nat
    BY SMT, QuestionAssumption DEF Kinds
  <1>2. SendControl(r) => Asked3
    BY <1>1, AskType DEF SendControl, Asked3
  <1>3. SendPoll(r) => Asked3
    BY SendPollType DEF Asked3
  <1>4. MakeConstantValue(r) \/ SendYcCommand(r) \/ SendTime(r) => Asked3
    BY <1>1, AskType DEF MakeConstantValue, SendYcCommand, SendTime, Asked3
  <1>5. Asked3
    BY <1>2, <1>3, <1>4 DEF MakeYkSelect, MakeYkExecute, MakeSelectParameter,
       MakeSetParameter, CancelYk, Poll
  <1>6. UNCHANGED <<devices, readings, history>> /\ jobs' \subseteq jobs
    BY DEF MakeYkSelect, MakeYkExecute, MakeSelectParameter, MakeSetParameter,
       MakeConstantValue, SendYcCommand, SendTime, CancelYk, Poll, Takes
  <1>7. QED BY <1>5, <1>6, AskedRest DEF devices, readings, history, TypeOK

LEMMA CallsType ==
  ASSUME TypeOK, NEW r \in Routes,
         CallSOEData(r) \/ CallRecordsData(r) \/ ReadfileSenddev(r) \/ EditPara(r) \/ EditUdp(r)
  PROVE  TypeOK'
  <1>1. CASE CallSOEData(r)
    BY <1>1, GetSOEDataType, AskedRest DEF CallSOEData, Takes, devices, history, TypeOK
  <1>2. CASE CallRecordsData(r)
    BY <1>2, GetRecordsDataType, AskedRest DEF CallRecordsData, Takes, devices, history, TypeOK
  <1>3. CASE ReadfileSenddev(r)
    <2>1. "udp" \in Kinds /\ 0 \in Nat
      BY DEF Kinds
    <2>2. PICK rows \in IF udp[r] = 0 THEN 0 .. MaxUdp ELSE {udp[r]} :
            IF rows > 0
            THEN /\ Send(r, Question("udp", 0), Pcmd(r))
                 /\ udp' = [udp EXCEPT ![r] = rows - 1]
                 /\ UNCHANGED resent
            ELSE /\ Send(r, ask[r], Found(r))
                 /\ resent' = (resent \/ ask[r].kind = "control")
                 /\ UNCHANGED udp
      BY <1>3 DEF ReadfileSenddev
    <2>3. Asked3
      BY <2>1, <2>2, AskType, AgainType DEF Asked3
    <2>4. rows \in Int /\ rows - 1 \in Int
      BY SMT, QuestionAssumption DEF TypeOK
    <2>5. udp' \in [Routes -> Int] /\ resent' \in BOOLEAN
      BY <2>2, <2>4 DEF TypeOK
    <2>6. QED BY <1>3, <2>3, <2>5, AskedRest DEF ReadfileSenddev, Takes, devices, TypeOK
  <1>4. CASE EditPara(r)
    <2>1. "nothing" \in Kinds /\ 0 \in Nat
      BY DEF Kinds
    <2>2. Asked3
      BY <1>4, <2>1, AskType, AgainType DEF EditPara, Asked3
    <2>3. udp[r] - 1 \in Int
      BY SMT DEF TypeOK
    <2>4. udp' \in [Routes -> Int]
      BY <1>4, <2>3 DEF EditPara, TypeOK
    <2>5. QED BY <1>4, <2>2, <2>4, AskedRest DEF EditPara, Takes, devices, history, TypeOK
  <1>5. CASE EditUdp(r)
    <2>1. PICK c \in NextPolls(r) :
            Send(r, Question("poll", c), [Found(r) EXCEPT
              !.first = FALSE, !.next = Following(c), !.nfqcy = 0, !.nflag = 0])
      BY <1>5 DEF EditUdp
    <2>2. c \in Polls
      BY ZeroPoll DEF NextPolls
    <2>3. Question("poll", c) \in Asks
      BY SMT, <2>2 DEF Question, Asks, Kinds, Polls
    <2>4. 0 \in 0 .. SdevTries /\ 0 \in 0 .. MaxFqcy
      BY SMT, QuestionAssumption
    <2>5. [Found(r) EXCEPT !.first = FALSE, !.next = Following(c), !.nfqcy = 0, !.nflag = 0]
            \in Protos
      BY <2>2, <2>4, FoundType, FollowingType DEF Protos
    <2>6. Asked3
      BY <2>1, <2>3, <2>5, SendType DEF Asked3
    <2>7. sdevInit' \in [Routes -> BOOLEAN] /\ radio' \in [Routes -> Fqcys]
      BY <1>5 DEF EditUdp, TypeOK
    <2>8. QED BY <1>5, <2>6, <2>7, AskedRest DEF EditUdp, Takes, readings, history, TypeOK
  <1>6. QED BY <1>1, <1>2, <1>3, <1>4, <1>5

LEMMA FindType ==
  ASSUME TypeOK, NEW r \in Routes, FindNextCommand(r)
  PROVE  TypeOK'
  BY PairSearchType, ReadingType, ManualType, CallsType DEF FindNextCommand

LEMMA RepeatType ==
  ASSUME TypeOK, NEW r \in Routes, Repeat(r)
  PROVE  TypeOK'
  <1>1. proto[r].retry + 1 \in Nat
    BY SMT, FoundType DEF Protos
  <1>2. [proto[r] EXCEPT !.retry = @ + 1] \in Protos
    BY <1>1, FoundType DEF Protos
  <1>3. Asked3
    BY <1>2, FoundType, SendType DEF Repeat, Asked3
  <1>4. QED BY <1>3, AskedRest DEF Repeat, devices, readings, history, TypeOK

-----------------------------------------------------------------------------
(* Answers, losses and what goes on around them.                            *)

LEMMA ObeysType ==
  ASSUME TypeOK, NEW r \in Routes, Obeys(r), ask[r].kind = "rdev" => ask[r].n \in Fqcys
  PROVE  tuned' \in Fqcys /\ radio' \in [Routes -> Fqcys]
  <1>1. Goal \in Fqcys
    BY QuestionAssumption DEF Fqcys
  <1>2. QED BY <1>1 DEF Obeys, TypeOK

LEMMA SettleType ==
  ASSUME TypeOK, NEW r \in Routes, NEW event \in Events, Settle(r, event)
  PROVE  Asked3
  <1>1. [proto[r] EXCEPT !.event = event] \in Protos
    BY FoundType DEF Protos
  <1>2. proto' = [proto EXCEPT ![r] = [proto[r] EXCEPT !.event = event]]
    BY DEF Settle
  <1>3. proto \in [Routes -> Protos] /\ ask \in [Routes -> Asks]
    BY DEF TypeOK, Protos, Asks
  <1>4. proto' \in [Routes -> Protos]
    BY <1>1, <1>2, <1>3
  <1>5. QED BY <1>3, <1>4, NextTurnType DEF Settle, Asked3

LEMMA MissBlockType ==
  ASSUME TypeOK, NEW r \in Routes, NEW b \in BOOLEAN, MissBlock(r, b)
  PROVE  soe' \in [Routes -> Soes]
  <1>1. ask[r].n \in Nat
    BY DEF TypeOK
  <1>2. CASE soe' = soe
    BY <1>2, SoeType
  <1>3. CASE soe' = [soe EXCEPT ![r].lost = @ \cup {ask[r].n}]
    BY <1>1, <1>3, SoeType DEF Soes
  <1>4. QED BY <1>2, <1>3 DEF MissBlock

LEMMA AnswerType ==
  ASSUME TypeOK, FqcyInv, NEW r \in Routes, Answer(r)
  PROVE  TypeOK'
  <1>1. tuned' \in Fqcys /\ radio' \in [Routes -> Fqcys]
    BY ObeysType DEF Answer, FqcyInv
  <1>2. turn' \in Routes
    BY NextTurnType DEF Answer
  <1>3. proto[r] \in Protos /\ 0 \in 0 .. SdevTries
    BY SMT, FoundType, QuestionAssumption
  <1>4. CASE ResolveSdev(r)
    BY <1>1, <1>2, <1>3, <1>4 DEF ResolveSdev, Answer, TypeOK, readings, history, Protos, Events
  <1>5. CASE ResolveConstvalue(r)
    <2>1. rdevInit' \in BOOLEAN /\ misled' \in BOOLEAN
      BY <1>5 DEF ResolveConstvalue, Confirms, TypeOK
    <2>2. proto' \in [Routes -> Protos]
      <3>1. CASE proto' = [proto EXCEPT ![r].event = "Succeeded"]
        BY <1>3, <3>1 DEF TypeOK, Protos, Events
      <3>2. CASE proto' = [proto EXCEPT ![r].event = "Succeeded", ![r].nflag = 0]
        BY <1>3, <3>2 DEF TypeOK, Protos, Events
      <3>3. QED BY <1>5, <3>1, <3>2 DEF ResolveConstvalue
    <2>3. QED BY <1>1, <1>2, <1>5, <2>1, <2>2
         DEF ResolveConstvalue, Answer, TypeOK, readings, history, Protos
  <1>6. CASE ResolveSOEData(r)
    <2>1. soe' \in [Routes -> Soes]
      <3>1. CASE soe[r].num < 0
        <4>1. PICK n \in 0 .. MaxSoe :
                soe' = [soe EXCEPT ![r] = [NewSoe EXCEPT !.num = IF n = 0 THEN -1 ELSE n,
                                                         !.sum = n]]
          BY <1>6, <3>1 DEF ResolveSOEData
        <4>2. n \in Nat /\ n \in -1 .. MaxSoe /\ -1 \in -1 .. MaxSoe /\ 0 \in Nat
          BY SMT, QuestionAssumption
        <4>3. [NewSoe EXCEPT !.num = IF n = 0 THEN -1 ELSE n, !.sum = n] \in Soes
          BY <4>2 DEF NewSoe, Soes
        <4>4. QED BY <4>1, <4>3, SoeType
      <3>2. CASE ~(soe[r].num < 0)
        <4> DEFINE got == soe[r].got \cup {ask[r].n}
                   num == IF soe[r].num = 0 THEN -1 ELSE soe[r].num
                   ended == soe[r].num = 0 /\ ask[r].n > 0
        <4>1. soe' = [soe EXCEPT ![r].got = got, ![r].ended = ended, ![r].num = num]
          BY <1>6, <3>2 DEF ResolveSOEData
        <4>2. got \subseteq Nat /\ num \in -1 .. MaxSoe
          <5>1. got \subseteq Nat
            BY DEF TypeOK
          <5>2. num \in -1 .. MaxSoe
            BY SMT, QuestionAssumption DEF TypeOK
          <5>3. QED BY <5>1, <5>2
        <4>3. ended \in BOOLEAN
          OBVIOUS
        <4> HIDE DEF got, num, ended
        <4>4. soe[r] \in Soes
          BY SoeType
        <4>5. [[[soe[r] EXCEPT !.got = got] EXCEPT !.ended = ended] EXCEPT !.num = num] \in Soes
          BY <4>2, <4>3, <4>4 DEF Soes
        <4>6. soe' = [soe EXCEPT ![r] =
                [[[soe[r] EXCEPT !.got = got] EXCEPT !.ended = ended] EXCEPT !.num = num]]
          BY <4>1, SoeType
        <4>7. QED BY <4>5, <4>6, SoeType
      <3>3. QED BY <3>1, <3>2
    <2>2. proto' \in [Routes -> Protos]
      BY <1>3, <1>6 DEF ResolveSOEData, TypeOK, Protos, Events
    <2>3. QED BY <1>1, <1>2, <1>6, <2>1, <2>2
         DEF ResolveSOEData, Answer, TypeOK, readings, history, Protos, Soes
  <1>7. CASE ResolveRecordsData(r)
    <2>1. recs' \in [Routes -> [num : -1 .. MaxRecords, left : Nat]]
      <3>1. CASE ask[r].kind = "reccount"
        <4>1. PICK n \in 0 .. MaxRecords :
                recs' = [recs EXCEPT ![r] = [num |-> n, left |-> n * PartNum]]
          BY <1>7, <3>1 DEF ResolveRecordsData
        <4>2. n \in -1 .. MaxRecords /\ n \in Nat /\ PartNum \in Nat
          BY SMT, QuestionAssumption
        <4>3. n * PartNum \in Nat
          BY SMT, <4>2
        <4>4. QED BY <4>1, <4>2, <4>3 DEF TypeOK
      <3>2. QED BY <1>7, <3>1 DEF ResolveRecordsData, TypeOK
    <2>2. proto' \in [Routes -> Protos]
      BY <1>3, <1>7 DEF ResolveRecordsData, TypeOK, Protos, Events
    <2>3. QED BY <1>1, <1>2, <1>7, <2>1, <2>2
         DEF ResolveRecordsData, Answer, TypeOK, readings, history, Protos
  <1>8. CASE ResolveValues(r)
    BY <1>1, <1>2, <1>3, <1>8 DEF ResolveValues, Answer, TypeOK, readings, history, Protos, Events
  <1>9. QED BY <1>4, <1>5, <1>6, <1>7, <1>8 DEF Answer

LEMMA LossType ==
  ASSUME TypeOK, FqcyInv, NEW r \in Routes, TimeOut(r) \/ AnswerLost(r) \/ Refused(r)
  PROVE  TypeOK'
  <1>1. "TimeOut" \in Events /\ "CheckError" \in Events /\ "Succeeded" \in Events
        /\ LastTry(r) \in BOOLEAN /\ TRUE \in BOOLEAN
    BY DEF Events, LastTry
  <1>2. Asked3
    BY <1>1, SettleType DEF TimeOut, AnswerLost, Refused
  <1>3. soe' \in [Routes -> Soes]
    BY <1>1, MissBlockType DEF TimeOut, AnswerLost, Refused
  <1>4. tuned' \in Fqcys /\ radio' \in [Routes -> Fqcys]
    <2>1. CASE AnswerLost(r)
      BY <2>1, ObeysType DEF AnswerLost, FqcyInv
    <2>2. QED BY <2>1 DEF TimeOut, Refused, devices, TypeOK
  <1>5. troubles' \in Nat
    <2>1. troubles \in Nat /\ troubles + 1 \in Nat
      BY SMT DEF TypeOK
    <2>2. QED BY <2>1 DEF TimeOut, AnswerLost, Refused, Trouble
  <1>6. UNCHANGED <<sdevInit, rdevInit, misled, recs, udp, jobs, posted, resent>>
    BY DEF TimeOut, AnswerLost, Refused, devices
  <1>7. QED BY <1>2, <1>3, <1>4, <1>5, <1>6 DEF Asked3, Asks, Protos, Soes, TypeOK

LEMMA AroundType ==
  ASSUME TypeOK,
         \/ \E r \in Routes, kind \in JobKinds : PostJob(r, kind)
         \/ \E r \in Routes : Renew(r)
         \/ Reconnect
  PROVE  TypeOK'
  <1>1. ASSUME NEW r \in Routes, NEW kind \in JobKinds, PostJob(r, kind) PROVE TypeOK'
    <2>1. posted' \in Nat
      BY SMT, <1>1 DEF PostJob, TypeOK
    <2>2. jobs' \subseteq Routes \X JobKinds
      BY <1>1 DEF PostJob, TypeOK
    <2>3. QED BY <1>1, <2>1, <2>2 DEF PostJob, TypeOK, devices, exchange, readings
  <1>2. CASE Reconnect
    <2>1. ask' \in [Routes -> Asks]
      BY <1>2 DEF Reconnect, Question, Asks, Kinds
    <2>2. \A s \in Routes : Opened(proto[s]) \in Protos
      BY FoundType, OpenedType
    <2>3. proto' \in [Routes -> Protos]
      BY <1>2, <2>2 DEF Reconnect
    <2>4. \A s \in Routes : ask[s].n \in Nat
      BY DEF TypeOK
    <2>5. soe' \in [Routes -> Soes]
      <3> SUFFICES ASSUME NEW s \in Routes
          PROVE  (IF Outstanding(s) THEN [soe[s] EXCEPT !.lost = @ \cup {ask[s].n}] ELSE soe[s])
                   \in Soes
        BY <1>2 DEF Reconnect
      <3>1. [soe[s] EXCEPT !.lost = @ \cup {ask[s].n}]
              \in Soes
        BY <2>4, SoeType DEF Soes
      <3>2. QED BY <3>1, SoeType
    <2>6. troubles' \in Nat
      BY <1>2 DEF Reconnect, Trouble, TypeOK
    <2>7. QED BY <1>2, <2>1, <2>3, <2>5, <2>6 DEF Reconnect, TypeOK, devices, Asks, Protos, Soes
  <1>3. ASSUME NEW r \in Routes, Renew(r) PROVE TypeOK'
    <2>1. ask' \in [Routes -> Asks]
      BY <1>3 DEF Renew, Question, Asks, Kinds, TypeOK
    <2>2. proto' \in [Routes -> Protos]
      BY <1>3, NewProtoType DEF Renew, TypeOK, Protos
    <2>3. -1 \in -1 .. MaxRecords
          /\ NewSoe \in Soes
      BY SMT, QuestionAssumption DEF NewSoe, Soes
    <2>4. soe' \in [Routes -> Soes]
      BY <1>3, <2>3, SoeType DEF Renew
    <2>5. recs' \in [Routes -> [num : -1 .. MaxRecords, left : Nat]]
      BY <1>3, <2>3 DEF Renew, NewRecs, TypeOK
    <2>6. udp' \in [Routes -> Int] /\ troubles' \in Nat
      BY SMT, <1>3 DEF Renew, Trouble, TypeOK
    <2>7. QED BY <1>3, <2>1, <2>2, <2>4, <2>5, <2>6 DEF Renew, TypeOK, devices, Asks, Protos, Soes
  <1>4. QED BY <1>1, <1>2, <1>3

LEMMA TypeStep ==
  ASSUME TypeOK, FqcyInv, [Next]_vars
  PROVE  TypeOK'
  <1>1. ASSUME NEW r \in Routes, Turn(r) PROVE TypeOK'
    BY <1>1, RepeatType, FindType, AnswerType, LossType DEF Turn
  <1>2. ASSUME NEW r \in Routes, Renew(r) PROVE TypeOK'
    BY <1>2, AroundType
  <1>3. ASSUME NEW r \in Routes, NEW kind \in JobKinds, PostJob(r, kind) PROVE TypeOK'
    BY <1>3, AroundType
  <1>4. ASSUME Reconnect PROVE TypeOK'
    BY <1>4, AroundType
  <1>5. ASSUME UNCHANGED vars PROVE TypeOK'
    BY <1>5 DEF vars, devices, exchange, readings, history, TypeOK
  <1>6. QED BY <1>1, <1>2, <1>3, <1>4, <1>5 DEF Next

-----------------------------------------------------------------------------
(* The radio. Most steps leave the devices alone and ask nothing that moves *)
(* them, or what they asked before.                                         *)

Harmless(r) ==
  \/ ask'[r] = ask[r]
  \/ ask'[r].kind \notin {"sdev", "rdev"}
  \/ ask'[r] = Question("rdev", Goal)

LEMMA HarmlessPair ==
  ASSUME TypeOK, PairInv, UNCHANGED devices, \A r \in Routes : Harmless(r)
  PROVE  PairInv'
  <1>1. Goal \in Fqcys
    BY QuestionAssumption DEF Fqcys
  <1>2. RadioInv'
    BY DEF PairInv, RadioInv, devices
  <1>3. ScanInv' /\ FqcyInv'
    BY <1>1 DEF PairInv, ScanInv, FqcyInv, Harmless, Question, devices
  <1>4. TuneInv'
    BY DEF PairInv, TuneInv, Harmless, Question, devices
  <1>5. QED BY <1>2, <1>3, <1>4 DEF PairInv

LEMMA SentPair ==
  ASSUME TypeOK, NEW r \in Routes, NEW q, NEW p, Send(r, q, p),
         q = ask[r] \/ q.kind \notin {"sdev", "rdev"} \/ q = Question("rdev", Goal)
  PROVE  \A s \in Routes : Harmless(s)
  <1>1. ask' = [ask EXCEPT ![r] = q] /\ ask \in [Routes -> Asks]
    BY DEF Send, TypeOK, Asks
  <1>2. QED BY <1>1 DEF Harmless

LEMMA FixedPair ==
  ASSUME TypeOK, NEW r \in Routes, NEW n, NEW p,
         NEW kind \in Kinds \ {"sdev", "rdev"}, Send(r, Question(kind, n), p)
  PROVE  \A s \in Routes : Harmless(s)
  <1>1. Question(kind, n).kind \notin {"sdev", "rdev"}
    BY DEF Question
  <1>2. QED BY <1>1, SentPair

LEMMA SendPollPair ==
  ASSUME TypeOK, NEW r \in Routes, SendPoll(r)
  PROVE  \A s \in Routes : Harmless(s)
  BY FixedPair DEF SendPoll, Kinds

LEMMA GetPair ==
  ASSUME TypeOK, NEW r \in Routes, GetSOEData(r) \/ GetRecordsData(r)
  PROVE  \A s \in Routes : Harmless(s)
  <1>1. "soecount" \in Kinds \ {"sdev", "rdev"} /\ "soeblock" \in Kinds \ {"sdev", "rdev"}
        /\ "reccount" \in Kinds \ {"sdev", "rdev"} /\ "recpart" \in Kinds \ {"sdev", "rdev"}
    BY DEF Kinds
  <1>2. CASE GetSOEData(r)
    BY <1>1, <1>2, FixedPair DEF GetSOEData
  <1>3. CASE GetRecordsData(r)
    BY <1>1, <1>3, FixedPair, SentPair DEF GetRecordsData
  <1>4. QED BY <1>2, <1>3

(* A device that is searched makes the receiver count as not initialised.   *)
LEMMA SearchPair ==
  ASSUME TypeOK, PairInv, NEW r \in Routes, EditSdevFqcy(r) \/ ScanRdevFqcy(r)
  PROVE  PairInv'
  <1>1. ~sdevInit[r] /\ rdevInit' = FALSE /\ sdevInit' = sdevInit /\ radio' = radio
    BY DEF EditSdevFqcy, ScanRdevFqcy, Searches
  <1>2. \E q : ask' = [ask EXCEPT ![r] = q] /\ (q.kind = "rdev" => q.n \in Fqcys)
    <2>1. CASE EditSdevFqcy(r)
      <3>1. ask' = [ask EXCEPT ![r] = Question("sdev", 0)]
        BY <2>1 DEF EditSdevFqcy, Send
      <3>2. Question("sdev", 0).kind # "rdev"
        BY DEF Question
      <3>3. QED BY <3>1, <3>2
    <2>2. CASE ScanRdevFqcy(r)
      <3>1. ScanFqcy(r) \in Fqcys
        BY SMT, FoundType, QuestionAssumption DEF ScanFqcy, Protos, Fqcys
      <3>2. ask' = [ask EXCEPT ![r] = Question("rdev", ScanFqcy(r))]
        BY <2>2 DEF ScanRdevFqcy, Send
      <3>3. Question("rdev", ScanFqcy(r)).n \in Fqcys
        BY <3>1 DEF Question
      <3>4. QED BY <3>2, <3>3
    <2>3. QED BY <2>1, <2>2
  <1>3. PICK q : ask' = [ask EXCEPT ![r] = q] /\ (q.kind = "rdev" => q.n \in Fqcys)
    BY <1>2
  <1>4. ask \in [Routes -> Asks]
    BY DEF TypeOK, Asks
  <1>5. RadioInv' /\ TuneInv'
    BY <1>1 DEF PairInv, RadioInv, TuneInv
  <1>6. ScanInv' /\ FqcyInv'
    BY <1>1, <1>3, <1>4 DEF PairInv, ScanInv, FqcyInv
  <1>7. QED BY <1>5, <1>6 DEF PairInv

(* A device to be initialised anew may be on any frequency.                 *)
LEMMA EditUdpPair ==
  ASSUME TypeOK, PairInv, NEW r \in Routes, EditUdp(r)
  PROVE  PairInv'
  <1>1. PICK c \in NextPolls(r) :
          Send(r, Question("poll", c), [Found(r) EXCEPT
            !.first = FALSE, !.next = Following(c), !.nfqcy = 0, !.nflag = 0])
    BY DEF EditUdp
  <1>2. ask' = [ask EXCEPT ![r] = Question("poll", c)] /\ ask \in [Routes -> Asks]
    BY <1>1 DEF Send, TypeOK, Asks
  <1>3. PICK f \in Fqcys : radio' = [radio EXCEPT ![r] = f]
    BY DEF EditUdp
  <1>4. sdevInit' = [sdevInit EXCEPT ![r] = FALSE] /\ sdevInit \in [Routes -> BOOLEAN]
        /\ radio \in [Routes -> Fqcys] /\ UNCHANGED <<rdevInit, misled, tuned>>
    BY DEF EditUdp, TypeOK
  <1>5. RadioInv'
    BY <1>3, <1>4 DEF PairInv, RadioInv
  <1>6. ScanInv' /\ FqcyInv'
    BY <1>2, <1>4 DEF PairInv, ScanInv, FqcyInv, Question
  <1>7. TuneInv'
    <2>1. ~sdevInit'[r] /\ ask'[r].kind # "sdev"
      BY <1>2, <1>4 DEF Question
    <2>2. QED BY <2>1 DEF TuneInv
  <1>8. QED BY <1>5, <1>6, <1>7 DEF PairInv

LEMMA FindPair ==
  ASSUME TypeOK, PairInv, NEW r \in Routes, FindNextCommand(r)
  PROVE  PairInv'
  <1> DEFINE Still == UNCHANGED devices /\ \A s \in Routes : Harmless(s)
             Fixed == Kinds \ {"sdev", "rdev"}
  <1>1. "nothing" \in Fixed /\ "control" \in Fixed /\ "constant" \in Fixed /\ "yc" \in Fixed
        /\ "time" \in Fixed /\ "udp" \in Fixed
    BY DEF Kinds
  <1>2. AwaitOthers(r) \/ EditPara(r) => Still
    BY <1>1, FixedPair, SentPair DEF AwaitOthers, EditPara
  <1>3. EditRdevFqcy(r) => Still
    BY SentPair DEF EditRdevFqcy
  <1>4. SendUdp(r) \/ MakeConstantValue(r) \/ SendYcCommand(r) \/ SendTime(r) => Still
    BY <1>1, FixedPair DEF SendUdp, MakeConstantValue, SendYcCommand, SendTime
  <1>5. ReadOnSOE(r) \/ ReadOnRecords(r) \/ CallSOEData(r) \/ CallRecordsData(r) => Still
    BY GetPair DEF ReadOnSOE, ReadOnRecords, CallSOEData, CallRecordsData
  <1>6. SendControl(r) => \A s \in Routes : Harmless(s)
    BY <1>1, FixedPair DEF SendControl
  <1>7. MakeYkSelect(r) \/ MakeYkExecute(r) \/ MakeSelectParameter(r) \/ MakeSetParameter(r)
        \/ CancelYk(r) \/ Poll(r) => Still
    BY <1>6, SendPollPair DEF MakeYkSelect, MakeYkExecute, MakeSelectParameter,
       MakeSetParameter, CancelYk, Poll
  <1>8. ReadfileSenddev(r) => Still
    BY <1>1, FixedPair, SentPair DEF ReadfileSenddev
  <1>9. Still => PairInv'
    BY HarmlessPair
  <1> HIDE DEF Still
  <1>10. QED
    BY <1>2, <1>3, <1>4, <1>5, <1>7, <1>8, <1>9, SearchPair, EditUdpPair DEF FindNextCommand

(* What moves the receiver was asked by a route whose device is not         *)
(* initialised, and what sets a flag puts the device on its frequency.      *)
LEMMA ObeyedPair ==
  ASSUME TypeOK, PairInv, NEW r \in Routes, Obeys(r), UNCHANGED ask,
         rdevInit' /\ ~misled' => (rdevInit /\ ~misled) \/ tuned' = Goal,
         \/ sdevInit' = sdevInit
         \/ ask[r].kind = "sdev" /\ sdevInit' = [sdevInit EXCEPT ![r] = TRUE]
  PROVE  PairInv'
  <1>0. sdevInit \in [Routes -> BOOLEAN] /\ radio \in [Routes -> Fqcys]
    BY DEF TypeOK
  <1>1. RadioInv'
    BY <1>0 DEF PairInv, RadioInv, Obeys
  <1>2. ScanInv' /\ FqcyInv'
    BY <1>0 DEF PairInv, ScanInv, FqcyInv
  <1>3. TuneInv'
    <2> SUFFICES ASSUME rdevInit, ~misled, tuned' # Goal
        PROVE  \E s \in Routes : ~sdevInit'[s] /\ ask[s].kind # "sdev"
      BY DEF TuneInv
    <2>1. CASE tuned' = tuned
      <3>1. PICK s \in Routes : ~sdevInit[s] /\ ask[s].kind # "sdev"
        BY <2>1 DEF PairInv, TuneInv
      <3>2. ~sdevInit'[s]
        BY <1>0, <3>1
      <3>3. QED BY <3>1, <3>2
    <2>2. CASE tuned' # tuned
      <3>1. ask[r].kind = "rdev" /\ ask[r].n # Goal
        BY <2>2 DEF Obeys
      <3>2. ~sdevInit'[r]
        BY <1>0, <3>1 DEF PairInv, ScanInv
      <3>3. QED BY <3>1, <3>2
    <2>3. QED BY <2>1, <2>2
  <1>4. QED BY <1>1, <1>2, <1>3 DEF PairInv

LEMMA AnswerPair ==
  ASSUME TypeOK, PairInv, NEW r \in Routes, Answer(r) \/ AnswerLost(r)
  PROVE  PairInv'
  <1>1. Obeys(r) /\ UNCHANGED ask
    BY DEF Answer, AnswerLost, Settle
  <1>2. CASE AnswerLost(r)
    BY <1>1, <1>2, ObeyedPair DEF AnswerLost
  <1>3. CASE Answer(r) /\ ResolveSdev(r)
    BY <1>1, <1>3, ObeyedPair DEF ResolveSdev
  <1>4. CASE Answer(r) /\ ResolveConstvalue(r)
    <2>1. rdevInit' /\ ~misled' => (rdevInit /\ ~misled) \/ tuned' = Goal
      <3>1. CASE rdevInit
        BY <1>4, <3>1 DEF ResolveConstvalue
      <3>2. CASE ~rdevInit /\ ask[r].kind = "rdev"
        BY <1>1, <1>4, <3>2 DEF ResolveConstvalue, Confirms, Obeys
      <3>3. CASE ~rdevInit /\ ask[r].kind # "rdev"
        BY <1>4, <3>3 DEF ResolveConstvalue
      <3>4. QED BY <3>1, <3>2, <3>3
    <2>2. QED BY <1>1, <1>4, <2>1, ObeyedPair DEF ResolveConstvalue
  <1>5. CASE Answer(r) /\ (ResolveSOEData(r) \/ ResolveRecordsData(r) \/ ResolveValues(r))
    <2>1. UNCHANGED <<sdevInit, rdevInit, misled>>
      BY <1>5 DEF ResolveSOEData, ResolveRecordsData, ResolveValues
    <2>2. QED BY <1>1, <2>1, ObeyedPair
  <1>6. QED BY <1>2, <1>3, <1>4, <1>5 DEF Answer

LEMMA PairStep ==
  ASSUME TypeOK, PairInv, [Next]_vars
  PROVE  PairInv'
  <1>1. ASSUME NEW r \in Routes, Turn(r) PROVE PairInv'
    <2>1. CASE Repeat(r)
      BY <2>1, SentPair, HarmlessPair DEF Repeat
    <2>2. CASE TimeOut(r) \/ Refused(r)
      BY <2>2, HarmlessPair DEF TimeOut, Refused, Settle, Harmless
    <2>3. QED BY <1>1, <2>1, <2>2, FindPair, AnswerPair DEF Turn
  <1>2. ASSUME NEW r \in Routes, Renew(r) PROVE PairInv'
    <2>1. ask' = [ask EXCEPT ![r] = Question("poll", 0)] /\ ask \in [Routes -> Asks]
      BY <1>2 DEF Renew, TypeOK, Asks
    <2>2. \A s \in Routes : Harmless(s)
      BY <2>1 DEF Harmless, Question
    <2>3. QED BY <1>2, <2>2, HarmlessPair DEF Renew
  <1>3. ASSUME NEW r \in Routes, NEW kind \in JobKinds, PostJob(r, kind) PROVE PairInv'
    BY <1>3, HarmlessPair DEF PostJob, exchange, Harmless
  <1>4. ASSUME Reconnect PROVE PairInv'
    BY <1>4, HarmlessPair DEF Reconnect, Harmless, Question
  <1>5. ASSUME UNCHANGED vars PROVE PairInv'
    BY <1>5, HarmlessPair DEF vars, exchange, Harmless
  <1>6. QED BY <1>1, <1>2, <1>3, <1>4, <1>5 DEF Next

-----------------------------------------------------------------------------
(* The blocks. A route that does not read asks no block that it must give   *)
(* up.                                                                      *)

Kept(r) == Outstanding(r) => ask'[r] = ask[r] /\ Outstanding(r)'

LEMMA SoeTypes ==
  ASSUME TypeOK, NEW r \in Routes
  PROVE  soe[r].num \in Int /\ soe[r].sum \in Nat /\ ask[r].n \in Nat
  BY SMT, QuestionAssumption, SoeType DEF Soes, TypeOK

(* A reading goes on when what is left of it, settled and pending covers as *)
(* much as before.                                                          *)
LEMMA CoveredSoe ==
  ASSUME TypeOK, SoeInv, NEW r \in Routes, soe'[r].sum = soe[r].sum,
         soe[r].got \cup soe[r].lost \subseteq soe'[r].got \cup soe'[r].lost,
         \A k \in 0 .. soe[r].sum - 1 :
           k < Left(r) \/ Pending(r, k)
             => k < Left(r)' \/ Settled(r, k)' \/ Pending(r, k)',
         soe'[r].ended => \/ soe[r].ended
                          \/ /\ \A k \in 0 .. soe[r].sum - 1 : ~(k < Left(r)') /\ ~Pending(r, k)'
  PROVE  SoePart(r)'
  <1>1. \A k : Settled(r, k) => Settled(r, k)'
    BY DEF Settled
  <1>2. \A k \in 0 .. soe[r].sum - 1 : k < Left(r) \/ Settled(r, k) \/ Pending(r, k)
    BY DEF SoeInv, SoePart
  <1>3. \A k \in 0 .. soe'[r].sum - 1 : k < Left(r)' \/ Settled(r, k)' \/ Pending(r, k)'
    BY <1>1, <1>2
  <1>4. ASSUME soe'[r].ended PROVE \A k \in 0 .. soe'[r].sum - 1 : Settled(r, k)'
    <2>1. CASE soe[r].ended
      BY <1>1, <2>1 DEF SoeInv, SoePart
    <2>2. CASE ~soe[r].ended
      BY <1>3, <1>4, <2>2
    <2>3. QED BY <2>1, <2>2
  <1>5. QED BY <1>3, <1>4 DEF SoePart

LEMMA KeptSoe ==
  ASSUME TypeOK, SoeInv, NEW r \in Routes, soe'[r] = soe[r], Kept(r)
  PROVE  SoePart(r)'
  <1>1. Left(r)' = Left(r)
    BY DEF Left
  <1>2. \A k : Pending(r, k) => Pending(r, k)'
    BY DEF Kept, Pending
  <1>3. QED BY <1>1, <1>2, CoveredSoe

LEMMA Others ==
  ASSUME TypeOK, NEW r \in Routes, NEW s \in Routes \ {r}, ask'[s] = ask[s],
         proto'[s] = proto[s], soe'[s] = soe[s]
  PROVE  Kept(s)
  BY DEF Kept, Outstanding, Asked, Repeats, Unanswered

LEMMA SentSoe ==
  ASSUME TypeOK, NEW r \in Routes, NEW q, NEW p, Send(r, q, p)
  PROVE  /\ ask' = [ask EXCEPT ![r] = q] /\ ask'[r] = q
         /\ \A s \in Routes \ {r} : ask'[s] = ask[s] /\ proto'[s] = proto[s]
  BY DEF Send, TypeOK

LEMMA NotOutstanding ==
  ASSUME NEW r \in Routes, Finds(r) PROVE ~Outstanding(r)
  BY DEF Finds, Outstanding, Asked

(* What a search sends.                                                     *)
LEMMA FindSent ==
  ASSUME NEW r \in Routes, FindNextCommand(r)
  PROVE  /\ Finds(r) /\ \E q, p : Send(r, q, p)
         /\ soe' = soe \/ GetSOEData(r)
  <1>1. Finds(r)
    BY DEF FindNextCommand, EditSdevFqcy, ScanRdevFqcy, AwaitOthers, EditRdevFqcy, SendUdp,
       ReadOnSOE, ReadOnRecords, MakeYkSelect, MakeYkExecute, MakeSelectParameter,
       MakeSetParameter, MakeConstantValue, CallSOEData, CallRecordsData, SendYcCommand,
       ReadfileSenddev, EditPara, SendTime, CancelYk, EditUdp, Poll, Takes, Free
  <1>2. GetSOEData(r) \/ GetRecordsData(r) \/ SendPoll(r) \/ SendControl(r)
          => \E q, p : Send(r, q, p)
    BY DEF GetSOEData, GetRecordsData, SendPoll, SendControl
  <1>3. \E q, p : Send(r, q, p)
    BY <1>2 DEF FindNextCommand, EditSdevFqcy, ScanRdevFqcy, AwaitOthers, EditRdevFqcy, SendUdp,
       ReadOnSOE, ReadOnRecords, MakeYkSelect, MakeYkExecute, MakeSelectParameter,
       MakeSetParameter, MakeConstantValue, CallSOEData, CallRecordsData, SendYcCommand,
       ReadfileSenddev, EditPara, SendTime, CancelYk, EditUdp, Poll
  <1>4. soe' = soe \/ GetSOEData(r)
    BY DEF FindNextCommand, EditSdevFqcy, ScanRdevFqcy, AwaitOthers, EditRdevFqcy, SendUdp,
       ReadOnSOE, ReadOnRecords, MakeYkSelect, MakeYkExecute, MakeSelectParameter,
       MakeSetParameter, MakeConstantValue, CallSOEData, CallRecordsData, SendYcCommand,
       ReadfileSenddev, EditPara, SendTime, CancelYk, EditUdp, Poll, readings
  <1>5. QED BY <1>1, <1>3, <1>4

LEMMA FindSoe ==
  ASSUME TypeOK, SoeInv, NEW r \in Routes, FindNextCommand(r)
  PROVE  SoeInv'
  <1>1. PICK q, p : Send(r, q, p)
    BY FindSent
  <1>2. ~Outstanding(r) /\ (soe' = soe \/ GetSOEData(r))
    BY FindSent, NotOutstanding
  <1>3. \A s \in Routes \ {r} : ask'[s] = ask[s] /\ proto'[s] = proto[s]
    BY <1>1, SentSoe
  <1>4. \A s \in Routes \ {r} : soe'[s] = soe[s]
    BY <1>2, SoeType DEF GetSOEData
  <1>5. \A s \in Routes \ {r} : SoePart(s)'
    BY <1>3, <1>4, Others, KeptSoe
  <1>6. ASSUME soe' = soe PROVE SoePart(r)'
    BY <1>2, <1>6, KeptSoe DEF Kept
  <1>7. ASSUME GetSOEData(r), soe' # soe PROVE SoePart(r)'
    <2> DEFINE n == soe[r].num
               left == n - Least(n, SoeBlock)
    <2>1. n \in Nat /\ Send(r, Question("soeblock", n), Pcmd(r))
          /\ soe' = [soe EXCEPT ![r].num = left]
      <3>1. ~(soe[r].num < 0)
        BY <1>7 DEF GetSOEData
      <3>2. QED BY <1>7, <3>1, SoeTypes, SoeType DEF GetSOEData
    <2>2. left \in Nat /\ left <= n /\ Named(n) = left .. n - 1
      BY SMT, <2>1, QuestionAssumption DEF Least, Named
    <2> HIDE DEF n, left
    <2>3. soe'[r].num = left /\ soe'[r].sum = soe[r].sum /\ soe'[r].got = soe[r].got
          /\ soe'[r].lost = soe[r].lost /\ soe'[r].ended = soe[r].ended
      BY <2>1, SoeType DEF Soes
    <2>4. ask'[r].kind = "soeblock" /\ ask'[r].n = n
      BY <2>1, SentSoe DEF Question
    <2>5. proto'[r].event = "Waitting"
      BY <2>1, FoundType DEF Send, Question, Protos, TypeOK
    <2>6. Outstanding(r)'
      BY SMT, <2>2, <2>3, <2>4, <2>5 DEF Outstanding, Asked
    <2>7. Left(r) = n /\ Left(r)' = left
      BY SMT, <2>1, <2>2, <2>3 DEF Left, n
    <2>8. ASSUME NEW k \in 0 .. soe[r].sum - 1, k < Left(r), ~(k < Left(r)')
          PROVE  Pending(r, k)'
      <3>1. k \in Named(n)
        BY SMT, <2>1, <2>2, <2>7, <2>8, SoeTypes
      <3>2. QED BY <2>4, <2>6, <3>1 DEF Pending, Named
    <2>9. \A k : ~Pending(r, k)
      BY <1>2 DEF Pending
    <2>10. QED BY <2>3, <2>8, <2>9, CoveredSoe
  <1>8. SoePart(r)'
    BY <1>2, <1>6, <1>7
  <1>9. QED BY <1>5, <1>8 DEF SoeInv

LEMMA RepeatSoe ==
  ASSUME TypeOK, SoeInv, NEW r \in Routes, Repeat(r)
  PROVE  SoeInv'
  <1>1. /\ ask'[r] = ask[r]
        /\ \A s \in Routes \ {r} : ask'[s] = ask[s] /\ proto'[s] = proto[s]
    BY SentSoe DEF Repeat
  <1>2. soe' = soe
    BY DEF Repeat, readings
  <1>3. Kept(r)
    <2> SUFFICES ASSUME Outstanding(r) PROVE Outstanding(r)'
      BY <1>1 DEF Kept
    <2>1. ask[r].kind = "soeblock" /\ soe[r].num >= 0
      BY DEF Outstanding
    <2>2. proto'[r].event = "Waitting"
      BY <2>1, FoundType DEF Repeat, Send, Protos, TypeOK
    <2>3. QED BY <1>1, <1>2, <2>1, <2>2 DEF Outstanding, Asked
  <1>4. QED BY <1>1, <1>2, <1>3, Others, KeptSoe DEF SoeInv

(* Answers. The block that leaves none settles what was still pending.      *)
LEMMA AnswerSoe ==
  ASSUME TypeOK, SoeInv, NEW r \in Routes, Answer(r)
  PROVE  SoeInv'
  <1>1. ask' = ask /\ proto'[r].event = "Succeeded"
        /\ \A s \in Routes \ {r} : proto'[s] = proto[s]
    <2>1. proto \in [Routes -> Protos]
      BY DEF TypeOK, Protos
    <2>2. \/ proto' = [proto EXCEPT ![r].event = "Succeeded"]
          \/ proto' = [proto EXCEPT ![r].event = "Succeeded", ![r].nflag = 0]
      BY DEF Answer, ResolveSdev, ResolveConstvalue, ResolveSOEData, ResolveRecordsData,
         ResolveValues
    <2>3. QED BY <2>1, <2>2 DEF Answer, Protos
  <1>2. \A k : ~Pending(r, k)'
    BY <1>1 DEF Outstanding, Asked, Repeats, Unanswered, Pending
  <1>3. \A s \in Routes \ {r} : soe'[s] = soe[s]
    <2>1. CASE ResolveSOEData(r)
      BY <2>1, SoeType DEF ResolveSOEData
    <2>2. QED BY <2>1 DEF Answer, ResolveSdev, ResolveConstvalue, ResolveRecordsData,
              ResolveValues, readings
  <1>4. \A s \in Routes \ {r} : SoePart(s)'
    BY <1>1, <1>3, Others, KeptSoe
  <1>5. ASSUME ~ResolveSOEData(r) PROVE SoePart(r)'
    <2>1. soe' = soe /\ ask[r].kind # "soeblock"
      BY <1>5 DEF Answer, ResolveSdev, ResolveConstvalue, ResolveRecordsData, ResolveValues, readings
    <2>2. Kept(r)
      BY <2>1 DEF Kept, Outstanding
    <2>3. QED BY <2>1, <2>2, KeptSoe
  <1>6. ASSUME ResolveSOEData(r), soe[r].num < 0 PROVE SoePart(r)'
    <2>1. PICK n \in 0 .. MaxSoe :
            soe' = [soe EXCEPT ![r] = [NewSoe EXCEPT !.num = IF n = 0 THEN -1 ELSE n, !.sum = n]]
      BY <1>6 DEF ResolveSOEData
    <2>2. soe'[r].num = (IF n = 0 THEN -1 ELSE n) /\ soe'[r].sum = n /\ soe'[r].ended = FALSE
      BY <2>1, SoeType DEF NewSoe
    <2>3. Left(r)' = n
      BY SMT, <2>2 DEF Left
    <2>4. \A k \in 0 .. soe'[r].sum - 1 : k < Left(r)'
      BY SMT, <2>2, <2>3, QuestionAssumption
    <2>5. QED BY <2>2, <2>4 DEF SoePart
  <1>7. ASSUME ResolveSOEData(r), ~(soe[r].num < 0) PROVE SoePart(r)'
    <2>1. soe' = [soe EXCEPT ![r].got = @ \cup {ask[r].n},
                             ![r].ended = soe[r].num = 0 /\ ask[r].n > 0,
                             ![r].num = IF @ = 0 THEN -1 ELSE @]
      BY <1>7 DEF ResolveSOEData
    <2>2. soe'[r].num = (IF soe[r].num = 0 THEN -1 ELSE soe[r].num)
          /\ soe'[r].sum = soe[r].sum /\ soe'[r].got = soe[r].got \cup {ask[r].n}
          /\ soe'[r].lost = soe[r].lost
      BY <2>1, SoeType DEF Soes
    <2>3. soe'[r].ended => soe[r].num = 0
      BY <2>1, SoeType DEF Soes
    <2>4. Left(r)' = Left(r)
      BY SMT, <1>7, <2>2, SoeTypes DEF Left
    <2>5. \A k : Pending(r, k) => Settled(r, k)'
      BY <2>2 DEF Pending, Settled
    <2>6. ASSUME soe'[r].ended PROVE \A k \in 0 .. soe[r].sum - 1 : ~(k < Left(r)')
      <3>1. Left(r)' = 0
        BY SMT, <2>3, <2>4, <2>6 DEF Left
      <3>2. QED BY SMT, <3>1, SoeTypes
    <2>7. QED BY <1>2, <2>2, <2>4, <2>5, <2>6, CoveredSoe
  <1>8. SoePart(r)'
    BY <1>5, <1>6, <1>7
  <1>9. QED BY <1>4, <1>8 DEF SoeInv

(* Losses. A block that is given up is settled.                             *)
LEMMA LostSoe ==
  ASSUME TypeOK, SoeInv, NEW r \in Routes,
         soe'[r] = [soe[r] EXCEPT !.lost = @ \cup {ask[r].n}]
  PROVE  SoePart(r)'
  <1>1. soe'[r].num = soe[r].num /\ soe'[r].sum = soe[r].sum /\ soe'[r].got = soe[r].got
        /\ soe'[r].lost = soe[r].lost \cup {ask[r].n} /\ soe'[r].ended = soe[r].ended
    BY SoeType DEF Soes
  <1>2. Left(r)' = Left(r)
    BY <1>1 DEF Left
  <1>3. \A k : Pending(r, k) => Settled(r, k)'
    BY <1>1 DEF Pending, Settled
  <1>4. QED BY <1>1, <1>2, <1>3, CoveredSoe

LEMMA LossSoe ==
  ASSUME TypeOK, SoeInv, NEW r \in Routes, TimeOut(r) \/ AnswerLost(r) \/ Refused(r)
  PROVE  SoeInv'
  <1>1. ask' = ask /\ \A s \in Routes \ {r} : proto'[s] = proto[s]
    BY DEF TimeOut, AnswerLost, Refused, Settle, TypeOK
  <1>2. \A s \in Routes \ {r} : soe'[s] = soe[s]
    BY SoeType DEF TimeOut, AnswerLost, Refused, MissBlock
  <1>3. \A s \in Routes \ {r} : SoePart(s)'
    BY <1>1, <1>2, Others, KeptSoe
  <1>4. ASSUME soe' # soe PROVE SoePart(r)'
    <2>1. soe' = [soe EXCEPT ![r].lost = @ \cup {ask[r].n}]
      BY <1>4 DEF TimeOut, AnswerLost, Refused, MissBlock
    <2>2. soe'[r] = [soe[r] EXCEPT !.lost = @ \cup {ask[r].n}]
      BY <2>1, SoeType
    <2>3. QED BY <2>2, LostSoe
  <1>5. ASSUME soe' = soe PROVE SoePart(r)'
    <2>1. CASE ~Outstanding(r)
      BY <1>1, <1>5, <2>1, KeptSoe DEF Kept
    <2>2. CASE Outstanding(r) /\ (TimeOut(r) \/ AnswerLost(r)) /\ ~LastTry(r)
      <3>1. proto'[r].event \in {"TimeOut", "CheckError"} /\ proto'[r].retry = proto[r].retry
        BY <2>2, FoundType DEF TimeOut, AnswerLost, Settle, TypeOK, Protos
      <3>2. proto'[r].retry + 1 < Retries
        BY SMT, <2>2, <3>1, FoundType, QuestionAssumption DEF LastTry, Protos
      <3>3. Outstanding(r)'
        BY <1>1, <1>5, <2>2, <3>1, <3>2 DEF Outstanding, Repeats, Unanswered
      <3>4. QED BY <1>1, <1>5, <3>3, KeptSoe DEF Kept
    <2>3. CASE Outstanding(r) /\ ~((TimeOut(r) \/ AnswerLost(r)) /\ ~LastTry(r))
      <3>1. soe' = [soe EXCEPT ![r].lost = @ \cup {ask[r].n}]
        BY <2>3 DEF TimeOut, AnswerLost, Refused, MissBlock, Outstanding
      <3>2. soe'[r] = [soe[r] EXCEPT !.lost = @ \cup {ask[r].n}]
        BY <3>1, SoeType
      <3>3. QED BY <3>2, LostSoe
    <2>4. QED BY <2>1, <2>2, <2>3
  <1>6. SoePart(r)'
    BY <1>4, <1>5
  <1>7. QED BY <1>3, <1>6 DEF SoeInv

LEMMA NewSoePart ==
  ASSUME NEW r \in Routes, soe'[r] = NewSoe
  PROVE  SoePart(r)'
  <1>1. soe'[r].sum = 0 /\ soe'[r].ended = FALSE
    BY DEF NewSoe
  <1>2. 0 .. soe'[r].sum - 1 = {}
    BY SMT, <1>1
  <1>3. QED BY <1>1, <1>2 DEF SoePart

LEMMA AroundSoe ==
  ASSUME TypeOK, SoeInv,
         \/ \E r \in Routes, kind \in JobKinds : PostJob(r, kind)
         \/ \E r \in Routes : Renew(r)
         \/ Reconnect
  PROVE  SoeInv'
  <1>1. ASSUME NEW r \in Routes, NEW kind \in JobKinds, PostJob(r, kind) PROVE SoeInv'
    <2>1. UNCHANGED <<ask, proto, soe>>
      BY <1>1 DEF PostJob, exchange, readings
    <2>2. \A s \in Routes : Kept(s)
      BY <2>1 DEF Kept, Outstanding, Asked, Repeats, Unanswered
    <2>3. QED BY <2>1, <2>2, KeptSoe DEF SoeInv
  <1>2. ASSUME NEW r \in Routes, Renew(r) PROVE SoeInv'
    <2>1. \A s \in Routes \ {r} : ask'[s] = ask[s] /\ proto'[s] = proto[s] /\ soe'[s] = soe[s]
      BY <1>2, SoeType DEF Renew, TypeOK
    <2>2. \A s \in Routes \ {r} : SoePart(s)'
      BY <2>1, Others, KeptSoe
    <2>3. soe'[r] = NewSoe
      BY <1>2, SoeType DEF Renew
    <2>4. QED BY <2>2, <2>3, NewSoePart DEF SoeInv
  <1>3. ASSUME Reconnect PROVE SoeInv'
    <2> SUFFICES ASSUME NEW r \in Routes PROVE SoePart(r)'
      BY DEF SoeInv
    <2>1. soe'[r] = IF Outstanding(r) THEN [soe[r] EXCEPT !.lost = @ \cup {ask[r].n}] ELSE soe[r]
      BY <1>3 DEF Reconnect
    <2>2. CASE ~Outstanding(r)
      BY <2>1, <2>2, KeptSoe DEF Kept
    <2>3. CASE Outstanding(r)
      BY <2>1, <2>3, LostSoe
    <2>4. QED BY <2>2, <2>3
  <1>4. QED BY <1>1, <1>2, <1>3

LEMMA SoeStep ==
  ASSUME TypeOK, SoeInv, [Next]_vars
  PROVE  SoeInv'
  <1>1. ASSUME NEW r \in Routes, Turn(r) PROVE SoeInv'
    BY <1>1, RepeatSoe, FindSoe, AnswerSoe, LossSoe DEF Turn
  <1>2. ASSUME UNCHANGED vars PROVE SoeInv'
    <2>1. UNCHANGED <<ask, proto, soe>>
      BY <1>2 DEF vars, exchange, readings
    <2>2. \A s \in Routes : Kept(s)
      BY <2>1 DEF Kept, Outstanding, Asked, Repeats, Unanswered
    <2>3. QED BY <2>1, <2>2, KeptSoe DEF SoeInv
  <1>3. QED BY <1>1, <1>2, AroundSoe DEF Next

-----------------------------------------------------------------------------
LEMMA InitIInv == Init => IInv
  <1> SUFFICES ASSUME Init PROVE IInv
    OBVIOUS
  <1>1. 0 \in Routes
    BY SMT, QuestionAssumption DEF Routes
  <1>2. ask \in [Routes -> Asks] /\ \A r \in Routes : ask[r].kind = "poll" /\ ask[r].n = 0
    BY DEF Init, Question, Asks, Kinds
  <1>3. proto \in [Routes -> Protos]
    BY NewProtoType DEF Init
  <1>4. NewSoe \in Soes /\ NewRecs \in [num : -1 .. MaxRecords, left : Nat]
    BY SMT, QuestionAssumption DEF NewSoe, NewRecs, Soes
  <1>5. posted \in Nat
    BY QuestionAssumption DEF Init
  <1>6. TypeOK
    <2>1. soe \in [Routes -> Soes] /\ recs \in [Routes -> [num : -1 .. MaxRecords, left : Nat]]
      BY <1>4 DEF Init
    <2>2. udp \in [Routes -> Int] /\ troubles \in Nat
      BY SMT DEF Init
    <2>3. sdevInit \in [Routes -> BOOLEAN] /\ rdevInit \in BOOLEAN /\ misled \in BOOLEAN
          /\ tuned \in Fqcys /\ radio \in [Routes -> Fqcys] /\ turn \in Routes
          /\ jobs \subseteq Routes \X JobKinds /\ resent \in BOOLEAN
      BY <1>1 DEF Init
    <2>4. QED BY <1>2, <1>3, <1>5, <2>1, <2>2, <2>3 DEF TypeOK, Asks, Protos, Soes
  <1>7. PairInv
    BY <1>2 DEF Init, PairInv, RadioInv, ScanInv, FqcyInv, TuneInv
  <1>8. SoeInv
    <2>1. ASSUME NEW r \in Routes PROVE SoePart(r)
      <3>1. soe[r].sum = 0 /\ soe[r].ended = FALSE
        BY DEF Init, NewSoe
      <3>2. 0 .. soe[r].sum - 1 = {}
        BY SMT, <3>1
      <3>3. QED BY <3>1, <3>2 DEF SoePart
    <2>2. QED BY <2>1 DEF SoeInv
  <1>9. QED BY <1>6, <1>7, <1>8 DEF IInv

LEMMA IInvStep == IInv /\ [Next]_vars => IInv'
  <1> SUFFICES ASSUME IInv, [Next]_vars PROVE IInv'
    OBVIOUS
  <1>1. TypeOK'
    BY TypeStep DEF IInv, PairInv
  <1>2. PairInv'
    BY PairStep DEF IInv
  <1>3. SoeInv'
    BY SoeStep DEF IInv
  <1>4. QED BY <1>1, <1>2, <1>3 DEF IInv

LEMMA Inductive == Spec => []IInv
  BY InitIInv, IInvStep, PTL DEF Spec

(* Every member of the protocol, flag and reading stays within what the     *)
(* program can hold.                                                        *)
THEOREM QuestionsTypeCorrect == Spec => []TypeOK
  BY Inductive, PTL DEF IInv

(* Shared flags that say all devices are initialised are right, unless an   *)
(* operator's command was taken for the write of the frequency: for every   *)
(* number of routes and frequencies, and every order of searches, repeats   *)
(* and losses.                                                              *)
THEOREM PairingSound == Spec => []PairedInTune
  <1>1. IInv => PairedInTune
    BY DEF IInv, PairInv, RadioInv, TuneInv, PairedInTune, AllPaired
  <1>2. QED BY <1>1, Inductive, PTL

(* When a client is told that it has all events, every place of the         *)
(* count-down was named by a block that was answered or given up: for every *)
(* size of block, retry count and order of losses, reconnects and new       *)
(* protocols.                                                               *)
THEOREM NoBlockPassedOver == Spec => []BlocksSettled
  <1>1. ASSUME IInv PROVE BlocksSettled
    <2> SUFFICES ASSUME NEW r \in Routes, soe[r].ended, NEW k \in 0 .. soe[r].sum - 1
                 PROVE  k \in UNION {Named(n) : n \in soe[r].got \cup soe[r].lost}
      BY DEF BlocksSettled
    <2>1. Settled(r, k)
      BY <1>1 DEF IInv, SoeInv, SoePart
    <2>2. QED BY <2>1 DEF Settled
  <1>2. QED BY <1>1, Inductive, PTL

=============================================================================
