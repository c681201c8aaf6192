------------------------- MODULE WirelessLinkProofs -------------------------
(***************************************************************************)
(* Proofs about WirelessLink, for every number of routes, tries, features   *)
(* and records, and any number of commands, late turns, bad answers and     *)
(* reconnects: one route is on the air at a time, no control is repeated,   *)
(* and no block of events of a reading is passed over.                      *)
(***************************************************************************)
EXTENDS WirelessLink, FiniteSetTheorems, TLAPS

(* A control stays in the buffer only while it is the current command.      *)
BufferInv == \A r \in Routes : proto[r].buf.kind = "control" => ask[r].kind = "control"

(* The events named by the blocks of a reading that are settled, and by the *)
(* one that was asked last and is not settled for good.                     *)
Done(s) == UNION {Named(n) : n \in s.got \cup s.lost}
Pending(r) ==
  IF ask[r].kind = "soeblock" /\ proto[r].event # "Succeeded"
  THEN Named(ask[r].n) ELSE {}

BlockInv == \A r \in Routes : ask[r].kind = "soeblock" => ask[r].n \in 0 .. MaxSoe

(* What a reading no longer asks for was delivered, given up, or is still   *)
(* asked for; and when it has ended there is no such rest.                  *)
SoeInv ==
  ~misread => \A r \in Routes :
    /\ soe[r].num >= 0 =>
         soe[r].num .. soe[r].sum - 1 \subseteq Done(soe[r]) \cup Pending(r)
    /\ soe[r].ended => 0 .. soe[r].sum - 1 \subseteq Done(soe[r])

IInv == TypeOK /\ TurnHeld /\ BufferInv /\ ControlOnce /\ BlockInv /\ SoeInv

-----------------------------------------------------------------------------
(* Types of what the exchange is made of.                                   *)

LEMMA Numbers ==
  /\ RouteNum \in Nat /\ RouteNum > 1 /\ Retries \in Nat /\ PollNum \in Nat /\ PollNum > 0
  /\ SoeBlock \in Nat /\ SoeBlock > 0 /\ MaxSoe \in Nat /\ PartNum \in Nat /\ PartNum > 0
  /\ MaxRecords \in Nat /\ MaxUdp \in Nat
  BY SMT, WirelessAssumption

LEMMA QuestionType ==
  ASSUME NEW kind \in Kinds, NEW n \in Nat
  PROVE  /\ Question(kind, n) \in Asks
         /\ Question(kind, n).kind = kind /\ Question(kind, n).n = n
  BY DEF Question, Asks

LEMMA OpenedType ==
  ASSUME NEW p \in Protos
  PROVE  /\ Opened(p) \in Protos /\ Opened(p).excl = p.excl
         /\ ~Opened(p).sending /\ Opened(p).buf.kind = "poll"
  <1>1. Question("poll", 0) \in Asks /\ Question("poll", 0).kind = "poll"
    BY QuestionType DEF Kinds
  <1>2. Following(0) \in 0 .. PollNum
    BY SMT, Numbers DEF Following
  <1>3. QED BY <1>1, <1>2 DEF Opened, Protos, Events

LEMMA NewProtoType ==
  /\ NewProto \in Protos /\ ~NewProto.sending /\ ~NewProto.excl
  /\ NewProto.buf.kind = "poll"
  <1> DEFINE p0 == [sending |-> FALSE, switch |-> TRUE, event |-> "Succeeded",
                    ok |-> FALSE, out |-> FALSE, excl |-> FALSE, retry |-> 0,
                    first |-> TRUE, next |-> 0, buf |-> None]
  <1>1. None \in Asks
    BY QuestionType DEF None, Kinds
  <1>2. 0 \in 0 .. PollNum
    BY SMT, Numbers
  <1>3. p0 \in Protos /\ ~p0.excl
    BY <1>1, <1>2 DEF Protos, Events
  <1>4. QED BY <1>3, OpenedType DEF NewProto

LEMMA NewReadings == NewSoe \in Soes /\ NewRecs \in Recs
  <1>1. -1 \in -1 .. MaxSoe /\ 0 \in 0 .. MaxSoe /\ -1 \in -1 .. MaxRecords
    BY SMT, Numbers
  <1>2. QED BY <1>1 DEF NewSoe, NewRecs, Soes, Recs

LEMMA NamedFacts ==
  ASSUME NEW n \in 0 .. MaxSoe
  PROVE  /\ n - Least(n, SoeBlock) \in 0 .. MaxSoe
         /\ n = 0 => n - Least(n, SoeBlock) = 0
         /\ n > 0 => n - Least(n, SoeBlock) \in 0 .. n - 1
  BY SMT, Numbers DEF Least

LEMMA DoneGrows ==
  ASSUME NEW s, NEW t, s.got \subseteq t.got, s.lost \subseteq t.lost
  PROVE  Done(s) \subseteq Done(t)
  BY DEF Done

LEMMA DoneHas ==
  ASSUME NEW s, NEW n, n \in s.got \/ n \in s.lost
  PROVE  Named(n) \subseteq Done(s)
  BY DEF Done

LEMMA StateTypes ==
  ASSUME TypeOK, NEW r \in Routes
  PROVE  /\ proto[r] \in Protos /\ ask[r] \in Asks /\ soe[r] \in Soes /\ recs[r] \in Recs
         /\ udp[r] \in Int /\ air[r] \in Asks /\ cur \in Routes /\ proto[cur] \in Protos
  BY DEF TypeOK

LEMMA ProtoFields ==
  ASSUME NEW p \in Protos
  PROVE  /\ p.sending \in BOOLEAN /\ p.switch \in BOOLEAN /\ p.event \in Events
         /\ p.excl \in BOOLEAN /\ p.retry \in Nat /\ p.buf \in Asks /\ p.next \in 0 .. PollNum
  BY DEF Protos

LEMMA FoundType ==
  ASSUME TypeOK, NEW r \in Routes
  PROVE  /\ Found(r) \in Protos /\ Pcmd(r) \in Protos
         /\ [Found(r) EXCEPT !.next = 0] \in Protos
  <1>1. proto[r] \in Protos /\ 0 \in 0 .. PollNum
    BY SMT, StateTypes, Numbers
  <1>2. Found(r) \in Protos
    BY <1>1 DEF Found, Protos
  <1>3. QED BY <1>1, <1>2 DEF Pcmd, Protos

LEMMA ExclType ==
  ASSUME NEW p \in Protos, NEW b \in BOOLEAN
  PROVE  [p EXCEPT !.excl = b] \in Protos
  BY DEF Protos

LEMMA FromStartType ==
  ASSUME NEW p \in Protos
  PROVE  [p EXCEPT !.next = 0] \in Protos
  <1>1. 0 \in 0 .. PollNum
    BY SMT, Numbers
  <1>2. QED BY <1>1 DEF Protos

-----------------------------------------------------------------------------
(* The receiving half and the turn.                                         *)

(* What every step leaves of the exchange.                                  *)
Kept ==
  /\ cur' \in Routes /\ pc' \in {"rx", "ask"} /\ tick' \in BOOLEAN
  /\ proto' \in [Routes -> Protos] /\ ask' \in [Routes -> Asks]
  /\ air' \in [Routes -> Asks] /\ rx' \in [order : Routes, q : Asks]
  /\ TurnHeld' /\ BufferInv' /\ BlockInv'

LEMMA SuccessorType == ASSUME TypeOK, NEW p PROVE Successor(p) \in Routes
  <1>1. cur \in 0 .. RouteNum - 1
    BY DEF TypeOK, Routes
  <1>2. (cur + 1) % RouteNum \in 0 .. RouteNum - 1
    BY SMT, <1>1, Numbers
  <1>3. QED BY <1>1, <1>2 DEF Successor, Routes

LEMMA AckRecvType ==
  ASSUME NEW p \in Protos
  PROVE  /\ AckRecv(p) \in Protos /\ ~AckRecv(p).sending /\ AckRecv(p).excl = p.excl
         /\ AckRecv(p).buf = p.buf /\ AckRecv(p).event = p.event
  BY DEF AckRecv, Protos

LEMMA TurnMoves ==
  ASSUME TypeOK, TurnHeld, BufferInv, BlockInv, UNCHANGED ask, NEW p \in Protos,
         p.buf = proto[cur].buf, GoOn(p) \/ GoOnLate(p)
  PROVE  /\ cur' \in Routes /\ pc' \in {"rx", "ask"}
         /\ proto' \in [Routes -> Protos] /\ ask' \in [Routes -> Asks]
         /\ TurnHeld' /\ BufferInv' /\ BlockInv'
         /\ \A r \in Routes : proto'[r].event = IF r = cur THEN p.event ELSE proto[r].event
  <1>1. cur \in Routes /\ proto \in [Routes -> Protos]
    BY DEF TypeOK
  <1>2. CASE GiveTurn(p)
    <2>1. proto' = [proto EXCEPT ![cur] = AckRecv(p)] /\ cur' = Successor(p) /\ pc' = "ask"
      BY <1>2 DEF GiveTurn
    <2>2. AckRecv(p) \in Protos /\ ~AckRecv(p).sending /\ AckRecv(p).excl = p.excl
          /\ AckRecv(p).buf = p.buf /\ AckRecv(p).event = p.event
      BY AckRecvType
    <2>3. cur' \in Routes /\ proto' \in [Routes -> Protos]
      BY <1>1, <2>1, <2>2, SuccessorType
    <2>4. TurnHeld'
      <3>1. SUFFICES ASSUME NEW r \in Routes, proto'[r].sending \/ proto'[r].excl PROVE r = cur'
        BY DEF TurnHeld
      <3>2. CASE r = cur
        <4>1. p.excl
          BY <1>1, <2>1, <2>2, <3>1, <3>2
        <4>2. QED BY <2>1, <3>2, <4>1 DEF Successor
      <3>3. CASE r # cur
        <4>1. proto'[r] = proto[r]
          BY <1>1, <2>1, <3>3
        <4>2. QED BY <3>1, <3>3, <4>1 DEF TurnHeld
      <3>4. QED BY <3>2, <3>3
    <2>5. BufferInv' /\ BlockInv'
      BY <1>1, <2>1, <2>2 DEF BufferInv, BlockInv
    <2>6. QED BY <1>1, <2>1, <2>2, <2>3, <2>4, <2>5 DEF TypeOK
  <1>3. CASE proto' = [proto EXCEPT ![cur] = p] /\ UNCHANGED <<cur, pc>>
    <2>1. TurnHeld'
      BY <1>1, <1>3 DEF TurnHeld
    <2>2. BufferInv' /\ BlockInv'
      BY <1>1, <1>3 DEF BufferInv, BlockInv
    <2>3. QED BY <1>1, <1>3, <2>1, <2>2 DEF TypeOK
  <1>4. QED BY <1>2, <1>3 DEF GoOn, GoOnLate

LEMMA ToldType ==
  ASSUME TypeOK
  PROVE  /\ Told(cur) \in Protos /\ Told(cur).buf = proto[cur].buf
         /\ Told(cur).event = proto[cur].event
  <1>1. proto[cur] \in Protos /\ tick \in BOOLEAN /\ proto[cur].out \in BOOLEAN
    BY DEF TypeOK, Protos
  <1>2. Ticked(cur) \in Protos /\ Ticked(cur).buf = proto[cur].buf
        /\ Ticked(cur).event = proto[cur].event
    BY <1>1 DEF Ticked, Protos
  <1>3. (Ticked(cur).excl /\ ~(Ticked(cur).out /\ Finished(cur))) \in BOOLEAN
    OBVIOUS
  <1>4. Told(cur) = [Ticked(cur) EXCEPT
                      !.excl = Ticked(cur).excl /\ ~(Ticked(cur).out /\ Finished(cur))]
    BY DEF Told
  <1>5. QED BY <1>2, <1>3, <1>4 DEF Protos

LEMMA SilenceType == Silence \in [order : Routes, q : Asks] /\ None \in Asks
  <1>1. None \in Asks
    BY QuestionType DEF None, Kinds
  <1>2. 0 \in Routes
    BY SMT, Numbers DEF Routes
  <1>3. QED BY <1>1, <1>2 DEF Silence

(* A frame in the ring is emptied; the current question stays.              *)
LEMMA HearingKept ==
  ASSUME TypeOK, TurnHeld, BufferInv, BlockInv, UNCHANGED <<ask, air>>,
         tick' \in BOOLEAN, rx' = rx \/ rx' = Silence,
         NEW p \in Protos, p.buf = proto[cur].buf, GoOn(p) \/ GoOnLate(p)
  PROVE  Kept
  <1>1. air' \in [Routes -> Asks] /\ rx' \in [order : Routes, q : Asks]
    BY SilenceType DEF TypeOK
  <1>2. QED BY <1>1, TurnMoves DEF Kept

LEMMA SettledType ==
  ASSUME TypeOK, NEW e \in Events, NEW b \in BOOLEAN, NEW o \in BOOLEAN
  PROVE  \A p \in Protos : p.buf = proto[cur].buf =>
           /\ AckRecv([p EXCEPT !.event = e, !.out = o]) \in Protos
           /\ AckRecv([p EXCEPT !.event = e, !.out = o]).buf = proto[cur].buf
           /\ AckRecv([p EXCEPT !.event = e, !.excl = b]) \in Protos
           /\ AckRecv([p EXCEPT !.event = e, !.excl = b]).buf = proto[cur].buf
  <1>1. SUFFICES ASSUME NEW p \in Protos, p.buf = proto[cur].buf
                 PROVE  /\ AckRecv([p EXCEPT !.event = e, !.out = o]) \in Protos
                        /\ AckRecv([p EXCEPT !.event = e, !.out = o]).buf = proto[cur].buf
                        /\ AckRecv([p EXCEPT !.event = e, !.excl = b]) \in Protos
                        /\ AckRecv([p EXCEPT !.event = e, !.excl = b]).buf = proto[cur].buf
    OBVIOUS
  <1>2. [p EXCEPT !.event = e, !.out = o] \in Protos
        /\ [p EXCEPT !.event = e, !.out = o].buf = p.buf
    BY DEF Protos
  <1>3. [p EXCEPT !.event = e, !.excl = b] \in Protos
        /\ [p EXCEPT !.event = e, !.excl = b].buf = p.buf
    BY DEF Protos
  <1>4. QED BY <1>1, <1>2, <1>3, AckRecvType

LEMMA SettleAtTickKept ==
  ASSUME TypeOK, TurnHeld, BufferInv, BlockInv, SettleAtTick PROVE Kept
  <1> DEFINE e == IF Told(cur).ok THEN Told(cur).event ELSE "TimeOut"
             p == AckRecv([Told(cur) EXCEPT !.event = e, !.out = FALSE])
  <1>1. e \in Events
    BY ToldType DEF Protos, Events
  <1>2. GoOn(p) /\ tick' = FALSE /\ rx' = Silence /\ UNCHANGED <<ask, air>>
    BY DEF SettleAtTick
  <1>3. p \in Protos /\ p.buf = proto[cur].buf
    BY <1>1, ToldType, SettledType
  <1> HIDE DEF p
  <1>4. QED BY <1>2, <1>3, HearingKept

LEMMA SettleByTimerKept ==
  ASSUME TypeOK, TurnHeld, BufferInv, BlockInv, SettleByTimer PROVE Kept
  <1> DEFINE b == soe[cur].num # 0 /\ recs[cur].left > 0
             p == AckRecv([Told(cur) EXCEPT !.event = "TimeOut", !.excl = b])
  <1>1. GoOn(p) /\ tick' = FALSE /\ rx' = Silence /\ UNCHANGED <<ask, air>>
    BY DEF SettleByTimer
  <1>2. p \in Protos /\ p.buf = proto[cur].buf
    <2>1. b \in BOOLEAN /\ "TimeOut" \in Events
      BY DEF Events
    <2> HIDE DEF b
    <2>2. QED BY <2>1, ToldType, SettledType
  <1> HIDE DEF p
  <1>3. QED BY <1>1, <1>2, HearingKept

LEMMA HearNothingKept ==
  ASSUME TypeOK, TurnHeld, BufferInv, BlockInv, HearNothing PROVE Kept
  <1>1. (GoOn(Told(cur)) \/ GoOnLate(Told(cur))) /\ tick' = FALSE /\ UNCHANGED <<ask, air, rx>>
    BY DEF HearNothing, Listens
  <1>2. QED BY <1>1, ToldType, HearingKept

LEMMA DropFrameKept ==
  ASSUME TypeOK, TurnHeld, BufferInv, BlockInv, DropFrame PROVE Kept
  <1>1. GoOn(Told(cur)) /\ tick' = FALSE /\ rx' = Silence /\ UNCHANGED <<ask, air>>
    BY DEF DropFrame, Heard, Listens
  <1>2. QED BY <1>1, ToldType, HearingKept

LEMMA FailCheckKept ==
  ASSUME TypeOK, TurnHeld, BufferInv, BlockInv, FailCheck PROVE Kept
  <1> DEFINE p == [Told(cur) EXCEPT !.event = "CheckError"]
  <1>1. GoOn(p) /\ tick' = FALSE /\ rx' = Silence /\ UNCHANGED <<ask, air>>
    BY DEF FailCheck, Heard, Listens
  <1>2. p \in Protos /\ p.buf = proto[cur].buf
    BY ToldType DEF Protos, Events
  <1> HIDE DEF p
  <1>3. QED BY <1>1, <1>2, HearingKept

(* A good answer makes the event a success.                                 *)
LEMMA SucceedsKept ==
  ASSUME TypeOK, TurnHeld, BufferInv, BlockInv, Heard, Succeeds, UNCHANGED <<ask, air>>
  PROVE  /\ Kept
         /\ \A r \in Routes :
              proto'[r].event = IF r = cur THEN "Succeeded" ELSE proto[r].event
  <1> DEFINE b == Told(cur).ok \/ Told(cur).sending
             p == [Told(cur) EXCEPT !.event = "Succeeded", !.ok = b]
  <1>1. GoOn(p) /\ tick' = FALSE /\ rx' = Silence
    BY DEF Succeeds, Heard, Listens
  <1>2. p \in Protos /\ p.buf = proto[cur].buf /\ p.event = "Succeeded"
    <2>1. b \in BOOLEAN
      BY ToldType DEF Protos
    <2> HIDE DEF b
    <2>2. QED BY <2>1, ToldType DEF Protos, Events
  <1> HIDE DEF p
  <1>3. QED BY <1>1, <1>2, HearingKept, TurnMoves

LEMMA MainRxKept ==
  ASSUME TypeOK, TurnHeld, BufferInv, BlockInv, MainRx PROVE Kept
  <1>1. CASE Refused
    BY <1>1, SucceedsKept DEF Refused
  <1>2. CASE ResolveSOEData
    BY <1>2, SucceedsKept DEF ResolveSOEData, Passes
  <1>3. CASE ResolveRecordsData
    <2>1. UNCHANGED <<ask, air>>
      BY <1>3 DEF ResolveRecordsData
    <2>2. QED BY <1>3, <2>1, SucceedsKept DEF ResolveRecordsData, Passes
  <1>4. CASE \E kind \in Kinds : Resolves(kind)
    BY <1>4, SucceedsKept DEF Resolves, Passes
  <1>5. QED
    BY <1>1, <1>2, <1>3, <1>4, SettleAtTickKept, SettleByTimerKept, HearNothingKept,
       DropFrameKept, FailCheckKept
    DEF MainRx, ResolveAnalog, ResolveControl, ResolveConstvalue, ResolveYc, ResolveTime, Kinds

LEMMA PassReceiveKept ==
  ASSUME TypeOK, TurnHeld, BufferInv, BlockInv, PassReceive PROVE Kept
  <1>1. GoOn(proto[cur]) /\ UNCHANGED <<tick, ask, air, rx>>
    BY DEF PassReceive
  <1>2. proto[cur] \in Protos /\ tick \in BOOLEAN
    BY DEF TypeOK
  <1>3. QED BY <1>1, <1>2, HearingKept

-----------------------------------------------------------------------------
(* The sending half: a question goes on the air, and a control only if it   *)
(* was taken from the table or counts as sent again.                        *)

Asking(r) ==
  \E q \in Asks, frame \in Asks, p \in Protos :
    /\ Send(r, q, frame, p)
    /\ frame.kind = "control" => q.kind = "control" /\ taken' + resent' > taken + resent
    /\ q.kind = "soeblock" => q.n \in 0 .. MaxSoe

LEMMA SentType ==
  ASSUME TypeOK, NEW r \in Routes, NEW q \in Asks, NEW frame \in Asks, NEW p \in Protos,
         Send(r, q, frame, p)
  PROVE  /\ proto' \in [Routes -> Protos] /\ proto'[r].buf = frame /\ proto'[r].excl = p.excl
         /\ \A s \in Routes \ {r} : proto'[s] = proto[s]
         /\ ask' \in [Routes -> Asks] /\ ask'[r] = q
         /\ \A s \in Routes \ {r} : ask'[s] = ask[s]
         /\ air' \in [Routes -> Asks]
  <1> DEFINE o == IF q.kind = "udp" THEN p.ok ELSE FALSE
             b == q.kind # "udp"
             e == IF q.kind = "udp" THEN "Succeeded" ELSE "Waitting"
             p2 == [p EXCEPT !.sending = b, !.switch = FALSE, !.buf = frame,
                             !.event = e, !.ok = o]
  <1>1. o \in BOOLEAN /\ b \in BOOLEAN /\ e \in Events
    BY DEF Protos, Events
  <1>2. proto' = [proto EXCEPT ![r] = p2]
    BY DEF Send
  <1> HIDE DEF o, b, e
  <1>3. p2 \in Protos /\ p2.buf = frame /\ p2.excl = p.excl
    BY <1>1 DEF Protos
  <1> HIDE DEF p2
  <1>4. proto \in [Routes -> Protos] /\ ask \in [Routes -> Asks] /\ air \in [Routes -> Asks]
    BY DEF TypeOK
  <1>5. ask' = [ask EXCEPT ![r] = q] /\ (air' = air \/ air' = [air EXCEPT ![r] = frame])
    BY DEF Send
  <1>6. QED BY <1>2, <1>3, <1>4, <1>5

LEMMA AskingKept ==
  ASSUME TypeOK, TurnHeld, BufferInv, BlockInv, Asking(cur)
  PROVE  Kept
  <1>1. PICK q \in Asks, frame \in Asks, p \in Protos :
          /\ Send(cur, q, frame, p)
          /\ frame.kind = "control" => q.kind = "control"
          /\ q.kind = "soeblock" => q.n \in 0 .. MaxSoe
    BY DEF Asking
  <1>2. cur \in Routes
    BY DEF TypeOK
  <1>3. /\ proto' \in [Routes -> Protos] /\ proto'[cur].buf = frame
        /\ \A s \in Routes \ {cur} : proto'[s] = proto[s]
        /\ ask' \in [Routes -> Asks] /\ ask'[cur] = q
        /\ \A s \in Routes \ {cur} : ask'[s] = ask[s]
        /\ air' \in [Routes -> Asks]
    BY <1>1, <1>2, SentType
  <1>4. cur' = cur /\ tick' = tick /\ rx' = rx /\ pc' = "rx"
    BY <1>1 DEF Send
  <1>5. TurnHeld'
    BY <1>3, <1>4 DEF TurnHeld
  <1>6. BufferInv'
    BY <1>1, <1>3 DEF BufferInv
  <1>7. BlockInv'
    BY <1>1, <1>3 DEF BlockInv
  <1>8. QED BY <1>2, <1>3, <1>4, <1>5, <1>6, <1>7 DEF Kept, TypeOK

LEMMA CountBound ==
  ASSUME NEW c \in Nat, NEW t \in Nat, NEW t2 \in Nat, NEW c2, c <= t, t2 >= t,
         c2 = c \/ (c2 = c + 1 /\ t2 > t)
  PROVE  c2 \in Nat /\ c2 <= t2
  BY SMT

LEMMA SumType == ASSUME NEW a \in Nat, NEW b \in Nat PROVE a + b \in Nat
  BY SMT

LEMMA AskingCounts ==
  ASSUME TypeOK, ControlOnce, NEW r \in Routes, Asking(r),
         taken' \in Nat, resent' \in Nat, taken' + resent' >= taken + resent
  PROVE  ControlOnce' /\ carried' \in Nat
  <1>1. taken \in Nat /\ resent \in Nat /\ carried \in Nat
    BY DEF TypeOK
  <1>2. taken + resent \in Nat /\ taken' + resent' \in Nat
    BY <1>1, SumType
  <1>3. carried' = carried \/ (carried' = carried + 1 /\ taken' + resent' > taken + resent)
    BY DEF Asking, Send
  <1>4. carried <= taken + resent
    BY DEF ControlOnce
  <1>5. carried' \in Nat /\ carried' <= taken' + resent'
    BY <1>1, <1>2, <1>3, <1>4, CountBound, Zenon
  <1>6. QED BY <1>5 DEF ControlOnce

(* The ways of asking.                                                      *)
LEMMA AsksOwn ==
  ASSUME NEW r \in Routes, NEW kind \in Kinds \ {"control"}, NEW n \in Nat,
         NEW p \in Protos, kind = "soeblock" => n \in 0 .. MaxSoe,
         Send(r, Question(kind, n), Question(kind, n), p)
  PROVE  Asking(r)
  <1>1. /\ Question(kind, n) \in Asks /\ Question(kind, n).kind = kind
        /\ Question(kind, n).n = n
    BY QuestionType
  <1>2. QED BY <1>1 DEF Asking

LEMMA AsksPoll ==
  ASSUME NEW r \in Routes, NEW p \in Protos, SendPoll(r, p)
  PROVE  Asking(r)
  <1>1. PICK c \in NextPolls(p) :
          Send(r, Question("poll", c), Question("poll", c),
               [p EXCEPT !.first = FALSE, !.next = Following(c)])
    BY DEF SendPoll
  <1>2. c \in Nat /\ Following(c) \in 0 .. PollNum
    <2>1. p.next \in 0 .. PollNum
      BY DEF Protos
    <2>2. c \in 0 .. PollNum - 1
      BY SMT, <2>1, Numbers DEF NextPolls
    <2>3. QED BY SMT, <2>2, Numbers DEF Following
  <1>3. [p EXCEPT !.first = FALSE, !.next = Following(c)] \in Protos
    BY <1>2 DEF Protos
  <1>4. QED BY <1>1, <1>2, <1>3, AsksOwn DEF Kinds

LEMMA AsksControl ==
  ASSUME TypeOK, NEW r \in Routes, SendControl(r), taken' = taken + 1, resent' = resent
  PROVE  Asking(r)
  <1>1. Question("control", 0) \in Asks /\ Question("control", 0).kind = "control"
    BY QuestionType DEF Kinds
  <1>2. taken' + resent' > taken + resent
    BY SMT DEF TypeOK
  <1>3. QED BY <1>1, <1>2, FoundType DEF Asking, SendControl

LEMMA BuiltType ==
  ASSUME TypeOK, BufferInv, NEW r \in Routes
  PROVE  Built(r) \in Asks /\ (Built(r).kind = "control" => ask[r].kind = "control")
  BY StateTypes, ProtoFields DEF Built, BufferInv

LEMMA AsksAgain ==
  ASSUME TypeOK, BufferInv, BlockInv, NEW r \in Routes, NEW p \in Protos,
         SendAgain(r, p), taken' = taken
  PROVE  Asking(r)
  <1>1. taken' + resent' > taken + resent
    BY SMT DEF TypeOK, SendAgain
  <1>2. QED BY <1>1, BuiltType, StateTypes DEF Asking, SendAgain, BlockInv

LEMMA RepeatAsks ==
  ASSUME TypeOK, BufferInv, BlockInv, NEW r \in Routes, Repeat(r)
  PROVE  Asking(r)
  <1> DEFINE p == [proto[r] EXCEPT !.retry = @ + 1]
  <1>1. Send(r, ask[r], Built(r), p) /\ ask[r].kind # "control"
    BY DEF Repeat, Repeats
  <1>2. p \in Protos
    <2>1. proto[r] \in Protos /\ proto[r].retry + 1 \in Nat
      BY SMT, StateTypes, ProtoFields
    <2>2. QED BY <2>1 DEF Protos
  <1> HIDE DEF p
  <1>3. QED BY <1>1, <1>2, BuiltType, StateTypes DEF Asking, BlockInv

LEMMA GivenType ==
  ASSUME TypeOK, BlockInv, NEW r \in Routes
  PROVE  /\ Given(r) \in [Routes -> Soes]
         /\ \A s \in Routes \ {r} : Given(r)[s] = soe[s]
         /\ Given(r)[r].num = soe[r].num /\ Given(r)[r].sum = soe[r].sum
         /\ Given(r)[r].got = soe[r].got /\ Given(r)[r].ended = soe[r].ended
         /\ soe[r].lost \subseteq Given(r)[r].lost
         /\ ask[r].kind = "soeblock" /\ Unanswered(r) /\ LastTry(r) =>
              ask[r].n \in Given(r)[r].lost
  <1>1. soe \in [Routes -> Soes] /\ soe[r] \in Soes
    BY DEF TypeOK
  <1>2. CASE ask[r].kind = "soeblock" /\ Unanswered(r) /\ LastTry(r)
    <2> DEFINE s2 == [soe[r] EXCEPT !.lost = soe[r].lost \cup {ask[r].n}]
    <2>1. ask[r].n \in Nat
      BY SMT, <1>2, Numbers DEF BlockInv
    <2>2. s2 \in Soes /\ s2.num = soe[r].num /\ s2.sum = soe[r].sum /\ s2.got = soe[r].got
          /\ s2.ended = soe[r].ended /\ s2.lost = soe[r].lost \cup {ask[r].n}
      BY <1>1, <2>1 DEF Soes
    <2>3. Given(r) = [soe EXCEPT ![r] = s2]
      BY <1>2 DEF Given
    <2> HIDE DEF s2
    <2>4. QED BY <1>1, <2>2, <2>3
  <1>3. CASE ~(ask[r].kind = "soeblock" /\ Unanswered(r) /\ LastTry(r))
    <2>1. Given(r) = soe
      BY <1>3 DEF Given
    <2>2. QED BY <1>1, <1>3, <2>1
  <1>4. QED BY <1>2, <1>3

(* What getSOEData asks and leaves of the count.                            *)
LEMMA GetSOEDataAsks ==
  ASSUME TypeOK, BlockInv, NEW r \in Routes, NEW p \in Protos, GetSOEData(r, p)
  PROVE  /\ Asking(r) /\ soe' \in [Routes -> Soes]
         /\ \/ soe' = Given(r)
            \/ /\ soe[r].num = 0
               /\ soe' = [Given(r) EXCEPT ![r].num = 0]
            \/ /\ soe[r].num > 0 /\ ask'[r] = Question("soeblock", soe[r].num)
               /\ proto'[r].event = "Waitting"
               /\ soe' = [Given(r) EXCEPT ![r].num = soe[r].num - Least(soe[r].num, SoeBlock)]
  <1>1. soe[r] \in Soes /\ soe[r].num \in -1 .. MaxSoe
    BY StateTypes DEF Soes
  <1>2. CASE soe[r].num < 0
    <2>1. soe' = Given(r) /\ Send(r, Question("soecount", 0), Question("soecount", 0), p)
      BY <1>2 DEF GetSOEData
    <2>2. QED BY <2>1, AsksOwn, GivenType DEF Kinds
  <1>3. CASE soe[r].num >= 0
    <2> DEFINE n == soe[r].num
               q == Question("soeblock", n)
               left == n - Least(n, SoeBlock)
    <2>1. n \in 0 .. MaxSoe /\ n \in Nat /\ ~(soe[r].num < 0)
      BY SMT, <1>1, <1>3
    <2>2. Send(r, q, q, p) /\ soe' = [Given(r) EXCEPT ![r].num = @ - Least(@, SoeBlock)]
      BY <2>1 DEF GetSOEData
    <2>3. Given(r)[r].num = n /\ Given(r) \in [Routes -> Soes]
      BY GivenType
    <2>4. soe' = [Given(r) EXCEPT ![r].num = left]
      BY <2>2, <2>3
    <2>5. left \in 0 .. MaxSoe /\ (n = 0 => left = 0)
      BY <2>1, NamedFacts
    <2>6. Asking(r) /\ ask'[r] = q /\ proto'[r].event = "Waitting"
      <3>1. Asking(r)
        BY <2>1, <2>2, AsksOwn DEF Kinds
      <3>2. q.kind = "soeblock" /\ q \in Asks
        BY <2>1, QuestionType DEF Kinds
      <3>3. ask' = [ask EXCEPT ![r] = q] /\ ask \in [Routes -> Asks]
        BY <2>2 DEF Send, TypeOK
      <3>4. proto'[r].event = "Waitting"
        BY <2>2, <3>2 DEF Send, TypeOK, Protos
      <3>5. QED BY <3>1, <3>3, <3>4
    <2> HIDE DEF left
    <2>7. left \in -1 .. MaxSoe
      BY SMT, <2>5
    <2>8. soe' \in [Routes -> Soes]
      BY <2>3, <2>4, <2>7 DEF Soes
    <2>9. n > 0 \/ (n = 0 /\ left = 0)
      BY SMT, <2>1, <2>5
    <2>10. QED BY <2>4, <2>6, <2>8, <2>9 DEF left
  <1>4. QED BY SMT, <1>1, <1>2, <1>3

LEMMA GetRecordsDataAsks ==
  ASSUME TypeOK, BufferInv, BlockInv, NEW r \in Routes, NEW p \in Protos,
         GetRecordsData(r, p), taken' = taken
  PROVE  /\ Asking(r) /\ recs' \in [Routes -> Recs]
         /\ resent' \in Nat /\ resent' >= resent
  <1>0. recs \in [Routes -> Recs] /\ recs[r].left \in Nat /\ resent \in Nat
        /\ recs[r].num \in -1 .. MaxRecords
    BY DEF TypeOK, Recs
  <1>1. [p EXCEPT !.next = 0] \in Protos
    BY FromStartType
  <1>2. CASE /\ Send(r, Question("reccount", 0), Question("reccount", 0), [p EXCEPT !.next = 0])
             /\ UNCHANGED <<recs, resent>>
    BY <1>0, <1>1, <1>2, AsksOwn DEF Kinds
  <1>3. CASE /\ recs[r].left > 0
             /\ LET q == Question("recpart", recs[r].left)
                IN  Send(r, q, q, [p EXCEPT !.next = 0])
             /\ recs' = [recs EXCEPT ![r].left = @ - 1,
                                     ![r].num = IF recs[r].left = 1 THEN -1 ELSE @]
             /\ UNCHANGED resent
    <2>1. Asking(r)
      BY <1>0, <1>1, <1>3, AsksOwn DEF Kinds
    <2>2. recs[r].left - 1 \in Nat /\ -1 \in -1 .. MaxRecords
      BY SMT, <1>0, <1>3, Numbers
    <2>3. recs' \in [Routes -> Recs]
      BY <1>0, <1>3, <2>2 DEF Recs
    <2>4. QED BY <1>0, <1>3, <2>1, <2>3
  <1>4. CASE SendAgain(r, p) /\ recs' = [recs EXCEPT ![r].num = -1]
    <2>1. Asking(r) /\ resent' = resent + 1
      BY <1>4, AsksAgain DEF SendAgain
    <2>2. -1 \in -1 .. MaxRecords
      BY SMT, Numbers
    <2>3. recs' \in [Routes -> Recs]
      BY <1>0, <1>4, <2>2 DEF Recs
    <2>4. resent' \in Nat /\ resent' >= resent
      BY SMT, <1>0, <2>1
    <2>5. QED BY <2>1, <2>3, <2>4
  <1>5. QED BY <1>2, <1>3, <1>4 DEF GetRecordsData

(* What a search for the next command leaves of the counts and the readings. *)
Counts ==
  taken' \in Nat /\ resent' \in Nat /\ taken' + resent' >= taken + resent

Untouched ==
  /\ recs' \in [Routes -> Recs] /\ udp' \in [Routes -> Int]
  /\ jobs' \subseteq Routes \X JobKinds
  /\ posted' \in Nat /\ troubles' \in Nat /\ misread' = misread

SoeStep(r) ==
  \/ soe' = Given(r)
  \/ soe[r].num = 0 /\ soe' = [Given(r) EXCEPT ![r].num = 0]
  \/ /\ soe[r].num > 0 /\ ask'[r] = Question("soeblock", soe[r].num)
     /\ proto'[r].event = "Waitting"
     /\ soe' = [Given(r) EXCEPT ![r].num = soe[r].num - Least(soe[r].num, SoeBlock)]

FindFacts(r) ==
  Asking(r) /\ Counts /\ Untouched /\ SoeStep(r) /\ soe' \in [Routes -> Soes] /\ Finds(r)

LEMMA CountsOf ==
  ASSUME TypeOK, taken' = taken \/ taken' = taken + 1, resent' \in Nat, resent' >= resent
  PROVE  Counts
  <1>1. taken \in Nat /\ resent \in Nat
    BY DEF TypeOK
  <1>2. \A t, u, t2, u2 \in Nat :
          (t2 = t \/ t2 = t + 1) /\ u2 >= u => t2 + u2 >= t + u
    BY SMT
  <1>3. taken' \in Nat
    BY <1>1
  <1>4. QED BY <1>1, <1>2, <1>3 DEF Counts

LEMMA ResentSame ==
  ASSUME TypeOK, resent' = resent \/ resent' = resent + 1
  PROVE  resent' \in Nat /\ resent' >= resent
  <1>1. resent \in Nat
    BY DEF TypeOK
  <1>2. \A u \in Nat : u + 1 \in Nat /\ u + 1 >= u /\ u >= u
    BY SMT
  <1>3. QED BY <1>1, <1>2

LEMMA TakesLeaves ==
  ASSUME TypeOK, NEW r \in Routes, NEW kind, Takes(r, kind)
  PROVE  /\ jobs' \subseteq Routes \X JobKinds /\ posted' \in Nat /\ troubles' \in Nat
         /\ misread' = misread /\ Finds(r)
  BY DEF Takes, TypeOK, Free

LEMMA ControlFound ==
  ASSUME TypeOK, BufferInv, BlockInv, NEW r \in Routes, NEW kind, Takes(r, kind),
         SendControl(r) \/ SendPoll(r, Found(r)), taken' = taken + 1, soe' = Given(r),
         UNCHANGED <<recs, udp, resent>>
  PROVE  FindFacts(r)
  <1>1. Asking(r)
    BY AsksControl, AsksPoll, FoundType
  <1>2. Counts
    BY CountsOf, ResentSame
  <1>3. Untouched
    BY TakesLeaves DEF Untouched, TypeOK
  <1>4. QED BY <1>1, <1>2, <1>3, TakesLeaves, GivenType DEF FindFacts, SoeStep

(* A command that sends no control and leaves the readings.                 *)
LEMMA QuietFound ==
  ASSUME TypeOK, BlockInv, NEW r \in Routes, NEW kind, Takes(r, kind), Asking(r),
         soe' = Given(r), taken' = taken, resent' = resent \/ resent' = resent + 1,
         recs' \in [Routes -> Recs], udp' \in [Routes -> Int]
  PROVE  FindFacts(r)
  <1>1. Counts
    BY CountsOf, ResentSame
  <1>2. Untouched
    BY TakesLeaves DEF Untouched
  <1>3. QED BY <1>1, <1>2, TakesLeaves, GivenType DEF FindFacts, SoeStep

LEMMA ReadsFound ==
  ASSUME TypeOK, BufferInv, BlockInv, NEW r \in Routes,
         ReadOnSOE(r) \/ ReadOnRecords(r) \/ SendUdp(r) \/ Poll(r)
  PROVE  FindFacts(r)
  <1>0. /\ recs \in [Routes -> Recs] /\ udp \in [Routes -> Int] /\ jobs \subseteq Routes \X JobKinds
        /\ posted \in Nat /\ troubles \in Nat /\ udp[r] \in Int
    BY DEF TypeOK
  <1>1. CASE ReadOnSOE(r)
    <2>1. GetSOEData(r, Pcmd(r)) /\ Finds(r)
          /\ UNCHANGED <<recs, udp, jobs, posted, taken, resent, misread, troubles>>
      BY <1>1 DEF ReadOnSOE
    <2>2. Asking(r) /\ soe' \in [Routes -> Soes] /\ SoeStep(r)
      BY <2>1, FoundType, GetSOEDataAsks DEF SoeStep
    <2>3. Counts /\ Untouched
      BY <1>0, <2>1, CountsOf, ResentSame DEF Untouched
    <2>4. QED BY <2>1, <2>2, <2>3 DEF FindFacts
  <1>2. CASE ReadOnRecords(r)
    <2>1. GetRecordsData(r, Found(r)) /\ Finds(r) /\ soe' = Given(r)
          /\ UNCHANGED <<udp, jobs, posted, taken, misread, troubles>>
      BY <1>2 DEF ReadOnRecords
    <2>2. Asking(r) /\ recs' \in [Routes -> Recs] /\ resent' \in Nat /\ resent' >= resent
      BY <2>1, FoundType, GetRecordsDataAsks
    <2>3. Counts /\ Untouched
      BY <1>0, <2>1, <2>2, CountsOf DEF Untouched
    <2>4. QED BY <2>1, <2>2, <2>3, GivenType DEF FindFacts, SoeStep
  <1>3. CASE SendUdp(r)
    <2>1. Send(r, Question("udp", 0), Question("udp", 0), Pcmd(r)) /\ Finds(r) /\ soe' = Given(r)
          /\ udp' = [udp EXCEPT ![r] = @ - 1]
          /\ UNCHANGED <<recs, jobs, posted, taken, resent, misread, troubles>>
      BY <1>3 DEF SendUdp
    <2>2. Asking(r)
      BY <2>1, FoundType, AsksOwn DEF Kinds
    <2>3. udp' \in [Routes -> Int]
      BY <1>0, <2>1
    <2>4. Counts /\ Untouched
      BY <1>0, <2>1, <2>3, CountsOf, ResentSame DEF Untouched
    <2>5. QED BY <2>1, <2>2, <2>4, GivenType DEF FindFacts, SoeStep
  <1>4. CASE Poll(r)
    <2>1. SendPoll(r, Found(r)) /\ Finds(r) /\ soe' = Given(r)
          /\ UNCHANGED <<recs, udp, jobs, posted, taken, resent, misread, troubles>>
      BY <1>4 DEF Poll, Free
    <2>2. Asking(r)
      BY <2>1, FoundType, AsksPoll
    <2>3. Counts /\ Untouched
      BY <1>0, <2>1, CountsOf, ResentSame DEF Untouched
    <2>4. QED BY <2>1, <2>2, <2>3, GivenType DEF FindFacts, SoeStep
  <1>5. QED BY <1>1, <1>2, <1>3, <1>4

LEMMA CallsFound ==
  ASSUME TypeOK, BufferInv, BlockInv, NEW r \in Routes,
         CallSOEData(r) \/ CallRecordsData(r) \/ SendYcCommand(r) \/ CallUdp(r) \/ EditPara(r)
  PROVE  FindFacts(r)
  <1>0. recs \in [Routes -> Recs] /\ udp \in [Routes -> Int] /\ udp[r] \in Int
    BY DEF TypeOK
  <1>1. CASE CallSOEData(r)
    <2>1. [Pcmd(r) EXCEPT !.excl = TRUE] \in Protos
      BY FoundType, ExclType
    <2>2. GetSOEData(r, [Pcmd(r) EXCEPT !.excl = TRUE]) /\ Takes(r, "soe")
          /\ UNCHANGED <<recs, udp, taken, resent>>
      BY <1>1 DEF CallSOEData
    <2>3. Asking(r) /\ soe' \in [Routes -> Soes] /\ SoeStep(r)
      BY <2>1, <2>2, GetSOEDataAsks DEF SoeStep
    <2>4. Counts /\ Untouched /\ Finds(r)
      BY <1>0, <2>2, CountsOf, ResentSame, TakesLeaves DEF Untouched
    <2>5. QED BY <2>3, <2>4 DEF FindFacts
  <1>2. CASE CallRecordsData(r)
    <2>1. [Found(r) EXCEPT !.excl = TRUE] \in Protos
      BY FoundType, ExclType
    <2>2. GetRecordsData(r, [Found(r) EXCEPT !.excl = TRUE]) /\ Takes(r, "records")
          /\ soe' = Given(r) /\ UNCHANGED <<udp, taken>>
      BY <1>2 DEF CallRecordsData
    <2>3. Asking(r) /\ recs' \in [Routes -> Recs] /\ resent' \in Nat /\ resent' >= resent
      BY <2>1, <2>2, GetRecordsDataAsks
    <2>4. Counts /\ Untouched /\ Finds(r)
      BY <1>0, <2>2, <2>3, CountsOf, TakesLeaves DEF Untouched
    <2>5. QED BY <2>2, <2>3, <2>4, GivenType DEF FindFacts, SoeStep
  <1>3. CASE SendYcCommand(r)
    <2> DEFINE p(kind) == [Found(r) EXCEPT !.excl = Found(r).excl \/ kind = "harm"]
    <2>1. PICK kind \in {"yc", "harm"} :
            /\ Takes(r, kind)
            /\ \/ Send(r, Question("yc", 0), Question("yc", 0), [p(kind) EXCEPT !.next = 0])
               \/ SendPoll(r, p(kind))
      BY <1>3 DEF SendYcCommand
    <2>2. p(kind) \in Protos
      <3>1. (Found(r).excl \/ kind = "harm") \in BOOLEAN
        OBVIOUS
      <3>2. QED BY <3>1, FoundType, ExclType
    <2> HIDE DEF p
    <2>3. [p(kind) EXCEPT !.next = 0] \in Protos
      BY <2>2, FromStartType
    <2>4. Asking(r)
      BY <2>1, <2>2, <2>3, AsksOwn, AsksPoll DEF Kinds
    <2>5. soe' = Given(r) /\ UNCHANGED <<recs, udp, taken, resent>>
      BY <1>3 DEF SendYcCommand
    <2>6. QED BY <1>0, <2>1, <2>4, <2>5, QuietFound
  <1>4. CASE CallUdp(r)
    <2>1. Takes(r, "udp") /\ soe' = Given(r) /\ UNCHANGED <<recs, taken>>
      BY <1>4 DEF CallUdp
    <2>2. CASE SendPoll(r, Found(r)) /\ UNCHANGED <<udp, resent>>
      <3>1. Asking(r)
        BY <2>2, FoundType, AsksPoll
      <3>2. QED BY <1>0, <2>1, <2>2, <3>1, QuietFound
    <2>3. CASE \E rows \in IF udp[r] = 0 THEN 1 .. MaxUdp ELSE {} :
                 /\ Send(r, Question("udp", 0), Question("udp", 0), Pcmd(r))
                 /\ udp' = [udp EXCEPT ![r] = rows - 1]
                 /\ UNCHANGED resent
      <3>1. PICK rows \in IF udp[r] = 0 THEN 1 .. MaxUdp ELSE {} :
              /\ Send(r, Question("udp", 0), Question("udp", 0), Pcmd(r))
              /\ udp' = [udp EXCEPT ![r] = rows - 1]
              /\ UNCHANGED resent
        BY <2>3
      <3>2. rows - 1 \in Int
        BY SMT, <3>1, Numbers
      <3>3. udp' \in [Routes -> Int]
        BY <1>0, <3>1, <3>2
      <3>4. Asking(r)
        BY <3>1, FoundType, AsksOwn DEF Kinds
      <3>5. QED BY <1>0, <2>1, <3>1, <3>3, <3>4, QuietFound
    <2>4. CASE SendAgain(r, Found(r)) /\ UNCHANGED udp
      <3>1. Asking(r) /\ resent' = resent + 1
        BY <2>1, <2>4, FoundType, AsksAgain DEF SendAgain
      <3>2. QED BY <1>0, <2>1, <2>4, <3>1, QuietFound
    <2>5. QED BY <1>4, <2>2, <2>3, <2>4 DEF CallUdp
  <1>5. CASE EditPara(r)
    <2> DEFINE frame == IF ask[r].kind = "poll" THEN ask[r] ELSE Question("edit", 0)
    <2>1. Takes(r, "editpar") /\ Send(r, ask[r], frame, Found(r)) /\ soe' = Given(r)
          /\ udp' = [udp EXCEPT ![r] = @ - 1] /\ UNCHANGED <<recs, taken, resent>>
      BY <1>5 DEF EditPara
    <2>2. frame \in Asks /\ frame.kind # "control"
      BY StateTypes, QuestionType DEF Kinds
    <2> HIDE DEF frame
    <2>3. Asking(r)
      BY <2>1, <2>2, FoundType, StateTypes DEF Asking, BlockInv
    <2>4. udp' \in [Routes -> Int]
      BY <1>0, <2>1
    <2>5. QED BY <1>0, <2>1, <2>3, <2>4, QuietFound
  <1>6. QED BY <1>1, <1>2, <1>3, <1>4, <1>5

LEMMA FindNextCommandFound ==
  ASSUME TypeOK, BufferInv, BlockInv, NEW r \in Routes, FindNextCommand(r)
  PROVE  FindFacts(r)
  <1>0. recs \in [Routes -> Recs] /\ udp \in [Routes -> Int]
    BY DEF TypeOK
  <1>1. CASE MakeYkSelect(r) \/ MakeYkExecute(r) \/ MakeSelectParameter(r) \/ MakeSetParameter(r)
    BY <1>1, ControlFound
    DEF MakeYkSelect, MakeYkExecute, MakeSelectParameter, MakeSetParameter
  <1>2. CASE MakeConstantValue(r)
    <2>1. Asking(r)
      BY <1>2, FoundType, AsksOwn DEF MakeConstantValue, Kinds
    <2>2. QED BY <1>0, <1>2, <2>1, QuietFound DEF MakeConstantValue
  <1>3. CASE SendTime(r)
    <2>1. Asking(r)
      BY <1>3, FoundType, AsksOwn, AsksPoll DEF SendTime, Kinds
    <2>2. QED BY <1>0, <1>3, <2>1, QuietFound DEF SendTime
  <1>4. CASE TakeQuietly(r)
    <2>1. Asking(r)
      BY <1>4, FoundType, AsksPoll DEF TakeQuietly
    <2>2. QED BY <1>0, <1>4, <2>1, QuietFound DEF TakeQuietly
  <1>5. QED BY <1>1, <1>2, <1>3, <1>4, ReadsFound, CallsFound DEF FindNextCommand

-----------------------------------------------------------------------------
(* No block of a reading is passed over.                                   *)

(* A reading whose answers only grow, and whose open block is still asked   *)
(* for or was added to them.                                                *)
LEMMA SoeGrows ==
  ASSUME SoeInv, misread' = misread,
         \A r \in Routes :
           /\ soe'[r].num = soe[r].num \/ ~(soe'[r].num >= 0)
           /\ soe'[r].sum = soe[r].sum
           /\ soe[r].got \subseteq soe'[r].got /\ soe[r].lost \subseteq soe'[r].lost
           /\ soe'[r].ended => soe[r].ended
           /\ Pending(r) \subseteq Done(soe'[r]) \cup Pending(r)'
  PROVE  SoeInv'
  <1>0. \A r \in Routes : Done(soe[r]) \subseteq Done(soe'[r])
    BY DoneGrows
  <1>1. SUFFICES ASSUME ~misread, NEW r \in Routes
                 PROVE  /\ soe'[r].num >= 0 =>
                             soe'[r].num .. soe'[r].sum - 1
                               \subseteq Done(soe'[r]) \cup Pending(r)'
                        /\ soe'[r].ended =>
                             0 .. soe'[r].sum - 1 \subseteq Done(soe'[r])
    BY DEF SoeInv
  <1>2. /\ soe[r].num >= 0 =>
             soe[r].num .. soe[r].sum - 1 \subseteq Done(soe[r]) \cup Pending(r)
        /\ soe[r].ended => 0 .. soe[r].sum - 1 \subseteq Done(soe[r])
    BY <1>1 DEF SoeInv
  <1>3. ASSUME soe'[r].num >= 0
        PROVE  soe'[r].num .. soe'[r].sum - 1
                 \subseteq Done(soe'[r]) \cup Pending(r)'
    <2>1. soe'[r].num = soe[r].num /\ soe'[r].sum = soe[r].sum
      BY <1>3
    <2>2. soe[r].num .. soe[r].sum - 1 \subseteq Done(soe[r]) \cup Pending(r)
      BY <1>2, <1>3, <2>1
    <2> DEFINE I == soe[r].num .. soe[r].sum - 1
               P == Pending(r)
               Q == Pending(r)'
    <2>3. soe'[r].num .. soe'[r].sum - 1 = I
      BY <2>1
    <2>4. I \subseteq Done(soe[r]) \cup P /\ Done(soe[r]) \subseteq Done(soe'[r])
      BY <2>2, <1>0
    <2>5. P \subseteq Done(soe'[r]) \cup Q
      OBVIOUS
    <2> HIDE DEF I, P, Q
    <2>6. I \subseteq Done(soe'[r]) \cup Q
      BY <2>4, <2>5
    <2>7. QED BY <2>3, <2>6 DEF Q
  <1>4. ASSUME soe'[r].ended
        PROVE  0 .. soe'[r].sum - 1 \subseteq Done(soe'[r])
    BY <1>0, <1>2, <1>4
  <1>5. QED BY <1>3, <1>4

(* The event of the current route becomes anything but a success.           *)
LEMMA SoeUnheard ==
  ASSUME SoeInv, UNCHANGED <<ask, misread>>,
         \A r \in Routes :
           /\ proto'[r].event = proto[r].event \/ proto'[r].event # "Succeeded"
           /\ soe'[r].num = soe[r].num \/ ~(soe'[r].num >= 0)
           /\ soe'[r].sum = soe[r].sum /\ soe'[r].got = soe[r].got
           /\ soe'[r].lost = soe[r].lost /\ soe'[r].ended = soe[r].ended
  PROVE  SoeInv'
  <1>1. \A r \in Routes : Pending(r) \subseteq Pending(r)'
    BY DEF Pending
  <1>2. QED BY <1>1, SoeGrows

LEMMA SettleAtTickSoe ==
  ASSUME TypeOK, TurnHeld, BufferInv, BlockInv, SoeInv, SettleAtTick PROVE SoeInv'
  <1> DEFINE e == IF Told(cur).ok THEN Told(cur).event ELSE "TimeOut"
             p == AckRecv([Told(cur) EXCEPT !.event = e, !.out = FALSE])
  <1>1. e \in Events /\ (e = proto[cur].event \/ e # "Succeeded")
    BY ToldType DEF Protos, Events
  <1>2. GoOn(p) /\ UNCHANGED <<ask, misread, soe>>
    BY DEF SettleAtTick, readings, history
  <1>3. p \in Protos /\ p.buf = proto[cur].buf
    BY <1>1, ToldType, SettledType
  <1>4. p.event = e
    <2>1. [Told(cur) EXCEPT !.event = e, !.out = FALSE] \in Protos
          /\ [Told(cur) EXCEPT !.event = e, !.out = FALSE].event = e
      BY <1>1, ToldType DEF Protos
    <2>2. QED BY <2>1, AckRecvType
  <1> HIDE DEF p, e
  <1>5. \A r \in Routes : proto'[r].event = proto[r].event \/ proto'[r].event # "Succeeded"
    BY <1>1, <1>2, <1>3, <1>4, TurnMoves
  <1>6. QED BY <1>2, <1>5, SoeUnheard

LEMMA SettleByTimerSoe ==
  ASSUME TypeOK, TurnHeld, BufferInv, BlockInv, SoeInv, SettleByTimer
  PROVE  SoeInv' /\ soe' \in [Routes -> Soes]
  <1> DEFINE b == soe[cur].num # 0 /\ recs[cur].left > 0
             p == AckRecv([Told(cur) EXCEPT !.event = "TimeOut", !.excl = b])
  <1>1. GoOn(p) /\ UNCHANGED <<ask, misread>>
    BY DEF SettleByTimer, history
  <1>2. p \in Protos /\ p.buf = proto[cur].buf /\ p.event = "TimeOut"
    <2>1. b \in BOOLEAN /\ "TimeOut" \in Events
      BY DEF Events
    <2> HIDE DEF b
    <2> DEFINE q == [Told(cur) EXCEPT !.event = "TimeOut", !.excl = b]
    <2>2. q \in Protos /\ q.event = "TimeOut" /\ q.buf = Told(cur).buf
      BY <2>1, ToldType DEF Protos
    <2>3. p = AckRecv(q) /\ Told(cur).buf = proto[cur].buf
      BY ToldType
    <2> HIDE DEF p, q
    <2>4. QED BY <2>2, <2>3, AckRecvType
  <1> HIDE DEF p
  <1>3. \A r \in Routes : proto'[r].event = proto[r].event \/ proto'[r].event # "Succeeded"
    BY <1>1, <1>2, TurnMoves
  <1>4. soe' = soe \/ soe' = [soe EXCEPT ![cur].num = -1]
    BY DEF SettleByTimer
  <1>5. soe \in [Routes -> Soes] /\ cur \in Routes /\ -1 \in -1 .. MaxSoe /\ ~(-1 >= 0)
    BY SMT, Numbers DEF TypeOK
  <1>6. soe' \in [Routes -> Soes]
    BY <1>4, <1>5 DEF Soes
  <1>7. \A r \in Routes :
          /\ soe'[r].num = soe[r].num \/ ~(soe'[r].num >= 0)
          /\ soe'[r].sum = soe[r].sum /\ soe'[r].got = soe[r].got
          /\ soe'[r].lost = soe[r].lost /\ soe'[r].ended = soe[r].ended
    BY <1>4, <1>5 DEF Soes
  <1>8. QED BY <1>1, <1>3, <1>6, <1>7, SoeUnheard

LEMMA UnheardSoe ==
  ASSUME TypeOK, TurnHeld, BufferInv, BlockInv, SoeInv,
         HearNothing \/ DropFrame \/ FailCheck \/ PassReceive
  PROVE  SoeInv'
  <1> DEFINE p2 == [Told(cur) EXCEPT !.event = "CheckError"]
  <1>1. UNCHANGED <<ask, misread, soe>>
    BY DEF HearNothing, DropFrame, FailCheck, PassReceive, readings, history
  <1>2. \E p \in Protos :
          /\ GoOn(p) \/ GoOnLate(p)
          /\ p.buf = proto[cur].buf
          /\ p.event = proto[cur].event \/ p.event = "CheckError"
    <2>1. p2 \in Protos /\ p2.buf = proto[cur].buf /\ p2.event = "CheckError"
      BY ToldType DEF Protos, Events
    <2>2. FailCheck => GoOn(p2)
      BY DEF FailCheck
    <2> HIDE DEF p2
    <2>3. HearNothing \/ DropFrame => GoOn(Told(cur)) \/ GoOnLate(Told(cur))
      BY DEF HearNothing, DropFrame
    <2>4. PassReceive => GoOn(proto[cur])
      BY DEF PassReceive
    <2>5. proto[cur] \in Protos
      BY DEF TypeOK
    <2>6. CASE FailCheck
      BY <2>1, <2>2, <2>6
    <2>7. CASE HearNothing \/ DropFrame
      BY <2>3, <2>7, ToldType
    <2>8. CASE PassReceive
      BY <2>4, <2>5, <2>8
    <2>9. QED BY <2>6, <2>7, <2>8
  <1>3. \A r \in Routes : proto'[r].event = proto[r].event \/ proto'[r].event # "Succeeded"
    BY <1>1, <1>2, TurnMoves
  <1>4. QED BY <1>1, <1>3, SoeUnheard

(* A good answer that is not about events.                                  *)
LEMMA OtherAnswerSoe ==
  ASSUME SoeInv, UNCHANGED <<ask, misread, soe>>, ask[cur].kind # "soeblock",
         \A r \in Routes :
           proto'[r].event = IF r = cur THEN "Succeeded" ELSE proto[r].event
  PROVE  SoeInv'
  <1>1. \A r \in Routes : Pending(r) \subseteq Pending(r)'
    BY DEF Pending
  <1>2. QED BY <1>1, SoeGrows

LEMMA RefusedSoe ==
  ASSUME TypeOK, TurnHeld, BufferInv, BlockInv, SoeInv, Refused
  PROVE  SoeInv' /\ soe' \in [Routes -> Soes]
  <1>1. /\ UNCHANGED <<ask, misread>>
        /\ \A r \in Routes :
             proto'[r].event = IF r = cur THEN "Succeeded" ELSE proto[r].event
    BY SucceedsKept DEF Refused
  <1>2. soe \in [Routes -> Soes] /\ cur \in Routes
    BY DEF TypeOK
  <1>3. CASE ask[cur].kind # "soeblock"
    <2>1. soe' = soe
      BY <1>3 DEF Refused
    <2>2. QED BY <1>1, <1>2, <1>3, <2>1, OtherAnswerSoe
  <1>4. CASE ask[cur].kind = "soeblock"
    <2> DEFINE s2 == [soe[cur] EXCEPT !.lost = soe[cur].lost \cup {ask[cur].n}]
    <2>1. ask[cur].n \in Nat
      BY SMT, <1>2, <1>4, Numbers DEF BlockInv
    <2>2. soe' = [soe EXCEPT ![cur] = s2]
      BY <1>4 DEF Refused
    <2>3. \A r \in Routes \ {cur} : Pending(r) = Pending(r)'
      BY <1>1 DEF Pending
    <2>4. Pending(cur) \subseteq Named(ask[cur].n)
      BY DEF Pending
    <2>5. s2 \in Soes /\ s2.num = soe[cur].num /\ s2.sum = soe[cur].sum
          /\ s2.got = soe[cur].got /\ s2.ended = soe[cur].ended
          /\ s2.lost = soe[cur].lost \cup {ask[cur].n}
      BY <1>2, <2>1 DEF Soes
    <2> HIDE DEF s2
    <2>6. soe' \in [Routes -> Soes] /\ soe'[cur] = s2
          /\ \A r \in Routes \ {cur} : soe'[r] = soe[r]
      BY <1>2, <2>2, <2>5
    <2>7. ASSUME NEW r \in Routes
          PROVE  /\ soe'[r].num = soe[r].num \/ ~(soe'[r].num >= 0)
                 /\ soe'[r].sum = soe[r].sum
                 /\ soe[r].got \subseteq soe'[r].got /\ soe[r].lost \subseteq soe'[r].lost
                 /\ soe'[r].ended => soe[r].ended
                 /\ Pending(r) \subseteq Done(soe'[r]) \cup Pending(r)'
      <3>1. CASE r = cur
        <4>1. Named(ask[cur].n) \subseteq Done(s2)
          BY <2>5, DoneHas
        <4>2. QED BY <2>4, <2>5, <2>6, <3>1, <4>1
      <3>2. CASE r # cur
        BY <2>3, <2>6, <3>2
      <3>3. QED BY <3>1, <3>2
    <2>8. QED BY <1>1, <2>6, <2>7, SoeGrows
  <1>5. QED BY <1>3, <1>4

(* A count begins a reading; a block ends it when none is left to ask for.  *)
LEMMA ResolveSOEDataSoe ==
  ASSUME TypeOK, TurnHeld, BufferInv, BlockInv, SoeInv, ResolveSOEData
  PROVE  SoeInv' /\ soe' \in [Routes -> Soes]
  <1>1. /\ UNCHANGED ask
        /\ \A r \in Routes :
             proto'[r].event = IF r = cur THEN "Succeeded" ELSE proto[r].event
    BY SucceedsKept DEF ResolveSOEData, Passes
  <1>2. /\ soe \in [Routes -> Soes] /\ cur \in Routes /\ soe[cur] \in Soes
        /\ soe[cur].num \in -1 .. MaxSoe /\ soe[cur].sum \in 0 .. MaxSoe
        /\ ask[cur].kind \in {"soecount", "soeblock"}
    BY DEF TypeOK, Soes, ResolveSOEData
  <1>3. misread' = (misread \/ (soe[cur].num < 0) # (ask[cur].kind = "soecount"))
    BY DEF ResolveSOEData
  <1>4. \A r \in Routes \ {cur} : Pending(r) = Pending(r)'
    BY <1>1 DEF Pending
  <1>5. ASSUME NEW s \in Soes, soe' = [soe EXCEPT ![cur] = s],
               ~misread' => /\ s.num >= 0 => s.num .. s.sum - 1 \subseteq Done(s)
                            /\ s.ended => 0 .. s.sum - 1 \subseteq Done(s)
        PROVE  SoeInv' /\ soe' \in [Routes -> Soes]
    <2>1. soe' \in [Routes -> Soes] /\ soe'[cur] = s
          /\ \A r \in Routes \ {cur} : soe'[r] = soe[r]
      BY <1>2, <1>5
    <2>2. ~misread' => ~misread
      BY <1>3
    <2>3. SUFFICES ASSUME ~misread', NEW r \in Routes
                   PROVE  /\ soe'[r].num >= 0 =>
                               soe'[r].num .. soe'[r].sum - 1
                                 \subseteq Done(soe'[r]) \cup Pending(r)'
                          /\ soe'[r].ended =>
                               0 .. soe'[r].sum - 1 \subseteq Done(soe'[r])
      BY <2>1 DEF SoeInv
    <2>4. CASE r = cur
      BY <1>5, <2>1, <2>3, <2>4
    <2>5. CASE r # cur
      <3>1. Pending(r)' = Pending(r) /\ soe'[r] = soe[r]
        BY <1>4, <2>1, <2>5
      <3>2. QED BY <2>2, <2>3, <3>1 DEF SoeInv
    <2>6. QED BY <2>4, <2>5
  <1>6. CASE soe[cur].num < 0
    <2>1. PICK n \in 0 .. MaxSoe :
            soe' = [soe EXCEPT ![cur] = [NewSoe EXCEPT !.num = IF n = 0 THEN -1 ELSE n, !.sum = n]]
      BY <1>6 DEF ResolveSOEData
    <2> DEFINE m == IF n = 0 THEN -1 ELSE n
               s == [NewSoe EXCEPT !.num = m, !.sum = n]
    <2>2. m \in -1 .. MaxSoe /\ (m >= 0 => m .. n - 1 = {})
      BY SMT, <2>1, Numbers
    <2> HIDE DEF m
    <2>3. s \in Soes /\ s.num = m /\ s.sum = n /\ ~s.ended
      BY <2>1, <2>2, NewReadings DEF NewSoe, Soes
    <2>4. soe' = [soe EXCEPT ![cur] = s]
      BY <2>1 DEF m
    <2> HIDE DEF s
    <2>5. QED BY <1>5, <2>2, <2>3, <2>4
  <1>7. CASE soe[cur].num >= 0
    <2> DEFINE B == IF ask[cur].kind = "soeblock" THEN {ask[cur].n} ELSE {}
               e == soe[cur].num = 0 /\ ask[cur].n > 0
               m == IF soe[cur].num = 0 THEN -1 ELSE soe[cur].num
               g == IF ask[cur].kind = "soeblock"
                    THEN soe[cur].got \cup {ask[cur].n} ELSE soe[cur].got
               s == [soe[cur] EXCEPT !.got = g, !.ended = e, !.num = m]
    <2>1. ~(soe[cur].num < 0) /\ g = soe[cur].got \cup B
      <3>1. ~(soe[cur].num < 0)
        BY SMT, <1>2, <1>7
      <3>2. g = soe[cur].got \cup B
        OBVIOUS
      <3>3. QED BY <3>1, <3>2
    <2>2. soe' = [soe EXCEPT ![cur] = s]
      <3> DEFINE t == [soe[cur] EXCEPT
                        !.got = IF ask[cur].kind = "soeblock"
                                THEN @ \cup {ask[cur].n} ELSE @,
                        !.ended = soe[cur].num = 0 /\ ask[cur].n > 0,
                        !.num = IF @ = 0 THEN -1 ELSE @]
      <3>1. soe' = [soe EXCEPT ![cur] = t]
        BY <2>1 DEF ResolveSOEData
      <3>2. t = s
        BY <1>2 DEF Soes
      <3> HIDE DEF s, t
      <3>3. QED BY <3>1, <3>2
    <2>3. B \subseteq Nat
      BY SMT, <1>2, Numbers DEF BlockInv
    <2>4. m \in -1 .. MaxSoe /\ (m >= 0 => m = soe[cur].num)
      BY SMT, <1>2, Numbers
    <2>5. e \in BOOLEAN /\ (e => soe[cur].num = 0)
      OBVIOUS
    <2>6. Pending(cur) = {} \/ (ask[cur].n \in B /\ Pending(cur) = Named(ask[cur].n))
      BY DEF Pending
    <2> HIDE DEF B, e, m, g
    <2>7. s \in Soes /\ s.num = m /\ s.sum = soe[cur].sum /\ s.lost = soe[cur].lost
          /\ s.got = soe[cur].got \cup B /\ (s.ended => soe[cur].num = 0)
      BY <1>2, <2>1, <2>3, <2>4, <2>5 DEF Soes
    <2> HIDE DEF s
    <2>8. ~misread' =>
            /\ s.num >= 0 =>
                 s.num .. s.sum - 1 \subseteq Done(s)
            /\ s.ended => 0 .. s.sum - 1 \subseteq Done(s)
      <3>1. SUFFICES ASSUME ~misread'
                     PROVE  /\ s.num >= 0 => s.num .. s.sum - 1 \subseteq Done(s)
                            /\ s.ended => 0 .. s.sum - 1 \subseteq Done(s)
        OBVIOUS
      <3>2. ~misread
        BY <1>3, <3>1
      <3>3. soe[cur].num .. soe[cur].sum - 1 \subseteq Done(soe[cur]) \cup Pending(cur)
        BY <1>2, <1>7, <3>2 DEF SoeInv
      <3>4. soe[cur].num .. soe[cur].sum - 1 \subseteq Done(s)
        <4>1. Done(soe[cur]) \subseteq Done(s)
          BY <2>7, DoneGrows
        <4>2. Pending(cur) \subseteq Done(s)
          BY <2>6, <2>7, DoneHas
        <4>3. QED BY <3>3, <4>1, <4>2
      <3>5. s.num >= 0 => s.num .. s.sum - 1 \subseteq Done(s)
        BY <2>4, <2>7, <3>4
      <3>6. s.ended => 0 .. s.sum - 1 \subseteq Done(s)
        BY <2>7, <3>4
      <3>7. QED BY <3>5, <3>6
    <2>9. QED BY <1>5, <2>2, <2>7, <2>8
  <1>8. QED BY SMT, <1>2, <1>6, <1>7

LEMMA MainRxSoe ==
  ASSUME TypeOK, TurnHeld, BufferInv, BlockInv, SoeInv, MainRx
  PROVE  SoeInv' /\ soe' \in [Routes -> Soes]
  <1>0. soe \in [Routes -> Soes]
    BY DEF TypeOK
  <1>1. CASE SettleAtTick
    BY <1>0, <1>1, SettleAtTickSoe DEF SettleAtTick, readings
  <1>2. CASE HearNothing \/ DropFrame \/ FailCheck
    BY <1>0, <1>2, UnheardSoe DEF HearNothing, DropFrame, FailCheck, readings
  <1>3. CASE ResolveRecordsData
    <2>1. UNCHANGED <<ask, air, soe, misread>> /\ ask[cur].kind # "soeblock" /\ Passes
      BY <1>3 DEF ResolveRecordsData, history
    <2>2. QED BY <1>0, <2>1, SucceedsKept, OtherAnswerSoe DEF Passes
  <1>4. ASSUME NEW kind \in {"poll", "control", "constant", "yc", "time"}, Resolves(kind)
        PROVE  SoeInv' /\ soe' \in [Routes -> Soes]
    <2>1. UNCHANGED <<ask, air, soe, misread>> /\ ask[cur].kind # "soeblock" /\ Passes
      BY <1>4 DEF Resolves, history, readings
    <2>2. QED BY <1>0, <2>1, SucceedsKept, OtherAnswerSoe DEF Passes
  <1>5. QED
    BY <1>1, <1>2, <1>3, <1>4, SettleByTimerSoe, RefusedSoe, ResolveSOEDataSoe
    DEF MainRx, ResolveAnalog, ResolveControl, ResolveConstvalue, ResolveYc, ResolveTime

(* A search asks a question of its own route, and a block that is no longer *)
(* asked for was answered or is given up.                                   *)
LEMMA AskingElsewhere ==
  ASSUME TypeOK, NEW r \in Routes, Asking(r)
  PROVE  \A s \in Routes \ {r} : proto'[s] = proto[s] /\ ask'[s] = ask[s]
  BY SentType DEF Asking

LEMMA GivenUp ==
  ASSUME TypeOK, BlockInv, NEW r \in Routes, Finds(r)
  PROVE  Pending(r) \subseteq Done(Given(r)[r])
  <1>1. proto[r].event \in Events /\ proto[r].event # "Waitting" /\ ~Repeats(r)
    BY StateTypes, ProtoFields DEF Finds
  <1>2. CASE ask[r].kind = "soeblock" /\ proto[r].event # "Succeeded"
    <2>1. Unanswered(r) /\ LastTry(r)
      BY <1>1, <1>2 DEF Unanswered, Repeats, Events
    <2>2. ask[r].n \in Given(r)[r].lost
      BY <1>2, <2>1, GivenType
    <2>3. QED BY <1>2, <2>2, DoneHas DEF Pending
  <1>3. CASE ~(ask[r].kind = "soeblock" /\ proto[r].event # "Succeeded")
    BY <1>3 DEF Pending
  <1>4. QED BY <1>2, <1>3

LEMMA FindSameSoe ==
  ASSUME TypeOK, BlockInv, SoeInv, NEW r \in Routes, Asking(r), Finds(r), misread' = misread,
         soe' = Given(r) \/ (soe[r].num = 0 /\ soe' = [Given(r) EXCEPT ![r].num = 0])
  PROVE  SoeInv'
  <1>1. /\ Given(r) \in [Routes -> Soes]
        /\ \A s \in Routes \ {r} : Given(r)[s] = soe[s]
        /\ Given(r)[r].num = soe[r].num /\ Given(r)[r].sum = soe[r].sum
        /\ Given(r)[r].got = soe[r].got /\ Given(r)[r].ended = soe[r].ended
        /\ soe[r].lost \subseteq Given(r)[r].lost
    BY GivenType
  <1> DEFINE g == Given(r)
  <1>2. Pending(r) \subseteq Done(g[r])
    BY GivenUp
  <1>3. /\ g \in [Routes -> Soes] /\ \A s \in Routes \ {r} : g[s] = soe[s]
        /\ g[r].num = soe[r].num /\ g[r].sum = soe[r].sum
        /\ g[r].got = soe[r].got /\ g[r].ended = soe[r].ended
        /\ soe[r].lost \subseteq g[r].lost
        /\ soe' = g \/ (soe[r].num = 0 /\ soe' = [g EXCEPT ![r].num = 0])
    BY <1>1
  <1> HIDE DEF g
  <1>4. /\ soe'[r].num = soe[r].num /\ soe'[r].sum = soe[r].sum
        /\ soe'[r].got = soe[r].got /\ soe'[r].lost = g[r].lost
        /\ soe'[r].ended = soe[r].ended
        /\ \A s \in Routes \ {r} : soe'[s] = soe[s]
    BY <1>3 DEF Soes
  <1>5. \A s \in Routes \ {r} : Pending(s) \subseteq Pending(s)'
    BY AskingElsewhere DEF Pending
  <1>6. ASSUME NEW s \in Routes
        PROVE  /\ soe'[s].num = soe[s].num \/ ~(soe'[s].num >= 0)
               /\ soe'[s].sum = soe[s].sum
               /\ soe[s].got \subseteq soe'[s].got /\ soe[s].lost \subseteq soe'[s].lost
               /\ soe'[s].ended => soe[s].ended
               /\ Pending(s) \subseteq Done(soe'[s]) \cup Pending(s)'
    <2>1. CASE s = r
      <3>1. Done(g[r]) \subseteq Done(soe'[r])
        BY <1>3, <1>4, DoneGrows
      <3>2. QED BY <1>2, <1>3, <1>4, <2>1, <3>1
    <2>2. CASE s # r
      BY <1>4, <1>5, <2>2
    <2>3. QED BY <2>1, <2>2
  <1>7. QED BY <1>6, SoeGrows

LEMMA FindBlockSoe ==
  ASSUME TypeOK, BlockInv, SoeInv, NEW r \in Routes, Asking(r), Finds(r), misread' = misread,
         soe[r].num > 0, ask'[r] = Question("soeblock", soe[r].num),
         proto'[r].event = "Waitting",
         soe' = [Given(r) EXCEPT ![r].num = soe[r].num - Least(soe[r].num, SoeBlock)]
  PROVE  SoeInv'
  <1> DEFINE n == soe[r].num
             B == Named(n)
             lo == n - Least(n, SoeBlock)
             g == Given(r)
             P == Pending(r)
  <1>1. n \in 0 .. MaxSoe /\ n > 0 /\ n \in Nat /\ n >= 0 /\ soe[r].sum \in 0 .. MaxSoe
    <2>1. n \in -1 .. MaxSoe /\ soe[r].sum \in 0 .. MaxSoe
      BY StateTypes DEF Soes
    <2>2. QED BY SMT, <2>1
  <1>2. lo \in 0 .. n - 1 /\ B = lo .. n - 1
    BY <1>1, NamedFacts DEF Named
  <1>3. /\ g \in [Routes -> Soes] /\ \A s \in Routes \ {r} : g[s] = soe[s]
        /\ g[r].sum = soe[r].sum
        /\ g[r].got = soe[r].got /\ g[r].ended = soe[r].ended
        /\ soe[r].lost \subseteq g[r].lost
    BY GivenType
  <1>4. P \subseteq Done(g[r])
    BY GivenUp
  <1>5. soe' = [g EXCEPT ![r].num = lo]
    OBVIOUS
  <1>6. Pending(r)' = B
    <2>1. Question("soeblock", n).kind = "soeblock" /\ Question("soeblock", n).n = n
      BY DEF Question
    <2>2. QED BY <2>1 DEF Pending
  <1>7. ~misread => n .. soe[r].sum - 1 \subseteq Done(soe[r]) \cup P
    BY <1>1 DEF SoeInv
  <1>8. lo .. soe[r].sum - 1 \subseteq B \cup n .. soe[r].sum - 1
    BY SMT, <1>1, <1>2
  <1>9. ~misread => (soe[r].ended => 0 .. soe[r].sum - 1 \subseteq Done(soe[r]))
    BY DEF SoeInv
  <1> HIDE DEF n, B, lo, g, P
  <1>10. /\ soe'[r].num = lo /\ soe'[r].sum = soe[r].sum /\ soe'[r].got = soe[r].got
         /\ soe'[r].lost = g[r].lost /\ soe'[r].ended = soe[r].ended
         /\ \A s \in Routes \ {r} : soe'[s] = soe[s]
    BY <1>3, <1>5 DEF Soes
  <1>11. Done(soe[r]) \subseteq Done(soe'[r]) /\ Done(g[r]) \subseteq Done(soe'[r])
    <2>1. soe[r].got \subseteq soe'[r].got /\ soe[r].lost \subseteq soe'[r].lost
      BY <1>3, <1>10
    <2>2. g[r].got \subseteq soe'[r].got /\ g[r].lost \subseteq soe'[r].lost
      BY <1>3, <1>10
    <2>3. QED BY <2>1, <2>2, DoneGrows
  <1>12. SUFFICES ASSUME ~misread, NEW s \in Routes
                  PROVE  /\ soe'[s].num >= 0 =>
                              soe'[s].num .. soe'[s].sum - 1
                                \subseteq Done(soe'[s]) \cup Pending(s)'
                         /\ soe'[s].ended =>
                              0 .. soe'[s].sum - 1 \subseteq Done(soe'[s])
    BY DEF SoeInv
  <1>13. CASE s = r
    <2>1. lo .. soe[r].sum - 1 \subseteq Done(soe'[r]) \cup B
      BY <1>4, <1>7, <1>8, <1>11, <1>12
    <2>2. soe[r].ended => 0 .. soe[r].sum - 1 \subseteq Done(soe'[r])
      BY <1>9, <1>11, <1>12
    <2> DEFINE Q == Pending(s)'
    <2>3. Q = B
      BY <1>6, <1>13
    <2> HIDE DEF Q
    <2>4. /\ soe'[s].num .. soe'[s].sum - 1 \subseteq Done(soe'[s]) \cup Q
          /\ soe'[s].ended => 0 .. soe'[s].sum - 1 \subseteq Done(soe'[s])
      BY <1>10, <1>13, <2>1, <2>2, <2>3
    <2>5. QED BY <2>4 DEF Q
  <1>14. CASE s # r
    <2>1. Pending(s)' = Pending(s)
      BY <1>14, AskingElsewhere DEF Pending
    <2>2. soe'[s] = soe[s]
      BY <1>10, <1>14
    <2>3. QED BY <1>12, <2>1, <2>2 DEF SoeInv
  <1>15. QED BY <1>13, <1>14

LEMMA FindSoe ==
  ASSUME TypeOK, BlockInv, SoeInv, NEW r \in Routes, FindFacts(r)
  PROVE  SoeInv'
  BY FindSameSoe, FindBlockSoe DEF FindFacts, SoeStep, Untouched

-----------------------------------------------------------------------------
(* Every step keeps the invariant.                                          *)

(* The part of the type invariant that Kept does not hold.                  *)
RestType ==
  /\ soe' \in [Routes -> Soes] /\ recs' \in [Routes -> Recs] /\ udp' \in [Routes -> Int]
  /\ jobs' \subseteq Routes \X JobKinds
  /\ posted' \in Nat /\ taken' \in Nat /\ carried' \in Nat /\ resent' \in Nat
  /\ misread' \in BOOLEAN /\ troubles' \in Nat

LEMMA Together ==
  ASSUME Kept, RestType, ControlOnce', SoeInv' PROVE IInv'
  BY DEF IInv, TypeOK, Kept, RestType

LEMMA TroubleType == ASSUME TypeOK, Trouble PROVE troubles' \in Nat
  BY SMT DEF TypeOK, Trouble

LEMMA RestUnchanged ==
  ASSUME TypeOK, UNCHANGED <<jobs, udp, posted, taken, carried, resent>>,
         soe' \in [Routes -> Soes], recs' \in [Routes -> Recs],
         misread' \in BOOLEAN, troubles' = troubles \/ Trouble, ControlOnce
  PROVE  RestType /\ ControlOnce'
  <1>1. troubles' \in Nat
    BY TroubleType DEF TypeOK
  <1>2. QED BY <1>1 DEF RestType, TypeOK, ControlOnce

LEMMA MainRxRest ==
  ASSUME TypeOK, ControlOnce, MainRx, soe' \in [Routes -> Soes]
  PROVE  RestType /\ ControlOnce'
  <1>1. UNCHANGED <<jobs, udp, posted, taken, carried, resent>>
    BY DEF MainRx, SettleAtTick, SettleByTimer, HearNothing, DropFrame, FailCheck, Refused,
       ResolveSOEData, ResolveRecordsData, Resolves, ResolveAnalog, ResolveControl,
       ResolveConstvalue, ResolveYc, ResolveTime, readings, history, controls
  <1>2. misread' \in BOOLEAN
    <2>1. CASE ResolveSOEData
      BY <2>1 DEF ResolveSOEData, TypeOK
    <2>2. CASE ~ResolveSOEData
      BY <2>2 DEF TypeOK, MainRx, SettleAtTick, SettleByTimer, HearNothing, DropFrame,
         FailCheck, Refused, ResolveRecordsData, Resolves, ResolveAnalog, ResolveControl,
         ResolveConstvalue, ResolveYc, ResolveTime, history
    <2>3. QED BY <2>1, <2>2
  <1>3. recs' \in [Routes -> Recs]
    <2>1. CASE ResolveRecordsData
      <3>1. recs \in [Routes -> Recs]
        BY DEF TypeOK
      <3>2. CASE UNCHANGED recs
        BY <3>1, <3>2
      <3>3. CASE \E n \in 0 .. MaxRecords :
                   recs' = [recs EXCEPT ![cur] = [num |-> n, left |-> n * PartNum]]
        <4>1. PICK n \in 0 .. MaxRecords :
                recs' = [recs EXCEPT ![cur] = [num |-> n, left |-> n * PartNum]]
          BY <3>3
        <4>2. n \in Nat /\ n \in -1 .. MaxRecords /\ PartNum \in Nat
          BY SMT, <4>1, Numbers
        <4>3. \A a, b \in Nat : a * b \in Nat
          BY SMT
        <4>4. [num |-> n, left |-> n * PartNum] \in Recs
          BY <4>2, <4>3 DEF Recs
        <4>5. QED BY <3>1, <4>1, <4>4
      <3>4. QED BY <2>1, <3>2, <3>3 DEF ResolveRecordsData
    <2>2. CASE ~ResolveRecordsData
      BY <2>2 DEF TypeOK, MainRx, SettleAtTick, SettleByTimer, HearNothing, DropFrame,
         FailCheck, Refused, ResolveSOEData, Resolves, ResolveAnalog, ResolveControl,
         ResolveConstvalue, ResolveYc, ResolveTime, readings
    <2>3. QED BY <2>1, <2>2
  <1>4. troubles' = troubles \/ Trouble
    BY DEF MainRx, SettleAtTick, SettleByTimer, HearNothing, DropFrame, FailCheck, Refused,
       ResolveSOEData, ResolveRecordsData, Resolves, ResolveAnalog, ResolveControl,
       ResolveConstvalue, ResolveYc, ResolveTime, history
  <1>5. QED BY <1>1, <1>2, <1>3, <1>4, RestUnchanged

LEMMA MainRxInv == ASSUME IInv, MainRx PROVE IInv'
  BY MainRxKept, MainRxSoe, MainRxRest, Together DEF IInv

LEMMA PassReceiveInv == ASSUME IInv, PassReceive PROVE IInv'
  <1>1. RestType /\ ControlOnce'
    BY RestUnchanged DEF IInv, TypeOK, PassReceive, readings, history, controls
  <1>2. QED BY <1>1, PassReceiveKept, UnheardSoe, Together DEF IInv

LEMMA WaitsInv == ASSUME IInv, NEW r \in Routes, Waits(r) PROVE IInv'
  <1> DEFINE p == [proto[r] EXCEPT !.switch = FALSE]
  <1>1. /\ proto' = [proto EXCEPT ![r] = p] /\ pc' = "rx"
        /\ UNCHANGED <<cur, tick, ask, air, rx, soe, recs, udp, jobs, posted, taken, carried,
                       resent, misread, troubles>>
    BY DEF Waits, readings, history, controls
  <1>2. proto \in [Routes -> Protos] /\ proto[r] \in Protos
    BY DEF IInv, TypeOK
  <1>3. p \in Protos /\ p.sending = proto[r].sending /\ p.excl = proto[r].excl
        /\ p.buf = proto[r].buf /\ p.event = proto[r].event
    BY <1>2 DEF Protos
  <1> HIDE DEF p
  <1>4. /\ proto' \in [Routes -> Protos]
        /\ \A s \in Routes : /\ proto'[s].sending = proto[s].sending
                             /\ proto'[s].excl = proto[s].excl
                             /\ proto'[s].buf = proto[s].buf
                             /\ proto'[s].event = proto[s].event
    BY <1>1, <1>2, <1>3
  <1>5. TurnHeld' /\ BufferInv' /\ BlockInv'
    BY <1>1, <1>4 DEF IInv, TurnHeld, BufferInv, BlockInv
  <1>6. Kept
    BY <1>1, <1>4, <1>5 DEF IInv, TypeOK, Kept
  <1>7. RestType /\ ControlOnce'
    BY <1>1, RestUnchanged DEF IInv, TypeOK
  <1>8. SoeInv'
    BY <1>1, <1>4, SoeUnheard DEF IInv
  <1>9. QED BY <1>6, <1>7, <1>8, Together

LEMMA RepeatInv == ASSUME IInv, NEW r \in Routes, Repeat(r) PROVE IInv'
  <1>1. r = cur /\ UNCHANGED <<soe, recs, udp, jobs, posted, taken, resent, misread, troubles>>
    BY DEF Repeat, readings
  <1>2. Asking(r) /\ Asking(cur)
    BY <1>1, RepeatAsks DEF IInv
  <1>3. Kept
    BY <1>2, AskingKept DEF IInv
  <1>4. ControlOnce' /\ carried' \in Nat
    <2>1. taken' \in Nat /\ resent' \in Nat /\ taken' + resent' = taken + resent
      BY <1>1 DEF IInv, TypeOK
    <2>2. taken + resent \in Nat
      BY SumType DEF IInv, TypeOK
    <2>3. taken' + resent' >= taken + resent
      BY SMT, <2>1, <2>2
    <2>4. QED BY <1>2, <2>1, <2>3, AskingCounts DEF IInv
  <1>5. RestType
    BY <1>1, <1>4 DEF RestType, IInv, TypeOK
  <1>6. \A s \in Routes : Pending(s) \subseteq Pending(s)'
    <2>1. ASSUME NEW s \in Routes PROVE Pending(s) \subseteq Pending(s)'
      <3>1. CASE s = r
        <4>1. CASE ask[r].kind = "soeblock"
          <5>1. ask' = [ask EXCEPT ![r] = ask[r]] /\ ask \in [Routes -> Asks]
            BY DEF Repeat, Send, IInv, TypeOK
          <5>2. ask'[r] = ask[r]
            BY <5>1
          <5>3. proto'[r].event = "Waitting"
            BY <4>1 DEF Repeat, Send, IInv, TypeOK, Protos
          <5>4. QED BY <3>1, <4>1, <5>2, <5>3 DEF Pending
        <4>2. CASE ask[r].kind # "soeblock"
          BY <3>1, <4>2 DEF Pending
        <4>3. QED BY <4>1, <4>2
      <3>2. CASE s # r
        BY <1>2, <3>2, AskingElsewhere DEF Pending, IInv
      <3>3. QED BY <3>1, <3>2
    <2>2. QED BY <2>1
  <1>7. SoeInv'
    BY <1>1, <1>6, SoeGrows DEF IInv
  <1>8. QED BY <1>3, <1>4, <1>5, <1>7, Together

LEMMA FindInv == ASSUME IInv, NEW r \in Routes, FindNextCommand(r) PROVE IInv'
  <1>1. FindFacts(r)
    BY FindNextCommandFound DEF IInv
  <1>2. r = cur
    BY <1>1 DEF FindFacts, Finds
  <1>3. Asking(cur) /\ Counts /\ Untouched /\ soe' \in [Routes -> Soes]
    BY <1>1, <1>2 DEF FindFacts
  <1>4. Kept
    BY <1>3, AskingKept DEF IInv
  <1>5. ControlOnce' /\ carried' \in Nat
    BY <1>2, <1>3, AskingCounts DEF IInv, Counts
  <1>6. RestType
    BY <1>3, <1>5 DEF RestType, Counts, Untouched, IInv, TypeOK
  <1>7. SoeInv'
    BY <1>1, FindSoe DEF IInv
  <1>8. QED BY <1>4, <1>5, <1>6, <1>7, Together

LEMMA TickInv == ASSUME IInv, Tick PROVE IInv'
  <1>1. /\ tick' = TRUE
        /\ UNCHANGED <<cur, pc, proto, ask, air, rx, soe, recs, udp, jobs, posted, taken,
                       carried, resent, misread, troubles>>
    BY DEF Tick, exchange, readings, history, controls
  <1>2. TurnHeld' /\ BufferInv' /\ BlockInv'
    BY <1>1 DEF IInv, TurnHeld, BufferInv, BlockInv
  <1>3. Kept
    BY <1>1, <1>2 DEF IInv, TypeOK, Kept
  <1>4. RestType /\ ControlOnce'
    BY <1>1, RestUnchanged DEF IInv, TypeOK
  <1>5. SoeInv'
    BY <1>1, SoeUnheard DEF IInv
  <1>6. QED BY <1>3, <1>4, <1>5, Together

LEMMA ReplyInv == ASSUME IInv, NEW r \in Routes, Reply(r) PROVE IInv'
  <1>1. /\ rx' = [order |-> r, q |-> air[r]] /\ air' = [air EXCEPT ![r] = None]
        /\ UNCHANGED <<cur, pc, tick, proto, ask, soe, recs, udp, jobs, posted, taken,
                       carried, resent, misread, troubles>>
    BY DEF Reply, link, readings, history, controls
  <1>2. TurnHeld' /\ BufferInv' /\ BlockInv'
    BY <1>1 DEF IInv, TurnHeld, BufferInv, BlockInv
  <1>3. rx' \in [order : Routes, q : Asks] /\ air' \in [Routes -> Asks]
    BY <1>1, SilenceType DEF IInv, TypeOK
  <1>4. Kept
    BY <1>1, <1>2, <1>3 DEF IInv, TypeOK, Kept
  <1>5. RestType /\ ControlOnce'
    BY <1>1, RestUnchanged DEF IInv, TypeOK
  <1>6. SoeInv'
    BY <1>1, SoeUnheard DEF IInv
  <1>7. QED BY <1>4, <1>5, <1>6, Together

LEMMA PostJobInv ==
  ASSUME IInv, NEW r \in Commanded, NEW kind \in JobKinds, PostJob(r, kind) PROVE IInv'
  <1>1. /\ posted' = posted + 1 /\ jobs' = jobs \cup {<<r, kind>>}
        /\ UNCHANGED <<cur, pc, tick, proto, ask, air, rx, soe, recs, udp, taken, carried,
                       resent, misread, troubles>>
    BY DEF PostJob, link, exchange, readings, controls
  <1>2. TurnHeld' /\ BufferInv' /\ BlockInv'
    BY <1>1 DEF IInv, TurnHeld, BufferInv, BlockInv
  <1>3. Kept
    BY <1>1, <1>2 DEF IInv, TypeOK, Kept
  <1>4. r \in Routes
    BY WirelessAssumption DEF Routes
  <1>5. posted' \in Nat /\ jobs' \subseteq Routes \X JobKinds
    BY <1>1, <1>4 DEF IInv, TypeOK
  <1>6. RestType /\ ControlOnce'
    BY <1>1, <1>5 DEF RestType, IInv, TypeOK, ControlOnce
  <1>7. SoeInv'
    BY <1>1, SoeUnheard DEF IInv
  <1>8. QED BY <1>3, <1>6, <1>7, Together

LEMMA PollQuestion ==
  Question("poll", 0) \in Asks /\ Question("poll", 0).kind = "poll"
  BY QuestionType DEF Kinds

LEMMA ReconnectInv == ASSUME IInv, Reconnect PROVE IInv'
  <1> DEFINE q == Question("poll", 0)
             lost(r) == [soe[r] EXCEPT !.lost = soe[r].lost \cup {ask[r].n}]
  <1>1. /\ ask' = [r \in Routes |-> q] /\ proto' = [r \in Routes |-> Opened(proto[r])]
        /\ soe' = [r \in Routes |-> IF Outstanding(r) THEN lost(r) ELSE soe[r]]
        /\ UNCHANGED <<cur, pc, tick, air, rx, recs, udp, jobs, posted, taken, carried,
                       resent, misread>>
        /\ Trouble
    BY DEF Reconnect, link, controls
  <1>2. q \in Asks /\ q.kind = "poll"
    BY PollQuestion
  <1> HIDE DEF q
  <1>3. \A r \in Routes : proto[r] \in Protos /\ soe[r] \in Soes
    BY DEF IInv, TypeOK
  <1>4. /\ ask' \in [Routes -> Asks] /\ proto' \in [Routes -> Protos]
        /\ \A r \in Routes : /\ ~proto'[r].sending /\ proto'[r].excl = proto[r].excl
                             /\ proto'[r].buf.kind = "poll" /\ ask'[r].kind = "poll"
    BY <1>1, <1>2, <1>3, OpenedType
  <1>5. TurnHeld' /\ BufferInv' /\ BlockInv'
    BY <1>1, <1>4 DEF IInv, TurnHeld, BufferInv, BlockInv
  <1>6. Kept
    BY <1>1, <1>4, <1>5 DEF IInv, TypeOK, Kept
  <1>7. ASSUME NEW r \in Routes
        PROVE  /\ soe'[r] \in Soes
               /\ soe'[r].num = soe[r].num /\ soe'[r].sum = soe[r].sum
               /\ soe'[r].got = soe[r].got /\ soe'[r].ended = soe[r].ended
               /\ soe[r].lost \subseteq soe'[r].lost
               /\ Pending(r) \subseteq Done(soe'[r])
    <2>1. CASE Outstanding(r)
      <3>1. ask[r].n \in Nat
        BY SMT, <2>1, Numbers DEF IInv, BlockInv, Outstanding
      <3>2. Pending(r) \subseteq Named(ask[r].n)
        BY DEF Pending
      <3>3. soe'[r] = [soe[r] EXCEPT !.lost = soe[r].lost \cup {ask[r].n}]
        BY <1>1, <2>1
      <3>4. soe'[r] \in Soes /\ soe'[r].lost = soe[r].lost \cup {ask[r].n}
            /\ soe'[r].num = soe[r].num /\ soe'[r].sum = soe[r].sum
            /\ soe'[r].got = soe[r].got /\ soe'[r].ended = soe[r].ended
        BY <1>3, <3>1, <3>3 DEF Soes
      <3>5. Named(ask[r].n) \subseteq Done(soe'[r])
        BY <3>4, DoneHas
      <3>6. QED BY <3>2, <3>4, <3>5
    <2>2. CASE ~Outstanding(r)
      <3>1. soe'[r] = soe[r]
        BY <1>1, <2>2
      <3>2. proto[r].event \in Events
        BY <1>3, ProtoFields
      <3>3. Pending(r) = {}
        BY <2>2, <3>2 DEF Pending, Outstanding, Unanswered, Events
      <3>4. QED BY <1>3, <3>1, <3>3
    <2>3. QED BY <2>1, <2>2
  <1> HIDE DEF lost
  <1>8. soe' \in [Routes -> Soes]
    <2>1. DOMAIN soe' = Routes /\ soe' = [r \in Routes |-> soe'[r]]
      BY <1>1
    <2>2. QED BY <1>7, <2>1
  <1>9. RestType /\ ControlOnce'
    BY <1>1, <1>8, RestUnchanged DEF IInv, TypeOK
  <1>10. SoeInv'
    BY <1>1, <1>7, SoeGrows DEF IInv
  <1>11. QED BY <1>6, <1>9, <1>10, Together

LEMMA RenewInv == ASSUME IInv, NEW r \in Routes, Renew(r) PROVE IInv'
  <1> DEFINE q == Question("poll", 0)
  <1>1. /\ ask' = [ask EXCEPT ![r] = q] /\ proto' = [proto EXCEPT ![r] = NewProto]
        /\ soe' = [soe EXCEPT ![r] = NewSoe] /\ recs' = [recs EXCEPT ![r] = NewRecs]
        /\ udp' = [udp EXCEPT ![r] = 0]
        /\ UNCHANGED <<cur, pc, tick, air, rx, jobs, posted, taken, carried, resent, misread>>
        /\ Trouble
    BY DEF Renew, link, controls
  <1>2. q \in Asks /\ q.kind = "poll"
    BY PollQuestion
  <1> HIDE DEF q
  <1>3. /\ proto \in [Routes -> Protos] /\ ask \in [Routes -> Asks] /\ soe \in [Routes -> Soes]
        /\ recs \in [Routes -> Recs] /\ udp \in [Routes -> Int]
    BY DEF IInv, TypeOK
  <1>4. NewProto \in Protos /\ ~NewProto.sending /\ ~NewProto.excl /\ NewProto.buf.kind = "poll"
    BY NewProtoType
  <1>5. /\ ask' \in [Routes -> Asks] /\ proto' \in [Routes -> Protos]
        /\ proto'[r] = NewProto /\ ask'[r] = q
        /\ \A s \in Routes \ {r} : proto'[s] = proto[s] /\ ask'[s] = ask[s]
    BY <1>1, <1>2, <1>3, <1>4
  <1>6. TurnHeld' /\ BufferInv' /\ BlockInv'
    BY <1>1, <1>2, <1>4, <1>5 DEF IInv, TurnHeld, BufferInv, BlockInv
  <1>7. Kept
    BY <1>1, <1>5, <1>6 DEF IInv, TypeOK, Kept
  <1>8. soe' \in [Routes -> Soes] /\ recs' \in [Routes -> Recs] /\ udp' \in [Routes -> Int]
    BY <1>1, <1>3, NewReadings
  <1>9. troubles' \in Nat
    BY <1>1, TroubleType DEF IInv
  <1>10. RestType /\ ControlOnce'
    BY <1>1, <1>8, <1>9 DEF RestType, IInv, TypeOK, ControlOnce
  <1>11. SoeInv'
    <2>1. soe'[r] = NewSoe /\ \A s \in Routes \ {r} : soe'[s] = soe[s]
      BY <1>1, <1>3
    <2>2. ~(NewSoe.num >= 0) /\ ~NewSoe.ended
      BY SMT DEF NewSoe
    <2>3. \A s \in Routes \ {r} : Pending(s)' = Pending(s)
      BY <1>5 DEF Pending
    <2>4. QED BY <1>1, <2>1, <2>2, <2>3 DEF SoeInv, IInv
  <1>12. QED BY <1>7, <1>10, <1>11, Together

LEMMA StutterInv == ASSUME IInv, UNCHANGED vars PROVE IInv'
  BY DEF IInv, TypeOK, TurnHeld, BufferInv, BlockInv, ControlOnce, SoeInv, Pending,
     vars, link, exchange, readings, history, controls

LEMMA InitInv == ASSUME Init PROVE IInv
  <1>1. /\ NewProto \in Protos /\ ~NewProto.sending /\ ~NewProto.excl
        /\ NewProto.buf.kind = "poll"
    BY NewProtoType
  <1>2. Question("poll", 0) \in Asks /\ Question("poll", 0).kind = "poll"
    BY PollQuestion
  <1>3. NewSoe \in Soes /\ NewRecs \in Recs /\ NewSoe.num = -1 /\ ~NewSoe.ended
    BY NewReadings DEF NewSoe
  <1>4. 0 \in Routes /\ Silence \in [order : Routes, q : Asks] /\ None \in Asks
    BY SMT, SilenceType, Numbers DEF Routes
  <1>5. TypeOK
    <2>1. cur \in Routes /\ pc \in {"rx", "ask"} /\ tick \in BOOLEAN /\ misread \in BOOLEAN
      BY <1>4 DEF Init
    <2>2. proto \in [Routes -> Protos] /\ ask \in [Routes -> Asks]
      BY <1>1, <1>2 DEF Init
    <2>3. soe \in [Routes -> Soes] /\ recs \in [Routes -> Recs]
      BY <1>3 DEF Init
    <2>4. udp \in [Routes -> Int]
      <3>1. 0 \in Int
        BY SMT
      <3>2. udp = [r \in Routes |-> 0]
        BY DEF Init
      <3>3. QED BY <3>1, <3>2
    <2>5. air \in [Routes -> Asks] /\ rx \in [order : Routes, q : Asks]
      BY <1>4 DEF Init
    <2>6. jobs \subseteq Routes \X JobKinds
      BY DEF Init
    <2>7. posted \in Nat /\ taken \in Nat /\ carried \in Nat /\ resent \in Nat /\ troubles \in Nat
      BY SMT DEF Init
    <2>8. QED BY <2>1, <2>2, <2>3, <2>4, <2>5, <2>6, <2>7 DEF TypeOK
  <1>6. TurnHeld /\ BufferInv /\ BlockInv
    BY <1>1, <1>2 DEF Init, TurnHeld, BufferInv, BlockInv
  <1>7. ControlOnce
    BY SMT DEF Init, ControlOnce
  <1>8. SoeInv
    <2>1. ~(-1 >= 0)
      BY SMT
    <2>2. QED BY <1>3, <2>1 DEF Init, SoeInv
  <1>9. QED BY <1>5, <1>6, <1>7, <1>8 DEF IInv

LEMMA NextInv == ASSUME IInv, [Next]_vars PROVE IInv'
  <1>1. CASE MainTx
    BY <1>1, WaitsInv, RepeatInv, FindInv DEF MainTx
  <1>2. CASE MainRx \/ PassReceive
    BY <1>2, MainRxInv, PassReceiveInv
  <1>3. CASE Tick \/ Reconnect
    BY <1>3, TickInv, ReconnectInv
  <1>4. CASE \E r \in Routes : Reply(r) \/ Renew(r)
    BY <1>4, ReplyInv, RenewInv
  <1>5. CASE \E r \in Commanded, kind \in JobKinds : PostJob(r, kind)
    BY <1>5, PostJobInv
  <1>6. CASE UNCHANGED vars
    BY <1>6, StutterInv
  <1>7. QED BY <1>1, <1>2, <1>3, <1>4, <1>5, <1>6 DEF Next, Run

LEMMA AlwaysInv == Spec => []IInv
  BY InitInv, NextInv, PTL DEF Spec

-----------------------------------------------------------------------------
(* The results.                                                             *)

(* Link, protocols, readings and table hold what the program can hold.      *)
THEOREM WirelessTypeCorrect == Spec => []TypeOK
  BY AlwaysInv, PTL DEF IInv

(* Whatever is answered, missed, repeated or reconnected, one route at a    *)
(* time is on the air and claims the turn, the one whose turn it is         *)
(* (CLink::run, setTimeOut, isExclusive).                                   *)
THEOREM OneRouteOnAir == Spec => []TurnHeld
  BY AlwaysInv, PTL DEF IInv

(* No tick, late turn, bad answer or reconnect sends a control again        *)
(* (checkCurrentCommand, findNextCommand).                                  *)
THEOREM ControlsOnce == Spec => []ControlOnce
  BY AlwaysInv, PTL DEF IInv

(* A reading that has ended has passed over no block: of those its          *)
(* count-down names, each was answered, refused or asked for as often as    *)
(* allowed, unless an answer was misread (getSOEData, resolve_SOEData).     *)
THEOREM NoBlockPassedOver == Spec => []BlocksSettled
  <1>1. ASSUME SoeInv PROVE BlocksSettled
    BY <1>1 DEF SoeInv, BlocksSettled, Done
  <1>2. IInv => BlocksSettled
    BY <1>1 DEF IInv
  <1>3. QED BY <1>2, AlwaysInv, PTL

=============================================================================
