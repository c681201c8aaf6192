---------------------------- MODULE WirelessLink ----------------------------
(***************************************************************************)
(* A serial-wireless channel: the link's branches for it (CLink::run,       *)
(* dacsrv/link.cpp) and the copy of modbus_101 written for it               *)
(* (src/modbus_101.cpp). One radio is shared by the routes: a route asks,   *)
(* listens until the pool's tick ("send together, receive together",        *)
(* dacsrv/loadtask.cpp) and gives its turn away, and a route in the middle  *)
(* of a reading may keep the turn (m_isExclusive).                          *)
(* A frame arrives whole, between two runs of the link, and a device        *)
(* answers the last question it heard, as late as it likes or never. What   *)
(* Link has of every kind of channel is left out here: routes that are      *)
(* stopped, disabled, read-only or alone, and features that are not used.   *)
(***************************************************************************)
EXTENDS Integers, FiniteSets

CONSTANTS
  RouteNum,      \* routes of the channel
  Retries,       \* cmdRetryCnt
  PollNum,       \* features 0 .. PollNum - 1 are polled in a cycle
  Timed,         \* those with a timer of their own
  SoeBlock,      \* events asked at a time (8)
  MaxSoe,        \* bound of the model: events in a device
  PartNum,       \* questions for one record (3 + 6 * 5)
  MaxRecords,    \* bound of the model: records in a device
  MaxUdp,        \* bound of the model: rows of the broadcast list
  JobKinds,      \* the commands operators post, of AllJobs
  Commanded,     \* the routes they post them to
  MaxJobs,       \* bound of the model: commands posted
  MaxTroubles,   \* bound of the model: late turns, bad answers, reconnects
  MaxTogether    \* bound of the model: commands and troubles of one behaviour

AllJobs == {"ykselect", "yk", "ykcancel", "ytselect", "yt", "constant", "soe",
            "records", "yc", "harm", "elec", "udp", "editpar", "time"}
Controls == {"ykselect", "yk", "ytselect", "yt"}

ASSUME WirelessAssumption ==
  /\ RouteNum \in Nat /\ RouteNum > 1 /\ Retries \in Nat
  /\ PollNum \in Nat \ {0} /\ Timed \subseteq 0 .. PollNum - 1
  /\ SoeBlock \in Nat \ {0} /\ MaxSoe \in Nat /\ PartNum \in Nat \ {0}
  /\ MaxRecords \in Nat /\ MaxUdp \in Nat
  /\ JobKinds \subseteq AllJobs /\ Commanded \subseteq 0 .. RouteNum - 1
  /\ MaxJobs \in Nat /\ MaxTroubles \in Nat /\ MaxTogether \in Nat

VARIABLES
  cur,         \* curRouteOrder
  pc,          \* the link thread: "rx", or "ask" after the turn was given
  tick,        \* m_bTimeOut of the link
  proto,       \* per route: the protocol's members and its switchFlag
  ask,         \* per route: the current command, kind and argument
  soe,         \* per route: m_nSOENum, m_nSumSOE and history: the blocks, by
               \* the count they were asked at, answered and given up
  recs,        \* per route: m_nRecordsNum, size of m_record_feature
  udp,         \* per route: size of m_vecPara
  air,         \* per route: the question its device may still answer
  rx,          \* the frame in the channel's receive ring
  jobs,        \* commands waiting in the table: <<route, kind>>
  posted,      \* history: commands posted
  taken,       \* history: controls taken from the table
  carried,     \* history: controls put on the air
  resent,      \* history: frames sent again by calls that built none
  misread,     \* history: an answer to a block of events taken for their
               \* number, or the other way round
  troubles     \* history: late turns, bad answers, reconnects

link == <<cur, pc, tick>>
exchange == <<proto, ask, air, rx>>
readings == <<soe, recs, udp>>
controls == <<taken, carried, resent>>
history == <<posted, controls, misread, troubles>>
vars == <<link, exchange, readings, jobs, history>>

Routes == 0 .. RouteNum - 1
Polls == 0 .. PollNum - 1
Events == {"Succeeded", "Waitting", "TimeOut", "CheckError"}
Kinds == {"poll", "soecount", "soeblock", "reccount", "recpart", "control",
          "constant", "yc", "udp", "edit", "time", "none"}

Question(kind, n) == [kind |-> kind, n |-> n]
None == Question("none", 0)
Silence == [order |-> 0, q |-> None]

(* A feature's nextCmdNo; PollNum stands for the last one's, which is found *)
(* nowhere. Questions built in m_pcmd are followed by feature 0.            *)
FollowingFirst(c) == 0
Following(c) == c + 1

(* init() and open(): the other members keep what they were.                *)
Opened(p) == [p EXCEPT !.sending = FALSE, !.switch = TRUE, !.event = "Succeeded",
                       !.retry = 0, !.first = TRUE, !.next = Following(0),
                       !.buf = Question("poll", 0)]
NewProto == Opened([sending |-> FALSE, switch |-> TRUE, event |-> "Succeeded",
                    ok |-> FALSE, out |-> FALSE, excl |-> FALSE, retry |-> 0,
                    first |-> TRUE, next |-> 0, buf |-> None])
NewSoe == [num |-> -1, sum |-> 0, got |-> {}, lost |-> {}, ended |-> FALSE]
NewRecs == [num |-> -1, left |-> 0]

Init ==
  /\ cur = 0 /\ pc = "rx" /\ tick = FALSE
  /\ proto = [r \in Routes |-> NewProto]
  /\ ask = [r \in Routes |-> Question("poll", 0)]
  /\ soe = [r \in Routes |-> NewSoe]
  /\ recs = [r \in Routes |-> NewRecs]
  /\ udp = [r \in Routes |-> 0]
  /\ air = [r \in Routes |-> None] /\ rx = Silence
  /\ jobs = {} /\ posted = 0 /\ taken = 0 /\ carried = 0 /\ resent = 0
  /\ misread = FALSE /\ troubles = 0

Trouble ==
  /\ troubles < MaxTroubles /\ posted + troubles < MaxTogether
  /\ troubles' = troubles + 1

----------------------------------------------------------------------------
(* The sending half of CLink::run: the turn ends when the route has settled *)
(* (switchFlag) or switchTimeOut has passed; a protocol may keep it. That a *)
(* turn is late is a trouble: the ticks come within switchTimeOut, unless   *)
(* another thread of the pool took one for its own links.                   *)

(* setTimeOut() of the protocol, which is repotrAckRecv.                    *)
AckRecv(p) == [p EXCEPT !.sending = FALSE, !.switch = TRUE]

SuccessorAlways(p) == (cur + 1) % RouteNum
Successor(p) == IF p.excl THEN cur ELSE (cur + 1) % RouteNum

GiveTurn(p) ==
  /\ proto' = [proto EXCEPT ![cur] = AckRecv(p)]
  /\ cur' = Successor(p) /\ pc' = "ask"

(* p is the current protocol after its mainRx.                              *)
GoOn(p) ==
  \/ p.switch /\ GiveTurn(p)
  \/ ~p.switch /\ proto' = [proto EXCEPT ![cur] = p] /\ UNCHANGED <<cur, pc>>

GoOnLate(p) == ~p.switch /\ GiveTurn(p)

----------------------------------------------------------------------------
(* The receiving half: the tick is handed to the current protocol, and      *)
(* mainRx empties the ring before it looks at the time.                     *)

Hearing == pc = "rx" /\ ~proto[cur].switch

(* A reading that has nothing left on one of its lists ends its claim.      *)
KeptForGood(r) == FALSE
Finished(r) == soe[r].num <= 0 \/ recs[r].left = 0

Ticked(r) == [proto[r] EXCEPT !.out = @ \/ tick]
Told(r) == [Ticked(r) EXCEPT !.excl = @ /\ ~(Ticked(r).out /\ Finished(r))]

(* The tick: a question without a good answer has timed out.                *)
SettleAtTick ==
  LET p == Told(cur) IN
  /\ Hearing /\ p.out /\ ~p.excl
  /\ GoOn(AckRecv([p EXCEPT !.event = IF p.ok THEN @ ELSE "TimeOut", !.out = FALSE]))
  /\ tick' = FALSE /\ rx' = Silence
  /\ UNCHANGED <<ask, air, readings, jobs, history>>

(* An exclusive route waits for its own answer timer.                       *)
SettleByTimer ==
  LET p == Told(cur) IN
  /\ Hearing /\ p.excl /\ p.event = "Waitting"
  /\ GoOn(AckRecv([p EXCEPT !.event = "TimeOut",
                            !.excl = soe[cur].num # 0 /\ recs[cur].left > 0]))
  /\ soe' = IF soe[cur].num = 0 THEN [soe EXCEPT ![cur].num = -1] ELSE soe
  /\ tick' = FALSE /\ rx' = Silence
  /\ UNCHANGED <<ask, air, recs, udp, jobs, history>>

(* Still listening: what mainRx does with a frame starts here.              *)
Listens == Hearing /\ ~(Told(cur).out /\ ~Told(cur).excl) /\ tick' = FALSE

HearNothing ==
  /\ Listens /\ rx = Silence
  /\ \/ GoOn(Told(cur)) /\ UNCHANGED troubles
     \/ GoOnLate(Told(cur)) /\ Trouble
  /\ UNCHANGED <<ask, air, rx, readings, jobs, posted, controls, misread>>

(* The current command is asked about the answer, though it may have timed  *)
(* out before: a good answer counts only while the route is sending.        *)
Heard == Listens /\ rx # Silence /\ rx' = Silence
Succeeds == GoOn([Told(cur) EXCEPT !.event = "Succeeded", !.ok = @ \/ Told(cur).sending])

(* findHeadAndAdjustMsg, or a wrong function code or length.                *)
Mismatches(a, c) == a # c

DropFrame ==
  /\ Heard /\ (rx.order # cur \/ Mismatches(rx.q, ask[cur]))
  /\ GoOn(Told(cur))
  /\ UNCHANGED <<ask, air, readings, jobs, history>>

FailCheck ==
  /\ Heard /\ rx.order = cur /\ Trouble
  /\ GoOn([Told(cur) EXCEPT !.event = "CheckError"])
  /\ UNCHANGED <<ask, air, readings, jobs, posted, controls, misread>>

(* An exception answer; a control's is reported.                            *)
Refused ==
  /\ Heard /\ rx.order = cur /\ rx.q = ask[cur] /\ Trouble
  /\ Succeeds
  /\ soe' = IF ask[cur].kind = "soeblock"
            THEN [soe EXCEPT ![cur].lost = @ \cup {ask[cur].n}] ELSE soe
  /\ UNCHANGED <<ask, air, recs, udp, jobs, posted, controls, misread>>

(* Only the function code and the length tell answers apart.                *)
ReadKinds == {"poll", "soecount", "soeblock", "reccount", "recpart", "yc"}
MayPass(a, c) ==
  \/ a.kind = c.kind
  \/ {a.kind, c.kind} = {"soecount", "reccount"}
  \/ a.kind \in ReadKinds /\ c.kind = "recpart"
  \/ a.kind = "edit" /\ c.kind = "control"

Passes == Heard /\ rx.order = cur /\ MayPass(rx.q, ask[cur]) /\ Succeeds

(* resolve_SOEData: with a negative count the answer is the number of       *)
(* events, else it is the block of the current command; the client is told  *)
(* the end with the block that leaves none.                                 *)
ResolveSOEData ==
  /\ Passes /\ ask[cur].kind \in {"soecount", "soeblock"}
  /\ IF soe[cur].num < 0
     THEN \E n \in 0 .. MaxSoe :
            soe' = [soe EXCEPT ![cur] =
              [NewSoe EXCEPT !.num = IF n = 0 THEN -1 ELSE n, !.sum = n]]
     ELSE soe' = [soe EXCEPT ![cur] =
            [soe[cur] EXCEPT
               !.got = IF ask[cur].kind = "soeblock" THEN @ \cup {ask[cur].n} ELSE @,
               !.ended = soe[cur].num = 0 /\ ask[cur].n > 0,
               !.num = IF @ = 0 THEN -1 ELSE @]]
  /\ misread' = (misread \/ (soe[cur].num < 0) # (ask[cur].kind = "soecount"))
  /\ UNCHANGED <<ask, air, recs, udp, jobs, posted, controls, troubles>>

(* resolve_RecordsData: the list of questions of every record, or a part.   *)
ResolveRecordsData ==
  /\ Passes /\ ask[cur].kind \in {"reccount", "recpart"}
  /\ IF ask[cur].kind = "reccount"
     THEN \E n \in 0 .. MaxRecords :
            recs' = [recs EXCEPT ![cur] = [num |-> n, left |-> n * PartNum]]
     ELSE UNCHANGED recs
  /\ UNCHANGED <<ask, air, soe, udp, jobs, history>>

(* What the other answers carry is stored in the station's tables, and the  *)
(* result of a command goes to the table of acknowledgements; the exchange  *)
(* goes on as after any good answer.                                        *)
Resolves(kind) ==
  /\ Passes /\ ask[cur].kind = kind
  /\ UNCHANGED <<ask, air, readings, jobs, history>>

ResolveAnalog == Resolves("poll")
ResolveControl == Resolves("control")
ResolveConstvalue == Resolves("constant")
ResolveYc == Resolves("yc")
ResolveTime == Resolves("time")

MainRx ==
  \/ SettleAtTick \/ SettleByTimer \/ HearNothing \/ DropFrame \/ FailCheck
  \/ Refused \/ ResolveSOEData \/ ResolveRecordsData
  \/ ResolveAnalog \/ ResolveControl \/ ResolveConstvalue \/ ResolveYc \/ ResolveTime

(* A route that has settled hears no more; after a reconnect it has not     *)
(* asked yet.                                                               *)
PassReceive ==
  /\ pc = "rx" /\ proto[cur].switch
  /\ GoOn(proto[cur])
  /\ UNCHANGED <<tick, ask, air, rx, readings, jobs, history>>

----------------------------------------------------------------------------
(* mainTx of the route that has the turn, after which its switchFlag is     *)
(* lowered: checkCurrentCommand repeats the current command, or             *)
(* findNextCommand looks for the next one.                                  *)

Unanswered(r) == proto[r].event \in {"TimeOut", "CheckError"}
LastTry(r) == proto[r].retry + 1 >= Retries

RepeatsControl(r) == Unanswered(r) /\ ~LastTry(r)
RepeatsNoBlock(r) == Unanswered(r) /\ ask[r].kind \notin {"control", "soeblock"} /\ ~LastTry(r)
Repeats(r) == Unanswered(r) /\ ask[r].kind # "control" /\ ~LastTry(r)

(* p goes on to ask q with a frame, which has an answer unless q is a row   *)
(* of the broadcast list.                                                   *)
Send(r, q, frame, p) ==
  /\ ask' = [ask EXCEPT ![r] = q]
  /\ proto' = [proto EXCEPT ![r] = [p EXCEPT
       !.sending = q.kind # "udp", !.switch = FALSE, !.buf = frame,
       !.event = IF q.kind = "udp" THEN "Succeeded" ELSE "Waitting",
       !.ok = IF q.kind = "udp" THEN @ ELSE FALSE]]
  /\ air' = IF q.kind = "udp" THEN air ELSE [air EXCEPT ![r] = frame]
  /\ carried' = IF frame.kind = "control" THEN carried + 1 ELSE carried
  /\ pc' = "rx" /\ UNCHANGED <<cur, tick, rx>>

(* makeCommand builds polls anew, and sends other commands as they are.     *)
Built(r) == IF ask[r].kind = "poll" THEN ask[r] ELSE proto[r].buf

Waits(r) ==
  /\ pc = "ask" /\ cur = r /\ proto[r].event = "Waitting"
  /\ proto' = [proto EXCEPT ![r].switch = FALSE]
  /\ pc' = "rx"
  /\ UNCHANGED <<cur, tick, ask, air, rx, readings, jobs, history>>

Repeat(r) ==
  /\ pc = "ask" /\ cur = r /\ Repeats(r)
  /\ Send(r, ask[r], Built(r), [proto[r] EXCEPT !.retry = @ + 1])
  /\ UNCHANGED <<readings, jobs, posted, taken, resent, misread, troubles>>

(* A block of events that is given up is missing for good.                  *)
Finds(r) ==
  /\ pc = "ask" /\ cur = r /\ proto[r].event # "Waitting" /\ ~Repeats(r)

Given(r) ==
  IF ask[r].kind = "soeblock" /\ Unanswered(r) /\ LastTry(r)
  THEN [soe EXCEPT ![r].lost = @ \cup {ask[r].n}] ELSE soe

Found(r) == [proto[r] EXCEPT !.retry = 0]
(* A question built in m_pcmd.                                              *)
Pcmd(r) == [Found(r) EXCEPT !.next = 0]

Least(a, b) == IF a < b THEN a ELSE b

(* The question for a block is asked at a count n of events that are left.  *)
(* It says in its description that it gets the events Named(n), the last of *)
(* those left; but it asks for SoeBlock of them from the address of event   *)
(* n - 1 upward, and of its answer the first Least(n, SoeBlock) are taken.  *)
Named(n) == n - Least(n, SoeBlock) .. n - 1
ReadBy(n) == n - 1 .. n - 2 + Least(n, SoeBlock)

(* getSOEData: how many there are, or the next block; the count goes down   *)
(* when the block is asked.                                                 *)
GetSOEData(r, p) ==
  IF soe[r].num < 0
  THEN /\ Send(r, Question("soecount", 0), Question("soecount", 0), p)
       /\ soe' = Given(r)
  ELSE LET q == Question("soeblock", soe[r].num) IN
       /\ Send(r, q, q, p)
       /\ soe' = [Given(r) EXCEPT ![r].num = @ - Least(@, SoeBlock)]

ReadOnSOE(r) ==
  /\ Finds(r) /\ soe[r].num > 0
  /\ GetSOEData(r, Pcmd(r))
  /\ UNCHANGED <<recs, udp, jobs, posted, taken, resent, misread, troubles>>

(* A call that builds nothing, and says that it did.                        *)
SendAgain(r, p) ==
  /\ Send(r, ask[r], Built(r), p)
  /\ resent' = resent + 1

(* getRecordsData: the part asked leaves the list at once.                  *)
GetRecordsData(r, p) ==
  \/ /\ recs[r].num < 0
     /\ Send(r, Question("reccount", 0), Question("reccount", 0), [p EXCEPT !.next = 0])
     /\ UNCHANGED <<recs, resent>>
  \/ /\ recs[r].num >= 0 /\ recs[r].left > 0
     /\ LET q == Question("recpart", recs[r].left) IN Send(r, q, q, [p EXCEPT !.next = 0])
     /\ recs' = [recs EXCEPT ![r].left = @ - 1,
                             ![r].num = IF recs[r].left = 1 THEN -1 ELSE @]
     /\ UNCHANGED resent
  \/ /\ recs[r].num >= 0 /\ recs[r].left = 0
     /\ SendAgain(r, p)
     /\ recs' = [recs EXCEPT ![r].num = -1]

ReadOnRecords(r) ==
  /\ Finds(r) /\ soe[r].num <= 0 /\ recs[r].left > 0
  /\ GetRecordsData(r, Found(r))
  /\ soe' = Given(r)
  /\ UNCHANGED <<udp, jobs, posted, taken, misread, troubles>>

SendUdp(r) ==
  /\ Finds(r) /\ soe[r].num <= 0 /\ recs[r].left = 0 /\ udp[r] > 0
  /\ Send(r, Question("udp", 0), Question("udp", 0), Pcmd(r))
  /\ udp' = [udp EXCEPT ![r] = @ - 1] /\ soe' = Given(r)
  /\ UNCHANGED <<recs, jobs, posted, taken, resent, misread, troubles>>

(* hasAnyManualCommand: one command of the table.                           *)
Free(r) == Finds(r) /\ soe[r].num <= 0 /\ recs[r].left = 0 /\ udp[r] <= 0

Takes(r, kind) ==
  /\ Free(r) /\ ~proto[r].first /\ <<r, kind>> \in jobs
  /\ jobs' = jobs \ {<<r, kind>>}
  /\ UNCHANGED <<posted, misread, troubles>>

(* The next feature of the cycle: a timed one is passed over until it is    *)
(* due, and the first one follows where no feature is found.                *)
NextPolls(p) ==
  IF p.first \/ p.next = PollNum THEN {0}
  ELSE {c \in p.next .. PollNum - 1 : p.next .. c - 1 \subseteq Timed}
         \cup (IF p.next .. PollNum - 1 \subseteq Timed THEN {0} ELSE {})

SendPoll(r, p) ==
  \E c \in NextPolls(p) :
    Send(r, Question("poll", c), Question("poll", c),
         [p EXCEPT !.first = FALSE, !.next = Following(c)])

(* A control is followed by what would have followed the current command.   *)
SendControl(r) == Send(r, Question("control", 0), Question("control", 0), Found(r))

MakeYkSelect(r) ==
  /\ Takes(r, "ykselect") /\ SendControl(r)
  /\ taken' = taken + 1 /\ soe' = Given(r)
  /\ UNCHANGED <<recs, udp, resent>>

MakeYkExecute(r) ==
  /\ Takes(r, "yk") /\ SendControl(r)
  /\ taken' = taken + 1 /\ soe' = Given(r)
  /\ UNCHANGED <<recs, udp, resent>>

(* A set-point without a feature is dropped, with no acknowledgement.       *)
MakeSelectParameter(r) ==
  /\ Takes(r, "ytselect") /\ (SendControl(r) \/ SendPoll(r, Found(r)))
  /\ taken' = taken + 1 /\ soe' = Given(r)
  /\ UNCHANGED <<recs, udp, resent>>

MakeSetParameter(r) ==
  /\ Takes(r, "yt") /\ (SendControl(r) \/ SendPoll(r, Found(r)))
  /\ taken' = taken + 1 /\ soe' = Given(r)
  /\ UNCHANGED <<recs, udp, resent>>

MakeConstantValue(r) ==
  /\ Takes(r, "constant")
  /\ Send(r, Question("constant", 0), Question("constant", 0), Pcmd(r))
  /\ soe' = Given(r)
  /\ UNCHANGED <<recs, udp, taken, resent>>

CallSOEData(r) ==
  /\ Takes(r, "soe")
  /\ GetSOEData(r, [Pcmd(r) EXCEPT !.excl = TRUE])
  /\ UNCHANGED <<recs, udp, taken, resent>>

CallRecordsData(r) ==
  /\ Takes(r, "records")
  /\ GetRecordsData(r, [Found(r) EXCEPT !.excl = TRUE])
  /\ soe' = Given(r)
  /\ UNCHANGED <<udp, taken>>

(* sendYcCommand: a feature of the table that is not in the cycle, followed *)
(* by feature 0. The one of harmonics claims the turn, whether it is in the *)
(* table or not.                                                            *)
SendYcCommand(r) ==
  /\ \E kind \in {"yc", "harm"} :
       LET p == [Found(r) EXCEPT !.excl = @ \/ kind = "harm"] IN
       /\ Takes(r, kind)
       /\ \/ Send(r, Question("yc", 0), Question("yc", 0), [p EXCEPT !.next = 0])
          \/ SendPoll(r, p)
  /\ soe' = Given(r)
  /\ UNCHANGED <<recs, udp, taken, resent>>

(* sendUdp reads the list from a file: there may be none, or no row in it;  *)
(* a list of "negative" size (EditPara) is not filled any more.             *)
CallUdp(r) ==
  /\ Takes(r, "udp")
  /\ \/ /\ udp[r] = 0 /\ SendPoll(r, Found(r))
        /\ UNCHANGED <<udp, resent>>
     \/ \E rows \in IF udp[r] = 0 THEN 1 .. MaxUdp ELSE {} :
          /\ Send(r, Question("udp", 0), Question("udp", 0), Pcmd(r))
          /\ udp' = [udp EXCEPT ![r] = rows - 1]
          /\ UNCHANGED resent
     \/ SendAgain(r, Found(r)) /\ UNCHANGED udp
  /\ soe' = Given(r)
  /\ UNCHANGED <<recs, taken>>

(* editpara writes a frame and leaves the current feature: a poll is built  *)
(* over it. Then it takes a row off the list, which is empty.               *)
EditPara(r) ==
  /\ Takes(r, "editpar")
  /\ Send(r, ask[r], IF ask[r].kind = "poll" THEN ask[r] ELSE Question("edit", 0), Found(r))
  /\ udp' = [udp EXCEPT ![r] = @ - 1] /\ soe' = Given(r)
  /\ UNCHANGED <<recs, taken, resent>>

(* hasAnyOnTimerCommand; without a feature for it the polls go on.          *)
SendTime(r) ==
  /\ Takes(r, "time") /\ jobs \cap ({r} \X (AllJobs \ {"time"})) = {}
  /\ \/ Send(r, Question("time", 0), Question("time", 0), Found(r))
     \/ SendPoll(r, Found(r))
  /\ soe' = Given(r)
  /\ UNCHANGED <<recs, udp, taken, resent>>

(* A cancelled selection is answered, a call of energies does nothing.      *)
TakeQuietly(r) ==
  /\ Takes(r, "ykcancel") \/ Takes(r, "elec")
  /\ SendPoll(r, Found(r)) /\ soe' = Given(r)
  /\ UNCHANGED <<recs, udp, taken, resent>>

NoCommand(r) == proto[r].first \/ ~ \E kind \in AllJobs : <<r, kind>> \in jobs

Poll(r) ==
  /\ Free(r) /\ NoCommand(r)
  /\ SendPoll(r, Found(r)) /\ soe' = Given(r)
  /\ UNCHANGED <<recs, udp, jobs, posted, taken, resent, misread, troubles>>

FindNextCommand(r) ==
  \/ ReadOnSOE(r) \/ ReadOnRecords(r) \/ SendUdp(r)
  \/ MakeYkSelect(r) \/ MakeYkExecute(r) \/ MakeSelectParameter(r) \/ MakeSetParameter(r)
  \/ MakeConstantValue(r) \/ CallSOEData(r) \/ CallRecordsData(r) \/ SendYcCommand(r)
  \/ CallUdp(r) \/ EditPara(r) \/ SendTime(r) \/ TakeQuietly(r) \/ Poll(r)

MainTx == \E r \in Routes : Waits(r) \/ Repeat(r) \/ FindNextCommand(r)

----------------------------------------------------------------------------
(* What goes on around the link thread.                                     *)

(* The load task's timer, through the pool's flag.                          *)
Tick ==
  /\ ~tick /\ tick' = TRUE
  /\ UNCHANGED <<cur, pc, exchange, readings, jobs, history>>

Reply(r) ==
  /\ pc = "rx" /\ rx = Silence /\ air[r] # None
  /\ rx' = [order |-> r, q |-> air[r]] /\ air' = [air EXCEPT ![r] = None]
  /\ UNCHANGED <<link, proto, ask, readings, jobs, history>>

PostJob(r, kind) ==
  /\ posted < MaxJobs /\ posted + troubles < MaxTogether /\ <<r, kind>> \notin jobs
  /\ posted' = posted + 1 /\ jobs' = jobs \cup {<<r, kind>>}
  /\ UNCHANGED <<link, exchange, readings, controls, misread, troubles>>

Outstanding(r) ==
  ask[r].kind = "soeblock" /\ (proto[r].event = "Waitting" \/ Unanswered(r))

(* The channel drops and returns: every protocol is closed and opened.      *)
Reconnect ==
  /\ pc = "rx" /\ Trouble
  /\ ask' = [r \in Routes |-> Question("poll", 0)]
  /\ proto' = [r \in Routes |-> Opened(proto[r])]
  /\ soe' = [r \in Routes |->
       IF Outstanding(r) THEN [soe[r] EXCEPT !.lost = @ \cup {ask[r].n}] ELSE soe[r]]
  /\ UNCHANGED <<link, air, rx, recs, udp, jobs, posted, controls, misread>>

(* A route's protocol is destroyed and made anew (delProtocol).             *)
Renew(r) ==
  /\ pc = "rx" /\ Trouble
  /\ ask' = [ask EXCEPT ![r] = Question("poll", 0)]
  /\ proto' = [proto EXCEPT ![r] = NewProto]
  /\ soe' = [soe EXCEPT ![r] = NewSoe]
  /\ recs' = [recs EXCEPT ![r] = NewRecs]
  /\ udp' = [udp EXCEPT ![r] = 0]
  /\ UNCHANGED <<link, air, rx, jobs, posted, controls, misread>>

Run == MainRx \/ PassReceive \/ MainTx

Next ==
  \/ Run \/ Tick \/ Reconnect
  \/ \E r \in Routes : Reply(r) \/ Renew(r)
  \/ \E r \in Commanded, kind \in JobKinds : PostJob(r, kind)

Spec == Init /\ [][Next]_vars

(* The pool runs the link again and again (LinkTaskPool) and its tick goes  *)
(* on; devices owe no answer.                                               *)
FairSpec == Spec /\ WF_vars(Run) /\ WF_vars(Tick)

----------------------------------------------------------------------------
(* The state is made of what the program can hold.                          *)
Asks == [kind : Kinds, n : Nat]
Protos == [sending : BOOLEAN, switch : BOOLEAN, event : Events, ok : BOOLEAN,
           out : BOOLEAN, excl : BOOLEAN, retry : Nat, first : BOOLEAN,
           next : 0 .. PollNum, buf : Asks]
Soes == [num : -1 .. MaxSoe, sum : 0 .. MaxSoe, got : SUBSET Nat,
         lost : SUBSET Nat, ended : BOOLEAN]
Recs == [num : -1 .. MaxRecords, left : Nat]

TypeOK ==
  /\ cur \in Routes /\ pc \in {"rx", "ask"} /\ tick \in BOOLEAN
  /\ proto \in [Routes -> Protos] /\ ask \in [Routes -> Asks]
  /\ soe \in [Routes -> Soes] /\ recs \in [Routes -> Recs] /\ udp \in [Routes -> Int]
  /\ air \in [Routes -> Asks] /\ rx \in [order : Routes, q : Asks]
  /\ jobs \subseteq Routes \X JobKinds
  /\ posted \in Nat /\ taken \in Nat /\ carried \in Nat /\ resent \in Nat
  /\ misread \in BOOLEAN /\ troubles \in Nat

(* One route at a time is on the air, and it is the one that has the turn;  *)
(* a claim to the turn is held by nobody else either (setTimeOut before the *)
(* turn moves, isExclusive).                                                *)
TurnHeld == \A r \in Routes : proto[r].sending \/ proto[r].excl => r = cur

(* A control goes on the air once for each taken from the table, and once   *)
(* more for each call that built nothing and sent what was in the buffer:   *)
(* no tick, late turn or bad answer repeats it (checkCurrentCommand).       *)
ControlOnce == carried <= taken + resent

(* When a client is told that it has all events, the count-down has gone    *)
(* over each of the places 0 .. sum - 1: every block it named was answered, *)
(* or given up after it was asked as often as allowed, unless an answer was *)
(* taken for something else. None is passed over by ticks, late turns,      *)
(* repeats and reconnects. Which events the blocks read is another matter:  *)
(* EventsRead.                                                              *)
BlocksSettled ==
  ~misread => \A r \in Routes : soe[r].ended =>
    0 .. soe[r].sum - 1 \subseteq UNION {Named(n) : n \in soe[r].got \cup soe[r].lost}

(* The promise of the description: the events of the device are among those *)
(* the blocks read. The code does not keep it: a block is read upward from  *)
(* the event that its count-down names last.                                *)
EventsRead ==
  \A r \in Routes : soe[r].ended =>
    0 .. soe[r].sum - 1 \subseteq UNION {ReadBy(n) : n \in soe[r].got \cup soe[r].lost}

(* Every feature without a timer is asked again and again on every route,   *)
(* though devices may never answer, ticks are all that settles a question,  *)
(* and a route may claim the turn for a reading that never ends             *)
(* (m_isExclusive is given up).                                             *)
EveryFeaturePolled ==
  \A r \in Routes : \A c \in Polls \ Timed :
    []<>(proto[r].event = "Waitting" /\ ask[r] = Question("poll", c))

(* An answer to a question for a block of events is not taken for their     *)
(* number, nor the other way round ("the command timed out: leave at once   *)
(* and go on polling").                                                     *)
SoeNotMisread == ~misread
=============================================================================
