----------------------------- MODULE Questions -----------------------------
(***************************************************************************)
(* Which question a modbus_101 protocol asks next, and what it makes of the *)
(* answer (modbus101/modbus_101.cpp, the build without _Mutil_). The routes *)
(* of one channel reach their devices through one radio receiver: before a  *)
(* route polls, the protocols find each sending device by trying the        *)
(* receiver's frequencies, tell it the frequency of the station and tune    *)
(* the receiver back. Then come the broadcast list, the reading of events   *)
(* (SOE) and records in parts, the operators' commands, and the polls.      *)
(* Turns are Link's, with a SwitchTimeOut no shorter than the answer's: one *)
(* question at a time, whose answer comes within its time-out or never.     *)
(***************************************************************************)
EXTENDS Integers, FiniteSets

CONSTANTS
  RouteNum,      \* routes of the channel, each the main route of its group
  MaxFqcy,       \* the frequencies tried are 1 .. MaxFqcy (32 in the code)
  Goal,          \* the configured frequency of the receiver and its devices
  SdevTries,     \* writes to a device before the next frequency (3)
  Retries,       \* cmdRetryCnt
  PollNum,       \* features 0 .. PollNum - 1 are polled in a cycle
  Timed,         \* those with a timer of their own
  SoeBlock,      \* events asked at a time (8)
  MaxSoe,        \* bound of the model: events in a device
  PartNum,       \* questions for one record (3 + 6 * 5)
  MaxRecords,    \* bound of the model: records in a device
  MaxUdp,        \* bound of the model: rows of the broadcast list
  JobKinds,      \* the commands operators post, of AllJobs
  MaxJobs,       \* bound of the model: commands posted, after a start all paired
  MaxTroubles    \* bound of the model: losses, garbled answers, reconnects

AllJobs == {"ykselect", "yk", "ykcancel", "ytselect", "yt", "constant", "soe",
            "records", "yc", "udp", "editpar", "editudp", "time"}

ASSUME QuestionAssumption ==
  /\ RouteNum \in Nat \ {0} /\ MaxFqcy \in Nat \ {0} /\ Goal \in 1 .. MaxFqcy
  /\ SdevTries \in Nat \ {0} /\ Retries \in Nat
  /\ PollNum \in Nat \ {0} /\ Timed \subseteq 0 .. PollNum - 1
  /\ SoeBlock \in Nat \ {0} /\ MaxSoe \in Nat /\ PartNum \in Nat \ {0}
  /\ MaxRecords \in Nat /\ MaxUdp \in Nat
  /\ JobKinds \subseteq AllJobs /\ MaxJobs \in Nat /\ MaxTroubles \in Nat

VARIABLES
  sdevInit,    \* isInit of each route's sending device, in shared memory
  rdevInit,    \* isInit of the receiver
  misled,      \* history: an operator's command made it so
  tuned,       \* the frequency the receiver is on
  radio,       \* the frequency each device is on
  turn,        \* the route whose turn it is
  ask,         \* per route: the current command, kind and argument
  proto,       \* per route: the protocol's members
  soe,         \* per route: m_nSOENum, m_nSumSOE and history: the blocks, by
               \* the count they were asked at, answered and given up
  recs,        \* per route: m_nRecordsNum, size of m_record_feature
  udp,         \* per route: size of m_vecPara
  jobs,        \* commands waiting in the table: <<route, kind>>
  posted,      \* history: commands posted
  resent,      \* history: a control went on the line without a new command
  troubles     \* history: losses, garbled answers, reconnects

devices == <<sdevInit, rdevInit, misled, tuned, radio>>
exchange == <<turn, ask, proto>>
readings == <<soe, recs, udp>>
history == <<posted, resent, troubles>>
vars == <<devices, exchange, readings, jobs, history>>

Routes == 0 .. RouteNum - 1
Fqcys == 1 .. MaxFqcy
Polls == 0 .. PollNum - 1
Events == {"Succeeded", "Waitting", "TimeOut", "CheckError"}
Kinds == {"poll", "sdev", "rdev", "soecount", "soeblock", "reccount", "recpart",
          "control", "constant", "yc", "udp", "time", "nothing"}

Question(kind, n) == [kind |-> kind, n |-> n]

(* A feature's nextCmdNo; the last one's is found nowhere, so the first     *)
(* feature follows it. Questions built in m_pcmd are followed by feature 0. *)
FollowingFirst(c) == 0
Following(c) == (c + 1) % PollNum

(* open(): the other members keep what they were.                           *)
Opened(p) == [p EXCEPT !.event = "Succeeded", !.retry = 0, !.first = TRUE,
                       !.next = Following(0)]
NewProto == Opened([event |-> "Succeeded", retry |-> 0, first |-> TRUE, next |-> 0,
                    nflag |-> 0, nfqcy |-> 0])
NewSoe == [num |-> -1, sum |-> 0, got |-> {}, lost |-> {}, ended |-> FALSE]
NewRecs == [num |-> -1, left |-> 0]

AllPaired == rdevInit /\ \A r \in Routes : sdevInit[r]

(* The database keeps what earlier runs found: a receiver and devices said  *)
(* to be initialised are on the configured frequency. Commands are posted   *)
(* only in the runs that start so: "editudp" makes these search as well.    *)
Init ==
  /\ sdevInit \in [Routes -> BOOLEAN] /\ rdevInit \in BOOLEAN /\ misled = FALSE
  /\ tuned \in Fqcys /\ radio \in [Routes -> Fqcys]
  /\ \A r \in Routes : sdevInit[r] => radio[r] = Goal
  /\ rdevInit => tuned = Goal
  /\ turn = 0
  /\ ask = [r \in Routes |-> Question("poll", 0)]
  /\ proto = [r \in Routes |-> NewProto]
  /\ soe = [r \in Routes |-> NewSoe]
  /\ recs = [r \in Routes |-> NewRecs]
  /\ udp = [r \in Routes |-> 0]
  /\ jobs = {} /\ resent = FALSE /\ troubles = 0
  /\ posted = IF AllPaired THEN 0 ELSE MaxJobs

NextTurn == turn' = (turn + 1) % RouteNum

----------------------------------------------------------------------------
(* mainTx of the route whose turn it is: checkCurrentCommand repeats the    *)
(* current command, or findNextCommand looks for the next one.              *)

Unanswered(r) == proto[r].event \in {"TimeOut", "CheckError"}

RepeatsNoBlock(r) ==
  /\ Unanswered(r) /\ ask[r].kind \notin {"control", "soeblock"}
  /\ proto[r].retry + 1 < Retries

Repeats(r) ==
  /\ Unanswered(r)
  /\ ask[r].kind # "control"
  /\ proto[r].retry + 1 < Retries

(* A frame without an answer to wait for settles at once.                   *)
Send(r, q, p) ==
  /\ ask' = [ask EXCEPT ![r] = q]
  /\ proto' = [proto EXCEPT ![r] =
       [p EXCEPT !.event = IF q.kind = "udp" THEN "Succeeded" ELSE "Waitting"]]
  /\ IF q.kind = "udp" THEN NextTurn ELSE UNCHANGED turn

Repeat(r) ==
  /\ turn = r /\ Repeats(r)
  /\ Send(r, ask[r], [proto[r] EXCEPT !.retry = @ + 1])
  /\ UNCHANGED <<devices, readings, jobs, history>>

Finds(r) == turn = r /\ proto[r].event # "Waitting" /\ ~Repeats(r)
Found(r) == [proto[r] EXCEPT !.retry = 0]
(* A question built in m_pcmd.                                              *)
Pcmd(r) == [Found(r) EXCEPT !.next = 0]

(* While a device is searched the receiver counts as not initialised.       *)
SearchesQuietly(r) == ~sdevInit[r] /\ UNCHANGED rdevInit
Searches(r) == ~sdevInit[r] /\ rdevInit' = FALSE

(* The device is not initialised: tell it its frequency, and after          *)
(* SdevTries of them try the receiver's next frequency.                     *)
EditSdevFqcy(r) ==
  /\ Finds(r) /\ Searches(r) /\ proto[r].nflag < SdevTries
  /\ Send(r, Question("sdev", 0), [Pcmd(r) EXCEPT !.nflag = @ + 1])
  /\ UNCHANGED <<sdevInit, misled, tuned, radio, readings, jobs, history>>

NextFqcyOnePast(n) == IF n > MaxFqcy THEN 1 ELSE n + 1
NextFqcy(n) == IF n + 1 > MaxFqcy THEN 1 ELSE n + 1

ScanGoalOnly(r) == Goal
ScanFqcy(r) == IF proto[r].nfqcy = 0 THEN Goal ELSE proto[r].nfqcy

ScanRdevFqcy(r) ==
  /\ Finds(r) /\ Searches(r) /\ proto[r].nflag >= SdevTries
  /\ Send(r, Question("rdev", ScanFqcy(r)),
          [Pcmd(r) EXCEPT !.nfqcy = NextFqcy(@)])
  /\ UNCHANGED <<sdevInit, misled, tuned, radio, readings, jobs, history>>

(* Some other device is not initialised: the length is made 0, which        *)
(* makeCommand mends when the current command is a poll.                    *)
AwaitOthers(r) ==
  /\ Finds(r) /\ sdevInit[r] /\ ~rdevInit
  /\ \E s \in Routes : ~sdevInit[s]
  /\ Send(r, IF ask[r].kind \in {"poll", "udp"} THEN ask[r] ELSE Question("nothing", 0),
          Found(r))
  /\ UNCHANGED <<devices, readings, jobs, history>>

EditRdevFqcy(r) ==
  /\ Finds(r) /\ \A s \in Routes : sdevInit[s]
  /\ ~rdevInit
  /\ Send(r, Question("rdev", Goal), Pcmd(r))
  /\ UNCHANGED <<devices, readings, jobs, history>>

Paired(r) == sdevInit[r] /\ rdevInit

SendUdp(r) ==
  /\ Finds(r) /\ Paired(r) /\ udp[r] > 0
  /\ Send(r, Question("udp", 0), Pcmd(r))
  /\ udp' = [udp EXCEPT ![r] = @ - 1]
  /\ UNCHANGED <<devices, soe, recs, jobs, history>>

Least(a, b) == IF a < b THEN a ELSE b

(* The question for a block is asked at a count n of events that are left.  *)
(* It says in its description that it gets the events Named(n), the last of *)
(* those left; but it asks for SoeBlock of them from the address of event   *)
(* n - 1 upward, and of its answer the first Least(n, SoeBlock) are taken.  *)
Named(n) == n - Least(n, SoeBlock) .. n - 1
ReadBy(n) == n - 1 .. n - 2 + Least(n, SoeBlock)

(* getSOEData: how many there are, or the next block; the count goes down   *)
(* when the block is asked.                                                 *)

GetSOEData(r) ==
  IF soe[r].num < 0
  THEN /\ Send(r, Question("soecount", 0), Pcmd(r))
       /\ UNCHANGED soe
  ELSE /\ Send(r, Question("soeblock", soe[r].num), Pcmd(r))
       /\ soe' = [soe EXCEPT ![r].num = @ - Least(@, SoeBlock)]

ReadOnSOE(r) ==
  /\ Finds(r) /\ Paired(r) /\ udp[r] <= 0 /\ soe[r].num > 0
  /\ GetSOEData(r)
  /\ UNCHANGED <<devices, recs, udp, jobs, history>>

(* getRecordsData: the part asked leaves the list at once. With 0 records   *)
(* and an empty list nothing is built: the current command goes out again.  *)
GetRecordsData(r) ==
  \/ /\ recs[r].num < 0
     /\ Send(r, Question("reccount", 0), Pcmd(r))
     /\ UNCHANGED <<recs, resent>>
  \/ /\ recs[r].num >= 0 /\ recs[r].left > 0
     /\ Send(r, Question("recpart", recs[r].left), Pcmd(r))
     /\ recs' = [recs EXCEPT ![r].left = @ - 1,
                             ![r].num = IF recs[r].left = 1 THEN -1 ELSE @]
     /\ UNCHANGED resent
  \/ /\ recs[r].num >= 0 /\ recs[r].left = 0
     /\ Send(r, ask[r], Found(r))
     /\ recs' = [recs EXCEPT ![r].num = -1]
     /\ resent' = (resent \/ ask[r].kind = "control")

ReadOnRecords(r) ==
  /\ Finds(r) /\ Paired(r) /\ udp[r] <= 0 /\ soe[r].num <= 0 /\ recs[r].left > 0
  /\ GetRecordsData(r)
  /\ UNCHANGED <<devices, soe, udp, jobs, posted, troubles>>

----------------------------------------------------------------------------
(* hasAnyManualCommand: one command of the table.                           *)

Free(r) == Finds(r) /\ Paired(r) /\ udp[r] <= 0 /\ soe[r].num <= 0 /\ recs[r].left = 0

Takes(r, kind) ==
  /\ Free(r) /\ ~proto[r].first /\ <<r, kind>> \in jobs
  /\ jobs' = jobs \ {<<r, kind>>}

(* The next feature of the cycle. A timed one is passed over until it is    *)
(* due; when all are timed the search goes round until one is. PassedTo are *)
(* the features between the current one's next and c, c included.           *)
PassedTo(from, c) == {(from + i) % PollNum : i \in 0 .. (c + PollNum - from) % PollNum}

NextPolls(r) ==
  IF proto[r].first THEN {0}
  ELSE {c \in Polls : PassedTo(proto[r].next, c) \ {c} \subseteq Timed}

SendPoll(r) ==
  \E c \in NextPolls(r) :
    Send(r, Question("poll", c), [Found(r) EXCEPT !.first = FALSE, !.next = Following(c)])

(* A control's feature is followed by what would have followed the current  *)
(* one. Without a feature of its own a remote control uses one made for all *)
(* of them; a set-point without one is dropped, with no acknowledgement,    *)
(* and the search goes on to the next feature.                              *)
SendControl(r) == Send(r, Question("control", 0), Found(r))

MakeYkSelect(r) ==
  /\ Takes(r, "ykselect")
  /\ SendControl(r)
  /\ UNCHANGED <<devices, readings, history>>

MakeYkExecute(r) ==
  /\ Takes(r, "yk")
  /\ SendControl(r)
  /\ UNCHANGED <<devices, readings, history>>

MakeSelectParameter(r) ==
  /\ Takes(r, "ytselect")
  /\ SendControl(r) \/ SendPoll(r)
  /\ UNCHANGED <<devices, readings, history>>

MakeSetParameter(r) ==
  /\ Takes(r, "yt")
  /\ SendControl(r) \/ SendPoll(r)
  /\ UNCHANGED <<devices, readings, history>>

(* The receiver's parameters, read or written for an operator; the byte     *)
(* that a later comparison takes for the frequency may be anything.         *)
MakeConstantValue(r) ==
  /\ Takes(r, "constant")
  /\ \E n \in {0, Goal} : Send(r, Question("constant", n), Pcmd(r))
  /\ UNCHANGED <<devices, readings, history>>

CallSOEData(r) ==
  /\ Takes(r, "soe")
  /\ GetSOEData(r)
  /\ UNCHANGED <<devices, recs, udp, history>>

CallRecordsData(r) ==
  /\ Takes(r, "records")
  /\ GetRecordsData(r)
  /\ UNCHANGED <<devices, soe, udp, posted, troubles>>

SendYcCommand(r) ==
  /\ Takes(r, "yc")
  /\ Send(r, Question("yc", 0), Pcmd(r))
  /\ UNCHANGED <<devices, readings, history>>

(* readfile_senddev: the rows of a file, then sendUdp, which builds nothing *)
(* when there are none: the current command goes out again. A list of       *)
(* "negative" size (EditPara) is not filled any more.                       *)
ReadfileSenddev(r) ==
  /\ Takes(r, "udp")
  /\ \E rows \in IF udp[r] = 0 THEN 0 .. MaxUdp ELSE {udp[r]} :
       IF rows > 0
       THEN /\ Send(r, Question("udp", 0), Pcmd(r))
            /\ udp' = [udp EXCEPT ![r] = rows - 1]
            /\ UNCHANGED resent
       ELSE /\ Send(r, ask[r], Found(r))
            /\ resent' = (resent \/ ask[r].kind = "control")
            /\ UNCHANGED udp
  /\ UNCHANGED <<devices, soe, recs, posted, troubles>>

(* editpara writes a frame and leaves the current feature: a poll is built  *)
(* over it, and an answer is understood only by the feature of the same     *)
(* function code. Then it takes a row off the list, which is empty: the     *)
(* vector's size goes below 0.                                              *)
EditPara(r) ==
  /\ Takes(r, "editpar")
  /\ Send(r, IF ask[r].kind \in {"poll", "sdev", "udp"} THEN ask[r] ELSE Question("nothing", 0),
          Found(r))
  /\ udp' = [udp EXCEPT ![r] = @ - 1]
  /\ UNCHANGED <<devices, soe, recs, history>>

(* hasAnyOnTimerCommand, then the next feature of the cycle.                *)
NoCommand(r) == proto[r].first \/ ~ \E kind \in AllJobs : <<r, kind>> \in jobs

SendTime(r) ==
  /\ Takes(r, "time") /\ jobs \cap ({r} \X (AllJobs \ {"time"})) = {}
  /\ Send(r, Question("time", 0), Found(r))
  /\ UNCHANGED <<devices, readings, history>>

Poll(r) ==
  /\ Free(r) /\ NoCommand(r)
  /\ SendPoll(r)
  /\ UNCHANGED <<devices, readings, jobs, history>>

(* A cancelled selection is answered, a device to be initialised anew is    *)
(* marked, and the search goes on to the next feature.                      *)
CancelYk(r) ==
  /\ Takes(r, "ykcancel")
  /\ SendPoll(r)
  /\ UNCHANGED <<devices, readings, history>>

EditUdp(r) ==
  /\ Takes(r, "editudp")
  /\ sdevInit' = [sdevInit EXCEPT ![r] = FALSE]
  /\ \E c \in NextPolls(r) :
       Send(r, Question("poll", c), [Found(r) EXCEPT
         !.first = FALSE, !.next = Following(c), !.nfqcy = 0, !.nflag = 0])
  /\ \E f \in Fqcys : radio' = [radio EXCEPT ![r] = f]
  /\ UNCHANGED <<rdevInit, misled, tuned, readings, history>>

FindNextCommand(r) ==
  \/ EditSdevFqcy(r) \/ ScanRdevFqcy(r) \/ AwaitOthers(r) \/ EditRdevFqcy(r)
  \/ SendUdp(r) \/ ReadOnSOE(r) \/ ReadOnRecords(r)
  \/ MakeYkSelect(r) \/ MakeYkExecute(r) \/ MakeSelectParameter(r) \/ MakeSetParameter(r)
  \/ MakeConstantValue(r) \/ CallSOEData(r) \/ CallRecordsData(r)
  \/ SendYcCommand(r) \/ ReadfileSenddev(r) \/ EditPara(r) \/ SendTime(r)
  \/ CancelYk(r) \/ EditUdp(r) \/ Poll(r)

----------------------------------------------------------------------------
(* The devices. The receiver hears what comes by wire; a device hears what  *)
(* is sent on the frequency it is on, and both do as they are told.         *)

Asked(r) == proto[r].event = "Waitting"

Hears(r) ==
  CASE ask[r].kind \in {"rdev", "constant"} -> TRUE
    [] ask[r].kind = "nothing" -> FALSE
    [] OTHER -> tuned = radio[r]

Obeys(r) ==
  /\ tuned' = IF ask[r].kind = "rdev" THEN ask[r].n ELSE tuned
  /\ radio' = IF ask[r].kind = "sdev" THEN [radio EXCEPT ![r] = Goal] ELSE radio

----------------------------------------------------------------------------
(* mainRx: paraDevProtocol and the resolve_ functions.                      *)

Settle(r, event) ==
  /\ proto' = [proto EXCEPT ![r].event = event]
  /\ UNCHANGED ask /\ NextTurn

(* resolve_SdevFqcy.                                                        *)
ResolveSdev(r) ==
  /\ ask[r].kind = "sdev"
  /\ sdevInit' = [sdevInit EXCEPT ![r] = TRUE]
  /\ proto' = [proto EXCEPT ![r].event = "Succeeded", ![r].nflag = 0]
  /\ UNCHANGED <<rdevInit, misled, readings>>

(* resolve_constvalue: while the receiver is not initialised the answer to  *)
(* any write is taken for the answer to a write of its frequency.           *)
Confirms(r) == ask[r].n = Goal /\ proto[r].nflag = 0

ResolveConstvalue(r) ==
  /\ ask[r].kind \in {"rdev", "constant"}
  /\ IF rdevInit
     THEN proto' = [proto EXCEPT ![r].event = "Succeeded"] /\ UNCHANGED <<rdevInit, misled>>
     ELSE /\ rdevInit' = Confirms(r)
          /\ misled' = (Confirms(r) /\ ask[r].kind = "constant")
          /\ proto' = [proto EXCEPT ![r].event = "Succeeded", ![r].nflag = 0]
  /\ UNCHANGED <<sdevInit, readings>>

(* resolve_SOEData: the number of events, or a block of them; the client is *)
(* told the end with the block that leaves none.                            *)
ResolveSOEData(r) ==
  /\ ask[r].kind \in {"soecount", "soeblock"}
  /\ IF soe[r].num < 0
     THEN \E n \in 0 .. MaxSoe :
            soe' = [soe EXCEPT ![r] = [NewSoe EXCEPT !.num = IF n = 0 THEN -1 ELSE n,
                                                     !.sum = n]]
     ELSE soe' = [soe EXCEPT ![r].got = @ \cup {ask[r].n},
                             ![r].ended = soe[r].num = 0 /\ ask[r].n > 0,
                             ![r].num = IF @ = 0 THEN -1 ELSE @]
  /\ proto' = [proto EXCEPT ![r].event = "Succeeded"]
  /\ UNCHANGED <<sdevInit, rdevInit, misled, recs, udp>>

(* resolve_RecordsData: the list of questions of every record, or a part.   *)
ResolveRecordsData(r) ==
  /\ ask[r].kind \in {"reccount", "recpart"}
  /\ IF ask[r].kind = "reccount"
     THEN \E n \in 0 .. MaxRecords :
            recs' = [recs EXCEPT ![r] = [num |-> n, left |-> n * PartNum]]
     ELSE UNCHANGED recs
  /\ proto' = [proto EXCEPT ![r].event = "Succeeded"]
  /\ UNCHANGED <<sdevInit, rdevInit, misled, soe, udp>>

(* Measured values, results of controls and parameters go to the station.   *)
ResolveValues(r) ==
  /\ ask[r].kind \in {"poll", "control", "yc", "time"}
  /\ proto' = [proto EXCEPT ![r].event = "Succeeded"]
  /\ UNCHANGED <<sdevInit, rdevInit, misled, readings>>

Answer(r) ==
  /\ turn = r /\ Asked(r) /\ Hears(r)
  /\ Obeys(r)
  /\ \/ ResolveSdev(r) \/ ResolveConstvalue(r) \/ ResolveSOEData(r)
     \/ ResolveRecordsData(r) \/ ResolveValues(r)
  /\ NextTurn
  /\ UNCHANGED <<ask, jobs, history>>

(* A block of events that will not be asked again is missing for good.      *)
MissBlock(r, forGood) ==
  soe' = IF ask[r].kind = "soeblock" /\ soe[r].num >= 0 /\ forGood
         THEN [soe EXCEPT ![r].lost = @ \cup {ask[r].n}] ELSE soe

LastTry(r) == proto[r].retry + 1 >= Retries

Trouble == troubles < MaxTroubles /\ troubles' = troubles + 1

(* No device hears the question.                                            *)
TimeOut(r) ==
  /\ turn = r /\ Asked(r)
  /\ IF Hears(r) THEN Trouble ELSE UNCHANGED troubles
  /\ Settle(r, "TimeOut") /\ MissBlock(r, LastTry(r))
  /\ UNCHANGED <<devices, recs, udp, jobs, posted, resent>>

(* The device does as it is told, but its answer is lost, or fails a check. *)
AnswerLost(r) ==
  /\ turn = r /\ Asked(r) /\ Hears(r) /\ Trouble
  /\ Obeys(r)
  /\ \E event \in {"TimeOut", "CheckError"} : Settle(r, event)
  /\ MissBlock(r, LastTry(r))
  /\ UNCHANGED <<sdevInit, rdevInit, misled, recs, udp, jobs, posted, resent>>

(* An exception answer settles the question; a control's is reported.       *)
Refused(r) ==
  /\ turn = r /\ Asked(r) /\ Hears(r) /\ Trouble
  /\ ask[r].kind \notin {"rdev", "constant", "sdev"}
  /\ Settle(r, "Succeeded") /\ MissBlock(r, TRUE)
  /\ UNCHANGED <<devices, recs, udp, jobs, posted, resent>>

----------------------------------------------------------------------------
(* What goes on around the protocols.                                       *)

PostJob(r, kind) ==
  /\ posted < MaxJobs /\ <<r, kind>> \notin jobs
  /\ posted' = posted + 1 /\ jobs' = jobs \cup {<<r, kind>>}
  /\ UNCHANGED <<devices, exchange, readings, resent, troubles>>

Outstanding(r) ==
  ask[r].kind = "soeblock" /\ soe[r].num >= 0 /\ (Asked(r) \/ Repeats(r))

(* The channel drops and returns: every protocol is closed and opened.      *)
Reconnect ==
  /\ Trouble
  /\ ask' = [r \in Routes |-> Question("poll", 0)]
  /\ proto' = [r \in Routes |-> Opened(proto[r])]
  /\ soe' = [r \in Routes |->
       IF Outstanding(r) THEN [soe[r] EXCEPT !.lost = @ \cup {ask[r].n}] ELSE soe[r]]
  /\ UNCHANGED <<devices, turn, recs, udp, jobs, posted, resent>>

(* A route's protocol is destroyed and made anew (delProtocol).             *)
Renew(r) ==
  /\ Trouble
  /\ ask' = [ask EXCEPT ![r] = Question("poll", 0)]
  /\ proto' = [proto EXCEPT ![r] = NewProto]
  /\ soe' = [soe EXCEPT ![r] = NewSoe]
  /\ recs' = [recs EXCEPT ![r] = NewRecs]
  /\ udp' = [udp EXCEPT ![r] = 0]
  /\ UNCHANGED <<devices, turn, jobs, posted, resent>>

Turn(r) == Repeat(r) \/ FindNextCommand(r) \/ Answer(r) \/ TimeOut(r)
             \/ AnswerLost(r) \/ Refused(r)

Next ==
  \/ \E r \in Routes : Turn(r) \/ Renew(r)
  \/ \E r \in Routes, kind \in JobKinds : PostJob(r, kind)
  \/ Reconnect

Spec == Init /\ [][Next]_vars

(* The link runs the routes in turn (Link), and a question is answered or   *)
(* times out.                                                               *)
FairSpec == Spec /\ WF_vars(\E r \in Routes : Turn(r))

----------------------------------------------------------------------------
(* The state is made of what the program can hold.                          *)
TypeOK ==
  /\ sdevInit \in [Routes -> BOOLEAN] /\ rdevInit \in BOOLEAN /\ misled \in BOOLEAN
  /\ tuned \in Fqcys /\ radio \in [Routes -> Fqcys]
  /\ turn \in Routes
  /\ ask \in [Routes -> [kind : Kinds, n : Nat]]
  /\ proto \in [Routes -> [event : Events, retry : Nat, first : BOOLEAN,
                           next : Polls, nflag : 0 .. SdevTries, nfqcy : 0 .. MaxFqcy]]
  /\ soe \in [Routes -> [num : -1 .. MaxSoe, sum : Nat, got : SUBSET Nat,
                         lost : SUBSET Nat, ended : BOOLEAN]]
  /\ recs \in [Routes -> [num : -1 .. MaxRecords, left : Nat]]
  /\ udp \in [Routes -> Int]
  /\ jobs \subseteq Routes \X JobKinds
  /\ posted \in Nat /\ resent \in BOOLEAN /\ troubles \in Nat

(* When the shared flags say that the receiver and all its devices are      *)
(* initialised they are, whichever routes searched, repeated a write after  *)
(* another route had begun to search, lost an answer or were made anew:     *)
(* nobody moved the receiver after the write that was confirmed. Not so     *)
(* when what was confirmed was an operator's command that a route repeated  *)
(* while another searched: its answer says nothing of the frequency.        *)
PairedInTune ==
  AllPaired /\ ~misled => tuned = Goal /\ \A r \in Routes : radio[r] = Goal

(* When a client is told that it has all events, the count-down has gone    *)
(* over each of the places 0 .. sum - 1: every block it named was answered, *)
(* or given up after it was asked in vain. None is passed over by repeats,  *)
(* reconnects and other routes' searches (getSOEData counts down when it    *)
(* asks, and a repeat asks the same block). Which events the blocks read is *)
(* another matter: EventsRead.                                              *)
BlocksSettled ==
  \A r \in Routes : soe[r].ended =>
    0 .. soe[r].sum - 1 \subseteq UNION {Named(n) : n \in soe[r].got \cup soe[r].lost}

(* The promise of the description: the events of the device are among those *)
(* the blocks read. The code does not keep it: a block is read upward from  *)
(* the event that its count-down names last.                                *)
EventsRead ==
  \A r \in Routes : soe[r].ended =>
    0 .. soe[r].sum - 1 \subseteq UNION {ReadBy(n) : n \in soe[r].got \cup soe[r].lost}

(* Routes that search at the same time, each moving the receiver the other  *)
(* uses, all find their devices in the end.                                 *)
PairingCompletes == <>[]AllPaired

(* Every feature without a timer is asked again and again, whatever was     *)
(* searched, read or commanded in between: no state of the readings, lists  *)
(* and flags keeps findNextCommand from the polls for ever.                 *)
EveryFeaturePolled ==
  \A r \in Routes : \A c \in Polls \ Timed :
    []<>(Asked(r) /\ ask[r] = Question("poll", c))

(* A control goes on the line only for a command taken from the table.      *)
ControlNotResent == ~resent
=============================================================================
