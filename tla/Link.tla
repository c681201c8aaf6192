-------------------------------- MODULE Link --------------------------------
(***************************************************************************)
(* One channel's link (CLink, dacsrv/link.cpp): the protocols of the routes *)
(* that share the channel take turns, each turn one question of the         *)
(* modbus_101 protocol (modbus101/modbus_101.cpp, the build without         *)
(* _Mutil_, on a channel that is neither virtual nor serial-wireless).      *)
(* A link thread runs Check, Receive, Decide and Switch or Alone; between   *)
(* them the channel goes up and down, devices answer late, never or         *)
(* garbled, operators stop, disable and restart routes, and the loader      *)
(* rebuilds the route table. A frame arrives whole, and a function code     *)
(* belongs to one command.                                                  *)
(***************************************************************************)
EXTENDS Naturals, Sequences, FiniteSets, SequencesExt

CONSTANTS
  RouteNum,        \* rows of the route table for this channel
  Unloadable,      \* orders whose protocol library cannot be loaded
  Listening,       \* orders whose route is read-only (isReadOnly)
  Polls,           \* the commands of the feature table that are polled
  First,           \* the first of them
  Errands,         \* what goes before controls: searches, lists, readings
  Control,         \* the command an operator asks for (a YK)
  Unused,          \* commands with isUsed = 0
  Unanswered,      \* commands with isAck = 0
  Retries,         \* cmdRetryCnt
  RTimeOut,        \* cmdTimeout, in ticks
  SwitchTimeOut,   \* switchTimeOut, in ticks
  ScanDue,         \* what the scan interval timer may say: a set of Booleans
  RecvSize,        \* PMC_RECV_BUFFER_SIZE, in frames
  MaxControls,     \* bound of the model: controls posted
  MaxTroubles,     \* bound of the model: stops, resets, losses, table changes
  TableChanges     \* whether routes are disabled and the table is reloaded

ASSUME RouteAssumption ==
  /\ RouteNum \in Nat \ {0} /\ RecvSize \in Nat \ {0}
  /\ RTimeOut \in Nat /\ SwitchTimeOut \in Nat
  /\ ScanDue \subseteq BOOLEAN /\ ScanDue # {}
  /\ First \in Polls /\ Control \notin Polls
  /\ Errands \cap (Polls \cup {Control}) = {}
  /\ TableChanges \in BOOLEAN

VARIABLES
  up,          \* the channel's state is CHANNEL_STATE_UP
  isOpen,      \* m_isOpen of the link
  reset,       \* CHANNEL_TASK_USER in the channel's reset word
  routeNum,    \* rows of the table the loader has filled in so far
  valid,       \* para.route[].valid
  delProtocol, manStop, switchFlag,   \* per route, in shared memory
  cur,         \* curRouteOrder
  elapsed,     \* ticks since m_curRouteBegin
  pc,          \* the link thread: "idle", "rx", "tx", "switch" or "crashed"
  proto,       \* the protocol object of each route
  rx,          \* frames in the channel's receive ring
  line,        \* questions some device may still answer
  wanted,      \* routes for which a control waits in the command table
  posted,      \* history: controls posted
  carried,     \* history: controls put on the line
  troubles     \* history: stops, resets, losses of the channel, table changes

flags == <<delProtocol, manStop, switchFlag>>
table == <<reset, routeNum, valid, troubles>>
turn == <<cur, elapsed>>
data == <<proto, rx, line>>
control == <<wanted, posted, carried>>
vars == <<up, isOpen, table, flags, turn, pc, data, control>>

Orders == 0 .. RouteNum - 1
Commands == Polls \cup Errands \cup {Control}
Frames == [order : Orders, cmd : Commands]
Events == {"ready", "Waitting", "TimeOut", "CheckError"}

Closed == [open |-> FALSE, sending |-> FALSE, event |-> "ready", cmd |-> First,
           retry |-> 0, first |-> TRUE, timer |-> 0, msg |-> <<>>]
Opened == [Closed EXCEPT !.open = TRUE]

Init ==
  /\ up = FALSE /\ isOpen = FALSE /\ reset = FALSE
  /\ routeNum = RouteNum /\ valid = [r \in Orders |-> TRUE]
  /\ delProtocol = [r \in Orders |-> FALSE]
  /\ manStop = [r \in Orders |-> FALSE]
  /\ switchFlag = [r \in Orders |-> FALSE]
  /\ cur = 0 /\ elapsed = 0 /\ pc = "idle"
  /\ proto = [r \in Orders |-> Closed]
  /\ rx = <<>> /\ line = {}
  /\ wanted = {} /\ posted = 0 /\ carried = 0 /\ troubles = 0

(* m_commInf.route(routes[r]) and routeInfo(routes[r]) are not NULL.        *)
Known(r) == r < routeNum /\ valid[r]
LateByOne == elapsed > SwitchTimeOut + 1
Late == elapsed > SwitchTimeOut

----------------------------------------------------------------------------
(* CLink::open and CLink::check.                                            *)

OpenLink ==
  /\ pc = "idle" /\ ~isOpen /\ up
  /\ isOpen' = TRUE /\ elapsed' = 0
  /\ UNCHANGED <<up, table, flags, cur, pc, data, control>>

(* A closed protocol's members are all set anew before they are read.       *)
Close ==
  /\ pc = "idle" /\ isOpen
  /\ reset \/ ~up
  /\ isOpen' = FALSE /\ reset' = FALSE
  /\ proto' = [r \in Orders |-> Closed]
  /\ UNCHANGED <<up, routeNum, valid, troubles, flags, turn, pc, rx, line, control>>

Renewed(r) ==
  Known(r) /\ r \notin Unloadable /\ (delProtocol[r] \/ ~proto[r].open)

Check ==
  /\ pc = "idle" /\ isOpen /\ ~reset /\ up
  /\ proto' = [r \in Orders |-> IF Renewed(r) THEN Opened ELSE proto[r]]
  /\ switchFlag' = [r \in Orders |-> IF Renewed(r) THEN TRUE ELSE switchFlag[r]]
  /\ delProtocol' = [r \in Orders |-> IF Known(r) THEN FALSE ELSE delProtocol[r]]
  /\ pc' = IF routeNum = 0 THEN "idle" ELSE "rx"
  /\ UNCHANGED <<up, isOpen, table, manStop, turn, rx, line, control>>

----------------------------------------------------------------------------
(* The receiving half of CLink::run: mainRx of the current route.           *)

StaysSending(r, event, msg) ==
  /\ proto' = [proto EXCEPT ![r].event = event, ![r].msg = msg]
  /\ switchFlag' = [switchFlag EXCEPT ![r] = TRUE]

(* repotrAckRecv: the route no longer sends and gives up its turn.          *)
AckRecv(r, event, msg) ==
  /\ proto' = [proto EXCEPT ![r].sending = FALSE, ![r].event = event, ![r].msg = msg]
  /\ switchFlag' = [switchFlag EXCEPT ![r] = TRUE]

(* Frames of another address before the route's own are dropped.            *)
AdjustMsg(msg, r) ==
  LET i == SelectInSeq(msg, LAMBDA f : f.order = r)
  IN  IF i = 0 THEN <<>> ELSE SubSeq(msg, i, Len(msg))

(* paraDevProtocol on what came in: an answer to the current command, an    *)
(* answer to another one (told by its function code or its length), or a    *)
(* frame the line has garbled in its address, length or check sum.          *)
ParaDevProtocol(r, msg) ==
  LET adj == AdjustMsg(msg, r)  event == proto[r].event IN
  \/ /\ adj = <<>>
     /\ AckRecv(r, event, <<>>)
  \/ /\ adj # <<>>
     /\ \/ AckRecv(r, event, <<>>)
        \/ AckRecv(r, "CheckError", <<>>)
        \/ /\ proto' = [proto EXCEPT ![r].msg = adj]
           /\ UNCHANGED switchFlag
  \/ /\ adj # <<>> /\ adj[1].cmd # proto[r].cmd
     /\ AckRecv(r, event, Tail(adj))
  \/ /\ adj # <<>> /\ adj[1].cmd = proto[r].cmd
     /\ IF proto[r].sending
        THEN AckRecv(r, "ready", Tail(adj))
        ELSE /\ proto' = [proto EXCEPT ![r].event = "ready", ![r].msg = Tail(adj)]
             /\ UNCHANGED switchFlag

TimesSending(p) == p.sending /\ p.timer >= RTimeOut
RTimedOut(p) == p.event = "Waitting" /\ p.timer >= RTimeOut

MainRx(r) ==
  LET room == RecvSize - Len(proto[r].msg)
      got == SubSeq(rx, 1, IF room < Len(rx) THEN room ELSE Len(rx))
  IN
  /\ rx' = SubSeq(rx, Len(got) + 1, Len(rx))
  /\ IF RTimedOut(proto[r])
     THEN AckRecv(r, "TimeOut", proto[r].msg)
     ELSE IF got = <<>>
     THEN UNCHANGED <<proto, switchFlag>>
     ELSE ParaDevProtocol(r, proto[r].msg \o got)

Receive ==
  /\ pc = "rx" /\ proto[cur].open /\ Known(cur) /\ ~switchFlag[cur]
  /\ MainRx(cur)
  /\ pc' = "tx"
  /\ UNCHANGED <<up, isOpen, table, delProtocol, manStop, turn, line, control>>

(* "pRouteInfo != NULL || !pRouteInfo->manStop" reads through NULL when the  *)
(* current route is disabled or no longer in the table.                     *)
ReadThroughNull ==
  /\ pc = "rx" /\ proto[cur].open /\ ~Known(cur)
  /\ pc' = "crashed"
  /\ UNCHANGED <<up, isOpen, table, flags, turn, data, control>>

PassReceive ==
  /\ pc = "rx"
  /\ ~proto[cur].open \/ (Known(cur) /\ switchFlag[cur])
  /\ pc' = "tx"
  /\ UNCHANGED <<up, isOpen, table, flags, turn, data, control>>

----------------------------------------------------------------------------
(* mainTx and its checkCurrentCommand and findNextCommand.                  *)

RepeatsControl(p) ==
  p.event \in {"TimeOut", "CheckError"} /\ p.retry + 1 < Retries

(* A question without a good answer is asked again, but not a control.      *)
Repeats(p) ==
  /\ p.event \in {"TimeOut", "CheckError"}
  /\ p.cmd # Control
  /\ p.retry + 1 < Retries

(* What the search for the next command finds when no errand is due.        *)
NextOwn(r) ==
  IF proto[r].first THEN {First} ELSE IF r \in wanted THEN {Control} ELSE Polls

(* The search of the devices, the broadcast list and the readings of events *)
(* and records come first: when they are due is Questions' matter, and any  *)
(* number of them may be due here.                                          *)
NextCommands(r) ==
  IF Repeats(proto[r]) THEN {proto[r].cmd} ELSE Errands \cup NextOwn(r)

Transmits(r) ==
  r \notin Listening /\ ~proto[r].sending /\ proto[r].event # "Waitting"

Transmit(r, c) ==
  LET asks == c \notin Unused /\ c \notin Unanswered
  IN
  /\ proto' = [proto EXCEPT ![r] = [proto[r] EXCEPT
       !.cmd = c, !.first = @ /\ c \in Errands,
       !.retry = IF Repeats(proto[r]) THEN @ + 1 ELSE 0,
       !.sending = asks,
       !.event = IF asks THEN "Waitting" ELSE "ready",
       !.timer = 0,
       !.msg = IF c \in Unused THEN @ ELSE <<>>]]
  /\ line' = IF asks THEN line \cup {[order |-> r, cmd |-> c]} ELSE line
  /\ wanted' = IF c = Control THEN wanted \ {r} ELSE wanted
  /\ carried' = IF c = Control /\ c \notin Unused THEN carried + 1 ELSE carried

NoTransmit == UNCHANGED <<proto, line, wanted, carried>>

MainTx(r) ==
  \E due \in ScanDue :
    IF due /\ Transmits(r)
    THEN \E c \in NextCommands(r) : Transmit(r, c)
    ELSE NoTransmit

(* reportCmdSend(true) was called.                                          *)
Asked(r) == proto'[r].sending /\ ~proto[r].sending

----------------------------------------------------------------------------
(* The sending half of CLink::run.                                          *)

(* Only route of its channel: mainTx in every run.                          *)
Alone ==
  /\ pc = "tx" /\ routeNum <= 1
  /\ pc' = "idle"
  /\ IF proto[cur].open /\ Known(cur) /\ ~manStop[cur]
     THEN /\ MainTx(cur)
          /\ switchFlag' = [switchFlag EXCEPT ![cur] = @ /\ ~Asked(cur)]
     ELSE NoTransmit /\ UNCHANGED switchFlag
  /\ UNCHANGED <<up, isOpen, table, delProtocol, manStop, turn, rx, posted>>

Defect(r) == ~proto[r].open \/ ~Known(r)
FlaggedOver(r) == switchFlag[r]
TurnOver(r) == Late \/ switchFlag[r]

Decide ==
  /\ pc = "tx" /\ routeNum > 1
  /\ IF Defect(cur)
     THEN pc' = "switch" /\ UNCHANGED switchFlag
     ELSE IF TurnOver(cur)
     THEN pc' = "switch" /\ switchFlag' = [switchFlag EXCEPT ![cur] = TRUE]
     ELSE pc' = "idle" /\ UNCHANGED switchFlag
  /\ UNCHANGED <<up, isOpen, table, delProtocol, manStop, turn, data, control>>

NextOrder(r) == (r + 1) % routeNum

Switch ==
  /\ pc = "switch" /\ routeNum > 0
  /\ cur' = NextOrder(cur)
  /\ elapsed' = 0
  /\ IF proto[cur'].open /\ Known(cur') /\ ~manStop[cur']
     THEN MainTx(cur') /\ switchFlag' = [switchFlag EXCEPT ![cur'] = FALSE]
     ELSE NoTransmit /\ UNCHANGED switchFlag
  /\ pc' = "idle"
  /\ UNCHANGED <<up, isOpen, table, delProtocol, manStop, rx, posted>>

(* "% routeNum" while the loader has emptied the table.                     *)
DivideByZero ==
  /\ pc = "switch" /\ routeNum = 0
  /\ pc' = "crashed"
  /\ UNCHANGED <<up, isOpen, table, flags, turn, data, control>>

Run ==
  OpenLink \/ Close \/ Check \/ Receive \/ PassReceive \/ Alone \/ Decide \/ Switch

----------------------------------------------------------------------------
(* What goes on around the link thread.                                     *)

ChannelUp ==
  /\ ~up /\ up' = TRUE
  /\ UNCHANGED <<isOpen, table, flags, turn, pc, data, control>>

ChannelDown ==
  /\ up /\ up' = FALSE
  /\ troubles < MaxTroubles /\ troubles' = troubles + 1
  /\ UNCHANGED <<isOpen, reset, routeNum, valid, flags, turn, pc, data, control>>

(* A device answers when it likes: an answer that stays on the line is lost. *)
Answer(f) ==
  /\ f \in line /\ Len(rx) < RecvSize
  /\ rx' = Append(rx, f) /\ line' = line \ {f}
  /\ UNCHANGED <<up, isOpen, table, flags, turn, pc, proto, control>>

(* A tick matters to the turn and to the routes that wait for an answer.    *)
Ticked(p) ==
  [p EXCEPT !.timer = IF p.event = "Waitting" /\ @ < RTimeOut THEN @ + 1 ELSE @]

Tick ==
  /\ elapsed' = IF Late THEN elapsed ELSE elapsed + 1
  /\ proto' = [r \in Orders |-> Ticked(proto[r])]
  /\ <<elapsed', proto'>> # <<elapsed, proto>>
  /\ UNCHANGED <<up, isOpen, table, flags, cur, pc, rx, line, control>>

(* An operator's control, in the command table until the route takes it.    *)
PostControl(r) ==
  /\ posted < MaxControls /\ r \notin wanted
  /\ posted' = posted + 1 /\ wanted' = wanted \cup {r}
  /\ UNCHANGED <<up, isOpen, table, flags, turn, pc, data, carried>>

(* Nobody took it within CTRL_CMD_TIMEOUT (CCtrlInf::check).                 *)
ExpireControl(r) ==
  /\ r \in wanted /\ wanted' = wanted \ {r}
  /\ UNCHANGED <<up, isOpen, table, flags, turn, pc, data, posted, carried>>

(* doManStartRoute, doManStopRoute, doManResetProtocol: only valid routes.  *)
ManStart(r) ==
  /\ Known(r) /\ manStop[r]
  /\ manStop' = [manStop EXCEPT ![r] = FALSE]
  /\ UNCHANGED <<up, isOpen, table, delProtocol, switchFlag, turn, pc, data, control>>

ManStop(r) ==
  /\ Known(r) /\ ~manStop[r]
  /\ troubles < MaxTroubles /\ troubles' = troubles + 1
  /\ manStop' = [manStop EXCEPT ![r] = TRUE]
  /\ UNCHANGED <<up, isOpen, reset, routeNum, valid, delProtocol, switchFlag,
                 turn, pc, data, control>>

ManResetProtocol(r) ==
  /\ Known(r) /\ ~delProtocol[r]
  /\ troubles < MaxTroubles /\ troubles' = troubles + 1
  /\ delProtocol' = [delProtocol EXCEPT ![r] = TRUE]
  /\ UNCHANGED <<up, isOpen, reset, routeNum, valid, manStop, switchFlag, turn, pc,
                 data, control>>

(* doManDisableRoute.                                                       *)
ManDisable(r) ==
  /\ Known(r)
  /\ TableChanges /\ troubles < MaxTroubles /\ troubles' = troubles + 1
  /\ valid' = [valid EXCEPT ![r] = FALSE]
  /\ UNCHANGED <<up, isOpen, reset, routeNum, flags, turn, pc, data, control>>

(* loadRoute empties the table and then assigns the rows one by one; a row  *)
(* that differs from the old one has its protocol replaced.                 *)
LoadRoute ==
  /\ routeNum = RouteNum
  /\ TableChanges /\ troubles < MaxTroubles /\ troubles' = troubles + 1
  /\ routeNum' = 0
  /\ UNCHANGED <<up, isOpen, reset, valid, flags, turn, pc, data, control>>

AssignRoute ==
  /\ routeNum < RouteNum
  /\ routeNum' = routeNum + 1
  /\ valid' = [valid EXCEPT ![routeNum] = TRUE]
  /\ delProtocol' = [delProtocol EXCEPT ![routeNum] = @ \/ ~valid[routeNum]]
  /\ UNCHANGED <<up, isOpen, reset, troubles, manStop, switchFlag, turn, pc,
                 data, control>>

(* assignChannel found the channel's row changed.                           *)
ResetChannel ==
  /\ ~reset /\ troubles < MaxTroubles /\ troubles' = troubles + 1
  /\ reset' = TRUE
  /\ UNCHANGED <<up, isOpen, routeNum, valid, flags, turn, pc, data, control>>

Next ==
  \/ OpenLink \/ Close \/ Check
  \/ Receive \/ ReadThroughNull \/ PassReceive
  \/ Alone \/ Decide \/ Switch \/ DivideByZero
  \/ ChannelUp \/ ChannelDown
  \/ \E f \in line : Answer(f)
  \/ Tick
  \/ \E r \in Orders :
       \/ PostControl(r) \/ ExpireControl(r) \/ ManStart(r) \/ ManStop(r)
       \/ ManResetProtocol(r) \/ ManDisable(r)
  \/ LoadRoute \/ AssignRoute \/ ResetChannel

Spec == Init /\ [][Next]_vars

(* The pool runs every link again and again (LinkTaskPool) and time passes. *)
FairSpec == Spec /\ WF_vars(Run) /\ WF_vars(Tick)

----------------------------------------------------------------------------
(* The state is made of what the program can hold.                          *)
TypeOK ==
  /\ up \in BOOLEAN /\ isOpen \in BOOLEAN /\ reset \in BOOLEAN
  /\ routeNum \in 0 .. RouteNum /\ valid \in [Orders -> BOOLEAN]
  /\ delProtocol \in [Orders -> BOOLEAN] /\ manStop \in [Orders -> BOOLEAN]
  /\ switchFlag \in [Orders -> BOOLEAN]
  /\ cur \in Orders /\ elapsed \in 0 .. SwitchTimeOut + 1
  /\ pc \in {"idle", "rx", "tx", "switch", "crashed"}
  /\ proto \in [Orders -> [open : BOOLEAN, sending : BOOLEAN, event : Events,
                           cmd : Commands, retry : Nat, first : BOOLEAN,
                           timer : Nat, msg : Seq(Frames)]]
  /\ rx \in Seq(Frames) /\ Len(rx) <= RecvSize
  /\ line \subseteq Frames /\ wanted \subseteq Orders
  /\ posted \in Nat /\ carried \in Nat /\ troubles \in Nat

(* An operator's control goes on the line at most once, whatever times out, *)
(* is garbled, reconnects or is reloaded: checkCurrentCommand repeats       *)
(* questions but never a control.                                           *)
ControlOnce == carried + Cardinality(wanted) <= posted

(* A route that refuses to send because it is sending waits for an answer,  *)
(* so that the answer timer can free it: isSending is never left set on a   *)
(* route whose event is settled (reportCmdSend, repotrAckRecv, init).       *)
SendingWaits ==
  \A r \in Orders : proto[r].sending => proto[r].open /\ proto[r].event = "Waitting"

(* Every route of a channel that stays up gets its turns, whatever the      *)
(* other routes and devices do (curRouteOrder and m_curRouteBegin).         *)
EveryRouteTurns ==
  <>[]up => \A r \in Orders : []<>(cur = r)

(* The wait of a channel's only route that has given up its turn: run hears *)
(* no route with its switch flag up, and the flag of this one is taken down *)
(* by its next question alone, for which it waits (link.cpp:246).           *)
Silenced(r) == RouteNum = 1 /\ switchFlag[r] /\ proto[r].event = "Waitting"

(* A question that is not answered does not silence its route: unless the   *)
(* route is stopped or the channel goes down, the wait ends ("timed out or  *)
(* failed the check: send again, else go on with the next command"). A      *)
(* route alone on its channel has no such promise once it gave up its turn  *)
(* while it waits, which an answer to another question makes it do.         *)
RequestSettles ==
  \A r \in Orders :
    proto[r].event = "Waitting" ~>
      (proto[r].event # "Waitting" \/ manStop[r] \/ ~up \/ Silenced(r))

(* What goes before controls ends; of the search that is Questions'         *)
(* PairingCompletes.                                                        *)
ErrandsEnd(r) == <>[](proto[r].cmd \notin Errands)

(* An operator's control on a route that is not stopped is carried to the   *)
(* line, though its polls time out or are garbled again and again, when the *)
(* errands that findNextCommand puts before it come to an end. While a      *)
(* route's device is not found they do not, and its controls wait until     *)
(* they expire.                                                             *)
ControlCarried ==
  \A r \in Orders :
    ErrandsEnd(r) =>
      (r \in wanted ~> (r \notin wanted \/ manStop[r] \/ ~up \/ Silenced(r)))

(* Disabling or reloading routes does not bring the link thread down: run   *)
(* tests for a route that is disabled or gone.                              *)
NeverCrashes == pc # "crashed"
=============================================================================
