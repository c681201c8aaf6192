----------------------------- MODULE Channels -----------------------------
(***************************************************************************)
(* One network channel: its row in the table of channels, its reset word,   *)
(* and the objects that serve it in the Qt thread (dacsrv/channelmanager,   *)
(* channeltcpcli, channeltcpsrv, channelstream, channeludp). The load task  *)
(* changes the row, the state task asks for a reset of a channel that is    *)
(* silent, the control task stops, starts and disables it, a link thread    *)
(* clears its own bit of the word; the manager tests the word every second, *)
(* removes and makes objects, and clears the bits it tested.                *)
(* The Qt thread handles one event at a time: an object asked to be deleted *)
(* later is deleted before the next timer or network event, unless it asked *)
(* itself, in an event of its socket.                                       *)
(***************************************************************************)
EXTENDS Integers, FiniteSets

CONSTANTS
  Rows,          \* what the row of the channel may be: valid, type, addr,
                 \* and whether its timeout is not 0
  AddrNum,       \* DAC_ADDR_NUM, remote addresses of a row (2)
  Given,         \* those of 0 .. AddrNum - 1 that are not empty
  Reached,       \* those where somebody listens
  Interval,      \* INTV_RECONNECT_DEALY (3)
  MaxDelay,      \* MAX_RECONNECT_DELAY (60)
  Ids,           \* bound of the model: places for objects
  MaxChanges,    \* bound of the model: reloads and operations
  MaxTroubles    \* bound of the model: failures of the network

Types == {"client", "server", "udp"}
Addrs == {r.addr : r \in Rows}

ASSUME ChannelAssumption ==
  /\ Rows \subseteq [valid : BOOLEAN, type : Types, addr : Addrs, timeout : BOOLEAN]
  /\ AddrNum \in Nat \ {0} /\ Given \subseteq 0 .. AddrNum - 1
  /\ Reached \subseteq Given
  /\ Interval \in Nat \ {0} /\ MaxDelay \in Nat /\ MaxDelay >= Interval
  /\ Ids \subseteq Nat \ {0} /\ IsFiniteSet(Ids) /\ Ids # {}
  /\ MaxChanges \in Nat /\ MaxTroubles \in Nat

VARIABLES
  row,        \* valid, type, address and timeout of the channel
  manStop,    \* manStop of the channel
  reset,      \* the bits of the reset word, user, client and server
  info,       \* the state shown to every process
  obj,        \* the objects, those not yet deleted included
  srv,        \* m_pTcpSrvVec[chanNo], 0 for NULL
  mgr,        \* where onSendDataTimeout stands, and the word it read
  news,       \* rxByteCnt is not what the state task saw last
  stale,      \* the state task saw no byte for longer than timeout
  owed,       \* history: bits a reload set that no check acted on
  mishap,     \* history: what the last reset met, of "none", "stopped", "stray"
  changes,    \* history: reloads and operations
  troubles    \* history: failures

shared == <<row, manStop, reset, info>>
objects == <<obj, srv>>
watch == <<news, stale>>
history == <<owed, mishap, changes, troubles>>
vars == <<shared, objects, mgr, watch, history>>

All == {"user", "client", "server"}    \* 0xFF; the bits of UDP are two of them
UdpBits == {"client", "server"}
Delays == 0 .. MaxDelay

None == [kind |-> "none"]
Living == {i \in Ids : obj[i] # None}
Present == {i \in Living : obj[i].gone = "no"}
Unused == {i \in Ids : obj[i] = None}
Least(ids) == CHOOSE i \in ids : \A j \in ids : i <= j
Fresh == Least(Unused)
HasRoom == Unused # {}     \* the bound of the places
OfKind(kind) == {i \in Living : obj[i].kind = kind}

(* channelInfo() gives NULL while the row is not valid.                     *)
Shows(state) == IF row.valid THEN state ELSE info
Trouble == troubles < MaxTroubles /\ troubles' = troubles + 1
Change == changes < MaxChanges /\ changes' = changes + 1

----------------------------------------------------------------------------
(* CChannelTcpCli. An object is its socket, its state, its place among the  *)
(* remote addresses and its delay; "alive" says that the peer is there.     *)

NextDelay(delay) ==
  IF delay = 0 THEN Interval
  ELSE IF 2 * delay >= MaxDelay THEN MaxDelay ELSE 2 * delay

ConnectError(o) ==
  [o EXCEPT !.delay = NextDelay(@), !.timer = "running", !.cur = (@ + 1) % AddrNum]

Connect(o) ==
  IF ~row.valid THEN o
  ELSE IF o.cur \notin Given THEN ConnectError(o)
  ELSE IF o.sock = "connected" THEN o
  ELSE [o EXCEPT !.sock = "connecting", !.addr = row.addr]

OpenClient(o) ==
  IF o.sock = "connecting" \/ (o.delay > 0 /\ o.timer = "running") THEN o
  ELSE Connect([o EXCEPT !.state = "Connecting"])

NewClient ==
  OpenClient([kind |-> "client", gone |-> "no", sock |-> "unconnected",
              state |-> "Closed", addr |-> row.addr, alive |-> FALSE,
              cur |-> 0, delay |-> 0, timer |-> "off"])

CloseClient(o) == [o EXCEPT !.sock = "unconnected", !.state = "Closed", !.alive = FALSE]

(* CChannelTcpSrv, with the stream it accepted, and CChannelStream.         *)
NewServer(sock) ==
  [kind |-> "server", gone |-> "no", sock |-> sock, addr |-> row.addr, stream |-> 0]
CloseServer(o) == [o EXCEPT !.sock = "unconnected", !.stream = 0]
NewStream(s) ==
  [kind |-> "stream", gone |-> "no", sock |-> "connected", addr |-> obj[s].addr,
   alive |-> TRUE]
CloseStream(o) == [o EXCEPT !.sock = "unconnected", !.alive = FALSE]

(* CChannelUdp.                                                             *)
OpenUdp(o) == IF row.valid THEN [o EXCEPT !.state = "Connected"] ELSE o
NewUdp == OpenUdp([kind |-> "udp", gone |-> "no", addr |-> row.addr, state |-> "Closed"])

Removed(o) ==
  [(CASE o.kind = "client" -> CloseClient(o)
      [] o.kind = "server" -> CloseServer(o)
      [] o.kind = "stream" -> CloseStream(o)
      [] o.kind = "udp" -> [o EXCEPT !.state = "Closed"]) EXCEPT !.gone = "removed"]

----------------------------------------------------------------------------
(* init() made the objects of the rows it found, for as long as the program *)
(* has a Qt thread.                                                         *)
Idle == [pc |-> "idle", word |-> {}]

FirstClient ==
  LET given == 0 \in Given IN
  [kind |-> "client", gone |-> "no", sock |-> IF given THEN "connecting" ELSE "unconnected",
   state |-> "Connecting", addr |-> row.addr, alive |-> FALSE,
   cur |-> IF given THEN 0 ELSE 1 % AddrNum, delay |-> IF given THEN 0 ELSE Interval,
   timer |-> IF given THEN "off" ELSE "running"]
FirstUdp == [kind |-> "udp", gone |-> "no", addr |-> row.addr, state |-> "Connected"]

FirstObject(sock) ==
  CASE ~row.valid -> None
    [] row.valid /\ row.type = "client" -> FirstClient
    [] row.valid /\ row.type = "server" -> NewServer(sock)
    [] row.valid /\ row.type = "udp" -> FirstUdp
FirstInfo(sock) ==
  IF row.valid /\ row.type = "udp" THEN "UP"
  ELSE IF row.valid /\ row.type = "server" /\ sock = "listening" THEN "LISTEN"
  ELSE "DOWN"

Init ==
  /\ row \in Rows /\ manStop = FALSE /\ reset = {}
  /\ \E sock \in {"listening", "unconnected"} :
       /\ obj = [i \in Ids |-> IF i = Least(Ids) THEN FirstObject(sock) ELSE None]
       /\ srv = IF row.valid /\ row.type = "server" THEN Least(Ids) ELSE 0
       /\ info = FirstInfo(sock)
  /\ mgr = Idle
  /\ news = FALSE /\ stale = FALSE
  /\ owed = {} /\ mishap = "none" /\ changes = 0 /\ troubles = 0

----------------------------------------------------------------------------
(* CChannelManager::onSendDataTimeout: the three checks, then sendData.     *)

Goto(pc) == mgr' = [pc |-> pc, word |-> {}]
Acted(pc) == mgr' = [pc |-> pc, word |-> reset]

(* deleteLater() of the objects removed in this event runs before the next. *)
NoneRemoved == \A i \in Living : obj[i].gone # "removed"
QtFree == mgr.pc = "idle" /\ NoneRemoved

SendTimer ==
  /\ QtFree /\ Goto("send")
  /\ UNCHANGED <<shared, objects, watch, history>>

(* The same timer, when the second of m_checkTimer is over.                 *)
CheckTimer ==
  /\ QtFree /\ Goto("client")
  /\ UNCHANGED <<shared, objects, watch, history>>

(* remove() of every object of some kinds, and one more object.             *)
WithoutStreams(kinds) ==
  [i \in Ids |-> IF i \in Living /\ obj[i].kind \in kinds \ {"stream"}
                 THEN Removed(obj[i]) ELSE obj[i]]
Without(kinds) ==
  [i \in Ids |-> IF i \in Living /\ obj[i].kind \in kinds THEN Removed(obj[i]) ELSE obj[i]]

PassCheck(pc, bits, next) ==
  /\ mgr.pc = pc /\ reset \cap bits = {}
  /\ Goto(next)
  /\ UNCHANGED <<shared, objects, watch, history>>

(* `reset &= ~bits' reads the word and writes it: what others wrote in      *)
(* between is lost with it.                                                 *)
ClearBits(pc, bits, next) ==
  /\ mgr.pc = pc
  /\ \E word \in {reset, mgr.word} : reset' = word \ bits
  /\ Goto(next)
  /\ UNCHANGED <<row, manStop, info, objects, watch, history>>

(* History: an object of an earlier row goes too late, and shows the        *)
(* channel DOWN under the connection of the object that serves it now.      *)
Connection == IF row.type = "client" THEN "client" ELSE "stream"
Strays(type) ==
  /\ row.type # type /\ OfKind(type) # {}
  /\ \E i \in Present : obj[i].kind = Connection /\ obj[i].sock = "connected"

WantsClient == row.valid /\ row.type = "client" /\ ~manStop

RemakeClient ==
  /\ mgr.pc = "client" /\ "client" \in reset /\ (WantsClient => HasRoom)
  /\ obj' = IF WantsClient
            THEN [Without({"client"}) EXCEPT ![Fresh] = NewClient]
            ELSE Without({"client"})
  /\ info' = IF WantsClient \/ OfKind("client") # {} THEN Shows("DOWN") ELSE info
  /\ mishap' = IF Strays("client") THEN "stray"
               ELSE IF row.valid /\ row.type = "client" /\ manStop THEN "stopped"
               ELSE "none"
  /\ owed' = owed \ {"client"}
  /\ Acted("clearclient")
  /\ UNCHANGED <<row, manStop, reset, srv, watch, changes, troubles>>

CheckClientChange ==
  \/ PassCheck("client", {"client"}, "server")
  \/ RemakeClient
  \/ ClearBits("clearclient", {"client"}, "server")

WantsServer == row.valid /\ row.type = "server"

RemakeServer ==
  /\ mgr.pc = "server" /\ "server" \in reset /\ (WantsServer => HasRoom)
  /\ IF WantsServer
     THEN \E sock \in {"listening", "unconnected"} :
            /\ IF sock = "listening" THEN UNCHANGED troubles ELSE Trouble
            /\ obj' = [Without({"server", "stream"}) EXCEPT ![Fresh] = NewServer(sock)]
            /\ srv' = Fresh
            /\ info' = IF sock = "listening" THEN "LISTEN" ELSE "DOWN"
     ELSE /\ obj' = Without({"server", "stream"}) /\ srv' = 0
          /\ info' = IF srv # 0 THEN Shows("DOWN") ELSE info
          /\ UNCHANGED troubles
  /\ owed' = owed \ {"server"}
  /\ mishap' = IF Strays("server") THEN "stray"
               ELSE IF row.type = "server" THEN "none" ELSE mishap
  /\ Acted("clearserver")
  /\ UNCHANGED <<row, manStop, reset, watch, changes>>

CheckServerChange ==
  \/ PassCheck("server", {"server"}, "udp")
  \/ RemakeServer
  \/ ClearBits("clearserver", {"server"}, "udp")

WantsUdp == row.valid /\ row.type = "udp" /\ ~manStop

(* Reached only by a reset set since the two checks before. The UDP object  *)
(* of an earlier row is removed here at last, and shows the channel DOWN.   *)
RemakeUdp ==
  /\ mgr.pc = "udp" /\ reset \cap UdpBits # {} /\ (WantsUdp => HasRoom)
  /\ obj' = IF WantsUdp
            THEN [Without({"udp"}) EXCEPT ![Fresh] = NewUdp]
            ELSE Without({"udp"})
  /\ info' = IF WantsUdp THEN "UP"
             ELSE IF OfKind("udp") # {} THEN Shows("DOWN") ELSE info
  /\ mishap' = IF Strays("udp") THEN "stray" ELSE mishap
  /\ Acted("clearudp")
  /\ UNCHANGED <<row, manStop, reset, srv, watch, owed, changes, troubles>>

CheckUdpChange ==
  \/ PassCheck("udp", UdpBits, "send")
  \/ RemakeUdp
  \/ ClearBits("clearudp", UdpBits, "send")

(* onSendData of every object that was not removed.                         *)
SendData ==
  /\ mgr.pc = "send"
  /\ obj' = [i \in Ids |->
       IF i \notin Present THEN obj[i]
       ELSE CASE obj[i].kind = "client" /\ obj[i].state # "Connected" -> OpenClient(obj[i])
              [] obj[i].kind = "udp" -> OpenUdp(obj[i])
              [] OTHER -> obj[i]]
  /\ info' = IF row.valid /\ \E i \in Present : obj[i].kind = "udp" /\ obj[i].state = "Closed"
             THEN "UP" ELSE info
  /\ Goto("idle")
  /\ UNCHANGED <<row, manStop, reset, srv, watch, history>>

Manager ==
  \/ SendTimer \/ CheckTimer
  \/ CheckClientChange \/ CheckServerChange \/ CheckUdpChange \/ SendData

----------------------------------------------------------------------------
(* Events of the sockets and deferred deletions, in the Qt thread.          *)

(* The destructors: the object leaves the list; a stream is forgotten by    *)
(* the server of that channel, whichever it is now.                         *)
Destroy(i) ==
  /\ mgr.pc = "idle" /\ i \in Living /\ obj[i].gone # "no"
  /\ obj' = [j \in Ids |->
       IF j = i THEN None
       ELSE IF j = srv /\ obj[i].kind = "stream" THEN [obj[j] EXCEPT !.stream = 0]
       ELSE obj[j]]
  /\ info' = IF obj[i].kind = "stream" THEN Shows("LISTEN") ELSE info
  /\ UNCHANGED <<row, manStop, reset, srv, mgr, watch, history>>

Client(i) == QtFree /\ i \in Present /\ obj[i].kind = "client"

OnConnected(i) ==
  /\ Client(i) /\ obj[i].sock = "connecting" /\ obj[i].cur \in Reached
  /\ LET o == [obj[i] EXCEPT !.sock = "connected", !.alive = TRUE] IN
       obj' = [obj EXCEPT ![i] =
         IF row.valid THEN [o EXCEPT !.state = "Connected", !.delay = 0] ELSE o]
  /\ info' = Shows("UP")
  /\ UNCHANGED <<row, manStop, reset, srv, mgr, watch, history>>

ConnectFails(i) ==
  /\ Client(i) /\ obj[i].sock = "connecting"
  /\ IF obj[i].cur \in Reached THEN Trouble ELSE UNCHANGED troubles
  /\ obj' = [obj EXCEPT ![i] = [ConnectError(obj[i]) EXCEPT !.sock = "unconnected"]]
  /\ UNCHANGED <<shared, srv, mgr, watch, owed, mishap, changes>>

(* The peer closes, or the network reports that it is gone.                 *)
ClosedByPeer(i) == IF obj[i].alive THEN Trouble ELSE UNCHANGED troubles

OnDisconnectedQuietly(i) ==
  /\ Client(i) /\ obj[i].sock = "connected" /\ ClosedByPeer(i)
  /\ obj' = [obj EXCEPT ![i] = CloseClient(ConnectError(@))]
  /\ UNCHANGED <<shared, srv, mgr, watch, owed, mishap, changes>>

OnDisconnected(i) ==
  /\ Client(i) /\ obj[i].sock = "connected" /\ ClosedByPeer(i)
  /\ obj' = [obj EXCEPT ![i] = CloseClient(ConnectError(@))]
  /\ info' = Shows("DOWN")
  /\ UNCHANGED <<row, manStop, reset, srv, mgr, watch, owed, mishap, changes>>

DelayOver(i) ==
  /\ i \in Present /\ obj[i].kind = "client" /\ obj[i].timer = "running"
  /\ obj' = [obj EXCEPT ![i].timer = "off"]
  /\ UNCHANGED <<shared, srv, mgr, watch, history>>

(* A server with a stream of its own in the list refuses others.            *)
FindsNone(s) == FALSE
Finds(s) == obj[s].stream \in Living

OnNewConnection(s) ==
  /\ QtFree /\ s \in Present /\ obj[s].kind = "server" /\ obj[s].sock = "listening"
  /\ ~Finds(s) /\ HasRoom
  /\ obj' = [obj EXCEPT ![Fresh] = NewStream(s), ![s].stream = Fresh]
  /\ info' = Shows("UP")
  /\ UNCHANGED <<row, manStop, reset, srv, mgr, watch, history>>

StreamDisconnected(i) ==
  /\ QtFree /\ i \in Present /\ obj[i].kind = "stream" /\ ClosedByPeer(i)
  /\ obj' = [obj EXCEPT ![i] = [CloseStream(obj[i]) EXCEPT !.gone = "dying"]]
  /\ UNCHANGED <<shared, srv, mgr, watch, owed, mishap, changes>>

(* The peer is gone and nobody tells: a cable is pulled.                    *)
PeerVanishes(i) ==
  /\ i \in Present /\ obj[i].kind \in {"client", "stream"} /\ obj[i].alive /\ Trouble
  /\ obj' = [obj EXCEPT ![i].alive = FALSE]
  /\ UNCHANGED <<shared, srv, mgr, watch, owed, mishap, changes>>

OnReadyRead(i) ==
  /\ QtFree /\ i \in Present /\ obj[i].kind \in {"client", "stream"} /\ obj[i].alive
  /\ row.valid /\ ~news /\ news' = TRUE
  /\ UNCHANGED <<shared, objects, mgr, stale, history>>

Network(i) ==
  \/ Destroy(i) \/ OnConnected(i) \/ ConnectFails(i) \/ OnDisconnected(i) \/ DelayOver(i)
  \/ OnNewConnection(i) \/ StreamDisconnected(i) \/ PeerVanishes(i) \/ OnReadyRead(i)

----------------------------------------------------------------------------
(* The other threads.                                                       *)

(* CStateTask::checkResetChannel. A channel with timeout 0 is not watched.  *)
Watched == row.valid /\ row.timeout /\ info = "UP"

ResetClient(type) == {"client"}
ResetOf(type) == IF type = "udp" THEN UdpBits ELSE {type}

CheckResetChannel ==
  /\ Watched /\ (news \/ stale)
  /\ stale' = FALSE
  /\ IF news THEN news' = FALSE /\ UNCHANGED reset
     ELSE reset' = ResetOf(row.type) /\ news' = TRUE
  /\ UNCHANGED <<row, manStop, info, objects, mgr, history>>

(* No byte for longer than the timeout, many times what the manager and the *)
(* state task need for a check: the peer is silent, or it is gone, or the   *)
(* channel was not watched for so long.                                     *)
Alive == \E i \in Present : obj[i].kind \in {"client", "stream"} /\ obj[i].alive
TimeRuns ==
  /\ ~stale /\ mgr.pc = "idle" /\ (Watched => ~news)
  /\ stale' = TRUE
  /\ UNCHANGED <<shared, objects, mgr, news, history>>

(* CLoadPara::assignChannel.                                                *)
AssignChannel ==
  /\ Change
  /\ \/ /\ \E r \in Rows \ {row} : row' = r
        /\ reset' = All /\ owed' = UdpBits
     \/ /\ reset' = reset \cup {"user"}
        /\ UNCHANGED <<row, owed>>
  /\ UNCHANGED <<manStop, info, objects, mgr, watch, mishap, troubles>>

(* CCtrlTask: the flags, without a reset.                                   *)
ManOperate ==
  /\ Change
  /\ \/ manStop' = ~manStop /\ UNCHANGED row
     \/ row.valid /\ row' = [row EXCEPT !.valid = FALSE] /\ UNCHANGED manStop
  /\ UNCHANGED <<reset, info, objects, mgr, watch, owed, mishap, troubles>>

(* CLink::check: the link closes its protocols and clears its bit; that its *)
(* own read and write of the word may lose bits is left to ClearBits.       *)
LinkCheck ==
  /\ row.valid /\ "user" \in reset /\ reset' = reset \ {"user"}
  /\ UNCHANGED <<row, manStop, info, objects, mgr, watch, history>>

Next ==
  \/ Manager
  \/ \E i \in Ids : Network(i)
  \/ CheckResetChannel \/ TimeRuns
  \/ AssignChannel \/ ManOperate
  \/ LinkCheck

Spec == Init /\ [][Next]_vars

(* The timers of the manager and the state task go on, the event loop       *)
(* serves what its sockets and deferred deletions wait for, peers accept    *)
(* and dial again, and time runs where no peer is there to send. The resets *)
(* of the state task, one in a timeout, do not all fall into the moments    *)
(* the manager checks.                                                      *)
Served(i) ==
  \/ Destroy(i) \/ OnConnected(i) \/ OnNewConnection(i) \/ DelayOver(i)
  \/ ConnectFails(i) /\ troubles' = troubles

FairSpec ==
  /\ Spec
  /\ WF_vars(Manager) /\ SF_vars(CheckTimer)
  /\ WF_vars(CheckResetChannel)
  /\ SF_vars(CheckResetChannel /\ mgr.pc = "idle" /\ reset' # reset)
  /\ SF_vars(TimeRuns /\ ~Alive)
  /\ SF_vars(\E i \in Ids : Served(i))

----------------------------------------------------------------------------
(* A bit that a reload set was cleared, or overwritten by the state task or *)
(* a link, before any check acted on it: reloads may overtake a check.      *)
Overtaken == ~(owed \subseteq reset)
Settled == mgr.pc = "idle" /\ reset \cap UdpBits = {} /\ NoneRemoved /\ ~Overtaken

States == {"Closed", "Connecting", "Connected"}
Clients ==
  [kind : {"client"}, gone : {"no", "removed"}, sock : {"unconnected", "connecting", "connected"},
   state : States, addr : Addrs, alive : BOOLEAN, cur : 0 .. AddrNum - 1, delay : Delays,
   timer : {"off", "running"}]
Servers ==
  [kind : {"server"}, gone : {"no", "removed"}, sock : {"listening", "unconnected"},
   addr : Addrs, stream : Ids \cup {0}]
Streams ==
  [kind : {"stream"}, gone : {"no", "removed", "dying"}, sock : {"connected", "unconnected"},
   addr : Addrs, alive : BOOLEAN]
Udps == [kind : {"udp"}, gone : {"no", "removed"}, addr : Addrs, state : States]
Objects == Clients \cup Servers \cup Streams \cup Udps

(* The state is made of what the program can hold.                          *)
TypeOK ==
  /\ row \in [valid : BOOLEAN, type : Types, addr : Addrs, timeout : BOOLEAN]
  /\ manStop \in BOOLEAN
  /\ reset \subseteq All
  /\ info \in {"DOWN", "LISTEN", "UP"}
  /\ obj \in [Ids -> Objects \cup {None}] /\ srv \in Ids \cup {0}
  /\ mgr.word \subseteq All
  /\ news \in BOOLEAN /\ stale \in BOOLEAN /\ mishap \in {"none", "stopped", "stray"}
  /\ owed \subseteq UdpBits /\ changes \in Nat /\ troubles \in Nat

(* Once the manager has served the reset word, the TCP objects that live    *)
(* are those of the row, at its addresses, however reloads, resets of the   *)
(* state task and a link's bit fell between the manager's checks: unless a  *)
(* request was overtaken, no object of an earlier row stays on the channel. *)
ObjectsOfRow ==
  Settled => \A i \in Present : obj[i].kind # "udp" =>
    /\ row.type = IF obj[i].kind = "client" THEN "client" ELSE "server"
    /\ obj[i].kind # "client" \/ obj[i].sock # "unconnected" => obj[i].addr = row.addr

(* A channel has one peer at a time: its streams share the rings, so the    *)
(* server that accepted one must know it until it has left the list.        *)
OnePeer ==
  \A i \in Present : obj[i].kind \in {"client", "stream"} =>
    /\ \A j \in Present \ {i} : obj[j].kind # obj[i].kind
    /\ obj[i].kind = "stream" => srv # 0 /\ obj[srv].stream = i

(* A channel shown as UP that has its object is connected: whatever order   *)
(* destructors, constructors, resets and the peers' events come in.         *)
UpIsConnected ==
  Settled /\ row.valid /\ info = "UP" =>
    /\ \A i \in Present : obj[i].kind = "client" => obj[i].sock = "connected"
    /\ \A i \in Present : obj[i].kind = "server" => obj[i].stream \in Living

(* A valid channel that was not stopped comes back, again and again,        *)
(* whatever was lost, refused or silent, through back-off, empty addresses, *)
(* half-open connections, and the resets of a peer that is there but says   *)
(* nothing; and it stays if such silences end. Excepted are a half-open     *)
(* connection of a channel with timeout 0, a reset that was overtaken, or   *)
(* met the stop flag, or met too late an object of an earlier row, whose    *)
(* end shows the channel DOWN, and a server whose listening failed.         *)
HalfOpen ==
  \E i \in Present : /\ obj[i].kind \in {"client", "stream"}
                     /\ obj[i].sock = "connected" /\ ~obj[i].alive
Serving ==
  /\ row.valid /\ ~Overtaken /\ mishap = "none"
  /\ HalfOpen => row.timeout
  /\ \/ row.type = "client"
     \/ row.type = "server" /\ srv # 0 /\ obj[srv].sock = "listening"
Back == Serving => Alive /\ info = "UP"
ChannelReturns == []<>Back /\ (<>[]~stale => <>[]Back)
=============================================================================
