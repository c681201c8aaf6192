-------------------------- MODULE ChannelProofs --------------------------
(***************************************************************************)
(* Proofs about the two sides of the table of channels. LinkTaskPool, from  *)
(* PoolInit on: no two threads are ever inside one link and no link is lost *)
(* to the pool, for every number of threads and channels, every size of the *)
(* pool and every sequence of reloads. Channels: the objects that serve a   *)
(* channel follow its row, with one peer, shown UP only when connected, for *)
(* any rows, addresses, delays, reloads and failures of the network.        *)
(***************************************************************************)
EXTENDS LinkTaskPool, Channels, FiniteSetTheorems, WellFoundedInduction, TLAPS

(* The mutex belongs to the thread that is inside lockMultiLinks().         *)
MutexInv ==
  \A t \in Threads : pc[t] \in {"probe", "take", "leave"} <=> mutex = t

(* The flags of the table and the batches of the threads say the same.      *)
LockInv ==
  /\ \A t \in Threads : \A c \in held[t] : lock[c]
  /\ \A c \in Channels : lock[c] => \E t \in Threads : c \in held[t]
  /\ \A t1, t2 \in Threads : t1 # t2 => held[t1] \cap held[t2] = {}

(* A thread holds links from its first find to its unlocking, and works on  *)
(* links it holds.                                                          *)
BatchInv ==
  \A t \in Threads :
    /\ pc[t] \in {"off", "top", "enter"} => held[t] = {}
    /\ pc[t] = "take" => ~lock[at[t]]
    /\ pc[t] \in {"tell", "run", "inside"} => todo[t] \subseteq held[t]
    /\ pc[t] = "inside" => at[t] \in held[t]

PoolIInv == PoolTypeOK /\ MutexInv /\ LockInv /\ BatchInv

-----------------------------------------------------------------------------
LEMMA PoolInitIInv == PoolInit => PoolIInv
  <1> SUFFICES ASSUME PoolInit PROVE PoolIInv
    OBVIOUS
  <1>1. PoolTypeOK
    <2>1. 0 \in Channels /\ 0 \in 0 .. MaxEvents
      BY SMT, PoolAssumption DEF Channels
    <2>2. channelNum \in 0 .. ChannelMax
      BY DEF PoolInit, CountOf
    <2>3. valid \subseteq Channels
      BY PoolAssumption DEF PoolInit, Channels
    <2>4. QED BY <2>1, <2>2, <2>3 DEF PoolInit, PoolTypeOK, Places
  <1>2. MutexInv
    BY PoolAssumption DEF PoolInit, MutexInv
  <1>3. LockInv
    BY DEF PoolInit, LockInv
  <1>4. BatchInv
    BY DEF PoolInit, BatchInv
  <1>5. QED BY <1>1, <1>2, <1>3, <1>4 DEF PoolIInv

LEMMA PoolTypeStep == PoolTypeOK /\ [PoolNext]_poolVars => PoolTypeOK'
  <1> SUFFICES ASSUME PoolTypeOK, [PoolNext]_poolVars PROVE PoolTypeOK'
    OBVIOUS
  <1> USE DEF PoolTypeOK, table, pool, batch, signal
  <1> 0 \in Channels /\ PoolSize \in Nat \ {0} /\ ChannelMax \in Nat \ {0}
    BY SMT, PoolAssumption DEF Channels
  <1>1. ASSUME RequestLoad PROVE PoolTypeOK'
    BY SMT, <1>1, PoolAssumption DEF RequestLoad
  <1>2. ASSUME LoadRows PROVE PoolTypeOK'
    <2>1. valid' \subseteq Channels
      BY <1>2, PoolAssumption DEF LoadRows, Channels
    <2>2. QED BY <1>2, <2>1 DEF LoadRows
  <1>3. ASSUME LoadCount PROVE PoolTypeOK'
    BY <1>3 DEF LoadCount, CountOf
  <1>4. ASSUME EndLoad PROVE PoolTypeOK'
    BY <1>4 DEF EndLoad
  <1>5. ASSUME StartPool PROVE PoolTypeOK'
    BY <1>5 DEF StartPool, Places
  <1>6. ASSUME Stop PROVE PoolTypeOK'
    BY <1>6 DEF Stop, Active
  <1>7. ASSUME Tick PROVE PoolTypeOK'
    BY SMT, <1>7, PoolAssumption DEF Tick
  <1>8. ASSUME NEW t \in Threads, Exit(t) PROVE PoolTypeOK'
    BY <1>8 DEF Exit, Places
  <1>9. ASSUME NEW t \in Threads, Pass(t) PROVE PoolTypeOK'
    <2>1. LockNum \in Nat
      BY SMT DEF LockNum
    <2>2. QED BY <1>9, <2>1 DEF Pass, Places
  <1>10. ASSUME NEW t \in Threads, Enter(t) PROVE PoolTypeOK'
    BY <1>10 DEF Enter, Places
  <1>11. ASSUME NEW t \in Threads, ProbeFound(t) PROVE PoolTypeOK'
    BY <1>11 DEF ProbeFound, Places, Start
  <1>12. ASSUME NEW t \in Threads, ProbeFailed(t) PROVE PoolTypeOK'
    BY <1>12 DEF ProbeFailed, Places, Start
  <1>13. ASSUME NEW t \in Threads, Take(t) PROVE PoolTypeOK'
    <2>1. /\ lock' \in [Channels -> BOOLEAN]
          /\ held' \in [Threads -> SUBSET Channels]
          /\ pc' \in [Threads -> Places]
      BY <1>13 DEF Take, Places
    <2>2. cur' \in Nat
      BY SMT, <1>13 DEF Take
    <2>3. QED BY <1>13, <2>1, <2>2 DEF Take
  <1>14. ASSUME NEW t \in Threads, Leave(t) PROVE PoolTypeOK'
    BY <1>14 DEF Leave, Places
  <1>15. ASSUME NEW t \in Threads, TestTick(t) PROVE PoolTypeOK'
    BY <1>15 DEF TestTick, Places
  <1>16. ASSUME NEW t \in Threads, Tell(t) PROVE PoolTypeOK'
    BY <1>16 DEF Tell, Places
  <1>17. ASSUME NEW t \in Threads, EndTell(t) PROVE PoolTypeOK'
    BY <1>17 DEF EndTell, Places
  <1>18. ASSUME NEW t \in Threads, BeginRun(t) PROVE PoolTypeOK'
    BY <1>18 DEF BeginRun, Places
  <1>19. ASSUME NEW t \in Threads, EndRun(t) PROVE PoolTypeOK'
    BY <1>19 DEF EndRun, Places
  <1>20. ASSUME NEW t \in Threads, Unlock(t) PROVE PoolTypeOK'
    BY <1>20 DEF Unlock, Places
  <1>21. CASE UNCHANGED poolVars
    BY <1>21 DEF poolVars
  <1>22. QED
    BY <1>1, <1>2, <1>3, <1>4, <1>5, <1>6, <1>7, <1>8, <1>9, <1>10, <1>11,
       <1>12, <1>13, <1>14, <1>15, <1>16, <1>17, <1>18, <1>19, <1>20, <1>21
       DEF PoolNext, Loader, Step

LEMMA MutexStep == PoolTypeOK /\ MutexInv /\ [PoolNext]_poolVars => MutexInv'
  <1> SUFFICES ASSUME PoolTypeOK, MutexInv, [PoolNext]_poolVars PROVE MutexInv'
    OBVIOUS
  <1> USE PoolAssumption DEF MutexInv, table, pool, batch, signal
  <1> pc \in [Threads -> Places]
    BY DEF PoolTypeOK
  <1>1. CASE UNCHANGED <<mutex, pc>>
    BY <1>1
  <1>2. ASSUME StartPool PROVE MutexInv'
    <2>1. PICK new \in SUBSET (Threads \ Active) :
            pc' = [t \in Threads |-> IF t \in new THEN "top" ELSE pc[t]]
      BY <1>2 DEF StartPool
    <2>2. mutex' = mutex
      BY <1>2 DEF StartPool
    <2>3. QED BY <2>1, <2>2 DEF Active
  <1>3. ASSUME NEW t \in Threads,
               \/ Exit(t) \/ Pass(t) \/ TestTick(t) \/ EndTell(t)
               \/ BeginRun(t) \/ EndRun(t) \/ Unlock(t)
        PROVE MutexInv'
    <2>1. /\ mutex' = mutex
          /\ pc[t] \notin {"probe", "take", "leave"}
          /\ \E p \in Places : /\ p \notin {"probe", "take", "leave"}
                             /\ pc' = [pc EXCEPT ![t] = p]
      BY <1>3 DEF Exit, Pass, TestTick, EndTell, BeginRun, EndRun, Unlock, Places
    <2>2. QED BY <2>1
  <1>4. ASSUME NEW t \in Threads, Enter(t) PROVE MutexInv'
    BY <1>4 DEF Enter
  <1>5. ASSUME NEW t \in Threads, ProbeFound(t) \/ ProbeFailed(t) \/ Take(t)
        PROVE MutexInv'
    <2>1. /\ mutex' = mutex
          /\ pc[t] \in {"probe", "take", "leave"}
          /\ \E p \in {"probe", "take", "leave"} : pc' = [pc EXCEPT ![t] = p]
      BY <1>5 DEF ProbeFound, ProbeFailed, Take
    <2>2. QED BY <2>1
  <1>6. ASSUME NEW t \in Threads, Leave(t) PROVE MutexInv'
    <2>1. /\ mutex' = NoThread
          /\ pc[t] \in {"probe", "take", "leave"}
          /\ \E p \in {"top", "tick"} : pc' = [pc EXCEPT ![t] = p]
      BY <1>6 DEF Leave
    <2>2. QED BY <2>1
  <1>7. QED
    BY <1>1, <1>2, <1>3, <1>4, <1>5, <1>6
       DEF PoolNext, Loader, Step, poolVars, RequestLoad, LoadRows, LoadCount, EndLoad,
           Stop, Tick, Tell

LEMMA LockStep ==
  PoolTypeOK /\ MutexInv /\ LockInv /\ BatchInv /\ [PoolNext]_poolVars => LockInv'
  <1> SUFFICES ASSUME PoolTypeOK, MutexInv, LockInv, BatchInv, [PoolNext]_poolVars
               PROVE LockInv'
    OBVIOUS
  <1> USE DEF LockInv, table, pool, batch, signal
  <1> /\ lock \in [Channels -> BOOLEAN]
      /\ held \in [Threads -> SUBSET Channels]
      /\ at \in [Threads -> Channels]
    BY DEF PoolTypeOK
  <1>1. CASE UNCHANGED <<lock, held>>
    BY <1>1
  <1>2. ASSUME NEW t \in Threads, Take(t) PROVE LockInv'
    <2>1. ~lock[at[t]]
      BY <1>2 DEF Take, BatchInv
    <2>2. /\ lock' = [lock EXCEPT ![at[t]] = TRUE]
          /\ held' = [held EXCEPT ![t] = @ \cup {at[t]}]
      BY <1>2 DEF Take
    <2>3. \A u \in Threads : at[t] \notin held[u]
      BY <2>1
    <2>4. QED BY <2>2, <2>3
  <1>3. ASSUME NEW t \in Threads, Unlock(t) PROVE LockInv'
    <2>1. /\ lock' = [c \in Channels |-> lock[c] /\ c \notin held[t]]
          /\ held' = [held EXCEPT ![t] = {}]
      BY <1>3 DEF Unlock
    <2>2. \A u \in Threads : \A c \in held[u] : u # t => c \notin held[t]
      OBVIOUS
    <2>3. QED BY <2>1, <2>2
  <1>4. QED
    BY <1>1, <1>2, <1>3
       DEF PoolNext, Loader, Step, poolVars, RequestLoad, LoadRows, LoadCount, EndLoad,
           StartPool, Stop, Tick, Exit, Pass, Enter, ProbeFound, ProbeFailed,
           Leave, TestTick, Tell, EndTell, BeginRun, EndRun

(* What a step of one thread does to the batch of another.                  *)
LEMMA BatchStep ==
  PoolTypeOK /\ MutexInv /\ LockInv /\ BatchInv /\ [PoolNext]_poolVars => BatchInv'
  <1> SUFFICES ASSUME PoolTypeOK, MutexInv, LockInv, BatchInv, [PoolNext]_poolVars
               PROVE BatchInv'
    OBVIOUS
  <1> USE DEF BatchInv, table, pool, batch, signal
  <1> /\ pc \in [Threads -> Places]
      /\ lock \in [Channels -> BOOLEAN]
      /\ held \in [Threads -> SUBSET Channels]
      /\ todo \in [Threads -> SUBSET Channels]
      /\ at \in [Threads -> Channels]
    BY DEF PoolTypeOK
  <1>1. CASE UNCHANGED <<lock, pc, held, todo, at>>
    BY <1>1
  <1>2. ASSUME StartPool PROVE BatchInv'
    <2>1. PICK new \in SUBSET (Threads \ Active) :
            pc' = [t \in Threads |-> IF t \in new THEN "top" ELSE pc[t]]
      BY <1>2 DEF StartPool
    <2>2. UNCHANGED <<lock, held, todo, at>>
      BY <1>2 DEF StartPool
    <2>3. QED BY <2>1, <2>2 DEF Active
  <1>3. ASSUME NEW t \in Threads, Exit(t) \/ Pass(t) \/ Enter(t)
        PROVE BatchInv'
    <2>1. UNCHANGED <<lock, held, todo, at>>
      BY <1>3 DEF Exit, Pass, Enter
    <2>2. /\ held[t] = {} /\ pc[t] \in {"top", "enter"}
          /\ \E p \in {"off", "enter", "probe"} : pc' = [pc EXCEPT ![t] = p]
      BY <1>3 DEF Exit, Pass, Enter
    <2>3. QED BY <2>1, <2>2
  <1>4. ASSUME NEW t \in Threads, ProbeFound(t) PROVE BatchInv'
    <2>1. PICK c \in Channels : ~lock[c] /\ at' = [at EXCEPT ![t] = c]
      BY <1>4 DEF ProbeFound, Free
    <2>2. pc' = [pc EXCEPT ![t] = "take"] /\ UNCHANGED <<lock, held, todo>>
      BY <1>4 DEF ProbeFound
    <2>3. QED BY <2>1, <2>2
  <1>5. ASSUME NEW t \in Threads, ProbeFailed(t) PROVE BatchInv'
    BY <1>5 DEF ProbeFailed
  <1>6. ASSUME NEW t \in Threads, Take(t) PROVE BatchInv'
    <2>1. /\ pc[t] = "take"
          /\ lock' = [lock EXCEPT ![at[t]] = TRUE]
          /\ held' = [held EXCEPT ![t] = @ \cup {at[t]}]
          /\ UNCHANGED <<todo, at>>
      BY <1>6 DEF Take
    <2>2. \E p \in {"probe", "leave"} : pc' = [pc EXCEPT ![t] = p]
      BY <1>6 DEF Take
    <2>3. \A u \in Threads : pc[u] = "take" => u = t
      BY <2>1 DEF MutexInv
    <2>4. QED BY <2>1, <2>2, <2>3
  <1>7. ASSUME NEW t \in Threads, Leave(t) PROVE BatchInv'
    BY <1>7 DEF Leave
  <1>8. ASSUME NEW t \in Threads, TestTick(t) \/ EndTell(t) PROVE BatchInv'
    <2>1. /\ todo' = [todo EXCEPT ![t] = held[t]]
          /\ \E p \in {"tell", "run"} : pc' = [pc EXCEPT ![t] = p]
          /\ UNCHANGED <<lock, held, at>>
      BY <1>8 DEF TestTick, EndTell
    <2>2. QED BY <2>1
  <1>9. ASSUME NEW t \in Threads, Tell(t) PROVE BatchInv'
    <2>1. PICK c \in todo[t] : todo' = [todo EXCEPT ![t] = @ \ {c}]
      BY <1>9 DEF Tell
    <2>2. UNCHANGED <<lock, pc, held, at>>
      BY <1>9 DEF Tell
    <2>3. QED BY <2>1, <2>2
  <1>10. ASSUME NEW t \in Threads, BeginRun(t) PROVE BatchInv'
    <2>1. PICK c \in todo[t] : at' = [at EXCEPT ![t] = c]
      BY <1>10 DEF BeginRun
    <2>2. /\ pc[t] = "run" /\ pc' = [pc EXCEPT ![t] = "inside"]
          /\ UNCHANGED <<lock, held, todo>>
      BY <1>10 DEF BeginRun
    <2>3. QED BY <2>1, <2>2
  <1>11. ASSUME NEW t \in Threads, EndRun(t) PROVE BatchInv'
    BY <1>11 DEF EndRun
  <1>12. ASSUME NEW t \in Threads, Unlock(t) PROVE BatchInv'
    <2>1. /\ lock' = [c \in Channels |-> lock[c] /\ c \notin held[t]]
          /\ held' = [held EXCEPT ![t] = {}]
          /\ pc' = [pc EXCEPT ![t] = "top"]
          /\ UNCHANGED <<todo, at>>
      BY <1>12 DEF Unlock
    <2>2. QED BY <2>1
  <1>13. QED
    BY <1>1, <1>2, <1>3, <1>4, <1>5, <1>6, <1>7, <1>8, <1>9, <1>10, <1>11, <1>12
       DEF PoolNext, Loader, Step, poolVars, RequestLoad, LoadRows, LoadCount, EndLoad,
           Stop, Tick

LEMMA PoolInvariant == PoolSpec => []PoolIInv
  <1>1. PoolIInv /\ [PoolNext]_poolVars => PoolIInv'
    BY PoolTypeStep, MutexStep, LockStep, BatchStep DEF PoolIInv
  <1>2. QED BY PoolInitIInv, <1>1, PTL DEF PoolSpec

-----------------------------------------------------------------------------
(* The variables hold values of their types, for every size of the table    *)
(* and of the pool.                                                         *)
THEOREM PoolTypeCorrect == PoolSpec => []PoolTypeOK
  <1>1. PoolIInv => PoolTypeOK
    BY DEF PoolIInv
  <1>2. QED BY PoolInvariant, <1>1, PTL

(* No two threads run one link at a time, whatever is reloaded, stopped and *)
(* started meanwhile.                                                       *)
THEOREM LinksExclusive == PoolSpec => []LinkExclusive
  <1>1. PoolIInv => LinkExclusive
    <2> SUFFICES ASSUME PoolIInv,
                        NEW c \in Channels, NEW t1 \in Threads, NEW t2 \in Threads,
                        Inside(t1, c), Inside(t2, c)
                 PROVE t1 = t2
      BY DEF LinkExclusive
    <2>1. c \in held[t1] /\ c \in held[t2]
      BY DEF PoolIInv, BatchInv, Inside
    <2>2. QED BY <2>1 DEF PoolIInv, LockInv
  <1>2. QED BY PoolInvariant, <1>1, PTL

(* A locked link is in the batch of a thread that exists.                   *)
THEOREM NoLinkLost == PoolSpec => []LocksOwned
  <1>1. PoolIInv => LocksOwned
    <2> SUFFICES ASSUME PoolIInv, NEW c \in Channels, lock[c]
                 PROVE \E t \in Active : c \in held[t]
      BY DEF LocksOwned
    <2>1. PICK t \in Threads : c \in held[t]
      BY DEF PoolIInv, LockInv
    <2>2. pc[t] # "off"
      BY <2>1 DEF PoolIInv, BatchInv
    <2>3. QED BY <2>1, <2>2 DEF Active
  <1>2. QED BY PoolInvariant, <1>1, PTL

-----------------------------------------------------------------------------
(* The objects of a channel.                                                *)
LEMMA LeastIsOne ==
  ASSUME NEW ids \in SUBSET Nat, ids # {}
  PROVE  Least(ids) \in ids
  <1> DEFINE below(r) == 0 .. r
             up == {below(r) : r \in ids}
  <1>1. up \subseteq FiniteSubsetsOf(Nat) /\ up # {}
    <2>1. ASSUME NEW r \in ids PROVE below(r) \in FiniteSubsetsOf(Nat)
      BY FS_Interval DEF FiniteSubsetsOf
    <2>2. QED BY <2>1
  <1> HIDE DEF up
  <1>2. PICK x \in up : \A y \in up : ~(<<y, x>> \in StrictSubsetOrdering(Nat))
    BY <1>1, FS_StrictSubsetOrderingWellFounded, WFMin
  <1>3. PICK r \in ids : x = below(r)
    BY DEF up
  <1>4. ASSUME NEW s \in ids PROVE r <= s
    <2>1. below(s) \in up
      BY DEF up
    <2>2. ~(<<below(s), below(r)>> \in StrictSubsetOrdering(Nat))
      BY <1>2, <1>3, <2>1
    <2>3. ~(below(s) \subseteq below(r) /\ below(s) # below(r))
      BY <2>2 DEF StrictSubsetOrdering
    <2>4. QED BY <2>3
  <1>5. QED BY <1>4 DEF Least

(* A place that is free is one of the places, and holds nothing.            *)
LEMMA FreshIsFree ==
  ASSUME HasRoom
  PROVE  Fresh \in Ids /\ obj[Fresh] = None /\ Fresh # 0
  <1>1. Unused \in SUBSET Nat /\ Unused # {}
    BY ChannelAssumption DEF Unused, HasRoom
  <1>2. Fresh \in Unused
    BY <1>1, LeastIsOne DEF Fresh
  <1>3. QED BY <1>2, ChannelAssumption DEF Unused

-----------------------------------------------------------------------------
(* One client at a time is not on its way out.                              *)
OneClient ==
  \A i, j \in Present : obj[i].kind = "client" /\ obj[j].kind = "client" => i = j

(* m_pTcpSrvVec knows the one server, and the server the one stream that    *)
(* was not removed; a stream that was removed is not the server's.          *)
ServerInv ==
  /\ srv # 0 =>
       /\ srv \in Present /\ obj[srv].kind = "server"
       /\ (obj[srv].stream # 0 =>
            /\ obj[srv].stream \in Living
            /\ obj[obj[srv].stream].kind = "stream"
            /\ obj[obj[srv].stream].gone # "removed")
  /\ \A i \in Present : obj[i].kind = "server" => i = srv
  /\ \A i \in Living : obj[i].kind = "stream" =>
       IF obj[i].gone = "removed" THEN srv # 0 => obj[srv].stream = 0
       ELSE srv # 0 /\ obj[srv].stream = i

(* An object that is not of the row waits for the check that a reload owes  *)
(* it; until that check has acted, objects and row tell nothing.            *)
RowInv ==
  \A i \in Present :
    /\ obj[i].kind = "client" /\ "client" \notin owed =>
         row.type = "client" /\ (obj[i].sock # "unconnected" => obj[i].addr = row.addr)
    /\ obj[i].kind \in {"server", "stream"} /\ "server" \notin owed =>
         row.type = "server" /\ obj[i].addr = row.addr

UdpInv == \A i \in Present : obj[i].kind = "udp" => obj[i].state = "Connected"

(* What a channel shown as UP says of the client, and of the server, when   *)
(* the check of that kind is not owed and the other kind cannot have shown  *)
(* it.                                                                      *)
NoClient == \A i \in Present : obj[i].kind # "client"
UpInv ==
  row.valid /\ info = "UP" =>
    /\ "client" \notin owed /\ ("server" \notin owed \/ srv = 0) =>
         \A i \in Present : obj[i].kind = "client" => obj[i].sock = "connected"
    /\ "server" \notin owed /\ ("client" \notin owed \/ NoClient) /\ srv # 0 =>
         obj[srv].stream # 0

ChannelIInv == TypeOK /\ OneClient /\ ServerInv /\ RowInv /\ UdpInv /\ UpInv

-----------------------------------------------------------------------------
RowType == [valid : BOOLEAN, type : Types, addr : Addrs, timeout : BOOLEAN]

LEMMA AddrPlaces ==
  /\ AddrNum \in Nat /\ 0 \in 0 .. AddrNum - 1 /\ 1 % AddrNum \in 0 .. AddrNum - 1
  /\ \A n \in 0 .. AddrNum - 1 : (n + 1) % AddrNum \in 0 .. AddrNum - 1
  /\ 0 \in Delays /\ Interval \in Delays
  /\ \A d \in Delays : NextDelay(d) \in Delays
  <1> AddrNum \in Nat \ {0} /\ Interval \in Nat \ {0} /\ MaxDelay \in Nat /\ MaxDelay >= Interval
    BY ChannelAssumption
  <1>1. \A n \in Nat : n % AddrNum \in 0 .. AddrNum - 1
    OBVIOUS
  <1>2. QED BY <1>1 DEF Delays, NextDelay

(* The kind of an object tells which fields it has.                         *)
LEMMA KindOf ==
  /\ \A o \in Objects : o # None
  /\ \A o \in Objects : o.kind = "client" => o \in Clients
  /\ \A o \in Objects : o.kind = "server" => o \in Servers
  /\ \A o \in Objects : o.kind = "stream" => o \in Streams
  /\ \A o \in Objects : o.kind = "udp" => o \in Udps
  /\ \A o \in Objects : o.kind \in {"client", "server", "stream", "udp"}
  BY DEF Objects, Clients, Servers, Streams, Udps, None

LEMMA ClientEdits ==
  ASSUME NEW o \in Clients
  PROVE  /\ \A n \in 0 .. AddrNum - 1, d \in Delays :
              [o EXCEPT !.delay = d, !.timer = "running", !.cur = n] \in Clients
         /\ \A a \in Addrs : [o EXCEPT !.sock = "connecting", !.addr = a] \in Clients
         /\ [o EXCEPT !.state = "Connecting"] \in Clients
         /\ [o EXCEPT !.sock = "unconnected"] \in Clients
         /\ [o EXCEPT !.sock = "unconnected", !.state = "Closed", !.alive = FALSE] \in Clients
         /\ [o EXCEPT !.gone = "removed"] \in Clients
         /\ [o EXCEPT !.sock = "connected", !.alive = TRUE] \in Clients
         /\ [o EXCEPT !.state = "Connected", !.delay = 0] \in Clients
         /\ [o EXCEPT !.timer = "off"] \in Clients
         /\ [o EXCEPT !.alive = FALSE] \in Clients
  BY AddrPlaces DEF Clients, States

(* A failed connect keeps the place, kind and socket of the object.         *)
LEMMA ConnectErrorKeeps ==
  ASSUME NEW o \in Clients
  PROVE  /\ ConnectError(o) \in Clients
         /\ ConnectError(o).gone = o.gone /\ ConnectError(o).sock = o.sock
         /\ ConnectError(o).addr = o.addr
  <1> DEFINE n == (o.cur + 1) % AddrNum
             d == NextDelay(o.delay)
  <1>1. n \in 0 .. AddrNum - 1 /\ d \in Delays
    BY AddrPlaces DEF Clients
  <1>2. ConnectError(o) = [o EXCEPT !.delay = d, !.timer = "running", !.cur = n]
    BY DEF ConnectError, Clients
  <1> HIDE DEF n, d
  <1>3. \A m \in 0 .. AddrNum - 1, e \in Delays :
          [o EXCEPT !.delay = e, !.timer = "running", !.cur = m] \in Clients
    BY ClientEdits, Zenon
  <1>4. ConnectError(o) \in Clients
    BY <1>1, <1>2, <1>3
  <1>5. QED BY <1>2, <1>4 DEF Clients

LEMMA ConnectKeeps ==
  ASSUME row \in RowType, NEW o \in Clients
  PROVE  /\ Connect(o) \in Clients /\ Connect(o).gone = o.gone
         /\ o.sock = "connected" => Connect(o).sock = "connected"
         /\ (Connect(o).sock = o.sock /\ Connect(o).addr = o.addr) \/ Connect(o).addr = row.addr
  <1>1. row.addr \in Addrs
    BY DEF RowType
  <1>2. CASE ~row.valid
    BY <1>2 DEF Connect
  <1>3. CASE row.valid /\ o.cur \notin Given
    BY <1>3, ConnectErrorKeeps DEF Connect
  <1>4. CASE row.valid /\ o.cur \in Given /\ o.sock = "connected"
    BY <1>4 DEF Connect
  <1>5. CASE row.valid /\ o.cur \in Given /\ o.sock # "connected"
    <2> DEFINE p == [o EXCEPT !.sock = "connecting", !.addr = row.addr]
    <2>1. Connect(o) = p
      BY <1>5 DEF Connect
    <2>2. p \in Clients
      BY <1>1, ClientEdits, Zenon
    <2>3. p.gone = o.gone /\ p.addr = row.addr
      BY DEF Clients
    <2> HIDE DEF p
    <2>4. QED BY <1>5, <2>1, <2>2, <2>3
  <1>6. QED BY <1>2, <1>3, <1>4, <1>5

LEMMA OpenKeeps ==
  ASSUME row \in RowType, NEW o \in Clients
  PROVE  /\ OpenClient(o) \in Clients /\ OpenClient(o).gone = o.gone
         /\ o.sock = "connected" => OpenClient(o).sock = "connected"
         /\ \/ OpenClient(o).sock = o.sock /\ OpenClient(o).addr = o.addr
            \/ OpenClient(o).addr = row.addr
  <1> DEFINE p == [o EXCEPT !.state = "Connecting"]
  <1>1. p \in Clients /\ p.gone = o.gone /\ p.sock = o.sock /\ p.addr = o.addr
    <2>1. p \in Clients
      BY ClientEdits, Zenon
    <2>2. QED BY <2>1 DEF Clients
  <1> HIDE DEF p
  <1>2. /\ Connect(p) \in Clients /\ Connect(p).gone = p.gone
        /\ p.sock = "connected" => Connect(p).sock = "connected"
        /\ (Connect(p).sock = p.sock /\ Connect(p).addr = p.addr) \/ Connect(p).addr = row.addr
    BY <1>1, ConnectKeeps
  <1>3. OpenClient(o) = o \/ OpenClient(o) = Connect(p)
    BY DEF OpenClient, p
  <1>4. QED BY <1>1, <1>2, <1>3

LEMMA NewClientIs ==
  ASSUME row \in RowType
  PROVE  /\ NewClient \in Clients /\ NewClient.gone = "no" /\ NewClient.addr = row.addr
         /\ NewClient # None /\ NewClient.kind = "client"
  <1> DEFINE o == [kind |-> "client", gone |-> "no", sock |-> "unconnected",
                   state |-> "Closed", addr |-> row.addr, alive |-> FALSE,
                   cur |-> 0, delay |-> 0, timer |-> "off"]
  <1>1. o \in Clients /\ o.gone = "no" /\ o.addr = row.addr
    BY AddrPlaces DEF Clients, States, RowType
  <1> HIDE DEF o
  <1>2. NewClient \in Clients /\ NewClient.gone = "no" /\ NewClient.addr = row.addr
    <2>1. NewClient = OpenClient(o)
      BY DEF NewClient, o
    <2>2. QED BY <1>1, <2>1, OpenKeeps
  <1>3. QED BY <1>2 DEF Clients, None

LEMMA NewOnes ==
  ASSUME row \in RowType
  PROVE  /\ \A sock \in {"listening", "unconnected"} :
              /\ NewServer(sock) \in Servers /\ NewServer(sock).gone = "no"
              /\ NewServer(sock).stream = 0 /\ NewServer(sock).addr = row.addr
              /\ NewServer(sock).kind = "server" /\ NewServer(sock) # None
         /\ NewUdp \in Udps /\ NewUdp.gone = "no" /\ NewUdp.kind = "udp" /\ NewUdp # None
         /\ row.valid => NewUdp.state = "Connected"
  <1>1. ASSUME NEW sock \in {"listening", "unconnected"}
        PROVE  /\ NewServer(sock) \in Servers /\ NewServer(sock).gone = "no"
               /\ NewServer(sock).stream = 0 /\ NewServer(sock).addr = row.addr
               /\ NewServer(sock).kind = "server" /\ NewServer(sock) # None
    BY DEF NewServer, Servers, RowType, None
  <1>2. /\ NewUdp \in Udps /\ NewUdp.gone = "no" /\ NewUdp.kind = "udp" /\ NewUdp # None
        /\ row.valid => NewUdp.state = "Connected"
    BY DEF NewUdp, OpenUdp, Udps, RowType, States, None
  <1>3. QED BY <1>1, <1>2

LEMMA NewStreamIs ==
  ASSUME NEW s \in Ids, obj[s] \in Servers
  PROVE  /\ NewStream(s) \in Streams /\ NewStream(s).gone = "no"
         /\ NewStream(s).kind = "stream" /\ NewStream(s).addr = obj[s].addr
         /\ NewStream(s) # None
  BY DEF NewStream, Streams, Servers, None

(* remove() closes the object and leaves its kind.                          *)
LEMMA RemovedIs ==
  ASSUME NEW o \in Objects
  PROVE  /\ Removed(o) \in Objects /\ Removed(o).kind = o.kind
         /\ Removed(o).gone = "removed"
         /\ o.kind = "server" => Removed(o).stream = 0
  <1>1. CASE o \in Clients
    <2> DEFINE c == CloseClient(o)
    <2>1. c \in Clients /\ o.kind = "client"
      <3>1. c \in Clients
        BY <1>1, ClientEdits, Zenon DEF CloseClient
      <3>2. QED BY <1>1, <3>1 DEF Clients
    <2>2. Removed(o) = [c EXCEPT !.gone = "removed"]
      BY <2>1 DEF Removed
    <2> HIDE DEF c
    <2>3. Removed(o) \in Clients
      BY <2>1, <2>2, ClientEdits, Zenon
    <2>4. Removed(o).gone = "removed" /\ Removed(o).kind = "client"
      BY <2>1, <2>2, <2>3 DEF Clients
    <2>5. QED BY <2>1, <2>3, <2>4 DEF Objects
  <1>2. CASE o \in Servers
    <2>1. o.kind = "server"
      BY <1>2 DEF Servers
    <2>2. Removed(o) = [CloseServer(o) EXCEPT !.gone = "removed"]
      BY <2>1 DEF Removed
    <2>3. QED BY <1>2, <2>1, <2>2 DEF CloseServer, Servers, Objects
  <1>3. CASE o \in Streams
    <2>1. o.kind = "stream"
      BY <1>3 DEF Streams
    <2>2. Removed(o) = [CloseStream(o) EXCEPT !.gone = "removed"]
      BY <2>1 DEF Removed
    <2>3. QED BY <1>3, <2>1, <2>2 DEF CloseStream, Streams, Objects
  <1>4. CASE o \in Udps
    <2>1. o.kind = "udp"
      BY <1>4 DEF Udps
    <2>2. Removed(o) = [[o EXCEPT !.state = "Closed"] EXCEPT !.gone = "removed"]
      BY <2>1 DEF Removed
    <2>3. QED BY <1>4, <2>1, <2>2 DEF Udps, Objects, States
  <1>5. QED BY <1>1, <1>2, <1>3, <1>4 DEF Objects

LEMMA SmallEdits ==
  /\ \A o \in Servers : \A x \in Ids \cup {0} : [o EXCEPT !.stream = x] \in Servers
  /\ \A o \in Streams : [CloseStream(o) EXCEPT !.gone = "dying"] \in Streams
  /\ \A o \in Streams : [o EXCEPT !.alive = FALSE] \in Streams
  /\ \A o \in Udps : OpenUdp(o) \in Udps
  BY DEF Servers, Streams, Udps, CloseStream, OpenUdp, States

LEMMA PlacesHold ==
  ASSUME TypeOK
  PROVE  /\ \A i \in Living : obj[i] \in Objects
         /\ \A i \in Ids :
              /\ obj[i].kind = "client" => i \in Living /\ obj[i] \in Clients
              /\ obj[i].kind = "server" => i \in Living /\ obj[i] \in Servers
              /\ obj[i].kind = "stream" => i \in Living /\ obj[i] \in Streams
              /\ obj[i].kind = "udp" => i \in Living /\ obj[i] \in Udps
  <1>1. \A i \in Ids : obj[i] \in Objects \/ obj[i] = None
    BY DEF TypeOK
  <1>2. None.kind = "none"
    BY DEF None
  <1>3. QED BY <1>1, <1>2, KindOf DEF Living

-----------------------------------------------------------------------------
LEMMA WithoutTyped ==
  ASSUME TypeOK, NEW kinds
  PROVE  Without(kinds) \in [Ids -> Objects \cup {None}]
  <1>1. \A i \in Ids : obj[i] \in Objects \cup {None}
    BY DEF TypeOK
  <1>2. \A i \in Living : Removed(obj[i]) \in Objects
    BY PlacesHold, RemovedIs
  <1>3. QED BY <1>1, <1>2 DEF Without

LEMMA InitTyped == Init => TypeOK
  <1> SUFFICES ASSUME Init PROVE TypeOK
    OBVIOUS
  <1>1. Least(Ids) \in Ids
    BY LeastIsOne, ChannelAssumption
  <1>2. row \in RowType
    BY ChannelAssumption DEF Init, RowType
  <1>3. PICK sock \in {"listening", "unconnected"} :
          /\ obj = [i \in Ids |-> IF i = Least(Ids) THEN FirstObject(sock) ELSE None]
          /\ srv = IF row.valid /\ row.type = "server" THEN Least(Ids) ELSE 0
          /\ info = FirstInfo(sock)
    BY DEF Init
  <1>4. FirstClient \in Clients /\ FirstUdp \in Udps
    BY <1>2, AddrPlaces DEF FirstClient, FirstUdp, Clients, Udps, States, RowType
  <1>5. NewServer(sock) \in Servers
    BY <1>2, NewOnes
  <1>7. row.type \in {"client", "server", "udp"} /\ row.valid \in BOOLEAN
    BY <1>2 DEF RowType, Types
  <1>8. obj \in [Ids -> Objects \cup {None}]
    <2>1. FirstObject(sock) \in Objects \cup {None}
      BY <1>4, <1>5, <1>7 DEF FirstObject, Objects
    <2>2. QED BY <1>3, <2>1
  <1>9. srv \in Ids \cup {0} /\ info \in {"DOWN", "LISTEN", "UP"}
    BY <1>1, <1>3, <1>7 DEF FirstInfo
  <1>10. mgr.word \subseteq All /\ reset \subseteq All /\ owed \subseteq UdpBits
    BY DEF Init, Idle
  <1>11. QED BY <1>2, <1>8, <1>9, <1>10 DEF Init, TypeOK, RowType

(* What each step that changes objects leaves in a place.                   *)
LEMMA ObjectsTyped ==
  ASSUME TypeOK
  PROVE  /\ \A i \in Ids, o \in Objects \cup {None} :
              [obj EXCEPT ![i] = o] \in [Ids -> Objects \cup {None}]
         /\ Clients \subseteq Objects /\ Servers \subseteq Objects
         /\ Streams \subseteq Objects /\ Udps \subseteq Objects
  BY DEF TypeOK, Objects

LEMMA ManagerTyped == TypeOK /\ Manager => TypeOK'
  <1> SUFFICES ASSUME TypeOK, Manager PROVE TypeOK'
    OBVIOUS
  <1> USE DEF shared, objects, watch, history, Trouble, Change, Goto, Acted
  <1>w. mgr.word \subseteq All /\ reset \subseteq All /\ [pc |-> "x", word |-> {}].word = {}
    BY DEF TypeOK
  <1>1. CASE SendTimer \/ CheckTimer
    BY <1>1 DEF SendTimer, CheckTimer, TypeOK
  <1>2. ASSUME NEW place, NEW bits, NEW next, PassCheck(place, bits, next) PROVE TypeOK'
    BY <1>2 DEF PassCheck, TypeOK
  <1>3. ASSUME NEW place, NEW bits, NEW next, ClearBits(place, bits, next) PROVE TypeOK'
    <2>1. reset' \subseteq All /\ mgr'.word \subseteq All
      BY <1>3, <1>w DEF ClearBits
    <2>2. QED BY <1>3, <2>1 DEF ClearBits, TypeOK
  <1> row \in RowType
    BY DEF TypeOK, RowType
  <1>4. CASE RemakeClient
    <2>1. Without({"client"}) \in [Ids -> Objects \cup {None}]
      BY WithoutTyped
    <2>2. WantsClient => Fresh \in Ids
      BY <1>4, FreshIsFree DEF RemakeClient
    <2>3. NewClient \in Objects
      BY NewClientIs DEF Objects
    <2>4. obj' \in [Ids -> Objects \cup {None}]
      BY <1>4, <2>1, <2>2, <2>3 DEF RemakeClient
    <2>5. info' \in {"DOWN", "LISTEN", "UP"}
      BY <1>4 DEF RemakeClient, Shows, TypeOK
    <2>6. mgr'.word \subseteq All /\ owed' \subseteq UdpBits
      BY <1>4, <1>w DEF RemakeClient, TypeOK
    <2>7. mishap' \in {"none", "stopped", "stray"}
      BY <1>4 DEF RemakeClient
    <2>8. QED BY <1>4, <2>4, <2>5, <2>6, <2>7 DEF RemakeClient, TypeOK
  <1>5. CASE RemakeServer
    <2>1. Without({"server", "stream"}) \in [Ids -> Objects \cup {None}]
      BY WithoutTyped
    <2>2. WantsServer => Fresh \in Ids
      BY <1>5, FreshIsFree DEF RemakeServer
    <2>3. \A sock \in {"listening", "unconnected"} : NewServer(sock) \in Objects
      BY NewOnes DEF Objects
    <2>4. obj' \in [Ids -> Objects \cup {None}]
      BY <1>5, <2>1, <2>2, <2>3 DEF RemakeServer
    <2>5. info' \in {"DOWN", "LISTEN", "UP"} /\ srv' \in Ids \cup {0}
      BY <1>5, <2>2 DEF RemakeServer, Shows, TypeOK
    <2>6. mgr'.word \subseteq All /\ owed' \subseteq UdpBits
      BY <1>5, <1>w DEF RemakeServer, TypeOK
    <2>7. mishap' \in {"none", "stopped", "stray"} /\ troubles' \in Nat
      BY <1>5 DEF RemakeServer, TypeOK
    <2>8. QED BY <1>5, <2>4, <2>5, <2>6, <2>7 DEF RemakeServer, TypeOK
  <1>6. CASE RemakeUdp
    <2>1. Without({"udp"}) \in [Ids -> Objects \cup {None}]
      BY WithoutTyped
    <2>2. WantsUdp => Fresh \in Ids
      BY <1>6, FreshIsFree DEF RemakeUdp
    <2>3. NewUdp \in Objects
      BY NewOnes DEF Objects
    <2>4. obj' \in [Ids -> Objects \cup {None}]
      BY <1>6, <2>1, <2>2, <2>3 DEF RemakeUdp
    <2>5. info' \in {"DOWN", "LISTEN", "UP"}
      BY <1>6 DEF RemakeUdp, Shows, TypeOK
    <2>6. mgr'.word \subseteq All
      BY <1>6, <1>w DEF RemakeUdp, TypeOK
    <2>7. mishap' \in {"none", "stopped", "stray"}
      BY <1>6 DEF RemakeUdp, TypeOK
    <2>8. QED BY <1>6, <2>4, <2>5, <2>6, <2>7 DEF RemakeUdp, TypeOK
  <1>7. CASE SendData
    <2>1. \A i \in Ids : obj[i] \in Objects \cup {None}
      BY DEF TypeOK
    <2>2. \A i \in Present : obj[i].kind = "client" => OpenClient(obj[i]) \in Objects
      BY PlacesHold, OpenKeeps DEF Present, Living, Objects
    <2>3. \A i \in Present : obj[i].kind = "udp" => OpenUdp(obj[i]) \in Objects
      BY PlacesHold, SmallEdits DEF Present, Living, Objects
    <2>4. obj' \in [Ids -> Objects \cup {None}]
      BY <1>7, <2>1, <2>2, <2>3 DEF SendData
    <2>5. info' \in {"DOWN", "LISTEN", "UP"}
      BY <1>7 DEF SendData, TypeOK
    <2>6. mgr'.word \subseteq All
      BY <1>7 DEF SendData
    <2>7. QED BY <1>7, <2>4, <2>5, <2>6 DEF SendData, TypeOK
  <1>8. QED
    BY <1>1, <1>2, <1>3, <1>4, <1>5, <1>6, <1>7
       DEF Manager, CheckClientChange, CheckServerChange, CheckUdpChange

LEMMA NetworkTyped ==
  ASSUME TypeOK, ServerInv, NEW i \in Ids, Network(i)
  PROVE  TypeOK'
  <1> USE DEF shared, objects, watch, history, Trouble, ClosedByPeer, Client
  <1> row \in RowType
    BY DEF TypeOK, RowType
  <1>s. \A x \in {"DOWN", "LISTEN", "UP"} : Shows(x) \in {"DOWN", "LISTEN", "UP"}
    BY DEF Shows, TypeOK
  <1>t. \A j \in Ids, o \in Objects \cup {None} :
          [obj EXCEPT ![j] = o] \in [Ids -> Objects \cup {None}]
    BY ObjectsTyped
  <1>u. Clients \subseteq Objects /\ Servers \subseteq Objects /\ Streams \subseteq Objects
    BY DEF Objects
  <1>1. CASE Destroy(i)
    <2>1. \A j \in Ids : obj[j] \in Objects \cup {None}
      BY DEF TypeOK
    <2>2. \A j \in Ids : obj[j].kind = "server" =>
            [obj[j] EXCEPT !.stream = 0] \in Objects \cup {None}
      BY PlacesHold, SmallEdits, <1>u
    <2>3. \A j \in Ids : j = srv => obj[j].kind = "server"
      BY ChannelAssumption DEF ServerInv
    <2>4. obj' \in [Ids -> Objects \cup {None}]
      BY <1>1, <2>1, <2>2, <2>3 DEF Destroy
    <2>5. QED BY <1>1, <1>s, <2>4 DEF Destroy, TypeOK
  <1>2. CASE OnConnected(i)
    <2> DEFINE o == [obj[i] EXCEPT !.sock = "connected", !.alive = TRUE]
    <2>1. obj[i] \in Clients
      BY <1>2, PlacesHold DEF OnConnected
    <2>2. o \in Clients
      BY <2>1, ClientEdits, Zenon
    <2> HIDE DEF o
    <2>3. [o EXCEPT !.state = "Connected", !.delay = 0] \in Clients
      BY <2>2, ClientEdits, Zenon
    <2>4. \E p \in Clients : obj' = [obj EXCEPT ![i] = p]
      BY <1>2, <2>2, <2>3 DEF OnConnected, o
    <2>5. obj' \in [Ids -> Objects \cup {None}]
      BY <1>t, <1>u, <2>4
    <2>6. QED BY <1>2, <1>s, <2>5 DEF OnConnected, TypeOK
  <1>3. CASE ConnectFails(i)
    <2> DEFINE o == ConnectError(obj[i])
    <2>1. obj[i] \in Clients
      BY <1>3, PlacesHold DEF ConnectFails
    <2>2. o \in Clients
      BY <2>1, ConnectErrorKeeps
    <2>3. obj' = [obj EXCEPT ![i] = [o EXCEPT !.sock = "unconnected"]]
      BY <1>3 DEF ConnectFails
    <2> HIDE DEF o
    <2>4. [o EXCEPT !.sock = "unconnected"] \in Clients
      BY <2>2, ClientEdits, Zenon
    <2>5. obj' \in [Ids -> Objects \cup {None}]
      BY <1>t, <1>u, <2>3, <2>4
    <2>6. troubles' \in Nat
      BY <1>3 DEF ConnectFails, TypeOK
    <2>7. QED BY <1>3, <2>5, <2>6 DEF ConnectFails, TypeOK
  <1>4. CASE OnDisconnected(i)
    <2> DEFINE o == ConnectError(obj[i])
    <2>1. obj[i] \in Clients
      BY <1>4, PlacesHold DEF OnDisconnected
    <2>2. o \in Clients
      BY <2>1, ConnectErrorKeeps
    <2>3. obj' = [obj EXCEPT ![i] = CloseClient(o)]
      BY <1>4 DEF OnDisconnected, TypeOK
    <2> HIDE DEF o
    <2>4. CloseClient(o) \in Clients
      BY <2>2, ClientEdits, Zenon DEF CloseClient
    <2>5. obj' \in [Ids -> Objects \cup {None}]
      BY <1>t, <1>u, <2>3, <2>4
    <2>6. troubles' \in Nat
      BY <1>4 DEF OnDisconnected, TypeOK
    <2>7. QED BY <1>4, <1>s, <2>5, <2>6 DEF OnDisconnected, TypeOK
  <1>5. CASE DelayOver(i)
    <2>1. obj[i] \in Clients
      BY <1>5, PlacesHold DEF DelayOver, Present, Living
    <2>2. [obj[i] EXCEPT !.timer = "off"] \in Clients
      BY <2>1, ClientEdits, Zenon
    <2>3. obj' = [obj EXCEPT ![i] = [obj[i] EXCEPT !.timer = "off"]]
      BY <1>5 DEF DelayOver, TypeOK
    <2>4. obj' \in [Ids -> Objects \cup {None}]
      BY <1>t, <1>u, <2>2, <2>3
    <2>5. QED BY <1>5, <2>4 DEF DelayOver, TypeOK
  <1>6. CASE OnNewConnection(i)
    <2>1. obj[i] \in Servers
      BY <1>6, PlacesHold DEF OnNewConnection
    <2>2. NewStream(i) \in Streams
      BY <2>1, NewStreamIs
    <2>3. Fresh \in Ids /\ Fresh # i
      BY <1>6, FreshIsFree DEF OnNewConnection, Present, Living
    <2>4. [obj[i] EXCEPT !.stream = Fresh] \in Servers
      BY <2>1, <2>3, SmallEdits
    <2>5. obj' = [[obj EXCEPT ![Fresh] = NewStream(i)] EXCEPT ![i] = [obj[i] EXCEPT !.stream = Fresh]]
      BY <1>6, <2>3 DEF OnNewConnection, TypeOK
    <2>6. obj' \in [Ids -> Objects \cup {None}]
      BY <1>u, <2>2, <2>3, <2>4, <2>5 DEF TypeOK
    <2>7. QED BY <1>6, <1>s, <2>6 DEF OnNewConnection, TypeOK
  <1>7. CASE StreamDisconnected(i)
    <2>1. obj[i] \in Streams
      BY <1>7, PlacesHold DEF StreamDisconnected, Present, Living
    <2>2. [CloseStream(obj[i]) EXCEPT !.gone = "dying"] \in Streams
      BY <2>1, SmallEdits
    <2>3. obj' \in [Ids -> Objects \cup {None}]
      BY <1>7, <1>t, <1>u, <2>2 DEF StreamDisconnected
    <2>4. troubles' \in Nat
      BY <1>7 DEF StreamDisconnected, TypeOK
    <2>5. QED BY <1>7, <2>3, <2>4 DEF StreamDisconnected, TypeOK
  <1>8. CASE PeerVanishes(i)
    <2>1. obj[i] \in Clients \/ obj[i] \in Streams
      BY <1>8, PlacesHold DEF PeerVanishes, Present, Living
    <2>2. [obj[i] EXCEPT !.alive = FALSE] \in Clients \cup Streams
      BY <2>1, ClientEdits, SmallEdits, Zenon
    <2>3. obj' = [obj EXCEPT ![i] = [obj[i] EXCEPT !.alive = FALSE]]
      BY <1>8 DEF PeerVanishes, TypeOK
    <2>4. obj' \in [Ids -> Objects \cup {None}]
      BY <1>t, <1>u, <2>2, <2>3
    <2>5. troubles' \in Nat
      BY <1>8 DEF PeerVanishes, TypeOK
    <2>6. QED BY <1>8, <2>4, <2>5 DEF PeerVanishes, TypeOK
  <1>9. CASE OnReadyRead(i)
    BY <1>9 DEF OnReadyRead, TypeOK
  <1>10. QED
    BY <1>1, <1>2, <1>3, <1>4, <1>5, <1>6, <1>7, <1>8, <1>9 DEF Network

LEMMA OthersTyped ==
  TypeOK /\ (CheckResetChannel \/ TimeRuns \/ AssignChannel \/ ManOperate \/ LinkCheck)
    => TypeOK'
  <1> SUFFICES ASSUME TypeOK,
                      CheckResetChannel \/ TimeRuns \/ AssignChannel \/ ManOperate \/ LinkCheck
               PROVE TypeOK'
    OBVIOUS
  <1> USE DEF shared, objects, watch, history, Trouble, Change
  <1>1. CASE CheckResetChannel
    <2>1. \A type \in Types : ResetOf(type) \subseteq All
      BY DEF ResetOf, UdpBits, All, Types
    <2>2. reset' \subseteq All
      BY <1>1, <2>1 DEF CheckResetChannel, TypeOK
    <2>3. news' \in BOOLEAN
      BY <1>1 DEF CheckResetChannel, TypeOK
    <2>4. QED BY <1>1, <2>2, <2>3 DEF CheckResetChannel, TypeOK
  <1>2. CASE TimeRuns
    BY <1>2 DEF TimeRuns, TypeOK
  <1>3. CASE AssignChannel
    <2>1. row' \in [valid : BOOLEAN, type : Types, addr : Addrs, timeout : BOOLEAN]
      BY <1>3, ChannelAssumption DEF AssignChannel, TypeOK
    <2>2. reset' \subseteq All /\ owed' \subseteq UdpBits
      BY <1>3 DEF AssignChannel, TypeOK, All
    <2>3. QED BY <1>3, <2>1, <2>2 DEF AssignChannel, TypeOK
  <1>4. CASE ManOperate
    <2>1. row' \in [valid : BOOLEAN, type : Types, addr : Addrs, timeout : BOOLEAN] /\ manStop' \in BOOLEAN
      BY <1>4 DEF ManOperate, TypeOK
    <2>2. QED BY <1>4, <2>1 DEF ManOperate, TypeOK
  <1>5. CASE LinkCheck
    BY <1>5 DEF LinkCheck, TypeOK
  <1>6. QED BY <1>1, <1>2, <1>3, <1>4, <1>5

LEMMA TypeStep == TypeOK /\ ServerInv /\ [Next]_vars => TypeOK'
  <1>1. TypeOK /\ UNCHANGED vars => TypeOK'
    BY DEF vars, shared, objects, watch, history, TypeOK
  <1>2. QED BY <1>1, ManagerTyped, NetworkTyped, OthersTyped DEF Next

-----------------------------------------------------------------------------
(* A step that neither makes, removes nor deletes an object, nor changes    *)
(* the row: sockets may close, and open at the address of the row.          *)
SameObjects ==
  /\ UNCHANGED <<row, srv, owed>>
  /\ \A j \in Ids :
       /\ obj'[j].kind = obj[j].kind /\ obj'[j].gone = obj[j].gone
       /\ obj[j].kind = "server" => obj'[j].stream = obj[j].stream /\ obj'[j].addr = obj[j].addr
       /\ obj[j].kind = "stream" => obj'[j].addr = obj[j].addr
       /\ obj[j].kind = "client" =>
            \/ obj'[j].sock = "unconnected" \/ obj'[j].addr = row.addr
            \/ obj'[j].sock = obj[j].sock /\ obj'[j].addr = obj[j].addr
       /\ obj[j].kind = "udp" => obj'[j].state = obj[j].state \/ obj'[j].state = "Connected"

StaysUp ==
  /\ info' = info
  /\ \A j \in Present : obj[j].kind = "client" /\ obj[j].sock = "connected" =>
       obj'[j].sock = "connected"

LEMMA LivingKinds ==
  /\ TypeOK => Living = {i \in Ids : obj[i].kind # "none"}
  /\ TypeOK' => Living' = {i \in Ids : obj'[i].kind # "none"}
  <1>1. None.kind = "none" /\ \A o \in Objects : o.kind # "none"
    BY KindOf DEF None
  <1>2. TypeOK => Living = {i \in Ids : obj[i].kind # "none"}
    BY <1>1 DEF TypeOK, Living
  <1>3. TypeOK' => Living' = {i \in Ids : obj'[i].kind # "none"}
    BY <1>1 DEF TypeOK, Living
  <1>4. QED BY <1>2, <1>3

LEMMA FrameStep ==
  ASSUME ChannelIInv, TypeOK', SameObjects
  PROVE  /\ OneClient' /\ ServerInv' /\ RowInv' /\ UdpInv'
         /\ Present' = Present
         /\ StaysUp => UpInv'
  <1> USE DEF ChannelIInv, SameObjects
  <1>1. Living' = Living
    BY LivingKinds
  <1>2. Present' = Present /\ Present \subseteq Ids /\ Living \subseteq Ids
    BY <1>1 DEF Present, Living
  <1>3. OneClient'
    BY <1>2 DEF OneClient
  <1>4. ServerInv'
    BY <1>1, <1>2 DEF ServerInv
  <1>5. RowInv'
    BY <1>2 DEF RowInv
  <1>6. UdpInv'
    BY <1>2 DEF UdpInv
  <1>7. ASSUME StaysUp PROVE UpInv'
    <2>1. srv # 0 => obj'[srv].stream = obj[srv].stream
      BY <1>2 DEF ServerInv
    <2>2. NoClient' <=> NoClient
      BY <1>2 DEF NoClient
    <2>3. QED BY <1>2, <1>7, <2>1, <2>2 DEF UpInv, StaysUp
  <1>8. QED BY <1>2, <1>3, <1>4, <1>5, <1>6, <1>7

ObjectInv == OneClient /\ ServerInv /\ RowInv /\ UdpInv /\ UpInv

LEMMA QuietStep ==
  ASSUME ChannelIInv, TypeOK', UNCHANGED <<row, obj, srv, info, owed>>
  PROVE  ObjectInv'
  <1>1. SameObjects /\ StaysUp
    BY DEF SameObjects, StaysUp
  <1>2. QED BY <1>1, FrameStep DEF ObjectInv

LEMMA SendDataStep ==
  ASSUME ChannelIInv, TypeOK', SendData
  PROVE  ObjectInv'
  <1> USE DEF ChannelIInv
  <1>1. \A j \in Ids : obj[j].kind = "client" =>
          /\ OpenClient(obj[j]).kind = "client" /\ OpenClient(obj[j]).gone = obj[j].gone
          /\ obj[j].sock = "connected" => OpenClient(obj[j]).sock = "connected"
          /\ \/ OpenClient(obj[j]).sock = obj[j].sock /\ OpenClient(obj[j]).addr = obj[j].addr
             \/ OpenClient(obj[j]).addr = row.addr
    <2>1. row \in RowType
      BY DEF TypeOK, RowType
    <2>2. \A j \in Ids : obj[j].kind = "client" => obj[j] \in Clients
      BY PlacesHold
    <2>3. \A j \in Ids : obj[j].kind = "client" => OpenClient(obj[j]) \in Clients
      BY <2>1, <2>2, OpenKeeps
    <2>4. QED BY <2>1, <2>2, <2>3, OpenKeeps DEF Clients
  <1>2. \A j \in Ids : obj[j].kind = "udp" =>
          /\ OpenUdp(obj[j]).kind = "udp" /\ OpenUdp(obj[j]).gone = obj[j].gone
          /\ OpenUdp(obj[j]).state = obj[j].state \/ OpenUdp(obj[j]).state = "Connected"
    BY PlacesHold DEF OpenUdp, Udps
  <1>3. SameObjects
    BY <1>1, <1>2 DEF SendData, SameObjects, history
  <1>4. info' = info
    BY DEF SendData, UdpInv
  <1>5. StaysUp
    BY <1>1, <1>4 DEF SendData, StaysUp, Present, Living
  <1>6. QED BY <1>3, <1>5, FrameStep DEF ObjectInv

LEMMA RemakeClientStep ==
  ASSUME ChannelIInv, TypeOK', RemakeClient
  PROVE  ObjectInv'
  <1> USE DEF ChannelIInv
  <1>1. /\ UNCHANGED <<row, srv>> /\ owed' = owed \ {"client"}
        /\ row.valid => info' = IF WantsClient \/ OfKind("client") # {} THEN "DOWN" ELSE info
    BY DEF RemakeClient, Shows
  <1>2. ASSUME NEW j \in Ids
        PROVE  IF obj[j].kind = "client" THEN obj'[j].kind = "client" /\ obj'[j].gone = "removed"
               ELSE \/ obj'[j] = obj[j]
                    \/ /\ WantsClient /\ j = Fresh /\ obj[j] = None
                       /\ obj'[j].kind = "client" /\ obj'[j].addr = row.addr
                       /\ obj'[j].gone = "no"
    <2>1. j \in Living => Removed(obj[j]).kind = obj[j].kind /\ Removed(obj[j]).gone = "removed"
      BY PlacesHold, RemovedIs
    <2>2. obj[j].kind = "client" => j \in Living
      BY PlacesHold
    <2>3. Without({"client"})[j] = IF obj[j].kind = "client" THEN Removed(obj[j]) ELSE obj[j]
      BY <2>2 DEF Without
    <2>4. WantsClient =>
            /\ Fresh \in Ids /\ obj[Fresh] = None /\ NewClient.kind = "client"
            /\ NewClient.addr = row.addr /\ NewClient.gone = "no"
      BY FreshIsFree, NewClientIs DEF RemakeClient, TypeOK, RowType
    <2>5. None.kind = "none"
      BY DEF None
    <2>6. Without({"client"}) = [i \in Ids |-> Without({"client"})[i]]
      BY DEF Without
    <2>7. QED BY <2>1, <2>2, <2>3, <2>4, <2>5, <2>6 DEF RemakeClient
  <1>3. None.kind = "none"
    BY DEF None
  <1>4. Living = {i \in Ids : obj[i].kind # "none"} /\ Living' = {i \in Ids : obj'[i].kind # "none"}
    BY LivingKinds
  <1>5. OneClient'
    BY <1>2, <1>3, <1>4 DEF OneClient, Present
  <1>6. srv # 0 => obj'[srv] = obj[srv] /\ srv \in Ids
    BY <1>2, <1>3, <1>4 DEF ServerInv, Present
  <1>7. ServerInv'
    <2>1. srv # 0 /\ obj[srv].stream # 0 => obj'[obj[srv].stream] = obj[obj[srv].stream]
      BY <1>2, <1>3, <1>4 DEF ServerInv, Present
    <2>2. srv' = srv /\ (srv # 0 => srv \in Present' /\ obj'[srv].kind = "server"
            /\ (obj'[srv].stream # 0 =>
               /\ obj'[srv].stream \in Living'
               /\ obj'[obj'[srv].stream].kind = "stream"
               /\ obj'[obj'[srv].stream].gone # "removed"))
      BY <1>1, <1>4, <1>6, <2>1 DEF ServerInv, Present
    <2>3. \A i \in Present' : obj'[i].kind = "server" => i = srv
      BY <1>2, <1>3, <1>4 DEF ServerInv, Present
    <2>4. \A i \in Living' : obj'[i].kind = "stream" =>
            IF obj'[i].gone = "removed" THEN srv # 0 => obj'[srv].stream = 0
            ELSE srv # 0 /\ obj'[srv].stream = i
      BY <1>2, <1>3, <1>4, <1>6 DEF ServerInv, Present
    <2>5. QED BY <2>2, <2>3, <2>4 DEF ServerInv
  <1>8. RowInv'
    BY <1>1, <1>2, <1>3, <1>4 DEF RowInv, Present, WantsClient
  <1>9. UdpInv'
    BY <1>2, <1>3, <1>4 DEF UdpInv, Present
  <1>10. UpInv'
    <2>1. CASE WantsClient \/ OfKind("client") # {}
      BY <1>1, <2>1 DEF UpInv
    <2>2. CASE ~WantsClient /\ OfKind("client") = {}
      <3>1. NoClient
        BY <2>2 DEF NoClient, OfKind, Present
      <3>2. NoClient'
        BY <1>2, <1>3, <1>4, <2>2 DEF NoClient, Present, OfKind
      <3>3. row.valid => info' = info
        BY <1>1, <2>2
      <3>4. QED BY <1>1, <1>6, <3>1, <3>2, <3>3 DEF UpInv, NoClient
    <2>3. QED BY <2>1, <2>2
  <1>11. QED BY <1>5, <1>7, <1>8, <1>9, <1>10 DEF ObjectInv

LEMMA RemakeServerStep ==
  ASSUME ChannelIInv, TypeOK', RemakeServer
  PROVE  ObjectInv'
  <1> USE DEF ChannelIInv
  <1> DEFINE kinds == {"server", "stream"}
  <1>1. /\ row' = row /\ owed' = owed \ {"server"}
        /\ WantsServer => srv' = Fresh /\ info' # "UP"
        /\ ~WantsServer => srv' = 0 /\ (row.valid => info' = IF srv # 0 THEN "DOWN" ELSE info)
    BY DEF RemakeServer, Shows
  <1>2. WantsServer => Fresh \in Ids /\ obj[Fresh] = None /\ Fresh # 0
    BY FreshIsFree DEF RemakeServer
  <1>3. None.kind = "none"
    BY DEF None
  <1>4. ASSUME NEW j \in Ids
        PROVE  IF obj[j].kind \in kinds
               THEN obj'[j].kind = obj[j].kind /\ obj'[j].gone = "removed"
               ELSE \/ obj'[j] = obj[j] /\ (WantsServer => j # Fresh)
                    \/ /\ WantsServer /\ j = Fresh /\ obj[j] = None
                       /\ obj'[j].kind = "server" /\ obj'[j].addr = row.addr
                       /\ obj'[j].gone = "no" /\ obj'[j].stream = 0
    <2>1. j \in Living => Removed(obj[j]).kind = obj[j].kind /\ Removed(obj[j]).gone = "removed"
      BY PlacesHold, RemovedIs
    <2>2. obj[j].kind \in kinds => j \in Living
      BY PlacesHold
    <2>3. Without(kinds)[j] = IF obj[j].kind \in kinds THEN Removed(obj[j]) ELSE obj[j]
      BY <2>2 DEF Without
    <2>4. \A sock \in {"listening", "unconnected"} :
            /\ NewServer(sock).kind = "server" /\ NewServer(sock).addr = row.addr
            /\ NewServer(sock).gone = "no" /\ NewServer(sock).stream = 0
      BY NewOnes DEF TypeOK, RowType
    <2>5. Without(kinds) = [i \in Ids |-> Without(kinds)[i]]
      BY DEF Without
    <2>6. CASE WantsServer
      <3>1. PICK sock \in {"listening", "unconnected"} :
              obj' = [Without(kinds) EXCEPT ![Fresh] = NewServer(sock)]
        BY <2>6 DEF RemakeServer
      <3>2. QED BY <1>2, <1>3, <2>1, <2>2, <2>3, <2>4, <2>5, <2>6, <3>1
    <2>7. CASE ~WantsServer
      <3>1. obj' = Without(kinds)
        BY <2>7 DEF RemakeServer
      <3>2. QED BY <2>1, <2>2, <2>3, <2>7, <3>1
    <2>8. QED BY <2>6, <2>7
  <1>5. Living = {i \in Ids : obj[i].kind # "none"} /\ Living' = {i \in Ids : obj'[i].kind # "none"}
    BY LivingKinds
  <1>6. OneClient'
    BY <1>3, <1>4, <1>5 DEF OneClient, Present
  <1>7. ServerInv'
    <2>1. srv' # 0 => /\ srv' \in Present' /\ obj'[srv'].kind = "server" /\ obj'[srv'].stream = 0
      BY <1>1, <1>2, <1>3, <1>4, <1>5 DEF Present
    <2>2. \A i \in Present' : obj'[i].kind = "server" => i = srv'
      BY <1>1, <1>4, <1>5 DEF Present
    <2>3. \A i \in Living' : obj'[i].kind = "stream" => obj'[i].gone = "removed"
      BY <1>4, <1>5
    <2>4. QED BY <2>1, <2>2, <2>3 DEF ServerInv
  <1>8. RowInv'
    BY <1>1, <1>3, <1>4, <1>5 DEF RowInv, Present, WantsServer
  <1>9. UdpInv'
    BY <1>3, <1>4, <1>5 DEF UdpInv, Present
  <1>10. UpInv'
    <2>1. CASE WantsServer \/ srv # 0
      BY <1>1, <2>1 DEF UpInv
    <2>2. CASE ~WantsServer /\ srv = 0
      <3>1. row.valid => info' = info
        BY <1>1, <2>2
      <3>2. \A i \in Present' : obj'[i].kind = "client" => i \in Present /\ obj'[i] = obj[i]
        BY <1>3, <1>4, <1>5 DEF Present
      <3>3. QED BY <1>1, <2>2, <3>1, <3>2 DEF UpInv
    <2>3. QED BY <2>1, <2>2
  <1>11. QED BY <1>6, <1>7, <1>8, <1>9, <1>10 DEF ObjectInv

LEMMA RemakeUdpStep ==
  ASSUME ChannelIInv, TypeOK', RemakeUdp
  PROVE  ObjectInv'
  <1> USE DEF ChannelIInv
  <1>1. /\ UNCHANGED <<row, srv, owed>>
        /\ row.valid /\ ~WantsUdp => info' \in {"DOWN", info}
    BY DEF RemakeUdp, Shows
  <1>2. ASSUME NEW j \in Ids
        PROVE  IF obj[j].kind = "udp" THEN obj'[j].kind = "udp" /\ obj'[j].gone = "removed"
               ELSE \/ obj'[j] = obj[j]
                    \/ /\ obj[j] = None /\ obj'[j].kind = "udp"
                       /\ obj'[j].gone = "no" /\ obj'[j].state = "Connected"
    <2>1. j \in Living => Removed(obj[j]).kind = obj[j].kind /\ Removed(obj[j]).gone = "removed"
      BY PlacesHold, RemovedIs
    <2>2. obj[j].kind = "udp" => j \in Living
      BY PlacesHold
    <2>3. Without({"udp"})[j] = IF obj[j].kind = "udp" THEN Removed(obj[j]) ELSE obj[j]
      BY <2>2 DEF Without
    <2>4. WantsUdp =>
            /\ Fresh \in Ids /\ obj[Fresh] = None /\ NewUdp.kind = "udp"
            /\ NewUdp.state = "Connected" /\ NewUdp.gone = "no"
      BY FreshIsFree, NewOnes DEF RemakeUdp, TypeOK, RowType, WantsUdp
    <2>5. None.kind = "none"
      BY DEF None
    <2>6. Without({"udp"}) = [i \in Ids |-> Without({"udp"})[i]]
      BY DEF Without
    <2>7. QED BY <2>1, <2>2, <2>3, <2>4, <2>5, <2>6 DEF RemakeUdp
  <1>3. None.kind = "none"
    BY DEF None
  <1>4. Living = {i \in Ids : obj[i].kind # "none"} /\ Living' = {i \in Ids : obj'[i].kind # "none"}
    BY LivingKinds
  <1>5. OneClient'
    BY <1>2, <1>3, <1>4 DEF OneClient, Present
  <1>6. srv # 0 => obj'[srv] = obj[srv] /\ srv \in Ids
    BY <1>2, <1>3, <1>4 DEF ServerInv, Present
  <1>7. ServerInv'
    <2>1. srv # 0 /\ obj[srv].stream # 0 => obj'[obj[srv].stream] = obj[obj[srv].stream]
      BY <1>2, <1>3, <1>4 DEF ServerInv, Present
    <2>2. srv' = srv /\ (srv # 0 => srv \in Present' /\ obj'[srv].kind = "server"
            /\ (obj'[srv].stream # 0 =>
               /\ obj'[srv].stream \in Living'
               /\ obj'[obj'[srv].stream].kind = "stream"
               /\ obj'[obj'[srv].stream].gone # "removed"))
      BY <1>1, <1>4, <1>6, <2>1 DEF ServerInv, Present
    <2>3. \A i \in Present' : obj'[i].kind = "server" => i = srv
      BY <1>2, <1>3, <1>4 DEF ServerInv, Present
    <2>4. \A i \in Living' : obj'[i].kind = "stream" =>
            IF obj'[i].gone = "removed" THEN srv # 0 => obj'[srv].stream = 0
            ELSE srv # 0 /\ obj'[srv].stream = i
      BY <1>2, <1>3, <1>4, <1>6 DEF ServerInv, Present
    <2>5. QED BY <2>2, <2>3, <2>4 DEF ServerInv
  <1>8. RowInv'
    BY <1>1, <1>2, <1>3, <1>4 DEF RowInv, Present
  <1>9. UdpInv'
    BY <1>2, <1>3, <1>4 DEF UdpInv, Present
  <1>c. \A i \in Ids : obj'[i].kind = "client" => obj'[i] = obj[i]
    BY <1>2
  <1>10. UpInv'
    <2>1. CASE WantsUdp
      <3>1. \A i \in Present' : obj'[i].kind = "client" => "client" \in owed
        BY <1>4, <1>c, <2>1 DEF RowInv, Present, WantsUdp
      <3>2. srv # 0 => "server" \in owed
        BY <2>1 DEF RowInv, ServerInv, WantsUdp
      <3>3. QED BY <1>1, <3>1, <3>2 DEF UpInv
    <2>2. CASE ~WantsUdp
      <3>1. NoClient' => NoClient
        BY <1>2, <1>3, <1>4 DEF NoClient, Present
      <3>2. \A i \in Present' : obj'[i].kind = "client" => i \in Present
        BY <1>4, <1>c DEF Present
      <3>3. row.valid /\ info' = "UP" => info = "UP"
        BY <1>1, <2>2
      <3>4. ASSUME row.valid, info = "UP", "client" \notin owed, "server" \notin owed \/ srv = 0
            PROVE  \A i \in Present' : obj'[i].kind = "client" => obj'[i].sock = "connected"
        <4>1. \A i \in Present : obj[i].kind = "client" => obj[i].sock = "connected"
          BY <3>4 DEF UpInv
        <4>2. QED BY <1>4, <1>c, <3>2, <4>1 DEF Present
      <3>5. ASSUME row.valid, info = "UP", "server" \notin owed, srv # 0,
                   "client" \notin owed \/ NoClient'
            PROVE  obj'[srv].stream # 0
        BY <1>6, <3>1, <3>5 DEF UpInv
      <3>6. QED BY <1>1, <3>3, <3>4, <3>5 DEF UpInv
    <2>3. QED BY <2>1, <2>2
  <1>11. QED BY <1>5, <1>7, <1>8, <1>9, <1>10 DEF ObjectInv

LEMMA DestroyStep ==
  ASSUME ChannelIInv, TypeOK', NEW i \in Ids, Destroy(i)
  PROVE  ObjectInv'
  <1> USE DEF ChannelIInv
  <1>1. /\ i \in Living /\ obj[i].gone # "no" /\ UNCHANGED <<row, srv, owed>>
        /\ info' = IF obj[i].kind = "stream" THEN Shows("LISTEN") ELSE info
    BY DEF Destroy, history
  <1>2. \A j \in Ids : j = srv => obj[j].kind = "server" /\ obj[j] \in Servers
    BY PlacesHold, ChannelAssumption DEF ServerInv, Present
  <1>3. None.kind = "none"
    BY DEF None
  <1>4. Living = {j \in Ids : obj[j].kind # "none"} /\ Living' = {j \in Ids : obj'[j].kind # "none"}
    BY LivingKinds
  <1>5. i # srv
    BY <1>1, ChannelAssumption DEF ServerInv, Present
  <1>6. ASSUME NEW j \in Ids
        PROVE  IF j = i THEN obj'[j] = None
               ELSE IF j = srv /\ obj[i].kind = "stream"
               THEN /\ obj'[j].kind = "server" /\ obj'[j].gone = obj[j].gone
                    /\ obj'[j].addr = obj[j].addr /\ obj'[j].stream = 0
               ELSE obj'[j] = obj[j]
    BY <1>2 DEF Destroy, Servers
  <1>7. Present' = Present
    BY <1>1, <1>2, <1>3, <1>4, <1>6 DEF Present
  <1>8. OneClient'
    BY <1>1, <1>2, <1>6, <1>7 DEF OneClient, Present, Living
  <1>9. ServerInv'
    <2>1. CASE obj[i].kind = "stream"
      <3>1. srv # 0 => /\ srv \in Present' /\ obj'[srv].kind = "server"
                      /\ obj'[srv].stream = 0
        BY <1>4, <1>5, <1>6, <1>7, <2>1 DEF ServerInv, Present
      <3>2. \A j \in Present' : obj'[j].kind = "server" => j = srv
        BY <1>1, <1>6, <1>7 DEF ServerInv, Present, Living
      <3>3. \A j \in Living' : obj'[j].kind = "stream" =>
              j # i /\ j \in Living /\ obj'[j] = obj[j]
        BY <1>2, <1>3, <1>4, <1>6
      <3>4. \A j \in Living' : obj'[j].kind = "stream" => obj[j].gone = "removed"
        <4>1. ASSUME NEW j \in Living, j # i, obj[j].kind = "stream", obj[j].gone # "removed"
              PROVE  FALSE
          <5>1. srv # 0 /\ obj[srv].stream = j
            BY <4>1 DEF ServerInv
          <5>2. obj[i].gone = "removed" => obj[srv].stream = 0
            BY <1>1, <2>1, <5>1 DEF ServerInv
          <5>3. obj[i].gone # "removed" => obj[srv].stream = i
            BY <1>1, <2>1, <5>1 DEF ServerInv
          <5>4. j # 0
            BY ChannelAssumption DEF Living
          <5>5. QED BY <4>1, <5>1, <5>2, <5>3, <5>4
        <4>2. QED BY <3>3, <4>1
      <3>5. QED BY <1>1, <3>1, <3>2, <3>3, <3>4 DEF ServerInv
    <2>2. CASE obj[i].kind # "stream"
      <3>1. \A j \in Ids \ {i} : obj'[j] = obj[j]
        BY <1>6, <2>2
      <3>2. srv # 0 => srv \in Ids \ {i} /\ obj[srv].stream # i
        <4>1. i # 0
          BY ChannelAssumption
        <4>2. QED BY <1>4, <1>5, <2>2, <4>1 DEF ServerInv, Present
      <3>3. srv # 0 /\ obj[srv].stream # 0 => obj[srv].stream \in Ids
        BY <1>4 DEF ServerInv
      <3>4. obj'[i].kind = "none"
        BY <1>3, <1>6
      <3>5. \A j \in Present : j # i
        BY <1>1 DEF Present
      <3>6. srv # 0 =>
              /\ srv \in Present' /\ obj'[srv].kind = "server"
              /\ (obj'[srv].stream # 0 =>
                   /\ obj'[srv].stream \in Living'
                   /\ obj'[obj'[srv].stream].kind = "stream"
                   /\ obj'[obj'[srv].stream].gone # "removed")
        BY <1>4, <1>7, <3>1, <3>2, <3>3 DEF ServerInv
      <3>7. \A j \in Present' : obj'[j].kind = "server" => j = srv
        BY <1>7, <3>1, <3>5 DEF ServerInv, Present, Living
      <3>8. \A j \in Living' : obj'[j].kind = "stream" =>
              j \in Living /\ obj'[j] = obj[j]
        BY <1>4, <3>1, <3>4
      <3>9. srv # 0 => obj'[srv] = obj[srv]
        BY <3>1, <3>2
      <3>10. QED BY <1>1, <3>6, <3>7, <3>8, <3>9 DEF ServerInv
    <2>3. QED BY <2>1, <2>2
  <1>10. RowInv'
    BY <1>1, <1>2, <1>6, <1>7 DEF RowInv, Present, Living
  <1>11. UdpInv'
    BY <1>1, <1>2, <1>6, <1>7 DEF UdpInv, Present, Living
  <1>12. UpInv'
    <2>1. CASE obj[i].kind = "stream"
      BY <1>1, <2>1 DEF UpInv, Shows
    <2>2. CASE obj[i].kind # "stream"
      <3>1. \A j \in Present : obj'[j] = obj[j]
        BY <1>1, <1>6, <2>2 DEF Present, Living
      <3>2. QED BY <1>1, <1>7, <2>2, <3>1 DEF UpInv, NoClient, ServerInv
    <2>3. QED BY <2>1, <2>2
  <1>13. QED BY <1>8, <1>9, <1>10, <1>11, <1>12 DEF ObjectInv

(* The events of a client that is there.                                    *)
LEMMA ClientStep ==
  ASSUME ChannelIInv, TypeOK', NEW i \in Ids,
         OnConnected(i) \/ ConnectFails(i) \/ OnDisconnected(i) \/ DelayOver(i)
  PROVE  ObjectInv'
  <1> USE DEF ChannelIInv
  <1>1. i \in Present /\ obj[i].kind = "client" /\ obj[i] \in Clients
    BY PlacesHold DEF OnConnected, ConnectFails, OnDisconnected, DelayOver, Client
  <1>2. UNCHANGED <<row, srv, owed>> /\ \A j \in Ids \ {i} : obj'[j] = obj[j]
    BY DEF OnConnected, ConnectFails, OnDisconnected, DelayOver, shared, history, TypeOK
  <1>3. obj[i].kind = "client"
    BY <1>1
  <1>4. ASSUME obj'[i].kind = "client", obj'[i].gone = obj[i].gone,
               \/ obj'[i].sock = "unconnected"
               \/ obj'[i].addr = obj[i].addr /\ obj[i].sock # "unconnected"
               \/ obj'[i].addr = obj[i].addr /\ obj'[i].sock = obj[i].sock
        PROVE  OneClient' /\ ServerInv' /\ RowInv' /\ UdpInv' /\ Present' = Present
    <2>1. Living' = Living
      BY <1>2, <1>3, <1>4, LivingKinds
    <2>2. Present' = Present /\ Present \subseteq Ids /\ Living \subseteq Ids
      BY <1>2, <1>4, <2>1 DEF Present, Living
    <2>3. \A j \in Ids : obj[j].kind # "client" => obj'[j] = obj[j]
      BY <1>2, <1>3
    <2>4. OneClient'
      BY <1>2, <1>3, <2>2 DEF OneClient
    <2>5. ServerInv'
      BY <1>2, <1>3, <1>4, <2>1, <2>2, <2>3 DEF ServerInv
    <2>6. RowInv'
      <3>1. obj[i].addr = row.addr \/ obj[i].sock = "unconnected" \/ "client" \in owed
        BY <1>1 DEF RowInv
      <3>2. "client" \notin owed => row.type = "client"
        BY <1>1 DEF RowInv
      <3>3. QED BY <1>2, <1>3, <1>4, <2>2, <2>3, <3>1, <3>2 DEF RowInv
    <2>7. UdpInv'
      BY <1>2, <1>3, <1>4, <2>2, <2>3 DEF UdpInv
    <2>8. QED BY <2>2, <2>4, <2>5, <2>6, <2>7
  <1>5. \A j \in Present : obj[j].kind = "client" => j = i
    BY <1>1 DEF OneClient
  <1>6. srv # 0 => srv \in Ids \ {i} /\ obj'[srv] = obj[srv]
    BY <1>2, <1>3 DEF ServerInv, Present, Living
  <1>7. CASE OnConnected(i)
    <2>1. /\ obj'[i].kind = "client" /\ obj'[i].gone = obj[i].gone
          /\ obj'[i].addr = obj[i].addr /\ obj'[i].sock = "connected"
          /\ obj[i].sock = "connecting"
      BY <1>1, <1>7 DEF OnConnected, Clients, TypeOK
    <2>2. OneClient' /\ ServerInv' /\ RowInv' /\ UdpInv' /\ Present' = Present
      BY <1>4, <2>1
    <2>3. UpInv'
      <3>1. \A j \in Present' : obj'[j].kind = "client" => obj'[j].sock = "connected"
        BY <1>2, <1>5, <2>1, <2>2 DEF Present, Living
      <3>2. ~NoClient'
        BY <1>1, <2>1, <2>2 DEF NoClient
      <3>3. srv # 0 => "client" \in owed \/ "server" \in owed
        BY <1>1 DEF RowInv, ServerInv
      <3>4. QED BY <1>2, <3>1, <3>2, <3>3 DEF UpInv
    <2>4. QED BY <2>2, <2>3 DEF ObjectInv
  <1>8. CASE ConnectFails(i)
    <2>1. /\ obj'[i].kind = "client" /\ obj'[i].gone = obj[i].gone
          /\ obj'[i].sock = "unconnected" /\ obj[i].sock = "connecting" /\ info' = info
      <3>1. /\ ConnectError(obj[i]) \in Clients
            /\ ConnectError(obj[i]).gone = obj[i].gone
        BY <1>1, ConnectErrorKeeps
      <3>2. obj'[i] = [ConnectError(obj[i]) EXCEPT !.sock = "unconnected"]
        BY <1>8 DEF ConnectFails, TypeOK
      <3>3. obj[i].sock = "connecting" /\ info' = info
        BY <1>8 DEF ConnectFails, shared
      <3>4. QED BY <3>1, <3>2, <3>3 DEF Clients
    <2>2. OneClient' /\ ServerInv' /\ RowInv' /\ UdpInv' /\ Present' = Present
      BY <1>4, <2>1
    <2>3. UpInv'
      <3>1. NoClient' <=> NoClient
        BY <1>1, <2>1, <2>2 DEF NoClient
      <3>2. obj[i].sock # "connected"
        BY <2>1
      <3>3. QED BY <1>1, <1>2, <1>6, <2>1, <2>2, <3>1, <3>2 DEF UpInv
    <2>4. QED BY <2>2, <2>3 DEF ObjectInv
  <1>9. CASE OnDisconnected(i)
    <2>1. /\ obj'[i].kind = "client" /\ obj'[i].gone = obj[i].gone
          /\ obj'[i].sock = "unconnected" /\ (row.valid => info' = "DOWN")
      <3>1. /\ ConnectError(obj[i]) \in Clients
            /\ ConnectError(obj[i]).gone = obj[i].gone
        BY <1>1, ConnectErrorKeeps
      <3>2. obj'[i] = CloseClient(ConnectError(obj[i]))
        BY <1>9 DEF OnDisconnected, TypeOK
      <3>3. row.valid => info' = "DOWN"
        BY <1>9 DEF OnDisconnected, Shows
      <3>4. QED BY <3>1, <3>2, <3>3 DEF Clients, CloseClient
    <2>2. OneClient' /\ ServerInv' /\ RowInv' /\ UdpInv' /\ Present' = Present
      BY <1>4, <2>1
    <2>3. UpInv'
      BY <1>2, <2>1 DEF UpInv
    <2>4. QED BY <2>2, <2>3 DEF ObjectInv
  <1>10. CASE DelayOver(i)
    <2>1. /\ obj'[i].kind = "client" /\ obj'[i].gone = obj[i].gone
          /\ obj'[i].sock = obj[i].sock /\ obj'[i].addr = obj[i].addr /\ info' = info
      BY <1>1, <1>10 DEF DelayOver, Clients, TypeOK, shared
    <2>2. OneClient' /\ ServerInv' /\ RowInv' /\ UdpInv' /\ Present' = Present
      BY <1>4, <2>1
    <2>3. UpInv'
      <3>1. NoClient' <=> NoClient
        BY <1>1, <2>1, <2>2 DEF NoClient
      <3>2. \A j \in Present : obj'[j].kind = "client" => obj[j].kind = "client" /\ obj'[j].sock = obj[j].sock
        BY <1>2, <1>3, <2>1 DEF Present, Living
      <3>3. QED BY <1>2, <1>6, <2>1, <2>2, <3>1, <3>2 DEF UpInv
    <2>4. QED BY <2>2, <2>3 DEF ObjectInv
  <1>11. QED BY <1>7, <1>8, <1>9, <1>10

LEMMA PeerVanishesStep ==
  ASSUME ChannelIInv, TypeOK', NEW i \in Ids, PeerVanishes(i)
  PROVE  ObjectInv'
  <1> USE DEF ChannelIInv
  <1>1. obj[i] \in Clients \/ obj[i] \in Streams
    BY PlacesHold DEF PeerVanishes, Present, Living
  <1>2. /\ obj'[i] = [obj[i] EXCEPT !.alive = FALSE]
        /\ \A j \in Ids \ {i} : obj'[j] = obj[j]
        /\ UNCHANGED <<row, srv, owed, info>>
    BY DEF PeerVanishes, TypeOK, shared
  <1>3. /\ obj'[i].kind = obj[i].kind /\ obj'[i].gone = obj[i].gone
        /\ obj'[i].addr = obj[i].addr /\ obj'[i].sock = obj[i].sock
        /\ obj[i].kind \in {"client", "stream"}
    BY <1>1, <1>2 DEF Clients, Streams
  <1>4. SameObjects /\ StaysUp
    BY <1>2, <1>3 DEF SameObjects, StaysUp, Present, Living
  <1>5. QED BY <1>4, FrameStep DEF ObjectInv

LEMMA NewConnectionStep ==
  ASSUME ChannelIInv, TypeOK', NEW s \in Ids, OnNewConnection(s)
  PROVE  ObjectInv'
  <1> USE DEF ChannelIInv
  <1>1. /\ s \in Present /\ obj[s].kind = "server" /\ obj[s] \in Servers
        /\ NoneRemoved /\ obj[s].stream \notin Living
        /\ UNCHANGED <<row, srv, owed>> /\ (row.valid => info' = "UP")
    BY PlacesHold DEF OnNewConnection, QtFree, Finds, Shows, Present, history
  <1>2. s = srv /\ srv # 0 /\ obj[s].stream = 0
    BY <1>1, ChannelAssumption DEF ServerInv
  <1>3. Fresh \in Ids /\ obj[Fresh] = None /\ Fresh # 0 /\ Fresh # s
    BY <1>1, FreshIsFree DEF OnNewConnection, Present, Living
  <1>4. None.kind = "none"
    BY DEF None
  <1>5. /\ obj'[Fresh].kind = "stream" /\ obj'[Fresh].gone = "no"
        /\ obj'[Fresh].addr = obj[s].addr
        /\ obj'[s].kind = "server" /\ obj'[s].gone = "no"
        /\ obj'[s].addr = obj[s].addr /\ obj'[s].stream = Fresh
        /\ \A j \in Ids \ {s, Fresh} : obj'[j] = obj[j]
    <2>1. obj' = [[obj EXCEPT ![Fresh] = NewStream(s)] EXCEPT ![s] = [obj[s] EXCEPT !.stream = Fresh]]
      BY <1>3 DEF OnNewConnection, TypeOK
    <2>2. NewStream(s).kind = "stream" /\ NewStream(s).gone = "no" /\ NewStream(s).addr = obj[s].addr
      BY <1>1, NewStreamIs
    <2>3. obj[s].gone = "no"
      BY <1>1 DEF Present
    <2>4. QED BY <1>1, <1>3, <2>1, <2>2, <2>3 DEF TypeOK, Servers
  <1>6. /\ Living = {j \in Ids : obj[j].kind # "none"}
        /\ Living' = {j \in Ids : obj'[j].kind # "none"}
    BY LivingKinds
  <1>7. Living' = Living \cup {Fresh} /\ Present' = Present \cup {Fresh} /\ Fresh \notin Living
    BY <1>1, <1>3, <1>4, <1>5, <1>6 DEF Present
  <1>8. \A j \in Living : obj[j].kind = "stream" => FALSE
    <2>1. ASSUME NEW j \in Living, obj[j].kind = "stream" PROVE FALSE
      <3>1. obj[j].gone # "removed" /\ j # 0
        BY <1>1, <2>1, ChannelAssumption DEF NoneRemoved, Living
      <3>2. obj[srv].stream = j
        BY <2>1, <3>1 DEF ServerInv
      <3>3. QED BY <1>2, <3>1, <3>2
    <2>2. QED BY <2>1
  <1>9. \A j \in Living \ {s} : obj'[j] = obj[j]
    BY <1>5, <1>6, <1>7
  <1>10. OneClient'
    BY <1>1, <1>5, <1>7, <1>9 DEF OneClient, Present
  <1>11. ServerInv'
    <2>1. \A j \in Present' : obj'[j].kind = "server" => j = srv
      BY <1>2, <1>5, <1>7, <1>9 DEF ServerInv, Present
    <2>2. \A j \in Living' : obj'[j].kind = "stream" => j = Fresh
      BY <1>5, <1>7, <1>8, <1>9
    <2>3. QED BY <1>1, <1>2, <1>5, <1>7, <2>1, <2>2 DEF ServerInv
  <1>12. RowInv'
    <2>1. "server" \notin owed => row.type = "server" /\ obj[s].addr = row.addr
      BY <1>1 DEF RowInv
    <2>2. QED BY <1>1, <1>2, <1>5, <1>7, <1>9, <2>1 DEF RowInv, Present
  <1>13. UdpInv'
    BY <1>1, <1>5, <1>7, <1>9 DEF UdpInv, Present
  <1>14. UpInv'
    <2>1. "client" \notin owed /\ "server" \notin owed => NoClient
      BY <1>1 DEF RowInv, NoClient
    <2>2. NoClient' <=> NoClient
      BY <1>1, <1>5, <1>7, <1>9 DEF NoClient, Present
    <2>3. NoClient' => \A j \in Present' : obj'[j].kind # "client"
      BY DEF NoClient
    <2>4. QED BY <1>1, <1>2, <1>3, <1>5, <2>1, <2>2, <2>3 DEF UpInv
  <1>15. QED BY <1>10, <1>11, <1>12, <1>13, <1>14 DEF ObjectInv

LEMMA StreamDisconnectedStep ==
  ASSUME ChannelIInv, TypeOK', NEW i \in Ids, StreamDisconnected(i)
  PROVE  ObjectInv'
  <1> USE DEF ChannelIInv
  <1>1. /\ i \in Present /\ obj[i].kind = "stream" /\ obj[i] \in Streams
        /\ UNCHANGED <<row, srv, owed, info>>
    BY PlacesHold DEF StreamDisconnected, Present, Living, shared
  <1>2. /\ obj'[i].kind = "stream" /\ obj'[i].gone = "dying"
        /\ \A j \in Ids \ {i} : obj'[j] = obj[j]
    BY <1>1 DEF StreamDisconnected, CloseStream, Streams, TypeOK
  <1>3. Living' = Living /\ Living \subseteq Ids
    BY <1>1, <1>2, LivingKinds DEF Living
  <1>4. Present' = Present \ {i} /\ Present \subseteq Ids
    BY <1>2, <1>3 DEF Present
  <1>5. srv # 0 => srv \in Present' /\ obj'[srv] = obj[srv]
    BY <1>1, <1>2, <1>4 DEF ServerInv
  <1>6. OneClient'
    BY <1>2, <1>4 DEF OneClient
  <1>7. ServerInv'
    <2>1. srv # 0 /\ obj[srv].stream # 0 =>
            /\ obj[srv].stream \in Living /\ obj'[obj[srv].stream].kind = "stream"
            /\ obj'[obj[srv].stream].gone # "removed"
      BY <1>2, <1>3 DEF ServerInv
    <2>2. \A j \in Present' : obj'[j].kind = "server" => j = srv
      BY <1>2, <1>4 DEF ServerInv
    <2>3. \A j \in Living' : obj'[j].kind = "stream" =>
            /\ obj[j].kind = "stream"
            /\ obj'[j].gone = "removed" <=> obj[j].gone = "removed"
      <3>1. obj[i].gone = "no"
        BY <1>1 DEF Present
      <3>2. QED BY <1>1, <1>2, <1>3, <3>1
    <2>4. \A j \in Living' : obj'[j].kind = "stream" =>
            IF obj'[j].gone = "removed" THEN srv # 0 => obj'[srv].stream = 0
            ELSE srv # 0 /\ obj'[srv].stream = j
      BY <1>3, <1>5, <2>3 DEF ServerInv
    <2>5. QED BY <1>1, <1>3, <1>5, <2>1, <2>2, <2>4 DEF ServerInv
  <1>8. RowInv'
    BY <1>1, <1>2, <1>4 DEF RowInv
  <1>9. UdpInv'
    BY <1>1, <1>2, <1>4 DEF UdpInv
  <1>10. UpInv'
    <2>1. NoClient' => NoClient
      BY <1>1, <1>2, <1>4 DEF NoClient
    <2>2. \A j \in Present' : j \in Present /\ obj'[j] = obj[j]
      BY <1>2, <1>4
    <2>3. QED BY <1>1, <1>5, <2>1, <2>2 DEF UpInv
  <1>11. QED BY <1>6, <1>7, <1>8, <1>9, <1>10 DEF ObjectInv

(* A reload owes both checks before it changes the row; the stop flag and   *)
(* the disabling of a row change no type and no address.                    *)
LEMMA RowStep ==
  ASSUME ChannelIInv, TypeOK', AssignChannel \/ ManOperate
  PROVE  ObjectInv'
  <1> USE DEF ChannelIInv
  <1>1. UNCHANGED <<obj, srv, info>>
    BY DEF AssignChannel, ManOperate, objects
  <1>2. UNCHANGED <<Living, Present>>
    BY <1>1 DEF Living, Present
  <1>3. OneClient' /\ ServerInv' /\ UdpInv'
    BY <1>1, <1>2 DEF OneClient, ServerInv, UdpInv
  <1>4. CASE owed' = UdpBits
    <2>1. "client" \in owed' /\ "server" \in owed'
      BY <1>4 DEF UdpBits
    <2>2. RowInv'
      BY <2>1 DEF RowInv
    <2>3. UpInv'
      BY <1>1, <2>1 DEF UpInv
    <2>4. QED BY <1>3, <2>2, <2>3 DEF ObjectInv
  <1>5. CASE /\ owed' = owed /\ row'.type = row.type /\ row'.addr = row.addr
             /\ row'.valid => row.valid
    <2>1. RowInv'
      BY <1>1, <1>2, <1>5 DEF RowInv
    <2>2. UpInv'
      <3>1. NoClient' <=> NoClient
        BY <1>1, <1>2 DEF NoClient
      <3>2. QED BY <1>1, <1>2, <1>5, <3>1 DEF UpInv
    <2>3. QED BY <1>3, <2>1, <2>2 DEF ObjectInv
  <1>6. QED
    BY <1>4, <1>5 DEF AssignChannel, ManOperate, TypeOK, history

LEMMA ChannelInitIInv == Init => ChannelIInv
  <1> SUFFICES ASSUME Init PROVE ChannelIInv
    OBVIOUS
  <1> DEFINE id == Least(Ids)
  <1>1. TypeOK
    BY InitTyped
  <1>2. id \in Ids /\ id # 0
    BY LeastIsOne, ChannelAssumption
  <1> HIDE DEF id
  <1>3. PICK sock \in {"listening", "unconnected"} :
          /\ obj = [i \in Ids |-> IF i = id THEN FirstObject(sock) ELSE None]
          /\ srv = IF row.valid /\ row.type = "server" THEN id ELSE 0
          /\ info = FirstInfo(sock)
    BY DEF Init, id
  <1>4. row.type \in {"client", "server", "udp"} /\ row \in RowType
    BY <1>1 DEF TypeOK, Types, RowType
  <1>5. CASE ~row.valid
    <2>1. Living = {} /\ Present = {} /\ srv = 0
      BY <1>3, <1>5 DEF FirstObject, Living, Present
    <2>2. QED
      BY <1>1, <1>5, <2>1 DEF ChannelIInv, OneClient, ServerInv, RowInv, UdpInv, UpInv
  <1>6. CASE row.valid /\ row.type = "client"
    <2>1. obj[id] = FirstClient /\ \A i \in Ids \ {id} : obj[i] = None
      BY <1>2, <1>3, <1>6 DEF FirstObject
    <2>2. /\ obj[id].kind = "client" /\ obj[id].gone = "no" /\ obj[id].addr = row.addr
      BY <2>1 DEF FirstClient
    <2>3. \A i \in Living : i = id
      BY <2>1 DEF Living
    <2>4. \A i \in Present : i = id
      BY <2>3 DEF Present
    <2>5. srv = 0 /\ info # "UP"
      BY <1>3, <1>6 DEF FirstInfo
    <2>6. QED
      BY <1>1, <1>6, <2>2, <2>3, <2>4, <2>5
         DEF ChannelIInv, OneClient, ServerInv, RowInv, UdpInv, UpInv
  <1>7. CASE row.valid /\ row.type = "server"
    <2>1. obj[id] = NewServer(sock) /\ \A i \in Ids \ {id} : obj[i] = None
      BY <1>2, <1>3, <1>7 DEF FirstObject
    <2>2. /\ obj[id].kind = "server" /\ obj[id].gone = "no" /\ obj[id].addr = row.addr
          /\ obj[id].stream = 0 /\ obj[id] # None
      BY <1>4, <2>1, NewOnes
    <2>3. (\A i \in Living : i = id) /\ id \in Living
      BY <1>2, <2>1, <2>2 DEF Living
    <2>4. (\A i \in Present : i = id) /\ id \in Present
      BY <2>2, <2>3 DEF Present
    <2>5. srv = id /\ info # "UP"
      BY <1>3, <1>7 DEF FirstInfo
    <2>6. QED
      BY <1>1, <1>7, <2>2, <2>3, <2>4, <2>5
         DEF ChannelIInv, OneClient, ServerInv, RowInv, UdpInv, UpInv
  <1>8. CASE row.valid /\ row.type = "udp"
    <2>1. obj[id] = FirstUdp /\ \A i \in Ids \ {id} : obj[i] = None
      BY <1>2, <1>3, <1>8 DEF FirstObject
    <2>2. obj[id].kind = "udp" /\ obj[id].state = "Connected"
      BY <2>1 DEF FirstUdp
    <2>3. \A i \in Living : i = id
      BY <2>1 DEF Living
    <2>4. \A i \in Present : i = id
      BY <2>3 DEF Present
    <2>5. srv = 0
      BY <1>3, <1>8
    <2>6. QED
      BY <1>1, <2>2, <2>3, <2>4, <2>5
         DEF ChannelIInv, OneClient, ServerInv, RowInv, UdpInv, UpInv
  <1>9. QED BY <1>4, <1>5, <1>6, <1>7, <1>8

LEMMA ObjectStep == ChannelIInv /\ TypeOK' /\ [Next]_vars => ObjectInv'
  <1> SUFFICES ASSUME ChannelIInv, TypeOK', [Next]_vars PROVE ObjectInv'
    OBVIOUS
  <1>1. ASSUME Manager PROVE ObjectInv'
    <2>1. CASE SendTimer \/ CheckTimer
      BY <2>1, QuietStep DEF SendTimer, CheckTimer, shared, objects, history
    <2>2. ASSUME NEW place, NEW bits, NEW next,
                 PassCheck(place, bits, next) \/ ClearBits(place, bits, next)
          PROVE ObjectInv'
      BY <2>2, QuietStep DEF PassCheck, ClearBits, shared, objects, history
    <2>3. QED
      BY <1>1, <2>1, <2>2, RemakeClientStep, RemakeServerStep, RemakeUdpStep, SendDataStep
         DEF Manager, CheckClientChange, CheckServerChange, CheckUdpChange
  <1>2. ASSUME NEW i \in Ids, Network(i) PROVE ObjectInv'
    <2>1. CASE OnReadyRead(i)
      BY <2>1, QuietStep DEF OnReadyRead, shared, objects, history
    <2>2. QED
      BY <1>2, <2>1, DestroyStep, ClientStep, NewConnectionStep, StreamDisconnectedStep,
         PeerVanishesStep DEF Network
  <1>3. CASE CheckResetChannel \/ TimeRuns \/ LinkCheck \/ UNCHANGED vars
    BY <1>3, QuietStep
       DEF CheckResetChannel, TimeRuns, LinkCheck, vars, shared, objects, history
  <1>4. QED BY <1>1, <1>2, <1>3, RowStep DEF Next

LEMMA ChannelInvariant == Spec => []ChannelIInv
  <1>1. ChannelIInv /\ [Next]_vars => ChannelIInv'
    BY TypeStep, ObjectStep DEF ChannelIInv, ObjectInv
  <1>2. QED BY ChannelInitIInv, <1>1, PTL DEF Spec

-----------------------------------------------------------------------------
(* The row, the reset word and every object hold values of their types: a   *)
(* client its place among the addresses and a delay within its limit.       *)
THEOREM ChannelTypeCorrect == Spec => []TypeOK
  <1>1. ChannelIInv => TypeOK
    BY DEF ChannelIInv
  <1>2. QED BY ChannelInvariant, <1>1, PTL

(* With the reset word served and no request overtaken, the TCP objects are *)
(* those of the row, at its address.                                        *)
THEOREM RowIsServed == Spec => []ObjectsOfRow
  <1>1. ChannelIInv => ObjectsOfRow
    <2> SUFFICES ASSUME ChannelIInv, Settled, NEW i \in Present, obj[i].kind # "udp"
                 PROVE  /\ row.type = IF obj[i].kind = "client" THEN "client" ELSE "server"
                        /\ obj[i].kind # "client" \/ obj[i].sock # "unconnected" =>
                             obj[i].addr = row.addr
      BY DEF ObjectsOfRow
    <2>1. owed = {}
      BY DEF ChannelIInv, TypeOK, Settled, Overtaken
    <2>2. obj[i].kind \in {"client", "server", "stream"}
      BY PlacesHold, KindOf DEF ChannelIInv, Present
    <2>3. QED BY <2>1, <2>2 DEF ChannelIInv, RowInv
  <1>2. QED BY ChannelInvariant, <1>1, PTL

(* No two clients and no two streams share the rings of a channel, and the  *)
(* server knows its stream until that has left.                             *)
THEOREM PeersAreOne == Spec => []OnePeer
  <1>1. ChannelIInv => OnePeer
    <2> SUFFICES ASSUME ChannelIInv, NEW i \in Present, obj[i].kind \in {"client", "stream"}
                 PROVE  /\ \A j \in Present \ {i} : obj[j].kind # obj[i].kind
                        /\ obj[i].kind = "stream" => srv # 0 /\ obj[srv].stream = i
      BY DEF OnePeer
    <2>1. \A j \in Present : obj[j].kind = "stream" => srv # 0 /\ obj[srv].stream = j
      BY DEF ChannelIInv, ServerInv, Present
    <2>2. QED BY <2>1 DEF ChannelIInv, OneClient
  <1>2. QED BY ChannelInvariant, <1>1, PTL

(* A settled channel shown as UP has a client that is connected, or a       *)
(* server with a stream.                                                    *)
THEOREM UpHasPeer == Spec => []UpIsConnected
  <1>1. ChannelIInv => UpIsConnected
    <2> SUFFICES ASSUME ChannelIInv, Settled, row.valid, info = "UP"
                 PROVE  /\ \A i \in Present : obj[i].kind = "client" => obj[i].sock = "connected"
                        /\ \A i \in Present : obj[i].kind = "server" => obj[i].stream \in Living
      BY DEF UpIsConnected
    <2>1. owed = {}
      BY DEF ChannelIInv, TypeOK, Settled, Overtaken
    <2>2. \A i \in Present : obj[i].kind = "client" => obj[i].sock = "connected"
      BY <2>1 DEF ChannelIInv, UpInv
    <2>3. \A i \in Present : obj[i].kind = "server" => obj[i].stream \in Living
      <3> SUFFICES ASSUME NEW i \in Present, obj[i].kind = "server"
                   PROVE  obj[i].stream \in Living
        OBVIOUS
      <3>1. i = srv /\ i # 0
        BY ChannelAssumption DEF ChannelIInv, ServerInv, Present, Living
      <3>2. obj[srv].stream # 0
        BY <2>1, <3>1 DEF ChannelIInv, UpInv
      <3>3. QED BY <3>1, <3>2 DEF ChannelIInv, ServerInv
    <2>4. QED BY <2>2, <2>3
  <1>2. QED BY ChannelInvariant, <1>1, PTL
=============================================================================
