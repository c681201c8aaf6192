---------------------------- MODULE LinkTaskPool ----------------------------
(***************************************************************************)
(* CLinkTaskPool (dacsrv/linktaskpool.cpp): a pool of threads that share    *)
(* the links, one link per channel. A thread locks a batch of links under   *)
(* the mutex, runs each of them and gives them back. The load task starts   *)
(* the threads, reloads the channel table below them, and raises a flag at  *)
(* every tick of its timer (dacsrv/loadtask.cpp). What a link does when it  *)
(* runs is module Link.                                                     *)
(***************************************************************************)
EXTENDS Integers, FiniteSets

CONSTANTS
  ChannelMax,  \* DAC_CHANNEL_NUM
  Threads,     \* the threads the pool may have
  NoThread,    \* the holder of a free mutex
  PoolSize,    \* linkThreadPoolSize()
  Tables,      \* the sets of valid rows a load may find in the database
  MaxEvents    \* bound of the model: reloads of the table and timer ticks

ASSUME PoolAssumption ==
  /\ ChannelMax \in Nat \ {0}
  /\ PoolSize \in Nat \ {0}
  /\ Tables \subseteq SUBSET (0 .. ChannelMax - 1)
  /\ NoThread \notin Threads
  /\ MaxEvents \in Nat

VARIABLES
  valid,       \* the channels whose row of the table is valid
  channelNum,  \* the channels the table counts
  loading,     \* LOADPARA_CHANNEL of loadParaFlag
  lpc,         \* load task: idle, rows, loaded, start
  loads,       \* the reloads asked for
  mutex,       \* m_mutex: its holder
  lock,        \* m_link[].lock
  cur,         \* m_curChanNo
  pc,          \* where each thread stands in svc(); off: it does not exist
  held,        \* linkNoVec of each thread
  todo,        \* what is left of linkNoVec in the loop the thread is in
  at,          \* the link the thread has found, or runs
  num,         \* lockNum: how many links the thread wants to lock
  cancelled,   \* the threads stop() has cancelled
  timeOut,     \* m_bTimeOut of the pool
  told,        \* the links whose own m_bTimeOut is set
  ticks        \* the ticks so far

table == <<valid, channelNum, loading, lpc, loads>>
pool == <<mutex, lock, cur>>
batch == <<held, todo, at, num>>
signal == <<timeOut, told, ticks>>
poolVars == <<table, pool, pc, batch, cancelled, signal>>

Channels == 0 .. ChannelMax - 1
Active == {t \in Threads : pc[t] # "off"}

(* channelNum is the highest row plus one.                                  *)
CountOnePast(rows) ==
  {n \in 1 .. ChannelMax + 1 :
     (\A c \in rows : c + 1 < n) /\ (n = 1 \/ n - 2 \in rows)}

CountOf(rows) ==
  {n \in 0 .. ChannelMax : (\A c \in rows : c < n) /\ (n = 0 \/ n - 1 \in rows)}

(* isChannelValid()                                                         *)
Usable == {c \in valid : c < channelNum}

(* The load task has loaded the table before it starts the pool.            *)
PoolInit ==
  /\ valid \in Tables
  /\ channelNum \in CountOf(valid)
  /\ loading = FALSE /\ lpc = "start" /\ loads = 0
  /\ mutex = NoThread
  /\ lock = [c \in Channels |-> FALSE]
  /\ cur = 0
  /\ pc = [t \in Threads |-> "off"]
  /\ held = [t \in Threads |-> {}]
  /\ todo = [t \in Threads |-> {}]
  /\ at = [t \in Threads |-> 0]
  /\ num = [t \in Threads |-> 1]
  /\ cancelled = {}
  /\ timeOut = FALSE /\ told = {} /\ ticks = 0

-----------------------------------------------------------------------------
(* The control task asks for a reload: ctrltask.cpp, doLoadPara.            *)
RequestLoad ==
  /\ loads + ticks < MaxEvents
  /\ loads' = loads + 1
  /\ loading' = TRUE
  /\ UNCHANGED <<valid, channelNum, lpc, pool, pc, batch, cancelled, signal>>

(* loadChannel() writes the rows first and their number last, then the load *)
(* task clears the flag; it waits for no thread that is inside a link.      *)
LoadRows ==
  /\ lpc = "idle" /\ loading
  /\ valid' \in Tables
  /\ lpc' = "rows"
  /\ UNCHANGED <<channelNum, loading, loads>>
  /\ UNCHANGED <<pool, pc, batch, cancelled, signal>>

LoadCount ==
  /\ lpc = "rows"
  /\ channelNum' \in CountOf(valid)
  /\ lpc' = "loaded"
  /\ UNCHANGED <<valid, loading, loads, pool, pc, batch, cancelled, signal>>

EndLoad ==
  /\ lpc = "loaded"
  /\ loading' = FALSE
  /\ lpc' = "start"
  /\ UNCHANGED <<valid, channelNum, loads, pool, pc, batch, cancelled, signal>>

(* start(): as many threads as usable channels, PoolSize of them at most.   *)
StartPool ==
  LET channels == Cardinality(Usable)
      total == IF channels < PoolSize THEN channels ELSE PoolSize
      missing == total - Cardinality(Active)
  IN  /\ lpc = "start"
      /\ lpc' = "idle"
      /\ \E new \in SUBSET (Threads \ Active) :
           /\ Cardinality(new) = IF missing > 0 THEN missing ELSE 0
           /\ pc' = [t \in Threads |-> IF t \in new THEN "top" ELSE pc[t]]
      /\ UNCHANGED <<valid, channelNum, loading, loads>>
      /\ UNCHANGED <<pool, batch, cancelled, signal>>

(* stop()                                                                   *)
Stop ==
  /\ Active # {}
  /\ cancelled' = cancelled \cup Active
  /\ UNCHANGED <<table, pool, pc, batch, signal>>

(* setTimeOutFlag(true), at every tick of the load task's timer.            *)
Tick ==
  /\ loads + ticks < MaxEvents
  /\ ticks' = ticks + 1
  /\ timeOut' = TRUE
  /\ UNCHANGED <<table, pool, pc, batch, cancelled, told>>

-----------------------------------------------------------------------------
(* One thread. At the top of its loop it leaves when it is cancelled, and   *)
(* only sleeps as long as the channel table is to be reloaded.              *)
Exit(t) ==
  /\ pc[t] = "top" /\ t \in cancelled
  /\ pc' = [pc EXCEPT ![t] = "off"]
  /\ cancelled' = cancelled \ {t}
  /\ UNCHANGED <<table, pool, batch, signal>>

(* Otherwise it works out how many links it is to lock, and lockMultiLinks() *)
(* takes the mutex.                                                         *)
LockNum == IF channelNum \div PoolSize < 1 THEN 1 ELSE channelNum \div PoolSize

Pass(t) ==
  /\ pc[t] = "top" /\ t \notin cancelled /\ ~loading
  /\ num' = [num EXCEPT ![t] = LockNum]
  /\ pc' = [pc EXCEPT ![t] = "enter"]
  /\ UNCHANGED <<table, pool, held, todo, at, cancelled, signal>>

EnterWithoutMutex(t) ==
  /\ pc[t] = "enter"
  /\ mutex' = t
  /\ pc' = [pc EXCEPT ![t] = "probe"]
  /\ UNCHANGED <<table, lock, cur, batch, cancelled, signal>>

Enter(t) ==
  /\ pc[t] = "enter"
  /\ mutex = NoThread
  /\ mutex' = t
  /\ pc' = [pc EXCEPT ![t] = "probe"]
  /\ UNCHANGED <<table, lock, cur, batch, cancelled, signal>>

(* lockLink() looks for the first link, from the cursor on and round the    *)
(* table, that nobody has locked and whose channel is valid.                *)
Start == IF cur >= channelNum THEN 0 ELSE cur

UntestedFree(c) == c \in Usable
Free(c) == c \in Usable /\ ~lock[c]

(* The links lockLink() passes before it comes to link c.                   *)
Before(c) ==
  IF Start <= c THEN Start .. c - 1
                ELSE (Start .. channelNum - 1) \cup (0 .. c - 1)

ProbeFound(t) ==
  /\ pc[t] = "probe"
  /\ \E c \in Channels :
       /\ Free(c)
       /\ \A b \in Before(c) : ~Free(b)
       /\ at' = [at EXCEPT ![t] = c]
  /\ cur' = Start
  /\ pc' = [pc EXCEPT ![t] = "take"]
  /\ UNCHANGED <<table, mutex, lock, held, todo, num, cancelled, signal>>

ProbeFailed(t) ==
  /\ pc[t] = "probe"
  /\ \A c \in Channels : ~Free(c)
  /\ cur' = Start + 1
  /\ pc' = [pc EXCEPT ![t] = "leave"]
  /\ UNCHANGED <<table, mutex, lock, batch, cancelled, signal>>

(* The cursor moves on by one, wherever the link was found.                 *)
TakeInPlace(t) ==
  /\ pc[t] = "take"
  /\ lock' = [lock EXCEPT ![at[t]] = TRUE]
  /\ cur' = cur
  /\ held' = [held EXCEPT ![t] = @ \cup {at[t]}]
  /\ pc' = [pc EXCEPT ![t] =
              IF Cardinality(held'[t]) < num[t] THEN "probe" ELSE "leave"]
  /\ UNCHANGED <<table, mutex, todo, at, num, cancelled, signal>>

Take(t) ==
  /\ pc[t] = "take"
  /\ lock' = [lock EXCEPT ![at[t]] = TRUE]
  /\ cur' = cur + 1
  /\ held' = [held EXCEPT ![t] = @ \cup {at[t]}]
  /\ pc' = [pc EXCEPT ![t] =
              IF Cardinality(held'[t]) < num[t] THEN "probe" ELSE "leave"]
  /\ UNCHANGED <<table, mutex, todo, at, num, cancelled, signal>>

(* It gives the mutex back; without a link it sleeps a second and starts    *)
(* over.                                                                    *)
Leave(t) ==
  /\ pc[t] = "leave"
  /\ mutex' = NoThread
  /\ pc' = [pc EXCEPT ![t] = IF held[t] = {} THEN "top" ELSE "tick"]
  /\ UNCHANGED <<table, lock, cur, batch, cancelled, signal>>

(* The flag of the pool goes to the thread's own links, and is cleared. It  *)
(* is tested once and read again for each link.                             *)
TestTick(t) ==
  /\ pc[t] = "tick"
  /\ pc' = [pc EXCEPT ![t] = IF timeOut THEN "tell" ELSE "run"]
  /\ todo' = [todo EXCEPT ![t] = held[t]]
  /\ UNCHANGED <<table, pool, held, at, num, cancelled, signal>>

Tell(t) ==
  /\ pc[t] = "tell"
  /\ \E c \in todo[t] :
       /\ todo' = [todo EXCEPT ![t] = @ \ {c}]
       /\ told' = IF timeOut THEN told \cup {c} ELSE told \ {c}
  /\ UNCHANGED <<table, pool, pc, held, at, num, cancelled, timeOut, ticks>>

EndTell(t) ==
  /\ pc[t] = "tell" /\ todo[t] = {}
  /\ timeOut' = FALSE
  /\ pc' = [pc EXCEPT ![t] = "run"]
  /\ todo' = [todo EXCEPT ![t] = held[t]]
  /\ UNCHANGED <<table, pool, held, at, num, cancelled, told, ticks>>

(* open() and run() of one link; a run of a wireless link on an open        *)
(* protocol uses its flag up.                                               *)
BeginRun(t) ==
  /\ pc[t] = "run"
  /\ \E c \in todo[t] : at' = [at EXCEPT ![t] = c]
  /\ pc' = [pc EXCEPT ![t] = "inside"]
  /\ UNCHANGED <<table, pool, held, todo, num, cancelled, signal>>

EndRun(t) ==
  /\ pc[t] = "inside"
  /\ told' \in {told, told \ {at[t]}}
  /\ todo' = [todo EXCEPT ![t] = @ \ {at[t]}]
  /\ pc' = [pc EXCEPT ![t] = "run"]
  /\ UNCHANGED <<table, pool, held, at, num, cancelled, timeOut, ticks>>

(* unLockMultiLinks(): the whole loop under the mutex.                      *)
UnlockTooFew(t) ==
  /\ pc[t] = "run" /\ todo[t] = {}
  /\ mutex = NoThread
  /\ lock' = [c \in Channels |-> lock[c] /\ (c \in held[t] => c = at[t])]
  /\ held' = [held EXCEPT ![t] = {}]
  /\ pc' = [pc EXCEPT ![t] = "top"]
  /\ UNCHANGED <<table, mutex, cur, todo, at, num, cancelled, signal>>

Unlock(t) ==
  /\ pc[t] = "run" /\ todo[t] = {}
  /\ mutex = NoThread
  /\ lock' = [c \in Channels |-> lock[c] /\ c \notin held[t]]
  /\ held' = [held EXCEPT ![t] = {}]
  /\ pc' = [pc EXCEPT ![t] = "top"]
  /\ UNCHANGED <<table, mutex, cur, todo, at, num, cancelled, signal>>

Step(t) ==
  \/ Exit(t) \/ Pass(t)
  \/ ProbeFound(t) \/ ProbeFailed(t) \/ Take(t) \/ Leave(t)
  \/ TestTick(t) \/ Tell(t) \/ EndTell(t)
  \/ BeginRun(t) \/ EndRun(t)

Loader == LoadRows \/ LoadCount \/ EndLoad \/ StartPool

PoolNext ==
  \/ RequestLoad \/ Loader \/ Stop \/ Tick
  \/ \E t \in Threads : Step(t) \/ Enter(t) \/ Unlock(t)

PoolSpec == PoolInit /\ [][PoolNext]_poolVars

(* Every thread and the load task run on. A thread that waits for the mutex *)
(* gets it at some time: between two passes every thread sleeps 10 ms       *)
(* outside it.                                                              *)
FairPoolSpec ==
  /\ PoolSpec
  /\ WF_poolVars(Loader)
  /\ \A t \in Threads :
       WF_poolVars(Step(t)) /\ SF_poolVars(Enter(t)) /\ SF_poolVars(Unlock(t))

-----------------------------------------------------------------------------
Places == {"off", "top", "enter", "probe", "take", "leave", "tick", "tell",
           "run", "inside"}

(* The variables hold values of their types.                                *)
PoolTypeOK ==
  /\ valid \subseteq Channels /\ channelNum \in 0 .. ChannelMax
  /\ loading \in BOOLEAN /\ loads \in 0 .. MaxEvents
  /\ lpc \in {"idle", "rows", "loaded", "start"}
  /\ mutex \in Threads \cup {NoThread}
  /\ lock \in [Channels -> BOOLEAN]
  /\ cur \in Nat
  /\ pc \in [Threads -> Places]
  /\ held \in [Threads -> SUBSET Channels]
  /\ todo \in [Threads -> SUBSET Channels]
  /\ at \in [Threads -> Channels]
  /\ num \in [Threads -> Nat]
  /\ cancelled \subseteq Threads
  /\ timeOut \in BOOLEAN /\ told \subseteq Channels /\ ticks \in 0 .. MaxEvents

Inside(t, c) == pc[t] = "inside" /\ at[t] = c

(* No two threads are inside one link at a time, through every reload of    *)
(* the table and every restart of the pool: CLink and the protocols below   *)
(* it have no lock of their own.                                            *)
LinkExclusive ==
  \A c \in Channels : \A t1, t2 \in Threads :
    Inside(t1, c) /\ Inside(t2, c) => t1 = t2

(* A link is locked on behalf of a thread that exists and will give it      *)
(* back: no link is lost to the pool.                                       *)
LocksOwned ==
  \A c \in Channels : lock[c] => \E t \in Active : c \in held[t]

(* As long as the pool is not stopped, every link whose channel stays       *)
(* usable is run again and again, although the cursor moves on by one       *)
(* whichever link lockLink() has found.                                     *)
EveryLinkRuns ==
  [](cancelled = {}) =>
    \A c \in Channels : []<>(c \notin Usable \/ \E t \in Threads : Inside(t, c))
=============================================================================
