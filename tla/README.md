# Communication manager: TLA+ specifications

TLA+ models of the communication manager of a SCADA station (`dac/`, `dacsrv/`,
`modbus101/`, `src/`, a part of `scd/`, with the shared headers in `include/dac/`): the programs that poll
the station's devices over TCP, UDP and serial channels, keep their values in
shared memory and carry the operator's controls out to them. The modules are
checked with TLC on small instances; the theorems about them are proved with
TLAPS for all values of the constants.

Line numbers below are those of the files under `src/`.

---

## 1. The system

### 1.1 Processes, threads and shared memory

| process | threads | role |
|---|---|---|
| `dacsrv` | main thread with the channel manager, `CCtrlTask`, `CLoadTask`, `CStateTask`, 1..n threads of `CLinkTaskPool`, 1..n threads of `CSerialTaskPool` | talks to the devices |
| `scd` | limit task, history, calculation and database tasks | events, history and derived values |
| `eisd` (not in this tree) | watchdog | starts the processes, receives heartbeats |
| clients (HMI, tools) | any | read values, add commands |

All of them map the segment `DAC_SHM_COM` (`include/dac/dac.h` 536-542): the
parameter tables (channels, routes, groups), the command and acknowledgement
tables, the byte rings of each channel, the message ring, the change rings. Few
of the structures in it have a lock; most rely on "one writer, one reader" or on
the order of a flag and its content. A value, from the device to the
screen, goes

    socket --> CChannel --put--> receive ring --get--> CLink/CModbus101 --> CDataInf --> clients
    socket <-- CChannel <--get-- send ring    <--put-- CLink/CModbus101 <-- CCtrlInf <-- clients

and the tables are reloaded from the database underneath by the load task when a
client asks for it with a load command.

### 1.2 Components

For each: state; operations; whom it meets; what is hard; what makes it correct.

**Byte ring** (`dac/buffer.cpp`, `include/dac/buffer.h`). A fixed array, a
write cursor and a read cursor in shared memory, one ring per channel and direction.
`put`, `get`, `back`, `length`, `remain`. The channel's thread writes and a link
thread reads, without a lock. *Hard*: wrapping; a put that laps the reader; the
cursors are read more than once in one call; the cursor is published in the
middle of a put that wraps. *Correct when*: what is read is what was written, in
order, once, as long as the writer does not lap the reader, and what is lost
when it does is a whole lap of the oldest bytes.

**Link thread pool** (`dacsrv/linktaskpool.cpp`). A mutex, a table of links with a
running flag and a lock flag each, a cursor, a time-out flag. Threads lock a
batch of links, run each, unlock the batch; the load task starts and stops the
pool, raises the time-out flag and reloads the channel table. *Hard*: threads against each
other and against the reload. *Correct when*: no link is run by two threads, no link stays
locked, and every configured link is run again and again.

**Command table** (`dac/ctrlinf.cpp`). 128 slots, each with a flag, a time and a
command; the same again for acknowledgements. `add` by clients and by the
server, `getCtrl` and `getPara*` by the link threads and the control task (each takes the commands
of its types and its groups); `check`, called by the control task, drops what is too
old. No lock. *Correct when*: a command accepted is carried by one taker, once, whole, or expires.

**Link** (`dacsrv/link.cpp`). One channel with up to 16 routes; `open`, `close`, `check`, `run`. Every
run moves the current route on or gives its protocol a turn. *Hard*: the route
table changes below it, the channel drops at any time, a route is
disabled or stopped by hand. *Correct when*: every route gets turns, and none takes part in an exchange it has no turn for.

**modbus_101 protocol** (`modbus101/modbus_101.cpp`, base class
`dac/protocol.cpp`). Per route: the current question, its event
(none, waiting, success, error, time-out), the answer timer, the number of attempts, the position in the cycle
of polls, `switchFlag`. `mainTx` asks, `mainRx` takes answers apart,
`checkCurrentCommand` decides between resend and go on, `findNextCommand` picks what is asked next: the search
for the devices behind a radio receiver (which tunes receiver and device to one frequency), a list
broadcast over UDP, the rest of a reading of events (SOE) or records, an operator's command, a timed or cyclic poll. *Hard*: late
answers, wrong answers, resends, a reset in the middle, readings that span many questions, two routes behind one
receiver. *Correct when*: every question settles,
a control goes out at most once for each command, a route that waits keeps its turn until it settles,
no block of a reading is passed over, a search ends with the receiver tuned to the route that says so, and every feature is polled again and again.

**modbus_101, serial-wireless** (`src/src/modbus_101.cpp`, a copy of the file above made for a radio that all
routes of a channel share). A question is settled by the pool's tick, not by a timer of its own;
`m_isExclusive` keeps the radio for a route in the middle of a reading. *Hard*: answers in the
tick's own run, ticks a link misses, routes that keep the radio. *Correct when*: one route at a time is on the air, and what is said above of
controls, events and polls.

**Control task** (`dacsrv/ctrltask.cpp`). Once a second takes the commands meant for the server:
loads (sets bits of `loadParaFlag`), manual starts, stops, enables and disables of channels, routes and groups. *Hard*: bits
changed by two threads. *Correct when*: each command
accepted changes what it names.

**Load task** (`dacsrv/loadtask.cpp`, `dac/loadpara.cpp`). Loads the parameter tables at
the start and when a bit of `loadParaFlag` asks for it, opens channels and starts the link pool. *Hard*:
the tables are emptied and filled while the other threads use them;
requests that come during a load; rows that hold positions in other tables. *Correct when*: each request is followed by a load, tables
are filled while their bit keeps the others away, and rows never point into an older table.

**Common interface** (`dac/comminf.cpp`). State setters with a ring of changes, readers with a cursor each, validity tests of
channels, routes and groups. *Correct when*: each reader sees each change once, in order.

**State task** (`dacsrv/statetask.cpp`). Main and standby routes of a group, states of
channels, groups and routes, resets of channels, quality. *Correct when*: a group that has
a live route has exactly one main route, and a reset bit reaches the channel it was meant for.

**Channel manager and channels** (`dacsrv/channel*.cpp`, `serialchannel.cpp`, `serialtaskpool.cpp`).
Connection states of TCP clients and servers, UDP and serial ports, reconnect with back-off, two addresses per channel; a word of reset
bits per channel that the state task, the load task and the manager set and the manager and the link clear. *Hard*: four threads on one word; Qt objects
destroyed later than they are removed, with their sockets' events still to come. *Correct when*: the objects that serve a channel are those
its row asks for, with one peer, it is shown UP only when connected, and a channel that can connect does so again.

**Data interface, message ring** (`dac/datainf.cpp`, `dac/message.cpp`). Measured and digital values
and rings of their changes, one cursor per reader. The link's task and the state task write with no lock; the limit task of `scd` reads the
changes and makes events (`scd/limittask.cpp`). *Hard*: two writers, a
crash of the server between storing and publishing, a start that empties the rings. *Correct when*: the events follow
the stored values, and the stored values the device's.

**History** (`scd/`). Values are put into a queue by time and by change, a thread of the queue
writes them to the database. The event task and the reading back of history files are masked out of the program.

**Process management** (`dac/procman.cpp`, `dacsrv/processchecktask.cpp`), **dead-heart set**
(`dacsrv/deadheartset.h`): registration of processes and heartbeats of threads.

**Left aside**: the serial channels' own pool, the shared memory and configuration classes, the database driver, the tray
windows and logging (calls to the operating system, no state
machine of their own), the superseded copies of files
(`dac/protocol-.cpp`, `dac/buffer_old.cpp`, ...) and the third-party headers under `include/`.

`PROJECT.json` lists the components with their files, and under "hazards" the places where each can go
wrong in ways that are hard to test.

---

## 2. The modules

| module | what it is | code |
|---|---|---|
| `BufferOps` | arithmetic of the ring: distances, what put, get and back do to it | `dac/buffer.cpp` |
| `ByteQueue` | abstract: a queue of bytes that drops whole laps when overrun | - |
| `CBuffer` | the ring under sequences of calls, refines `ByteQueue` | `dac/buffer.cpp` |
| `BufferThreads` | `put` against `get`, step by step | `dac/buffer.cpp` |
| `LinkTaskPool` | the pool's threads against the load task | `dacsrv/linktaskpool.cpp`, `loadtask.cpp` |
| `CommandBox` | abstract: a set of commands, added, taken once, dropped | - |
| `CtrlInf` | the command table, step by step, refines `CommandBox` | `dac/ctrlinf.cpp`, `dacsrv/ctrltask.cpp` |
| `MCCtrlInf` | the commands and links of the instance of `CtrlInf` | - |
| `Link` | the link with its routes and the modbus_101 exchange on each | `dacsrv/link.cpp`, `modbus101/modbus_101.cpp`, `dac/protocol.cpp` |
| `Questions` | what a modbus_101 protocol asks next and what it makes of the answer | `modbus101/modbus_101.cpp` |
| `WirelessLink` | the link and the protocol on a shared radio | `src/modbus_101.cpp`, `dacsrv/link.cpp` |
| `StateTask` | main and standby routes of the groups, with the reload of the route table and manual operations | `dacsrv/statetask.cpp`, `dac/loadpara.cpp`, `dacsrv/ctrltask.cpp` |
| `MCStateTask` | the route tables of the instance of `StateTask` | - |
| `Channels` | a network channel: its row, its reset word, its sockets | `dacsrv/channel*.cpp`, `statetask.cpp`, `ctrltask.cpp`, `dac/loadpara.cpp` |
| `MCChannels` | the rows of the instance of `Channels` | - |
| `ChangeRing` | digital values, the ring of their changes, and the events made of it | `dac/datainf.cpp`, `scd/limittask.cpp`, `dacsrv/statetask.cpp`, `loadtask.cpp` |
| `LoadFlags` | the requests for loads between the control task and the load task | `dacsrv/loadtask.cpp`, `ctrltask.cpp`, `dac/loadpara.cpp` |
| `RingProofs` | theorems of `CBuffer`, `ChangeRing` | |
| `BufferThreadsProofs` | theorems of `BufferThreads` | |
| `ChannelProofs` | theorems of `LinkTaskPool`, `Channels` | |
| `CtrlInfProofs` | theorems of `CtrlInf` | |
| `LinkProofs` | theorems of `Link` | |
| `ServerTaskProofs` | theorems of `LoadFlags`, `StateTask` | |
| `QuestionsProofs` | theorems of `Questions` | |
| `WirelessLinkProofs` | theorems of `WirelessLink` | |

Three proof modules each extend two components, rings with rings and tasks with tasks. For this `StateTask`, `ChangeRing` and `LinkTaskPool`
name their specifications `StateSpec`, `RingSpec` and `PoolSpec` (likewise `StateInit`, `StateNext` and so on) where
the others say `Spec`; no theorem about one of the two uses a definition or an assumption of the other.

`PROJECT.json` "map" gives, for each definition, the lines it stands for.

The modules meet in the same places as the program's parts. `LinkTaskPool` shows that each link is run by one thread, again and
again: that is why `Link` and `WirelessLink` have one thread and may assume weak fairness of it. `Link` shows that each
route gets turns and each question settles: `Questions` starts from there and has whole questions as its steps. `CtrlInf`
shows that a command is taken once and whole: the others take commands in one step. `LoadFlags` shows that
tables are filled under their bit, which is how `Link`, `StateTask` and `LinkTaskPool` may see a reload as a short sequence of rows.

### 2.1 The byte ring

`CBuffer` has the ring's three fields (`data`, `write`, `read`), what the latest `get` handed out
(`out`, `taken`) and one history variable (`nput`, the number of bytes put since the start). Bytes are
numbered by their place in the stream, so that a cell tells *which* byte it holds. `Put`, `Get` and `Back` are whole calls; `BufferType` selects
the branch that `back()` takes on the two kinds of ring.

`BufferThreads` splits the calls where another thread can see a difference:
`put` copies and publishes its cursor in one part, or in two when it wraps (lines 266-300);
`get` looks at the write cursor on entry (114), compares `length()` with what was asked
(131), calls `length()` again (132), and copies once or twice depending on which cursor was
lower at its *first* look (138-190). The writer does not ask for room either (no caller of `put` does); `lapped`
records that a copy has overwritten bytes not yet read, and the properties speak of the time before that.
What a lap does to the ring is `CBuffer`'s subject.

### 2.2 The link thread pool

State: the running and lock flags of each link, the pool's cursor, its mutex, its
time-out flag, the channel table, each thread's place in its loop and its batch. The loop of
`svc()`: take the mutex, collect a batch (`lockLinks`, 101-134), release it, run each link, take the mutex again and unlock. The
load task is `Start`, `Stop`, `Load` (another table, from `Tables`) and `Tick`. `MaxEvents` bounds loads and ticks together.

### 2.3 The command table

A slot is a flag, a type and a content (`valid`, `type`, `body`); adders, takers and the
control task have a place in the code (`apc`, `tpc`). `add` looks for the first slot whose flag is down,
writes the content, then the head, and raises the flag last; a taker tests the flag, then the type,
copies, and lowers the flag. Each of these is a step of its own. A command is a pair of the kind its takers go by
and a number. A link's protocol takes the commands of its group; the control task (`ctrltask.cpp` 50-88)
asks for a load command, then for a manual operation, and then calls `check()`, which drops what is too
old: any slot may be, at any time.

There is no lock, and nothing in the model stands in for one. Two clients may pick one slot (ctrlinf.cpp:43 tests the flag only, and the flag goes up
last); any routes of a group may take its commands, since `parsingCommand` asks only for the route's own `mainFlag` (protocol.cpp:269), which two routes have after
a reload (statetask.cpp:211); `check()` may lower the flag of a slot that a taker is copying. A slot may change hands between any two steps of whoever is at work on it.

`clashed` is a history variable: the commands whose slot was in two hands at once, two writers, a writer and a taker that found the slot valid before, two takers, or a
taker and `check()`. No guard looks at it. The properties say what the code keeps with and without clashes: a command that never clashed is kept, taken once and whole, by a
taker of its own kind; and what two hands spoil is limited to the commands that met in that slot. What a clash costs is in 3.1.

### 2.4 The link and its protocol

One channel, routes `0..RouteNum-1`, each with its protocol state (`proto[r]`). Actions are the
calls the pool's thread makes: `open`, `close`, `check` and the steps of `run` (238-310), inside which
`mainRx` and `mainTx` of the current route run whole, since nothing else touches a protocol. Between them the
environment acts: the channel drops or comes back, the device answers (correctly, wrongly, late,
or not at all), a route is stopped, disabled, or the table reloaded, a client adds a control, the clock ticks.
`Polls` are the features of the poll cycle; `Unanswered` are those the device
never answers; `Retries` and the time limits are those of the route and the link, in ticks.

The bytes of a frame are abstracted to the command they belong to and whether they pass
the checks of `paraDevProtocol`. What `findNextCommand` puts before an operator's commands (modbus_101.cpp:397-457: the search of the devices, the broadcast
list, the rest of a reading of events or records) are the `Errands`, any number of which may be due at any time (`NextCommands`); when each of them is due, in which order, and that they end is
the subject of `Questions`. The branches for a serial-wireless channel are in `WirelessLink`, the choice
among all kinds of questions in `Questions`.

### 2.5 The state task

Every 300 ms `svc()` (41-94) judges the groups (`CheckGroup`, 137-277), then the routes (`CheckRoute`, 280-363); each
row is a step, so that a route may fail, a row be loaded or an operator act between any two of them. A judgement of a group
has three outcomes: the main route is not up and another one takes its place (`TakeOver`), it is up and the
others lose the flag (`Confirm`), or nothing moves but the main route is flagged (`KeepMain`). A member
that is disabled has no information (`routeInfo()` returns NULL), and the loops write to it: `pc` becomes
`"crashed"`. `loadRoute()` empties all groups (`EmptyGroups`) and then assigns row by row (`AssignRoute`), each row making the
first route of its group the main one again.

A channel and its device are one variable, `line`: the channel is down, or up with a silent device or too many bad frames, or
data comes in. `routes[g]` is a set, since the loader fills the array in the order of the rows. A reload finds
the rows it found before (only `valid` is written anew). Left out here: loads of groups (they skip the pass as a load of routes
does), the cap of routes per group, the change rings and events the setters write. The state task's resets of channels are in
`Channels`, its marking of old values in `ChangeRing`.

### 2.6 The questions of a route

`Questions` has, for the routes of one channel, the current question of each (`ask[r]`, a kind and an argument), the members of its
protocol, the positions in its readings (`soe`, `recs`, `udp`), and what the routes share: the flags `isInit` of the sending devices and of the
receiver in shared memory, and the radio itself (`tuned`, `radio`). A reading of events keeps the counts at which a block was asked for and answered (`got`) or given up (`lost`): `Named(n)` are the
events that the count-down at `n` stands for, `ReadBy(n)` those that the address sent for it reads. A step is a question that is asked or a question that is settled:
`findNextCommand` is one action per branch, in the order of the code (search of the device, of the receiver, the others' searches, the
broadcast list, the rest of a reading, a command of each kind, a timed or cyclic poll), `resolve_*` one action per kind of answer; a lost and a
refused answer are actions too. `Renew` is a protocol object made anew (a route disabled and enabled, or loaded again), which forgets its members but not the shared flags; `Reconnect` is `close()` and `open()`.

`misled` is a history variable. It becomes true when an operator's "constant" command that a route repeats is answered while another route searches: the
answer has the form of a confirmed frequency and is taken for one (`resolve_constvalue`). The proof of `PairedInTune` failed without
it, and TLC then found the behaviour (31 steps).

### 2.7 Channels

`Channels` is one row of the table of channels and all that serves it. The manager's one-second timer (`Manager`) reads the reset word, then
checks clients, servers and UDP objects one after the other, each of which clears the bits it knows; `CheckTimer` is the rotation over the two
addresses with back-off; `CheckResetChannel` is the state task; reloads, `stop`, `start` and `disable` change the row between any two of these steps, and a
link's thread clears its bit. A channel without bytes for its timeout is reset by the state task, whether its peer is gone or there and silent (`TimeRuns` asks for neither);
a row with timeout 0 is not watched (`Watched`, statetask.cpp:806). Objects are places `Ids`: a client, a server with its stream, a UDP object, each with the states its code
keeps (`m_connect`, the socket's, the delay); an object removed is not gone until the event loop
destroys it (`Destroy`), before the next timer or network event, unless it asked for its own end in an event of its socket. The code allocates objects as it needs them: that
a new one finds a free place is the bound `HasRoom`, which the instance never reaches. Histories: `owed` (bits a reload set that no check has yet acted
on), `mishap` (a reset that met the stop flag, or an old object's late end), `stale`, `news`.

### 2.8 Changes and events

`ChangeRing` splits `setYx` into storing the value, filling the slot at the write cursor, and publishing the
cursor, for its two callers, the link's task and the state task's `checkQuality`. `YxEvent` is the limit task of `scd`. `Crash` and `Restart`
are the server's process: `Restart` goes through `CLoadTask::init` line by line, which resets states and cursors while the reader goes on. `missed`
records whether a change was lost to the reader, and when. The ring's overflow is bounded away by `Fill` (the reader keeps up); what an overflow does is named in 3.1.

### 2.9 The serial-wireless channel

`WirelessLink` joins what `Link` and `Questions` have separately, since here a question is settled by the pool's tick and not by its own timer: the
link's `run()` in its two halves (`pc` is `"rx"` or `"ask"`), the tick, the turn, the exclusive flag, the buffer that
is sent again (`proto[r].buf`), and the readings of events, records, harmonics and energy. Blocks of events are kept by the count they were asked at, as in `Questions`. `air[r]` is the latest question
a device has heard and not yet answered; `rx` is the frame waiting in the ring.

### 2.10 The requests for loads

In `LoadFlags` the control task and the load task each interpret a list of instructions, the lines of their code that touch shared state: set a bit, clear a bit, load a
table, store the whole word. `|=` and `&=` are a read (`ReadWord`) and a write (`WriteWord`). The
load task's pass asks for each table in the order of the code whether its bit is up (`LookAt`, which reads the word anew), and then does the lines of that branch. `edition` counts changes of the database;
`loaded` and `resolved` say which edition each table, and the references from the routes' rows, come from; `due` is the edition a request is owed.

---

## 3. What is checked

| run | module | bounds | shows |
|---|---|---|---|
| `CBufferRx` | `CBuffer` | ring of 4, 10 bytes | after any sequence of puts, gets and backs the ring holds the latest bytes (`HoldsLatest`) and behaves as the abstract queue (`ImplementsByteQueue`) |
| `BufferThreads` | `BufferThreads` | ring of 4, 9 bytes | the reader never passes the writer, unread bytes stay, copies are in order, every byte put is consumed |
| `LinkTaskPool` | `LinkTaskPool` | 2 threads, 4 channel rows, batches of 2, two tables (with and without gaps), one load or tick | one thread per link, locks have an owner, every link of the table is run again and again |
| `CtrlInf` | `MCCtrlInf` | 2 slots, a command of each kind, 2 adders, the control task and two routes of one group that both take | accepted commands that clashed with no other are kept until taken or dropped, taken once and whole; every command settles or clashes; without the clashed ones the table implements `CommandBox` |
| `Link` | `Link` | 2 routes, 1 control, 1 poll, 1 errand that nobody answers, 1 trouble (stop, disable, reload) | a control goes out once, a route that is sending waits for something that can come |
| `LinkFair` | `Link` | 2 routes, 1 control, 1 poll, 1 errand that nobody answers | every route gets turns, every question settles, every control is carried once the errands before it have ended |
| `StateTask` | `MCStateTask` | 1 group, 3 routes, one reload or manual operation at any step | before a reload no two main routes; a group with a route that stays good settles in UP with one main route |
| `Questions` | `Questions` | 2 routes, 2 frequencies, 3 polls (one timed), blocks of 2 for 3 events, 1 record in 2 parts, 2 list rows; 2 commands of 13 kinds, 1 trouble | the shared flags tell the truth about the radio, no block of a reading is passed over, every search ends, every feature without a timer is polled again and again |
| `WirelessLink` | `WirelessLink` | 2 routes, 2 polls (one timed), blocks of 2 for 3 events, 1 record; commands of 14 kinds and troubles, 2 together | one route is on the air, no control is repeated but by calls that built none, no block of a reading is passed over, every feature without a timer is polled again and again on both routes |
| `Channels` | `MCChannels` | 5 rows (client, two addresses, one of them with timeout 0; server; UDP; invalid), 1 of 2 addresses given, back-off 3 to 5, 4 places for objects; 1 change of the row, 2 troubles of the network | the objects are those of the row, one peer at a time, UP only when connected, the channel comes back, and stays unless a silent peer has it reset |
| `ChangeRing` | `ChangeRing` | 2 points (one with normal value 1, both stored reversed), 1 change in the device, 1 mark, 1 crash | events follow the stored values unless a change was lost in a named way; a restart announces what is not normal; the device's values get stored |
| `LoadFlags` | `LoadFlags` | every load command, 2 changes of the database, 1 query that fails | tables are filled under their bit, routes follow the tables they refer to, every request not lost in a named way is kept until its table is read, and served |

The largest have 6.3 (`Link`), 1.1 (`WirelessLink`), 0.8 (`ChangeRing`), 0.6 (`CtrlInf`, `Questions`, `LoadFlags`), 0.5 (`LinkFair`) and 0.3 million distinct states (`Channels`).

**Why these bounds.** A ring of 4 has a first, a last and inner cells, so a put of 3 wraps at
each place, and 10 bytes are two laps and a half. Two threads and batches of two over four rows make
batches overlap, wrap round the table, and meet a table that shrinks and grows below
them. Two slots with three commands of different kinds make a slot be used again while the other
is full, with a taker whose command is in either, let two adders fill both or meet in one while the third command is untouched, and two routes of one group be in one
slot with `check()`. Two routes are the least for which
the turn matters. Three routes in a group are the least with which `STANDBY` occurs: a take-over sets the *other*
routes that are up to standby, and with two the other one is the failed one. One trouble at every possible moment is where the interesting cases are: two independent
troubles were explored while the modules were written and add states, not behaviours.
Two frequencies are a right and a wrong one; two routes that search are the least for which one moves the receiver the other has just tuned. Three events in blocks of two make a
whole block and a rest, and show the direction a block is read in. A record in two parts has a first and a last one. Two points make a ring of four slots, which wraps. A back-off from 3 to 5 grows once and is then capped. Two changes of the database let
the second come at every moment of the first one's load. `WirelessLink`'s safety properties were also checked on larger instances (up to
4.3 million states), `LoadFlags` with three changes for pairs of commands (1.7 million).

`CHECK_DEADLOCK FALSE` is set where the model may really stop: no bytes left to put
(`CBufferRx`, `BufferThreads`), the pool stopped and every thread gone (`LinkTaskPool`), a thread that has crashed (`Link`,
`StateTask`), and in `CtrlInf` and `LoadFlags`, where every command has been used up.

The type invariants are proved (section 5), except those of the abstract modules, and hold in the runs, where they are not listed again.

### 3.1 Disagreements between the code and what it promises

Behaviours of the code that a comment, a name or a caller contradicts. They were met while modelling; where a
property is named, TLC shows the behaviour when that property, defined in the module, is checked.

*Byte ring.* `get()` picks its branch by an old cursor and its length by a new one, and copies past the array (buffer.cpp:138, `DeliversAvailable`). It calls `length()` a second
time after the comparison and may copy more than its caller asked for (132). `back()` on a send ring never loads
the read cursor (375) and counts back from 0.

*Pool and link.* The first thread of the pool that
sees a tick clears it before the others have told their links (linktaskpool.cpp:171). `pRouteInfo != NULL || ...` reads through NULL when the current route is disabled (link.cpp:244,
`NeverCrashes`). On a channel with one route, a wrong answer sets `switchFlag`, `mainRx` is called no more and the route is silent until a
reset (link.cpp:246; `Silenced`, which `RequestSettles` and `ControlCarried` except by name, and without which both fail with `RouteNum = 1`). The search of the devices goes before an
operator's commands (modbus_101.cpp:397-404): while a route's device is not found its controls wait, and expire (`ControlCarried` without `ErrandsEnd`). A route that is stopped by hand still
receives (244) and keeps its turn until its question settles (302-303).

*Command table and control task.* Two clients fill one slot, and both are told that it worked (ctrlinf.cpp:43, `EveryCommandKept`, the promise of
ctrlinf.h:34); the taker may get the content of one under the type of the other. Two routes of a group that are both flagged after a reload take one command twice (protocol.cpp:269 with
statetask.cpp:211; `TakenOnce` without `clashed`). A command can be taken and dropped as too old at once (ctrlinf.cpp:456). Load commands above KWH are never taken (239). The
enable handlers look objects up with the validity test, so what is disabled cannot be enabled (ctrltask.cpp:254), and a disable is undone by the next load.

*State task.* With one route of a group disabled the state task writes through NULL, and the good route never takes over (statetask.cpp:179,
`GoodTakesOver`). When the disabled route is
the main one, the group looks for no other (168). After a reload the old and the new main route are both
flagged until the new one is up (211), which is why `AtMostOneMain` speaks of the time before it. A group
without routes keeps main route 0 and flags another group's route.

*Questions of modbus_101.* A call of records after one that was answered with 0 builds no question, but `hasAnyManualCommand` says it did, and `mainTx` sends the
buffer again, the last control included (modbus_101.cpp:4236; `ControlNotResent`). A block of events is read upward from the event the count-down names last
(3987-3999; `EventsRead`, in `Questions` and in `WirelessLink`): with 20 events the blocks read 19-26, 11-18 and 3-6, so that 0-2 and 7-10 are never read and 20-26 do not exist. What
the runs show of a reading is about its blocks (`BlocksSettled`): none is passed over, each is answered or given up after its tries. When the last
block is lost `nSOE` stays 0 and the next call is swallowed. The fallback features of a control compare the echoed address with 0. `EDITUDP` sets `isInit` in memory only. A set-point without a feature
vanishes without an acknowledgement. A lost part of a record's events leaves the file of the one before to be appended to.

*Serial-wireless.* The `||` at src/modbus_101.cpp:2617 drops the exclusive turn at almost any tick. An answer read in the tick's own run is thrown away.
A broadcast, which nobody acknowledges, is repeated when `bOk` is left from earlier, and so is a question whose good answer is followed by a garbled frame. A
turn that `switchTimeOut` ends before the answer has its question asked again. The protocol's own timer sets `nSOE` from 0 to -1
(2652-2656), so that the next answer is read as something it is not (`SoeNotMisread`).
A call of harmonics takes the exclusive turn without having a feature to ask (5003). A call of events with none left asks for a block of 0.

*Channels.* The bits of a UDP reset (0x06) are those the checks of clients and servers have cleared before (`Overtaken`). A reload between a check's test and its clearing of a bit is lost. The state task writes
all bits with `=`. A reset asked for an idle channel between the checks of servers and of UDP objects is erased. A channel with timeout 0 whose peer vanishes without a word stays UP for ever (statetask.cpp:806), and one with a timeout whose peer is there but has nothing to say is reset each
time the timeout is over (815): `<>[]Back` without its two conditions fails. A server whose `listen` failed never tries again, though its channel may show LISTEN.
`manStop` is looked at only in a reset. A row made invalid keeps the state it showed when its objects disconnect.

*Values and events.* `loadAll` loads the routes before the points, so that a restart drops the changes nobody has read. Two tasks in `setYx` share a slot. A value the
state task writes back as invalid may be an older one, which makes a false pair of events. A crash between storing and publishing loses an event. A poll that stores
every point in each of two seconds before the reader looks laps the ring, which then looks empty. The setters of channel states assign and then compare with themselves (comminf.cpp:767-785); the readers of state changes move the cursor before they copy (999-1027).

*Loads.* A request is lost when its bit is set between the query of its table and the clearing of the bit, or between a read and a write of the word by the other task. A query that fails clears the bit all the
same. The command to load everything (dac.h:51) raises the bits of measured values, digital values and counters, which nobody takes down: those tables are not loaded, `checkQuality` no longer marks
old values (statetask.cpp:649-654), and `scd` reloads its formulas every second. The branch for the station loads the groups without their points and takes down the groups' bit. Between clearing
`CHANNEL` and setting `ROUTE` (loadtask.cpp:136-137) no bit is up while the routes are stale.

---

## 4. Fairness

Liveness is checked only under fairness the code's scheduling gives:

- every thread is a loop with a sleep of a few milliseconds (`DAC_PROTO_RUN_DELAY` is 10 ms), so
  each of its own steps is weakly fair;
- the pool's mutex gets strong fairness: every thread sleeps outside of it, so it is free again and
  again and no thread holds it while it sleeps;
- time passes: the link's clock (`LinkFair`), the pool's tick (`WirelessLink`) and the seconds (`ChangeRing`) are weakly fair;
- the state task and the load task are periodic loops, each weakly fair; `Converges` asks nothing else, and only of a
  group one of whose routes stays good and none of whose routes is disabled;
- an `add()` or a taker's call that has begun ends, the control task polls the table for ever, and of the routes of each group some one begins another call again and again: which one is main is the state task's choice (`CtrlInf`); no command is owed its expiry;
- `Questions`: some step of a turn is taken when there is one, which `LinkFair` shows of the link; the answer may be lost or refused each time within `MaxTroubles`;
- `Channels`: the manager's timer and the state task are weakly fair. The manager's address timer, the delays and the sockets' events are strongly fair: they are disabled
  while the Qt thread is in the middle of a check or has an object to destroy, for microseconds in each second, and do not
  all fall into those moments. A connection that somebody listens to succeeds or fails in the end; a network that fails has done so after `MaxTroubles`.
  Time without bytes is owed only where no peer is there: how long a live one is silent is its own affair, and costs no `MaxTroubles`;
- `ChangeRing`: the link's poll, both calls of `setYx`, the limit task and a restart that has begun;
- `LoadFlags`: the two tasks, each weakly fair as a whole;
- the environment owes nothing: no fairness on answers, on
  clients adding commands, on operators, on tables being reloaded. `RequestSettles` and `ControlCarried` excuse a
  route that is stopped, a channel that is down and a channel's only route once it is `Silenced`; `ControlCarried` further says that the errands before the control come to an end, which for the
search `PairingCompletes` shows in `Questions`.

In `BufferThreads` both threads are weakly fair; `EveryByteConsumed` follows from the reader's polling.

---

## 5. What is proved

Each proof follows the same plan: an inductive invariant, one lemma or step per action, the temporal step last.

**`RingProofs`**, first part: the ring of bytes (any ring size, both kinds of ring, any calls). `TypeCorrect`, `RingHoldsLatest`, `RxImplementsQueue`.
The invariant is `TypeOK /\ HoldsLatest`: each cell holds the byte its distance behind the write cursor
gives. It is inductive because a put of up to a whole ring moves every cell's distance by the number of bytes put,
and overwrites exactly those whose distance would exceed the size. For the receive ring the refinement follows from
it: each call is a step of `ByteQueue` or a stutter. Both rest on lemmas about positions modulo the size of the ring: what a step
forward or back does to the distance of two cursors.

**`RingProofs`**, second part: the ring of changes (any number of points, any normal and reversed values, any ring, changes, marks and crashes).
`RingTypeCorrect`, `EventsTellStored` (`EventsFollow`), `RestartAnnounces` (`AlarmsAnnounced`). Both invariants compare the last event of a point with
its value, and neither says anything of the moments between: a value stored and its change not yet in the ring, a slot filled and not
yet published, a change published and not yet read. The invariant follows each point through all of them. The changes of a point that are on their way, those
unread in the ring, the one published next, then the one a writer is about to fill, form a chain (`ChainInv`): each begins with the
value the one before it ended with (`Follows`), or the point was marked in between (`Renews`), and what the last of them tells is the value stored (`Means`). The same chain in two
modes gives the two theorems: every change counts (`"all"`) as long as none was lost, and only what is not normal counts (`"alarms"`)
after a restart. `OneWriter` (two calls of `setYx` that overlap count as a loss, so without one there is one writer at a time), `SlotInv` (the slot about to be published is the one at the write cursor and does not
fill the ring) and `IdleInv` (nobody writes while the server is down) complete it.

**`BufferThreadsProofs`** (any ring size, any interleaving). `ThreadsTypeCorrect`, `CursorsAgree`, `UnreadStays`, `CopiesInOrder`. The
invariant `IInv` is a conjunction of one part per actor: the writer's place tells what it has copied and not yet
published (`WriterInv`); as long as nothing was lapped, the cells between the cursors, and those copied and not
published, hold the next bytes of the stream (`RingInv`), and the length the reader has settled on is not more than what is
published (`ReaderInv`), which stays true since only the reader consumes.

**`ChannelProofs`**, first part: the pool (any number of threads and channels, any tables, any batch size).
`PoolTypeCorrect`, `LinksExclusive`, `NoLinkLost`. The invariant: the mutex is held by
exactly the thread that is inside `lockMultiLinks` (`MutexInv`); a link is marked
locked exactly when some thread has it in its batch, and batches are disjoint (`LockInv`); a
thread has a batch only between its first find and its unlocking, and runs links of its batch only (`BatchInv`).

**`ChannelProofs`**, second part: the channels (any rows and addresses, any number of places, changes and troubles, any limits of the back-off).
`ChannelTypeCorrect`, `RowIsServed` (`ObjectsOfRow`), `PeersAreOne` (`OnePeer`), `UpHasPeer` (`UpIsConnected`). None of these is inductive: objects that a reload has
made wrong stay for a while and go on connecting. The invariant adds that there is at most one client (`OneClient`); that the server knows the one stream it has, and that the stream it knows is never one that is
removed (`ServerInv`); that objects the row does not ask for are there only while a reload still owes a check the bits for it
(`RowInv`, with `owed`, since the word itself may have been cleared by the link's thread); and what a row that shows UP says of the client and of the server's stream, when the
check of that kind is not owed and the other kind cannot have shown it (`UpInv`). Most steps make and remove no object: they are
handled by one relation between the objects before and after (`SameObjects`, `StaysUp`), the rest one by one.

**`CtrlInfProofs`** (any number of slots, commands, clients, groups and routes, however their calls overlap). `TableTypeCorrect`, `AcceptedStays` (`AcceptedKept`),
`CommandsOnce` (`TakenOnce`), `CommandsWhole` (`TakenWhole`), `TableImplementsBox` (`ImplementsBox`). All are about `Spec`, and none assumes that calls stay apart. First the types, and that only
commands that were added are ever found or taken (`Written`), whatever is mixed. Then what holds of a command as long as it has not clashed, by where it is: in an adder's hands, whose slot is free, nobody else's and looked at
by no taker (`AdderInv`); in a valid slot, the only one with it, neither taken nor expired (`SlotInv`); in a taker's hands, alone at a slot that stays valid until it is freed (`TakerInv`).
These are kept only because a clash can spoil no third command: an adder that has clashed writes only over commands that have clashed too, and a taker that lowers the flag of a slot has either copied
what is in it or met whoever changed it (the last parts of `AdderInv` and `TakerInv`). `PastInv` says that what is taken or dropped unclashed was accepted. For the refinement, publishing an unclashed command is the box's addition, which needs room in
the box: the valid slots that hold such commands and those commands are equally many (`RoomLeft`). A clash takes the commands that meet in it out of the box.

**`LinkProofs`** (any number of routes and troubles, any features). `LinkTypeCorrect`, `ControlGoesOnce` (`ControlOnce`), `SendingIsWaiting` (`SendingWaits`). `ControlOnce` and
`SendingWaits` are inductive with the types, but a turn is long: the proof follows the list of what a route may ask
next through the loop that skips and removes commands, where a control that goes on the line leaves `wanted` in the same step, and
the answer or the timer through the protocol's `event`, each of whose outcomes settles the question or sends it again and waits (`AckRecvOK`, `HeardOK`).

**`ServerTaskProofs`**, first part: the requests for loads (any number of changes and failed queries). `LoadTypeCorrect`, `ReadsGuarded` (`LoadGuarded`),
`RoutesAreFollowed` (`RoutesFollow`), `RequestsAreKept` (`RequestKept`). The two tasks interpret lists of instructions, and the proof follows them by what is left: always one of
the suffixes of the lists in the code (`ListsInv`). `LoadGuarded` holds over the steps of the other task because a word that was read is held only to set or clear a bit (`WordInv`), and a write of
a word that has changed since sets `torn`. `RoutesFollow` needs, for each point in the pass, which editions may differ and which bit or
instruction left makes up for it (`RoutesInv`, `RoutesReadInv`, and `StationInv` for the bit that stands for several tables). `RequestKept` is the safety behind `RequestLoaded`, and
the word alone does not carry it: what a task read and has yet to write back may be older than the word. So `RequestInv` adds that a word read and held is one whose
writing loses no request that is owed (`HeldInv`), that a list which has read a table and has yet to take its bit down leaves nothing owed by it (`ClosingInv`), and
that no table is owed more than the database holds (`DueInv`).

**`ServerTaskProofs`**, second part: the state task (any number of groups and routes, any assignment). `StateTypeCorrect`, `OneMainRoute`, `MainStaysOwn` (`MainIsOwn`), `GroupsJudgedApart` (`JudgesOwn`). The invariant
`OneMainInv`: until a reload the routes of each group are those of the first load, its main route is one of them, and
*only* its main route is flagged (`FlagOnMain`), although `KeepMain` adds a flag without taking one away:
the main route changes only together with the flags. That `findRouteInGroup` returns one of the routes it looks at needs
the least element of a set of numbers, taken from the library's theorem on subset orderings. After a reload the first of these fails for a while (3.1); what
remains true at every moment is `MemberInv`: the routes found in a group are its own, and so is its main route if it has any, also
while the loader has emptied the groups and assigned only some of the rows. From it follows that judging one group leaves the other groups'
routes alone (`JudgesOwn`, an action property), which is false of a group without routes (3.1). These two need several groups, where the run has one: TLC has checked them with two groups,
three routes and two events (6.1 million states), and no run repeats that.

**`QuestionsProofs`** (any number of routes, frequencies, tries, features, events and records, any commands and losses). `QuestionsTypeCorrect`, `PairingSound`
(`PairedInTune`), `NoBlockPassedOver` (`BlocksSettled`). `PairedInTune` speaks only of the moment when all flags are up and is far from inductive. `PairInv` adds: a device that counts as
initialised is on the configured frequency (`RadioInv`); only a route whose own device is not initialised moves the receiver off it, at once or by a repeat
(`ScanInv`); and when the receiver is off it while it counts as initialised, some route has yet to begin the question that
initialises its device, and makes the receiver count as not initialised first (`TuneInv`). The last part is what failed for an operator's answer taken for a
confirmation, and so brought `misled` into the model. `SoeInv` follows a reading: each event of the count-down is below the number left, or in a block that was
answered or given up (`Settled`), or in the one that is outstanding (`Pending`). Which events the device returns for a block is another matter (3.1).

**`WirelessLinkProofs`** (any number of routes, tries, features, events, records and commands, any ticks, late turns and bad answers). `WirelessTypeCorrect`, `OneRouteOnAir` (`TurnHeld`), `ControlsOnce`
(`ControlOnce`), `NoBlockPassedOver` (`BlocksSettled`). `TurnHeld` is inductive with the types. `ControlOnce` needs `BufferInv`: a control stays in the
buffer only while it is the current command, so that a repeat of the buffer under another question is never one of a control without `resent` counting it. `BlocksSettled` needs `SoeInv`: each
event that the count-down is past is in a block that was answered or given up (`Done`), or in the one whose question is not settled for good (`Pending`), with `BlockInv` for the range of that block. The proofs
split each step into what it does to the exchange (`Kept`), to the counts and to the readings (`SoeInv`).

**Assumptions.** The constants are as the `ASSUME`s of the modules state them: the ring
has at least one cell, the tables are subsets of the channel rows, the pool has at least one
thread, there is a poll in the cycle, there is a place for an object; TLC evaluates them in the runs. One theorem's statement says more: `RxImplementsQueue` is about the receive kind of ring. Nothing else is assumed.

**Only model-checked**: all liveness, since the prover does not reason about `ENABLED` (every property of the runs that promises that something
happens: bytes are consumed, commands settle, links get turns, groups settle, channels come back, requests are served, values get stored, features are polled); and that the
threads of `Link` and `StateTask` can crash (3.1), which TLC finds and no theorem speaks of. Every invariant and every refinement that a run checks is proved.

---

## 6. Plan

Done: the ring, the pool, the command table, the link, the state task; the questions of modbus_101 and their serial-wireless copy; channels and their resets; the digital changes and
their events; the requests for loads; for each of them the proof of every safety invariant.

Left, in this order:

1. The queue of the history (`scd`): values by time and by change, written to the database by a thread of its own. Property: every stored interval is written once.
2. The serial pool: ports opened, read and written by its own threads, with its own reset bits.
3. Process management and heartbeats; the message ring (the same order of steps as the change rings).
4. Measured values and counters in `ChangeRing` (the filter of jumps, limits); the points that a renamed group gets in `LoadFlags`.
5. Two overlapping calls of `setYx` in `ChangeRing`, which count as a loss now; resets of UDP objects in `ChannelReturns`, which the clearing of their bits excludes now.

## 7. Not modelled, and why

The bytes of Modbus frames and the conversion of values (pure data, and no property here tells them apart); virtual channels (no exchange); the
fields the loader copies from the database (data); windows, logging, configuration files (input and output).
The saving of history, process management, the dead-heart set (compiled only under its own flag), the serial pool and the message ring are
planned. The event task is not started (scd.cpp:134) and the reading back of history files is masked out (filereadtask.cpp:74), so there is nothing to model.

About half of the lines under `src/` that are not tests or data are headers of other products (SQLite, SNMP++, IEC 61850, CORBA, CIM and others under `include/`) that the programs modelled here include or merely
carry along, and superseded copies of the program's own files. The share of lines that the map names is measured against all of them. Within the files
of the program itself, the largest unmapped parts are tables of constants, the building and parsing of frames byte by byte, the copying of rows from the database, and the windows.

`PROJECT.json` "components" gives the status of each part.
