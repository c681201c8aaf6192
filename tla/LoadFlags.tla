------------------------------ MODULE LoadFlags ------------------------------
(***************************************************************************)
(* The word loadParaFlag in shared memory, through which the server asks    *)
(* itself to read its parameter tables anew. A client changes the database  *)
(* and adds a load command; the control task (dacsrv/ctrltask.cpp) sets the *)
(* bit of the table; the load task (dacsrv/loadtask.cpp) goes through the   *)
(* tables, reads those whose bit is up and takes the bit down. While a bit  *)
(* is up the other threads keep away from its table. Both tasks change the  *)
(* word with |= and &=, a read and a write that the other may come between. *)
(* "yc" stands for the tables of measured values, digital values and        *)
(* counters, which the control task reads itself; "yk" for those of         *)
(* controls, set-points, receivers and senders, which are read only when    *)
(* all are. Bits no task of the server looks at are left out.               *)
(***************************************************************************)
EXTENDS Naturals, Sequences, SequencesExt

CONSTANTS
  Commands,      \* the load commands of the clients: tables, or "all"
  MaxAsks,       \* bound of the model: changes of the database
  MaxFailures    \* bound of the model: queries the database refuses

(* The tables in the order of the load task's pass.                         *)
Order == <<"station", "channel", "group", "route", "protocol", "yk">>
Passed == ToSet(Order)
Tables == Passed \cup {"yc"}
Taken == {"all", "channel", "group", "route", "protocol", "yc"}

ASSUME LoadAssumption ==
  Commands \subseteq Taken /\ MaxAsks \in Nat /\ MaxFailures \in Nat

VARIABLES
  edition,     \* of the database: the changes made to it
  waiting,     \* load commands in the command table
  flag,        \* loadParaFlag: the bits that are up
  loaded,      \* the edition each table was read from
  resolved,    \* the editions of the tables the routes' rows refer to
  at,          \* the load task's place in Order; 0 when it sleeps
  todo,        \* what each task is about to do
  reg,         \* the word as a task has read it and not yet written it
  due,         \* history: the edition a table is owed by a request
  torn,        \* history: a write undid one that came between
  failed,      \* history: queries refused
  crossed      \* history: everything was asked for in the middle of a pass

progress == <<at, todo, reg>>
tables == <<loaded, resolved>>
history == <<due, torn, failed, crossed>>
vars == <<edition, waiting, flag, tables, progress, history>>

Tasks == {"ctrl", "load"}
NoWord == [held |-> FALSE]
Held(w) == [held |-> TRUE, word |-> w]
Set(t) == [op |-> "set", table |-> t]
Clear(t) == [op |-> "clear", table |-> t]
Load(t) == [op |-> "load", table |-> t]
SetAll == [op |-> "store", table |-> "all"]

Doing(k, op) == todo[k] # <<>> /\ Head(todo[k]).op = op
Subject(k) == Head(todo[k]).table
Done(k) == todo' = [todo EXCEPT ![k] = Tail(@)]

Init ==
  /\ edition = 0 /\ waiting = {} /\ flag = {}
  /\ loaded = [t \in Tables |-> 0]
  /\ resolved = [t \in {"channel", "group", "protocol"} |-> 0]
  /\ at = 0
  /\ todo = [k \in Tasks |-> <<>>]
  /\ reg = [k \in Tasks |-> NoWord]
  /\ due = [t \in Tables |-> 0]
  /\ torn = FALSE /\ failed = 0 /\ crossed = FALSE

(* An operator edits the database and asks for it to be read.               *)
Ask(c) ==
  /\ edition < MaxAsks /\ c \notin waiting
  /\ edition' = edition + 1
  /\ waiting' = waiting \cup {c}
  /\ UNCHANGED <<flag, tables, progress, history>>

----------------------------------------------------------------------------
(* The two tasks.                                                           *)

(* What doLoadPara does for a command.                                      *)
DoLoadPara(c) ==
  CASE c = "all" -> <<SetAll>>
    [] c = "yc"  -> <<Set("yc"), Load("yc"), Clear("yc")>>
    [] OTHER     -> <<Set(c)>>

TakeCommand ==
  /\ todo["ctrl"] = <<>>
  /\ \E c \in waiting :
       /\ waiting' = waiting \ {c}
       /\ todo' = [todo EXCEPT !["ctrl"] = DoLoadPara(c)]
  /\ UNCHANGED <<edition, flag, tables, at, reg, history>>

(* A table is read and its bit taken down; tables others refer to take the  *)
(* routes with them.                                                        *)
Reload(t) == <<Load(t), Clear(t)>>
ReloadRouteOpenly == <<Load("route"), Clear("route")>>
ReloadRoute == <<Set("route"), Load("route"), Clear("route")>>
BranchAlone(t) ==
  CASE t = "station" -> Reload(t) \o <<Set("group"), Load("group"), Clear("group")>>
    [] t \in {"channel", "group"} -> Reload(t) \o ReloadRoute
    [] OTHER -> Reload(t)
Branch(t) ==
  CASE t = "station" -> Reload(t) \o <<Set("group"), Load("group"), Clear("group")>>
    [] t \in {"channel", "group", "protocol"} -> Reload(t) \o ReloadRoute
    [] OTHER -> Reload(t)

BeginPass ==
  /\ at = 0 /\ todo["load"] = <<>> /\ flag # {}
  /\ at' = 1
  /\ UNCHANGED <<edition, waiting, flag, tables, todo, reg, history>>

LookAt ==
  /\ at > 0 /\ todo["load"] = <<>>
  /\ at' = IF at = Len(Order) THEN 0 ELSE at + 1
  /\ todo' = IF Order[at] \in flag
             THEN [todo EXCEPT !["load"] = Branch(Order[at])] ELSE todo
  /\ UNCHANGED <<edition, waiting, flag, tables, reg, history>>

----------------------------------------------------------------------------
(* The steps both are made of.                                              *)

(* loadStation, loadChannel and so on: the rows are those of the database,  *)
(* and those of the routes refer to the other tables as they are now. A     *)
(* query that fails leaves the table, and nobody looks at the result.       *)
LoadTable(k) ==
  /\ Doing(k, "load")
  /\ loaded' = [loaded EXCEPT ![Subject(k)] = edition]
  /\ resolved' = IF Subject(k) = "route"
                 THEN [t \in DOMAIN resolved |-> loaded[t]] ELSE resolved
  /\ Done(k)
  /\ UNCHANGED <<edition, waiting, flag, at, reg, history>>

LoadFails(k) ==
  /\ Doing(k, "load") /\ failed < MaxFailures
  /\ failed' = failed + 1
  /\ due' = [due EXCEPT ![Subject(k)] = loaded[Subject(k)]]
  /\ Done(k)
  /\ UNCHANGED <<edition, waiting, flag, tables, at, reg, torn, crossed>>

ReadWord(k) ==
  /\ Doing(k, "set") \/ Doing(k, "clear")
  /\ ~reg[k].held
  /\ reg' = [reg EXCEPT ![k] = Held(flag)]
  /\ UNCHANGED <<edition, waiting, flag, tables, at, todo, history>>

(* Whether a bit set now is seen by the load task: it is not about to take  *)
(* the bit of t down without reading t first, and it holds no older word.   *)
Closing(t) ==
  Contains(todo["load"], Clear(t)) /\ ~Contains(todo["load"], Load(t))
Seen(t) == ~Closing(t) /\ ~reg["load"].held
Owe(T) == due' = [t \in Tables |-> IF t \in T /\ Seen(t) THEN edition ELSE due[t]]

WithBitAlone(w, t) == {t}
WithBit(w, t) == w \cup {t}
WithoutAny(w, t) == {}
WithoutBit(w, t) == w \ {t}

WriteWord(k) ==
  /\ reg[k].held
  /\ flag' = IF Doing(k, "set") THEN WithBit(reg[k].word, Subject(k))
             ELSE WithoutBit(reg[k].word, Subject(k))
  /\ torn' = (torn \/ reg[k].word # flag)
  /\ reg' = [reg EXCEPT ![k] = NoWord]
  /\ IF k = "ctrl" /\ Doing(k, "set") THEN Owe({Subject(k)}) ELSE due' = due
  /\ Done(k)
  /\ UNCHANGED <<edition, waiting, tables, at, failed, crossed>>

(* loadParaFlag = LOADPARA_ALL. Nobody reads "yc" for it.                   *)
StoreAll ==
  /\ Doing("ctrl", "store")
  /\ flag' = Tables
  /\ Owe(Passed)
  /\ crossed' = (crossed \/ at # 0 \/ todo["load"] # <<>>)
  /\ Done("ctrl")
  /\ UNCHANGED <<edition, waiting, tables, at, reg, torn, failed>>

Step(k) == LoadTable(k) \/ LoadFails(k) \/ ReadWord(k) \/ WriteWord(k)
CtrlTask == TakeCommand \/ Step("ctrl") \/ StoreAll
LoadTask == BeginPass \/ LookAt \/ Step("load")

Next ==
  \/ \E c \in Commands : Ask(c)
  \/ CtrlTask
  \/ LoadTask

Spec == Init /\ [][Next]_vars
FairSpec == Spec /\ WF_vars(CtrlTask) /\ WF_vars(LoadTask)

----------------------------------------------------------------------------
(* Properties.                                                              *)

TypeOK ==
  /\ edition \in 0 .. MaxAsks /\ waiting \subseteq Commands
  /\ flag \subseteq Tables
  /\ loaded \in [Tables -> 0 .. MaxAsks] /\ due \in [Tables -> 0 .. MaxAsks]
  /\ resolved \in [{"channel", "group", "protocol"} -> 0 .. MaxAsks]
  /\ at \in 0 .. Len(Order)
  /\ \A k \in Tasks : reg[k].held => reg[k].word \subseteq Tables
  /\ torn \in BOOLEAN /\ crossed \in BOOLEAN /\ failed \in 0 .. MaxFailures

(* A table is emptied and filled only while its bit is up, by which the     *)
(* link threads and the state task know to keep away (loadtask.cpp:122-192, *)
(* ctrltask.cpp:123-152): until two writes to the word have crossed, no     *)
(* task takes down the bit of a table that the other, or a later line of    *)
(* its own, is about to read.                                               *)
LoadGuarded ==
  ~torn => \A k \in Tasks : Doing(k, "load") => Subject(k) \in flag

(* The rows of the routes hold positions in the tables of channels, groups  *)
(* and protocols. When one of these was read anew, the routes follow: they  *)
(* are about to be read, or a bit is up that will have them read            *)
(* (loadtask.cpp:132-168). Excepted are a query that failed, writes that    *)
(* crossed, and a load of everything that came into the middle of a pass:   *)
(* it leaves "station" for a pass of its own, which reads the groups alone. *)
RoutesFollow ==
  (\E t \in DOMAIN resolved : resolved[t] # loaded[t])
    => \/ Contains(todo["load"], Load("route"))
       \/ flag \cap {"channel", "group", "route", "protocol"} # {}
       \/ torn \/ failed > 0 \/ crossed

(* No request is lost but as named at RequestLoaded: what a table is owed   *)
(* has a bit up for it or is about to be read, whatever the two tasks do to *)
(* the word meanwhile, writes that undo each other included                 *)
(* (ctrltask.cpp:113-160, loadtask.cpp:118-217).                            *)
ToRead(t) == \E k \in Tasks : Contains(todo[k], Load(t))
RequestKept == \A t \in Tables : due[t] > loaded[t] => t \in flag \/ ToRead(t)

(* A request is served: what the database held when the bit was set is      *)
(* loaded in the end, whatever else is asked for and loaded meanwhile       *)
(* (loadtask.cpp:118-217). Lost are only the requests whose bit is set      *)
(* between the query of that table and the taking down of its bit, or       *)
(* between a read and a write of the load task, and those whose query       *)
(* fails.                                                                   *)
RequestLoaded == []<>(\A t \in Tables : due[t] <= loaded[t])
=============================================================================
