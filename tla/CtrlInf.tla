------------------------------ MODULE CtrlInf -------------------------------
(***************************************************************************)
(* CCtrlInf (dac/ctrlinf.cpp): the table of commands in shared memory. Any  *)
(* client adds to it; the control task takes the commands to load           *)
(* parameters and the manual operations, one of each in a round, and        *)
(* throws away what is too old; the protocol of a main route takes the      *)
(* commands of its group. There is no lock: a slot is used as its valid     *)
(* flag says, so the calls are modelled step by step, and nothing keeps two *)
(* of them from using one slot. The ack table is the same code with the     *)
(* parts exchanged.                                                         *)
(***************************************************************************)
EXTENDS Integers, FiniteSets

CONSTANTS
  CtrlNum,   \* DAC_CTRL_NUM
  Commands,  \* pairs <<kind, number>>: "load", "man", or the group of a link
  Nothing,   \* what a slot holds before its first use
  Adders,    \* the threads and processes that add commands
  Adds,      \* the commands that each of them adds
  Routes,    \* the routes whose protocols take commands
  GroupOf    \* the group of each route

Slots == 0 .. CtrlNum - 1
Groups == {GroupOf[r] : r \in Routes}
Kinds == {"load", "man"} \cup Groups

(* Any route of a group may take its commands: the protocol asks for its    *)
(* own mainFlag only, which two routes of a group may have after a reload.  *)
Takers == {"ctrl"} \cup Routes

ASSUME CtrlAssumption ==
  /\ CtrlNum \in Nat \ {0}
  /\ \A c \in Commands : c[1] \in Kinds
  /\ Adds \in [Adders -> SUBSET Commands]
  /\ "ctrl" \notin Routes
  /\ Groups \cap {"load", "man"} = {}
  /\ Nothing \notin Commands

VARIABLES
  valid, type, body,  \* the slots: flag, type (and group), content
  apc, acmd, ai,      \* adders: idle, scan, body, head, publish; command; slot
  tpc, want, ti,      \* takers: scan, match, copy, clear, check, drop; kind; slot
  buf,                \* what the taker has copied
  posted,             \* history: the commands add() was called with
  accepted,           \* history: those it returned true for
  got,                \* history: <<kind asked for, command handed over>>
  again,              \* history: the commands handed over a second time
  expired,            \* history: the commands check() dropped
  clashed             \* history: those whose slot was in two hands at once

slots == <<valid, type, body>>
adders == <<apc, acmd, ai>>
takers == <<tpc, want, ti, buf>>
past == <<posted, accepted, got, again, expired, clashed>>
vars == <<slots, adders, takers, past>>

Taken == {g[2] : g \in got}

Init ==
  /\ valid = [i \in Slots |-> FALSE]
  /\ type = [i \in Slots |-> "load"]
  /\ body = [i \in Slots |-> Nothing]
  /\ apc = [a \in Adders |-> "idle"]
  /\ acmd = [a \in Adders |-> Nothing]
  /\ ai = [a \in Adders |-> 0]
  /\ tpc = [t \in Takers |-> "scan"]
  /\ want = [t \in Takers |-> IF t = "ctrl" THEN "load" ELSE GroupOf[t]]
  /\ ti = [t \in Takers |-> 0]
  /\ buf = [t \in Takers |-> Nothing]
  /\ posted = {} /\ accepted = {} /\ got = {} /\ again = {} /\ expired = {}
  /\ clashed = {}

Writing(a) == apc[a] \in {"body", "head", "publish"}
Copying(t) == tpc[t] \in {"copy", "clear"}
InHand(t) == tpc[t] \in {"match", "copy", "clear", "drop"}

(* Whoever comes to a slot that another is at work on. An adder that picks  *)
(* a slot meets those that are writing to it, and the takers that found it  *)
(* valid before it was freed; a taker that goes on to copy a slot meets the *)
(* others that copy it, and whoever has freed it since it looked.           *)
MetAdders(i) == {b \in Adders : Writing(b) /\ ai[b] = i}
MetTakers(i) == {t \in Takers : InHand(t) /\ ti[t] = i}
MetCopying(i) == {t \in Takers : Copying(t) /\ ti[t] = i}

Clashes(a) ==
  {acmd[b] : b \in MetAdders(ai[a])}
    \cup {c \in {acmd[a]} : MetAdders(ai[a]) \cup MetTakers(ai[a]) # {}}

-----------------------------------------------------------------------------
(* add(): the first slot that is not valid; the content, then the type,     *)
(* group, time and length, and the flag last.                               *)
Add(a) ==
  /\ apc[a] = "idle"
  /\ \E c \in Adds[a] \ posted :
       /\ acmd' = [acmd EXCEPT ![a] = c]
       /\ posted' = posted \cup {c}
  /\ apc' = [apc EXCEPT ![a] = "scan"]
  /\ UNCHANGED <<slots, ai, takers, accepted, got, again, expired, clashed>>

Occupied(a) ==
  /\ apc[a] = "scan" /\ valid[ai[a]] /\ ai[a] + 1 < CtrlNum
  /\ ai' = [ai EXCEPT ![a] = @ + 1]
  /\ UNCHANGED <<slots, apc, acmd, takers, past>>

PickUntested(a) ==
  /\ apc[a] = "scan"
  /\ clashed' = clashed \cup Clashes(a)
  /\ apc' = [apc EXCEPT ![a] = "body"]
  /\ UNCHANGED <<slots, acmd, ai, takers, posted, accepted, got, again, expired>>

Pick(a) ==
  /\ apc[a] = "scan" /\ ~valid[ai[a]]
  /\ clashed' = clashed \cup Clashes(a)
  /\ apc' = [apc EXCEPT ![a] = "body"]
  /\ UNCHANGED <<slots, acmd, ai, takers, posted, accepted, got, again, expired>>

Return(a) ==
  /\ apc' = [apc EXCEPT ![a] = "idle"]
  /\ acmd' = [acmd EXCEPT ![a] = Nothing]
  /\ ai' = [ai EXCEPT ![a] = 0]

TableFull(a) ==
  /\ apc[a] = "scan" /\ valid[ai[a]] /\ ai[a] + 1 = CtrlNum
  /\ Return(a)
  /\ UNCHANGED <<slots, takers, past>>

WriteBody(a) ==
  /\ apc[a] = "body"
  /\ body' = [body EXCEPT ![ai[a]] = acmd[a]]
  /\ apc' = [apc EXCEPT ![a] = "head"]
  /\ UNCHANGED <<valid, type, acmd, ai, takers, past>>

WriteHead(a) ==
  /\ apc[a] = "head"
  /\ type' = [type EXCEPT ![ai[a]] = acmd[a][1]]
  /\ apc' = [apc EXCEPT ![a] = "publish"]
  /\ UNCHANGED <<valid, body, acmd, ai, takers, past>>

Publish(a) ==
  /\ apc[a] = "publish"
  /\ valid' = [valid EXCEPT ![ai[a]] = TRUE]
  /\ accepted' = accepted \cup {acmd[a]}
  /\ Return(a)
  /\ UNCHANGED <<type, body, takers, posted, got, again, expired, clashed>>

-----------------------------------------------------------------------------
(* get() and its variants: the first valid slot of the kind asked for is    *)
(* copied and then freed. The control task asks for a "load", for a "man",  *)
(* and then looks for old commands; every buffer is as long as a slot. A    *)
(* taker that looks at slot 0 is between two calls.                         *)
(* The call is over: the control task goes on to what it does next.         *)
NextLoad(t) ==
  /\ UNCHANGED want
  /\ tpc' = [tpc EXCEPT ![t] = "scan"]
  /\ ti' = [ti EXCEPT ![t] = 0]
  /\ buf' = [buf EXCEPT ![t] = Nothing]

NextWant(t) ==
  /\ want' = [want EXCEPT ![t] = IF @ = "load" THEN "man"
                                 ELSE IF @ = "man" THEN "load" ELSE @]
  /\ tpc' = [tpc EXCEPT ![t] = IF want[t] = "man" THEN "check" ELSE "scan"]
  /\ ti' = [ti EXCEPT ![t] = 0]
  /\ buf' = [buf EXCEPT ![t] = Nothing]

(* The slot is not for this taker: it goes on to the next one, if any.      *)
PassOver(t) ==
  IF ti[t] + 1 < CtrlNum
  THEN /\ ti' = [ti EXCEPT ![t] = @ + 1]
       /\ tpc' = [tpc EXCEPT ![t] = "scan"]
       /\ UNCHANGED <<want, buf>>
  ELSE NextWant(t)

Look(t) ==
  /\ tpc[t] = "scan"
  /\ IF valid[ti[t]]
     THEN tpc' = [tpc EXCEPT ![t] = "match"] /\ UNCHANGED <<want, ti, buf>>
     ELSE PassOver(t)
  /\ UNCHANGED <<slots, adders, past>>

MatchAnything(t) ==
  /\ tpc[t] = "match"
  /\ tpc' = [tpc EXCEPT ![t] = "copy"]
  /\ clashed' = IF valid[ti[t]] /\ MetCopying(ti[t]) = {}
                THEN clashed ELSE clashed \cup {body[ti[t]]}
  /\ UNCHANGED <<slots, adders, want, ti, buf, posted, accepted, got, again, expired>>

Match(t) ==
  /\ tpc[t] = "match"
  /\ IF type[ti[t]] = want[t]
     THEN /\ tpc' = [tpc EXCEPT ![t] = "copy"] /\ UNCHANGED <<want, ti, buf>>
          /\ clashed' = IF valid[ti[t]] /\ MetCopying(ti[t]) = {}
                        THEN clashed ELSE clashed \cup {body[ti[t]]}
     ELSE PassOver(t) /\ UNCHANGED clashed
  /\ UNCHANGED <<slots, adders, posted, accepted, got, again, expired>>

Copy(t) ==
  /\ tpc[t] = "copy"
  /\ buf' = [buf EXCEPT ![t] = body[ti[t]]]
  /\ tpc' = [tpc EXCEPT ![t] = "clear"]
  /\ UNCHANGED <<slots, adders, want, ti, past>>

ForgetClear(t) ==
  /\ tpc[t] = "clear"
  /\ got' = got \cup {<<want[t], buf[t]>>}
  /\ again' = again \cup ({buf[t]} \cap Taken)
  /\ NextWant(t)
  /\ UNCHANGED <<slots, adders, posted, accepted, expired, clashed>>

Clear(t) ==
  /\ tpc[t] = "clear"
  /\ valid' = [valid EXCEPT ![ti[t]] = FALSE]
  /\ got' = got \cup {<<want[t], buf[t]>>}
  /\ again' = again \cup ({buf[t]} \cap Taken)
  /\ NextWant(t)
  /\ UNCHANGED <<type, body, adders, posted, accepted, expired, clashed>>

(* check(): any command that is still there may have become too old. Its   *)
(* time is read first and the flag lowered after that.                      *)
FindOld ==
  /\ tpc["ctrl"] = "check"
  /\ \E i \in ti["ctrl"] .. CtrlNum - 1 :
       /\ valid[i]
       /\ ti' = [ti EXCEPT !["ctrl"] = i]
  /\ tpc' = [tpc EXCEPT !["ctrl"] = "drop"]
  /\ UNCHANGED <<slots, adders, want, buf, past>>

Drop ==
  /\ tpc["ctrl"] = "drop"
  /\ LET i == ti["ctrl"] IN
       /\ valid' = [valid EXCEPT ![i] = FALSE]
       /\ expired' = IF valid[i] THEN expired \cup {body[i]} ELSE expired
       /\ clashed' = IF MetCopying(i) = {} THEN clashed ELSE clashed \cup {body[i]}
  /\ ti' = [ti EXCEPT !["ctrl"] = @ + 1]
  /\ tpc' = [tpc EXCEPT !["ctrl"] = "check"]
  /\ UNCHANGED <<type, body, adders, want, buf, posted, accepted, got, again>>

EndCheck ==
  /\ tpc["ctrl"] = "check"
  /\ tpc' = [tpc EXCEPT !["ctrl"] = "scan"]
  /\ ti' = [ti EXCEPT !["ctrl"] = 0]
  /\ UNCHANGED <<slots, adders, want, buf, past>>

(* remove() is called by nobody and is left out.                            *)
Adding(a) ==
  \/ Occupied(a) \/ Pick(a) \/ TableFull(a)
  \/ WriteBody(a) \/ WriteHead(a) \/ Publish(a)

Taking(t) == Look(t) \/ Match(t) \/ Copy(t) \/ Clear(t)

Checking == FindOld \/ Drop \/ EndCheck

Next ==
  \/ \E a \in Adders : Add(a) \/ Adding(a)
  \/ \E t \in Takers : Taking(t)
  \/ Checking

Spec == Init /\ [][Next]_vars

(* A call that has begun ends; the control task calls for ever, and of      *)
(* every group some route does: which one is the state task's choice.       *)
Begun(t) == tpc[t] # "scan" \/ ti[t] > 0
FairSpec ==
  /\ Spec
  /\ \A a \in Adders : WF_vars(Adding(a))
  /\ \A r \in Routes : WF_vars(Begun(r) /\ Taking(r))
  /\ \A g \in Groups : WF_vars(\E r \in Routes : GroupOf[r] = g /\ ~Begun(r) /\ Taking(r))
  /\ WF_vars(Taking("ctrl") \/ Checking)

-----------------------------------------------------------------------------
AdderSteps == {"idle", "scan", "body", "head", "publish"}
TakerSteps == {"scan", "match", "copy", "clear", "check", "drop"}

(* The variables hold values of their types, and nobody writes or copies a  *)
(* slot outside the table.                                                  *)
TypeOK ==
  /\ valid \in [Slots -> BOOLEAN]
  /\ type \in [Slots -> Kinds]
  /\ body \in [Slots -> Commands \cup {Nothing}]
  /\ apc \in [Adders -> AdderSteps]
  /\ acmd \in [Adders -> Commands \cup {Nothing}]
  /\ ai \in [Adders -> Slots]
  /\ tpc \in [Takers -> TakerSteps]
  /\ want \in [Takers -> Kinds]
  /\ want["ctrl"] \in {"load", "man"} /\ \A r \in Routes : want[r] = GroupOf[r]
  /\ ti \in [Takers -> 0 .. CtrlNum]
  /\ \A t \in Takers : tpc[t] # "check" => ti[t] \in Slots
  /\ \A t \in Takers : tpc[t] \in {"check", "drop"} => t = "ctrl"
  /\ buf \in [Takers -> Commands \cup {Nothing}]
  /\ posted \subseteq Commands /\ accepted \subseteq posted
  /\ again \subseteq Commands /\ expired \subseteq Commands
  /\ clashed \subseteq Commands

InTable == {body[i] : i \in {j \in Slots : valid[j]}}

(* "添加命令,返回true-成功" (include/dac/ctrlinf.h:34): a command that add()  *)
(* returned true for is in the table until it is taken or too old. Without  *)
(* a lock that is so only as long as no two are at work on its slot: two    *)
(* clients that find one slot free lose one of their commands, and both are *)
(* told that it worked. What a clash costs stays with the commands that     *)
(* meet in it; no third one is lost, whatever is mixed in the table.        *)
AcceptedKept == accepted \ clashed \subseteq InTable \cup Taken \cup expired

(* No command is carried out twice, or carried out and dropped, unless its  *)
(* slot was in two hands.                                                   *)
TakenOnce == again \cup (Taken \cap expired) \subseteq clashed

(* What a taker copies is a command of the kind it asked for, whole: the    *)
(* receiver goes by the head inside the content. Only of commands that meet *)
(* in a slot it may get the content of one under the type of the other.     *)
TakenWhole ==
  \A g \in got : g[2] \in Commands /\ (g[2][1] = g[1] \/ g[2] \in clashed)

(* Every command that was accepted is taken some time, or dropped, or lost  *)
(* in a clash: none stays in the table for ever, not behind others and not  *)
(* in a slot that a clash has left behind.                                  *)
EveryCommandSettled ==
  \A c \in Commands : c \in accepted ~> c \in Taken \cup expired \cup clashed

(* What add() is said to do of every command it returns true for; the code  *)
(* does not do it (README 3.1), and no run claims it.                       *)
EveryCommandKept == accepted \subseteq InTable \cup Taken \cup expired

(* The table is a box of commands, from which clashes take what meets in    *)
(* them and nothing else.                                                   *)
Box == INSTANCE CommandBox WITH
  Room <- CtrlNum, pending <- InTable \ clashed, taken <- Taken \ clashed,
  expired <- expired \ clashed
ImplementsBox == Box!Spec
=============================================================================
