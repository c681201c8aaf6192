----------------------------- MODULE ChangeRing -----------------------------
(***************************************************************************)
(* The values of a route and the ring of their changes in shared memory    *)
(* (dac/datainf.cpp): the server's link thread stores what the device says  *)
(* and its state task marks values as invalid, both through setYx with no   *)
(* lock; the limit task of another process reads the changes, by a cursor   *)
(* of its own, and makes the events. The server may crash between any two   *)
(* steps and start again. The ring has two slots per point and a full one   *)
(* counts as empty; the model assumes that the limit task keeps up (Fill).  *)
(* Measured values (setYc, setKwh) have rings of their own, written and     *)
(* read in the same order.                                                  *)
(***************************************************************************)
EXTENDS Integers, FiniteSets

CONSTANTS
  PointNum,     \* points of the route's group
  Inverted,     \* points whose normal value is 1
  Reversed,     \* points stored with their value reversed
  MaxChanges,   \* bound of the model: changes of values in the device
  MaxMarks,     \* bound of the model: values the state task makes invalid
  MaxCrashes    \* bound of the model

ASSUME RingAssumption ==
  /\ PointNum \in Nat \ {0}
  /\ MaxChanges \in Nat /\ MaxMarks \in Nat /\ MaxCrashes \in Nat
  /\ Inverted \subseteq 0 .. PointNum - 1 /\ Reversed \subseteq 0 .. PointNum - 1

VARIABLES
  device,     \* the values in the device
  dataYx,       \* stored values: val, the quality bits iv and init, and
              \* whether the time stored with it is still this second
  ring,       \* the changes
  writeYx,      \* the writers' cursor
  task,       \* the calls of setYx: of "link" and of "state"
  poll,       \* the point the link stores next
  phase,      \* of the server: "up", or how far it has come since a crash
  readYx,       \* the limit task's cursor, in its own memory
  told,       \* the value the last event of a point told
  missed,     \* history: changes lost to the reader: "never", "before" the
              \* last start of the server, or "now"
  changes,    \* history
  marks,      \* history
  crashes     \* history

shared == <<dataYx, ring, writeYx>>
server == <<task, poll, phase>>
scd == <<readYx, told>>
history == <<changes, marks, crashes>>
ringVars == <<device, shared, server, scd, missed, history>>

Points == 0 .. PointNum - 1
Values == {0, 1}
Tasks == {"link", "state"}
Size == 2 * PointNum
Slots == 0 .. Size - 1
Phases == {"up", "down", "zeroed", "cleared", "routes", "points"}

NextSlot(s) == (s + 1) % Size

Normal(p) == IF p \in Inverted THEN 1 ELSE 0
Engineered(p, v) == IF p \in Reversed THEN 1 - v ELSE v

Idle == [pc |-> "idle", no |-> 0, val |-> 0, last |-> 0, isInit |-> FALSE, slot |-> 0]

Blank == [no |-> 0, last |-> 0, val |-> 0, init |-> FALSE]

(* A station just started: the memory is zeroed, every value invalid and    *)
(* not initialised, and the limit task starts at the writers' cursor.       *)
RingInit ==
  /\ device = [p \in Points |-> 0]
  /\ dataYx = [p \in Points |-> [val |-> 0, iv |-> TRUE, init |-> TRUE, now |-> FALSE]]
  /\ ring = [s \in Slots |-> Blank]
  /\ writeYx = 0 /\ readYx = 0
  /\ task = [w \in Tasks |-> Idle]
  /\ poll = 0 /\ phase = "up"
  /\ told = [p \in Points |-> Normal(p)]
  /\ missed = "never"
  /\ changes = 0 /\ marks = 0 /\ crashes = 0

At(w, pc) == task[w].pc = pc

----------------------------------------------------------------------------
(* setYx. Routes and points are valid while the tasks run. What was stored  *)
(* has no init bit, so that the last step, which clears it, changes nothing.*)

InSetYx(w) == task[w].pc \in {"fill", "publish"}

(* Two calls at once may use one slot, or note a value the other replaces.  *)
Overlap(w) ==
  missed' = IF \E x \in Tasks \ {w} : InSetYx(x) THEN "now" ELSE missed

(* Compared with memcmp: value, quality and time. In the second in which it *)
(* was stored the same value is passed over; the comparison takes the raw   *)
(* value and the stored one.                                                *)
SameValue(p, v) == dataYx[p].val = v
Same(p, v) == dataYx[p] = [val |-> v, iv |-> FALSE, init |-> FALSE, now |-> TRUE]

(* What was stored is noted, and replaced. Only a protocol's value is raw.  *)
Look(w, p, v, iv) ==
  /\ task' = [task EXCEPT ![w] = [pc |-> "fill", no |-> p, val |-> 0,
       last |-> dataYx[p].val, isInit |-> dataYx[p].init, slot |-> 0]]
  /\ dataYx' = [dataYx EXCEPT ![p] = [val |-> v, iv |-> iv, init |-> FALSE, now |-> TRUE]]
  /\ Overlap(w)

(* The link stores the points of an answer one after the other.             *)
NextPoint == poll' = (poll + 1) % PointNum

LinkSkip ==
  /\ phase = "up" /\ At("link", "idle")
  /\ Same(poll, device[poll])
  /\ NextPoint
  /\ UNCHANGED <<device, shared, task, phase, scd, missed, history>>

LinkLook ==
  /\ phase = "up" /\ At("link", "idle")
  /\ ~Same(poll, device[poll])
  /\ Look("link", poll, Engineered(poll, device[poll]), FALSE)
  /\ NextPoint
  /\ UNCHANGED <<device, ring, writeYx, phase, scd, history>>

(* checkQuality and checkQualityRoute: a valid point is copied, and written *)
(* back as an invalid one.                                                  *)
StateCopy(p) ==
  /\ phase = "up" /\ At("state", "idle") /\ ~dataYx[p].iv
  /\ marks < MaxMarks /\ marks' = marks + 1
  /\ task' = [task EXCEPT !["state"] = [Idle EXCEPT !.pc = "copied", !.no = p,
                                                    !.val = dataYx[p].val]]
  /\ UNCHANGED <<device, shared, poll, phase, scd, missed, changes, crashes>>

StateLook ==
  /\ At("state", "copied")
  /\ Look("state", task["state"].no, task["state"].val, TRUE)
  /\ UNCHANGED <<device, ring, writeYx, poll, phase, scd, history>>

(* The second conjunct is the assumption, the code has no such test.        *)
Fill(w) ==
  /\ At(w, "fill") /\ NextSlot(writeYx) # readYx
  /\ task' = [task EXCEPT ![w].pc = "publish", ![w].slot = writeYx]
  /\ LET p == task[w].no IN
     ring' = [ring EXCEPT ![writeYx] = [no |-> p, last |-> task[w].last,
       val |-> dataYx[p].val, init |-> dataYx[p].init \/ task[w].isInit]]
  /\ UNCHANGED <<device, dataYx, writeYx, poll, phase, scd, missed, history>>

Publish(w) ==
  /\ At(w, "publish") /\ task' = [task EXCEPT ![w] = Idle]
  /\ writeYx' = NextSlot(task[w].slot)
  /\ UNCHANGED <<device, dataYx, ring, poll, phase, scd, missed, history>>

SetYx(w) == Fill(w) \/ Publish(w)

----------------------------------------------------------------------------
(* The limit task: yxEvent.                                                 *)

RouteValid == phase # "cleared"
PointsValid == phase \in {"up", "down", "points"}

(* chgYx: the slot the cursor is on, which then moves on.                   *)
TakenAfter(s) == ring[NextSlot(s)]
Taken(s) == ring[s]

(* The first value after a start is an event when it or the one before is   *)
(* not the normal one, any later value when it differs from the one before. *)
IsEvent(c) ==
  IF c.init THEN c.val # Normal(c.no) \/ c.last # Normal(c.no)
            ELSE c.val # c.last

(* A slot the reader is past is written before it is read again: what was   *)
(* in it is forgotten.                                                      *)
YxEvent ==
  /\ RouteValid /\ readYx # writeYx
  /\ readYx' = NextSlot(readYx)
  /\ ring' = [ring EXCEPT ![readYx] = Blank]
  /\ LET c == Taken(readYx) IN
     told' = IF PointsValid /\ IsEvent(c) THEN [told EXCEPT ![c.no] = c.val] ELSE told
  /\ missed' = IF PointsValid THEN missed ELSE "now"
  /\ UNCHANGED <<device, dataYx, writeYx, server, history>>

----------------------------------------------------------------------------
(* The server crashes and starts again (CLoadTask::init): points zeroed,    *)
(* routes zeroed, routes loaded, points loaded, values marked; then the     *)
(* tasks start. With as many points as before, the values, the ring and its *)
(* cursor stay (mapYx).                                                     *)

Crash ==
  /\ phase = "up" /\ crashes < MaxCrashes
  /\ phase' = "down" /\ crashes' = crashes + 1
  /\ task' = [w \in Tasks |-> Idle] /\ poll' = 0
  /\ missed' = IF missed = "never" /\ \E w \in Tasks : InSetYx(w)
               THEN "before" ELSE missed
  /\ UNCHANGED <<device, shared, scd, changes, marks>>

StepTo(from, to) ==
  /\ phase = from /\ phase' = to
  /\ UNCHANGED <<device, ring, writeYx, task, poll, scd, history>>

ResetAllDataPara == StepTo("down", "zeroed") /\ UNCHANGED <<dataYx, missed>>
ResetAllCommInfo == StepTo("zeroed", "cleared") /\ UNCHANGED <<dataYx, missed>>
LoadRoute == StepTo("cleared", "routes") /\ UNCHANGED <<dataYx, missed>>
LoadYx == StepTo("routes", "points") /\ UNCHANGED <<dataYx, missed>>

MarkInvalid(d) == [d EXCEPT !.iv = TRUE]
Mark(d) == [d EXCEPT !.iv = TRUE, !.init = TRUE]

ResetAllDataInfo ==
  /\ StepTo("points", "up")
  /\ dataYx' = [p \in Points |-> Mark(dataYx[p])]
  /\ missed' = IF missed = "now" THEN "before" ELSE missed

Restart == ResetAllDataPara \/ ResetAllCommInfo \/ LoadRoute \/ LoadYx \/ ResetAllDataInfo

(* The clock and the device.                                                *)
NextSecond ==
  /\ \E p \in Points : dataYx[p].now
  /\ dataYx' = [p \in Points |-> [dataYx[p] EXCEPT !.now = FALSE]]
  /\ UNCHANGED <<device, ring, writeYx, server, scd, missed, history>>

Change(p) ==
  /\ changes < MaxChanges /\ changes' = changes + 1
  /\ device' = [device EXCEPT ![p] = 1 - @]
  /\ UNCHANGED <<shared, server, scd, missed, marks, crashes>>

RingNext ==
  \/ LinkSkip \/ LinkLook \/ StateLook
  \/ \E p \in Points : StateCopy(p) \/ Change(p)
  \/ \E w \in Tasks : SetYx(w)
  \/ YxEvent \/ NextSecond
  \/ Crash \/ Restart

RingSpec == RingInit /\ [][RingNext]_ringVars

(* The link polls for ever, a call of setYx returns, a start comes to its   *)
(* end, the limit task reads and time passes.                               *)
FairRingSpec ==
  RingSpec /\ WF_ringVars(LinkSkip \/ LinkLook \/ SetYx("link"))
       /\ WF_ringVars(StateLook \/ SetYx("state")) /\ WF_ringVars(Restart) /\ WF_ringVars(YxEvent)
       /\ WF_ringVars(NextSecond)

----------------------------------------------------------------------------
(* The state is made of what the program can hold.                          *)
RingTypeOK ==
  /\ device \in [Points -> Values]
  /\ dataYx \in [Points -> [val : Values, iv : BOOLEAN, init : BOOLEAN, now : BOOLEAN]]
  /\ ring \in [Slots -> [no : Points, last : Values, val : Values, init : BOOLEAN]]
  /\ writeYx \in Slots /\ readYx \in Slots
  /\ task \in [Tasks -> [pc : {"idle", "copied", "fill", "publish"},
       no : Points, val : Values, last : Values, isInit : BOOLEAN, slot : Slots]]
  /\ poll \in Points /\ phase \in Phases
  /\ changes \in 0 .. MaxChanges /\ marks \in 0 .. MaxMarks /\ crashes \in 0 .. MaxCrashes
  /\ told \in [Points -> Values] /\ missed \in {"never", "before", "now"}

(* Nothing is on its way to the limit task.                                 *)
Settled ==
  /\ readYx = writeYx
  /\ \A w \in Tasks : ~InSetYx(w)

(* The events tell the values that are stored: a change is lost only when   *)
(* the link and the state task were in setYx at once, when it was read      *)
(* while the server loaded its points again, or when the server died in a   *)
(* call. Writing back an old value as invalid loses none, and neither does  *)
(* a restart alone.                                                         *)
EventsFollow ==
  Settled /\ missed = "never" =>
    \A p \in Points : dataYx[p].init \/ told[p] = dataYx[p].val

(* Whatever was lost before, after a restart of the server every point that *)
(* is not normal is told, even when its value did not change meanwhile      *)
(* (yxEvent's rule for the first value after a start).                      *)
AlarmsAnnounced ==
  Settled /\ phase = "up" /\ missed # "now" =>
    \A p \in Points : dataYx[p].init \/ dataYx[p].val = Normal(p) \/ told[p] = dataYx[p].val

(* The value in the device, once it stays, is stored as a valid one again   *)
(* and again, although the state task writes old values back as invalid and *)
(* the server may have died between any two steps.                          *)
ValuesStored ==
  \A p \in Points :
    []<>(dataYx[p].val = Engineered(p, device[p]) /\ ~dataYx[p].iv)
=============================================================================
