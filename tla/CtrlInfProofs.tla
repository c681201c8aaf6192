--------------------------- MODULE CtrlInfProofs ---------------------------
(***************************************************************************)
(* Proofs about the command table, for any number of slots, commands,       *)
(* clients and routes, however their calls overlap: a command whose slot is *)
(* never used by two at a time is kept until it is taken once, whole, or    *)
(* expires, and of all such commands the table is a box.                    *)
(***************************************************************************)
EXTENDS CtrlInf, FiniteSetTheorems, TLAPS

(* Whoever overlaps: a slot that is valid, or that somebody copies, was     *)
(* written, and nobody holds or has taken a command that was not added.     *)
Written ==
  /\ \A i \in Slots : valid[i] => body[i] \in Commands
  /\ \A a \in Adders :
       /\ apc[a] # "idle" => acmd[a] \in posted
       /\ apc[a] \in {"head", "publish"} => body[ai[a]] \in Commands
  /\ \A t \in Takers :
       /\ tpc[t] \in {"match", "copy", "drop"} => body[ti[t]] \in Commands
       /\ tpc[t] = "clear" => buf[t] \in Commands
  /\ \A g \in got : g[2] \in Commands

(* Two adders are at work on two commands. One whose command has not        *)
(* clashed has a free slot of its own, that no taker looks at; one whose    *)
(* command has clashed writes only over others that have.                   *)
AdderInv ==
  \A a \in Adders :
    /\ apc[a] # "idle" => acmd[a] \notin accepted
    /\ \A b \in Adders : apc[a] # "idle" /\ apc[b] # "idle" /\ acmd[a] = acmd[b] => a = b
    /\ Writing(a) /\ acmd[a] \notin clashed =>
         /\ ~valid[ai[a]]
         /\ \A t \in Takers : InHand(t) => ti[t] # ai[a]
         /\ \A b \in Adders : Writing(b) /\ ai[b] = ai[a] => b = a
         /\ apc[a] = "publish" => type[ai[a]] = acmd[a][1]
    /\ Writing(a) /\ valid[ai[a]] => body[ai[a]] \in clashed
    /\ apc[a] \in {"head", "publish"} =>
         body[ai[a]] = acmd[a] \/ {acmd[a], body[ai[a]]} \subseteq clashed

(* A valid slot whose command has not clashed holds a command that was      *)
(* accepted and not yet given to anybody, and is the only one to hold it.   *)
SlotOK(i) ==
  /\ body[i] \in accepted \ (Taken \cup expired)
  /\ type[i] = body[i][1]
  /\ \A j \in Slots : valid[j] /\ body[j] = body[i] => j = i

SlotInv == \A i \in Slots : valid[i] /\ body[i] \notin clashed => SlotOK(i)

(* A taker that copies a command that has not clashed has matched it, is    *)
(* alone at its slot, and will free the slot with what it has copied.       *)
Alone(t) ==
  /\ valid[ti[t]] /\ type[ti[t]] = want[t]
  /\ \A u \in Takers : Copying(u) /\ ti[u] = ti[t] => u = t

TakerInv ==
  \A t \in Takers :
    /\ tpc[t] = "copy" /\ body[ti[t]] \notin clashed => Alone(t)
    /\ tpc[t] = "clear" /\ buf[t] \notin clashed => Alone(t) /\ buf[t] = body[ti[t]]
    /\ tpc[t] = "clear" /\ valid[ti[t]] /\ body[ti[t]] \notin clashed => buf[t] = body[ti[t]]

PastInv == (Taken \cup expired) \ clashed \subseteq accepted

Promise == AcceptedKept /\ TakenOnce /\ TakenWhole

Types == TypeOK /\ Written
Rest == AdderInv /\ SlotInv /\ TakerInv /\ PastInv /\ Promise
IInv == Types /\ Rest

-----------------------------------------------------------------------------
(* Types.                                                                   *)

LEMMA CtrlTakes == "ctrl" \in Takers
  BY DEF Takers

LEMMA KindsAsked == ASSUME NEW r \in Routes PROVE GroupOf[r] \in Kinds
  BY DEF Kinds, Groups

LEMMA SlotsStep ==
  /\ 0 \in Slots
  /\ \A i \in Slots : i + 1 < CtrlNum => i + 1 \in Slots
  /\ \A i \in Slots : i \in 0 .. CtrlNum /\ i + 1 \in 0 .. CtrlNum
  /\ \A i \in 0 .. CtrlNum : i .. CtrlNum - 1 \subseteq Slots
  BY SMT, CtrlAssumption DEF Slots

(* The end of a call leaves the taker at slot 0, with a kind to ask for.    *)
LEMMA NextWantType ==
  ASSUME TypeOK, NEW t \in Takers, NextWant(t)
  PROVE  /\ want' \in [Takers -> Kinds]
         /\ want'["ctrl"] \in {"load", "man"} /\ \A r \in Routes : want'[r] = GroupOf[r]
         /\ tpc' \in [Takers -> TakerSteps] /\ tpc'[t] \in {"scan", "check"}
         /\ tpc'[t] = "check" => t = "ctrl"
         /\ ti' \in [Takers -> 0 .. CtrlNum] /\ ti'[t] = 0
         /\ buf' \in [Takers -> Commands \cup {Nothing}]
         /\ \A u \in Takers \ {t} :
              tpc'[u] = tpc[u] /\ ti'[u] = ti[u] /\ buf'[u] = buf[u] /\ want'[u] = want[u]
  <1>1. \A r \in Routes : want[r] = GroupOf[r] /\ r # "ctrl" /\ GroupOf[r] \notin {"load", "man"}
    BY CtrlAssumption DEF TypeOK, Groups
  <1>2. "ctrl" \in Takers /\ Routes \subseteq Takers /\ (t = "ctrl" \/ t \in Routes)
    BY DEF Takers
  <1>3. want' \in [Takers -> Kinds]
    BY DEF TypeOK, NextWant, Kinds
  <1>4. want'["ctrl"] \in {"load", "man"} /\ \A r \in Routes : want'[r] = GroupOf[r]
    BY <1>1, <1>2 DEF TypeOK, NextWant
  <1>5. tpc' \in [Takers -> TakerSteps] /\ tpc'[t] \in {"scan", "check"}
    BY DEF TypeOK, NextWant, TakerSteps
  <1>6. tpc'[t] = "check" => t = "ctrl"
    BY <1>1, <1>2 DEF TypeOK, NextWant
  <1>7. ti' \in [Takers -> 0 .. CtrlNum] /\ ti'[t] = 0
    BY SlotsStep DEF TypeOK, NextWant
  <1>8. buf' \in [Takers -> Commands \cup {Nothing}]
    BY DEF TypeOK, NextWant
  <1>9. \A u \in Takers \ {t} :
          tpc'[u] = tpc[u] /\ ti'[u] = ti[u] /\ buf'[u] = buf[u] /\ want'[u] = want[u]
    BY DEF TypeOK, NextWant
  <1>10. QED BY <1>3, <1>4, <1>5, <1>6, <1>7, <1>8, <1>9

(* So does a slot that is passed over, unless the taker goes on to the next.*)
LEMMA PassOverType ==
  ASSUME TypeOK, NEW t \in Takers, tpc[t] # "check", PassOver(t)
  PROVE  /\ want' \in [Takers -> Kinds]
         /\ want'["ctrl"] \in {"load", "man"} /\ \A r \in Routes : want'[r] = GroupOf[r]
         /\ tpc' \in [Takers -> TakerSteps] /\ tpc'[t] \in {"scan", "check"}
         /\ tpc'[t] = "check" => t = "ctrl"
         /\ ti' \in [Takers -> 0 .. CtrlNum] /\ ti'[t] \in Slots
         /\ buf' \in [Takers -> Commands \cup {Nothing}]
         /\ \A u \in Takers \ {t} :
              tpc'[u] = tpc[u] /\ ti'[u] = ti[u] /\ buf'[u] = buf[u] /\ want'[u] = want[u]
  <1>1. CASE ti[t] + 1 < CtrlNum
    <2>1. ti[t] + 1 \in Slots /\ ti[t] + 1 \in 0 .. CtrlNum
      BY <1>1, SlotsStep DEF TypeOK
    <2>2. /\ ti' = [ti EXCEPT ![t] = ti[t] + 1] /\ tpc' = [tpc EXCEPT ![t] = "scan"]
          /\ want' = want /\ buf' = buf
      BY <1>1 DEF PassOver
    <2>3. QED BY <2>1, <2>2 DEF TypeOK, TakerSteps
  <1>2. CASE ~(ti[t] + 1 < CtrlNum)
    BY <1>2, NextWantType, SlotsStep DEF PassOver
  <1>3. QED BY <1>1, <1>2

LEMMA TypesStep == Types /\ [Next]_vars => Types'
  <1> SUFFICES ASSUME Types, [Next]_vars PROVE TypeOK' /\ Written'
    BY DEF Types
  <1> USE CtrlAssumption DEF Types, TypeOK, Written, AdderSteps, TakerSteps
  <1>1. ASSUME NEW a \in Adders, Add(a) \/ Adding(a) PROVE TypeOK' /\ Written'
    <2>0. Clashes(a) \subseteq {acmd[b] : b \in {c \in Adders : Writing(c)}} \cup {acmd[a]}
      BY DEF Clashes, MetAdders
    <2>1. CASE Add(a)
      BY <2>1, SMT DEF Add, slots, takers, Writing, InHand
    <2>2. CASE Occupied(a)
      <3>1. ai[a] + 1 \in Slots
        BY <2>2, SlotsStep DEF Occupied
      <3>2. QED BY <2>2, <3>1, SMT DEF Occupied, slots, takers, past
    <2>3. CASE Pick(a)
      <3>1. clashed' \subseteq Commands
        BY <2>0, <2>3 DEF Pick, Writing
      <3>2. QED BY <2>3, <3>1, SMT DEF Pick, slots, takers
    <2>4. CASE TableFull(a)
      BY <2>4, SlotsStep, SMT DEF TableFull, Return, slots, takers, past
    <2>5. CASE WriteBody(a)
      BY <2>5, SMT DEF WriteBody, takers, past
    <2>6. CASE WriteHead(a)
      <3>1. acmd[a][1] \in Kinds
        BY <2>6 DEF WriteHead
      <3>2. QED BY <2>6, <3>1, SMT DEF WriteHead, takers, past
    <2>7. CASE Publish(a)
      BY <2>7, SlotsStep, SMT DEF Publish, Return, takers
    <2>8. QED BY <1>1, <2>1, <2>2, <2>3, <2>4, <2>5, <2>6, <2>7 DEF Adding
  <1>2. ASSUME NEW t \in Takers, Taking(t) PROVE TypeOK' /\ Written'
    <2>1. CASE Look(t) /\ valid[ti[t]]
      BY <2>1, SMT DEF Look, slots, adders, past
    <2>2. CASE /\ tpc[t] # "check" /\ PassOver(t)
               /\ UNCHANGED <<slots, adders, past>>
      BY <2>2, PassOverType, SMT DEF slots, adders, past
    <2>3. CASE Match(t) /\ type[ti[t]] = want[t]
      <3>1. clashed' \subseteq Commands
        BY <2>3 DEF Match
      <3>2. QED BY <2>3, <3>1, SMT DEF Match, slots, adders
    <2>4. CASE Copy(t)
      BY <2>4, SMT DEF Copy, slots, adders, past
    <2>5. CASE Clear(t)
      <3>1. valid' \in [Slots -> BOOLEAN] /\ \A i \in Slots : valid'[i] => valid[i]
        BY <2>5 DEF Clear
      <3>2. (\A g \in got' : g[2] \in Commands) /\ again' \subseteq Commands
        BY <2>5 DEF Clear, Taken
      <3>3. NextWant(t)
        BY <2>5 DEF Clear
      <3>4. QED BY <2>5, <3>1, <3>2, <3>3, NextWantType, SlotsStep, SMT DEF Clear, adders
    <2>6. Look(t) => (valid[ti[t]] \/ (tpc[t] # "check" /\ PassOver(t) /\ UNCHANGED <<slots, adders, past>>))
      BY DEF Look
    <2>7. Match(t) => (type[ti[t]] = want[t] \/ (tpc[t] # "check" /\ PassOver(t) /\ UNCHANGED <<slots, adders, past>>))
      BY DEF Match, past
    <2>8. QED BY <1>2, <2>1, <2>2, <2>3, <2>4, <2>5, <2>6, <2>7 DEF Taking
  <1>3. CASE FindOld
    <2>1. PICK i \in ti["ctrl"] .. CtrlNum - 1 : valid[i] /\ ti' = [ti EXCEPT !["ctrl"] = i]
      BY <1>3 DEF FindOld
    <2>2. i \in Slots /\ i \in 0 .. CtrlNum
      BY <2>1, CtrlTakes, SlotsStep
    <2>3. QED BY <1>3, <2>1, <2>2, CtrlTakes, SMT DEF FindOld, slots, adders, past
  <1>4. CASE Drop
    <2> DEFINE i == ti["ctrl"]
    <2>1. i \in Slots /\ i + 1 \in 0 .. CtrlNum /\ body[i] \in Commands
      BY <1>4, CtrlTakes, SlotsStep DEF Drop
    <2>2. /\ valid' \in [Slots -> BOOLEAN] /\ \A j \in Slots : valid'[j] => valid[j]
          /\ expired' \subseteq Commands /\ clashed' \subseteq Commands
      BY <1>4, <2>1 DEF Drop
    <2>3. /\ ti' = [ti EXCEPT !["ctrl"] = i + 1] /\ tpc' = [tpc EXCEPT !["ctrl"] = "check"]
          /\ UNCHANGED <<type, body, adders, want, buf, posted, accepted, got, again>>
      BY <1>4 DEF Drop
    <2> HIDE DEF i
    <2>4. QED BY <2>1, <2>2, <2>3, CtrlTakes, SMT DEF adders
  <1>5. CASE EndCheck
    BY <1>5, CtrlTakes, SlotsStep, SMT DEF EndCheck, slots, adders, past
  <1>6. CASE UNCHANGED vars
    BY <1>6, SMT DEF vars, slots, adders, takers, past
  <1>7. QED BY <1>1, <1>2, <1>3, <1>4, <1>5, <1>6 DEF Next, Checking

-----------------------------------------------------------------------------
(* Steps that leave the slots and what was handed over alone. A command     *)
(* that clashes is promised nothing: the more of them, the less is claimed. *)

LEMMA PastKept ==
  ASSUME Rest, UNCHANGED <<slots, accepted, got, again, expired>>, clashed \subseteq clashed'
  PROVE  SlotInv' /\ PastInv' /\ Promise'
  <1>1. Taken' = Taken /\ InTable' = InTable
    BY DEF Taken, InTable, slots
  <1>2. QED
    BY <1>1 DEF Rest, SlotInv, SlotOK, PastInv, Promise, AcceptedKept, TakenOnce, TakenWhole, slots

LEMMA TakersKept ==
  ASSUME Rest, UNCHANGED <<slots, takers>>, clashed \subseteq clashed'
  PROVE  TakerInv'
  BY DEF Rest, TakerInv, Alone, Copying, slots, takers

(* Takers that come to no slot but a valid one are no concern of an adder   *)
(* with a slot of its own, for that slot is free.                           *)
LEMMA AddersKept ==
  ASSUME Types, Rest, UNCHANGED <<slots, adders, accepted>>, clashed \subseteq clashed',
         \A t \in Takers : InHand(t)' => ti'[t] \in Slots
           /\ (valid[ti'[t]] \/ (InHand(t) /\ ti[t] = ti'[t]))
  PROVE  AdderInv'
  BY DEF Rest, AdderInv, Writing, slots, adders

-----------------------------------------------------------------------------
(* The steps of add().                                                      *)

LEMMA AddRest == ASSUME IInv, NEW a \in Adders, Add(a) PROVE Rest'
  <1> USE DEF IInv, Types, TypeOK, Written
  <1>1. SlotInv' /\ PastInv' /\ Promise' /\ TakerInv'
    BY PastKept, TakersKept DEF Add
  <1>2. PICK c \in Adds[a] \ posted : acmd' = [acmd EXCEPT ![a] = c]
    BY DEF Add
  <1>3. /\ apc' = [apc EXCEPT ![a] = "scan"] /\ apc[a] = "idle"
        /\ UNCHANGED <<slots, ai, takers, accepted, got, again, expired, clashed>>
    BY DEF Add
  <1>4. \A b \in Adders : apc[b] # "idle" => acmd[b] # c
    BY <1>2
  <1>5. c \notin accepted
    BY <1>2
  <1>6. AdderInv'
    BY <1>2, <1>3, <1>4, <1>5 DEF Rest, AdderInv, Writing, InHand, slots, takers
  <1>7. QED BY <1>1, <1>6 DEF Rest

LEMMA OccupiedRest ==
  ASSUME IInv, NEW a \in Adders, Occupied(a) \/ TableFull(a) PROVE Rest'
  <1> USE DEF IInv, Types, TypeOK
  <1>1. SlotInv' /\ PastInv' /\ Promise' /\ TakerInv'
    BY PastKept, TakersKept DEF Occupied, TableFull, past
  <1>2. /\ apc[a] = "scan" /\ apc'[a] \in {"scan", "idle"}
        /\ apc'[a] = "scan" => acmd'[a] = acmd[a]
        /\ \A b \in Adders \ {a} : apc'[b] = apc[b] /\ acmd'[b] = acmd[b] /\ ai'[b] = ai[b]
        /\ UNCHANGED <<slots, takers, past>>
    BY DEF Occupied, TableFull, Return
  <1>3. AdderInv'
    BY <1>2 DEF Rest, AdderInv, Writing, InHand, slots, takers, past
  <1>4. QED BY <1>1, <1>3 DEF Rest

(* Who picks a slot has it for itself, or all who meet there are marked.    *)
LEMMA PickRest == ASSUME IInv, NEW a \in Adders, Pick(a) PROVE Rest'
  <1> USE DEF IInv, Types, TypeOK
  <1>1. SlotInv' /\ PastInv' /\ Promise' /\ TakerInv'
    BY PastKept, TakersKept DEF Pick
  <1>2. /\ apc[a] = "scan" /\ ~valid[ai[a]] /\ apc' = [apc EXCEPT ![a] = "body"]
        /\ clashed' = clashed \cup Clashes(a)
        /\ UNCHANGED <<slots, acmd, ai, takers, posted, accepted, got, again, expired>>
    BY DEF Pick
  <1>3. /\ \A b \in Adders : Writing(b) /\ ai[b] = ai[a] => {acmd[a], acmd[b]} \subseteq clashed'
        /\ \A t \in Takers : InHand(t) /\ ti[t] = ai[a] => acmd[a] \in clashed'
    BY <1>2 DEF Clashes, MetAdders, MetTakers
  <1>4. \A t \in Takers : InHand(t)' <=> InHand(t)
    BY <1>2 DEF InHand, takers
  <1>5. AdderInv'
    <2>1. \A b \in Adders \ {a} : apc'[b] = apc[b] /\ (Writing(b)' <=> Writing(b))
      BY <1>2 DEF Writing
    <2>2. apc'[a] = "body" /\ ~Writing(a)
      BY <1>2 DEF Writing
    <2>3. clashed \subseteq clashed'
      BY <1>2
    <2> DEFINE A(b) ==
          /\ ~valid[ai[b]]
          /\ \A t \in Takers : InHand(t) => ti[t] # ai[b]
          /\ apc'[b] = "publish" => type[ai[b]] = acmd[b][1]
          /\ \A c \in Adders : Writing(c)' /\ ai[c] = ai[b] => c = b
    <2>4. ASSUME NEW b \in Adders \ {a}, Writing(b), acmd[b] \notin clashed' PROVE A(b)
      <3>1. acmd[b] \notin clashed /\ ai[b] # ai[a]
        BY <1>3, <2>3, <2>4
      <3>2. QED BY <2>1, <2>4, <3>1 DEF Rest, AdderInv
    <2>5. ASSUME acmd[a] \notin clashed' PROVE A(a)
      BY <1>2, <1>3, <2>1, <2>2, <2>5
    <2>6. ASSUME NEW b \in Adders
          PROVE  /\ apc'[b] # "idle" => acmd[b] \notin accepted
                 /\ \A c \in Adders : apc'[b] # "idle" /\ apc'[c] # "idle" /\ acmd[b] = acmd[c] => b = c
                 /\ Writing(b)' /\ valid[ai[b]] => body[ai[b]] \in clashed'
                 /\ apc'[b] \in {"head", "publish"} => body[ai[b]] = acmd[b] \/ {acmd[b], body[ai[b]]} \subseteq clashed'
      BY <1>2, <2>1, <2>2, <2>3 DEF Rest, AdderInv
    <2> HIDE DEF A
    <2>7. \A b \in Adders : Writing(b)' /\ acmd[b] \notin clashed' => A(b)
      BY <2>1, <2>4, <2>5
    <2>8. UNCHANGED <<valid, type, body, ti>>
      BY <1>2 DEF slots, takers
    <2>9. QED BY <1>2, <1>4, <2>6, <2>7, <2>8 DEF AdderInv, A
  <1>6. QED BY <1>1, <1>5 DEF Rest

(* Content and head go into a slot of the adder's own, or over a command    *)
(* that has clashed.                                                        *)
LEMMA OwnSlot ==
  ASSUME IInv, NEW a \in Adders, Writing(a)
  PROVE  /\ ai[a] \in Slots /\ acmd[a] \in Commands
         /\ valid[ai[a]] => body[ai[a]] \in clashed
         /\ acmd[a] \notin clashed =>
              /\ ~valid[ai[a]]
              /\ \A t \in Takers : InHand(t) => ti[t] # ai[a]
              /\ \A b \in Adders : Writing(b) /\ ai[b] = ai[a] => b = a
         /\ \A t \in Takers : InHand(t) =>
              ti[t] \in Slots /\ (ti[t] = ai[a] => acmd[a] \in clashed)
         /\ \A b \in Adders : Writing(b) =>
              ai[b] \in Slots /\ (ai[b] = ai[a] => b = a \/ {acmd[a], acmd[b]} \subseteq clashed)
  BY DEF IInv, Types, TypeOK, Written, Rest, AdderInv, Writing, InHand

LEMMA WriteBodyRest == ASSUME IInv, NEW a \in Adders, WriteBody(a) PROVE Rest'
  <1> DEFINE i == ai[a]
  <1>0. Writing(a)
    BY DEF WriteBody, Writing
  <1>1. /\ \A j \in Slots \ {i} : body'[j] = body[j]
        /\ body'[i] = acmd[a] /\ apc' = [apc EXCEPT ![a] = "head"] /\ apc[a] = "body"
        /\ UNCHANGED <<valid, type, acmd, ai, takers, past>>
    BY <1>0, OwnSlot DEF IInv, Types, TypeOK, WriteBody
  <1>2. InTable' \ clashed = InTable \ clashed
    <2>1. \A c : c \notin clashed =>
            ((\E j \in Slots : valid[j] /\ body'[j] = c) <=> (\E j \in Slots : valid[j] /\ body[j] = c))
      <3>1. CASE acmd[a] \in clashed
        BY <1>0, <1>1, <3>1, OwnSlot
      <3>2. CASE acmd[a] \notin clashed
        BY <1>0, <1>1, <3>2, OwnSlot
      <3>3. QED BY <3>1, <3>2
    <2>2. QED BY <1>1, <2>1 DEF InTable
  <1>3. Taken' = Taken
    BY <1>1 DEF Taken, past
  <1>4. PastInv' /\ Promise'
    BY <1>1, <1>2, <1>3 DEF IInv, Rest, PastInv, Promise, AcceptedKept, TakenOnce, TakenWhole, past
  <1>5. SlotInv'
    BY <1>0, <1>1, <1>3, OwnSlot DEF IInv, Rest, SlotInv, SlotOK, past
  <1>6. TakerInv'
    <2>1. \A t \in Takers : Copying(t) => InHand(t)
      BY DEF Copying, InHand
    <2>2. \A t \in Takers : tpc[t] \in {"copy", "clear"} => Copying(t)
      BY DEF Copying
    <2>3. \A t \in Takers : Alone(t)' <=> Alone(t)
      BY <1>1 DEF Alone, Copying, takers
    <2>4. QED BY <1>0, <1>1, <2>1, <2>2, <2>3, OwnSlot DEF IInv, Rest, TakerInv, Alone, takers, past
  <1>7. AdderInv'
    <2>1. apc'[a] = "head" /\ \A b \in Adders \ {a} : apc'[b] = apc[b]
      BY <1>1 DEF IInv, Types, TypeOK
    <2>2. \A b \in Adders : Writing(b)' <=> Writing(b)
      BY <1>0, <2>1 DEF Writing
    <2>3. \A t \in Takers : InHand(t)' <=> InHand(t)
      BY <1>1 DEF InHand, takers
    <2>4. ASSUME NEW b \in Adders
          PROVE  /\ Writing(b) /\ valid[ai[b]] => body'[ai[b]] \in clashed
                 /\ apc'[b] \in {"head", "publish"} => body'[ai[b]] = acmd[b] \/ {acmd[b], body'[ai[b]]} \subseteq clashed
      <3>1. CASE Writing(b) /\ ai[b] = i /\ b # a
        BY <1>0, <1>1, <3>1, OwnSlot
      <3>2. CASE Writing(b) /\ ai[b] # i
        BY <1>0, <1>1, <2>1, <3>2, OwnSlot DEF IInv, Rest, AdderInv
      <3>3. CASE b = a
        BY <1>0, <1>1, <3>3, OwnSlot
      <3>4. QED BY <2>1, <2>2, <3>1, <3>2, <3>3 DEF Writing
    <2>5. QED BY <1>1, <2>1, <2>2, <2>3, <2>4 DEF IInv, Rest, AdderInv, takers, past
  <1>8. QED BY <1>4, <1>5, <1>6, <1>7 DEF Rest

LEMMA WriteHeadRest == ASSUME IInv, NEW a \in Adders, WriteHead(a) PROVE Rest'
  <1> DEFINE i == ai[a]
  <1>0. Writing(a)
    BY DEF WriteHead, Writing
  <1>1. /\ \A j \in Slots \ {i} : type'[j] = type[j]
        /\ type'[i] = acmd[a][1] /\ apc' = [apc EXCEPT ![a] = "publish"] /\ apc[a] = "head"
        /\ UNCHANGED <<valid, body, acmd, ai, takers, past>>
    BY <1>0, OwnSlot DEF IInv, Types, TypeOK, WriteHead
  <1>2. InTable' = InTable /\ Taken' = Taken
    BY <1>1 DEF InTable, Taken, past
  <1>3. PastInv' /\ Promise'
    BY <1>1, <1>2 DEF IInv, Rest, PastInv, Promise, AcceptedKept, TakenOnce, TakenWhole, past
  <1>4. SlotInv'
    BY <1>0, <1>1, <1>2, OwnSlot DEF IInv, Rest, SlotInv, SlotOK, past
  <1>5. TakerInv'
    <2>1. \A t \in Takers : tpc[t] \in {"copy", "clear"} => InHand(t)
      BY DEF InHand
    <2>2. ASSUME NEW t \in Takers, tpc[t] \in {"copy", "clear"}, Alone(t),
                 ti[t] = i => body[i] \notin clashed
          PROVE  Alone(t)'
      <3>1. ti[t] # i /\ ti[t] \in Slots
        BY <1>0, <2>1, <2>2, OwnSlot DEF Alone
      <3>2. QED BY <1>1, <2>2, <3>1 DEF Alone, Copying, takers
    <2>3. QED BY <1>1, <2>2 DEF IInv, Rest, TakerInv, takers, past
  <1>6. AdderInv'
    <2>1. apc'[a] = "publish" /\ \A b \in Adders \ {a} : apc'[b] = apc[b]
      BY <1>1 DEF IInv, Types, TypeOK
    <2>2. \A b \in Adders : Writing(b)' <=> Writing(b)
      BY <1>0, <2>1 DEF Writing
    <2>3. \A t \in Takers : InHand(t)' <=> InHand(t)
      BY <1>1 DEF InHand, takers
    <2>4. ASSUME NEW b \in Adders, acmd[b] \notin clashed, apc'[b] = "publish"
          PROVE  type'[ai[b]] = acmd[b][1]
      <3>1. CASE b = a
        BY <1>1, <3>1
      <3>2. CASE b # a
        <4>1. Writing(b) /\ apc[b] = "publish"
          BY <2>1, <2>4, <3>2 DEF Writing
        <4>2. ai[b] \in Slots /\ ai[b] # i
          BY <1>0, <2>4, <3>2, <4>1, OwnSlot
        <4>3. QED BY <1>1, <2>4, <4>1, <4>2 DEF IInv, Rest, AdderInv
      <3>3. QED BY <3>1, <3>2
    <2>5. apc[a] \in {"head", "publish"}
      BY <1>1
    <2>6. QED BY <1>1, <2>1, <2>2, <2>3, <2>4, <2>5 DEF IInv, Rest, AdderInv, takers, past
  <1>7. QED BY <1>3, <1>4, <1>5, <1>6 DEF Rest

(* What a call of add() that succeeds has done to the table.                *)
LEMMA PublishFacts ==
  ASSUME IInv, NEW a \in Adders, Publish(a)
  PROVE  /\ ai[a] \in Slots /\ acmd[a] \in Commands
         /\ body[ai[a]] = acmd[a] \/ {acmd[a], body[ai[a]]} \subseteq clashed
         /\ acmd[a] \notin clashed =>
              ~valid[ai[a]] /\ acmd[a] \notin InTable \cup Taken \cup expired
         /\ \A j \in Slots : valid'[j] <=> valid[j] \/ j = ai[a]
         /\ InTable' = InTable \cup {body[ai[a]]} /\ Taken' = Taken
  <1>0. Writing(a) /\ apc[a] = "publish"
    BY DEF Publish, Writing
  <1>1. ai[a] \in Slots /\ acmd[a] \in Commands /\ (acmd[a] \notin clashed => ~valid[ai[a]])
    BY <1>0, OwnSlot
  <1>2. \A j \in Slots : valid'[j] <=> valid[j] \/ j = ai[a]
    BY <1>1 DEF IInv, Types, TypeOK, Publish
  <1>3. InTable' = InTable \cup {body[ai[a]]}
    BY <1>1, <1>2 DEF InTable, Publish
  <1>4. acmd[a] \notin clashed => acmd[a] \notin InTable \cup Taken \cup expired
    BY <1>0 DEF IInv, Rest, AdderInv, SlotInv, SlotOK, PastInv, InTable
  <1>5. body[ai[a]] = acmd[a] \/ {acmd[a], body[ai[a]]} \subseteq clashed
    BY <1>0 DEF IInv, Rest, AdderInv
  <1>6. QED BY <1>1, <1>2, <1>3, <1>4, <1>5 DEF Publish, Taken

LEMMA PublishRest == ASSUME IInv, NEW a \in Adders, Publish(a) PROVE Rest'
  <1> DEFINE i == ai[a]
  <1>0. Writing(a) /\ apc[a] = "publish"
    BY DEF Publish, Writing
  <1>1. /\ i \in Slots /\ acmd[a] \in Commands /\ (body[i] = acmd[a] \/ {acmd[a], body[i]} \subseteq clashed)
        /\ acmd[a] \notin clashed =>
             ~valid[i] /\ acmd[a] \notin InTable \cup Taken \cup expired
        /\ \A j \in Slots : valid'[j] <=> valid[j] \/ j = i
        /\ InTable' = InTable \cup {body[i]} /\ Taken' = Taken
    BY PublishFacts
  <1>2. /\ accepted' = accepted \cup {acmd[a]}
        /\ UNCHANGED <<type, body, takers, posted, got, again, expired, clashed>>
        /\ apc'[a] = "idle"
        /\ \A b \in Adders \ {a} : apc'[b] = apc[b] /\ acmd'[b] = acmd[b] /\ ai'[b] = ai[b]
    BY DEF IInv, Types, TypeOK, Publish, Return
  <1>3. PastInv' /\ Promise'
    <2>1. PastInv' /\ TakenOnce' /\ TakenWhole'
      BY <1>1, <1>2 DEF IInv, Rest, PastInv, Promise, TakenOnce, TakenWhole
    <2>2. acmd[a] \notin clashed => body[i] = acmd[a]
      BY <1>1
    <2>3. AcceptedKept'
      BY <1>1, <1>2, <2>2 DEF IInv, Rest, Promise, AcceptedKept
    <2>4. QED BY <2>1, <2>3 DEF Promise
  <1>4. SlotInv'
    <2>1. acmd[a] \notin clashed => type[i] = acmd[a][1]
      BY <1>0 DEF IInv, Rest, AdderInv
    <2>2. \A j \in Slots : valid[j] => body[j] \in InTable
      BY DEF InTable
    <2>3. ASSUME NEW j \in Slots, valid'[j], body[j] \notin clashed PROVE SlotOK(j)'
      <3>1. CASE j = i
        <4>1. body[i] = acmd[a] /\ acmd[a] \notin clashed
          BY <1>1, <2>3, <3>1
        <4>2. QED BY <1>1, <1>2, <2>1, <2>2, <3>1, <4>1 DEF SlotOK
      <3>2. CASE j # i
        <4>1. SlotOK(j) /\ valid[j] /\ body[j] \in InTable
          BY <1>1, <2>2, <2>3, <3>2 DEF IInv, Rest, SlotInv
        <4>2. body[i] # body[j]
          BY <1>1, <2>3, <4>1
        <4>3. QED BY <1>1, <1>2, <4>1, <4>2 DEF SlotOK
      <3>3. QED BY <3>1, <3>2
    <2>4. QED BY <1>2, <2>3 DEF SlotInv
  <1>5. TakerInv'
    <2>1. \A t \in Takers : tpc[t] \in {"copy", "clear"} => InHand(t)
      BY DEF InHand
    <2>2. \A t \in Takers : InHand(t) => ti[t] \in Slots /\ (ti[t] = i => acmd[a] \in clashed)
      BY <1>0, OwnSlot
    <2>3. \A t \in Takers : InHand(t) /\ Alone(t) => Alone(t)'
      BY <1>1, <1>2, <2>2 DEF Alone, Copying, takers
    <2>4. QED BY <1>1, <1>2, <2>1, <2>2, <2>3 DEF IInv, Rest, TakerInv, takers
  <1>6. AdderInv'
    <2>1. ASSUME NEW b \in Adders, b # a, Writing(b)
          PROVE  /\ ai[b] \in Slots
                 /\ ai[b] = i => {acmd[a], acmd[b]} \subseteq clashed
      BY <1>0, <2>1, OwnSlot
    <2>2. \A b \in Adders : Writing(b)' <=> Writing(b) /\ b # a
      BY <1>2 DEF Writing
    <2>3. \A t \in Takers : InHand(t)' <=> InHand(t)
      BY <1>2 DEF InHand, takers
    <2>4. \A b \in Adders \ {a} : apc[b] # "idle" => acmd[b] # acmd[a]
      BY <1>0 DEF IInv, Rest, AdderInv
    <2>5. ASSUME NEW b \in Adders, b # a
          PROVE  /\ apc[b] # "idle" => acmd[b] \notin accepted'
                 /\ Writing(b) /\ acmd[b] \notin clashed => ~valid'[ai[b]]
                 /\ Writing(b) /\ valid'[ai[b]] => body[ai[b]] \in clashed
      BY <1>1, <1>2, <2>1, <2>4, <2>5 DEF IInv, Rest, AdderInv
    <2>6. QED BY <1>2, <2>2, <2>3, <2>5 DEF IInv, Rest, AdderInv, takers
  <1>7. QED BY <1>3, <1>4, <1>5, <1>6 DEF Rest

-----------------------------------------------------------------------------
(* The steps of the takers.                                                 *)

LEMMA LookRest == ASSUME IInv, NEW t \in Takers, Look(t), valid[ti[t]] PROVE Rest'
  <1> USE DEF IInv, Types
  <1>1. SlotInv' /\ PastInv' /\ Promise'
    BY PastKept DEF Look, past
  <1>2. /\ tpc[t] = "scan" /\ tpc' = [tpc EXCEPT ![t] = "match"]
        /\ UNCHANGED <<slots, adders, past, want, ti, buf>>
    BY DEF Look
  <1>3. ti[t] \in Slots
    BY <1>2 DEF TypeOK
  <1>4. \A u \in Takers : (Copying(u)' <=> Copying(u)) /\ (InHand(u)' => u = t \/ InHand(u))
    BY <1>2 DEF TypeOK, Copying, InHand
  <1>5. AdderInv'
    BY <1>2, <1>3, <1>4, AddersKept DEF TypeOK, InHand, past
  <1>6. TakerInv'
    BY <1>2, <1>4 DEF TypeOK, Rest, TakerInv, Alone, slots, past
  <1>7. QED BY <1>1, <1>5, <1>6 DEF Rest

LEMMA PassOverRest ==
  ASSUME IInv, NEW t \in Takers, tpc[t] \in {"scan", "match"}, PassOver(t),
         UNCHANGED <<slots, adders, past>>
  PROVE  Rest'
  <1> USE DEF IInv, Types
  <1>1. SlotInv' /\ PastInv' /\ Promise'
    BY PastKept DEF past
  <1>2. /\ tpc'[t] \in {"scan", "check"}
        /\ \A u \in Takers \ {t} :
             tpc'[u] = tpc[u] /\ ti'[u] = ti[u] /\ buf'[u] = buf[u] /\ want'[u] = want[u]
    BY PassOverType
  <1>3. /\ \A u \in Takers : (Copying(u)' <=> Copying(u)) /\ (InHand(u)' => u # t /\ InHand(u))
        /\ ~Copying(t)
    BY <1>2 DEF Copying, InHand
  <1>4. AdderInv'
    BY <1>2, <1>3, AddersKept DEF TypeOK, InHand, past
  <1>5. TakerInv'
    <2>1. ASSUME NEW u \in Takers, u # t, Copying(u), Alone(u) PROVE Alone(u)'
      BY <1>2, <1>3, <2>1 DEF Alone, slots
    <2>2. \A u \in Takers : tpc[u] \in {"copy", "clear"} => Copying(u)
      BY DEF Copying
    <2>3. QED BY <1>2, <2>1, <2>2 DEF Rest, TakerInv, slots, past
  <1>6. QED BY <1>1, <1>4, <1>5 DEF Rest

(* Who goes on to copy is alone at the slot, or what it will copy is        *)
(* marked.                                                                  *)
LEMMA MatchRest ==
  ASSUME IInv, NEW t \in Takers, Match(t), type[ti[t]] = want[t] PROVE Rest'
  <1> USE DEF IInv, Types
  <1>1. /\ tpc[t] = "match" /\ tpc' = [tpc EXCEPT ![t] = "copy"]
        /\ clashed' = IF valid[ti[t]] /\ MetCopying(ti[t]) = {}
                      THEN clashed ELSE clashed \cup {body[ti[t]]}
        /\ UNCHANGED <<slots, adders, want, ti, buf, posted, accepted, got, again, expired>>
    BY DEF Match
  <1>2. clashed \subseteq clashed' /\ ti[t] \in Slots
    BY <1>1 DEF TypeOK
  <1>3. SlotInv' /\ PastInv' /\ Promise'
    BY <1>1, <1>2, PastKept
  <1>4. \A u \in Takers : (Copying(u)' <=> Copying(u) \/ u = t) /\ (InHand(u)' <=> InHand(u))
    BY <1>1 DEF TypeOK, Copying, InHand
  <1>5. AdderInv'
    BY <1>1, <1>2, <1>4, AddersKept DEF TypeOK, InHand
  <1>6. body[ti[t]] \notin clashed' => /\ valid[ti[t]]
                                       /\ \A u \in Takers : Copying(u) => ti[u] # ti[t]
    BY <1>1 DEF MetCopying
  <1>7. ASSUME NEW u \in Takers, u # t, Copying(u), Alone(u), body[ti[u]] \notin clashed'
        PROVE  Alone(u)'
    <2>1. ti[t] # ti[u]
      BY <1>6, <1>7
    <2>2. QED BY <1>1, <1>4, <1>7, <2>1 DEF Alone, slots
  <1>8. body[ti[t]] \notin clashed' => Alone(t)'
    BY <1>1, <1>4, <1>6 DEF Alone, slots
  <1>9. TakerInv'
    <2>1. \A u \in Takers : tpc[u] \in {"copy", "clear"} => Copying(u)
      BY DEF Copying
    <2>2. tpc'[t] = "copy" /\ \A u \in Takers \ {t} : tpc'[u] = tpc[u]
      BY <1>1 DEF TypeOK
    <2>3. QED BY <1>1, <1>2, <1>7, <1>8, <2>1, <2>2 DEF Rest, TakerInv, slots
  <1>10. QED BY <1>3, <1>5, <1>9 DEF Rest

LEMMA CopyRest == ASSUME IInv, NEW t \in Takers, Copy(t) PROVE Rest'
  <1> USE DEF IInv, Types
  <1>1. /\ tpc[t] = "copy" /\ tpc' = [tpc EXCEPT ![t] = "clear"]
        /\ buf' = [buf EXCEPT ![t] = body[ti[t]]]
        /\ UNCHANGED <<slots, adders, want, ti, past>>
    BY DEF Copy
  <1>2. SlotInv' /\ PastInv' /\ Promise'
    BY <1>1, PastKept DEF past
  <1>3. \A u \in Takers : (Copying(u)' <=> Copying(u)) /\ (InHand(u)' <=> InHand(u))
    BY <1>1 DEF TypeOK, Copying, InHand
  <1>4. AdderInv'
    BY <1>1, <1>3, AddersKept DEF TypeOK, InHand, past
  <1>5. \A u \in Takers : Alone(u)' <=> Alone(u)
    BY <1>1, <1>3 DEF Alone, slots
  <1>6. /\ tpc'[t] = "clear" /\ buf'[t] = body[ti[t]]
        /\ \A u \in Takers \ {t} : tpc'[u] = tpc[u] /\ buf'[u] = buf[u]
    BY <1>1 DEF TypeOK
  <1>7. TakerInv'
    BY <1>1, <1>5, <1>6 DEF Rest, TakerInv, slots, past
  <1>8. QED BY <1>2, <1>4, <1>7 DEF Rest

(* What a taker that frees its slot has done to the table.                  *)
LEMMA ClearFacts ==
  ASSUME IInv, NEW t \in Takers, Clear(t)
  PROVE  /\ ti[t] \in Slots /\ buf[t] \in Commands
         /\ \A j \in Slots : valid'[j] <=> valid[j] /\ j # ti[t]
         /\ Taken' = Taken \cup {buf[t]}
         /\ InTable' \ clashed = (InTable \ clashed) \ {buf[t]}
         /\ buf[t] \notin clashed =>
              /\ valid[ti[t]] /\ body[ti[t]] = buf[t] /\ buf[t] \in InTable
              /\ buf[t] \in accepted \ (Taken \cup expired) /\ buf[t][1] = want[t]
         /\ again' \subseteq clashed
  <1> USE DEF IInv, Types
  <1>1. ti[t] \in Slots /\ buf[t] \in Commands /\ tpc[t] = "clear"
    BY DEF Clear, TypeOK, Written
  <1>2. \A j \in Slots : valid'[j] <=> valid[j] /\ j # ti[t]
    BY <1>1 DEF Clear, TypeOK
  <1>3. Taken' = Taken \cup {buf[t]}
    <2>1. got' = got \cup {<<want[t], buf[t]>>} /\ <<want[t], buf[t]>>[2] = buf[t]
      BY DEF Clear
    <2>2. QED BY <2>1 DEF Taken
  <1>4. buf[t] \notin clashed => /\ valid[ti[t]] /\ body[ti[t]] = buf[t]
                                 /\ type[ti[t]] = want[t] /\ SlotOK(ti[t])
    BY <1>1 DEF Rest, TakerInv, Alone, SlotInv
  <1>5. buf[t] \notin clashed =>
          /\ valid[ti[t]] /\ body[ti[t]] = buf[t] /\ buf[t] \in InTable
          /\ buf[t] \in accepted \ (Taken \cup expired) /\ buf[t][1] = want[t]
    BY <1>1, <1>4 DEF SlotOK, InTable
  <1>6. InTable' \ clashed = (InTable \ clashed) \ {buf[t]}
    <2>1. body' = body
      BY DEF Clear
    <2>2. valid[ti[t]] /\ body[ti[t]] \notin clashed => buf[t] = body[ti[t]]
      BY <1>1 DEF Rest, TakerInv
    <2>3. \A j \in Slots : valid[j] /\ j # ti[t] /\ buf[t] \notin clashed => body[j] # buf[t]
      BY <1>4 DEF SlotOK
    <2>4. QED BY <1>2, <2>1, <2>2, <2>3 DEF InTable
  <1>7. again' \subseteq clashed
    BY <1>5 DEF Clear, Rest, Promise, TakenOnce
  <1>8. QED BY <1>1, <1>2, <1>3, <1>5, <1>6, <1>7

LEMMA ClearRest == ASSUME IInv, NEW t \in Takers, Clear(t) PROVE Rest'
  <1> USE DEF IInv, Types
  <1>1. /\ ti[t] \in Slots /\ buf[t] \in Commands
        /\ \A j \in Slots : valid'[j] <=> valid[j] /\ j # ti[t]
        /\ Taken' = Taken \cup {buf[t]}
        /\ InTable' \ clashed = (InTable \ clashed) \ {buf[t]}
        /\ buf[t] \notin clashed =>
             /\ valid[ti[t]] /\ body[ti[t]] = buf[t] /\ buf[t] \in InTable
             /\ buf[t] \in accepted \ (Taken \cup expired) /\ buf[t][1] = want[t]
        /\ again' \subseteq clashed
    BY ClearFacts
  <1>2. /\ tpc[t] = "clear" /\ got' = got \cup {<<want[t], buf[t]>>}
        /\ UNCHANGED <<type, body, adders, posted, accepted, expired, clashed>>
        /\ NextWant(t)
    BY DEF Clear
  <1>3. /\ tpc'[t] \in {"scan", "check"}
        /\ \A u \in Takers \ {t} :
             tpc'[u] = tpc[u] /\ ti'[u] = ti[u] /\ buf'[u] = buf[u] /\ want'[u] = want[u]
    BY <1>2, NextWantType
  <1>4. PastInv' /\ AcceptedKept' /\ TakenOnce'
    BY <1>1, <1>2 DEF Rest, PastInv, Promise, AcceptedKept, TakenOnce
  <1>5. TakenWhole'
    BY <1>1, <1>2 DEF Rest, Promise, TakenWhole
  <1>6. SlotInv'
    <2>1. ASSUME NEW j \in Slots, valid'[j], body[j] \notin clashed PROVE SlotOK(j)'
      <3>1. valid[j] /\ j # ti[t] /\ SlotOK(j)
        BY <1>1, <2>1 DEF Rest, SlotInv
      <3>2. body[j] # buf[t]
        <4>1. body[j] = buf[t] => valid[ti[t]] /\ body[ti[t]] = body[j]
          BY <1>1, <2>1
        <4>2. QED BY <1>1, <3>1, <4>1 DEF SlotOK
      <3>3. QED BY <1>1, <1>2, <3>1, <3>2 DEF SlotOK
    <2>2. QED BY <1>2, <2>1 DEF SlotInv
  <1>7. \A u \in Takers : /\ Copying(u)' <=> Copying(u) /\ u # t
                          /\ InHand(u)' <=> InHand(u) /\ u # t
    BY <1>2, <1>3 DEF Copying, InHand
  <1>8. AdderInv'
    <2>1. \A a \in Adders : Writing(a) => ai[a] \in Slots
      BY DEF TypeOK
    <2>2. \A u \in Takers : InHand(u)' => InHand(u) /\ ti'[u] = ti[u]
      BY <1>3, <1>7
    <2>3. QED BY <1>1, <1>2, <2>1, <2>2 DEF Rest, AdderInv, Writing, adders
  <1>9. TakerInv'
    <2>1. Copying(t) /\ \A u \in Takers : tpc[u] \in {"copy", "clear"} => Copying(u) /\ ti[u] \in Slots
      BY <1>2 DEF Copying, TypeOK
    <2>2. ASSUME NEW u \in Takers, u # t, Copying(u), Alone(u), ti[u] \in Slots PROVE Alone(u)'
      <3>1. ti[u] # ti[t]
        BY <2>1, <2>2 DEF Alone
      <3>2. QED BY <1>1, <1>2, <1>3, <1>7, <2>2, <3>1 DEF Alone
    <2>3. QED BY <1>1, <1>2, <1>3, <2>1, <2>2 DEF Rest, TakerInv
  <1>10. QED BY <1>4, <1>5, <1>6, <1>8, <1>9 DEF Rest, Promise

-----------------------------------------------------------------------------
(* The steps of check().                                                    *)

LEMMA FindOldRest == ASSUME IInv, FindOld \/ EndCheck PROVE Rest'
  <1> USE DEF IInv, Types
  <1>1. SlotInv' /\ PastInv' /\ Promise'
    BY PastKept DEF FindOld, EndCheck, past
  <1>2. /\ tpc["ctrl"] = "check" /\ tpc'["ctrl"] \in {"scan", "drop"}
        /\ \A u \in Takers \ {"ctrl"} : tpc'[u] = tpc[u] /\ ti'[u] = ti[u]
        /\ tpc'["ctrl"] = "drop" => ti'["ctrl"] \in Slots /\ valid[ti'["ctrl"]]
        /\ UNCHANGED <<slots, adders, want, buf, past>>
    <2>1. CASE EndCheck
      BY <2>1, CtrlTakes DEF EndCheck, TypeOK
    <2>2. CASE FindOld
      <3>1. PICK i \in ti["ctrl"] .. CtrlNum - 1 : valid[i] /\ ti' = [ti EXCEPT !["ctrl"] = i]
        BY <2>2 DEF FindOld
      <3>2. i \in Slots
        BY <3>1, CtrlTakes, SlotsStep DEF TypeOK
      <3>3. QED BY <2>2, <3>1, <3>2, CtrlTakes DEF FindOld, TypeOK
    <2>3. QED BY <2>1, <2>2
  <1>3. \A u \in Takers : /\ Copying(u)' <=> Copying(u) /\ u # "ctrl"
                          /\ Copying(u) => u # "ctrl"
                          /\ InHand(u) => u # "ctrl"
                          /\ u # "ctrl" => (InHand(u)' <=> InHand(u))
    BY <1>2 DEF Copying, InHand
  <1>4. AdderInv'
    <2>1. \A t \in Takers : InHand(t)' => ti'[t] \in Slots
            /\ (valid[ti'[t]] \/ (InHand(t) /\ ti[t] = ti'[t]))
      BY <1>2, <1>3 DEF TypeOK, InHand
    <2>2. QED BY <1>2, <2>1, AddersKept DEF past
  <1>5. TakerInv'
    <2>1. \A u \in Takers : tpc[u] \in {"copy", "clear"} => Copying(u)
      BY DEF Copying
    <2>2. ASSUME NEW u \in Takers, Copying(u), Alone(u) PROVE Alone(u)'
      BY <1>2, <1>3, <2>2 DEF Alone, slots
    <2>3. QED BY <1>2, <1>3, <2>1, <2>2 DEF Rest, TakerInv, slots, past
  <1>6. QED BY <1>1, <1>4, <1>5 DEF Rest

(* What dropping an old command has done to the table.                      *)
LEMMA DropFacts ==
  ASSUME IInv, Drop, NEW i, i = ti["ctrl"]
  PROVE  /\ i \in Slots /\ body[i] \in Commands /\ Taken' = Taken
         /\ \A j \in Slots : valid'[j] <=> valid[j] /\ j # i
         /\ clashed' = clashed \/ clashed' = clashed \cup {body[i]}
         /\ body[i] \notin clashed' => \A u \in Takers : Copying(u) => ti[u] # i
         /\ expired' = IF valid[i] THEN expired \cup {body[i]} ELSE expired
         /\ body[i] \notin clashed /\ valid[i] =>
              body[i] \in accepted \ (Taken \cup expired) /\ body[i] \in InTable
         /\ InTable' \ clashed =
              IF valid[i] THEN (InTable \ clashed) \ {body[i]} ELSE InTable \ clashed
  <1> USE DEF IInv, Types
  <1>1. i \in Slots /\ body[i] \in Commands
    BY CtrlTakes DEF Drop, TypeOK, Written
  <1>2. \A j \in Slots : valid'[j] <=> valid[j] /\ j # i
    BY <1>1 DEF Drop, TypeOK
  <1>3. Taken' = Taken
    BY DEF Drop, Taken
  <1>4. valid[i] /\ body[i] \notin clashed => SlotOK(i)
    BY <1>1 DEF Rest, SlotInv
  <1>5. body[i] \notin clashed /\ valid[i] =>
          body[i] \in accepted \ (Taken \cup expired) /\ body[i] \in InTable
    BY <1>1, <1>4 DEF SlotOK, InTable
  <1>6. InTable' \ clashed =
          IF valid[i] THEN (InTable \ clashed) \ {body[i]} ELSE InTable \ clashed
    <2>1. body' = body
      BY DEF Drop
    <2>2. valid[i] /\ body[i] \notin clashed => \A j \in Slots : valid[j] /\ j # i => body[j] # body[i]
      BY <1>4 DEF SlotOK
    <2>3. QED BY <1>2, <2>1, <2>2 DEF InTable
  <1>7. /\ clashed' = clashed \/ clashed' = clashed \cup {body[i]}
        /\ body[i] \notin clashed' => \A u \in Takers : Copying(u) => ti[u] # i
        /\ expired' = IF valid[i] THEN expired \cup {body[i]} ELSE expired
    BY DEF Drop, MetCopying
  <1>8. QED BY <1>1, <1>2, <1>3, <1>5, <1>6, <1>7

LEMMA DropRest == ASSUME IInv, Drop PROVE Rest'
  <1> USE DEF IInv, Types
  <1>0. PICK i : i = ti["ctrl"]
    OBVIOUS
  <1>1. /\ i \in Slots /\ body[i] \in Commands /\ Taken' = Taken
        /\ \A j \in Slots : valid'[j] <=> valid[j] /\ j # i
        /\ clashed' = clashed \/ clashed' = clashed \cup {body[i]}
        /\ body[i] \notin clashed' => \A u \in Takers : Copying(u) => ti[u] # i
        /\ expired' = IF valid[i] THEN expired \cup {body[i]} ELSE expired
        /\ body[i] \notin clashed /\ valid[i] =>
             body[i] \in accepted \ (Taken \cup expired) /\ body[i] \in InTable
        /\ InTable' \ clashed =
             IF valid[i] THEN (InTable \ clashed) \ {body[i]} ELSE InTable \ clashed
    BY <1>0, DropFacts
  <1>2. /\ tpc["ctrl"] = "drop" /\ tpc'["ctrl"] = "check"
        /\ \A u \in Takers \ {"ctrl"} : tpc'[u] = tpc[u] /\ ti'[u] = ti[u]
        /\ UNCHANGED <<type, body, adders, want, buf, posted, accepted, got, again>>
    BY CtrlTakes DEF Drop, TypeOK
  <1>3. clashed \subseteq clashed'
    BY <1>1
  <1>4. PastInv' /\ TakenOnce' /\ TakenWhole'
    BY <1>1, <1>2, <1>3 DEF Rest, PastInv, Promise, TakenOnce, TakenWhole
  <1>5. AcceptedKept'
    BY <1>1, <1>2, <1>3 DEF Rest, Promise, AcceptedKept
  <1>6. SlotInv'
    <2>1. ASSUME NEW j \in Slots, valid'[j], body[j] \notin clashed' PROVE SlotOK(j)'
      <3>1. valid[j] /\ j # i /\ SlotOK(j) /\ body[j] \notin clashed
        BY <1>1, <1>3, <2>1 DEF Rest, SlotInv
      <3>2. valid[i] => body[i] # body[j]
        BY <1>1, <3>1 DEF SlotOK
      <3>3. QED BY <1>1, <1>2, <3>1, <3>2 DEF SlotOK
    <2>2. QED BY <1>2, <2>1 DEF SlotInv
  <1>7. \A u \in Takers : /\ Copying(u)' <=> Copying(u)
                          /\ Copying(u) => u # "ctrl"
                          /\ InHand(u)' <=> InHand(u) /\ u # "ctrl"
    BY <1>2 DEF Copying, InHand
  <1>8. AdderInv'
    <2>1. \A a \in Adders : Writing(a) => ai[a] \in Slots
      BY DEF TypeOK
    <2>2. \A u \in Takers : InHand(u)' => InHand(u) /\ ti'[u] = ti[u]
      BY <1>2, <1>7
    <2>3. QED BY <1>1, <1>2, <1>3, <2>1, <2>2 DEF Rest, AdderInv, Writing, adders
  <1>9. TakerInv'
    <2>1. \A u \in Takers : tpc[u] \in {"copy", "clear"} => Copying(u) /\ ti[u] \in Slots
      BY DEF Copying, TypeOK
    <2>2. ASSUME NEW u \in Takers, Copying(u), Alone(u), ti[u] \in Slots, body[ti[u]] \notin clashed'
          PROVE  Alone(u)'
      <3>1. ti[u] # i
        BY <1>1, <2>2
      <3>2. QED BY <1>1, <1>2, <1>7, <2>2, <3>1 DEF Alone
    <2>3. QED BY <1>1, <1>2, <1>3, <1>7, <2>1, <2>2 DEF Rest, TakerInv
  <1>10. QED BY <1>4, <1>5, <1>6, <1>8, <1>9 DEF Rest, Promise

-----------------------------------------------------------------------------

LEMMA InitIInv == Init => IInv
  <1> SUFFICES ASSUME Init PROVE IInv
    OBVIOUS
  <1>1. Taken = {} /\ InTable = {}
    BY DEF Init, Taken, InTable
  <1>2. TypeOK
    <2>1. \A t \in Takers : IF t = "ctrl" THEN TRUE ELSE t \in Routes /\ GroupOf[t] \in Kinds
      BY KindsAsked DEF Takers
    <2>2. \A r \in Routes : r \in Takers /\ r # "ctrl"
      BY CtrlAssumption DEF Takers
    <2>3. want \in [Takers -> Kinds]
      BY <2>1 DEF Init, Kinds
    <2>4. want["ctrl"] \in {"load", "man"} /\ \A r \in Routes : want[r] = GroupOf[r]
      BY <2>2, CtrlTakes DEF Init
    <2>5. "load" \in Kinds
      BY DEF Kinds
    <2>6. QED BY <2>3, <2>4, <2>5, SlotsStep
               DEF Init, TypeOK, AdderSteps, TakerSteps, Writing, InHand
  <1>3. Written
    BY DEF Init, Written
  <1>4. AdderInv /\ SlotInv /\ TakerInv
    BY DEF Init, AdderInv, SlotInv, TakerInv, Writing
  <1>5. PastInv /\ Promise
    BY <1>1 DEF Init, PastInv, Promise, AcceptedKept, TakenOnce, TakenWhole
  <1>6. QED BY <1>2, <1>3, <1>4, <1>5 DEF IInv, Types, Rest

LEMMA NextIInv == IInv /\ [Next]_vars => IInv'
  <1> SUFFICES ASSUME IInv, [Next]_vars PROVE Rest'
    BY TypesStep DEF IInv
  <1>1. ASSUME NEW a \in Adders, Add(a) \/ Adding(a) PROVE Rest'
    BY <1>1, AddRest, OccupiedRest, PickRest, WriteBodyRest, WriteHeadRest, PublishRest
       DEF Adding
  <1>2. ASSUME NEW t \in Takers, Taking(t) PROVE Rest'
    <2>1. CASE Look(t)
      BY <2>1, LookRest, PassOverRest DEF Look
    <2>2. CASE Match(t)
      <3>1. CASE type[ti[t]] = want[t]
        BY <2>2, <3>1, MatchRest
      <3>2. CASE type[ti[t]] # want[t]
        BY <2>2, <3>2, PassOverRest DEF Match, past
      <3>3. QED BY <3>1, <3>2
    <2>3. QED BY <1>2, <2>1, <2>2, CopyRest, ClearRest DEF Taking
  <1>3. CASE Checking
    BY <1>3, FindOldRest, DropRest DEF Checking
  <1>4. CASE UNCHANGED vars
    <2>1. SlotInv' /\ PastInv' /\ Promise' /\ TakerInv'
      BY <1>4, PastKept, TakersKept DEF IInv, vars, past
    <2>2. AdderInv'
      BY <1>4 DEF IInv, Rest, AdderInv, Writing, InHand, vars, slots, adders, takers, past
    <2>3. QED BY <2>1, <2>2 DEF Rest
  <1>5. QED BY <1>1, <1>2, <1>3, <1>4 DEF Next

LEMMA SpecIInv == Spec => []IInv
  BY InitIInv, NextIInv, PTL DEF Spec

-----------------------------------------------------------------------------
(* The table as a box of commands.                                          *)

(* While a slot is free, fewer commands are in the table than it has slots. *)
LEMMA RoomLeft ==
  ASSUME NEW i \in Slots, ~valid[i]
  PROVE  Cardinality(InTable \ clashed) < CtrlNum
  <1> DEFINE Full == {j \in Slots : valid[j]}
             f == [j \in Full |-> body[j]]
  <1>1. IsFiniteSet(Slots) /\ Cardinality(Slots) = CtrlNum
    <2>1. 0 \in Int /\ CtrlNum - 1 \in Int /\ ~(0 > CtrlNum - 1) /\ CtrlNum - 1 - 0 + 1 = CtrlNum
      BY SMT, CtrlAssumption
    <2>2. QED BY <2>1, FS_Interval, Zenon DEF Slots
  <1>2. IsFiniteSet(Full) /\ Cardinality(Full) <= Cardinality(Slots) /\ Cardinality(Full) # CtrlNum
    <2>1. Full \in SUBSET Slots /\ Full # Slots
      OBVIOUS
    <2>2. QED BY <1>1, <2>1, FS_Subset
  <1>3. f \in Surjection(Full, InTable)
    BY DEF Surjection, InTable
  <1>4. IsFiniteSet(InTable) /\ Cardinality(InTable) <= Cardinality(Full)
    BY <1>2, <1>3, FS_Surjection
  <1>5. IsFiniteSet(InTable \ clashed) /\ Cardinality(InTable \ clashed) <= Cardinality(InTable)
    <2>1. InTable \ clashed \in SUBSET InTable
      OBVIOUS
    <2>2. QED BY <1>4, <2>1, FS_Subset
  <1>6. /\ Cardinality(InTable) \in Nat /\ Cardinality(Full) \in Nat /\ CtrlNum \in Nat
        /\ Cardinality(InTable \ clashed) \in Nat
    BY <1>2, <1>4, <1>5, FS_CardinalityType, CtrlAssumption
  <1> HIDE DEF Full
  <1>7. QED BY SMT, <1>1, <1>2, <1>4, <1>5, <1>6

LEMMA BoxKept ==
  ASSUME UNCHANGED <<valid, body, got, expired, clashed>>
  PROVE  UNCHANGED Box!vars
  <1>1. InTable' = InTable /\ Taken' = Taken
    BY DEF InTable, Taken
  <1>2. QED BY <1>1 DEF Box!vars

(* Marking commands in the table, or elsewhere, is a clash of the box.      *)
LEMMA BoxMarked ==
  ASSUME UNCHANGED <<valid, body, got, expired>>,
         NEW met \in SUBSET Commands, clashed' = clashed \cup met
  PROVE  Box!Next
  <1>1. InTable' = InTable /\ Taken' = Taken
    BY DEF InTable, Taken
  <1>2. Box!Clash(met)
    BY <1>1 DEF Box!Clash
  <1>3. QED BY <1>2 DEF Box!Next

LEMMA InitBox == Init => Box!Init
  BY DEF Init, Box!Init, InTable, Taken

LEMMA WriteBodyBox == ASSUME IInv, NEW a \in Adders, WriteBody(a) PROVE UNCHANGED Box!vars
  <1>1. /\ ai[a] \in Slots /\ valid[ai[a]] => body[ai[a]] \in clashed
        /\ valid[ai[a]] => acmd[a] \in clashed
    BY OwnSlot DEF WriteBody, Writing
  <1>2. /\ \A j \in Slots \ {ai[a]} : body'[j] = body[j]
        /\ body'[ai[a]] = acmd[a]
        /\ UNCHANGED <<valid, past>>
    BY <1>1 DEF IInv, Types, TypeOK, WriteBody
  <1>3. InTable' \ clashed = InTable \ clashed
    BY <1>1, <1>2 DEF InTable
  <1>4. Taken' = Taken
    BY <1>2 DEF Taken, past
  <1>5. QED BY <1>2, <1>3, <1>4 DEF Box!vars, past

LEMMA PublishBox == ASSUME IInv, NEW a \in Adders, Publish(a) PROVE [Box!Next]_(Box!vars)
  <1>1. /\ ai[a] \in Slots /\ acmd[a] \in Commands
        /\ body[ai[a]] = acmd[a] \/ {acmd[a], body[ai[a]]} \subseteq clashed
        /\ acmd[a] \notin clashed =>
             ~valid[ai[a]] /\ acmd[a] \notin InTable \cup Taken \cup expired
        /\ InTable' = InTable \cup {body[ai[a]]} /\ Taken' = Taken
    BY PublishFacts
  <1>2. UNCHANGED <<expired, clashed>>
    BY DEF Publish
  <1>3. CASE acmd[a] \in clashed
    BY <1>1, <1>2, <1>3 DEF Box!vars
  <1>4. CASE acmd[a] \notin clashed
    <2>1. InTable' \ clashed = (InTable \ clashed) \cup {acmd[a]}
      BY <1>1, <1>4
    <2>2. Cardinality(InTable \ clashed) < CtrlNum
      BY <1>1, <1>4, RoomLeft
    <2>3. Box!Cardinality(InTable \ clashed) = Cardinality(InTable \ clashed)
      BY DEF Box!Cardinality, Cardinality
    <2>4. Box!Post(acmd[a])
      BY <1>1, <1>2, <1>4, <2>1, <2>2, <2>3 DEF Box!Post
    <2>5. QED BY <1>1, <2>4 DEF Box!Next
  <1>5. QED BY <1>3, <1>4

LEMMA ClearBox == ASSUME IInv, NEW t \in Takers, Clear(t) PROVE [Box!Next]_(Box!vars)
  <1>1. /\ buf[t] \in Commands /\ Taken' = Taken \cup {buf[t]}
        /\ InTable' \ clashed = (InTable \ clashed) \ {buf[t]}
        /\ buf[t] \notin clashed => buf[t] \in InTable
    BY ClearFacts
  <1>2. UNCHANGED <<expired, clashed>>
    BY DEF Clear
  <1>3. CASE buf[t] \in clashed
    BY <1>1, <1>2, <1>3 DEF Box!vars
  <1>4. CASE buf[t] \notin clashed
    <2>1. Box!Take(buf[t])
      BY <1>1, <1>2, <1>4 DEF Box!Take
    <2>2. QED BY <1>1, <2>1 DEF Box!Next
  <1>5. QED BY <1>3, <1>4

LEMMA DropBox == ASSUME IInv, Drop PROVE [Box!Next]_(Box!vars)
  <1>0. PICK i : i = ti["ctrl"]
    OBVIOUS
  <1>1. /\ body[i] \in Commands /\ Taken' = Taken
        /\ clashed' = clashed \/ clashed' = clashed \cup {body[i]}
        /\ expired' = IF valid[i] THEN expired \cup {body[i]} ELSE expired
        /\ body[i] \notin clashed /\ valid[i] => body[i] \in InTable
        /\ InTable' \ clashed =
             IF valid[i] THEN (InTable \ clashed) \ {body[i]} ELSE InTable \ clashed
    BY <1>0, DropFacts
  <1>2. CASE clashed' = clashed \cup {body[i]}
    <2>1. InTable' \ clashed' = (InTable \ clashed) \ {body[i]}
      BY <1>1, <1>2
    <2>2. expired' \ clashed' = (expired \ clashed) \ {body[i]}
      BY <1>1, <1>2
    <2>3. Box!Clash({body[i]})
      BY <1>1, <1>2, <2>1, <2>2 DEF Box!Clash
    <2>4. QED BY <1>1, <2>3 DEF Box!Next
  <1>3. CASE clashed' = clashed /\ (body[i] \in clashed \/ ~valid[i])
    BY <1>1, <1>3 DEF Box!vars
  <1>4. CASE clashed' = clashed /\ body[i] \notin clashed /\ valid[i]
    <2>1. Box!Expire(body[i])
      BY <1>1, <1>4 DEF Box!Expire
    <2>2. QED BY <1>1, <2>1 DEF Box!Next
  <1>5. QED BY <1>1, <1>2, <1>3, <1>4

LEMMA NextBox == IInv /\ [Next]_vars => [Box!Next]_(Box!vars)
  <1> SUFFICES ASSUME IInv, [Next]_vars PROVE [Box!Next]_(Box!vars)
    OBVIOUS
  <1>1. ASSUME NEW a \in Adders, Add(a) \/ Adding(a) PROVE [Box!Next]_(Box!vars)
    <2>1. CASE Pick(a)
      <3>1. Clashes(a) \in SUBSET Commands
        BY <2>1 DEF Clashes, MetAdders, Pick, Writing, IInv, Types, TypeOK, Written
      <3>2. QED BY <2>1, <3>1, BoxMarked DEF Pick, slots
    <2>2. CASE Add(a) \/ Occupied(a) \/ TableFull(a) \/ WriteHead(a)
      BY <2>2, BoxKept DEF Add, Occupied, TableFull, WriteHead, slots, past
    <2>3. QED BY <1>1, <2>1, <2>2, WriteBodyBox, PublishBox DEF Adding
  <1>2. ASSUME NEW t \in Takers, Taking(t) PROVE [Box!Next]_(Box!vars)
    <2>1. CASE Look(t) \/ Copy(t) \/ (Match(t) /\ clashed' = clashed)
      BY <2>1, BoxKept DEF Look, Copy, Match, slots, past
    <2>2. CASE Match(t) /\ clashed' # clashed
      <3>1. clashed' = clashed \cup {body[ti[t]]} /\ UNCHANGED <<valid, body, got, expired>>
        BY <2>2 DEF Match, slots
      <3>2. body[ti[t]] \in Commands
        BY <2>2 DEF Match, IInv, Types, Written
      <3>3. QED BY <3>1, <3>2, BoxMarked
    <2>3. QED BY <1>2, <2>1, <2>2, ClearBox DEF Taking
  <1>3. CASE Checking
    <2>1. CASE FindOld \/ EndCheck
      BY <2>1, BoxKept DEF FindOld, EndCheck, slots, past
    <2>2. QED BY <1>3, <2>1, DropBox DEF Checking
  <1>4. CASE UNCHANGED vars
    BY <1>4, BoxKept DEF vars, slots, past
  <1>5. QED BY <1>1, <1>2, <1>3, <1>4 DEF Next

-----------------------------------------------------------------------------

(* Every variable of the table and of its users keeps its type, and nobody  *)
(* writes or copies a slot outside the table, however their calls overlap.  *)
THEOREM TableTypeCorrect == Spec => []TypeOK
  <1>1. IInv => TypeOK
    BY DEF IInv, Types
  <1>2. QED BY <1>1, SpecIInv, PTL

(* A command that add() returned true for is in the table until it is taken *)
(* or too old, unless its own slot was used by two at a time: whatever      *)
(* clashes elsewhere in the table costs it nothing.                         *)
THEOREM AcceptedStays == Spec => []AcceptedKept
  <1>1. IInv => AcceptedKept
    BY DEF IInv, Rest, Promise
  <1>2. QED BY <1>1, SpecIInv, PTL

(* The control task and any number of routes, several of a group among      *)
(* them, look at the same slots without a lock: a command that two of them  *)
(* get, or that one gets and check() drops, was in their hands at once.     *)
THEOREM CommandsOnce == Spec => []TakenOnce
  <1>1. IInv => TakenOnce
    BY DEF IInv, Rest, Promise
  <1>2. QED BY <1>1, SpecIInv, PTL

(* What a taker copies is a whole command of the kind it asked for, unless  *)
(* it is one of those that met in a slot.                                   *)
THEOREM CommandsWhole == Spec => []TakenWhole
  <1>1. IInv => TakenWhole
    BY DEF IInv, Rest, Promise
  <1>2. QED BY <1>1, SpecIInv, PTL

(* The table is a box of at most CtrlNum commands: the flag that add()      *)
(* raises is the moment a command enters it, the flag that a taker or       *)
(* check() lowers the moment it leaves, and nothing but a clash at its own  *)
(* slot takes a command out of it any other way.                            *)
THEOREM TableImplementsBox == Spec => ImplementsBox
  BY SpecIInv, InitBox, NextBox, PTL DEF Spec, ImplementsBox, Box!Spec
=============================================================================
