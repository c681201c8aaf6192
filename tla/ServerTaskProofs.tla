--------------------------- MODULE ServerTaskProofs -------------------------
(***************************************************************************)
(* Proofs about two tasks of the server that share the parameter tables.    *)
(* LoadFlags: for any number of changes of the database, the word           *)
(* loadParaFlag keeps readers away from the tables being read, and the      *)
(* routes follow the tables their rows refer to. StateTask, from StateInit  *)
(* on: as long as the routes are not reloaded, no two routes of a group are *)
(* flagged as its main route, for every number of groups and routes,        *)
(* whichever fail, return, are stopped or disabled.                         *)
(***************************************************************************)
EXTENDS LoadFlags, StateTask, SequenceTheorems, WellFoundedInduction,
        FiniteSetTheorems, TLAPS

LEMMA Joined ==
  ASSUME NEW a, NEW b, NEW c, NEW d, NEW e
  PROVE  <<a, b>> \o <<c, d, e>> = <<a, b, c, d, e>>
  <1> DEFINE S == {a, b, c, d, e}
             x == <<a, b>>  y == <<c, d, e>>  z == <<a, b, c, d, e>>
  <1>1. /\ x \in Seq(S) /\ Len(x) = 2 /\ x[1] = a /\ x[2] = b
        /\ y \in Seq(S) /\ Len(y) = 3 /\ y[1] = c /\ y[2] = d /\ y[3] = e
        /\ z \in Seq(S) /\ Len(z) = 5 /\ z[1] = a /\ z[2] = b
        /\ z[3] = c /\ z[4] = d /\ z[5] = e
    OBVIOUS
  <1> HIDE DEF x, y, z, S
  <1>2. /\ x \o y \in Seq(S) /\ Len(x \o y) = 5
        /\ \A i \in 1 .. 5 : (x \o y)[i] = IF i <= 2 THEN x[i] ELSE y[i - 2]
    <2>1. /\ x \o y \in Seq(S) /\ Len(x \o y) = Len(x) + Len(y)
          /\ \A i \in 1 .. Len(x) + Len(y) :
               (x \o y)[i] = IF i <= Len(x) THEN x[i] ELSE y[i - Len(x)]
      BY <1>1, ConcatProperties, Zenon
    <2>2. QED BY <1>1, <2>1
  <1>3. \A i \in 1 .. 5 : (x \o y)[i] = z[i]
    <2>1. /\ (x \o y)[1] = a /\ (x \o y)[2] = b /\ (x \o y)[3] = c
          /\ (x \o y)[4] = d /\ (x \o y)[5] = e
      BY <1>1, <1>2
    <2>2. \A i \in 1 .. 5 : i \in {1, 2, 3, 4, 5}
      OBVIOUS
    <2>3. QED BY <1>1, <2>1, <2>2
  <1>4. x \o y = z
    BY <1>1, <1>2, <1>3, SeqEqual
  <1>5. QED BY <1>4 DEF x, y, z

-----------------------------------------------------------------------------
(* What may be left of a branch of the load task's pass: of the branch of   *)
(* the stations, of one that ends with the routes, and of the last.         *)
StationBranch ==
  <<Load("station"), Clear("station"), Set("group"), Load("group"), Clear("group")>>
StationRead == <<Clear("station"), Set("group"), Load("group"), Clear("group")>>
StationRests ==
  {StationBranch, StationRead, <<Set("group"), Load("group"), Clear("group")>>,
   <<Load("group"), Clear("group")>>, <<Clear("group")>>}
Referred == {"channel", "group", "protocol"}
RouteRests ==
  {<<Load(t), Clear(t), Set("route"), Load("route"), Clear("route")>> : t \in Referred}
    \cup {<<Clear(t), Set("route"), Load("route"), Clear("route")>> : t \in Referred}
    \cup {<<Set("route"), Load("route"), Clear("route")>>,
          <<Load("route"), Clear("route")>>, <<Clear("route")>>}
YkRests == {<<Load("yk"), Clear("yk")>>, <<Clear("yk")>>}
LoadRests == {<<>>} \cup StationRests \cup RouteRests \cup YkRests

(* And of a command in the control task.                                    *)
CtrlRests ==
  {<<>>, <<SetAll>>, <<Set("yc"), Load("yc"), Clear("yc")>>,
   <<Load("yc"), Clear("yc")>>, <<Clear("yc")>>}
    \cup {<<Set(t)>> : t \in Referred \cup {"route"}}

(* A step on one of some tables; a table is read right after its bit was    *)
(* set, unless the list begins with it.                                     *)
Steps(s, ops, T) ==
  /\ s # <<>> /\ Head(s).op \in ops /\ Head(s).table \in T
  /\ Tail(s) # <<>> /\ Head(Tail(s)).op = "load" =>
       Head(s).op = "set" /\ Head(s).table = Head(Tail(s)).table

LEMMA PassedTables ==
  /\ Passed = {"station", "channel", "group", "route", "protocol", "yk"}
  /\ Len(Order) = 6
  /\ \A i \in 1 .. 6 : Order[i] \in Passed
  /\ Order[1] = "station" /\ \A i \in 2 .. 6 : Order[i] # "station"
  <1>1. /\ Len(Order) = 6 /\ DOMAIN Order = 1 .. 6
        /\ Order[1] = "station" /\ Order[2] = "channel" /\ Order[3] = "group"
        /\ Order[4] = "route" /\ Order[5] = "protocol" /\ Order[6] = "yk"
    BY DEF Order
  <1>2. \A i \in 1 .. 6 : i \in {1, 2, 3, 4, 5, 6}
    OBVIOUS
  <1>3. Passed = {Order[i] : i \in 1 .. 6}
    BY <1>1 DEF Passed, ToSet
  <1>4. QED BY <1>1, <1>2, <1>3

LEMMA StationSteps ==
  ASSUME NEW s \in StationRests
  PROVE  /\ Steps(s, {"load", "set", "clear"}, {"station", "group"})
         /\ Tail(s) \in StationRests \cup {<<>>}
         /\ s = StationBranch => Head(s) = Load("station") /\ Tail(s) = StationRead
         /\ s = StationRead => Head(s) = Clear("station")
         /\ s \notin {StationBranch, StationRead} => Head(s).table = "group"
         /\ s[Len(s)] = Clear("group")
  <1> USE DEF Load, Clear, Set, Steps, StationBranch, StationRead
  <1>1. CASE s = StationBranch
    BY <1>1 DEF StationRests
  <1>2. CASE s = StationRead
    BY <1>2 DEF StationRests
  <1>3. CASE s = <<Set("group"), Load("group"), Clear("group")>>
    BY <1>3 DEF StationRests
  <1>4. CASE s = <<Load("group"), Clear("group")>>
    BY <1>4 DEF StationRests
  <1>5. CASE s = <<Clear("group")>>
    BY <1>5 DEF StationRests
  <1>6. QED BY <1>1, <1>2, <1>3, <1>4, <1>5 DEF StationRests

(* The routes are still to be read, until the last step but one reads them. *)
LEMMA RouteSteps ==
  ASSUME NEW s \in RouteRests
  PROVE  /\ Steps(s, {"load", "set", "clear"}, Referred \cup {"route"})
         /\ Tail(s) \in RouteRests \cup {<<>>}
         /\ s # <<Clear("route")>> => Contains(s, Load("route"))
         /\ Tail(s) = <<>> <=> s = <<Clear("route")>>
         /\ Tail(s) = <<Clear("route")>> => Head(s) = Load("route")
         /\ s[Len(s)] = Clear("route")
  <1> USE DEF Load, Clear, Set, Steps, Referred, Contains
  <1>1. CASE s = <<Set("route"), Load("route"), Clear("route")>>
    BY <1>1 DEF RouteRests
  <1>2. CASE s = <<Load("route"), Clear("route")>>
    BY <1>2 DEF RouteRests
  <1>3. CASE s = <<Clear("route")>>
    BY <1>3 DEF RouteRests
  <1>4. CASE \E t \in Referred : s = <<Clear(t), Set("route"), Load("route"), Clear("route")>>
    BY <1>4 DEF RouteRests
  <1>5. CASE \E t \in Referred :
               s = <<Load(t), Clear(t), Set("route"), Load("route"), Clear("route")>>
    BY <1>5 DEF RouteRests
  <1>6. QED BY <1>1, <1>2, <1>3, <1>4, <1>5 DEF RouteRests

LEMMA YkSteps ==
  ASSUME NEW s \in YkRests
  PROVE  /\ Steps(s, {"load", "clear"}, {"yk"})
         /\ Tail(s) \in YkRests \cup {<<>>}
  <1> USE DEF Load, Clear, Set, Steps
  <1>1. CASE s = <<Load("yk"), Clear("yk")>>
    BY <1>1 DEF YkRests
  <1>2. CASE s = <<Clear("yk")>>
    BY <1>2 DEF YkRests
  <1>3. QED BY <1>1, <1>2 DEF YkRests

LEMMA CtrlSteps ==
  ASSUME NEW s \in CtrlRests, s # <<>>
  PROVE  /\ Steps(s, {"load", "set", "clear", "store"},
                  Referred \cup {"route", "yc", "all"})
         /\ Tail(s) \in CtrlRests
         /\ Head(s).op \in {"load", "clear"} => Head(s).table = "yc"
         /\ Head(s).table = "all" <=> Head(s).op = "store"
  <1> USE DEF Load, Clear, Set, SetAll, Steps, Referred
  <1>1. CASE s = <<SetAll>>
    BY <1>1 DEF CtrlRests
  <1>2. CASE s = <<Set("yc"), Load("yc"), Clear("yc")>>
    BY <1>2 DEF CtrlRests
  <1>3. CASE s = <<Load("yc"), Clear("yc")>>
    BY <1>3 DEF CtrlRests
  <1>4. CASE s = <<Clear("yc")>>
    BY <1>4 DEF CtrlRests
  <1>5. CASE \E t \in Referred \cup {"route"} : s = <<Set(t)>>
    BY <1>5 DEF CtrlRests
  <1>6. QED BY <1>1, <1>2, <1>3, <1>4, <1>5 DEF CtrlRests

LEMMA CommandForms ==
  /\ DoLoadPara("all") = <<SetAll>>
  /\ DoLoadPara("yc") = <<Set("yc"), Load("yc"), Clear("yc")>>
  /\ \A c \in Taken \ {"all", "yc"} : DoLoadPara(c) = <<Set(c)>>
  BY Zenon DEF DoLoadPara

LEMMA CommandSteps ==
  ASSUME NEW c \in Taken
  PROVE  /\ DoLoadPara(c) \in CtrlRests /\ DoLoadPara(c) # <<>>
         /\ Head(DoLoadPara(c)).op # "load"
  <1>1. CASE c = "all"
    BY <1>1, CommandForms DEF CtrlRests, SetAll
  <1>2. CASE c = "yc"
    BY <1>2, CommandForms DEF CtrlRests, Set
  <1>3. CASE c \notin {"all", "yc"}
    <2>1. c \in Referred \cup {"route"}
      BY <1>3 DEF Taken, Referred
    <2>2. QED BY <1>3, <2>1, CommandForms DEF CtrlRests, Set
  <1>4. QED BY <1>1, <1>2, <1>3

(* What the branches are, step by step.                                     *)
LEMMA BranchForms ==
  /\ Branch("station") = StationBranch
  /\ \A t \in Referred :
       Branch(t) = <<Load(t), Clear(t), Set("route"), Load("route"), Clear("route")>>
  /\ \A t \in {"route", "yk"} : Branch(t) = <<Load(t), Clear(t)>>
  <1>1. Branch("station") = StationBranch
    <2>1. Branch("station") = <<Load("station"), Clear("station")>> \o
                                <<Set("group"), Load("group"), Clear("group")>>
      BY Zenon DEF Branch, Reload
    <2>2. QED BY <2>1, Joined DEF StationBranch
  <1>2. ASSUME NEW t \in Referred
        PROVE  Branch(t) = <<Load(t), Clear(t), Set("route"), Load("route"), Clear("route")>>
    <2>1. t # "station"
      BY <1>2 DEF Referred
    <2>2. Branch(t) = <<Load(t), Clear(t)>> \o
                        <<Set("route"), Load("route"), Clear("route")>>
      BY <1>2, <2>1, Zenon DEF Branch, Reload, ReloadRoute, Referred
    <2>3. QED BY <2>2, Joined
  <1>3. ASSUME NEW t \in {"route", "yk"} PROVE Branch(t) = <<Load(t), Clear(t)>>
    <2>1. t # "station" /\ t # "channel" /\ t # "group" /\ t # "protocol"
      BY <1>3
    <2>2. QED BY <2>1, Zenon DEF Branch, Reload
  <1>4. QED BY <1>1, <1>2, <1>3

(* A branch begins by reading the table it is for.                          *)
LEMMA BranchSteps ==
  ASSUME NEW t \in Passed
  PROVE  /\ Branch(t) \in LoadRests \ {<<>>} /\ Head(Branch(t)) = Load(t)
         /\ t = "station" <=> Branch(t) = StationBranch
         /\ t = "station" <=> Branch(t) \in StationRests
         /\ Branch(t) # <<Clear("route")>>
  <1>0. Len(<<>>) = 0 /\ \A x : Len(<<x>>) = 1
    OBVIOUS
  <1>1. CASE t = "station"
    BY <1>1, BranchForms DEF StationBranch, StationRests, LoadRests, Load, Clear
  <1>2. CASE t \in Referred
    <2>1. t # "station"
      BY <1>2 DEF Referred
    <2>2. Branch(t) = <<Load(t), Clear(t), Set("route"), Load("route"), Clear("route")>>
      BY <1>2, BranchForms
    <2>3. /\ Branch(t) \in RouteRests /\ Head(Branch(t)) = Load(t)
          /\ Branch(t)[3] = Set("route") /\ Len(Branch(t)) = 5
      BY <1>2, <2>2 DEF RouteRests
    <2>4. Branch(t) \notin StationRests
      BY <2>1, <2>3 DEF StationRests, StationBranch, StationRead, Set
    <2>5. Branch(t) # <<>> /\ Branch(t) # <<Clear("route")>>
      <3>1. Len(Branch(t)) # 0 /\ Len(Branch(t)) # 1
        BY <2>3
      <3>2. QED BY <1>0, <3>1, Zenon
    <2>6. StationBranch \in StationRests
      BY DEF StationRests
    <2>7. QED BY <2>1, <2>3, <2>4, <2>5, <2>6 DEF LoadRests
  <1>3. CASE t \in {"route", "yk"}
    <2>1. t # "station" /\ t # "group"
      BY <1>3
    <2>2. Branch(t) = <<Load(t), Clear(t)>>
      BY <1>3, BranchForms
    <2>3. Branch(t) \in RouteRests \cup YkRests
      BY <1>3, <2>2 DEF RouteRests, YkRests
    <2>4. Head(Branch(t)) = Load(t) /\ Len(Branch(t)) = 2
      BY <2>2
    <2>5. Branch(t) \notin StationRests
      BY <2>1, <2>2 DEF StationRests, StationBranch, StationRead, Load
    <2>6. Branch(t) # <<>> /\ Branch(t) # <<Clear("route")>>
      <3>1. Len(Branch(t)) # 0 /\ Len(Branch(t)) # 1
        BY <2>4
      <3>2. QED BY <1>0, <3>1, Zenon
    <2>7. StationBranch \in StationRests
      BY DEF StationRests
    <2>8. QED BY <2>1, <2>3, <2>4, <2>5, <2>6, <2>7 DEF LoadRests
  <1>4. QED BY <1>1, <1>2, <1>3, PassedTables DEF Referred

LEMMA EmptyIsDone ==
  /\ <<>> \notin StationRests \cup RouteRests \cup YkRests
  /\ {StationBranch, StationRead} \subseteq StationRests
  <1>1. {StationBranch, StationRead} \subseteq StationRests
    BY DEF StationRests
  <1>2. QED BY <1>1, StationSteps, RouteSteps, YkSteps DEF Steps

(* The three kinds of branches have nothing left in common.                 *)
LEMMA RestsApart ==
  /\ StationRests \cap RouteRests = {} /\ StationRests \cap YkRests = {}
  /\ RouteRests \cap YkRests = {}
  /\ <<Clear("route")>> \in RouteRests
  <1>1. \A s \in YkRests : Head(s).table = "yk"
    BY YkSteps DEF Steps
  <1>2. \A s \in StationRests : Head(s).table \in {"station", "group"}
    BY StationSteps DEF Steps
  <1>3. \A s \in RouteRests : Head(s).table \in {"channel", "group", "protocol", "route"}
    BY RouteSteps DEF Steps, Referred
  <1>4. ASSUME NEW s \in StationRests, s \in RouteRests PROVE FALSE
    <2>1. s[Len(s)] = Clear("route") /\ s[Len(s)] = Clear("group")
      BY <1>4, RouteSteps, StationSteps
    <2>2. QED BY <2>1 DEF Clear
  <1>5. QED BY <1>1, <1>2, <1>3, <1>4 DEF RouteRests

-----------------------------------------------------------------------------
(* The inductive invariant.                                                 *)

ListsInv ==
  /\ todo = [k \in Tasks |-> todo[k]]
  /\ todo["load"] \in LoadRests /\ todo["ctrl"] \in CtrlRests

(* A word is held only to set or clear a bit.                               *)
WordInv ==
  /\ reg = [k \in Tasks |-> reg[k]]
  /\ \A k \in Tasks : reg[k].held => Doing(k, "set") \/ Doing(k, "clear")

(* Nothing has gone wrong that the property of the routes excepts.          *)
Clean == ~torn /\ failed = 0 /\ ~crossed

(* The bit of the stations only goes up with every other, before a pass;    *)
(* while their branch is worked on, the bits the routes need are still up.  *)
StationInv ==
  Clean =>
    /\ "station" \in flag =>
         /\ Referred \cup {"route"} \subseteq flag
         /\ \/ at \in {0, 1} /\ todo["load"] = <<>>
            \/ todo["load"] \in {StationBranch, StationRead}
    /\ todo["load"] \in StationRests => "route" \in flag

Mismatch == \E t \in DOMAIN resolved : resolved[t] # loaded[t]

(* The routes are still to be read, or a bit is up that will have them read.*)
RoutesInv ==
  Clean /\ Mismatch =>
    \/ todo["load"] \in RouteRests \ {<<Clear("route")>>}
    \/ flag \cap (Referred \cup {"route"}) # {}
RoutesReadInv == Clean /\ todo["load"] = <<Clear("route")>> => ~Mismatch

LoadIInv ==
  /\ TypeOK /\ ListsInv /\ WordInv
  /\ LoadGuarded /\ StationInv /\ RoutesInv /\ RoutesReadInv

LEMMA RoutesInvImplies ==
  ASSUME TypeOK, RoutesInv, RoutesReadInv
  PROVE  RoutesFollow
  <1>1. \A s \in RouteRests \ {<<Clear("route")>>} : Contains(s, Load("route"))
    BY RouteSteps
  <1>2. Referred \cup {"route"} = {"channel", "group", "route", "protocol"}
    BY DEF Referred
  <1>3. failed \in Nat
    BY LoadAssumption DEF TypeOK
  <1>4. QED BY <1>1, <1>2, <1>3 DEF RoutesInv, RoutesReadInv, RoutesFollow, Mismatch, Clean

(* What a list's next step is.                                              *)
LEMMA ListSteps ==
  ASSUME ListsInv, NEW k \in Tasks, todo[k] # <<>>
  PROVE  /\ Steps(todo[k], {"load", "set", "clear", "store"}, Tables \cup {"all"})
         /\ Head(todo[k]).op # "store" => Subject(k) \in Tables
         /\ k = "load" => /\ Tail(todo[k]) \in LoadRests
                          /\ Head(todo[k]).op # "store" /\ Subject(k) \in Passed
                          /\ Subject(k) # "yc"
         /\ k = "ctrl" => /\ Tail(todo[k]) \in CtrlRests
                          /\ Head(todo[k]).op \in {"load", "clear"} => Subject(k) = "yc"
                          /\ Subject(k) # "station"
  <1>0. Tables = {"station", "channel", "group", "route", "protocol", "yk", "yc"}
    BY PassedTables DEF Tables
  <1>1. CASE k = "load"
    <2>1. CASE todo[k] \in StationRests
      BY <1>0, <1>1, <2>1, StationSteps, PassedTables DEF Steps, Subject, LoadRests
    <2>2. CASE todo[k] \in RouteRests
      BY <1>0, <1>1, <2>2, RouteSteps, PassedTables DEF Steps, Subject, LoadRests, Referred
    <2>3. CASE todo[k] \in YkRests
      BY <1>0, <1>1, <2>3, YkSteps, PassedTables DEF Steps, Subject, LoadRests
    <2>4. QED BY <1>1, <2>1, <2>2, <2>3 DEF ListsInv, LoadRests
  <1>2. CASE k = "ctrl"
    BY <1>0, <1>2, CtrlSteps DEF Steps, Subject, Referred, ListsInv
  <1>3. QED BY <1>1, <1>2 DEF Tasks

(* A step done leaves a list that the task may be about to do.              *)
LEMMA DoneLists ==
  ASSUME ListsInv, NEW k \in Tasks, todo[k] # <<>>, Done(k)
  PROVE  ListsInv' /\ todo' = [todo EXCEPT ![k] = Tail(todo[k])]
  <1>1. todo' = [todo EXCEPT ![k] = Tail(todo[k])]
    BY DEF Done
  <1>2. /\ k = "load" => Tail(todo[k]) \in LoadRests
        /\ k = "ctrl" => Tail(todo[k]) \in CtrlRests
    BY ListSteps
  <1>3. QED BY <1>1, <1>2 DEF ListsInv, Tasks

(* Reading after a step other than setting the bit does not come next.      *)
LEMMA DoneGuarded ==
  ASSUME LoadIInv, ~torn, NEW k \in Tasks, todo[k] # <<>>, Done(k),
         \A t \in flag : t \in flag' \/ (Doing(k, "clear") /\ t = Subject(k)),
         Doing(k, "set") => Subject(k) \in flag'
  PROVE  LoadGuarded'
  <1>1. ListsInv
    BY DEF LoadIInv
  <1>2. todo' = [todo EXCEPT ![k] = Tail(todo[k])]
    BY <1>1, DoneLists
  <1>3. DOMAIN todo = Tasks
    BY <1>1 DEF ListsInv
  <1>4. ASSUME NEW j \in Tasks, Doing(j, "load")' PROVE Subject(j)' \in flag'
    <2>1. CASE j = k
      BY <1>1, <1>2, <1>3, <1>4, <2>1, ListSteps DEF Doing, Subject, Steps
    <2>2. CASE j # k
      <3>1. todo'[j] = todo[j]
        BY <1>2, <1>3, <2>2
      <3>2. Doing(j, "load") /\ Subject(j) \in flag
        BY <1>4, <3>1 DEF Doing, Subject, LoadIInv, LoadGuarded
      <3>3. Subject(j)' = Subject(j)
        BY <3>1 DEF Subject
      <3>4. Doing(k, "clear") => Subject(j) # Subject(k)
        BY <1>1, <2>2, <3>2, ListSteps DEF Doing, Tasks
      <3>5. QED BY <3>2, <3>3, <3>4
    <2>3. QED BY <2>1, <2>2
  <1>5. QED BY <1>4 DEF LoadGuarded

-----------------------------------------------------------------------------
(* Every action keeps it.                                                   *)

LEMMA AskOK ==
  ASSUME LoadIInv, NEW c \in Commands, Ask(c)
  PROVE  LoadIInv'
  <1> USE DEF LoadIInv, Ask, tables, progress, history
  <1>1. TypeOK'
    BY LoadAssumption DEF TypeOK
  <1>2. ListsInv' /\ WordInv' /\ LoadGuarded'
    BY DEF ListsInv, WordInv, LoadGuarded, Doing, Subject
  <1>3. StationInv' /\ RoutesInv' /\ RoutesReadInv'
    BY DEF StationInv, RoutesInv, RoutesReadInv, Mismatch, Clean
  <1>4. QED BY <1>1, <1>2, <1>3

LEMMA TakeCommandOK ==
  ASSUME LoadIInv, TakeCommand
  PROVE  LoadIInv'
  <1>1. PICK c \in waiting : todo' = [todo EXCEPT !["ctrl"] = DoLoadPara(c)]
    BY DEF TakeCommand
  <1>2. /\ UNCHANGED <<edition, flag, loaded, resolved, at, reg>>
        /\ UNCHANGED <<due, torn, failed, crossed>>
        /\ waiting' \subseteq waiting
    BY DEF TakeCommand, tables, history
  <1>3. c \in Taken
    BY LoadAssumption DEF LoadIInv, TypeOK
  <1>4. TypeOK'
    BY <1>2 DEF LoadIInv, TypeOK
  <1>5. /\ ListsInv' /\ todo'["load"] = todo["load"]
        /\ todo'["ctrl"] = DoLoadPara(c) /\ todo["ctrl"] = <<>>
    BY <1>1, <1>3, CommandSteps DEF LoadIInv, ListsInv, Tasks, TakeCommand
  <1>6. Head(todo'["ctrl"]).op # "load"
    BY <1>3, <1>5, CommandSteps
  <1>7. WordInv' /\ LoadGuarded'
    BY <1>2, <1>5, <1>6 DEF LoadIInv, WordInv, LoadGuarded, Doing, Subject, Tasks
  <1>8. StationInv' /\ RoutesInv' /\ RoutesReadInv'
    BY <1>2, <1>5 DEF LoadIInv, StationInv, RoutesInv, RoutesReadInv, Mismatch, Clean
  <1>9. QED BY <1>4, <1>5, <1>7, <1>8 DEF LoadIInv

LEMMA BeginPassOK ==
  ASSUME LoadIInv, BeginPass
  PROVE  LoadIInv'
  <1> USE DEF LoadIInv, BeginPass, tables, history
  <1>1. TypeOK'
    BY PassedTables DEF TypeOK
  <1>2. ListsInv' /\ WordInv' /\ LoadGuarded'
    BY DEF ListsInv, WordInv, LoadGuarded, Doing, Subject
  <1>3. StationInv' /\ RoutesInv' /\ RoutesReadInv'
    BY DEF StationInv, RoutesInv, RoutesReadInv, Mismatch, Clean
  <1>4. QED BY <1>1, <1>2, <1>3

LEMMA LookAtOK ==
  ASSUME LoadIInv, LookAt
  PROVE  LoadIInv'
  <1>1. /\ UNCHANGED <<edition, waiting, flag, loaded, resolved, reg>>
        /\ UNCHANGED <<due, torn, failed, crossed>>
        /\ todo["load"] = <<>> /\ at \in 1 .. 6
        /\ at' = IF at = 6 THEN 0 ELSE at + 1
    BY PassedTables DEF LoadIInv, TypeOK, LookAt, tables, history
  <1>2. TypeOK'
    BY <1>1, PassedTables DEF LoadIInv, TypeOK
  <1>3. Order[at] \in Passed /\ (Order[at] = "station" <=> at = 1)
    BY <1>1, PassedTables
  <1>4. CASE Order[at] \in flag
    <2>1. todo' = [todo EXCEPT !["load"] = Branch(Order[at])]
      BY <1>4 DEF LookAt
    <2>2. /\ ListsInv' /\ todo'["ctrl"] = todo["ctrl"]
          /\ todo'["load"] = Branch(Order[at])
      BY <1>3, <2>1, BranchSteps DEF LoadIInv, ListsInv, Tasks
    <2>3. Head(todo'["load"]).table \in flag
      BY <1>3, <1>4, <2>2, BranchSteps DEF Load
    <2>4. WordInv' /\ LoadGuarded'
      BY <1>1, <2>2, <2>3 DEF LoadIInv, WordInv, LoadGuarded, Doing, Subject, Tasks
    <2>5. ASSUME Clean' PROVE StationInv'
      <3>1. Clean
        BY <1>1, <2>5 DEF Clean
      <3>2. "station" \in flag => at = 1 /\ Referred \cup {"route"} \subseteq flag
        BY <1>1, <3>1, EmptyIsDone DEF LoadIInv, StationInv
      <3>3. at = 1 <=> todo'["load"] = StationBranch
        BY <1>3, <2>2, BranchSteps
      <3>4. at = 1 <=> todo'["load"] \in StationRests
        BY <1>3, <2>2, BranchSteps
      <3>5. at = 1 => "station" \in flag
        BY <1>3, <1>4
      <3>6. QED BY <1>1, <3>2, <3>3, <3>4, <3>5 DEF StationInv
    <2>6. RoutesInv' /\ RoutesReadInv'
      <3>1. todo["load"] \notin RouteRests /\ todo'["load"] # <<Clear("route")>>
        BY <1>1, <1>3, <2>2, EmptyIsDone, BranchSteps
      <3>2. QED BY <1>1, <3>1 DEF LoadIInv, RoutesInv, RoutesReadInv, Mismatch, Clean
    <2>7. StationInv'
      BY <2>5 DEF StationInv
    <2>8. QED BY <1>2, <2>2, <2>4, <2>6, <2>7 DEF LoadIInv
  <1>5. CASE Order[at] \notin flag
    <2>1. todo' = todo
      BY <1>5 DEF LookAt
    <2>2. ListsInv' /\ WordInv' /\ LoadGuarded'
      BY <1>1, <2>1 DEF LoadIInv, ListsInv, WordInv, LoadGuarded, Doing, Subject
    <2>3. StationInv'
      <3>1. Clean => "station" \notin flag
        BY <1>1, <1>3, <1>5, EmptyIsDone DEF LoadIInv, StationInv
      <3>2. todo'["load"] \notin StationRests
        BY <1>1, <2>1, EmptyIsDone
      <3>3. QED BY <1>1, <3>1, <3>2 DEF StationInv, Clean
    <2>4. RoutesInv' /\ RoutesReadInv'
      BY <1>1, <2>1 DEF LoadIInv, RoutesInv, RoutesReadInv, Mismatch, Clean
    <2>5. QED BY <1>2, <2>2, <2>3, <2>4 DEF LoadIInv
  <1>6. QED BY <1>4, <1>5

LEMMA ReadWordOK ==
  ASSUME LoadIInv, NEW k \in Tasks, ReadWord(k)
  PROVE  LoadIInv'
  <1>1. /\ UNCHANGED <<edition, waiting, flag, loaded, resolved, at, todo>>
        /\ UNCHANGED <<due, torn, failed, crossed>>
        /\ Doing(k, "set") \/ Doing(k, "clear")
        /\ reg' = [reg EXCEPT ![k] = Held(flag)]
    BY DEF ReadWord, tables, history
  <1>2. reg = [j \in Tasks |-> reg[j]] /\ flag \subseteq Tables
    BY DEF LoadIInv, WordInv, TypeOK
  <1>3. \A j \in Tasks : reg'[j] = IF j = k THEN Held(flag) ELSE reg[j]
    BY <1>1, <1>2
  <1>4. TypeOK'
    BY <1>1, <1>2, <1>3 DEF LoadIInv, TypeOK, Held
  <1>5. WordInv'
    BY <1>1, <1>2, <1>3 DEF LoadIInv, WordInv, Doing
  <1>6. ListsInv' /\ LoadGuarded'
    BY <1>1 DEF LoadIInv, ListsInv, LoadGuarded, Doing, Subject
  <1>7. StationInv' /\ RoutesInv' /\ RoutesReadInv'
    BY <1>1 DEF LoadIInv, StationInv, RoutesInv, RoutesReadInv, Mismatch, Clean
  <1>8. QED BY <1>4, <1>5, <1>6, <1>7 DEF LoadIInv

LEMMA StoreAllOK ==
  ASSUME LoadIInv, StoreAll
  PROVE  LoadIInv'
  <1>1. /\ UNCHANGED <<edition, waiting, loaded, resolved, at, reg, torn, failed>>
        /\ todo["ctrl"] # <<>> /\ Head(todo["ctrl"]).op = "store"
        /\ flag' = Tables /\ Done("ctrl")
        /\ crossed' = (crossed \/ at # 0 \/ todo["load"] # <<>>)
        /\ due' = [t \in Tables |-> IF t \in Passed /\ Seen(t) THEN edition ELSE due[t]]
    BY DEF StoreAll, tables, Doing, Owe
  <1>2. ListsInv' /\ todo' = [todo EXCEPT !["ctrl"] = Tail(todo["ctrl"])]
    BY <1>1, DoneLists DEF LoadIInv, Tasks
  <1>3. todo'["load"] = todo["load"]
    BY <1>2 DEF LoadIInv, ListsInv, Tasks
  <1>4. TypeOK'
    <2>1. due' \in [Tables -> 0 .. MaxAsks]
      BY <1>1 DEF LoadIInv, TypeOK
    <2>2. crossed' \in BOOLEAN
      BY <1>1 DEF LoadIInv, TypeOK
    <2>3. QED BY <1>1, <2>1, <2>2 DEF LoadIInv, TypeOK
  <1>5. WordInv'
    <2>1. ~reg["ctrl"].held
      BY <1>1 DEF LoadIInv, WordInv, Doing, Tasks
    <2>2. QED BY <1>1, <1>3, <2>1 DEF LoadIInv, WordInv, Doing, Tasks
  <1>6. LoadGuarded'
    <2>1. CASE torn
      BY <1>1, <2>1 DEF LoadGuarded
    <2>2. CASE ~torn
      <3>1. flag \subseteq flag'
        BY <1>1 DEF LoadIInv, TypeOK
      <3>2. ~Doing("ctrl", "set")
        BY <1>1 DEF Doing
      <3>3. QED BY <1>1, <2>2, <3>1, <3>2, DoneGuarded DEF Tasks
    <2>3. QED BY <2>1, <2>2
  <1>7. StationInv' /\ RoutesInv' /\ RoutesReadInv'
    <2>1. Clean' => at' = 0 /\ todo'["load"] = <<>>
      BY <1>1, <1>3 DEF Clean
    <2>2. Referred \cup {"route"} \subseteq flag' /\ "route" \in flag'
      BY <1>1, PassedTables DEF Tables, Referred
    <2>3. <<>> # <<Clear("route")>>
      OBVIOUS
    <2>4. QED BY <2>1, <2>2, <2>3, EmptyIsDone
              DEF StationInv, RoutesInv, RoutesReadInv
  <1>8. QED BY <1>2, <1>4, <1>5, <1>6, <1>7 DEF LoadIInv

(* A query that fails is one of the exceptions.                             *)
LEMMA LoadFailsOK ==
  ASSUME LoadIInv, NEW k \in Tasks, LoadFails(k)
  PROVE  LoadIInv'
  <1>1. /\ UNCHANGED <<edition, waiting, flag, loaded, resolved, at, reg, torn, crossed>>
        /\ todo[k] # <<>> /\ Head(todo[k]).op = "load" /\ Done(k)
        /\ failed < MaxFailures /\ failed' = failed + 1
        /\ due' = [due EXCEPT ![Subject(k)] = loaded[Subject(k)]]
    BY DEF LoadFails, tables, Doing
  <1>2. ListsInv' /\ todo' = [todo EXCEPT ![k] = Tail(todo[k])]
    BY <1>1, DoneLists DEF LoadIInv
  <1>3. TypeOK'
    <2>1. Subject(k) \in Tables
      BY <1>1, ListSteps DEF LoadIInv
    <2>2. due' \in [Tables -> 0 .. MaxAsks]
      BY <1>1, <2>1 DEF LoadIInv, TypeOK
    <2>3. failed' \in 0 .. MaxFailures
      BY <1>1, LoadAssumption DEF LoadIInv, TypeOK
    <2>4. QED BY <1>1, <2>2, <2>3 DEF LoadIInv, TypeOK
  <1>4. WordInv'
    <2>1. ~reg[k].held
      BY <1>1 DEF LoadIInv, WordInv, Doing
    <2>2. \A j \in Tasks \ {k} : todo'[j] = todo[j]
      BY <1>2 DEF LoadIInv, ListsInv
    <2>3. QED BY <1>1, <2>1, <2>2 DEF LoadIInv, WordInv, Doing
  <1>5. LoadGuarded'
    <2>1. CASE torn
      BY <1>1, <2>1 DEF LoadGuarded
    <2>2. CASE ~torn
      <3>1. ~Doing(k, "set")
        BY <1>1 DEF Doing
      <3>2. QED BY <1>1, <2>2, <3>1, DoneGuarded
    <2>3. QED BY <2>1, <2>2
  <1>6. ~Clean'
    BY <1>1, LoadAssumption DEF LoadIInv, TypeOK, Clean
  <1>7. QED BY <1>2, <1>3, <1>4, <1>5, <1>6 DEF LoadIInv, StationInv, RoutesInv, RoutesReadInv

(* Of the load task's step, in a run where nothing went wrong: what is left *)
(* still ends with the routes, or a bit is still up for them.               *)
LEMMA LoadTableOK ==
  ASSUME LoadIInv, NEW k \in Tasks, LoadTable(k)
  PROVE  LoadIInv'
  <1>1. /\ UNCHANGED <<edition, waiting, flag, at, reg, due, torn, failed, crossed>>
        /\ todo[k] # <<>> /\ Head(todo[k]).op = "load" /\ Done(k)
        /\ loaded' = [loaded EXCEPT ![Subject(k)] = edition]
        /\ resolved' = IF Subject(k) = "route"
                       THEN [t \in DOMAIN resolved |-> loaded[t]] ELSE resolved
    BY DEF LoadTable, history, Doing
  <1>2. ListsInv' /\ todo' = [todo EXCEPT ![k] = Tail(todo[k])]
    BY <1>1, DoneLists DEF LoadIInv
  <1>3. Subject(k) \in Tables /\ DOMAIN resolved = Referred /\ Referred \subseteq Tables
    BY <1>1, ListSteps, PassedTables DEF LoadIInv, TypeOK, Referred, Tables
  <1>4. TypeOK'
    <2>1. loaded' \in [Tables -> 0 .. MaxAsks]
      BY <1>1, <1>3 DEF LoadIInv, TypeOK
    <2>2. resolved' \in [Referred -> 0 .. MaxAsks]
      BY <1>1, <1>3 DEF LoadIInv, TypeOK, Referred
    <2>3. QED BY <1>1, <2>1, <2>2 DEF LoadIInv, TypeOK, Referred
  <1>5. WordInv'
    <2>1. ~reg[k].held
      BY <1>1 DEF LoadIInv, WordInv, Doing
    <2>2. \A j \in Tasks \ {k} : todo'[j] = todo[j]
      BY <1>2 DEF LoadIInv, ListsInv
    <2>3. QED BY <1>1, <2>1, <2>2 DEF LoadIInv, WordInv, Doing
  <1>6. LoadGuarded'
    <2>1. CASE torn
      BY <1>1, <2>1 DEF LoadGuarded
    <2>2. CASE ~torn
      <3>1. ~Doing(k, "set")
        BY <1>1 DEF Doing
      <3>2. QED BY <1>1, <2>2, <3>1, DoneGuarded
    <2>3. QED BY <2>1, <2>2
  <1>7. StationInv' /\ RoutesInv' /\ RoutesReadInv'
    <2>1. CASE k = "ctrl"
      <3>1. Subject(k) = "yc" /\ todo'["load"] = todo["load"]
        BY <1>1, <1>2, <2>1, ListSteps DEF LoadIInv, ListsInv, Tasks
      <3>2. resolved' = resolved /\ \A t \in Referred : loaded'[t] = loaded[t]
        BY <1>1, <1>3, <3>1 DEF Referred, LoadIInv, TypeOK
      <3>3. Mismatch' <=> Mismatch
        BY <1>3, <3>2 DEF Mismatch
      <3>4. QED BY <1>1, <3>1, <3>3 DEF LoadIInv, StationInv, RoutesInv, RoutesReadInv, Clean
    <2>2. CASE k = "load" /\ todo["load"] \in StationRests
      <3>1. todo'["load"] = Tail(todo["load"]) /\ Tail(todo["load"]) \in StationRests \cup {<<>>}
        BY <1>2, <2>2, StationSteps DEF LoadIInv, ListsInv, Tasks
      <3>2. Clean => "route" \in flag
        BY <2>2 DEF LoadIInv, StationInv
      <3>3. /\ todo["load"] # StationRead
            /\ todo["load"] = StationBranch => todo'["load"] = StationRead
        BY <1>1, <2>2, <3>1, StationSteps DEF Clear
      <3>4. StationInv'
        BY <1>1, <2>2, <3>1, <3>2, <3>3, EmptyIsDone DEF LoadIInv, StationInv, Clean
      <3>5. <<Clear("route")>> \notin StationRests \cup {<<>>}
        BY RestsApart, EmptyIsDone
      <3>6. todo'["load"] # <<Clear("route")>> /\ (Clean' => "route" \in flag')
        BY <1>1, <3>1, <3>2, <3>5 DEF Clean
      <3>7. QED BY <3>4, <3>6 DEF RoutesInv, RoutesReadInv
    <2>3. CASE k = "load" /\ todo["load"] \in RouteRests
      <3>1. todo'["load"] = Tail(todo["load"]) /\ Tail(todo["load"]) \in RouteRests \cup {<<>>}
        BY <1>2, <2>3, RouteSteps DEF LoadIInv, ListsInv, Tasks
      <3>2. todo["load"] # <<Clear("route")>>
        BY <1>1 , <2>3 DEF Clear
      <3>3. todo'["load"] \in RouteRests
        BY <2>3, <3>1, <3>2, RouteSteps
      <3>4. todo'["load"] = <<Clear("route")>> => ~Mismatch'
        <4>1. SUFFICES ASSUME todo'["load"] = <<Clear("route")>> PROVE ~Mismatch'
          OBVIOUS
        <4>2. Subject(k) = "route"
          <5>1. Head(todo["load"]) = Load("route")
            BY <2>3, <3>1, <4>1, RouteSteps
          <5>2. QED BY <2>3, <5>1 DEF Subject, Load
        <4>3. \A t \in Referred : resolved'[t] = loaded[t] /\ loaded'[t] = loaded[t]
          BY <1>1, <1>3, <4>2 DEF Referred, LoadIInv, TypeOK
        <4>4. DOMAIN resolved' = Referred
          BY <1>1, <1>3, <4>2
        <4>5. QED BY <4>3, <4>4 DEF Mismatch
      <3>5. StationInv'
        <4>1. todo["load"] \notin StationRests \cup {<<>>}
          BY <2>3, RestsApart, EmptyIsDone
        <4>2. Clean => "station" \notin flag
          BY <4>1, EmptyIsDone DEF LoadIInv, StationInv
        <4>3. todo'["load"] \notin StationRests
          BY <3>3, RestsApart
        <4>4. QED BY <1>1, <4>2, <4>3 DEF StationInv, Clean
      <3>6. QED BY <3>3, <3>4, <3>5 DEF RoutesInv, RoutesReadInv
    <2>4. CASE k = "load" /\ todo["load"] \in YkRests
      <3>1. /\ todo'["load"] = Tail(todo["load"]) /\ Tail(todo["load"]) \in YkRests \cup {<<>>}
            /\ Subject(k) = "yk"
        BY <1>2, <2>4, YkSteps DEF LoadIInv, ListsInv, Tasks, Steps, Subject
      <3>2. resolved' = resolved /\ \A t \in Referred : loaded'[t] = loaded[t]
        BY <1>1, <1>3, <3>1 DEF Referred, LoadIInv, TypeOK
      <3>3. Mismatch' <=> Mismatch
        BY <1>3, <3>2 DEF Mismatch
      <3>4. /\ todo["load"] \notin StationRests \cup RouteRests \cup {<<>>}
            /\ todo'["load"] \notin StationRests \cup RouteRests
        BY <2>4, <3>1, RestsApart, EmptyIsDone
      <3>5. {StationBranch, StationRead} \subseteq StationRests
            /\ <<Clear("route")>> \in RouteRests
        BY DEF StationRests, RouteRests
      <3>6. QED BY <1>1, <3>3, <3>4, <3>5
                DEF LoadIInv, StationInv, RoutesInv, RoutesReadInv, Clean
    <2>5. QED BY <1>1, <2>1, <2>2, <2>3, <2>4 DEF LoadIInv, ListsInv, LoadRests, Tasks
  <1>8. QED BY <1>2, <1>4, <1>5, <1>6, <1>7 DEF LoadIInv

LEMMA WriteWordOK ==
  ASSUME LoadIInv, NEW k \in Tasks, WriteWord(k)
  PROVE  LoadIInv'
  <1>1. /\ UNCHANGED <<edition, waiting, loaded, resolved, at, failed, crossed>>
        /\ reg[k].held /\ Done(k)
        /\ flag' = IF Doing(k, "set") THEN reg[k].word \cup {Subject(k)}
                   ELSE reg[k].word \ {Subject(k)}
        /\ torn' = (torn \/ reg[k].word # flag)
        /\ reg' = [reg EXCEPT ![k] = NoWord]
        /\ due' = due \/ Owe({Subject(k)})
    BY DEF WriteWord, WithBit, WithoutBit, tables
  <1>2. (Doing(k, "set") \/ Doing(k, "clear")) /\ todo[k] # <<>>
    BY <1>1 DEF LoadIInv, WordInv, Doing
  <1>3. ListsInv' /\ todo' = [todo EXCEPT ![k] = Tail(todo[k])]
    BY <1>1, <1>2, DoneLists DEF LoadIInv
  <1>4. Subject(k) \in Tables
    BY <1>2, ListSteps DEF LoadIInv, Doing
  <1>5. \A j \in Tasks : reg'[j] = IF j = k THEN NoWord ELSE reg[j]
    BY <1>1 DEF LoadIInv, WordInv
  <1>6. TypeOK'
    <2>1. due' \in [Tables -> 0 .. MaxAsks]
      <3>1. edition \in 0 .. MaxAsks /\ due \in [Tables -> 0 .. MaxAsks]
        BY DEF LoadIInv, TypeOK
      <3>2. CASE due' = due
        BY <3>1, <3>2
      <3>3. CASE Owe({Subject(k)})
        BY <3>1, <3>3 DEF Owe
      <3>4. QED BY <1>1, <3>2, <3>3
    <2>2. flag' \subseteq Tables
      BY <1>1, <1>4 DEF LoadIInv, TypeOK
    <2>3. torn' \in BOOLEAN
      BY <1>1 DEF LoadIInv, TypeOK
    <2>4. \A j \in Tasks : reg'[j].held => reg'[j].word \subseteq Tables
      <3>1. \A j \in Tasks : reg[j].held => reg[j].word \subseteq Tables
        BY DEF LoadIInv, TypeOK
      <3>2. ~NoWord.held
        BY DEF NoWord
      <3>3. QED BY <1>5, <3>1, <3>2
    <2>5. QED BY <1>1, <2>1, <2>2, <2>3, <2>4 DEF LoadIInv, TypeOK
  <1>7. WordInv'
    <2>1. \A j \in Tasks \ {k} : todo'[j] = todo[j]
      BY <1>3 DEF LoadIInv, ListsInv
    <2>2. reg' = [j \in Tasks |-> reg'[j]]
      BY <1>1 DEF LoadIInv, WordInv
    <2>3. QED BY <1>5, <2>1, <2>2 DEF LoadIInv, WordInv, Doing, NoWord
  <1>8. CASE torn'
    BY <1>3, <1>6, <1>7, <1>8
    DEF LoadIInv, LoadGuarded, StationInv, RoutesInv, RoutesReadInv, Clean
  <1>9. CASE ~torn'
    <2>1. /\ ~torn /\ reg[k].word = flag
          /\ flag' = IF Doing(k, "set") THEN flag \cup {Subject(k)}
                     ELSE flag \ {Subject(k)}
          /\ Clean' <=> Clean
      BY <1>1, <1>9 DEF Clean
    <2>2. LoadGuarded'
      BY <1>1, <1>2, <2>1, DoneGuarded
    <2>3. Mismatch' <=> Mismatch
      BY <1>1 DEF Mismatch
    <2>4. CASE k = "ctrl"
      <3>1. /\ todo'["load"] = todo["load"] /\ Subject(k) # "station"
            /\ ~Doing(k, "set") => Subject(k) = "yc"
        BY <1>2, <1>3, <2>4, ListSteps DEF LoadIInv, ListsInv, Tasks, Doing
      <3>2. /\ \A t \in Referred \cup {"route"} : t \in flag => t \in flag'
            /\ "station" \in flag' => "station" \in flag
        BY <2>1, <3>1 DEF Referred
      <3>3. QED BY <1>1, <1>3, <1>6, <1>7, <2>1, <2>2, <2>3, <3>1, <3>2
                DEF LoadIInv, StationInv, RoutesInv, RoutesReadInv
    <2>5. CASE k = "load"
      <3>1. todo'["load"] = Tail(todo["load"]) /\ todo["load"] \in LoadRests \ {<<>>}
        BY <1>2, <1>3, <2>5 DEF LoadIInv, ListsInv, Tasks
      <3>2. StationInv' /\ RoutesInv' /\ RoutesReadInv'
        <4>1. CASE todo["load"] \in StationRests
          <5>1. todo'["load"] \in StationRests \cup {<<>>} /\ Subject(k) \in {"station", "group"}
            BY <2>5, <3>1, <4>1, StationSteps DEF Steps, Subject
          <5>2. Clean => "route" \in flag'
            BY <2>1, <4>1, <5>1 DEF LoadIInv, StationInv
          <5>3. Clean => "station" \notin flag'
            <6>1. todo["load"] # StationBranch
              BY <1>2, <2>5, <4>1, StationSteps DEF Doing, Load
            <6>2. CASE todo["load"] = StationRead
              BY <1>2, <2>1, <2>5, <4>1, <6>2, StationSteps DEF Doing, Subject, Clear
            <6>3. CASE todo["load"] # StationRead
              <7>1. Subject(k) = "group"
                BY <2>5, <4>1, <6>1, <6>3, StationSteps DEF Subject
              <7>2. Clean => "station" \notin flag
                BY <3>1, <6>1, <6>3 DEF LoadIInv, StationInv
              <7>3. QED BY <2>1, <7>1, <7>2
            <6>4. QED BY <6>2, <6>3
          <5>4. todo'["load"] # <<Clear("route")>>
            BY <5>1, RestsApart, EmptyIsDone
          <5>5. QED BY <2>1, <5>2, <5>3, <5>4 DEF StationInv, RoutesInv, RoutesReadInv
        <4>2. CASE todo["load"] \in RouteRests
          <5>1. todo'["load"] \in RouteRests \cup {<<>>} /\ Subject(k) \in Referred \cup {"route"}
            BY <2>5, <3>1, <4>2, RouteSteps DEF Steps, Subject
          <5>2. Clean => "station" \notin flag
            BY <3>1, <4>2, RestsApart, EmptyIsDone DEF LoadIInv, StationInv
          <5>3. Clean => "station" \notin flag'
            BY <2>1, <5>1, <5>2 DEF Referred
          <5>4. todo'["load"] \notin StationRests
            BY <5>1, RestsApart, EmptyIsDone
          <5>5. todo'["load"] # <<Clear("route")>>
            <6>1. todo'["load"] = <<Clear("route")>> => Head(todo["load"]) = Load("route")
              BY <3>1, <4>2, RouteSteps
            <6>2. QED BY <1>2, <2>5, <6>1 DEF Doing, Load
          <5>6. Clean /\ todo'["load"] = <<>> => ~Mismatch
            BY <3>1, <4>2, RouteSteps DEF LoadIInv, RoutesReadInv
          <5>7. QED BY <2>1, <2>3, <5>1, <5>3, <5>4, <5>5, <5>6
                    DEF StationInv, RoutesInv, RoutesReadInv
        <4>3. CASE todo["load"] \in YkRests
          <5>1. todo'["load"] \in YkRests \cup {<<>>} /\ Subject(k) = "yk"
            BY <2>5, <3>1, <4>3, YkSteps DEF Steps, Subject
          <5>2. /\ todo["load"] \notin StationRests \cup RouteRests \cup {<<>>}
                /\ todo'["load"] \notin StationRests \cup RouteRests
            BY <4>3, <5>1, RestsApart, EmptyIsDone
          <5>3. Clean => "station" \notin flag /\ "station" \notin flag'
            BY <2>1, <5>1, <5>2, EmptyIsDone DEF LoadIInv, StationInv
          <5>4. \A t \in Referred \cup {"route"} : t \in flag => t \in flag'
            BY <2>1, <5>1 DEF Referred
          <5>5. QED BY <2>1, <2>3, <5>2, <5>3, <5>4, RestsApart
                    DEF LoadIInv, StationInv, RoutesInv, RoutesReadInv
        <4>4. QED BY <3>1, <4>1, <4>2, <4>3 DEF LoadRests
      <3>3. QED BY <1>3, <1>6, <1>7, <2>2, <3>2 DEF LoadIInv
    <2>6. QED BY <2>4, <2>5 DEF Tasks
  <1>10. QED BY <1>8, <1>9

-----------------------------------------------------------------------------
LEMMA InitOK ==
  ASSUME Init
  PROVE  LoadIInv
  <1>1. TypeOK
    <2>1. 0 \in 0 .. MaxAsks /\ 0 \in 0 .. MaxFailures /\ 0 \in 0 .. Len(Order)
      BY LoadAssumption, PassedTables
    <2>2. \A k \in Tasks : ~reg[k].held
      BY DEF Init, NoWord
    <2>3. QED BY <2>1, <2>2 DEF Init, TypeOK
  <1>2. ListsInv /\ WordInv /\ LoadGuarded
    BY DEF Init, ListsInv, WordInv, LoadGuarded, Doing, LoadRests, CtrlRests, NoWord, Tasks
  <1>3. ~Mismatch
    BY PassedTables DEF Init, Mismatch, Tables
  <1>4. StationInv /\ RoutesInv /\ RoutesReadInv
    BY <1>3, EmptyIsDone DEF Init, StationInv, RoutesInv, RoutesReadInv, Tasks
  <1>5. QED BY <1>1, <1>2, <1>4 DEF LoadIInv

LEMMA NextOK ==
  ASSUME LoadIInv, [Next]_vars
  PROVE  LoadIInv'
  <1>1. CASE UNCHANGED vars
    <2> USE <1>1 DEF vars, tables, progress, history
    <2>1. TypeOK' /\ ListsInv' /\ WordInv' /\ LoadGuarded'
      BY DEF LoadIInv, TypeOK, ListsInv, WordInv, LoadGuarded, Doing, Subject
    <2>2. StationInv' /\ RoutesInv' /\ RoutesReadInv'
      BY DEF LoadIInv, StationInv, RoutesInv, RoutesReadInv, Mismatch, Clean
    <2>3. QED BY <2>1, <2>2 DEF LoadIInv
  <1>2. CASE Next
    BY <1>2, AskOK, TakeCommandOK, BeginPassOK, LookAtOK, LoadTableOK, LoadFailsOK,
       ReadWordOK, WriteWordOK, StoreAllOK
    DEF Next, CtrlTask, LoadTask, Step, Tasks
  <1>3. QED BY <1>1, <1>2

LEMMA SpecLoadIInv == Spec => []LoadIInv
  BY InitOK, NextOK, PTL DEF Spec

(* The word, the tables and what is left of both tasks' lists hold values   *)
(* of their types, whatever is asked, refused or torn.                      *)
THEOREM LoadTypeCorrect == Spec => []TypeOK
  <1>1. LoadIInv => TypeOK
    BY DEF LoadIInv
  <1>2. QED BY <1>1, SpecLoadIInv, PTL

(* For any number of changes and refused queries: until two writes to the   *)
(* word have crossed, no table is read while its bit is down and its users  *)
(* may look at it.                                                          *)
THEOREM ReadsGuarded == Spec => []LoadGuarded
  <1>1. LoadIInv => LoadGuarded
    BY DEF LoadIInv
  <1>2. QED BY <1>1, SpecLoadIInv, PTL

(* For any number of changes: as long as no write of the word is torn, no   *)
(* query refused and nothing asked for in the middle of a pass, rows of     *)
(* routes that refer to tables as they were are about to be read anew.      *)
THEOREM RoutesAreFollowed == Spec => []RoutesFollow
  <1>1. LoadIInv => RoutesFollow
    BY RoutesInvImplies DEF LoadIInv
  <1>2. QED BY <1>1, SpecLoadIInv, PTL

-----------------------------------------------------------------------------
(* Requests. What a task's list holds, step by step.                        *)
Items == [op : {"load", "set", "clear", "store"}, table : Tables \cup {"all"}]

LEMMA ListsOfItems ==
  ASSUME ListsInv, NEW k \in Tasks
  PROVE  todo[k] \in Seq(Items)
  <1>0. {"station", "channel", "group", "route", "protocol", "yk", "yc"} = Tables
    BY PassedTables DEF Tables
  <1>1. \A t \in Tables : {Load(t), Set(t), Clear(t)} \subseteq Items
    BY DEF Items, Load, Set, Clear
  <1>2. SetAll \in Items
    BY DEF Items, SetAll
  <1>3. /\ \A a \in Items : <<a>> \in Seq(Items)
        /\ \A a, b \in Items : <<a, b>> \in Seq(Items)
        /\ \A a, b, c \in Items : <<a, b, c>> \in Seq(Items)
        /\ \A a, b, c, d \in Items : <<a, b, c, d>> \in Seq(Items)
        /\ \A a, b, c, d, e \in Items : <<a, b, c, d, e>> \in Seq(Items)
        /\ <<>> \in Seq(Items)
    <2> HIDE DEF Items
    <2>1. QED OBVIOUS
  <1> HIDE DEF Items
  <1>4. /\ \A t \in Tables : <<Set(t)>> \in Seq(Items) /\ <<Clear(t)>> \in Seq(Items)
        /\ \A t \in Tables : <<Load(t), Clear(t)>> \in Seq(Items)
        /\ \A t \in Tables : <<Set(t), Load(t), Clear(t)>> \in Seq(Items)
        /\ \A t, u \in Tables : <<Clear(t), Set(u), Load(u), Clear(u)>> \in Seq(Items)
        /\ \A t, u \in Tables :
             <<Load(t), Clear(t), Set(u), Load(u), Clear(u)>> \in Seq(Items)
    <2> HIDE DEF Load, Set, Clear
    <2>1. \A t \in Tables : Load(t) \in Items /\ Set(t) \in Items /\ Clear(t) \in Items
      BY <1>1
    <2>2. QED BY <1>3, <2>1, Zenon
  <1>5. StationRests \subseteq Seq(Items)
    <2>1. "station" \in Tables /\ "group" \in Tables
      BY <1>0
    <2>2. StationBranch \in Seq(Items) /\ StationRead \in Seq(Items)
      BY <1>4, <2>1, Zenon DEF StationBranch, StationRead
    <2>3. QED BY <1>4, <2>1, <2>2, Zenon DEF StationRests
  <1>6. RouteRests \subseteq Seq(Items)
    <2>1. "route" \in Tables /\ Referred \subseteq Tables
      BY <1>0 DEF Referred
    <2>2. ASSUME NEW s \in RouteRests PROVE s \in Seq(Items)
      <3>1. CASE \E t \in Referred :
                   s = <<Load(t), Clear(t), Set("route"), Load("route"), Clear("route")>>
        BY <1>4, <2>1, <3>1, Zenon
      <3>2. CASE \E t \in Referred :
                   s = <<Clear(t), Set("route"), Load("route"), Clear("route")>>
        BY <1>4, <2>1, <3>2, Zenon
      <3>3. CASE s \in {<<Set("route"), Load("route"), Clear("route")>>,
                        <<Load("route"), Clear("route")>>, <<Clear("route")>>}
        BY <1>4, <2>1, <3>3, Zenon
      <3>4. QED BY <2>2, <3>1, <3>2, <3>3, Zenon DEF RouteRests
    <2>3. QED BY <2>2
  <1>7. YkRests \cup CtrlRests \subseteq Seq(Items)
    <2>1. {"yk", "yc", "route"} \cup Referred \subseteq Tables
      BY <1>0 DEF Referred
    <2>2. YkRests \subseteq Seq(Items)
      BY <1>4, <2>1 DEF YkRests
    <2>3. ASSUME NEW s \in CtrlRests PROVE s \in Seq(Items)
      <3>1. CASE \E t \in Referred \cup {"route"} : s = <<Set(t)>>
        BY <1>4, <2>1, <3>1
      <3>2. CASE s = <<SetAll>> \/ s = <<>>
        BY <1>2, <1>3, <3>2
      <3>3. CASE s \in {<<Set("yc"), Load("yc"), Clear("yc")>>,
                        <<Load("yc"), Clear("yc")>>, <<Clear("yc")>>}
        BY <1>4, <2>1, <3>3, Zenon
      <3>4. QED BY <2>3, <3>1, <3>2, <3>3, Zenon DEF CtrlRests
    <2>4. QED BY <2>2, <2>3
  <1>8. QED BY <1>3, <1>5, <1>6, <1>7 DEF ListsInv, LoadRests, Tasks

LEMMA HeadAndRest ==
  ASSUME NEW X, NEW s \in Seq(X), s # <<>>, NEW e
  PROVE  Contains(s, e) <=> Head(s) = e \/ Contains(Tail(s), e)
  <1>1. /\ Len(s) \in Nat \ {0} /\ Len(Tail(s)) = Len(s) - 1 /\ Head(s) = s[1]
        /\ \A i \in 1 .. Len(s) - 1 : Tail(s)[i] = s[i + 1]
    OBVIOUS
  <1>2. ASSUME NEW i \in 1 .. Len(s), s[i] = e
        PROVE  Head(s) = e \/ \E j \in 1 .. Len(s) - 1 : Tail(s)[j] = e
    <2>1. CASE i = 1
      BY <1>1, <1>2, <2>1
    <2>2. CASE i # 1
      <3>1. i - 1 \in 1 .. Len(s) - 1 /\ (i - 1) + 1 = i
        BY <1>1, <2>2
      <3>2. QED BY <1>1, <1>2, <3>1
    <2>3. QED BY <2>1, <2>2
  <1>3. ASSUME NEW j \in 1 .. Len(s) - 1, Tail(s)[j] = e
        PROVE  \E i \in 1 .. Len(s) : s[i] = e
    BY <1>1, <1>3
  <1>4. 1 \in 1 .. Len(s)
    BY <1>1
  <1>5. QED BY <1>1, <1>2, <1>3, <1>4 DEF Contains

LEMMA TupleHolds ==
  /\ \A x : ~Contains(<<>>, x)
  /\ \A a, x : Contains(<<a>>, x) <=> x = a
  /\ \A a, b, x : Contains(<<a, b>>, x) <=> x \in {a, b}
  /\ \A a, b, c, x : Contains(<<a, b, c>>, x) <=> x \in {a, b, c}
  /\ \A a, b, c, d, e, x : Contains(<<a, b, c, d, e>>, x) <=> x \in {a, b, c, d, e}
  <1>1. /\ 1 .. 1 = {1} /\ 1 .. 2 = {1, 2} /\ 1 .. 3 = {1, 2, 3}
        /\ 1 .. 5 = {1, 2, 3, 4, 5} /\ 1 .. 0 = {}
    OBVIOUS
  <1>2. \A x : ~Contains(<<>>, x)
    BY <1>1 DEF Contains
  <1>3. \A a, x : Contains(<<a>>, x) <=> x = a
    BY <1>1 DEF Contains
  <1>4. \A a, b, x : Contains(<<a, b>>, x) <=> x \in {a, b}
    BY <1>1 DEF Contains
  <1>5. \A a, b, c, x : Contains(<<a, b, c>>, x) <=> x \in {a, b, c}
    BY <1>1 DEF Contains
  <1>6. \A a, b, c, d, e, x : Contains(<<a, b, c, d, e>>, x) <=> x \in {a, b, c, d, e}
    BY <1>1 DEF Contains
  <1>7. QED BY <1>2, <1>3, <1>4, <1>5, <1>6

(* A list as a task begins it reads every table whose bit it takes down; so *)
(* does the control task's for as long as its first step sets a bit.        *)
Reads(s) == \A t \in Tables : Contains(s, Clear(t)) => Contains(s, Load(t))

LEMMA NewListsRead ==
  /\ \A t \in Passed : Reads(Branch(t))
  /\ \A c \in Taken : Reads(DoLoadPara(c))
  /\ \A s \in CtrlRests : s # <<>> /\ Head(s).op \in {"set", "store"} => Reads(Tail(s))
  <1>1. ASSUME NEW t, NEW u PROVE Clear(t) # Load(u) /\ Clear(t) # Set(u)
                                  /\ (Clear(t) = Clear(u) <=> t = u) /\ Clear(t) # SetAll
    BY DEF Clear, Load, Set, SetAll
  <1>2. ASSUME NEW t PROVE Reads(<<Load(t), Clear(t)>>)
                           /\ Reads(<<Set(t), Load(t), Clear(t)>>)
    <2>1. \A v \in Tables : Contains(<<Load(t), Clear(t)>>, Clear(v))
                           => Contains(<<Load(t), Clear(t)>>, Load(v))
      BY <1>1, TupleHolds
    <2>2. \A v \in Tables : Contains(<<Set(t), Load(t), Clear(t)>>, Clear(v))
                           => Contains(<<Set(t), Load(t), Clear(t)>>, Load(v))
      BY <1>1, TupleHolds
    <2>3. QED BY <2>1, <2>2 DEF Reads
  <1>3. ASSUME NEW t PROVE Reads(<<>>) /\ Reads(<<Set(t)>>) /\ Reads(<<SetAll>>)
    BY <1>1, TupleHolds DEF Reads
  <1>4. ASSUME NEW t, NEW u
        PROVE  Reads(<<Load(t), Clear(t), Set(u), Load(u), Clear(u)>>)
    <2> DEFINE s == <<Load(t), Clear(t), Set(u), Load(u), Clear(u)>>
    <2>1. \A x : Contains(s, x) <=> x \in {Load(t), Clear(t), Set(u), Load(u), Clear(u)}
      BY TupleHolds
    <2> HIDE DEF s
    <2>2. ASSUME NEW v \in Tables, Contains(s, Clear(v)) PROVE Contains(s, Load(v))
      <3>1. Clear(v) = Clear(t) \/ Clear(v) = Clear(u)
        BY <1>1, <2>1, <2>2
      <3>2. v = t \/ v = u
        BY <1>1, <3>1
      <3>3. QED BY <2>1, <3>2
    <2>3. QED BY <2>2 DEF Reads, s
  <1>5. ASSUME NEW t \in Passed PROVE Reads(Branch(t))
    <2>1. CASE t = "station"
      BY <1>4, <2>1, BranchForms, Zenon DEF StationBranch
    <2>2. CASE t \in Referred
      BY <1>4, <2>2, BranchForms, Zenon
    <2>3. CASE t \in {"route", "yk"}
      BY <1>2, <2>3, BranchForms, Zenon
    <2>4. QED BY <2>1, <2>2, <2>3, PassedTables DEF Referred
  <1>6. ASSUME NEW c \in Taken PROVE Reads(DoLoadPara(c))
    <2>1. CASE c = "all"
      BY <1>3, <2>1, CommandForms, Zenon
    <2>2. CASE c = "yc"
      BY <1>2, <2>2, CommandForms, Zenon
    <2>3. CASE c \notin {"all", "yc"}
      BY <1>3, <2>3, CommandForms, Zenon
    <2>4. QED BY <2>1, <2>2, <2>3
  <1>7. ASSUME NEW s \in CtrlRests, s # <<>>, Head(s).op \in {"set", "store"}
        PROVE  Reads(Tail(s))
    <2>1. CASE s = <<SetAll>>
      <3>1. Tail(s) = <<>>
        BY <2>1
      <3>2. QED BY <1>3, <3>1
    <2>2. CASE s = <<Set("yc"), Load("yc"), Clear("yc")>>
      BY <1>2, <2>2
    <2>3. CASE \E t \in Referred \cup {"route"} : s = <<Set(t)>>
      BY <1>3, <2>3
    <2>4. CASE s = <<Load("yc"), Clear("yc")>> \/ s = <<Clear("yc")>>
      BY <1>7, <2>4 DEF Load, Clear
    <2>5. QED BY <1>7, <2>1, <2>2, <2>3, <2>4 DEF CtrlRests
  <1>8. QED BY <1>5, <1>6, <1>7

(* A table is owed no edition the database does not have; what a task that  *)
(* holds the word is about to write keeps the bits of what is owed; and a   *)
(* task that only takes the bit of a table down has read what was owed.     *)
DueInv == \A t \in Tables : due[t] <= edition /\ loaded[t] <= edition
HeldInv ==
  \A k \in Tasks : reg[k].held =>
    \A t \in Tables : due[t] > loaded[t] => t \in reg[k].word \/ ToRead(t)
ClosingInv ==
  \A k \in Tasks, t \in Tables :
    Contains(todo[k], Clear(t)) /\ ~Contains(todo[k], Load(t)) => due[t] <= loaded[t]
RequestInv == DueInv /\ RequestKept /\ HeldInv /\ ClosingInv

(* A step done is no longer in the list; everything else still is.          *)
LEMMA DoneHolds ==
  ASSUME ListsInv, NEW k \in Tasks, todo[k] # <<>>, Done(k)
  PROVE  /\ \A j \in Tasks : \A e :
              Contains(todo[j], e) <=> Contains(todo'[j], e) \/ (j = k /\ Head(todo[k]) = e)
         /\ Head(todo[k]) = [op |-> Head(todo[k]).op, table |-> Subject(k)]
  <1>1. todo[k] \in Seq(Items) /\ Head(todo[k]) \in Items
    <2>1. todo[k] \in Seq(Items)
      BY ListsOfItems
    <2>2. QED BY <2>1
  <1>2. \A j \in Tasks : todo'[j] = IF j = k THEN Tail(todo[k]) ELSE todo[j]
    BY DoneLists DEF ListsInv
  <1>3. \A e : Contains(todo[k], e) <=> Head(todo[k]) = e \/ Contains(Tail(todo[k]), e)
    BY <1>1, HeadAndRest, Zenon
  <1>4. Head(todo[k]) = [op |-> Head(todo[k]).op, table |-> Subject(k)]
    BY <1>1 DEF Items, Subject
  <1>5. QED BY <1>2, <1>3, <1>4

LEMMA RequestTypes ==
  ASSUME LoadIInv
  PROVE  /\ edition \in Nat /\ \A t \in Tables : due[t] \in Nat /\ loaded[t] \in Nat
         /\ DOMAIN due = Tables /\ DOMAIN loaded = Tables
  BY LoadAssumption DEF LoadIInv, TypeOK

(* A query, whether it is answered or not: nothing is owed to the table any *)
(* more.                                                                    *)
LEMMA QueryKeeps ==
  ASSUME LoadIInv, LoadIInv', RequestInv, NEW k \in Tasks,
         Doing(k, "load"), Done(k), UNCHANGED <<edition, flag, reg>>,
         \A t \in Tables \ {Subject(k)} : due'[t] = due[t] /\ loaded'[t] = loaded[t],
         due'[Subject(k)] <= loaded'[Subject(k)], loaded'[Subject(k)] <= edition
  PROVE  RequestInv'
  <1> DEFINE u == Subject(k)
  <1>1. u \in Tables /\ todo[k] # <<>>
    BY ListSteps DEF LoadIInv, Doing
  <1>2. /\ edition \in Nat /\ \A t \in Tables : due[t] \in Nat /\ loaded[t] \in Nat
        /\ \A t \in Tables : due'[t] \in Nat /\ loaded'[t] \in Nat
    <2>1. LoadIInv' => \A t \in Tables : due'[t] \in Nat /\ loaded'[t] \in Nat
      BY RequestTypes, LoadAssumption DEF LoadIInv, TypeOK
    <2>2. QED BY <2>1, RequestTypes
  <1>3. \A j \in Tasks : \A e :
          Contains(todo[j], e) <=> Contains(todo'[j], e) \/ (j = k /\ Load(u) = e)
    <2>1. Head(todo[k]) = Load(u)
      BY <1>1, DoneHolds DEF Doing, Load, LoadIInv
    <2>2. QED BY <1>1, <2>1, DoneHolds DEF LoadIInv
  <1>4. \A t : (Load(t) = Load(u) <=> t = u) /\ Clear(t) # Load(u)
    BY DEF Load, Clear
  <1> HIDE DEF u
  <1>5. \A t \in Tables \ {u} : due'[t] = due[t] /\ loaded'[t] = loaded[t]
    BY DEF u
  <1>6. due'[u] <= loaded'[u] /\ loaded'[u] <= edition
    BY DEF u
  <1>7. DueInv'
    BY <1>1, <1>2, <1>5, <1>6 DEF RequestInv, DueInv
  <1>8. ASSUME NEW t \in Tables, due'[t] > loaded'[t]
        PROVE  t # u /\ due[t] > loaded[t] /\ (ToRead(t) => ToRead(t)')
    <2>1. t # u
      BY <1>1, <1>2, <1>6, <1>8
    <2>2. due[t] > loaded[t]
      BY <1>5, <1>8, <2>1
    <2>3. ToRead(t) => ToRead(t)'
      BY <1>3, <1>4, <2>1 DEF ToRead
    <2>4. QED BY <2>1, <2>2, <2>3
  <1>9. RequestKept'
    BY <1>8 DEF RequestInv, RequestKept
  <1>10. HeldInv'
    BY <1>8 DEF RequestInv, HeldInv
  <1>11. ClosingInv'
    <2>1. ASSUME NEW j \in Tasks, NEW t \in Tables, t # u,
                 Contains(todo'[j], Clear(t)), ~Contains(todo'[j], Load(t))
          PROVE  due'[t] <= loaded'[t]
      <3>1. Contains(todo[j], Clear(t)) /\ ~Contains(todo[j], Load(t))
        BY <1>3, <1>4, <2>1
      <3>2. due[t] <= loaded[t]
        BY <3>1 DEF RequestInv, ClosingInv
      <3>3. QED BY <1>5, <2>1, <3>2
    <2>2. QED BY <1>6, <2>1 DEF ClosingInv
  <1>12. QED BY <1>7, <1>9, <1>10, <1>11 DEF RequestInv

(* Steps that leave the word, what is owed and what is read: a list may be  *)
(* begun that reads what it takes the bit of down.                          *)
LEMMA BeginKeeps ==
  ASSUME LoadIInv, RequestInv, UNCHANGED <<flag, loaded, due, reg>>,
         edition' \in Nat, edition <= edition',
         \A j \in Tasks : todo'[j] = todo[j] \/ (todo[j] = <<>> /\ Reads(todo'[j]))
  PROVE  RequestInv'
  <1>1. edition \in Nat /\ \A t \in Tables : due[t] \in Nat /\ loaded[t] \in Nat
    BY RequestTypes
  <1>2. DueInv'
    BY <1>1 DEF RequestInv, DueInv
  <1>3. \A e : ~Contains(<<>>, e)
    BY TupleHolds
  <1>4. ASSUME NEW t \in Tables PROVE ToRead(t) => ToRead(t)'
    BY <1>3 DEF ToRead
  <1>5. RequestKept' /\ HeldInv'
    BY <1>4 DEF RequestInv, RequestKept, HeldInv
  <1>6. ClosingInv'
    BY DEF RequestInv, ClosingInv, Reads
  <1>7. QED BY <1>2, <1>5, <1>6 DEF RequestInv

LEMMA ReadWordKeeps ==
  ASSUME RequestInv, LoadIInv, NEW k \in Tasks, ReadWord(k)
  PROVE  RequestInv'
  <1>1. /\ UNCHANGED <<edition, flag, loaded, due, todo>>
        /\ \A j \in Tasks : reg'[j] = IF j = k THEN Held(flag) ELSE reg[j]
    BY DEF ReadWord, tables, history, LoadIInv, WordInv
  <1>2. DueInv' /\ RequestKept' /\ ClosingInv'
    BY <1>1 DEF RequestInv, DueInv, RequestKept, ClosingInv, ToRead
  <1>3. HeldInv'
    <2>1. Held(flag).word = flag
      BY DEF Held
    <2>2. QED BY <1>1, <2>1 DEF RequestInv, HeldInv, RequestKept, ToRead
  <1>4. QED BY <1>2, <1>3 DEF RequestInv

(* A table is owed what is in the database only if the load task will see   *)
(* its bit, and the bit is up now.                                          *)
LEMMA OweKeeps ==
  ASSUME LoadIInv, RequestInv, NEW T \in SUBSET Tables, Owe(T) \/ due' = due,
         UNCHANGED <<edition, loaded>>
  PROVE  /\ DueInv'
         /\ \A t \in Tables : due'[t] # due[t] => t \in T /\ Seen(t)
  BY RequestTypes DEF Owe, RequestInv, DueInv

(* A list whose next step does not read a table is as much to be read after *)
(* it, and is closing on a table then only if it was before.                *)
LEMMA WriteHolds ==
  ASSUME LoadIInv, NEW k \in Tasks, todo[k] # <<>>, ~Doing(k, "load"), Done(k)
  PROVE  /\ \A t : ToRead(t)' <=> ToRead(t)
         /\ \A j \in Tasks, t \in Tables :
              Contains(todo'[j], Clear(t)) /\ ~Contains(todo'[j], Load(t))
                => Contains(todo[j], Clear(t)) /\ ~Contains(todo[j], Load(t))
  <1>1. \A t : Head(todo[k]) # Load(t)
    BY DEF Doing, Load
  <1>2. \A j \in Tasks : \A e :
          Contains(todo[j], e) <=> Contains(todo'[j], e) \/ (j = k /\ Head(todo[k]) = e)
    BY DoneHolds DEF LoadIInv
  <1>3. QED BY <1>1, <1>2 DEF ToRead

(* What is owed anew closes on no table of the load task, nor of the        *)
(* control task, which sets a bit before it reads the table.                *)
LEMMA ClosingKeeps ==
  ASSUME LoadIInv, RequestInv, NEW k \in Tasks, todo[k] # <<>>, ~Doing(k, "load"),
         Done(k), loaded' = loaded,
         \A t \in Tables : due'[t] # due[t] =>
           k = "ctrl" /\ Seen(t) /\ (Doing(k, "set") \/ Doing(k, "store"))
  PROVE  ClosingInv'
  <1>1. SUFFICES ASSUME NEW j \in Tasks, NEW t \in Tables, Contains(todo'[j], Clear(t)),
                        ~Contains(todo'[j], Load(t))
                 PROVE  due'[t] <= loaded'[t]
    BY DEF ClosingInv
  <1>2. Contains(todo[j], Clear(t)) /\ ~Contains(todo[j], Load(t))
    BY <1>1, WriteHolds
  <1>3. due[t] <= loaded[t]
    BY <1>2 DEF RequestInv, ClosingInv
  <1>4. CASE due'[t] # due[t]
    <2>1. /\ j = "ctrl" /\ k = "ctrl" /\ Head(todo[k]).op \in {"set", "store"}
      BY <1>2, <1>4 DEF Seen, Closing, Doing, Tasks
    <2>2. todo'[k] = Tail(todo[k]) /\ todo[k] \in CtrlRests
      BY <2>1, DoneLists DEF LoadIInv, ListsInv, Tasks
    <2>3. Reads(todo'[k])
      BY <2>1, <2>2, NewListsRead
    <2>4. QED BY <1>1, <2>1, <2>3 DEF Reads
  <1>5. QED BY <1>3, <1>4

LEMMA WriteWordKeeps ==
  ASSUME LoadIInv, RequestInv, NEW k \in Tasks, WriteWord(k)
  PROVE  RequestInv'
  <1> DEFINE u == Subject(k)
  <1>1. /\ UNCHANGED <<edition, loaded>> /\ reg[k].held /\ Done(k)
        /\ flag' = IF Doing(k, "set") THEN reg[k].word \cup {u} ELSE reg[k].word \ {u}
        /\ \A j \in Tasks : reg'[j] = IF j = k THEN NoWord ELSE reg[j]
        /\ IF k = "ctrl" /\ Doing(k, "set") THEN Owe({u}) ELSE due' = due
    BY DEF WriteWord, WithBit, WithoutBit, tables, LoadIInv, WordInv
  <1>2. (Doing(k, "set") \/ Doing(k, "clear")) /\ todo[k] # <<>> /\ ~Doing(k, "load")
    BY <1>1 DEF LoadIInv, WordInv, Doing
  <1>3. u \in Tables
    BY <1>2, ListSteps DEF LoadIInv, Doing
  <1>4. Doing(k, "clear") => Contains(todo[k], Clear(u))
    <2>1. Doing(k, "clear") => Head(todo[k]) = Clear(u)
      BY <1>1, <1>2, DoneHolds DEF LoadIInv, Doing, Clear
    <2>2. QED BY <1>1, <1>2, <2>1, DoneHolds DEF LoadIInv
  <1> HIDE DEF u
  <1>5. \A t \in Tables : due'[t] # due[t] =>
          k = "ctrl" /\ Doing(k, "set") /\ t = u /\ Seen(t)
    BY <1>1, <1>3, OweKeeps
  <1>6. DueInv'
    BY <1>1, <1>3, OweKeeps
  <1>7. \A t : ToRead(t)' <=> ToRead(t)
    BY <1>1, <1>2, WriteHolds
  <1>8. RequestKept'
    <2>1. SUFFICES ASSUME NEW t \in Tables, due'[t] > loaded'[t]
                   PROVE  t \in flag' \/ ToRead(t)'
      BY DEF RequestKept
    <2>2. CASE due'[t] # due[t]
      BY <1>1, <1>5, <2>2
    <2>3. CASE due'[t] = due[t]
      <3>1. due[t] > loaded[t]
        BY <1>1, <2>1, <2>3
      <3>2. t \in reg[k].word \/ ToRead(t)
        BY <1>1, <3>1 DEF RequestInv, HeldInv
      <3>3. t = u /\ Doing(k, "clear") => ToRead(t)
        <4>1. SUFFICES ASSUME t = u, Doing(k, "clear"), ~Contains(todo[k], Load(u))
                       PROVE  FALSE
          BY DEF ToRead
        <4>2. due[t] <= loaded[t]
          BY <1>4, <4>1 DEF RequestInv, ClosingInv
        <4>3. QED BY <3>1, <4>2, RequestTypes
      <3>4. QED BY <1>1, <1>2, <1>7, <3>2, <3>3
    <2>4. QED BY <2>2, <2>3
  <1>9. HeldInv'
    <2>1. SUFFICES ASSUME NEW j \in Tasks, reg'[j].held,
                          NEW t \in Tables, due'[t] > loaded'[t]
                   PROVE  t \in reg'[j].word \/ ToRead(t)'
      BY DEF HeldInv
    <2>2. j # k /\ reg'[j] = reg[j] /\ reg[j].held
      BY <1>1, <2>1 DEF NoWord
    <2>3. due'[t] = due[t]
      BY <1>5, <2>2 DEF Seen, Tasks
    <2>4. QED BY <1>1, <1>7, <2>1, <2>2, <2>3 DEF RequestInv, HeldInv
  <1>10. ClosingInv'
    BY <1>1, <1>2, <1>5, ClosingKeeps
  <1>11. QED BY <1>6, <1>8, <1>9, <1>10 DEF RequestInv

LEMMA StoreAllKeeps ==
  ASSUME LoadIInv, RequestInv, StoreAll
  PROVE  RequestInv'
  <1>1. /\ UNCHANGED <<edition, loaded, reg>> /\ Done("ctrl") /\ Doing("ctrl", "store")
        /\ flag' = Tables /\ Owe(Passed) /\ "ctrl" \in Tasks
    BY DEF StoreAll, tables, Tasks
  <1>2. todo["ctrl"] # <<>> /\ ~Doing("ctrl", "load") /\ ~reg["ctrl"].held
    BY <1>1 DEF LoadIInv, WordInv, Doing
  <1>3. DueInv' /\ \A t \in Tables : due'[t] # due[t] => Seen(t)
    BY <1>1, OweKeeps DEF Tables
  <1>4. \A t : ToRead(t)' <=> ToRead(t)
    BY <1>1, <1>2, WriteHolds
  <1>5. RequestKept'
    BY <1>1 DEF RequestKept
  <1>6. HeldInv'
    <2>1. SUFFICES ASSUME NEW j \in Tasks, reg'[j].held,
                          NEW t \in Tables, due'[t] > loaded'[t]
                   PROVE  t \in reg'[j].word \/ ToRead(t)'
      BY DEF HeldInv
    <2>2. j = "load" /\ reg["load"].held
      BY <1>1, <1>2, <2>1 DEF Tasks
    <2>3. due'[t] = due[t]
      BY <1>3, <2>2 DEF Seen
    <2>4. QED BY <1>1, <1>4, <2>1, <2>2, <2>3 DEF RequestInv, HeldInv
  <1>7. ClosingInv'
    BY <1>1, <1>2, <1>3, ClosingKeeps
  <1>8. QED BY <1>3, <1>5, <1>6, <1>7 DEF RequestInv

LEMMA RequestStep ==
  ASSUME LoadIInv, LoadIInv', RequestInv, [Next]_vars
  PROVE  RequestInv'
  <1>1. edition \in Nat
    BY RequestTypes
  <1>2. CASE UNCHANGED vars \/ BeginPass \/ \E c \in Commands : Ask(c)
    <2>1. /\ UNCHANGED <<flag, loaded, due, reg, todo>>
          /\ edition' = edition \/ edition' = edition + 1
      BY <1>2 DEF vars, BeginPass, Ask, tables, progress, history
    <2>2. QED BY <1>1, <2>1, BeginKeeps
  <1>3. CASE TakeCommand
    <2>1. PICK c \in waiting : todo' = [todo EXCEPT !["ctrl"] = DoLoadPara(c)]
      BY <1>3 DEF TakeCommand
    <2>2. UNCHANGED <<edition, flag, loaded, due, reg>> /\ todo["ctrl"] = <<>>
      BY <1>3 DEF TakeCommand, tables, history
    <2>3. Reads(DoLoadPara(c))
      BY LoadAssumption, NewListsRead DEF LoadIInv, TypeOK
    <2>4. \A j \in Tasks : todo'[j] = todo[j] \/ (todo[j] = <<>> /\ Reads(todo'[j]))
      BY <2>1, <2>2, <2>3 DEF LoadIInv, ListsInv
    <2>5. QED BY <1>1, <2>2, <2>4, BeginKeeps
  <1>4. CASE LookAt
    <2>1. /\ UNCHANGED <<edition, flag, loaded, due, reg>> /\ todo["load"] = <<>>
          /\ todo' = todo \/ todo' = [todo EXCEPT !["load"] = Branch(Order[at])]
      BY <1>4 DEF LookAt, tables, history
    <2>2. Reads(Branch(Order[at]))
      <3>1. at \in 0 .. 6 /\ at > 0
        BY <1>4, PassedTables DEF LookAt, LoadIInv, TypeOK
      <3>2. Order[at] \in Passed
        BY <3>1, PassedTables
      <3>3. QED BY <3>2, NewListsRead
    <2>3. \A j \in Tasks : todo'[j] = todo[j] \/ (todo[j] = <<>> /\ Reads(todo'[j]))
      BY <2>1, <2>2 DEF LoadIInv, ListsInv
    <2>4. QED BY <1>1, <2>1, <2>3, BeginKeeps
  <1>5. ASSUME NEW k \in Tasks, LoadTable(k) PROVE RequestInv'
    <2>1. /\ Doing(k, "load") /\ Done(k) /\ UNCHANGED <<edition, flag, reg, due>>
          /\ loaded' = [loaded EXCEPT ![Subject(k)] = edition]
      BY <1>5 DEF LoadTable, history
    <2>2. Subject(k) \in Tables
      BY <2>1, ListSteps DEF LoadIInv, Doing
    <2>3. /\ \A t \in Tables \ {Subject(k)} : due'[t] = due[t] /\ loaded'[t] = loaded[t]
          /\ loaded'[Subject(k)] = edition /\ due'[Subject(k)] = due[Subject(k)]
      BY <2>1, <2>2, RequestTypes
    <2>4. due'[Subject(k)] <= loaded'[Subject(k)] /\ loaded'[Subject(k)] <= edition
      BY <1>1, <2>2, <2>3 DEF RequestInv, DueInv
    <2>5. QED BY <2>1, <2>3, <2>4, QueryKeeps
  <1>6. ASSUME NEW k \in Tasks, LoadFails(k) PROVE RequestInv'
    <2>1. /\ Doing(k, "load") /\ Done(k) /\ UNCHANGED <<edition, flag, reg, loaded>>
          /\ due' = [due EXCEPT ![Subject(k)] = loaded[Subject(k)]]
      BY <1>6 DEF LoadFails, tables
    <2>2. Subject(k) \in Tables
      BY <2>1, ListSteps DEF LoadIInv, Doing
    <2>3. /\ \A t \in Tables \ {Subject(k)} : due'[t] = due[t] /\ loaded'[t] = loaded[t]
          /\ due'[Subject(k)] = loaded[Subject(k)] /\ loaded'[Subject(k)] = loaded[Subject(k)]
      BY <2>1, <2>2, RequestTypes
    <2>4. due'[Subject(k)] <= loaded'[Subject(k)] /\ loaded'[Subject(k)] <= edition
      BY <2>2, <2>3, RequestTypes DEF RequestInv, DueInv
    <2>5. QED BY <2>1, <2>3, <2>4, QueryKeeps
  <1>7. QED
    BY <1>2, <1>3, <1>4, <1>5, <1>6, ReadWordKeeps, WriteWordKeeps, StoreAllKeeps
    DEF Next, CtrlTask, LoadTask, Step, Tasks

LEMMA RequestInit ==
  ASSUME Init
  PROVE  RequestInv
  <1>1. \A k \in Tasks : todo[k] = <<>> /\ ~reg[k].held
    BY DEF Init, NoWord
  <1>2. \A t \in Tables : due[t] = 0 /\ loaded[t] = 0 /\ edition = 0
    BY DEF Init
  <1>3. QED BY <1>1, <1>2 DEF RequestInv, DueInv, RequestKept, HeldInv, ClosingInv

(* For any number of changes, commands and refused queries: what a table is *)
(* owed has a bit up for it or is about to be read, even when two writes of *)
(* the word undo each other.                                                *)
THEOREM RequestsAreKept == Spec => []RequestKept
  <1>1. Spec => [](LoadIInv /\ RequestInv)
    <2>1. Init => LoadIInv /\ RequestInv
      BY InitOK, RequestInit
    <2>2. LoadIInv /\ RequestInv /\ [Next]_vars => (LoadIInv /\ RequestInv)'
      BY NextOK, RequestStep
    <2>3. QED BY <2>1, <2>2, PTL DEF Spec
  <1>2. RequestInv => RequestKept
    BY DEF RequestInv
  <1>3. QED BY <1>1, <1>2, PTL

-----------------------------------------------------------------------------
(* The state task.                                                          *)
(* The routes of a group stay those of the first load, its main route is    *)
(* one of them, and no other route of the group is flagged.                 *)
AsLoaded ==
  /\ ~loading /\ row = RouteNum
  /\ \A g \in Groups : routes[g] = Assigned(g, RouteNum)

MainInGroup == \A g \in Groups : mainRoute[g] \in routes[g]
FlagOnMain == \A r \in Routes : mainFlag[r] => r = mainRoute[GroupOf[r]]

EachHasRoutes == \A g \in Groups : Assigned(g, RouteNum) # {}

OneMainInv ==
  ~reloaded /\ EachHasRoutes => AsLoaded /\ MainInGroup /\ FlagOnMain

StateIInv == StateTypeOK /\ OneMainInv

-----------------------------------------------------------------------------
(* findRouteInGroup() returns one of the routes it looks at.                *)
LEMMA FirstIsOne ==
  ASSUME NEW rs \in SUBSET Nat, rs # {}
  PROVE  First(rs) \in rs
  <1> DEFINE below(r) == 0 .. r
             up == {below(r) : r \in rs}
  <1>1. up \subseteq FiniteSubsetsOf(Nat) /\ up # {}
    <2>1. ASSUME NEW r \in rs PROVE below(r) \in FiniteSubsetsOf(Nat)
      BY FS_Interval DEF FiniteSubsetsOf
    <2>2. QED BY <2>1
  <1> HIDE DEF up
  <1>2. PICK x \in up : \A y \in up : ~(<<y, x>> \in StrictSubsetOrdering(Nat))
    BY <1>1, FS_StrictSubsetOrderingWellFounded, WFMin
  <1>3. PICK r \in rs : x = below(r)
    BY DEF up
  <1>4. ASSUME NEW s \in rs PROVE r <= s
    <2>1. below(s) \in up
      BY DEF up
    <2>2. ~(<<below(s), below(r)>> \in StrictSubsetOrdering(Nat))
      BY <1>2, <1>3, <2>1
    <2>3. ~(below(s) \subseteq below(r) /\ below(s) # below(r))
      BY <2>2 DEF StrictSubsetOrdering
    <2>4. QED BY <2>3
  <1>5. QED BY <1>4 DEF First

LEMMA FirstInRoutes ==
  ASSUME NEW rs \in SUBSET Routes, rs # {}
  PROVE  First(rs) \in rs
  BY FirstIsOne, TableAssumption DEF Routes

LEMMA InitStateIInv == StateInit => StateIInv
  <1> SUFFICES ASSUME StateInit PROVE StateIInv
    OBVIOUS
  <1>1. 0 \in Routes /\ RouteNum \in 0 .. RouteNum
    BY TableAssumption, SMT DEF Routes
  <1>2. \A g \in Groups : Assigned(g, RouteNum) \in SUBSET Routes
    BY DEF Assigned
  <1>3. \A g \in Groups : routes[g] # {} => mainRoute[g] \in routes[g]
    BY <1>2, FirstInRoutes DEF StateInit
  <1>4. mainRoute \in [Groups -> Routes]
    <2>1. \A g \in Groups : mainRoute[g] \in Routes
      BY <1>1, <1>2, FirstInRoutes DEF StateInit
    <2>2. QED BY <2>1 DEF StateInit
  <1>5. StateTypeOK
    BY <1>1, <1>2, <1>4 DEF StateInit, StateTypeOK, Lines
  <1>6. OneMainInv
    BY <1>3, TableAssumption DEF StateInit, OneMainInv, EachHasRoutes, AsLoaded, MainInGroup, FlagOnMain
  <1>7. QED BY <1>5, <1>6 DEF StateIInv

-----------------------------------------------------------------------------
(* The judgement of a group: what each of its three outcomes does to the    *)
(* types and to the flags.                                                  *)
LEMMA NewMainIsMember ==
  ASSUME StateTypeOK, NEW g \in Groups, TakesOver(g)
  PROVE  First(Replacements(g)) \in routes[g]
  <1>1. Replacements(g) \subseteq routes[g] /\ Replacements(g) # {}
    BY DEF Replacements, InState, TakesOver
  <1>2. Replacements(g) \in SUBSET Routes
    BY <1>1 DEF StateTypeOK
  <1>3. QED BY <1>1, <1>2, FirstInRoutes

LEMMA JudgeTypes ==
  ASSUME StateTypeOK, NEW g \in Groups,
         \/ TakesOver(g) /\ TakeOver(g)
         \/ Confirm(g)
         \/ KeepMain(g)
  PROVE  /\ mainRoute' \in [Groups -> Routes]
         /\ mainFlag' \in [Routes -> BOOLEAN]
         /\ routeState' \in [Routes -> {"DOWN", "UP", "STANDBY", "FREE", "DISABLED"}]
         /\ UNCHANGED <<routeValid, routeStop>>
  <1> USE DEF StateTypeOK, route
  <1>1. CASE TakesOver(g) /\ TakeOver(g)
    <2>1. First(Replacements(g)) \in Routes
      BY <1>1, NewMainIsMember
    <2>2. MoveFlag(g, First(Replacements(g))) \in [Routes -> BOOLEAN]
      BY DEF MoveFlag
    <2>3. QED BY <1>1, <2>1, <2>2 DEF TakeOver
  <1>2. CASE Confirm(g)
    BY <1>2 DEF Confirm, MoveFlag
  <1>3. CASE KeepMain(g)
    BY <1>3 DEF KeepMain, AddFlag
  <1>4. QED BY <1>1, <1>2, <1>3

LEMMA JudgeFlags ==
  ASSUME StateTypeOK, NEW g \in Groups,
         \A h \in Groups : routes[h] = Assigned(h, RouteNum),
         MainInGroup, FlagOnMain,
         UNCHANGED routes,
         \/ TakesOver(g) /\ TakeOver(g)
         \/ Confirm(g)
         \/ KeepMain(g)
  PROVE  MainInGroup' /\ FlagOnMain'
  <1> USE DEF StateTypeOK, MainInGroup, FlagOnMain
  <1>1. \A r \in Routes : r \in routes[g] <=> GroupOf[r] = g
    BY TableAssumption, SMT DEF Assigned, Routes
  <1>2. \A r \in Routes : GroupOf[r] \in Groups
    BY TableAssumption
  <1>3. CASE TakesOver(g) /\ TakeOver(g)
    <2> DEFINE m == First(Replacements(g))
    <2>1. m \in routes[g]
      BY <1>3, NewMainIsMember
    <2> HIDE DEF m
    <2>2. mainRoute' = [mainRoute EXCEPT ![g] = m] /\ mainFlag' = MoveFlag(g, m)
      BY <1>3 DEF TakeOver, m
    <2>3. QED BY <1>1, <1>2, <2>1, <2>2 DEF MoveFlag
  <1>4. CASE Confirm(g)
    BY <1>1, <1>2, <1>4 DEF Confirm, MoveFlag
  <1>5. CASE KeepMain(g)
    BY <1>1, <1>2, <1>5 DEF KeepMain, AddFlag
  <1>6. QED BY <1>3, <1>4, <1>5

-----------------------------------------------------------------------------
LEMMA StateTypeStep == StateTypeOK /\ [StateNext]_stateVars => StateTypeOK'
  <1> SUFFICES ASSUME StateTypeOK, [StateNext]_stateVars PROVE StateTypeOK'
    OBVIOUS
  <1> USE DEF StateTypeOK, Lines, task, group, main, route, table
  <1>1. ASSUME BeginStates \/ EndGroups \/ EndPass PROVE StateTypeOK'
    BY <1>1, SMT DEF BeginStates, EndGroups, EndPass
  <1>2. ASSUME CheckGroup PROVE StateTypeOK'
    <2>1. place \in Groups /\ place' \in Nat /\ UNCHANGED <<line, table, events>>
      BY <1>2, TableAssumption, SMT DEF CheckGroup, Groups
    <2>2. CASE ~Judged(place)
      BY <1>2, <2>1, <2>2 DEF CheckGroup, SetGroupState
    <2>3. CASE Judged(place) /\ WritesThroughNull(place)
      BY <1>2, <2>1, <2>3 DEF CheckGroup
    <2>4. CASE Judged(place) /\ ~WritesThroughNull(place)
      <3>1. /\ mainRoute' \in [Groups -> Routes]
            /\ mainFlag' \in [Routes -> BOOLEAN]
            /\ routeState' \in [Routes -> {"DOWN", "UP", "STANDBY", "FREE", "DISABLED"}]
            /\ UNCHANGED <<routeValid, routeStop>>
        BY <1>2, <2>1, <2>4, JudgeTypes DEF CheckGroup
      <3>2. StateByMain(place) \in {"DOWN", "UP"}
        BY DEF StateByMain
      <3>3. SetGroupState(place, StateByMain(place)) /\ pc' = pc
        BY <1>2, <2>4 DEF CheckGroup
      <3>4. groupState' \in [Groups -> {"DOWN", "UP", "DISABLED"}]
        BY <3>2, <3>3 DEF SetGroupState
      <3>5. QED BY <2>1, <3>1, <3>3, <3>4 DEF SetGroupState
    <2>5. QED BY <2>2, <2>3, <2>4
  <1>3. ASSUME CheckRoute PROVE StateTypeOK'
    <2>1. place' \in Nat
      BY <1>3, SMT DEF CheckRoute
    <2>2. NewRouteState(place) \in {"DOWN", "UP", "STANDBY", "FREE", "DISABLED"}
      BY DEF NewRouteState, RouteStateWithChanUp, MainRouteState
    <2>3. QED BY <1>3, <2>1, <2>2 DEF CheckRoute
  <1>4. ASSUME RequestLoad PROVE StateTypeOK'
    BY <1>4, SMT DEF RequestLoad
  <1>5. ASSUME EmptyGroups PROVE StateTypeOK'
    BY <1>5, TableAssumption, SMT DEF EmptyGroups
  <1>6. ASSUME AssignRoute PROVE StateTypeOK'
    <2>1. row \in Routes /\ row' \in 0 .. RouteNum
      BY <1>6, TableAssumption, SMT DEF AssignRoute, Routes
    <2>2. GroupOf[row] \in Groups
      BY <2>1, TableAssumption
    <2>3. routes' \in [Groups -> SUBSET Routes] /\ row \in routes'[GroupOf[row]]
      BY <1>6, <2>1, <2>2 DEF AssignRoute
    <2>4. First(routes'[GroupOf[row]]) \in Routes
      BY <2>2, <2>3, FirstInRoutes
    <2>5. QED BY <1>6, <2>1, <2>3, <2>4 DEF AssignRoute
  <1>7. ASSUME NEW r \in Routes, LineChange(r) PROVE StateTypeOK'
    BY <1>7 DEF LineChange
  <1>8. ASSUME NEW r \in Routes, ManStopRoute(r) \/ ManDisableRoute(r) PROVE StateTypeOK'
    <2>1. events' \in Nat /\ Operates
      BY <1>8, SMT DEF ManStopRoute, ManDisableRoute, Operates
    <2>2. routeStop' \in [Routes -> BOOLEAN] /\ routeValid' \in [Routes -> BOOLEAN]
      BY <1>8 DEF ManStopRoute, ManDisableRoute
    <2>3. UNCHANGED <<groupValid, groupStop>>
      BY <1>8 DEF ManStopRoute, ManDisableRoute
    <2>4. QED BY <2>1, <2>2, <2>3 DEF Operates
  <1>9. ASSUME NEW g \in Groups, ManStopGroup(g) \/ ManDisableGroup(g) PROVE StateTypeOK'
    <2>1. events' \in Nat /\ Operates
      BY <1>9, SMT DEF ManStopGroup, ManDisableGroup, Operates
    <2>2. groupStop' \in [Groups -> BOOLEAN] /\ groupValid' \in [Groups -> BOOLEAN]
      BY <1>9 DEF ManStopGroup, ManDisableGroup
    <2>3. UNCHANGED <<routeStop, routeValid>>
      BY <1>9 DEF ManStopGroup, ManDisableGroup
    <2>4. QED BY <2>1, <2>2, <2>3 DEF Operates
  <1>10. CASE UNCHANGED stateVars
    BY <1>10 DEF stateVars
  <1>11. QED
    BY <1>1, <1>2, <1>3, <1>4, <1>5, <1>6, <1>7, <1>8, <1>9, <1>10
    DEF StateNext, Task, Loader

LEMMA OneMainStep == StateTypeOK /\ OneMainInv /\ [StateNext]_stateVars => OneMainInv'
  <1> SUFFICES ASSUME StateTypeOK, OneMainInv, [StateNext]_stateVars, ~reloaded', EachHasRoutes
               PROVE  (AsLoaded /\ MainInGroup /\ FlagOnMain)'
    BY DEF OneMainInv, EachHasRoutes, Assigned
  <1> USE DEF task, group, main, route, table
  <1>1. ~reloaded /\ ~RequestLoad
    <2>1. ASSUME reloaded PROVE reloaded'
      BY <2>1 DEF StateNext, Task, Loader, BeginStates, EndGroups, EndPass, CheckGroup,
         CheckRoute, RequestLoad, EmptyGroups, AssignRoute, LineChange, Operates,
         ManStopRoute, ManDisableRoute, ManStopGroup, ManDisableGroup, stateVars
    <2>2. QED BY <2>1 DEF RequestLoad
  <1>2. AsLoaded /\ MainInGroup /\ FlagOnMain
    BY <1>1 DEF OneMainInv
  <1>3. ~Loader
    BY <1>2, TableAssumption, SMT DEF Loader, EmptyGroups, AssignRoute, AsLoaded
  <1>4. CASE UNCHANGED <<main, table>>
    BY <1>2, <1>4 DEF AsLoaded, MainInGroup, FlagOnMain, Assigned
  <1>5. CASE CheckGroup
    <2>1. place \in Groups /\ UNCHANGED table
      BY <1>5, TableAssumption, SMT DEF CheckGroup, Groups, StateTypeOK
    <2>2. CASE ~Judged(place) \/ WritesThroughNull(place)
      BY <1>4, <1>5, <2>1, <2>2 DEF CheckGroup
    <2>3. CASE Judged(place) /\ ~WritesThroughNull(place)
      <3>1. MainInGroup' /\ FlagOnMain'
        BY <1>2, <1>5, <2>1, <2>3, JudgeFlags DEF CheckGroup, AsLoaded
      <3>2. QED BY <1>2, <2>1, <3>1 DEF AsLoaded, Assigned
    <2>4. QED BY <2>2, <2>3
  <1>6. CASE CheckRoute
    BY <1>4, <1>6 DEF CheckRoute
  <1>7. CASE BeginStates \/ EndGroups \/ EndPass
    BY <1>4, <1>7 DEF BeginStates, EndGroups, EndPass
  <1>8. CASE \E r \in Routes : LineChange(r) \/ ManStopRoute(r) \/ ManDisableRoute(r)
    BY <1>4, <1>8 DEF LineChange, ManStopRoute, ManDisableRoute, Operates
  <1>9. CASE \E g \in Groups : ManStopGroup(g) \/ ManDisableGroup(g)
    BY <1>4, <1>9 DEF ManStopGroup, ManDisableGroup, Operates
  <1>10. CASE UNCHANGED stateVars
    BY <1>4, <1>10 DEF stateVars
  <1>11. QED
    BY <1>1, <1>3, <1>5, <1>6, <1>7, <1>8, <1>9, <1>10 DEF StateNext, Task

LEMMA OneMainImplies == StateIInv => AtMostOneMain
  BY DEF StateIInv, OneMainInv, EachHasRoutes, FlagOnMain, AtMostOneMain, Flagged

LEMMA SpecStateIInv == StateSpec => []StateIInv
  <1>1. StateIInv /\ [StateNext]_stateVars => StateIInv'
    BY StateTypeStep, OneMainStep DEF StateIInv
  <1>2. QED BY InitStateIInv, <1>1, PTL DEF StateSpec

(* Whatever happens to channels, devices, operators and loads, the tables   *)
(* of groups and routes hold values of their types.                         *)
THEOREM StateTypeCorrect == StateSpec => []StateTypeOK
  <1>1. StateIInv => StateTypeOK
    BY DEF StateIInv
  <1>2. QED BY SpecStateIInv, <1>1, PTL

(* For any number of groups and routes: until the routes are reloaded, the  *)
(* state task never has two routes of a group flagged as its main route.    *)
THEOREM OneMainRoute == StateSpec => []AtMostOneMain
  <1>1. QED BY SpecStateIInv, OneMainImplies, PTL

-----------------------------------------------------------------------------
(* While the loader is at a row, the groups hold the rows before it; the    *)
(* main route of a group is the one the loader or the judgement chose last, *)
(* from the group's own routes.                                             *)
MemberInv ==
  /\ \A g \in Groups : routes[g] = Assigned(g, row)
  /\ \A g \in Groups : HasRoutes(g) => mainRoute[g] \in Assigned(g, RouteNum)

LEMMA AssignedPart ==
  ASSUME StateTypeOK
  PROVE  /\ \A g \in Groups : Assigned(g, row) \subseteq Assigned(g, RouteNum)
         /\ \A g \in Groups : Assigned(g, 0) = {}
  BY TableAssumption, SMT DEF Assigned, Routes, StateTypeOK

LEMMA MemberInit == StateInit => MemberInv
  <1> SUFFICES ASSUME StateInit PROVE MemberInv
    OBVIOUS
  <1>1. \A g \in Groups : routes[g] = Assigned(g, RouteNum) /\ Assigned(g, RouteNum) \in SUBSET Routes
    BY DEF StateInit, Assigned
  <1>2. ASSUME NEW g \in Groups, HasRoutes(g) PROVE mainRoute[g] \in Assigned(g, RouteNum)
    <2>1. routes[g] # {} /\ routes[g] \in SUBSET Routes
      BY <1>1, <1>2 DEF HasRoutes
    <2>2. mainRoute[g] = First(routes[g])
      BY <2>1 DEF StateInit
    <2>3. QED BY <1>1, <2>1, <2>2, FirstInRoutes
  <1>3. row = RouteNum
    BY DEF StateInit
  <1>4. QED BY <1>1, <1>2, <1>3 DEF MemberInv

LEMMA MemberAssign ==
  ASSUME StateTypeOK, MemberInv, AssignRoute
  PROVE  MemberInv'
  <1> DEFINE h == GroupOf[row]
  <1>1. row \in Routes /\ row + 1 \in 0 .. RouteNum /\ h \in Groups /\ row' = row + 1
    BY TableAssumption, SMT DEF AssignRoute, StateTypeOK, Routes
  <1>2. \A g \in Groups : routes'[g] = IF g = h THEN routes[g] \cup {row} ELSE routes[g]
    BY DEF AssignRoute, StateTypeOK
  <1>3. \A g \in Groups : Assigned(g, row + 1) =
          IF g = h THEN Assigned(g, row) \cup {row} ELSE Assigned(g, row)
    <2>1. \A r \in Routes : r < row + 1 <=> r < row \/ r = row
      BY <1>1, TableAssumption, SMT DEF Routes
    <2>2. QED BY <1>1, <2>1 DEF Assigned
  <1>4. \A g \in Groups : routes'[g] = Assigned(g, row + 1)
    BY <1>2, <1>3 DEF MemberInv
  <1>5. First(routes'[h]) \in Assigned(h, RouteNum)
    <2>1. routes'[h] # {} /\ routes'[h] \in SUBSET Routes
      BY <1>1, <1>2, <1>4 DEF Assigned
    <2>2. First(routes'[h]) \in routes'[h]
      BY <2>1, FirstInRoutes
    <2>3. Assigned(h, row + 1) \subseteq Assigned(h, RouteNum)
      BY <1>1, TableAssumption, SMT DEF Assigned, Routes
    <2>4. QED BY <1>1, <1>4, <2>2, <2>3
  <1>6. \A g \in Groups : mainRoute'[g] = IF g = h THEN First(routes'[h]) ELSE mainRoute[g]
    BY <1>1 DEF AssignRoute, StateTypeOK
  <1> HIDE DEF h
  <1>7. \A g \in Groups : HasRoutes(g) => mainRoute'[g] \in Assigned(g, RouteNum)
    BY <1>5, <1>6 DEF MemberInv
  <1>8. QED BY <1>1, <1>4, <1>7 DEF MemberInv, HasRoutes, Assigned

(* Judging a group leaves its main route one of its own and changes no      *)
(* other group's routes.                                                    *)
LEMMA JudgeOwn ==
  ASSUME StateTypeOK, MemberInv, CheckGroup
  PROVE  /\ UNCHANGED <<routes, row>>
         /\ \A g \in Groups : HasRoutes(g) => mainRoute'[g] \in Assigned(g, RouteNum)
         /\ HasRoutes(place) => \A r \in Routes : GroupOf[r] # place =>
              mainFlag'[r] = mainFlag[r] /\ routeState'[r] = routeState[r]
  <1> DEFINE h == place
  <1>1. h \in Groups /\ UNCHANGED <<routes, row>>
    BY TableAssumption, SMT DEF CheckGroup, Groups, StateTypeOK, table
  <1>2. \A r \in routes[h] : r \in Assigned(h, RouteNum) /\ GroupOf[r] = h
    BY <1>1, AssignedPart DEF MemberInv, Assigned
  <1>3. CASE ~Judged(h) \/ WritesThroughNull(h)
    <2>1. UNCHANGED <<mainRoute, mainFlag, routeState>>
      BY <1>3 DEF CheckGroup, main, route
    <2>2. QED BY <1>1, <2>1 DEF MemberInv
  <1>4. CASE TakesOver(h) /\ TakeOver(h)
    <2> DEFINE m == First(Replacements(h))
    <2>1. m \in routes[h]
      BY <1>1, <1>4, NewMainIsMember
    <2>2. /\ mainRoute' = [mainRoute EXCEPT ![h] = m] /\ mainFlag' = MoveFlag(h, m)
          /\ \A r \in Routes : r # m /\ r \notin routes[h] => routeState'[r] = routeState[r]
      BY <1>4 DEF TakeOver
    <2> HIDE DEF m
    <2>3. \A g \in Groups : HasRoutes(g) => mainRoute'[g] \in Assigned(g, RouteNum)
      BY <1>1, <1>2, <2>1, <2>2 DEF MemberInv, StateTypeOK
    <2>4. \A r \in Routes : GroupOf[r] # h =>
            mainFlag'[r] = mainFlag[r] /\ routeState'[r] = routeState[r]
      BY <1>2, <2>1, <2>2 DEF MoveFlag
    <2>5. QED BY <1>1, <2>3, <2>4
  <1>5. CASE Confirm(h)
    <2>1. UNCHANGED <<mainRoute, routeState>> /\ mainFlag' = MoveFlag(h, mainRoute[h])
      BY <1>5 DEF Confirm, route
    <2>2. \A r \in Routes : GroupOf[r] # h => mainFlag'[r] = mainFlag[r]
      BY <1>2, <2>1 DEF MoveFlag
    <2>3. QED BY <1>1, <2>1, <2>2 DEF MemberInv
  <1>6. CASE KeepMain(h)
    <2>1. /\ mainRoute' = mainRoute /\ routeState' = routeState
          /\ \/ mainFlag' = mainFlag
             \/ mainFlag' = [mainFlag EXCEPT ![mainRoute[h]] = TRUE]
      BY <1>6 DEF KeepMain, AddFlag, route
    <2>2. HasRoutes(h) => GroupOf[mainRoute[h]] = h
      BY <1>1 DEF MemberInv, Assigned
    <2>3. HasRoutes(h) => \A r \in Routes : GroupOf[r] # h => mainFlag'[r] = mainFlag[r]
      BY <2>1, <2>2 DEF StateTypeOK
    <2>4. QED BY <1>1, <2>1, <2>3 DEF MemberInv
  <1>7. QED BY <1>3, <1>4, <1>5, <1>6 DEF CheckGroup

LEMMA MemberStep == StateTypeOK /\ MemberInv /\ [StateNext]_stateVars => MemberInv'
  <1> SUFFICES ASSUME StateTypeOK, MemberInv, [StateNext]_stateVars PROVE MemberInv'
    OBVIOUS
  <1>1. CASE UNCHANGED <<routes, row, mainRoute>>
    BY <1>1 DEF MemberInv, HasRoutes, Assigned
  <1>2. CASE CheckGroup
    BY <1>2, JudgeOwn DEF MemberInv, HasRoutes, Assigned
  <1>3. CASE EmptyGroups
    <2>1. row' = 0 /\ mainRoute' = mainRoute /\ \A g \in Groups : routes'[g] = {}
      BY <1>3 DEF EmptyGroups, main
    <2>2. QED BY <2>1, AssignedPart DEF MemberInv, HasRoutes, Assigned
  <1>4. CASE AssignRoute
    BY <1>4, MemberAssign
  <1>5. CASE BeginStates \/ EndGroups \/ EndPass \/ CheckRoute
    BY <1>1, <1>5 DEF BeginStates, EndGroups, EndPass, CheckRoute, main, table
  <1>6. CASE \E r \in Routes : LineChange(r) \/ ManStopRoute(r) \/ ManDisableRoute(r)
    BY <1>1, <1>6 DEF LineChange, ManStopRoute, ManDisableRoute, Operates, main, table
  <1>7. CASE \E g \in Groups : ManStopGroup(g) \/ ManDisableGroup(g)
    BY <1>1, <1>7 DEF ManStopGroup, ManDisableGroup, Operates, main, table
  <1>8. CASE RequestLoad \/ UNCHANGED stateVars
    BY <1>1, <1>8 DEF RequestLoad, stateVars, main, table
  <1>9. QED
    BY <1>2, <1>3, <1>4, <1>5, <1>6, <1>7, <1>8 DEF StateNext, Task, Loader

LEMMA SpecMember == StateSpec => [](StateTypeOK /\ MemberInv)
  <1>1. StateInit => StateTypeOK /\ MemberInv
    BY InitStateIInv, MemberInit DEF StateIInv
  <1>2. StateTypeOK /\ MemberInv /\ [StateNext]_stateVars => (StateTypeOK /\ MemberInv)'
    BY StateTypeStep, MemberStep
  <1>3. QED BY <1>1, <1>2, PTL DEF StateSpec

(* For any number of groups and routes, reloads included: the main route of *)
(* a group that has routes is one of them.                                  *)
THEOREM MainStaysOwn == StateSpec => []MainIsOwn
  <1>1. MemberInv => MainIsOwn
    BY DEF MemberInv, MainIsOwn, Assigned
  <1>2. QED BY <1>1, SpecMember, PTL

(* However reloads come between its steps, the judgement of a group that    *)
(* has routes changes state and flag of no route of another group.          *)
THEOREM GroupsJudgedApart == StateSpec => JudgesOwn
  <1>1. StateTypeOK /\ MemberInv /\ [StateNext]_stateVars =>
          [CheckGroup /\ HasRoutes(place) =>
             \A r \in Routes : GroupOf[r] # place =>
               mainFlag'[r] = mainFlag[r] /\ routeState'[r] = routeState[r]]_stateVars
    BY JudgeOwn
  <1>2. QED BY <1>1, SpecMember, PTL DEF StateSpec, JudgesOwn
=============================================================================
