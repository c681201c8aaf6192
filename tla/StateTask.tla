------------------------------ MODULE StateTask ------------------------------
(***************************************************************************)
(* CStateTask (dacsrv/statetask.cpp): every 300 ms the state task judges    *)
(* the groups, then the routes, from the channels and from what came in. A  *)
(* group's data and controls go over its main route; when that is not up,   *)
(* another route of the group becomes the main one. Meanwhile channels go   *)
(* up and down, devices fall silent, operators stop and disable, and the    *)
(* load task rebuilds the table of routes (dac/loadpara.cpp, loadRoute).    *)
(* Each group, each route and each row of a load is one step.               *)
(***************************************************************************)
EXTENDS Naturals, FiniteSets

CONSTANTS
  GroupNum, RouteNum,   \* rows of the two tables
  GroupOf,              \* the group of each route, as the database has it
  Sending,              \* routes of type ROUTE_TYPE_TX
  MaxEvents             \* bound of the model: reloads and manual operations

Groups == 0 .. GroupNum - 1
Routes == 0 .. RouteNum - 1

ASSUME TableAssumption ==
  /\ GroupNum \in Nat \ {0} /\ RouteNum \in Nat \ {0}
  /\ GroupOf \in [Routes -> Groups]
  /\ Sending \subseteq Routes
  /\ MaxEvents \in Nat

VARIABLES
  pc,           \* the state task: "idle", "groups", "routes" or "crashed"
  place,        \* the row it comes to next
  groupState,   \* per group: its state, ...
  groupValid, groupStop,      \* ... para.group[].valid and manStop
  routes,       \* the routes of each group that the loader has assigned
  mainRoute,    \* per group
  routeState,   \* per route: its state, ...
  routeValid, routeStop,      \* ... para.route[].valid and manStop
  mainFlag,     \* per route: it may take its group's controls
  line,         \* per route: what its channel and its device show
  loading,      \* LOADPARA_ROUTE of loadParaFlag
  row,          \* the row loadRoute() comes to next
  reloaded,     \* history: the routes have been loaded again
  events        \* history: reloads asked for and manual operations

task == <<pc, place>>
group == <<groupState, groupValid, groupStop>>
main == <<mainRoute, mainFlag>>
route == <<routeState, routeValid, routeStop>>
table == <<routes, loading, row, reloaded>>
stateVars == <<task, group, main, route, line, table, events>>

(* routes[] of a group after rows 0 .. n - 1 have been assigned. It is in    *)
(* the order of the rows, so a set says it all; First is its first element. *)
Assigned(g, n) == {r \in Routes : r < n /\ GroupOf[r] = g}
First(rs) == CHOOSE r \in rs : \A s \in rs : r <= s

(* The server has loaded its tables before it starts the state task; a      *)
(* group without routes keeps the 0 of the cleared memory.                  *)
StateInit ==
  /\ pc = "idle" /\ place = 0
  /\ groupState = [g \in Groups |-> "DOWN"]
  /\ groupValid = [g \in Groups |-> TRUE]
  /\ groupStop = [g \in Groups |-> FALSE]
  /\ routes = [g \in Groups |-> Assigned(g, RouteNum)]
  /\ mainRoute = [g \in Groups |->
       IF routes[g] = {} THEN 0 ELSE First(routes[g])]
  /\ routeState = [r \in Routes |-> "DOWN"]
  /\ routeValid = [r \in Routes |-> TRUE]
  /\ routeStop = [r \in Routes |-> FALSE]
  /\ mainFlag = [r \in Routes |-> FALSE]
  /\ line = [r \in Routes |-> "down"]
  /\ loading = FALSE /\ row = RouteNum
  /\ reloaded = FALSE /\ events = 0

----------------------------------------------------------------------------
(* svc(): the flag is tested before the pass, and again before the routes.  *)
BeginStates ==
  /\ pc = "idle" /\ ~loading
  /\ pc' = "groups" /\ place' = 0
  /\ UNCHANGED <<group, main, route, line, table, events>>

EndGroups ==
  /\ pc = "groups" /\ place = GroupNum
  /\ pc' = IF loading THEN "idle" ELSE "routes"
  /\ place' = 0
  /\ UNCHANGED <<group, main, route, line, table, events>>

EndPass ==
  /\ pc = "routes" /\ place = RouteNum
  /\ pc' = "idle" /\ place' = 0
  /\ UNCHANGED <<group, main, route, line, table, events>>

----------------------------------------------------------------------------
(* checkGroupState(), for one group.                                        *)
(* findRouteInGroup(): the valid routes of the group in a state. It returns *)
(* the first of them.                                                       *)
InState(g, state) == {r \in routes[g] : routeValid[r] /\ routeState[r] = state}

UpOnly(g) == InState(g, "UP")

Replacements(g) ==
  IF InState(g, "UP") # {} THEN InState(g, "UP") ELSE InState(g, "STANDBY")

Judged(g) == groupValid[g] /\ ~groupStop[g]
HasStandby(g) == Cardinality(routes[g]) > 1 /\ routeValid[mainRoute[g]]
TakesOver(g) ==
  HasStandby(g) /\ routeState[mainRoute[g]] # "UP" /\ Replacements(g) # {}
Confirms(g) == HasStandby(g) /\ routeState[mainRoute[g]] = "UP"

(* A member that is disabled has no information, and both loops over the    *)
(* members write to it.                                                     *)
WritesThroughNull(g) ==
  /\ TakesOver(g) \/ Confirms(g)
  /\ \E r \in routes[g] : ~routeValid[r]

SetGroupState(g, state) ==
  /\ groupState' = [groupState EXCEPT ![g] = state]
  /\ UNCHANGED <<groupValid, groupStop>>

MainsOwnState(g) == routeState'[mainRoute'[g]]

StateByMain(g) ==
  IF routeValid[mainRoute'[g]] /\ routeState'[mainRoute'[g]] = "UP"
  THEN "UP" ELSE "DOWN"

(* The last lines of the judgement flag whoever is the main route; the      *)
(* take-over also takes the flag from the other routes of the group.        *)
AddFlag(g, m) == [mainFlag EXCEPT ![m] = TRUE]

MoveFlag(g, m) ==
  [r \in Routes |-> IF r \in routes[g] THEN r = m ELSE mainFlag[r]]

TakeOver(g) ==
  LET m == First(Replacements(g)) IN
  /\ mainRoute' = [mainRoute EXCEPT ![g] = m]
  /\ mainFlag' = MoveFlag(g, m)
  /\ routeState' = [r \in Routes |->
       IF r = m THEN "UP"
       ELSE IF r \in routes[g] /\ routeState[r] = "UP" THEN "STANDBY"
       ELSE routeState[r]]
  /\ UNCHANGED <<routeValid, routeStop>>

Confirm(g) ==
  /\ mainFlag' = MoveFlag(g, mainRoute[g])
  /\ UNCHANGED <<mainRoute, route>>

KeepMain(g) ==
  /\ mainFlag' = IF routeValid[mainRoute[g]] THEN AddFlag(g, mainRoute[g])
                                             ELSE mainFlag
  /\ UNCHANGED <<mainRoute, route>>

CheckGroup ==
  /\ pc = "groups" /\ place < GroupNum
  /\ place' = place + 1
  /\ IF ~Judged(place)
     THEN /\ SetGroupState(place, IF groupValid[place] THEN "DOWN" ELSE "DISABLED")
          /\ UNCHANGED <<pc, main, route>>
     ELSE IF WritesThroughNull(place)
     THEN /\ pc' = "crashed"
          /\ UNCHANGED <<group, main, route>>
     ELSE /\ IF TakesOver(place) THEN TakeOver(place)
             ELSE IF Confirms(place) THEN Confirm(place)
             ELSE KeepMain(place)
          /\ SetGroupState(place, StateByMain(place))
          /\ UNCHANGED pc
  /\ UNCHANGED <<line, table, events>>

----------------------------------------------------------------------------
(* checkRouteState(), for one route.                                        *)
MainRouteState(r) ==
  IF routeState[r] \in {"UP", "STANDBY"} THEN routeState[r] ELSE "UP"

RouteStateWithChanUp(r) ==
  IF r \in Sending THEN "UP"
  ELSE IF line[r] = "good" THEN MainRouteState(r)
  ELSE "FREE"

NewRouteState(r) ==
  IF ~routeValid[r] \/ ~groupValid[GroupOf[r]] THEN "DOWN"
  ELSE IF routeStop[r] THEN "DISABLED"
  ELSE IF line[r] # "down" THEN RouteStateWithChanUp(r)
  ELSE "DOWN"

CheckRoute ==
  /\ pc = "routes" /\ place < RouteNum
  /\ place' = place + 1
  /\ routeState' = [routeState EXCEPT ![place] = NewRouteState(place)]
  /\ UNCHANGED <<pc, group, main, routeValid, routeStop, line, table, events>>

----------------------------------------------------------------------------
(* loadRoute(), behind the flag that the control task has raised.           *)
RequestLoad ==
  /\ ~loading /\ loading' = TRUE
  /\ reloaded' = TRUE
  /\ events < MaxEvents /\ events' = events + 1
  /\ UNCHANGED <<task, group, main, route, line, routes, row>>

EmptyGroups ==
  /\ loading /\ row = RouteNum
  /\ routes' = [g \in Groups |-> {}]
  /\ row' = 0
  /\ UNCHANGED <<task, group, main, route, line, loading, reloaded, events>>

(* Each row makes the first route of its group the main one again.          *)
AssignRoute ==
  LET g == GroupOf[row] IN
  /\ row < RouteNum
  /\ routes' = [routes EXCEPT ![g] = @ \cup {row}]
  /\ mainRoute' = [mainRoute EXCEPT ![g] = First(routes'[g])]
  /\ routeValid' = [routeValid EXCEPT ![row] = TRUE]
  /\ row' = row + 1
  /\ loading' = (row' < RouteNum)
  /\ UNCHANGED <<task, group, mainFlag, routeState, routeStop, line, reloaded, events>>

----------------------------------------------------------------------------
(* The channel of a route is not valid or not up ("down"); it is up but the *)
(* device is silent or too many frames are bad ("silent"); or data comes in *)
(* ("good"). With the channel down nobody asks after the device.            *)
Lines == {"down", "silent", "good"}

LineChange(r) ==
  /\ \E l \in Lines \ {line[r]} : line' = [line EXCEPT ![r] = l]
  /\ UNCHANGED <<task, group, main, route, table, events>>

(* The control task's handlers.                                             *)
Operates ==
  /\ events < MaxEvents /\ events' = events + 1
  /\ UNCHANGED <<task, groupState, main, routeState, line, table>>

ManStopRoute(r) ==
  /\ Operates /\ routeValid[r]
  /\ \E stop \in BOOLEAN : routeStop' = [routeStop EXCEPT ![r] = stop]
  /\ UNCHANGED <<groupValid, groupStop, routeValid>>

ManDisableRoute(r) ==
  /\ Operates /\ routeValid[r]
  /\ routeValid' = [routeValid EXCEPT ![r] = FALSE]
  /\ UNCHANGED <<groupValid, groupStop, routeStop>>

ManStopGroup(g) ==
  /\ Operates /\ groupValid[g]
  /\ \E stop \in BOOLEAN : groupStop' = [groupStop EXCEPT ![g] = stop]
  /\ UNCHANGED <<groupValid, routeValid, routeStop>>

ManDisableGroup(g) ==
  /\ Operates /\ groupValid[g]
  /\ groupValid' = [groupValid EXCEPT ![g] = FALSE]
  /\ UNCHANGED <<groupStop, routeValid, routeStop>>

Task == BeginStates \/ CheckGroup \/ EndGroups \/ CheckRoute \/ EndPass
Loader == EmptyGroups \/ AssignRoute

StateNext ==
  \/ Task \/ RequestLoad \/ Loader
  \/ \E r \in Routes :
       LineChange(r) \/ ManStopRoute(r) \/ ManDisableRoute(r)
  \/ \E g \in Groups : ManStopGroup(g) \/ ManDisableGroup(g)

StateSpec == StateInit /\ [][StateNext]_stateVars

(* Both tasks run periodic loops; nothing is asked of channels, devices and *)
(* operators.                                                               *)
FairStateSpec == StateSpec /\ WF_stateVars(Task) /\ WF_stateVars(Loader)

----------------------------------------------------------------------------
(* The variables hold values of their types.                                *)
StateTypeOK ==
  /\ pc \in {"idle", "groups", "routes", "crashed"}
  /\ place \in Nat
  /\ groupState \in [Groups -> {"DOWN", "UP", "DISABLED"}]
  /\ groupValid \in [Groups -> BOOLEAN] /\ groupStop \in [Groups -> BOOLEAN]
  /\ routes \in [Groups -> SUBSET Routes]
  /\ mainRoute \in [Groups -> Routes]
  /\ routeState \in [Routes -> {"DOWN", "UP", "STANDBY", "FREE", "DISABLED"}]
  /\ routeValid \in [Routes -> BOOLEAN] /\ routeStop \in [Routes -> BOOLEAN]
  /\ mainFlag \in [Routes -> BOOLEAN]
  /\ line \in [Routes -> Lines]
  /\ loading \in BOOLEAN /\ row \in 0 .. RouteNum
  /\ reloaded \in BOOLEAN /\ events \in Nat

Flagged(g) == {r \in Routes : GroupOf[r] = g /\ mainFlag[r]}

(* Until the table is reloaded, no two routes of a group may take its       *)
(* controls at a time, whatever fails, comes back, is stopped or disabled.  *)
(* (A group without routes flags route 0, another group's.)                 *)
AtMostOneMain ==
  ~reloaded /\ (\A g \in Groups : Assigned(g, RouteNum) # {}) =>
    \A g \in Groups : \A r, s \in Flagged(g) : r = s

(* A group that has routes keeps to them, while the loader empties and      *)
(* fills the groups between any two steps of the judgement                  *)
(* (statetask.cpp:173-236, loadpara.cpp:1153): its main route is one of     *)
(* its own, and judging it changes state and flag of no other group's.      *)
HasRoutes(g) == Assigned(g, RouteNum) # {}
MainIsOwn == \A g \in Groups : HasRoutes(g) => GroupOf[mainRoute[g]] = g
JudgesOwn ==
  [][CheckGroup /\ HasRoutes(place) =>
       \A r \in Routes : GroupOf[r] # place =>
         mainFlag'[r] = mainFlag[r] /\ routeState'[r] = routeState[r]]_stateVars

Good(r) == line[r] = "good" /\ ~routeStop[r]
Enabled(g) == groupValid[g] /\ ~groupStop[g] /\ ~loading
Served(g) == groupState[g] = "UP" /\ \A r, s \in Flagged(g) : r = s

(* The routes of a group sort themselves out: when one of them is good for  *)
(* good and no route of the group is disabled, the group ends up in state   *)
(* UP with one main route, whatever reloads, stops and failures have left   *)
(* behind and whatever its other routes do.                                 *)
Converges ==
  \A r \in Routes :
    LET g == GroupOf[r] IN
    <>[](Good(r) /\ Enabled(g) /\ pc # "crashed"
         /\ \A s \in Routes : GroupOf[s] = g => routeValid[s])
      => <>[]Served(g)

(* "如果主路径状态为非UP，这找其他路径，如果找到有UP，则将该路径设为主路径"     *)
(* (statetask.cpp:160): a good route of a group takes over, whatever has    *)
(* become of the main one.                                                  *)
GoodTakesOver ==
  \A r \in Routes :
    <>[](Good(r) /\ routeValid[r] /\ Enabled(GroupOf[r]))
      => <>[](groupState[GroupOf[r]] = "UP")
=============================================================================
