------------------------------ MODULE MCCtrlInf -----------------------------
(* A small instance of CtrlInf: one group with two routes, which may both   *)
(* be flagged as main after a reload, and a command of every kind.          *)
EXTENDS CtrlInf

ThreeCommands == {<<"load", 1>>, <<"man", 1>>, <<"g", 1>>}
TwoRoutes == {"r1", "r2"}
OneGroup == [r \in TwoRoutes |-> "g"]

TwoClients == {"fes", "operator"}
ClientAdds == [a \in TwoClients |-> {c \in ThreeCommands : (c[1] = "man") = (a = "operator")}]

(* What is remembered of commands that clashed is left out of the           *)
(* fingerprints: no guard and no property looks at it.                      *)
Promised ==
  <<slots, adders, takers, posted, clashed, accepted \ clashed,
    {g \in got : g[2] \notin clashed}, again \ clashed, expired \ clashed>>
=============================================================================
