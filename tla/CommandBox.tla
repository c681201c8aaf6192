----------------------------- MODULE CommandBox -----------------------------
(***************************************************************************)
(* What the command table of the shared memory promises its users: a        *)
(* command that add() accepts stays in the box until one taker gets it, or  *)
(* until it expires; nobody gets it twice, and nobody gets anything else.   *)
(* The table has no lock: of a command whose slot is used by two at a time  *)
(* nothing is promised from then on, but of every other one all the same.   *)
(***************************************************************************)
EXTENDS FiniteSets, Integers

CONSTANTS
  Commands,  \* the commands, each posted once
  Room       \* how many the box holds

VARIABLES
  pending,   \* in the box
  taken,     \* handed to a taker
  expired,   \* thrown away unread
  clashed    \* those of which nothing is promised any more

vars == <<pending, taken, expired, clashed>>

Init == pending = {} /\ taken = {} /\ expired = {} /\ clashed = {}

Post(c) ==
  /\ c \notin pending \cup taken \cup expired \cup clashed
  /\ Cardinality(pending) < Room
  /\ pending' = pending \cup {c}
  /\ UNCHANGED <<taken, expired, clashed>>

Take(c) ==
  /\ c \in pending
  /\ pending' = pending \ {c}
  /\ taken' = taken \cup {c}
  /\ UNCHANGED <<expired, clashed>>

Expire(c) ==
  /\ c \in pending
  /\ pending' = pending \ {c}
  /\ expired' = expired \cup {c}
  /\ UNCHANGED <<taken, clashed>>

(* Those that meet in a slot leave the box together.                        *)
Clash(met) ==
  /\ pending' = pending \ met
  /\ taken' = taken \ met
  /\ expired' = expired \ met
  /\ clashed' = clashed \cup met

Next ==
  \/ \E c \in Commands : Post(c) \/ Take(c) \/ Expire(c)
  \/ \E met \in SUBSET Commands : Clash(met)

Spec == Init /\ [][Next]_vars
=============================================================================
