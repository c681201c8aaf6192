----------------------------- MODULE LinkProofs -----------------------------
(***************************************************************************)
(* Proofs about Link, for any number of routes and any feature table: an    *)
(* operator's control goes on the line at most once, and a route that is    *)
(* sending waits for an answer.                                             *)
(***************************************************************************)
EXTENDS Link, FiniteSetTheorems, SequenceTheorems, TLAPS

Protocols == [open : BOOLEAN, sending : BOOLEAN, event : Events,
              cmd : Commands, retry : Nat, first : BOOLEAN,
              timer : Nat, msg : Seq(Frames)]

RoutesOK == proto \in [Orders -> Protocols] /\ SendingWaits

IInv == TypeOK /\ ControlOnce /\ SendingWaits

-----------------------------------------------------------------------------
(* The sequences of frames.                                                 *)

(* A nonempty set of indices has a least element.                           *)
LEMMA LeastIndex ==
  ASSUME NEW I \in SUBSET Nat, I # {}
  PROVE  Min(I) \in I
  <1> DEFINE below(i) == 0 .. i
             prefixes == {below(i) : i \in I}
  <1>1. prefixes \subseteq FiniteSubsetsOf(Nat) /\ prefixes # {}
    <2>1. ASSUME NEW i \in I PROVE below(i) \in FiniteSubsetsOf(Nat)
      BY FS_Interval DEF FiniteSubsetsOf
    <2>2. QED BY <2>1
  <1> HIDE DEF prefixes
  <1>2. PICK x \in prefixes : \A y \in prefixes : ~(<<y, x>> \in StrictSubsetOrdering(Nat))
    BY <1>1, FS_StrictSubsetOrderingWellFounded, WFMin
  <1>3. PICK i \in I : x = below(i)
    BY DEF prefixes
  <1>4. ASSUME NEW j \in I PROVE i <= j
    <2>1. below(j) \in prefixes
      BY DEF prefixes
    <2>2. ~(<<below(j), below(i)>> \in StrictSubsetOrdering(Nat))
      BY <1>2, <1>3, <2>1
    <2>3. ~(below(j) \subseteq below(i) /\ below(j) # below(i))
      BY <2>2 DEF StrictSubsetOrdering
    <2>4. QED BY <2>3
  <1>5. QED BY <1>4 DEF Min

LEMMA AdjustTyped ==
  ASSUME NEW msg \in Seq(Frames), NEW r \in Orders
  PROVE  AdjustMsg(msg, r) \in Seq(Frames)
  <1> DEFINE I == {i \in 1 .. Len(msg) : msg[i].order = r}
             least == IF I # {} THEN Min(I) ELSE 0
  <1>1. AdjustMsg(msg, r) = IF least = 0 THEN <<>> ELSE SubSeq(msg, least, Len(msg))
    BY DEF AdjustMsg, SelectInSeq
  <1>2. least \in 0 .. Len(msg)
    <2>1. I \in SUBSET Nat
      OBVIOUS
    <2>2. CASE I # {}
      <3>1. Min(I) \in I
        BY <2>1, <2>2, LeastIndex
      <3>2. QED BY <2>2, <3>1
    <2>3. QED BY <2>2
  <1> HIDE DEF least
  <1>3. CASE least = 0
    BY <1>1, <1>3
  <1>4. CASE least # 0
    <2>1. \A i \in least .. Len(msg) : msg[i] \in Frames
      BY <1>2, <1>4, ElementOfSeq
    <2>2. SubSeq(msg, least, Len(msg)) \in Seq(Frames)
      BY <1>2, <1>4
    <2>3. QED BY <1>1, <1>4, <2>2
  <1>5. QED BY <1>3, <1>4

(* A part of a sequence is one.                                             *)
LEMMA PartTyped ==
  ASSUME NEW S, NEW s \in Seq(S), NEW m \in 1 .. Len(s) + 1, NEW n \in 0 .. Len(s)
  PROVE  SubSeq(s, m, n) \in Seq(S) /\ Len(SubSeq(s, m, n)) <= Len(s)
  <1>1. \A i \in m .. n : s[i] \in S
    BY ElementOfSeq
  <1>2. QED BY <1>1, SubSeqProperties

-----------------------------------------------------------------------------
(* What mainRx does to the routes.                                          *)

LEMMA OneRouteOK ==
  ASSUME TypeOK, SendingWaits, NEW r \in Orders, NEW p \in Protocols,
         p.sending => p.open /\ p.event = "Waitting",
         proto' = [proto EXCEPT ![r] = p]
  PROVE  RoutesOK'
  <1>1. proto \in [Orders -> Protocols]
    BY DEF TypeOK, Protocols
  <1>2. proto' \in [Orders -> Protocols]
    BY <1>1
  <1>3. ASSUME NEW q \in Orders, proto'[q].sending
        PROVE  proto'[q].open /\ proto'[q].event = "Waitting"
    BY <1>1, <1>3 DEF SendingWaits
  <1>4. QED BY <1>2, <1>3 DEF RoutesOK, SendingWaits

(* A route stops sending, or keeps waiting as it did.                       *)
LEMMA UpdateOK ==
  ASSUME TypeOK, NEW r \in Orders, NEW sending \in BOOLEAN,
         NEW event \in Events, NEW msg \in Seq(Frames)
  PROVE  LET p == [proto[r] EXCEPT !.sending = sending, !.event = event, !.msg = msg]
         IN  /\ p \in Protocols
             /\ p.sending = sending /\ p.event = event /\ p.open = proto[r].open
  BY DEF TypeOK, Protocols

LEMMA AckRecvOK ==
  ASSUME TypeOK, SendingWaits, NEW r \in Orders, NEW event \in Events,
         NEW msg \in Seq(Frames), AckRecv(r, event, msg)
  PROVE  RoutesOK' /\ switchFlag' \in [Orders -> BOOLEAN]
  <1> DEFINE p == [proto[r] EXCEPT !.sending = FALSE, !.event = event, !.msg = msg]
  <1>1. p \in Protocols /\ ~p.sending
    BY UpdateOK
  <1>2. proto' = [proto EXCEPT ![r] = p]
    BY DEF AckRecv, TypeOK
  <1> HIDE DEF p
  <1>3. RoutesOK'
    BY <1>1, <1>2, OneRouteOK
  <1>4. QED BY <1>3 DEF TypeOK, AckRecv

LEMMA HeardOK ==
  ASSUME TypeOK, SendingWaits, NEW r \in Orders, NEW msg \in Seq(Frames),
         \/ proto' = [proto EXCEPT ![r].msg = msg]
         \/ ~proto[r].sending /\ proto' = [proto EXCEPT ![r].event = "ready",
                                                        ![r].msg = msg]
  PROVE  RoutesOK'
  <1>0. /\ proto \in [Orders -> Protocols]
        /\ proto[r].sending \in BOOLEAN /\ proto[r].event \in Events
        /\ "ready" \in Events
    BY DEF TypeOK, Protocols, Events
  <1> DEFINE q(e) == [proto[r] EXCEPT !.sending = proto[r].sending,
                                      !.event = e, !.msg = msg]
  <1>1. ASSUME NEW e \in Events
        PROVE  q(e) \in Protocols /\ q(e).sending = proto[r].sending
               /\ q(e).event = e /\ q(e).open = proto[r].open
    <2>1. proto[r] \in Protocols
      BY <1>0
    <2>2. QED BY <2>1 DEF Protocols
  <1>2. CASE proto' = [proto EXCEPT ![r].msg = msg]
    <2>1. proto' = [proto EXCEPT ![r] = q(proto[r].event)]
      BY <1>0, <1>2 DEF Protocols
    <2>2. q(proto[r].event).sending =>
            q(proto[r].event).open /\ q(proto[r].event).event = "Waitting"
      BY <1>0, <1>1 DEF SendingWaits
    <2> HIDE DEF q
    <2>3. QED BY <1>0, <1>1, <2>1, <2>2, OneRouteOK
  <1>3. CASE ~proto[r].sending /\ proto' = [proto EXCEPT ![r].event = "ready",
                                                        ![r].msg = msg]
    <2>1. proto' = [proto EXCEPT ![r] = q("ready")]
      BY <1>0, <1>3 DEF Protocols
    <2>2. ~q("ready").sending
      BY <1>0, <1>1, <1>3
    <2> HIDE DEF q
    <2>3. QED BY <1>0, <1>1, <2>1, <2>2, OneRouteOK
  <1>4. QED BY <1>2, <1>3

LEMMA ParaDevProtocolOK ==
  ASSUME TypeOK, SendingWaits, NEW r \in Orders, NEW msg \in Seq(Frames),
         ParaDevProtocol(r, msg)
  PROVE  RoutesOK' /\ switchFlag' \in [Orders -> BOOLEAN]
  <1> DEFINE adj == AdjustMsg(msg, r)
             event == proto[r].event
  <1>1. adj \in Seq(Frames) /\ event \in Events
    BY AdjustTyped DEF TypeOK
  <1>2. /\ "ready" \in Events /\ "CheckError" \in Events
        /\ <<>> \in Seq(Frames)
        /\ switchFlag \in [Orders -> BOOLEAN]
    BY DEF TypeOK, Events
  <1>3. adj # <<>> => Tail(adj) \in Seq(Frames)
    BY <1>1, HeadTailProperties
  <1> HIDE DEF adj, event
  <1>4. \/ \E e \in Events : \E m \in Seq(Frames) : AckRecv(r, e, m)
        \/ /\ switchFlag' = switchFlag
           /\ \E m \in Seq(Frames) :
                \/ proto' = [proto EXCEPT ![r].msg = m]
                \/ ~proto[r].sending /\ proto' = [proto EXCEPT ![r].event = "ready",
                                                               ![r].msg = m]
    BY <1>1, <1>2, <1>3 DEF ParaDevProtocol, adj, event
  <1>5. QED BY <1>2, <1>4, AckRecvOK, HeardOK

LEMMA MainRxOK ==
  ASSUME TypeOK, SendingWaits, NEW r \in Orders, MainRx(r)
  PROVE  /\ RoutesOK' /\ switchFlag' \in [Orders -> BOOLEAN]
         /\ rx' \in Seq(Frames) /\ Len(rx') <= RecvSize
  <1> DEFINE room == RecvSize - Len(proto[r].msg)
             n == IF room < Len(rx) THEN room ELSE Len(rx)
             got == SubSeq(rx, 1, n)
  <1>0. /\ proto[r].msg \in Seq(Frames) /\ rx \in Seq(Frames)
        /\ Len(rx) <= RecvSize /\ Len(rx) \in Nat
        /\ Len(proto[r].msg) \in Nat /\ RecvSize \in Nat
    BY LenProperties, RouteAssumption DEF TypeOK
  <1>1. n \in Int /\ n <= Len(rx)
    BY <1>0
  <1>2. got \in Seq(Frames) /\ Len(got) \in 0 .. Len(rx)
    <2>1. \A i \in 1 .. n : rx[i] \in Frames
      BY <1>0, <1>1, ElementOfSeq
    <2>2. QED BY <1>0, <1>1, <2>1, SubSeqProperties
  <1> HIDE DEF got
  <1>3. rx' \in Seq(Frames) /\ Len(rx') <= RecvSize
    <2>1. rx' = SubSeq(rx, Len(got) + 1, Len(rx))
      BY DEF MainRx, got
    <2>2. QED BY <1>0, <1>2, <2>1, PartTyped
  <1>4. CASE RTimedOut(proto[r])
    <2>1. AckRecv(r, "TimeOut", proto[r].msg)
      BY <1>4 DEF MainRx
    <2>2. "TimeOut" \in Events
      BY DEF Events
    <2>3. QED BY <1>0, <1>3, <2>1, <2>2, AckRecvOK
  <1>5. CASE ~RTimedOut(proto[r]) /\ got = <<>>
    <2>1. UNCHANGED <<proto, switchFlag>>
      BY <1>5 DEF MainRx, got
    <2>2. QED BY <1>3, <2>1 DEF RoutesOK, TypeOK, SendingWaits, Protocols
  <1>6. CASE ~RTimedOut(proto[r]) /\ got # <<>>
    <2>1. ParaDevProtocol(r, proto[r].msg \o got)
      BY <1>6 DEF MainRx, got
    <2>2. proto[r].msg \o got \in Seq(Frames)
      BY <1>0, <1>2, ConcatProperties
    <2>3. QED BY <1>3, <2>1, <2>2, ParaDevProtocolOK
  <1>7. QED BY <1>4, <1>5, <1>6

-----------------------------------------------------------------------------
(* What mainTx does: a control is only taken from the command table, and    *)
(* leaves it.                                                               *)

LEMMA ControlIsWanted ==
  ASSUME TypeOK, NEW r \in Orders, NEW c \in NextCommands(r)
  PROVE  c \in Commands /\ (c = Control => r \in wanted)
  <1>1. proto[r].cmd \in Commands
    BY DEF TypeOK
  <1>2. CASE Repeats(proto[r])
    BY <1>1, <1>2 DEF NextCommands, Repeats
  <1>3. CASE ~Repeats(proto[r])
    BY <1>3, RouteAssumption DEF NextCommands, NextOwn, Commands
  <1>4. QED BY <1>2, <1>3

LEMMA WantedFinite ==
  ASSUME TypeOK
  PROVE  IsFiniteSet(wanted) /\ Cardinality(wanted) \in Nat
  <1>1. IsFiniteSet(Orders)
    BY FS_Interval, RouteAssumption DEF Orders
  <1>2. QED BY <1>1, FS_Subset, FS_CardinalityType DEF TypeOK

LEMMA TransmitOK ==
  ASSUME IInv, NEW r \in Orders, proto[r].open, NEW c \in NextCommands(r),
         Transmit(r, c)
  PROVE  /\ RoutesOK' /\ line' \subseteq Frames /\ wanted' \subseteq Orders
         /\ carried' \in Nat /\ carried' + Cardinality(wanted') <= posted
  <1> USE DEF IInv
  <1>0. c \in Commands /\ (c = Control => r \in wanted)
    BY ControlIsWanted
  <1>1. RoutesOK'
    <2> DEFINE asks == c \notin Unused /\ c \notin Unanswered
               first == proto[r].first /\ c \in Errands
               retry == IF Repeats(proto[r]) THEN proto[r].retry + 1 ELSE 0
               event == IF asks THEN "Waitting" ELSE "ready"
               msg == IF c \in Unused THEN proto[r].msg ELSE <<>>
               p == [proto[r] EXCEPT
                       !.cmd = c, !.first = first, !.retry = retry,
                       !.sending = asks, !.event = event, !.timer = 0,
                       !.msg = msg]
    <2>1. /\ proto \in [Orders -> Protocols] /\ proto[r] \in Protocols
          /\ asks \in BOOLEAN /\ first \in BOOLEAN /\ event \in Events /\ retry \in Nat
          /\ msg \in Seq(Frames) /\ 0 \in Nat
      BY DEF TypeOK, Protocols, Events
    <2>2. proto' = [proto EXCEPT ![r] = p]
      BY Zenon DEF Transmit
    <2>3. asks => event = "Waitting"
      OBVIOUS
    <2> HIDE DEF asks, first, retry, event, msg
    <2>4. p \in Protocols /\ p.sending = asks /\ p.event = event /\ p.open
      BY <2>1, <1>0 DEF Protocols
    <2> HIDE DEF p
    <2>5. QED BY <2>2, <2>3, <2>4, OneRouteOK
  <1>2. line' \subseteq Frames
    BY <1>0 DEF Transmit, TypeOK, Frames
  <1>3. wanted' \subseteq Orders
    BY DEF Transmit, TypeOK
  <1>4. carried' \in Nat /\ carried' + Cardinality(wanted') <= posted
    <2>1. /\ IsFiniteSet(wanted) /\ Cardinality(wanted) \in Nat
          /\ carried \in Nat /\ posted \in Nat
          /\ carried + Cardinality(wanted) <= posted
      BY WantedFinite DEF TypeOK, ControlOnce
    <2>2. CASE c = Control
      <3>1. Cardinality(wanted \ {r}) = Cardinality(wanted) - 1
        BY <1>0, <2>1, <2>2, FS_RemoveElement
      <3>2. wanted' = wanted \ {r} /\ carried' \in {carried, carried + 1}
        BY <2>2 DEF Transmit
      <3>3. QED BY <2>1, <3>1, <3>2
    <2>3. CASE c # Control
      BY <2>1, <2>3 DEF Transmit
    <2>4. QED BY <2>2, <2>3
  <1>5. QED BY <1>1, <1>2, <1>3, <1>4

LEMMA NoTransmitOK ==
  ASSUME IInv, NoTransmit
  PROVE  /\ RoutesOK' /\ line' \subseteq Frames /\ wanted' \subseteq Orders
         /\ carried' \in Nat /\ carried' + Cardinality(wanted') <= posted
  BY DEF NoTransmit, IInv, TypeOK, RoutesOK, Protocols, SendingWaits, ControlOnce

LEMMA MainTxOK ==
  ASSUME IInv, NEW r \in Orders, proto[r].open, MainTx(r)
  PROVE  /\ RoutesOK' /\ line' \subseteq Frames /\ wanted' \subseteq Orders
         /\ carried' \in Nat /\ carried' + Cardinality(wanted') <= posted
  <1>1. NoTransmit \/ \E c \in NextCommands(r) : Transmit(r, c)
    BY DEF MainTx
  <1>2. QED BY <1>1, NoTransmitOK, TransmitOK

-----------------------------------------------------------------------------
(* Every action keeps the invariant.                                        *)

(* The part of the state that no route's question is in.                    *)
ShellOK ==
  /\ up \in BOOLEAN /\ isOpen \in BOOLEAN /\ reset \in BOOLEAN
  /\ routeNum \in 0 .. RouteNum /\ valid \in [Orders -> BOOLEAN]
  /\ delProtocol \in [Orders -> BOOLEAN] /\ manStop \in [Orders -> BOOLEAN]
  /\ switchFlag \in [Orders -> BOOLEAN]
  /\ cur \in Orders /\ elapsed \in 0 .. SwitchTimeOut + 1
  /\ pc \in {"idle", "rx", "tx", "switch", "crashed"}
  /\ troubles \in Nat

LineOK ==
  /\ rx \in Seq(Frames) /\ Len(rx) <= RecvSize
  /\ line \subseteq Frames

ControlOK ==
  /\ wanted \subseteq Orders /\ posted \in Nat /\ carried \in Nat
  /\ ControlOnce

LEMMA Parts == IInv <=> ShellOK /\ RoutesOK /\ LineOK /\ ControlOK
  BY DEF IInv, TypeOK, ShellOK, RoutesOK, LineOK, ControlOK, Protocols

LEMMA PartsThen == ShellOK' /\ RoutesOK' /\ LineOK' /\ ControlOK' => IInv'
  BY DEF IInv, TypeOK, ShellOK, RoutesOK, LineOK, ControlOK, Protocols

LEMMA Kept ==
  /\ ControlOK /\ UNCHANGED control => ControlOK'
  /\ RoutesOK /\ UNCHANGED proto => RoutesOK'
  /\ LineOK /\ UNCHANGED <<rx, line>> => LineOK'
  BY DEF ControlOK, ControlOnce, control, RoutesOK, SendingWaits, LineOK

(* Up and down, stops and restarts, the table and the thread's own decisions *)
(* leave questions, line and controls alone.                                *)
LEMMA ShellStepOK ==
  ASSUME IInv,
         \/ OpenLink \/ ReadThroughNull \/ PassReceive \/ Decide \/ DivideByZero
         \/ ChannelUp \/ ChannelDown
         \/ \E r \in Orders : ManStart(r) \/ ManStop(r) \/ ManResetProtocol(r)
                              \/ ManDisable(r)
         \/ LoadRoute \/ AssignRoute \/ ResetChannel
  PROVE  IInv'
  <1>1. UNCHANGED data /\ UNCHANGED control
    BY DEF OpenLink, ReadThroughNull, PassReceive, Decide, DivideByZero, ChannelUp,
           ChannelDown, ManStart, ManStop, ManResetProtocol, ManDisable, LoadRoute,
           AssignRoute, ResetChannel, data, control
  <1>2. RoutesOK' /\ LineOK' /\ ControlOK'
    BY <1>1, Parts, Kept DEF data
  <1>3. ShellOK
    BY Parts
  <1>4. ShellOK'
    <2> USE <1>3, RouteAssumption DEF ShellOK, table, flags, turn
    <2>1. CASE OpenLink
      BY <2>1 DEF OpenLink
    <2>2. CASE ReadThroughNull
      BY <2>2 DEF ReadThroughNull
    <2>3. CASE PassReceive
      BY <2>3 DEF PassReceive
    <2>4. CASE Decide
      BY <2>4 DEF Decide
    <2>5. CASE DivideByZero
      BY <2>5 DEF DivideByZero
    <2>6. CASE ChannelUp
      BY <2>6 DEF ChannelUp
    <2>14. CASE ChannelDown
      <3>0. up' = FALSE /\ troubles' = troubles + 1
        BY <2>14, Zenon DEF ChannelDown
      <3>1. troubles' \in Nat
        BY <3>0
      <3>2. up' \in BOOLEAN
        BY <3>0, Zenon
      <3>3. UNCHANGED <<isOpen, reset, routeNum, valid, flags, turn, pc>>
        BY <2>14 DEF ChannelDown
      <3>4. QED BY <3>1, <3>2, <3>3
    <2>7. ASSUME NEW r \in Orders, ManStart(r) PROVE ShellOK'
      BY <2>7 DEF ManStart
    <2>8. ASSUME NEW r \in Orders, ManStop(r) PROVE ShellOK'
      BY <2>8 DEF ManStop
    <2>9. ASSUME NEW r \in Orders, ManResetProtocol(r) PROVE ShellOK'
      BY <2>9 DEF ManResetProtocol
    <2>10. ASSUME NEW r \in Orders, ManDisable(r) PROVE ShellOK'
      BY <2>10 DEF ManDisable
    <2>11. CASE LoadRoute
      BY <2>11 DEF LoadRoute
    <2>12. CASE AssignRoute
      BY <2>12 DEF AssignRoute, Orders
    <2>13. CASE ResetChannel
      BY <2>13 DEF ResetChannel
    <2>15. QED
      BY <2>1, <2>2, <2>3, <2>4, <2>5, <2>6, <2>7, <2>8, <2>9, <2>10, <2>11,
         <2>12, <2>13, <2>14
  <1>5. QED BY <1>2, <1>4, PartsThen

LEMMA CloseOK ==
  ASSUME IInv, Close
  PROVE  IInv'
  <1>0. ShellOK /\ RoutesOK /\ LineOK /\ ControlOK
    BY Parts
  <1>1. ShellOK'
    BY <1>0 DEF ShellOK, Close, flags, turn
  <1>2. RoutesOK'
    <2>1. Closed \in Protocols /\ ~Closed.sending
      BY RouteAssumption DEF Closed, Protocols, Events, Commands
    <2>2. QED BY <2>1 DEF Close, RoutesOK, SendingWaits
  <1>3. QED BY <1>0, <1>1, <1>2, PartsThen, Kept DEF Close

LEMMA CheckOK ==
  ASSUME IInv, Check
  PROVE  IInv'
  <1>0. ShellOK /\ RoutesOK /\ LineOK /\ ControlOK
    BY Parts
  <1>1. ShellOK'
    BY <1>0 DEF ShellOK, Check, table, turn
  <1>2. RoutesOK'
    <2>1. Opened \in Protocols /\ ~Opened.sending
      <3>1. Closed \in Protocols /\ ~Closed.sending
        BY RouteAssumption DEF Closed, Protocols, Events, Commands
      <3>2. Opened = [Closed EXCEPT !.open = TRUE]
        BY DEF Opened
      <3>3. QED BY <3>1, <3>2 DEF Protocols
    <2>2. QED BY <1>0, <2>1 DEF Check, RoutesOK, SendingWaits
  <1>3. QED BY <1>0, <1>1, <1>2, PartsThen, Kept DEF Check

LEMMA ReceiveOK ==
  ASSUME IInv, Receive
  PROVE  IInv'
  <1>0. ShellOK /\ RoutesOK /\ LineOK /\ ControlOK /\ TypeOK /\ SendingWaits
        /\ cur \in Orders /\ MainRx(cur)
    BY Parts DEF IInv, Receive, TypeOK
  <1>1. /\ RoutesOK' /\ switchFlag' \in [Orders -> BOOLEAN]
        /\ rx' \in Seq(Frames) /\ Len(rx') <= RecvSize
    BY <1>0, MainRxOK
  <1>2. ShellOK'
    BY <1>0, <1>1 DEF ShellOK, Receive, table, turn
  <1>3. LineOK'
    BY <1>0, <1>1 DEF LineOK, Receive
  <1>4. QED BY <1>0, <1>1, <1>2, <1>3, PartsThen, Kept DEF Receive

(* The sending half's turns.                                                *)
LEMMA AloneOK ==
  ASSUME IInv, Alone
  PROVE  IInv'
  <1>0. ShellOK /\ RoutesOK /\ LineOK /\ ControlOK /\ cur \in Orders
    BY Parts DEF IInv, TypeOK
  <1>1. /\ RoutesOK' /\ line' \subseteq Frames /\ wanted' \subseteq Orders
        /\ carried' \in Nat /\ carried' + Cardinality(wanted') <= posted
    <2>1. (proto[cur].open /\ MainTx(cur)) \/ NoTransmit
      BY DEF Alone
    <2>2. QED BY <1>0, <2>1, MainTxOK, NoTransmitOK
  <1>2. ShellOK'
    <2>1. switchFlag' \in [Orders -> BOOLEAN]
      BY <1>0 DEF ShellOK, Alone
    <2>2. QED BY <1>0, <2>1 DEF ShellOK, Alone, table, turn
  <1>3. LineOK' /\ ControlOK'
    BY <1>0, <1>1 DEF LineOK, ControlOK, ControlOnce, Alone
  <1>4. QED BY <1>1, <1>2, <1>3, PartsThen

LEMMA SwitchOK ==
  ASSUME IInv, Switch
  PROVE  IInv'
  <1>0. ShellOK /\ RoutesOK /\ LineOK /\ ControlOK /\ cur \in Orders
        /\ routeNum \in 1 .. RouteNum
    BY Parts DEF IInv, TypeOK, Switch
  <1>1. cur' \in Orders
    <2>1. NextOrder(cur) \in 0 .. routeNum - 1
      BY <1>0, RouteAssumption DEF NextOrder, Orders
    <2>2. QED BY <1>0, <2>1, RouteAssumption DEF Switch, Orders
  <1>2. /\ RoutesOK' /\ line' \subseteq Frames /\ wanted' \subseteq Orders
        /\ carried' \in Nat /\ carried' + Cardinality(wanted') <= posted
    <2>1. (proto[cur'].open /\ MainTx(cur')) \/ NoTransmit
      BY DEF Switch
    <2>2. QED BY <1>1, <2>1, MainTxOK, NoTransmitOK
  <1>3. ShellOK'
    <2>1. switchFlag' \in [Orders -> BOOLEAN]
      BY <1>0 DEF ShellOK, Switch
    <2>3. elapsed' \in 0 .. SwitchTimeOut + 1
      BY RouteAssumption DEF Switch
    <2>2. QED BY <1>0, <1>1, <2>1, <2>3 DEF ShellOK, Switch, table
  <1>4. LineOK' /\ ControlOK'
    BY <1>0, <1>2 DEF LineOK, ControlOK, ControlOnce, Switch
  <1>5. QED BY <1>2, <1>3, <1>4, PartsThen

LEMMA AnswerOK ==
  ASSUME IInv, NEW f \in line, Answer(f)
  PROVE  IInv'
  <1>0. ShellOK /\ RoutesOK /\ LineOK /\ ControlOK
    BY Parts
  <1>1. LineOK'
    <2>1. f \in Frames /\ rx \in Seq(Frames) /\ Len(rx) \in Nat
      BY <1>0, LenProperties DEF LineOK
    <2>2. rx' = Append(rx, f) /\ Len(rx) < RecvSize /\ line' = line \ {f}
      BY DEF Answer
    <2>3. Append(rx, f) \in Seq(Frames) /\ Len(Append(rx, f)) = Len(rx) + 1
      BY <2>1
    <2>4. QED BY <1>0, <2>1, <2>2, <2>3, RouteAssumption DEF LineOK
  <1>2. ShellOK'
    BY <1>0 DEF ShellOK, Answer, table, flags, turn
  <1>3. QED BY <1>0, <1>1, <1>2, PartsThen, Kept DEF Answer

LEMMA TickOK ==
  ASSUME IInv, Tick
  PROVE  IInv'
  <1>0. ShellOK /\ RoutesOK /\ LineOK /\ ControlOK
    BY Parts
  <1>1. ShellOK'
    <2>1. elapsed' \in 0 .. SwitchTimeOut + 1
      BY <1>0, RouteAssumption DEF ShellOK, Tick, Late
    <2>2. QED BY <1>0, <2>1 DEF ShellOK, Tick, table, flags
  <1>2. RoutesOK'
    <2>1. ASSUME NEW p \in Protocols
          PROVE  /\ Ticked(p) \in Protocols /\ Ticked(p).sending = p.sending
                 /\ Ticked(p).open = p.open /\ Ticked(p).event = p.event
      BY DEF Ticked, Protocols
    <2>2. proto' = [r \in Orders |-> Ticked(proto[r])]
      BY DEF Tick
    <2>3. QED BY <1>0, <2>1, <2>2 DEF RoutesOK, SendingWaits
  <1>3. QED BY <1>0, <1>1, <1>2, PartsThen, Kept DEF Tick

(* Posting adds one control to those the invariant allows; an expired one   *)
(* is never carried.                                                        *)
LEMMA ControlStepOK ==
  ASSUME IInv, NEW r \in Orders, PostControl(r) \/ ExpireControl(r)
  PROVE  IInv'
  <1>0. /\ ShellOK /\ RoutesOK /\ LineOK /\ ControlOK
        /\ IsFiniteSet(wanted) /\ Cardinality(wanted) \in Nat
        /\ carried \in Nat /\ posted \in Nat
        /\ carried + Cardinality(wanted) <= posted
    BY Parts, WantedFinite DEF IInv, TypeOK, ControlOnce
  <1>1. ShellOK' /\ UNCHANGED data
    BY <1>0 DEF ShellOK, PostControl, ExpireControl, table, flags, turn
  <1>2. ControlOK'
    <2>1. CASE PostControl(r)
      <3>1. Cardinality(wanted \cup {r}) = Cardinality(wanted) + 1
        BY <1>0, <2>1, FS_AddElement DEF PostControl
      <3>2. QED BY <1>0, <2>1, <3>1 DEF PostControl, ControlOK, ControlOnce
    <2>2. CASE ExpireControl(r)
      <3>1. Cardinality(wanted \ {r}) = Cardinality(wanted) - 1
        BY <1>0, <2>2, FS_RemoveElement DEF ExpireControl
      <3>2. QED BY <1>0, <2>2, <3>1 DEF ExpireControl, ControlOK, ControlOnce
    <2>3. QED BY <2>1, <2>2
  <1>3. QED BY <1>0, <1>1, <1>2, PartsThen, Kept DEF data

-----------------------------------------------------------------------------
LEMMA InitOK ==
  ASSUME Init
  PROVE  IInv
  <1>1. TypeOK
    <2>1. Closed \in Protocols
      BY RouteAssumption DEF Closed, Protocols, Events, Commands
    <2>2. /\ 0 \in Orders /\ RouteNum \in 0 .. RouteNum
          /\ 0 \in 0 .. SwitchTimeOut + 1
          /\ <<>> \in Seq(Frames) /\ Len(<<>>) <= RecvSize
      BY RouteAssumption DEF Orders
    <2>3. QED BY <2>1, <2>2 DEF Init, TypeOK, Protocols
  <1>2. ControlOnce
    BY FS_EmptySet DEF Init, ControlOnce
  <1>3. SendingWaits
    BY DEF Init, SendingWaits, Closed
  <1>4. QED BY <1>1, <1>2, <1>3 DEF IInv

LEMMA NextOK ==
  ASSUME IInv, Next
  PROVE  IInv'
  BY ShellStepOK, CloseOK, CheckOK, ReceiveOK, AloneOK, SwitchOK, AnswerOK, TickOK,
     ControlStepOK DEF Next

LEMMA StutterOK ==
  ASSUME IInv, UNCHANGED vars
  PROVE  IInv'
  BY DEF IInv, TypeOK, ControlOnce, SendingWaits, vars, table, flags, turn, data, control

THEOREM SpecIInv == Spec => []IInv
  <1>1. IInv /\ [Next]_vars => IInv'
    BY NextOK, StutterOK
  <1>2. QED BY InitOK, <1>1, PTL DEF Spec

(* The link's state is made of what the program can hold (link.cpp,         *)
(* modbus_101.cpp): the turn is a route's, the receive ring holds frames    *)
(* and never more than it has room for.                                     *)
THEOREM LinkTypeCorrect == Spec => []TypeOK
  <1>1. IInv => TypeOK
    BY DEF IInv
  <1>2. QED BY <1>1, SpecIInv, PTL

(* However routes take turns, time out, fail their check sums, reconnect or *)
(* are reloaded, an operator's control is put on the line at most once      *)
(* (checkCurrentCommand of modbus_101.cpp).                                 *)
THEOREM ControlGoesOnce == Spec => []ControlOnce
  <1>1. IInv => ControlOnce
    BY DEF IInv
  <1>2. QED BY <1>1, SpecIInv, PTL

(* A route never stays "sending" without the answer timer that frees it     *)
(* (reportCmdSend and repotrAckRecv of modbus_101.cpp).                     *)
THEOREM SendingIsWaiting == Spec => []SendingWaits
  <1>1. IInv => SendingWaits
    BY DEF IInv
  <1>2. QED BY <1>1, SpecIInv, PTL

=============================================================================
