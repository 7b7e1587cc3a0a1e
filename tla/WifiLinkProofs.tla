---------------------------- MODULE WifiLinkProofs ----------------------------
(***************************************************************************)
(* Proofs about WifiLink, for every number of retries and whatever the     *)
(* network and the application do: the types; that connect does not lose   *)
(* the wakeup of an address that arrives while it waits; that s_connected  *)
(* agrees with the radio once nothing is being handled; and that a link    *)
(* which was asked for is never abandoned.                                 *)
(***************************************************************************)
EXTENDS WifiLink, TLAPS

(* The application task is at a point of connect, reconnect or kick.       *)
Awaiting == {<<"probe", "wait">>, <<"start", "join", "wait">>, <<"start", "wait">>,
             <<"join", "wait">>, <<"wait">>}
Bringing == {<<"disconnect", "stop", "mark", "connect">>, <<"stop", "mark", "connect">>,
             <<"mark", "connect">>, <<"connect">>,
             <<"disconnect", "stop", "mark", "start">>, <<"stop", "mark", "start">>,
             <<"mark", "start">>, <<"start">>}
AppTodo  == {<<>>, Waiting} \cup Awaiting \cup Bringing

LEMMA One == ASSUME NEW a PROVE Head(<<a>>) = a /\ Tail(<<a>>) = <<>>
OBVIOUS

LEMMA Two == ASSUME NEW a, NEW b PROVE Head(<<a, b>>) = a /\ Tail(<<a, b>>) = <<b>>
OBVIOUS

LEMMA Three ==
  ASSUME NEW a, NEW b, NEW c
  PROVE  Head(<<a, b, c>>) = a /\ Tail(<<a, b, c>>) = <<b, c>>
OBVIOUS

LEMMA Four ==
  ASSUME NEW a, NEW b, NEW c, NEW d
  PROVE  Head(<<a, b, c, d>>) = a /\ Tail(<<a, b, c, d>>) = <<b, c, d>>
OBVIOUS

(* The operation a task is at determines what is left of the function.     *)
LEMMA WaitingShape ==
  Head(Waiting) = "prepare" /\ Tail(Waiting) = <<"probe", "wait">>
BY Three DEF Waiting

LEMMA AwaitingShape ==
  ASSUME NEW s \in Awaiting
  PROVE  /\ Head(s) \in {"probe", "start", "join", "wait"}
         /\ s # <<>> /\ s # Waiting
         /\ Tail(s) \in Awaiting \cup {<<>>}
         /\ Head(s) = "wait" => Tail(s) = <<>>
<1>1. CASE s = <<"probe", "wait">>
  BY <1>1, Two DEF Awaiting, Waiting
<1>2. CASE s = <<"start", "join", "wait">>
  BY <1>2, Three, WaitingShape DEF Awaiting
<1>3. CASE s = <<"start", "wait">>
  BY <1>3, Two DEF Awaiting, Waiting
<1>4. CASE s = <<"join", "wait">>
  BY <1>4, Two DEF Awaiting, Waiting
<1>5. CASE s = <<"wait">>
  BY <1>5, One DEF Awaiting, Waiting
<1> QED
  BY <1>1, <1>2, <1>3, <1>4, <1>5 DEF Awaiting

LEMMA BringingShape ==
  ASSUME NEW s \in Bringing
  PROVE  /\ Head(s) \in {"disconnect", "stop", "mark", "connect", "start"}
         /\ s # <<>> /\ s # Waiting
         /\ Tail(s) \in Bringing \cup {<<>>}
<1>1. CASE s = <<"disconnect", "stop", "mark", "connect">>
  BY <1>1, Four, WaitingShape DEF Bringing
<1>2. CASE s = <<"stop", "mark", "connect">>
  BY <1>2, Three, WaitingShape DEF Bringing
<1>3. CASE s = <<"mark", "connect">>
  BY <1>3, Two, WaitingShape DEF Bringing
<1>4. CASE s = <<"connect">>
  BY <1>4, One, WaitingShape DEF Bringing
<1>5. CASE s = <<"disconnect", "stop", "mark", "start">>
  BY <1>5, Four, WaitingShape DEF Bringing
<1>6. CASE s = <<"stop", "mark", "start">>
  BY <1>6, Three, WaitingShape DEF Bringing
<1>7. CASE s = <<"mark", "start">>
  BY <1>7, Two, WaitingShape DEF Bringing
<1>8. CASE s = <<"start">>
  BY <1>8, One, WaitingShape DEF Bringing
<1> QED
  BY <1>1, <1>2, <1>3, <1>4, <1>5, <1>6, <1>7, <1>8 DEF Bringing

-------------------------------------------------------------------------------
(* The types.                                                              *)

LEMMA GotoType ==
  ASSUME TypeOK, NEW t \in Task, NEW ops \in Seq(Op), Goto(t, ops)
  PROVE  /\ todo' \in [Task -> Seq(Op)]
         /\ todo'[t] = ops
         /\ \A u \in Task : u # t => todo'[u] = todo[u]
BY DEF TypeOK, Goto

LEMMA AdvanceType ==
  ASSUME TypeOK, NEW t \in Task, todo[t] # <<>>, Advance(t)
  PROVE  /\ todo' \in [Task -> Seq(Op)]
         /\ todo'[t] = Tail(todo[t])
         /\ \A u \in Task : u # t => todo'[u] = todo[u]
<1>1. todo[t] \in Seq(Op)
  BY DEF TypeOK
<1>2. Tail(todo[t]) \in Seq(Op)
  BY <1>1
<1> QED
  BY <1>2, GotoType DEF Advance

LEMMA ReturnType ==
  ASSUME TypeOK, NEW t \in Task, Return(t)
  PROVE  /\ todo' \in [Task -> Seq(Op)]
         /\ todo'[t] = <<>>
         /\ \A u \in Task : u # t => todo'[u] = todo[u]
<1>1. <<>> \in Seq(Op)
  OBVIOUS
<1> QED
  BY <1>1, GotoType DEF Return

LEMMA DriverType ==
  ASSUME TypeOK, DriverDisconnect \/ DriverStop \/ DriverStart \/ DriverConnect
  PROVE  radio' \in {"off", "idle", "joining", "joined"} /\ events' \in Seq(Event)
<1>1. CASE DriverDisconnect
  BY <1>1 DEF DriverDisconnect, TypeOK, Event
<1>2. CASE DriverStop
  <2>1. <<>> \in Seq(Event) /\ <<"DISC", "STOP">> \in Seq(Event) /\ <<"STOP">> \in Seq(Event)
    BY DEF Event
  <2>2. StopEvents \in {<<>>, <<"DISC", "STOP">>, <<"STOP">>}
    BY DEF StopEvents
  <2>3. StopEvents \in Seq(Event)
    BY <2>1, <2>2
  <2> QED
    BY <1>2, <2>3 DEF DriverStop, TypeOK
<1>3. CASE DriverStart
  BY <1>3 DEF DriverStart, driverVars, TypeOK, Event
<1>4. CASE DriverConnect
  BY <1>4 DEF DriverConnect, TypeOK
<1> QED
  BY <1>1, <1>2, <1>3, <1>4

LEMMA HandlesType ==
  ASSUME TypeOK, NEW e, Handles(e)
  PROVE  events' \in Seq(Event)
BY DEF TypeOK, Handles

LEMMA CallsType ==
  ASSUME TypeOK, NEW t \in Task, Calls(t), orderly' \in BOOLEAN
  PROVE  TypeOK'
<1>1. CASE Disconnect(t)
  BY <1>1, AdvanceType, DriverType DEF Disconnect, At, linkVars, appVars, TypeOK
<1>2. CASE Stop(t)
  BY <1>2, AdvanceType, DriverType DEF Stop, At, linkVars, appVars, TypeOK
<1>3. CASE Mark(t)
  BY <1>3, AdvanceType DEF Mark, At, Stopped, driverVars, appVars, TypeOK
<1> QED
  BY <1>1, <1>2, <1>3 DEF Calls

LEMMA RetryType ==
  ASSUME TypeOK, NEW t \in Task, Retry(t) \/ Arm(t), orderly' \in BOOLEAN
  PROVE  TypeOK'
<1>1. CASE Attempt(t)
  <2>1. <<>> \in Seq(Op) /\ Restart \in Seq(Op) /\ <<"bring">> \in Seq(Op)
    BY DEF Restart, Op
  <2> QED
    BY <1>1, <2>1, GotoType DEF Attempt, driverVars, linkVars, appVars, TypeOK
<1>2. CASE Bring(t)
  BY <1>2, ReturnType, DriverType DEF Bring, linkVars, appVars, TypeOK
<1>3. CASE BringFails(t)
  BY <1>3, ReturnType DEF BringFails, driverVars, linkVars, appVars, TypeOK
<1>4. CASE Arm(t)
  BY <1>4, AdvanceType DEF Arm, At, driverVars, appVars, TypeOK
<1> QED
  BY <1>1, <1>2, <1>3, <1>4 DEF Retry
LEMMA HandlerType ==
  ASSUME TypeOK, StaStart \/ StaStop \/ StaDisconnected \/ GotIp, orderly' \in BOOLEAN
  PROVE  TypeOK'
<1>1. CASE StaStart
  BY <1>1, HandlesType DEF StaStart, StationJoins, appVars, TypeOK
<1>2. CASE StaStop
  BY <1>2, HandlesType DEF StaStop, appVars, TypeOK
<1>3. CASE StaDisconnected
  <2>1. PICK e \in {"DISC", "DISC_RESTART"} :
          /\ Handles(e)
          /\ connected' = FALSE
          /\ Goto("ev", IF e = "DISC_RESTART" THEN <<"restart">> ELSE <<"retry">>)
          /\ UNCHANGED <<radio, started, retry_num, backoff, appVars, bits, holds, asked>>
    BY <1>3 DEF StaDisconnected
  <2>2. "ev" \in Task /\ <<"restart">> \in Seq(Op) /\ <<"retry">> \in Seq(Op)
    BY DEF Task, Op
  <2>3. todo' \in [Task -> Seq(Op)]
    BY <2>1, <2>2, GotoType
  <2> QED
    BY <2>1, <2>3, HandlesType DEF appVars, TypeOK
<1>4. CASE GotIp
  <2>1. events' \in Seq(Event)
    BY <1>4, HandlesType DEF GotIp
  <2>2. 0 \in 0 .. FastRetryMax /\ bits' \subseteq {"ip", "fail"}
    BY <1>4, RetryAssumption DEF GotIp, SetBit, TypeOK
  <2> QED
    BY <1>4, <2>1, <2>2 DEF GotIp, appVars, TypeOK
<1> QED
  BY <1>1, <1>2, <1>3, <1>4

LEMMA DecideType ==
  ASSUME TypeOK, Decide, orderly' \in BOOLEAN
  PROVE  TypeOK'
<1>1. "ev" \in Task /\ AfterRetries \in Seq(Op)
      /\ <<"attempt_full">> \in Seq(Op) /\ <<"attempt">> \in Seq(Op)
  BY DEF Task, AfterRetries, Op
<1>2. todo' \in [Task -> Seq(Op)]
  BY <1>1, GotoType, ReturnType DEF Decide
<1>3. retry_num' \in 0 .. FastRetryMax
  BY RetryAssumption DEF Decide, RetriesLeft, TypeOK
<1>4. bits' \subseteq {"ip", "fail"}
  BY DEF Decide, SetBit, TypeOK
<1> QED
  BY <1>2, <1>3, <1>4 DEF Decide, driverVars, appVars, TypeOK

LEMMA BeginType ==
  ASSUME TypeOK, Begin, orderly' \in BOOLEAN
  PROVE  TypeOK'
<1>1. /\ "app" \in Task /\ Waiting \in Seq(Op)
      /\ <<"disconnect", "stop", "mark", "connect">> \in Seq(Op)
      /\ <<"disconnect", "stop", "mark", "start">> \in Seq(Op)
  BY DEF Task, Waiting, Op
<1>2. todo' \in [Task -> Seq(Op)]
  BY <1>1, GotoType DEF Begin, CallConnect, Reconnect, Kick
<1>3. 0 \in 0 .. FastRetryMax
  BY RetryAssumption
<1> QED
  BY <1>2, <1>3
  DEF Begin, CallConnect, Reconnect, Kick, driverVars, linkVars, appVars, TypeOK

LEMMA ServeType ==
  ASSUME TypeOK, Serve, orderly' \in BOOLEAN
  PROVE  TypeOK'
<1>1. "app" \in Task
  BY DEF Task
<1>2. CASE Calls("app")
  BY <1>1, <1>2, CallsType
<1>3. CASE Start
  BY <1>1, <1>3, AdvanceType, DriverType DEF Start, At, linkVars, appVars, TypeOK
<1>4. CASE StartFails
  BY <1>1, <1>4, ReturnType DEF StartFails, driverVars, linkVars, appVars, TypeOK
<1>5. CASE Join
  BY <1>1, <1>5, AdvanceType, DriverType DEF Join, KeepBits, At, linkVars, appVars, TypeOK
<1>6. CASE JoinRefused
  BY <1>1, <1>6, AdvanceType DEF JoinRefused, At, driverVars, linkVars, appVars, TypeOK
<1>7. CASE Connect \/ Probe
  <2>1. /\ Waiting \in Seq(Op) /\ <<>> \in Seq(Op)
        /\ <<"start", "join", "wait">> \in Seq(Op) /\ <<"start", "wait">> \in Seq(Op)
    BY DEF Waiting, Op
  <2>2. todo' \in [Task -> Seq(Op)]
    BY <1>1, <1>7, <2>1, GotoType DEF Connect, Probe
  <2> QED
    BY <1>7, <2>2 DEF Connect, Probe, driverVars, linkVars, appVars, TypeOK
<1>8. CASE Prepare
  <2>1. 0 \in 0 .. FastRetryMax /\ todo' \in [Task -> Seq(Op)]
    BY <1>1, <1>8, AdvanceType, RetryAssumption DEF Prepare, At
  <2> QED
    BY <1>8, <2>1 DEF Prepare, driverVars, appVars, TypeOK
<1>9. CASE WaitEnds \/ WaitTimesOut
  <2>1. todo' \in [Task -> Seq(Op)]
    BY <1>1, <1>9, AdvanceType DEF WaitEnds, WaitTimesOut, At
  <2> QED
    BY <1>9, <2>1 DEF WaitEnds, WaitTimesOut, driverVars, linkVars, appVars, TypeOK
<1> QED
  BY <1>2, <1>3, <1>4, <1>5, <1>6, <1>7, <1>8, <1>9 DEF Serve

LEMMA BleType ==
  ASSUME TypeOK, Switch \/ IfDown, orderly' \in BOOLEAN
  PROVE  TypeOK'
<1>1. "ble" \in Task /\ <<"if_down">> \in Seq(Op) /\ <<"arm">> \in Seq(Op) /\ <<>> \in Seq(Op)
  BY DEF Task, Op
<1>2. CASE Hold \/ AutoconnectOff
  <2>1. holds' \in 0 .. MaxHolds
    BY <1>2, BoundAssumption DEF Hold, AutoconnectOff, TypeOK
  <2> QED
    BY <1>2, <2>1 DEF Hold, AutoconnectOff, driverVars, TypeOK
<1>3. CASE Release \/ IfDown
  <2>1. todo' \in [Task -> Seq(Op)]
    BY <1>1, <1>3, GotoType DEF Release, IfDown
  <2> QED
    BY <1>3, <2>1 DEF Release, IfDown, driverVars, linkVars, appVars, TypeOK
<1>4. CASE AutoconnectOn
  BY <1>4 DEF AutoconnectOn, driverVars, linkVars, TypeOK
<1> QED
  BY <1>2, <1>3, <1>4 DEF Switch

LEMMA NetworkType ==
  ASSUME TypeOK, Network, orderly' \in BOOLEAN
  PROVE  TypeOK'
<1>1. PICK e \in Event : events' = Append(events, e)
  BY DEF Network, Associate, JoinFails, LinkLost, Event
<1>2. events' \in Seq(Event)
  BY <1>1 DEF TypeOK
<1>3. radio' \in {"off", "idle", "joining", "joined"}
  BY DEF Network, Associate, JoinFails, LinkLost
<1> QED
  BY <1>2, <1>3 DEF Network, Associate, JoinFails, LinkLost, linkVars, appVars, TypeOK

LEMMA StopFailsType ==
  ASSUME TypeOK, NEW t \in Task, StopFails(t)
  PROVE  TypeOK'
<1>1. todo[t] \in Seq(Op) /\ todo[t] # <<>>
  BY DEF StopFails, At, TypeOK
<1>2. Tail(todo[t]) \in Seq(Op) /\ <<"connect">> \in Seq(Op) /\ <<>> \in Seq(Op)
  BY <1>1 DEF Op
<1>3. todo' \in [Task -> Seq(Op)]
  BY <1>2, GotoType DEF StopFails
<1> QED
  BY <1>3 DEF StopFails, driverVars, linkVars, appVars, TypeOK

LEMMA TypeStep == TypeOK /\ [Next]_vars => TypeOK'
<1> SUFFICES ASSUME TypeOK, [Next]_vars PROVE TypeOK'
  OBVIOUS
<1>1. "ev" \in Task /\ "tm" \in Task /\ "app" \in Task /\ "ble" \in Task
  BY DEF Task
<1>2. CASE EventLoop /\ Orderly("ev")
  <2>1. orderly' \in BOOLEAN
    BY <1>2 DEF Orderly
  <2> QED
    BY <1>1, <1>2, <2>1, HandlerType, DecideType, RetryType, CallsType DEF EventLoop
<1>3. CASE Timer /\ Orderly("tm")
  <2>1. orderly' \in BOOLEAN
    BY <1>3 DEF Orderly
  <2>2. CASE BackoffExpires
    <3>1. <<"attempt_full">> \in Seq(Op)
      BY DEF Op
    <3> QED
      BY <1>1, <2>1, <2>2, <3>1, GotoType DEF BackoffExpires, driverVars, appVars, TypeOK
  <2> QED
    BY <1>1, <1>3, <2>1, <2>2, RetryType, CallsType DEF Timer
<1>4. CASE (Begin \/ Serve) /\ Orderly("app")
  <2>1. orderly' \in BOOLEAN
    BY <1>4 DEF Orderly
  <2> QED
    BY <1>4, <2>1, BeginType, ServeType
<1>5. CASE (Switch \/ Settle \/ Network) /\ UNCHANGED orderly
  <2>1. orderly' \in BOOLEAN
    BY <1>5 DEF TypeOK
  <2> QED
    BY <1>1, <1>5, <2>1, BleType, RetryType, NetworkType DEF Settle
<1>6. CASE \E t \in {"ev", "tm", "app"} : StopFails(t)
  BY <1>1, <1>6, StopFailsType
<1>7. CASE UNCHANGED vars
  BY <1>7 DEF vars, driverVars, linkVars, appVars, historyVars, TypeOK
<1> QED
  BY <1>2, <1>3, <1>4, <1>5, <1>6, <1>7 DEF Next

LEMMA InitType == Init => TypeOK
<1> SUFFICES ASSUME Init PROVE TypeOK
  OBVIOUS
<1>1. <<>> \in Seq(Op) /\ <<>> \in Seq(Event)
  OBVIOUS
<1>2. todo \in [Task -> Seq(Op)]
  BY <1>1 DEF Init
<1>3. 0 \in 0 .. FastRetryMax /\ 0 \in 0 .. MaxHolds
  BY RetryAssumption, BoundAssumption
<1> QED
  BY <1>1, <1>2, <1>3 DEF Init, TypeOK

(* Every variable of the Wi-Fi station stays within its type: in           *)
(* particular the fast retries never exceed WIFI_FAST_RETRY_MAX.           *)
THEOREM TypeCorrect == Spec => []TypeOK
BY InitType, TypeStep, PTL DEF Spec
-------------------------------------------------------------------------------
(* The wakeup.  Before the bits are cleared there is no address, or one    *)
(* arrived in between; from then on an address sets the bit at once.       *)

Wakeup ==
  /\ todo["app"] \in AppTodo
  /\ orderly /\ todo["app"] = Waiting => ~connected
  /\ orderly /\ todo["app"] \in Awaiting /\ connected => bits # {}

LEMMA InitWakeup == Init => Wakeup
<1> SUFFICES ASSUME Init PROVE Wakeup
  OBVIOUS
<1>1. todo["app"] = <<>>
  BY DEF Init, Task
<1>2. ~connected
  BY DEF Init
<1> QED
  BY <1>1, <1>2 DEF Wakeup, AppTodo

(* A step that leaves the application task alone keeps it, if it does not  *)
(* bring an address and clears no bit.                                     *)
LEMMA ElsewhereWakeup ==
  ASSUME Wakeup, todo'["app"] = todo["app"], orderly' => orderly,
         connected' => connected, bits \subseteq bits'
  PROVE  Wakeup'
BY DEF Wakeup

(* An address: the restart in progress is no longer alone, or the bit is   *)
(* set for the connect that waits.                                         *)
LEMMA GotIpWakeup ==
  ASSUME TypeOK, Wakeup, GotIp, Orderly("ev")
  PROVE  Wakeup'
<1>1. todo' = todo /\ "app" \in Task \ {"ev"}
  BY DEF GotIp, Task
<1>2. CASE todo["app"] = Waiting
  <2>1. Pending("app", "probe")
    BY <1>2 DEF Pending, Waiting
  <2>2. ~orderly'
    BY <1>1, <2>1 DEF Orderly, Alone, Restarting
  <2> QED
    BY <1>1, <2>2 DEF Wakeup
<1>3. CASE todo["app"] \in Awaiting
  <2>1. Pending("app", "wait")
    <3>1. CASE todo["app"] = <<"probe", "wait">>
      BY <3>1 DEF Pending
    <3>2. CASE todo["app"] = <<"start", "join", "wait">>
      BY <3>2 DEF Pending
    <3>3. CASE todo["app"] = <<"start", "wait">>
      BY <3>3 DEF Pending
    <3>4. CASE todo["app"] = <<"join", "wait">>
      BY <3>4 DEF Pending
    <3>5. CASE todo["app"] = <<"wait">>
      BY <3>5 DEF Pending
    <3> QED
      BY <1>3, <3>1, <3>2, <3>3, <3>4, <3>5 DEF Awaiting
  <2>2. "ip" \in bits'
    BY <2>1 DEF GotIp, SetBit
  <2> QED
    BY <1>1, <1>3, <2>2, AwaitingShape DEF Wakeup
<1> QED
  BY <1>1, <1>2, <1>3 DEF Wakeup

LEMMA CallsWakeup ==
  ASSUME TypeOK, Wakeup, NEW t \in Task, Calls(t), orderly' => orderly
  PROVE  Wakeup'
<1>1. connected' = connected /\ bits' = bits
  BY DEF Calls, Disconnect, Stop, Mark, Stopped, linkVars
<1>2. todo[t] # <<>> /\ Head(todo[t]) \in {"disconnect", "stop", "mark"} /\ Advance(t)
  BY DEF Calls, Disconnect, Stop, Mark, At
<1>3. todo'[t] = Tail(todo[t]) /\ \A u \in Task : u # t => todo'[u] = todo[u]
  BY <1>2, AdvanceType
<1>4. CASE t = "app"
  <2>1. todo["app"] \in Bringing
    BY <1>2, <1>4, AwaitingShape, WaitingShape DEF Wakeup, AppTodo
  <2>2. todo'["app"] \in Bringing \cup {<<>>}
    BY <1>3, <1>4, <2>1, BringingShape
  <2>3. todo'["app"] \notin Awaiting
    BY <2>2, AwaitingShape, BringingShape DEF Awaiting, Bringing
  <2> QED
    BY <2>2, <2>3, BringingShape DEF Wakeup, AppTodo, Waiting
<1>5. CASE t # "app"
  BY <1>1, <1>3, <1>5, ElsewhereWakeup DEF Task
<1> QED
  BY <1>4, <1>5
LEMMA RetryWakeup ==
  ASSUME TypeOK, Wakeup, NEW t \in Task \ {"app"}, Retry(t) \/ Arm(t), orderly' => orderly
  PROVE  Wakeup'
<1>1. connected' = connected /\ bits' = bits
  BY DEF Retry, Attempt, Bring, BringFails, Arm, linkVars
<1>2. todo'["app"] = todo["app"]
  BY DEF Retry, Attempt, Bring, BringFails, Arm, Goto, Return, Advance, TypeOK, Task
<1> QED
  BY <1>1, <1>2, ElsewhereWakeup

LEMMA HandlerWakeup ==
  ASSUME TypeOK, Wakeup, EventLoop, Orderly("ev")
  PROVE  Wakeup'
<1>1. (orderly' => orderly) /\ "ev" \in Task \ {"app"} /\ "app" \in Task
  BY DEF Orderly, Task
<1>2. CASE StaStart \/ StaStop \/ StaDisconnected \/ Decide
  <2>1. connected' => connected
    BY <1>2 DEF StaStart, StaStop, StaDisconnected, Decide
  <2>2. bits \subseteq bits'
    BY <1>2 DEF StaStart, StaStop, StaDisconnected, Decide, SetBit
  <2>3. todo'["app"] = todo["app"]
    BY <1>1, <1>2 DEF StaStart, StaStop, StaDisconnected, Decide, Goto, Return, TypeOK
  <2> QED
    BY <1>1, <2>1, <2>2, <2>3, ElsewhereWakeup
<1>3. CASE GotIp
  BY <1>3, GotIpWakeup
<1>4. CASE Retry("ev") \/ Calls("ev") \/ Arm("ev")
  BY <1>1, <1>4, RetryWakeup, CallsWakeup
<1> QED
  BY <1>2, <1>3, <1>4 DEF EventLoop

LEMMA BeginWakeup ==
  ASSUME TypeOK, Wakeup, Begin
  PROVE  Wakeup'
<1>1. "app" \in Task
  BY DEF Task
<1>2. CASE CallConnect
  <2>1. todo'["app"] = Waiting /\ ~connected'
    BY <1>1, <1>2 DEF CallConnect, Goto, linkVars, TypeOK
  <2>2. Waiting \notin Awaiting
    BY AwaitingShape
  <2> QED
    BY <2>1, <2>2 DEF Wakeup, AppTodo
<1>3. CASE Reconnect \/ Kick
  <2>1. todo'["app"] \in Bringing
    BY <1>1, <1>3 DEF Reconnect, Kick, Goto, TypeOK, Bringing
  <2>2. ~connected'
    BY <1>3 DEF Reconnect, Kick
  <2> QED
    BY <2>1, <2>2 DEF Wakeup, AppTodo
<1> QED
  BY <1>2, <1>3 DEF Begin

(* The application task itself: the bits are cleared where there is no     *)
(* address yet, and again only when it stops waiting.                      *)
LEMMA ServeWakeup ==
  ASSUME TypeOK, Wakeup, Serve, orderly' => orderly
  PROVE  Wakeup'
<1>1. "app" \in Task
  BY DEF Task
<1>2. todo["app"] \in {<<>>, Waiting} \/ todo["app"] \in Awaiting \/ todo["app"] \in Bringing
  BY DEF Wakeup, AppTodo
<1>3. CASE Calls("app")
  BY <1>1, <1>3, CallsWakeup
<1>4. CASE Start \/ Join \/ JoinRefused \/ WaitTimesOut
  <2>1. /\ todo["app"] # <<>> /\ Head(todo["app"]) \in {"start", "join", "wait"}
        /\ Advance("app") /\ connected' = connected /\ bits' = bits
    BY <1>4 DEF Start, Join, KeepBits, JoinRefused, WaitTimesOut, At, linkVars
  <2>2. todo'["app"] = Tail(todo["app"])
    BY <1>1, <2>1, AdvanceType
  <2>3. CASE todo["app"] \in Awaiting
    <3>1. todo'["app"] \in Awaiting \cup {<<>>}
      BY <2>2, <2>3, AwaitingShape
    <3>2. todo'["app"] # Waiting
      BY <3>1, AwaitingShape DEF Waiting
    <3> QED
      BY <2>1, <2>3, <3>1, <3>2 DEF Wakeup, AppTodo
  <2>4. CASE todo["app"] \in Bringing
    <3>1. todo["app"] = <<"start">>
      BY <2>1, <2>4, Two, Three, Four DEF Bringing
    <3>2. todo'["app"] = <<>>
      BY <2>2, <3>1, One
    <3> QED
      BY <3>2, AwaitingShape DEF Wakeup, AppTodo, Waiting
  <2> QED
    BY <1>2, <2>1, <2>3, <2>4, WaitingShape
<1>5. CASE StartFails \/ WaitEnds
  <2>1. todo'["app"] = <<>>
    <3>1. CASE StartFails
      BY <1>1, <3>1, ReturnType DEF StartFails
    <3>2. CASE WaitEnds
      <4>1. todo["app"] \in Awaiting /\ Head(todo["app"]) = "wait"
        BY <1>2, <3>2, WaitingShape, BringingShape DEF WaitEnds, At
      <4> QED
        BY <1>1, <3>2, <4>1, AwaitingShape, AdvanceType DEF WaitEnds, At
    <3> QED
      BY <1>5, <3>1, <3>2
  <2> QED
    BY <2>1, AwaitingShape DEF Wakeup, AppTodo, Waiting
<1>6. CASE Connect
  <2>1. /\ todo'["app"] = IF connected THEN <<>> ELSE Waiting
        /\ connected' = connected
    BY <1>1, <1>6 DEF Connect, Goto, linkVars, TypeOK
  <2> QED
    BY <2>1, AwaitingShape DEF Wakeup, AppTodo, Waiting
<1>7. CASE Prepare
  <2>1. todo["app"] = Waiting
    BY <1>2, <1>7, AwaitingShape, BringingShape DEF Prepare, At
  <2>2. todo'["app"] = <<"probe", "wait">> /\ connected' = connected
    BY <1>1, <1>7, <2>1, WaitingShape, AdvanceType DEF Prepare, At
  <2>3. todo'["app"] \in Awaiting
    BY <2>2 DEF Awaiting
  <2> QED
    BY <2>1, <2>2, <2>3, AwaitingShape DEF Wakeup, AppTodo
<1>8. CASE Probe
  <2>1. todo["app"] \in Awaiting
    BY <1>2, <1>8, WaitingShape, BringingShape DEF Probe, At
  <2>2. todo'["app"] \in Awaiting /\ connected' = connected /\ bits' = bits
    BY <1>1, <1>8 DEF Probe, Goto, linkVars, TypeOK, Awaiting
  <2> QED
    BY <2>1, <2>2, AwaitingShape DEF Wakeup, AppTodo
<1> QED
  BY <1>3, <1>4, <1>5, <1>6, <1>7, <1>8 DEF Serve

LEMMA StopFailsWakeup ==
  ASSUME TypeOK, Wakeup, NEW t \in Task, StopFails(t)
  PROVE  Wakeup'
<1>1. CASE t = "app"
  <2>1. todo'["app"] \in {<<>>, <<"connect">>}
    BY <1>1 DEF StopFails, Goto, TypeOK
  <2> QED
    BY <2>1 DEF StopFails, Wakeup, AppTodo, Bringing
<1>2. CASE t # "app"
  <2>1. todo'["app"] = todo["app"]
    BY <1>2 DEF StopFails, Goto, TypeOK, Task
  <2> QED
    BY <2>1 DEF StopFails, Wakeup
<1> QED
  BY <1>1, <1>2

LEMMA WakeupStep == TypeOK /\ Wakeup /\ [Next]_vars => Wakeup'
<1> SUFFICES ASSUME TypeOK, Wakeup, [Next]_vars PROVE Wakeup'
  OBVIOUS
<1>1. {"tm", "ble"} \subseteq Task \ {"app"} /\ {"ev", "tm", "app"} \subseteq Task
  BY DEF Task
<1>2. CASE EventLoop /\ Orderly("ev")
  BY <1>2, HandlerWakeup
<1>3. CASE Timer /\ Orderly("tm")
  <2>1. orderly' => orderly
    BY <1>3 DEF Orderly
  <2>2. CASE BackoffExpires
    <3>1. todo'["app"] = todo["app"] /\ connected' = connected /\ bits' = bits
      BY <2>2 DEF BackoffExpires, Goto, TypeOK, Task
    <3> QED
      BY <2>1, <3>1, ElsewhereWakeup
  <2> QED
    BY <1>1, <1>3, <2>1, <2>2, RetryWakeup, CallsWakeup DEF Timer
<1>4. CASE (Begin \/ Serve) /\ Orderly("app")
  BY <1>4, BeginWakeup, ServeWakeup DEF Orderly
<1>5. CASE (Switch \/ Settle \/ Network) /\ UNCHANGED orderly
  <2>1. CASE Switch \/ IfDown
    <3>1. todo'["app"] = todo["app"] /\ connected' = connected /\ bits' = bits
      BY <2>1 DEF Switch, Hold, Release, AutoconnectOff, AutoconnectOn, IfDown, Goto,
                  linkVars, TypeOK, Task
    <3> QED
      BY <1>5, <3>1, ElsewhereWakeup
  <2>2. CASE Arm("ble")
    BY <1>1, <1>5, <2>2, RetryWakeup
  <2>3. CASE Network
    BY <1>5, <2>3, ElsewhereWakeup DEF Network, Associate, JoinFails, LinkLost, linkVars
  <2> QED
    BY <1>5, <2>1, <2>2, <2>3 DEF Settle
<1>6. CASE \E t \in {"ev", "tm", "app"} : StopFails(t)
  BY <1>1, <1>6, StopFailsWakeup
<1>7. CASE UNCHANGED vars
  BY <1>7 DEF vars, linkVars, historyVars, Wakeup
<1> QED
  BY <1>2, <1>3, <1>4, <1>5, <1>6, <1>7 DEF Next

LEMMA WakeupImplies == Wakeup => ConnectSeesIp
<1> SUFFICES ASSUME Wakeup, orderly, At("app", "wait"), connected PROVE bits # {}
  BY DEF ConnectSeesIp
<1>1. todo["app"] \in Awaiting
  BY WaitingShape, BringingShape DEF Wakeup, AppTodo, At
<1> QED
  BY <1>1 DEF Wakeup

(* iotmer_wifi_connect does not sleep through an address: while it waits   *)
(* and s_connected is set, a bit that ends the wait is set, for any number *)
(* of retries, unless the address came between its look at s_connected and *)
(* the clearing of the bits.                                               *)
THEOREM ConnectSeesIpAlways == Spec => []ConnectSeesIp
<1>1. Spec => [](TypeOK /\ Wakeup)
  BY InitType, InitWakeup, TypeStep, WakeupStep, PTL DEF Spec
<1> QED
  BY <1>1, WakeupImplies, PTL

-------------------------------------------------------------------------------
(* What the events that wait still say: the last word on the link, or on   *)
(* the radio, is `last`, or nothing since the flag `now` was set.          *)
Says(q, es, last, now) ==
  \/ \E i \in DOMAIN q : q[i] = last /\ \A j \in DOMAIN q : j > i => q[j] \notin es
  \/ now /\ \A i \in DOMAIN q : q[i] \notin es

LEMMA SaysNothing ==
  ASSUME NEW es, NEW last, NEW now \in BOOLEAN
  PROVE  Says(<<>>, es, last, now) <=> now
BY DEF Says

LEMMA SaysPosted ==
  ASSUME NEW q \in Seq(Event), NEW e \in Event, NEW es, NEW last, last \notin es,
         NEW now \in BOOLEAN
  PROVE  Says(Append(q, e), es, last, now) <=> e = last \/ (Says(q, es, last, now) /\ e \notin es)
<1> DEFINE r == Append(q, e)
<1>1. /\ DOMAIN q = 1 .. Len(q) /\ Len(q) \in Nat
      /\ DOMAIN r = 1 .. Len(q) + 1 /\ r[Len(q) + 1] = e
      /\ \A i \in 1 .. Len(q) : r[i] = q[i]
  OBVIOUS
<1> HIDE DEF r
<1>2. ASSUME e = last PROVE Says(r, es, last, now)
  <2>1. Len(q) + 1 \in DOMAIN r /\ \A j \in DOMAIN r : ~ (j > Len(q) + 1)
    BY <1>1
  <2> QED
    BY <1>1, <1>2, <2>1 DEF Says
<1>3. ASSUME Says(q, es, last, now), e \notin es PROVE Says(r, es, last, now)
  BY <1>1, <1>3 DEF Says
<1>4. ASSUME Says(r, es, last, now), e # last PROVE Says(q, es, last, now) /\ e \notin es
  <2>1. CASE now /\ \A i \in DOMAIN r : r[i] \notin es
    BY <1>1, <2>1 DEF Says
  <2>2. ASSUME NEW i \in DOMAIN r, r[i] = last, \A j \in DOMAIN r : j > i => r[j] \notin es
        PROVE  Says(q, es, last, now) /\ e \notin es
    <3>1. i \in 1 .. Len(q)
      BY <1>1, <1>4, <2>2
    <3>2. e \notin es
      BY <1>1, <2>2, <3>1
    <3>3. q[i] = last /\ \A j \in DOMAIN q : j > i => q[j] \notin es
      BY <1>1, <2>2, <3>1
    <3> QED
      BY <1>1, <3>1, <3>2, <3>3 DEF Says
  <2> QED
    BY <1>4, <2>1, <2>2 DEF Says
<1> QED
  BY <1>2, <1>3, <1>4 DEF r

LEMMA SaysHandled ==
  ASSUME NEW q \in Seq(Event), q # <<>>, NEW es, NEW last, last \notin es, NEW now \in BOOLEAN,
         NEW then \in BOOLEAN, then <=> Head(q) = last \/ (now /\ Head(q) \notin es)
  PROVE  Says(q, es, last, now) <=> Says(Tail(q), es, last, then)
<1> DEFINE r == Tail(q)
<1>1. /\ Len(q) \in Nat \ {0} /\ DOMAIN q = 1 .. Len(q) /\ Head(q) = q[1]
      /\ DOMAIN r = 1 .. Len(q) - 1 /\ \A i \in DOMAIN r : r[i] = q[i + 1]
  OBVIOUS
<1> HIDE DEF r
<1>2. \A i \in DOMAIN q : i # 1 => i - 1 \in DOMAIN r /\ r[i - 1] = q[i]
  BY <1>1
<1>3. ASSUME Says(q, es, last, now) PROVE Says(r, es, last, then)
  <2>1. CASE now /\ \A i \in DOMAIN q : q[i] \notin es
    <3>1. 1 \in DOMAIN q /\ \A i \in DOMAIN r : i + 1 \in DOMAIN q
      BY <1>1
    <3>2. then /\ \A i \in DOMAIN r : r[i] \notin es
      BY <1>1, <2>1, <3>1
    <3> QED
      BY <3>2 DEF Says
  <2>2. ASSUME NEW i \in DOMAIN q, q[i] = last, \A j \in DOMAIN q : j > i => q[j] \notin es
        PROVE  Says(r, es, last, then)
    <3>1. \A j \in DOMAIN r : j + 1 \in DOMAIN q /\ (j > i - 1 => j + 1 > i)
      BY <1>1, <2>2
    <3>2. \A j \in DOMAIN r : j > i - 1 => r[j] \notin es
      BY <1>1, <2>2, <3>1
    <3>3. CASE i = 1
      <4>1. then /\ \A j \in DOMAIN r : r[j] \notin es
        BY <1>1, <2>2, <3>2, <3>3
      <4> QED
        BY <4>1 DEF Says
    <3>4. CASE i # 1
      BY <1>2, <2>2, <3>2, <3>4 DEF Says
    <3> QED
      BY <3>3, <3>4
  <2> QED
    BY <1>3, <2>1, <2>2 DEF Says
<1>4. ASSUME Says(r, es, last, then) PROVE Says(q, es, last, now)
  <2>1. ASSUME NEW i \in DOMAIN r, r[i] = last, \A j \in DOMAIN r : j > i => r[j] \notin es
        PROVE  Says(q, es, last, now)
    <3>1. i + 1 \in DOMAIN q /\ q[i + 1] = last
      BY <1>1, <2>1
    <3>2. ASSUME NEW j \in DOMAIN q, j > i + 1 PROVE q[j] \notin es
      <4>1. j - 1 \in DOMAIN r /\ r[j - 1] = q[j] /\ j - 1 > i
        BY <1>1, <1>2, <3>2
      <4> QED
        BY <2>1, <4>1
    <3> QED
      BY <3>1, <3>2 DEF Says
  <2>2. CASE then /\ \A i \in DOMAIN r : r[i] \notin es
    <3>1. \A i \in DOMAIN q : i # 1 => q[i] \notin es
      BY <1>2, <2>2
    <3>2. 1 \in DOMAIN q /\ \A j \in DOMAIN q : j > 1 => j # 1
      BY <1>1
    <3>3. q[1] = last \/ (now /\ q[1] \notin es)
      BY <1>1, <2>2
    <3> QED
      BY <3>1, <3>2, <3>3 DEF Says
  <2> QED
    BY <1>4, <2>1, <2>2 DEF Says
<1> QED
  BY <1>3, <1>4 DEF r

-------------------------------------------------------------------------------
(* s_connected and the radio.                                              *)

Lost == {"DISC", "DISC_RESTART"}
Down == Lost \cup {"STOP"}
Halts == {"STOP"}

(* What s_connected becomes once the waiting events are handled, and what  *)
(* it becomes without the stops among them.                                *)
LinkReported == Says(events, Down, "GOT_IP", connected)
LinkTold     == Says(events, Lost, "GOT_IP", connected)

(* What s_started becomes.                                                 *)
RunReported  == Says(events, Halts, "START", started)

LossComes  == \E i \in DOMAIN events : events[i] \in Lost
StartComes == \E i \in DOMAIN events : events[i] = "START"

LEMMA Posted ==
  ASSUME TypeOK, NEW e \in Event, events' = Append(events, e), UNCHANGED <<started, connected>>
  PROVE  /\ LinkReported' <=> e = "GOT_IP" \/ (LinkReported /\ e \notin Down)
         /\ LinkTold' <=> e = "GOT_IP" \/ (LinkTold /\ e \notin Lost)
         /\ RunReported' <=> e = "START" \/ (RunReported /\ e # "STOP")
         /\ LossComes' <=> LossComes \/ e \in Lost
         /\ StartComes' <=> StartComes \/ e = "START"
<1>1. events \in Seq(Event) /\ connected \in BOOLEAN /\ started \in BOOLEAN
  BY DEF TypeOK
<1>2. "GOT_IP" \notin Down /\ "GOT_IP" \notin Lost /\ "START" \notin Halts /\ \A x : x \in Halts <=> x = "STOP"
  BY DEF Down, Lost, Halts
<1>3. (LossComes' <=> LossComes \/ e \in Lost) /\ (StartComes' <=> StartComes \/ e = "START")
  <2>1. /\ DOMAIN events = 1 .. Len(events) /\ Len(events) \in Nat
        /\ DOMAIN events' = 1 .. Len(events) + 1 /\ events'[Len(events) + 1] = e
        /\ \A i \in 1 .. Len(events) : events'[i] = events[i]
    BY <1>1
  <2>2. Len(events) + 1 \in DOMAIN events' /\ \A i \in DOMAIN events : i \in DOMAIN events'
    BY <2>1
  <2>3. \A i \in DOMAIN events' : i = Len(events) + 1 \/ i \in DOMAIN events
    BY <2>1
  <2> QED
    BY <2>1, <2>2, <2>3 DEF LossComes, StartComes
<1> DEFINE q == Append(events, e)
<1>4. Says(q, Down, "GOT_IP", connected) <=> e = "GOT_IP" \/ (LinkReported /\ e \notin Down)
  BY <1>1, <1>2, SaysPosted DEF LinkReported
<1>5. Says(q, Lost, "GOT_IP", connected) <=> e = "GOT_IP" \/ (LinkTold /\ e \notin Lost)
  BY <1>1, <1>2, SaysPosted DEF LinkTold
<1>6. Says(q, Halts, "START", started) <=> e = "START" \/ (RunReported /\ e # "STOP")
  BY <1>1, <1>2, SaysPosted DEF RunReported
<1>7. /\ LinkReported' <=> Says(q, Down, "GOT_IP", connected)
      /\ LinkTold' <=> Says(q, Lost, "GOT_IP", connected)
      /\ RunReported' <=> Says(q, Halts, "START", started)
  BY DEF LinkReported, LinkTold, RunReported
<1> HIDE DEF q
<1> QED
  BY <1>3, <1>4, <1>5, <1>6, <1>7

LEMMA StopPosted ==
  ASSUME TypeOK, DriverStop, UNCHANGED <<started, connected>>
  PROVE  /\ radio = "off" => UNCHANGED events
         /\ radio # "off" => ~ LinkReported' /\ ~ RunReported'
         /\ LinkTold' => LinkTold /\ radio # "joined"
         /\ LossComes => LossComes'
<1>1. /\ events \in Seq(Event) /\ connected \in BOOLEAN /\ started \in BOOLEAN
      /\ "STOP" \in Event /\ "DISC" \in Event
      /\ "GOT_IP" \notin Down /\ "GOT_IP" \notin Lost /\ "START" \notin Halts /\ \A x : x \in Halts <=> x = "STOP"
      /\ "STOP" \in Down /\ "STOP" \notin Lost /\ "DISC" \in Lost
  BY DEF TypeOK, Down, Lost, Halts, Event
<1>2. CASE radio = "off"
  <2>1. events' = events
    BY <1>1, <1>2 DEF DriverStop, StopEvents
  <2> QED
    BY <1>2, <2>1 DEF LinkTold, LossComes
<1>3. CASE radio = "joined"
  <2> DEFINE q == Append(events, "DISC")
  <2>1. events' = Append(q, "STOP") /\ q \in Seq(Event)
    BY <1>1, <1>3 DEF DriverStop, StopEvents
  <2>2. ~ Says(q, Lost, "GOT_IP", connected)
    BY <1>1, SaysPosted
  <2> HIDE DEF q
  <2>3. ~ LinkReported' /\ ~ RunReported' /\ ~ LinkTold'
    <3>1. ~ Says(Append(q, "STOP"), Down, "GOT_IP", connected)
      BY <1>1, <2>1, SaysPosted
    <3>2. ~ Says(Append(q, "STOP"), Lost, "GOT_IP", connected)
      BY <1>1, <2>1, <2>2, SaysPosted
    <3>3. ~ Says(Append(q, "STOP"), Halts, "START", started)
      BY <1>1, <2>1, SaysPosted
    <3> QED
      BY <2>1, <3>1, <3>2, <3>3 DEF LinkReported, RunReported, LinkTold
  <2>4. LossComes => LossComes'
    <3>1. \A i \in DOMAIN events : i \in DOMAIN events' /\ events'[i] = events[i]
      BY <1>1, <2>1 DEF q
    <3> QED
      BY <3>1 DEF LossComes
  <2> QED
    BY <1>3, <2>3, <2>4
<1>4. CASE radio \notin {"off", "joined"}
  <2>1. events' = Append(events, "STOP")
    BY <1>1, <1>4 DEF DriverStop, StopEvents
  <2> QED
    BY <1>1, <1>4, <2>1, Posted
<1> QED
  BY <1>2, <1>3, <1>4

LEMMA Heard ==
  ASSUME TypeOK, NEW e, Handles(e), connected' \in BOOLEAN, started' \in BOOLEAN,
         connected' <=> e = "GOT_IP" \/ (connected /\ e \notin Down),
         started' <=> e = "START" \/ (started /\ e # "STOP")
  PROVE  /\ LinkReported' <=> LinkReported
         /\ LinkTold' => LinkTold
         /\ RunReported' <=> RunReported
         /\ LossComes => LossComes' \/ e \in Lost
         /\ StartComes => StartComes' \/ e = "START"
         /\ e = "GOT_IP" => LinkTold \/ LossComes'
<1>1. /\ events \in Seq(Event) /\ events # <<>> /\ e = Head(events) /\ events' = Tail(events)
      /\ connected \in BOOLEAN /\ started \in BOOLEAN
      /\ "GOT_IP" \notin Down /\ "GOT_IP" \notin Lost /\ "START" \notin Halts /\ Lost \subseteq Down
      /\ \A x : x \in Halts <=> x = "STOP"
  BY DEF TypeOK, Handles, Down, Lost, Halts
<1>2. (LinkReported' <=> LinkReported) /\ (RunReported' <=> RunReported)
  <2>1. LinkReported <=> Says(Tail(events), Down, "GOT_IP", connected')
    BY <1>1, SaysHandled DEF LinkReported
  <2>2. RunReported <=> Says(Tail(events), Halts, "START", started')
    <3>1. started' <=> Head(events) = "START" \/ (started /\ Head(events) \notin Halts)
      BY DEF Handles, Halts
    <3>2. "START" \notin Halts /\ events \in Seq(Event) /\ events # <<>> /\ started \in BOOLEAN
      BY <1>1
    <3> QED
      BY <3>1, <3>2, SaysHandled DEF RunReported
  <2>3. /\ LinkReported' <=> Says(Tail(events), Down, "GOT_IP", connected')
        /\ RunReported' <=> Says(Tail(events), Halts, "START", started')
    BY <1>1 DEF LinkReported, RunReported
  <2> QED
    BY <2>1, <2>2, <2>3
<1>3. LinkTold' => LinkTold
  <2> DEFINE then == e = "GOT_IP" \/ (connected /\ e \notin Lost)
  <2>1. then \in BOOLEAN /\ (connected' => then)
    BY DEF Down
  <2>2. Says(events, Lost, "GOT_IP", connected) <=> Says(Tail(events), Lost, "GOT_IP", then)
    BY <1>1, <2>1, SaysHandled
  <2>3. Says(Tail(events), Lost, "GOT_IP", connected') => Says(Tail(events), Lost, "GOT_IP", then)
    BY <2>1 DEF Says
  <2> QED
    BY <1>1, <2>2, <2>3 DEF LinkTold
<1>4. /\ Len(events) \in Nat \ {0} /\ DOMAIN events = 1 .. Len(events) /\ e = events[1]
      /\ DOMAIN events' = 1 .. Len(events) - 1 /\ \A i \in DOMAIN events' : events'[i] = events[i + 1]
  BY <1>1
<1>5. \A i \in DOMAIN events : i # 1 => i - 1 \in DOMAIN events' /\ events'[i - 1] = events[i]
  BY <1>4
<1>6. (LossComes => LossComes' \/ e \in Lost) /\ (StartComes => StartComes' \/ e = "START")
  BY <1>4, <1>5 DEF LossComes, StartComes
<1>7. e = "GOT_IP" => LinkTold \/ LossComes'
  <2> SUFFICES ASSUME e = "GOT_IP", ~ LossComes' PROVE LinkTold
    OBVIOUS
  <2>1. 1 \in DOMAIN events /\ \A j \in DOMAIN events : j > 1 => j # 1
    BY <1>4
  <2>2. \A j \in DOMAIN events : j > 1 => events[j] \notin Lost
    BY <1>5, <2>1 DEF LossComes
  <2> QED
    BY <1>4, <2>1, <2>2 DEF LinkTold, Says
<1> QED
  BY <1>2, <1>3, <1>6, <1>7

(* A GOT_IP behind which no loss waits is that of the present link; and a  *)
(* link that is up is reported, unless a restart has just forgotten it.    *)
LinkInv ==
  /\ LinkTold => radio = "joined"
  /\ radio = "joined" => LinkReported \/ At("app", "disconnect")

LEMMA LinkQuiet ==
  ASSUME LinkInv, UNCHANGED <<events, connected>>,
         radio' = "joined" <=> radio = "joined",
         At("app", "disconnect") /\ radio = "joined" => At("app", "disconnect")'
  PROVE  LinkInv'
BY DEF LinkInv, LinkTold, LinkReported

LEMMA LinkPosted ==
  ASSUME TypeOK, LinkInv, NEW e \in Event, events' = Append(events, e),
         UNCHANGED <<started, connected>>,
         \/ e = "GOT_IP" /\ radio' = "joined"
         \/ e \in Lost /\ radio' # "joined"
         \/ e = "START" /\ radio # "joined" /\ radio' # "joined"
  PROVE  LinkInv'
BY Posted DEF LinkInv, Lost, Down

LEMMA Elsewhere ==
  ASSUME TypeOK, NEW t \in Task, NEW ops, Goto(t, ops) \/ Advance(t) \/ Return(t),
         NEW u \in Task \ {t}
  PROVE  todo'[u] = todo[u]
BY DEF TypeOK, Goto, Advance, Return

(* A task other than the application's leaves it where it is.              *)
LEMMA AppStays ==
  ASSUME TypeOK, NEW t \in Task \ {"app"}, NEW ops, Goto(t, ops) \/ Advance(t) \/ Return(t)
  PROVE  todo'["app"] = todo["app"]
BY Elsewhere DEF Task

LEMMA LinkNetwork ==
  ASSUME TypeOK, LinkInv, Network
  PROVE  LinkInv'
<1>1. "GOT_IP" \in Event /\ Lost \subseteq Event /\ UNCHANGED <<started, connected>>
  BY DEF Event, Lost, Network, Associate, JoinFails, LinkLost, linkVars
<1>2. CASE Associate
  BY <1>1, <1>2, LinkPosted DEF Associate
<1>3. CASE JoinFails \/ LinkLost
  <2>1. PICK e \in Lost : events' = Append(events, e)
    BY <1>3 DEF JoinFails, LinkLost, Lost
  <2>2. radio' = "idle"
    BY <1>3 DEF JoinFails, LinkLost
  <2> QED
    BY <1>1, <2>1, <2>2, LinkPosted
<1> QED
  BY <1>2, <1>3 DEF Network

LEMMA LinkCalls ==
  ASSUME TypeOK, LinkInv, NEW t \in Task, Calls(t)
  PROVE  LinkInv'
<1>1. CASE Disconnect(t)
  <2>1. UNCHANGED <<started, connected>> /\ radio' # "joined" /\ "DISC" \in Event /\ "DISC" \in Lost
    BY <1>1 DEF Disconnect, DriverDisconnect, linkVars, Event, Lost
  <2>2. CASE radio = "joined"
    BY <1>1, <2>1, <2>2, LinkPosted DEF Disconnect, DriverDisconnect
  <2>3. CASE radio # "joined"
    BY <1>1, <2>1, <2>3, LinkQuiet DEF Disconnect, DriverDisconnect
  <2> QED
    BY <2>2, <2>3
<1>2. CASE Stop(t)
  <2>1. DriverStop /\ UNCHANGED <<started, connected>> /\ radio' = "off"
    BY <1>2 DEF Stop, DriverStop, linkVars
  <2> QED
    BY <2>1, StopPosted DEF LinkInv
<1>3. CASE Mark(t)
  <2>1. UNCHANGED <<radio, events, connected>>
    BY <1>3 DEF Mark, Stopped, driverVars
  <2>2. At("app", "disconnect") => At("app", "disconnect")'
    <3>1. CASE t = "app"
      BY <1>3, <3>1 DEF Mark, At
    <3>2. CASE t # "app"
      BY <1>3, <3>2, AppStays DEF Mark, At, Task
    <3> QED
      BY <3>1, <3>2
  <2> QED
    BY <2>1, <2>2, LinkQuiet
<1> QED
  BY <1>1, <1>2, <1>3 DEF Calls

(* A start of the radio posts STA_START, and it joins nothing by itself.   *)
LEMMA LinkStarted ==
  ASSUME TypeOK, LinkInv, DriverStart \/ DriverConnect, UNCHANGED <<started, connected>>,
         At("app", "disconnect") => At("app", "disconnect")'
  PROVE  LinkInv'
<1>1. CASE UNCHANGED events
  <2>1. radio' = "joined" <=> radio = "joined"
    BY <1>1 DEF DriverStart, DriverConnect, driverVars
  <2> QED
    BY <1>1, <2>1, LinkQuiet
<1>2. CASE radio = "off" /\ radio' = "idle" /\ events' = Append(events, "START")
  BY <1>2, LinkPosted DEF Event
<1> QED
  BY <1>1, <1>2 DEF DriverStart, DriverConnect, driverVars

LEMMA LinkRetry ==
  ASSUME TypeOK, LinkInv, NEW t \in Task \ {"app"}, Retry(t) \/ Arm(t)
  PROVE  LinkInv'
<1>1. todo'["app"] = todo["app"]
  BY AppStays DEF Retry, Attempt, Bring, BringFails, Arm
<1>2. At("app", "disconnect") => At("app", "disconnect")'
  BY <1>1 DEF At
<1>3. CASE Attempt(t) \/ BringFails(t) \/ Arm(t)
  <2>1. UNCHANGED <<radio, events, connected>>
    BY <1>3 DEF Attempt, BringFails, Arm, driverVars, linkVars
  <2> QED
    BY <1>2, <2>1, LinkQuiet
<1>4. CASE Bring(t)
  BY <1>2, <1>4, LinkStarted DEF Bring, linkVars
<1> QED
  BY <1>3, <1>4 DEF Retry

LEMMA LinkEvents ==
  ASSUME TypeOK, LinkInv, StaStart \/ StaStop \/ StaDisconnected \/ GotIp
  PROVE  LinkInv'
<1>1. /\ At("app", "disconnect") <=> At("app", "disconnect")'
      /\ radio' = "joined" <=> radio = "joined"
  <2>1. todo'["app"] = todo["app"]
    <3>1. CASE StaDisconnected
      BY <3>1, AppStays DEF StaDisconnected, Task
    <3> QED
      BY <3>1 DEF StaStart, StaStop, GotIp
  <2>2. radio' = "joined" <=> radio = "joined"
    BY DEF StaStart, StationJoins, StaStop, StaDisconnected, GotIp
  <2> QED
    BY <2>1, <2>2 DEF At
<1>2. connected \in BOOLEAN /\ started \in BOOLEAN
  BY DEF TypeOK
<1>3. (LinkReported' <=> LinkReported) /\ (LinkTold' => LinkTold)
  <2>1. CASE StaStart
    <3>1. Handles("START") /\ connected' = connected /\ started' = TRUE
      BY <2>1 DEF StaStart
    <3> QED
      BY <1>2, <3>1, Heard DEF Down, Lost
  <2>2. CASE StaStop
    <3>1. Handles("STOP") /\ connected' = FALSE /\ started' = FALSE
      BY <2>2 DEF StaStop
    <3> QED
      BY <1>2, <3>1, Heard DEF Down, Lost
  <2>3. CASE StaDisconnected
    <3>1. PICK e \in Lost : Handles(e) /\ connected' = FALSE /\ started' = started
      BY <2>3 DEF StaDisconnected, Lost
    <3> QED
      BY <1>2, <3>1, Heard DEF Down, Lost
  <2>4. CASE GotIp
    <3>1. Handles("GOT_IP") /\ connected' = TRUE /\ started' = started
      BY <2>4 DEF GotIp
    <3> QED
      BY <1>2, <3>1, Heard DEF Down, Lost
  <2> QED
    BY <2>1, <2>2, <2>3, <2>4
<1> QED
  BY <1>1, <1>3 DEF LinkInv

LEMMA LinkApp ==
  ASSUME TypeOK, LinkInv, Begin \/ Serve
  PROVE  LinkInv'
<1>1. CASE Reconnect \/ Kick
  <2>1. UNCHANGED <<radio, events>> /\ connected' = FALSE
    BY <1>1 DEF Reconnect, Kick, driverVars
  <2>2. todo'["app"] \in {<<"disconnect", "stop", "mark", "connect">>,
                          <<"disconnect", "stop", "mark", "start">>}
    BY <1>1 DEF Reconnect, Kick, Goto, TypeOK, Task
  <2>3. At("app", "disconnect")'
    BY <2>2, Four DEF At
  <2>4. LinkTold' => LinkTold
    BY <2>1 DEF LinkTold, Says
  <2> QED
    BY <2>1, <2>3, <2>4 DEF LinkInv
<1>2. CASE CallConnect \/ StartFails \/ JoinRefused \/ Connect \/ Prepare \/ Probe \/ WaitEnds
           \/ WaitTimesOut
  <2>1. UNCHANGED <<radio, events, connected>>
    BY <1>2 DEF CallConnect, StartFails, JoinRefused, Connect, Prepare, Probe, WaitEnds,
       WaitTimesOut, driverVars, linkVars
  <2>2. ~ At("app", "disconnect")
    BY <1>2 DEF CallConnect, AppFree, Idle, StartFails, JoinRefused, Connect, Prepare, Probe,
       WaitEnds, WaitTimesOut, At
  <2> QED
    BY <2>1, <2>2, LinkQuiet
<1>3. CASE Start \/ Join
  <2>1. ~ At("app", "disconnect")
    BY <1>3 DEF Start, Join, At
  <2>2. (DriverStart \/ DriverConnect) /\ UNCHANGED <<started, connected>>
    BY <1>3 DEF Start, Join, linkVars
  <2> QED
    BY <2>1, <2>2, LinkStarted
<1>4. CASE Calls("app")
  BY <1>4, LinkCalls DEF Task
<1> QED
  BY <1>1, <1>2, <1>3, <1>4 DEF Begin, Serve

LEMMA LinkStep == TypeOK /\ LinkInv /\ [Next]_vars => LinkInv'
<1> SUFFICES ASSUME TypeOK, LinkInv, [Next]_vars PROVE LinkInv'
  OBVIOUS
<1>1. {"ev", "tm", "ble"} \subseteq Task \ {"app"}
  BY DEF Task
<1>2. CASE EventLoop
  <2>1. CASE Decide
    <3>1. UNCHANGED <<radio, events, connected>>
      BY <2>1 DEF Decide, driverVars
    <3>2. todo'["app"] = todo["app"]
      BY <1>1, <2>1, AppStays DEF Decide
    <3> QED
      BY <3>1, <3>2, LinkQuiet DEF At
  <2> QED
    BY <1>1, <1>2, <2>1, LinkEvents, LinkRetry, LinkCalls DEF EventLoop
<1>3. CASE Timer
  <2>1. CASE BackoffExpires
    <3>1. UNCHANGED <<radio, events, connected>>
      BY <2>1 DEF BackoffExpires, driverVars
    <3>2. todo'["app"] = todo["app"]
      BY <1>1, <2>1, AppStays DEF BackoffExpires
    <3> QED
      BY <3>1, <3>2, LinkQuiet DEF At
  <2> QED
    BY <1>1, <1>3, <2>1, LinkRetry, LinkCalls DEF Timer
<1>4. CASE Switch \/ Settle
  <2>1. CASE Arm("ble")
    BY <1>1, <2>1, LinkRetry
  <2>2. CASE Switch \/ IfDown
    <3>1. UNCHANGED <<radio, events, connected>>
      BY <2>2 DEF Switch, Hold, Release, AutoconnectOff, AutoconnectOn, IfDown, driverVars, linkVars
    <3>2. todo'["app"] = todo["app"]
      BY <1>1, <2>2, AppStays DEF Switch, Hold, Release, AutoconnectOff, AutoconnectOn, IfDown
    <3> QED
      BY <3>1, <3>2, LinkQuiet DEF At
  <2> QED
    BY <1>4, <2>1, <2>2 DEF Settle
<1>5. CASE \E t \in {"ev", "tm", "app"} : StopFails(t)
  <2>1. PICK t \in {"ev", "tm", "app"} : StopFails(t)
    BY <1>5
  <2>2. UNCHANGED <<radio, events, connected>>
    BY <2>1 DEF StopFails, driverVars, linkVars
  <2>3. At("app", "disconnect") => At("app", "disconnect")'
    <3>1. CASE t = "app"
      BY <2>1, <3>1 DEF StopFails, At
    <3>2. CASE t # "app"
      BY <1>1, <2>1, <3>2, AppStays DEF StopFails, At
    <3> QED
      BY <3>1, <3>2
  <2> QED
    BY <2>2, <2>3, LinkQuiet
<1>6. CASE UNCHANGED vars
  BY <1>6 DEF vars, driverVars, linkVars, LinkInv, LinkTold, LinkReported, At
<1> QED
  BY <1>2, <1>3, <1>4, <1>5, <1>6, LinkNetwork, LinkApp DEF Next

LEMMA LinkInit == Init => LinkInv
<1> SUFFICES ASSUME Init PROVE LinkInv
  OBVIOUS
<1>1. events = <<>> /\ connected = FALSE /\ radio = "off"
  BY DEF Init
<1> QED
  BY <1>1, SaysNothing DEF LinkInv, LinkTold

(* iotmer_wifi_sta_has_ip answers for the radio: once no event waits and   *)
(* every task has returned, s_connected is set exactly while the station   *)
(* has joined, whatever the order in which events and calls came.          *)
THEOREM HasIpAccurateAlways == Spec => []HasIpAccurate
<1>1. TypeOK /\ LinkInv => HasIpAccurate
  <2> SUFFICES ASSUME TypeOK, LinkInv, Quiet PROVE connected <=> radio = "joined"
    BY DEF HasIpAccurate
  <2>1. events = <<>> /\ ~ At("app", "disconnect") /\ connected \in BOOLEAN
    BY DEF Quiet, Idle, At, Task, TypeOK
  <2>2. (LinkTold <=> connected) /\ (LinkReported <=> connected)
    BY <2>1, SaysNothing DEF LinkTold, LinkReported
  <2> QED
    BY <2>1, <2>2 DEF LinkInv
<1> QED
  BY <1>1, InitType, LinkInit, TypeStep, LinkStep, PTL DEF Spec

-------------------------------------------------------------------------------
(* Where the event loop, the timer and the BLE task can be.                *)

Restarts == {<<"disconnect", "stop", "mark", "bring">>, <<"stop", "mark", "bring">>,
             <<"mark", "bring">>, <<"bring">>}
TimerTodo == {<<>>, <<"attempt_full">>} \cup Restarts
LoopTodo  == {<<>>, <<"retry">>, <<"restart">>, <<"attempt">>, <<"attempt_full">>, <<"arm">>}
             \cup Restarts
BleTodo   == {<<>>, <<"if_down">>, <<"arm">>}

Shapes == todo["ev"] \in LoopTodo /\ todo["tm"] \in TimerTodo /\ todo["ble"] \in BleTodo

LEMMA RestartsShape ==
  ASSUME NEW s \in Restarts
  PROVE  /\ s # <<>> /\ Head(s) \in {"disconnect", "stop", "mark", "bring"}
         /\ Head(s) = "bring" => Tail(s) = <<>>
         /\ Head(s) = "mark" => Tail(s) = <<"bring">>
         /\ Head(s) \in {"disconnect", "stop"} => Tail(s) \in Restarts /\ Head(Tail(s)) # "bring"
<1>1. CASE s = <<"disconnect", "stop", "mark", "bring">>
  BY <1>1, Four, Three DEF Restarts
<1>2. CASE s = <<"stop", "mark", "bring">>
  BY <1>2, Three, Two DEF Restarts
<1>3. CASE s = <<"mark", "bring">>
  BY <1>3, Two DEF Restarts
<1>4. CASE s = <<"bring">>
  BY <1>4, One DEF Restarts
<1> QED
  BY <1>1, <1>2, <1>3, <1>4 DEF Restarts

LEMMA LoopShape ==
  ASSUME NEW s \in LoopTodo \cup TimerTodo \cup BleTodo
  PROVE  \/ s = <<>>
         \/ /\ Head(s) \in {"retry", "restart", "attempt", "attempt_full", "arm", "if_down"}
            /\ Tail(s) = <<>> /\ s = <<Head(s)>>
         \/ s \in Restarts
BY One DEF LoopTodo, TimerTodo, BleTodo

(* The calls of a restart, one after the other.                            *)
LEMMA ShapesCalls ==
  ASSUME TypeOK, Shapes, NEW t \in Task, Calls(t) \/ StopFails(t)
  PROVE  Shapes'
<1>1. CASE t \in {"ev", "tm", "ble"}
  <2>1. todo[t] # <<>> /\ Head(todo[t]) \in {"disconnect", "stop", "mark"}
    BY DEF Calls, Disconnect, Stop, Mark, StopFails, At
  <2>2. todo[t] \in Restarts /\ t # "ble"
    BY <1>1, <2>1, LoopShape, RestartsShape, One DEF Shapes, BleTodo
  <2>3. Tail(todo[t]) \in Restarts
    BY <2>1, <2>2, RestartsShape DEF Restarts
  <2>4. Goto(t, Tail(todo[t]))
    <3>1. CASE Calls(t)
      BY <3>1 DEF Calls, Disconnect, Stop, Mark, Advance
    <3>2. CASE StopFails(t)
      BY <1>1, <3>2 DEF StopFails
    <3> QED
      BY <3>1, <3>2
  <2>5. todo'[t] \in Restarts /\ \A u \in Task \ {t} : todo'[u] = todo[u]
    BY <2>3, <2>4 DEF Goto, TypeOK
  <2> QED
    BY <1>1, <2>2, <2>5 DEF Shapes, LoopTodo, TimerTodo, Task
<1>2. CASE t = "app"
  <2>1. \A u \in Task \ {"app"} : todo'[u] = todo[u]
    BY <1>2, Elsewhere DEF Calls, Disconnect, Stop, Mark, StopFails
  <2> QED
    BY <2>1 DEF Shapes, Task
<1> QED
  BY <1>1, <1>2 DEF Task

LEMMA ShapesRetry ==
  ASSUME TypeOK, Shapes, NEW t \in {"ev", "tm"}, Retry(t)
  PROVE  Shapes'
<1>1. todo'[t] \in {<<>>} \cup Restarts
  BY DEF Retry, Attempt, Bring, BringFails, Goto, Return, Restart, Restarts, TypeOK, Task
<1>2. \A u \in Task \ {t} : todo'[u] = todo[u]
  BY Elsewhere DEF Retry, Attempt, Bring, BringFails, Task
<1> QED
  BY <1>1, <1>2 DEF Shapes, LoopTodo, TimerTodo, Task

LEMMA ShapesArm ==
  ASSUME TypeOK, Shapes, NEW t \in {"ev", "ble"}, Arm(t)
  PROVE  Shapes'
<1>1. todo[t] = <<"arm">>
  BY LoopShape, RestartsShape DEF Arm, At, Shapes
<1>2. todo'[t] = <<>>
  BY <1>1, One DEF Arm, Advance, Goto, TypeOK, Task
<1>3. \A u \in Task \ {t} : todo'[u] = todo[u]
  BY Elsewhere DEF Arm, Task
<1> QED
  BY <1>2, <1>3 DEF Shapes, LoopTodo, BleTodo, Task

LEMMA ShapesStep == TypeOK /\ Shapes /\ [Next]_vars => Shapes'
<1> SUFFICES ASSUME TypeOK, Shapes, [Next]_vars PROVE Shapes'
  OBVIOUS
<1>1. {"ev", "tm", "app", "ble"} = Task
  BY DEF Task
<1>2. CASE EventLoop
  <2>1. CASE StaDisconnected \/ Decide
    <3>1. todo'["ev"] \in LoopTodo
      BY <2>1 DEF StaDisconnected, Decide, Goto, Return, AfterRetries, LoopTodo, TypeOK, Task
    <3>2. \A u \in Task \ {"ev"} : todo'[u] = todo[u]
      BY <1>1, <2>1, Elsewhere DEF StaDisconnected, Decide
    <3> QED
      BY <3>1, <3>2 DEF Shapes, Task
  <2>2. CASE StaStart \/ StaStop \/ GotIp
    BY <2>2 DEF StaStart, StaStop, GotIp, Shapes
  <2> QED
    BY <1>1, <1>2, <2>1, <2>2, ShapesRetry, ShapesCalls, ShapesArm DEF EventLoop
<1>3. CASE Timer
  <2>1. CASE BackoffExpires
    <3>1. todo'["tm"] = <<"attempt_full">> /\ \A u \in Task \ {"tm"} : todo'[u] = todo[u]
      BY <1>1, <2>1, Elsewhere DEF BackoffExpires, Goto, TypeOK
    <3> QED
      BY <3>1 DEF Shapes, TimerTodo, Task
  <2> QED
    BY <1>1, <1>3, <2>1, ShapesRetry, ShapesCalls DEF Timer
<1>4. CASE Begin \/ Serve
  <2>1. CASE Calls("app")
    BY <1>1, <2>1, ShapesCalls
  <2>2. CASE ~ Calls("app")
    <3>1. \A u \in Task \ {"app"} : todo'[u] = todo[u]
      BY <1>1, <1>4, <2>2, Elsewhere DEF Begin, CallConnect, Reconnect, Kick, Serve, Start,
         StartFails, Join, JoinRefused, Connect, Prepare, Probe, WaitEnds, WaitTimesOut
    <3> QED
      BY <3>1 DEF Shapes, Task
  <2> QED
    BY <2>1, <2>2
<1>5. CASE Switch \/ Settle \/ Network
  <2>1. CASE Release \/ IfDown
    <3>1. todo'["ble"] \in BleTodo /\ \A u \in Task \ {"ble"} : todo'[u] = todo[u]
      BY <1>1, <2>1, Elsewhere DEF Release, IfDown, Goto, TypeOK, BleTodo
    <3> QED
      BY <3>1 DEF Shapes, Task
  <2>2. CASE Hold \/ AutoconnectOff \/ AutoconnectOn \/ Network
    BY <2>2 DEF Hold, AutoconnectOff, AutoconnectOn, Network, Associate, JoinFails, LinkLost, Shapes
  <2> QED
    BY <1>5, <2>1, <2>2, ShapesArm DEF Switch, Settle
<1>6. CASE \E t \in {"ev", "tm", "app"} : StopFails(t)
  BY <1>1, <1>6, ShapesCalls
<1>7. CASE UNCHANGED vars
  BY <1>7 DEF vars, Shapes
<1> QED
  BY <1>2, <1>3, <1>4, <1>5, <1>6, <1>7 DEF Next

-------------------------------------------------------------------------------
(* While the restarts run alone: what the restart of the moment relies on, *)
(* and who brings up the link that was asked for.                          *)

Doer == {"ev", "tm", "app"}
Reconnecting == {<<"disconnect", "stop", "mark", "connect">>, <<"stop", "mark", "connect">>,
                 <<"mark", "connect">>, <<"connect">>}
Starting == {<<"start", "wait">>, <<"start">>}

OrderInv ==
  orderly =>
    /\ RunReported <=> radio # "off"
    /\ \A t, u \in Doer : Restarting(t) /\ Restarting(u) => t = u
    /\ \A t \in Doer : At(t, "mark") => radio = "off"
    /\ todo["app"] \in Reconnecting => ~connected
    /\ todo["app"] \in Starting => ~started

Carried ==
  \/ Trying \/ LossComes \/ StartComes
  \/ \E t \in Doer : Restarting(t)
  \/ \E op \in {"retry", "restart", "attempt", "attempt_full", "arm"} : At("ev", op)
  \/ At("tm", "attempt_full")
  \/ At("app", "join")
  \/ At("ble", "arm") \/ (At("ble", "if_down") /\ ~connected)

CarryInv ==
  orderly /\ asked =>
    /\ autoconnect
    /\ radio = "off" => \E t \in Doer : Restarting(t)
    /\ \A t \in Doer : At(t, "bring") /\ radio = "off" => ~started
    /\ ~hold => Carried

Shaped == TypeOK /\ Shapes /\ todo["app"] \in AppTodo
Held == Shaped /\ LinkInv /\ OrderInv /\ CarryInv

(* A list of calls that ends a restart.                                    *)
Runs(s) == \E op \in {"mark", "bring", "connect", "probe", "start"} : \E i \in DOMAIN s : s[i] = op

LEMMA RunsFrom ==
  ASSUME NEW t \in Task
  PROVE  /\ Restarting(t) <=> Runs(todo[t])
         /\ Restarting(t)' <=> Runs(todo'[t])
BY DEF Restarting, Pending, Runs

LEMMA RunsOne ==
  ASSUME NEW op
  PROVE  Runs(<<op>>) <=> op \in {"mark", "bring", "connect", "probe", "start"}
<1>1. DOMAIN <<op>> = {1} /\ <<op>>[1] = op
  OBVIOUS
<1> QED
  BY <1>1 DEF Runs

LEMMA RunsNot == ~ Runs(<<>>) /\ ~ Runs(<<"join", "wait">>)
<1>1. DOMAIN <<"join", "wait">> = {1, 2} /\ <<"join", "wait">>[1] = "join"
      /\ <<"join", "wait">>[2] = "wait"
  OBVIOUS
<1> QED
  BY <1>1 DEF Runs

LEMMA RunsLong ==
  /\ \A s \in Restarts \cup Bringing \cup Starting : Runs(s)
  /\ Runs(Waiting) /\ Runs(<<"probe", "wait">>) /\ Runs(<<"start", "join", "wait">>)
<1>1. Runs(<<"disconnect", "stop", "mark", "bring">>) /\ Runs(<<"stop", "mark", "bring">>)
      /\ Runs(<<"mark", "bring">>) /\ Runs(<<"bring">>)
  BY DEF Runs
<1>2. Runs(<<"disconnect", "stop", "mark", "connect">>) /\ Runs(<<"stop", "mark", "connect">>)
      /\ Runs(<<"mark", "connect">>) /\ Runs(<<"connect">>)
  BY DEF Runs
<1>3. Runs(<<"disconnect", "stop", "mark", "start">>) /\ Runs(<<"stop", "mark", "start">>)
      /\ Runs(<<"mark", "start">>) /\ Runs(<<"start">>) /\ Runs(<<"start", "wait">>)
  BY DEF Runs
<1>4. Runs(Waiting) /\ Runs(<<"probe", "wait">>) /\ Runs(<<"start", "join", "wait">>)
  BY DEF Runs, Waiting
<1> QED
  BY <1>1, <1>2, <1>3, <1>4 DEF Restarts, Bringing, Starting

(* The first calls of a restart, by whatever task.                         *)
LEMMA CallsShape ==
  ASSUME NEW s \in Restarts \cup Bringing, Head(s) \in {"disconnect", "stop", "mark"}
  PROVE  /\ Runs(Tail(s)) /\ Tail(s) # <<>>
         /\ Head(Tail(s)) = "mark" => Head(s) = "stop"
         /\ Head(Tail(s)) = "bring" => Head(s) = "mark"
         /\ Tail(s) \in Reconnecting => s \in Reconnecting
         /\ Tail(s) \in Starting => Head(s) = "mark"
<1>1. CASE s = <<"disconnect", "stop", "mark", "bring">>
  <2>1. /\ Head(s) = "disconnect" /\ Tail(s) = <<"stop", "mark", "bring">>
        /\ Head(<<"stop", "mark", "bring">>) = "stop" /\ <<"stop", "mark", "bring">> # <<>>
    BY <1>1, Four, Three
  <2>2. Tail(s) \in Restarts \cup Bringing
    BY <2>1 DEF Restarts, Bringing
  <2> QED
    BY <1>1, <2>1, <2>2, RunsLong DEF Reconnecting, Starting
<1>2. CASE s = <<"stop", "mark", "bring">>
  <2>1. /\ Head(s) = "stop" /\ Tail(s) = <<"mark", "bring">>
        /\ Head(<<"mark", "bring">>) = "mark" /\ <<"mark", "bring">> # <<>>
    BY <1>2, Three, Two
  <2>2. Tail(s) \in Restarts \cup Bringing
    BY <2>1 DEF Restarts, Bringing
  <2> QED
    BY <1>2, <2>1, <2>2, RunsLong DEF Reconnecting, Starting
<1>3. CASE s = <<"mark", "bring">>
  <2>1. /\ Head(s) = "mark" /\ Tail(s) = <<"bring">>
        /\ Head(<<"bring">>) = "bring" /\ <<"bring">> # <<>>
    BY <1>3, Two, One
  <2>2. Tail(s) \in Restarts \cup Bringing
    BY <2>1 DEF Restarts, Bringing
  <2> QED
    BY <1>3, <2>1, <2>2, RunsLong DEF Reconnecting, Starting
<1>4. CASE s = <<"disconnect", "stop", "mark", "connect">>
  <2>1. /\ Head(s) = "disconnect" /\ Tail(s) = <<"stop", "mark", "connect">>
        /\ Head(<<"stop", "mark", "connect">>) = "stop" /\ <<"stop", "mark", "connect">> # <<>>
    BY <1>4, Four, Three
  <2>2. Tail(s) \in Restarts \cup Bringing
    BY <2>1 DEF Restarts, Bringing
  <2> QED
    BY <1>4, <2>1, <2>2, RunsLong DEF Reconnecting, Starting
<1>5. CASE s = <<"stop", "mark", "connect">>
  <2>1. /\ Head(s) = "stop" /\ Tail(s) = <<"mark", "connect">>
        /\ Head(<<"mark", "connect">>) = "mark" /\ <<"mark", "connect">> # <<>>
    BY <1>5, Three, Two
  <2>2. Tail(s) \in Restarts \cup Bringing
    BY <2>1 DEF Restarts, Bringing
  <2> QED
    BY <1>5, <2>1, <2>2, RunsLong DEF Reconnecting, Starting
<1>6. CASE s = <<"mark", "connect">>
  <2>1. /\ Head(s) = "mark" /\ Tail(s) = <<"connect">>
        /\ Head(<<"connect">>) = "connect" /\ <<"connect">> # <<>>
    BY <1>6, Two, One
  <2>2. Tail(s) \in Restarts \cup Bringing
    BY <2>1 DEF Restarts, Bringing
  <2> QED
    BY <1>6, <2>1, <2>2, RunsLong DEF Reconnecting, Starting
<1>7. CASE s = <<"disconnect", "stop", "mark", "start">>
  <2>1. /\ Head(s) = "disconnect" /\ Tail(s) = <<"stop", "mark", "start">>
        /\ Head(<<"stop", "mark", "start">>) = "stop" /\ <<"stop", "mark", "start">> # <<>>
    BY <1>7, Four, Three
  <2>2. Tail(s) \in Restarts \cup Bringing
    BY <2>1 DEF Restarts, Bringing
  <2> QED
    BY <1>7, <2>1, <2>2, RunsLong DEF Reconnecting, Starting
<1>8. CASE s = <<"stop", "mark", "start">>
  <2>1. /\ Head(s) = "stop" /\ Tail(s) = <<"mark", "start">>
        /\ Head(<<"mark", "start">>) = "mark" /\ <<"mark", "start">> # <<>>
    BY <1>8, Three, Two
  <2>2. Tail(s) \in Restarts \cup Bringing
    BY <2>1 DEF Restarts, Bringing
  <2> QED
    BY <1>8, <2>1, <2>2, RunsLong DEF Reconnecting, Starting
<1>9. CASE s = <<"mark", "start">>
  <2>1. /\ Head(s) = "mark" /\ Tail(s) = <<"start">>
        /\ Head(<<"start">>) = "start" /\ <<"start">> # <<>>
    BY <1>9, Two, One
  <2>2. Tail(s) \in Restarts \cup Bringing
    BY <2>1 DEF Restarts, Bringing
  <2> QED
    BY <1>9, <2>1, <2>2, RunsLong DEF Reconnecting, Starting
<1>10. CASE s \in {<<"bring">>, <<"connect">>, <<"start">>}
  BY <1>10, One
<1> QED
  BY <1>1, <1>2, <1>3, <1>4, <1>5, <1>6,
     <1>7, <1>8, <1>9, <1>10 DEF Restarts, Bringing

(* At such a place a restart is under way.                                 *)
LEMMA CallsPlace ==
  ASSUME Shaped, NEW t \in Doer, NEW op \in {"disconnect", "stop", "mark"}, At(t, op)
  PROVE  todo[t] \in Restarts \cup Bringing
<1>1. CASE t = "app"
  BY <1>1, AwaitingShape, WaitingShape DEF Shaped, AppTodo, At
<1>2. CASE t # "app"
  BY <1>2, LoopShape DEF Shaped, Shapes, Doer, Task, At
<1> QED
  BY <1>1, <1>2

LEMMA BringPlace ==
  ASSUME Shaped, NEW t \in Doer, At(t, "bring")
  PROVE  t # "app" /\ todo[t] = <<"bring">>
<1>1. t # "app"
  BY AwaitingShape, BringingShape, WaitingShape DEF Shaped, AppTodo, At
<1>2. todo[t] \in Restarts
  BY <1>1, LoopShape DEF Shaped, Shapes, Doer, Task, At
<1> QED
  BY <1>1, <1>2, Two, Three, Four DEF Restarts, At

LEMMA RestartPlaces ==
  ASSUME Shaped, NEW t \in Doer, At(t, "mark") \/ At(t, "bring")
  PROVE  Restarting(t)
<1>1. t \in Task /\ todo[t] \in Restarts \cup Bringing
  BY CallsPlace, BringPlace DEF Doer, Task, Restarts
<1> QED
  BY <1>1, RunsFrom, RunsLong

(* In an orderly step of one task no other restarts.                       *)
LEMMA StepAlone ==
  ASSUME NEW t \in Doer, Orderly(t), orderly'
  PROVE  orderly /\ \A u \in Doer \ {t} : ~ Restarting(u)
BY DEF Orderly, Alone, Doer, Task

(* So that a task that moves may rely on what follows, and owes it.        *)
Owes(t) ==
  /\ RunReported <=> radio # "off"
  /\ At(t, "mark") => radio = "off"
  /\ t = "app" /\ todo[t] \in Reconnecting => ~connected
  /\ t = "app" /\ todo[t] \in Starting => ~started
  /\ asked =>
       /\ autoconnect
       /\ radio = "off" => Restarting(t)
       /\ At(t, "bring") /\ radio = "off" => ~started
       /\ ~hold => Carried

LEMMA Relies ==
  ASSUME Held, NEW t \in Doer, Orderly(t), orderly'
  PROVE  Owes(t)
<1>1. orderly /\ \A u \in Doer \ {t} : ~ Restarting(u)
  BY StepAlone
<1> QED
  BY <1>1 DEF Held, OrderInv, CarryInv, Owes

Others(t) == \A u \in Task \ {t} : todo'[u] = todo[u]

LEMMA Moved ==
  ASSUME Shaped, NEW t \in Doer, Orderly(t), Others(t), orderly' => Owes(t)'
  PROVE  OrderInv' /\ CarryInv'
<1> SUFFICES ASSUME orderly' PROVE OrderInv' /\ CarryInv'
  BY DEF OrderInv, CarryInv
<1>1. Owes(t)'
  OBVIOUS
<1>2. \A u \in Doer \ {t} : u \in Task /\ ~ Restarting(u)
  BY StepAlone DEF Doer, Task
<1>3. \A u \in Doer \ {t} : ~ At(u, "mark") /\ ~ At(u, "bring")
  BY <1>2, RestartPlaces
<1>4. \A u \in Doer \ {t} : todo'[u] = todo[u]
  BY <1>2 DEF Others
<1>5. \A u \in Doer \ {t} : ~ Restarting(u)' /\ ~ At(u, "mark")' /\ ~ At(u, "bring")'
  BY <1>2, <1>3, <1>4 DEF Restarting, Pending, At
<1>6. t # "app" => todo'["app"] \notin Reconnecting \cup Starting
  <2> SUFFICES ASSUME t # "app" PROVE todo'["app"] \notin Reconnecting \cup Starting
    OBVIOUS
  <2>1. ~ Runs(todo'["app"])
    BY <1>5, RunsFrom DEF Doer, Task
  <2> QED
    BY <2>1, RunsLong DEF Reconnecting, Bringing
<1>7. OrderInv'
  BY <1>1, <1>5, <1>6 DEF OrderInv, Owes
<1>8. CarryInv'
  BY <1>1, <1>5 DEF CarryInv, Owes
<1> QED
  BY <1>7, <1>8

-------------------------------------------------------------------------------
(* Each step pays what its task owes.                                      *)

LEMMA Run ==
  ASSUME TypeOK
  PROVE  /\ RunReported /\ ~ started => StartComes
         /\ connected => LinkTold \/ LossComes
BY DEF RunReported, StartComes, LinkTold, LossComes, Says, TypeOK

LEMMA OwesCalls ==
  ASSUME Held, NEW t \in Doer, Calls(t), Owes(t)
  PROVE  Owes(t)' /\ Others(t)
<1>1. t \in Task /\ TypeOK
  BY DEF Doer, Task, Held, Shaped
<1>2. PICK op \in {"disconnect", "stop", "mark"} : At(t, op) /\ Advance(t)
  BY DEF Calls, Disconnect, Stop, Mark
<1>3. todo'[t] = Tail(todo[t]) /\ Others(t) /\ Head(todo[t]) = op
  BY <1>1, <1>2, AdvanceType DEF At, Others
<1>4. todo[t] \in Restarts \cup Bringing
  BY <1>2, CallsPlace DEF Held
<1>5. /\ Restarting(t)' /\ todo'[t] # <<>>
      /\ Head(todo'[t]) = "mark" => op = "stop"
      /\ Head(todo'[t]) = "bring" => op = "mark"
      /\ todo'[t] \in Reconnecting => todo[t] \in Reconnecting
      /\ todo'[t] \in Starting => op = "mark"
  BY <1>1, <1>3, <1>4, CallsShape, RunsFrom
<1>6. Carried'
  BY <1>5 DEF Carried
<1>7. UNCHANGED <<autoconnect, asked, connected>>
  BY DEF Calls, Disconnect, Stop, Mark, Stopped, appVars, linkVars
<1>8. /\ RunReported' <=> radio' # "off"
      /\ op = "stop" => radio' = "off"
      /\ op = "mark" => ~ started'
  <2>1. CASE Disconnect(t)
    <3>1. op = "disconnect"
      BY <1>2, <2>1 DEF Disconnect, At
    <3>2. (radio' = "off" <=> radio = "off") /\ UNCHANGED <<started, connected>>
      BY <2>1 DEF Disconnect, DriverDisconnect, linkVars
    <3>3. RunReported' <=> RunReported
      <4>1. CASE radio = "joined"
        BY <1>1, <2>1, <3>2, <4>1, Posted DEF Disconnect, DriverDisconnect, Event
      <4>2. CASE radio # "joined"
        BY <2>1, <3>2, <4>2 DEF Disconnect, DriverDisconnect, RunReported
      <4> QED
        BY <4>1, <4>2
    <3> QED
      BY <3>1, <3>2, <3>3 DEF Owes
  <2>2. CASE Stop(t)
    <3>1. op = "stop" /\ radio' = "off" /\ DriverStop /\ UNCHANGED <<started, connected>>
      BY <1>2, <2>2 DEF Stop, DriverStop, At, linkVars
    <3>2. ~ RunReported'
      <4>1. CASE radio = "off"
        BY <1>1, <3>1, <4>1, StopPosted DEF RunReported, Owes
      <4>2. CASE radio # "off"
        BY <1>1, <3>1, <4>2, StopPosted
      <4> QED
        BY <4>1, <4>2
    <3> QED
      BY <3>1, <3>2
  <2>3. CASE Mark(t)
    <3>1. op = "mark" /\ UNCHANGED <<radio, events>> /\ started' = FALSE
      BY <1>2, <2>3 DEF Mark, Stopped, At, driverVars
    <3>2. radio = "off" /\ ~ RunReported
      BY <1>2, <3>1 DEF Owes
    <3>3. RunReported' => RunReported
      BY <3>1 DEF RunReported, Says
    <3> QED
      BY <3>1, <3>2, <3>3
  <2> QED
    BY <2>1, <2>2, <2>3 DEF Calls
<1> QED
  BY <1>3, <1>5, <1>6, <1>7, <1>8 DEF Owes, At

LEMMA OwesRetry ==
  ASSUME Held, NEW t \in {"ev", "tm"}, Retry(t), Owes(t)
  PROVE  Owes(t)' /\ Others(t)
<1>1. t \in Task /\ t \in Doer /\ t # "app" /\ TypeOK /\ Shaped /\ Shapes
  BY DEF Doer, Task, Held, Shaped
<1>2. started \in BOOLEAN /\ UNCHANGED <<hold, autoconnect, started, connected>>
  BY <1>1 DEF TypeOK, Retry, Attempt, Bring, BringFails, appVars, linkVars
<1>3. CASE Attempt(t)
  <2>1. todo[t] = <<"attempt">> \/ todo[t] = <<"attempt_full">>
    BY <1>1, <1>3, LoopShape, RestartsShape DEF Attempt, At, Shapes
  <2>2. ~ Restarting(t)
    BY <1>1, <2>1, RunsOne, RunsFrom
  <2>3. /\ todo'[t] \in {<<>>, Restart, <<"bring">>} /\ Others(t)
        /\ todo'[t] = <<>> => ~ MayRetry
    BY <1>1, <1>3 DEF Attempt, Goto, TypeOK, Others, Restart
  <2>4. todo'[t] # <<>> => Restarting(t)'
    BY <1>1, <2>3, RunsFrom, RunsLong DEF Restart, Restarts
  <2>5. ~ At(t, "mark")'
    BY <2>3, One, Four DEF At, Restart
  <2>6. UNCHANGED <<radio, events, asked>>
    BY <1>3 DEF Attempt, driverVars
  <2>7. RunReported' <=> RunReported
    BY <1>2, <2>6 DEF RunReported
  <2>8. asked => radio # "off" /\ autoconnect
    BY <2>2 DEF Owes
  <2>9. asked' /\ ~ hold' => Carried'
    BY <1>1, <1>2, <2>3, <2>4, <2>6, <2>8 DEF MayRetry, Carried
  <2> QED
    BY <1>1, <1>2, <2>3, <2>5, <2>6, <2>7, <2>8, <2>9 DEF Owes
<1>4. CASE Bring(t) \/ BringFails(t)
  <2>1. At(t, "bring") /\ todo'[t] = <<>> /\ Others(t)
    BY <1>1, <1>4, ReturnType DEF Bring, BringFails, Others
  <2>2. ~ At(t, "mark")' /\ ~ At(t, "bring")'
    BY <2>1 DEF At
  <2>3. CASE BringFails(t)
    <3>1. RunReported' <=> RunReported
      BY <1>2, <2>3 DEF BringFails, driverVars, RunReported
    <3>2. radio' = radio /\ ~ asked'
      BY <2>3 DEF BringFails, driverVars
    <3> QED
      BY <1>1, <2>1, <2>2, <3>1, <3>2 DEF Owes
  <2>4. CASE Bring(t) /\ started
    <3>1. UNCHANGED <<events, asked>> /\ radio' = IF radio = "idle" THEN "joining" ELSE radio
      BY <2>4 DEF Bring, DriverConnect
    <3>2. RunReported' <=> RunReported
      BY <1>2, <3>1 DEF RunReported
    <3>3. asked => radio # "off"
      BY <2>1, <2>4 DEF Owes
    <3>4. asked' => radio' \in {"joining", "joined"}
      BY <1>1, <3>1, <3>3 DEF TypeOK
    <3>5. (radio' = "off" <=> radio = "off") /\ (asked' => Carried')
      BY <3>1, <3>4 DEF Carried, Trying
    <3> QED
      BY <1>1, <1>2, <2>1, <2>2, <3>1, <3>2, <3>4, <3>5 DEF Owes
  <2>5. CASE Bring(t) /\ ~ started
    <3>1. asked' = asked /\ DriverStart
      BY <2>5 DEF Bring
    <3>2. RunReported' /\ radio' # "off" /\ StartComes'
      <4>1. CASE radio = "off"
        BY <1>1, <1>2, <3>1, <4>1, Posted DEF DriverStart, Event
      <4>2. CASE radio # "off"
        <5>1. UNCHANGED <<radio, events>> /\ RunReported
          BY <3>1, <4>2 DEF DriverStart, driverVars, Owes
        <5>2. StartComes
          BY <1>1, <2>5, <5>1, Run
        <5> QED
          BY <1>2, <4>2, <5>1, <5>2 DEF RunReported, StartComes
      <4> QED
        BY <4>1, <4>2
    <3>3. Carried'
      BY <3>2 DEF Carried
    <3> QED
      BY <1>1, <1>2, <2>1, <2>2, <3>1, <3>2, <3>3 DEF Owes
  <2> QED
    BY <1>2, <1>4, <2>3, <2>4, <2>5
<1> QED
  BY <1>3, <1>4 DEF Retry

(* A step of the event loop or the timer that is not part of a restart.    *)
LEMMA OwesRest ==
  ASSUME Held, NEW t \in {"ev", "tm"}, Owes(t),
         todo[t] = <<>> \/ \E op \in Op \ {"mark", "bring", "connect", "probe", "start"} : todo[t] = <<op>>,
         todo'[t] = <<>> \/ \E op \in Op \ {"mark", "bring"} : todo'[t] = <<op>>,
         radio' = "off" <=> radio = "off", RunReported' <=> RunReported,
         autoconnect' = autoconnect, asked' => asked,
         autoconnect /\ asked' /\ radio # "off" /\ ~ hold' => Carried'
  PROVE  Owes(t)'
<1>1. t \in Task /\ t # "app"
  BY DEF Task
<1>2. ~ Restarting(t)
  BY <1>1, RunsFrom, RunsNot, RunsOne
<1>3. ~ At(t, "mark")' /\ ~ At(t, "bring")'
  BY One DEF At
<1> QED
  BY <1>1, <1>2, <1>3 DEF Owes

LEMMA OwesEvents ==
  ASSUME Held, EventLoop, Owes("ev")
  PROVE  Owes("ev")' /\ Others("ev")
<1>1. /\ TypeOK /\ Shapes /\ "ev" \in Task /\ "ev" \in Doer
      /\ started \in BOOLEAN /\ connected \in BOOLEAN
  BY DEF Doer, Task, Held, Shaped, TypeOK
<1>2. CASE StaStart
  <2>1. /\ Handles("START") /\ started' = TRUE
        /\ UNCHANGED <<connected, autoconnect, hold, todo>> /\ todo["ev"] = <<>>
    BY <1>2 DEF StaStart, Handles, Idle, appVars
  <2>2. RunReported' <=> RunReported
    BY <1>1, <2>1, Heard DEF Down, Lost
  <2>3. (radio' = "off" <=> radio = "off") /\ (asked' => asked)
    BY <1>2 DEF StaStart, StationJoins
  <2>4. autoconnect /\ asked' /\ radio # "off" => Carried'
    <3> SUFFICES ASSUME autoconnect, asked', radio # "off" PROVE Trying'
      BY DEF Carried
    <3> QED
      BY <1>1, <1>2 DEF StaStart, StationJoins, Trying, TypeOK
  <2> QED
    BY <2>1, <2>2, <2>3, <2>4, OwesRest DEF Others
<1>3. CASE StaStop
  <2>1. /\ Handles("STOP") /\ started' = FALSE /\ connected' = FALSE
        /\ UNCHANGED <<radio, autoconnect, hold, todo, asked>> /\ todo["ev"] = <<>>
    BY <1>3 DEF StaStop, Handles, Idle, appVars
  <2>2. RunReported' <=> RunReported
    BY <1>1, <2>1, Heard DEF Down, Lost
  <2>3. radio # "off" => Carried'
    <3>1. RunReported' /\ ~ started' => StartComes'
      BY <2>1 DEF RunReported, StartComes, Says
    <3> QED
      BY <2>1, <2>2, <3>1 DEF Owes, Carried
  <2> QED
    BY <2>1, <2>2, <2>3, OwesRest DEF Others
<1>4. CASE StaDisconnected
  <2>1. PICK e \in Lost : Handles(e) /\ connected' = FALSE /\ started' = started
    BY <1>4 DEF StaDisconnected, Lost
  <2>2. /\ UNCHANGED <<radio, autoconnect, asked>> /\ todo["ev"] = <<>>
        /\ todo'["ev"] \in {<<"restart">>, <<"retry">>} /\ Others("ev")
    BY <1>1, <1>4 DEF StaDisconnected, Handles, Idle, appVars, Goto, TypeOK, Others
  <2>3. RunReported' <=> RunReported
    BY <1>1, <2>1, Heard DEF Down, Lost
  <2>4. Carried'
    BY <2>2, One DEF Carried, At
  <2>5. \E op \in Op \ {"mark", "bring"} : todo'["ev"] = <<op>>
    BY <2>2 DEF Op
  <2> QED
    BY <2>2, <2>3, <2>4, <2>5, OwesRest
<1>5. CASE GotIp
  <2>1. /\ Handles("GOT_IP") /\ connected' = TRUE /\ started' = started
        /\ UNCHANGED <<radio, autoconnect, hold, todo, asked>> /\ todo["ev"] = <<>>
    BY <1>5 DEF GotIp, Handles, Idle, appVars
  <2>2. (RunReported' <=> RunReported) /\ (LinkTold \/ LossComes')
    BY <1>1, <2>1, Heard DEF Down, Lost
  <2>3. Carried'
    <3>1. LinkTold => Trying'
      BY <2>1 DEF Held, LinkInv, Trying
    <3> QED
      BY <2>2, <3>1 DEF Carried
  <2> QED
    BY <2>1, <2>2, <2>3, OwesRest DEF Others
<1>6. CASE Decide
  <2>1. todo["ev"] = <<"retry">> \/ todo["ev"] = <<"restart">>
    BY <1>1, <1>6, LoopShape, RestartsShape DEF Decide, At, Shapes
  <2>2. /\ todo'["ev"] \in {<<>>, <<"attempt_full">>, <<"attempt">>, <<"arm">>} /\ Others("ev")
        /\ todo'["ev"] = <<>> => ~ MayRetry
    <3>1. PICK ops \in {<<>>, <<"attempt_full">>, <<"attempt">>, <<"arm">>} :
            Goto("ev", ops) /\ (ops = <<>> => ~ MayRetry)
      BY <1>6 DEF Decide, Return, AfterRetries
    <3> QED
      BY <1>1, <3>1 DEF Goto, TypeOK, Others
  <2>3. /\ UNCHANGED <<radio, autoconnect, hold, asked>>
        /\ RunReported' <=> RunReported
    BY <1>6 DEF Decide, driverVars, appVars, RunReported
  <2>4. autoconnect /\ ~ hold' => Carried'
    BY <2>2, <2>3, One DEF MayRetry, Carried, At
  <2>5. todo'["ev"] = <<>> \/ \E op \in Op \ {"mark", "bring"} : todo'["ev"] = <<op>>
    BY <2>2 DEF Op
  <2>6. \E op \in Op \ {"mark", "bring", "connect", "probe", "start"} : todo["ev"] = <<op>>
    BY <2>1 DEF Op
  <2> QED
    BY <2>2, <2>3, <2>4, <2>5, <2>6, OwesRest
<1>7. CASE Arm("ev")
  <2>1. todo["ev"] = <<"arm">> /\ Advance("ev") /\ backoff' = TRUE
    BY <1>1, <1>7, LoopShape, RestartsShape DEF Arm, At, Shapes
  <2>2. todo'["ev"] = <<>> /\ Others("ev")
    BY <1>1, <2>1, One DEF Advance, Goto, TypeOK, Others
  <2>3. /\ UNCHANGED <<radio, autoconnect, asked>>
        /\ RunReported' <=> RunReported
    BY <1>7 DEF Arm, driverVars, appVars, RunReported
  <2>4. Carried'
    BY <2>1 DEF Carried, Trying
  <2>5. \E op \in Op \ {"mark", "bring", "connect", "probe", "start"} : todo["ev"] = <<op>>
    BY <2>1 DEF Op
  <2> QED
    BY <2>2, <2>3, <2>4, <2>5, OwesRest
<1> QED
  BY <1>1, <1>2, <1>3, <1>4, <1>5, <1>6, <1>7, OwesRetry, OwesCalls DEF EventLoop

LEMMA OwesTimer ==
  ASSUME Held, Timer, Owes("tm")
  PROVE  Owes("tm")' /\ Others("tm")
<1>1. TypeOK /\ "tm" \in Task /\ "tm" \in Doer
  BY DEF Doer, Task, Held, Shaped
<1>2. CASE BackoffExpires
  <2>1. todo["tm"] = <<>> /\ todo'["tm"] = <<"attempt_full">> /\ Others("tm")
    BY <1>1, <1>2 DEF BackoffExpires, Idle, Goto, TypeOK, Others
  <2>2. /\ UNCHANGED <<radio, autoconnect, asked>>
        /\ RunReported' <=> RunReported
    BY <1>2 DEF BackoffExpires, driverVars, appVars, RunReported
  <2>3. Carried'
    BY <2>1, One DEF Carried, At
  <2>4. \E op \in Op \ {"mark", "bring"} : todo'["tm"] = <<op>>
    BY <2>1 DEF Op
  <2> QED
    BY <2>1, <2>2, <2>3, <2>4, OwesRest
<1> QED
  BY <1>1, <1>2, OwesRetry, OwesCalls DEF Timer

LEMMA OwesBegin ==
  ASSUME Held, Begin, Owes("app")
  PROVE  Owes("app")' /\ Others("app")
<1>1. TypeOK /\ "app" \in Task /\ "app" \in Doer
  BY DEF Doer, Task, Held, Shaped
<1>2. /\ UNCHANGED <<radio, events, started, autoconnect, asked>>
      /\ todo'["app"] \in {Waiting, <<"disconnect", "stop", "mark", "connect">>,
                           <<"disconnect", "stop", "mark", "start">>}
      /\ todo'["app"] # Waiting => ~ connected'
      /\ Others("app")
  BY <1>1 DEF Begin, CallConnect, Reconnect, Kick, driverVars, linkVars, appVars, Goto, TypeOK, Others
<1>3. Head(todo'["app"]) \in {"prepare", "disconnect"}
  BY <1>2, WaitingShape, Four
<1>4. Restarting("app")'
  BY <1>1, <1>2, RunsFrom, RunsLong DEF Bringing
<1>5. Carried' /\ (RunReported' <=> RunReported)
  BY <1>1, <1>2, <1>4 DEF Carried, RunReported
<1>6. Waiting \notin Reconnecting /\ todo'["app"] \notin Starting
  <2>1. \A s \in Starting : Head(s) = "start"
    BY One, Two DEF Starting
  <2>2. Waiting \notin Bringing /\ Reconnecting \subseteq Bringing
    BY BringingShape DEF Reconnecting, Bringing
  <2> QED
    BY <1>3, <2>1, <2>2
<1> QED
  BY <1>2, <1>3, <1>4, <1>5, <1>6 DEF Owes, At

LEMMA OwesServe ==
  ASSUME Held, Shaped', Serve, Owes("app")
  PROVE  Owes("app")' /\ Others("app")
<1>1. /\ TypeOK /\ "app" \in Task /\ "app" \in Doer
      /\ started \in BOOLEAN
      /\ todo["app"] \in {<<>>, Waiting} \cup Awaiting \cup Bringing
      /\ todo'["app"] \in {<<>>, Waiting} \cup Awaiting \cup Bringing
  BY DEF Doer, Task, Held, Shaped, TypeOK, AppTodo
<1>2. \A op \in {"mark", "bring"}, s \in {<<>>, Waiting} \cup Awaiting : s # <<>> => Head(s) # op
  BY WaitingShape, AwaitingShape
<1>3. (\A s \in Reconnecting : s \in Bringing) /\ (\A s \in Starting : Head(s) = "start" /\ s # <<>>)
  BY One, Two DEF Starting, Reconnecting, Bringing
<1>4. CASE Connect \/ Prepare \/ Probe
  <2>1. UNCHANGED <<radio, events, started, connected, autoconnect, asked>>
    BY <1>4 DEF Connect, Prepare, Probe, driverVars, linkVars, appVars
  <2>2. Others("app")
    BY <1>1, <1>4, AdvanceType DEF Connect, Prepare, Probe, Goto, TypeOK, Others, At
  <2>3. todo'["app"] \in {Waiting, <<"probe", "wait">>, <<"start", "join", "wait">>, <<"start", "wait">>}
        /\ (todo'["app"] = <<"start", "wait">> => ~ started)
    <3>1. CASE Connect
      <4>1. todo["app"] = <<"connect">>
        BY <1>1, <3>1, WaitingShape, AwaitingShape, Two, Three, Four DEF Connect, At, Bringing
      <4>2. ~ connected
        BY <4>1 DEF Owes, Reconnecting
      <4>3. todo'["app"] = Waiting
        BY <1>1, <3>1, <4>2 DEF Connect, Goto, TypeOK
      <4> QED
        BY <4>3, WaitingShape, Two
    <3>2. CASE Prepare
      <4>1. todo["app"] = Waiting
        BY <1>1, <3>2, AwaitingShape, BringingShape DEF Prepare, At
      <4>2. todo'["app"] = <<"probe", "wait">>
        BY <1>1, <3>2, <4>1, WaitingShape, AdvanceType DEF Prepare, At
      <4> QED
        BY <4>2, Two
    <3>3. CASE Probe
      BY <1>1, <3>3, Two, Three DEF Probe, Goto, TypeOK
    <3> QED
      BY <1>4, <3>1, <3>2, <3>3
  <2>4. Restarting("app")'
    BY <1>1, <2>3, RunsFrom, RunsLong DEF Starting
  <2>5. Carried' /\ (RunReported' <=> RunReported)
    BY <1>1, <2>1, <2>4 DEF Carried, RunReported
  <2>6. todo'["app"] \in {Waiting} \cup Awaiting
    BY <2>3 DEF Awaiting
  <2>7. ~ At("app", "mark")' /\ ~ At("app", "bring")'
    BY <1>2, <2>6 DEF At
  <2>8. todo'["app"] \notin Reconnecting
    <3>1. \A s \in Reconnecting : Head(s) \in {"disconnect", "stop", "mark", "connect"}
      BY One, Two, Three, Four DEF Reconnecting
    <3>2. Head(todo'["app"]) \in {"prepare", "probe", "start"}
      BY <2>3, WaitingShape, Two, Three
    <3> QED
      BY <3>1, <3>2
  <2>9. todo'["app"] \in Starting => ~ started'
    BY <2>1, <2>3, WaitingShape, Two, Three, One DEF Starting
  <2> QED
    BY <2>1, <2>2, <2>4, <2>5, <2>7, <2>8, <2>9 DEF Owes
<1>5. CASE ~ (Connect \/ Prepare \/ Probe \/ Calls("app"))
  <2>1. todo["app"] \in {<<"start", "join", "wait">>, <<"start", "wait">>, <<"start">>,
                         <<"join", "wait">>, <<"wait">>}
    <3>1. todo["app"] # <<>> /\ Head(todo["app"]) \in {"start", "join", "wait"}
      BY <1>5 DEF Serve, Start, StartFails, Join, JoinRefused, WaitEnds, WaitTimesOut, At
    <3>2. CASE todo["app"] \in Bringing
      BY <3>1, <3>2, Two, Three, Four DEF Bringing
    <3> QED
      BY <1>1, <3>1, <3>2, WaitingShape, Two DEF Awaiting
  <2>2. /\ todo'["app"] = <<>> \/ (todo'["app"] = Tail(todo["app"]) /\ ~ StartFails)
        /\ Others("app")
    BY <1>1, <1>5, AdvanceType, ReturnType DEF Serve, Start, StartFails, Join, JoinRefused, WaitEnds,
       WaitTimesOut, At, Others
  <2>3. todo'["app"] \in {<<>>, <<"wait">>, <<"join", "wait">>}
    <3>1. Tail(todo["app"]) \in {<<>>, <<"wait">>, <<"join", "wait">>}
      <4>1. /\ Tail(<<"start", "join", "wait">>) = <<"join", "wait">>
            /\ Tail(<<"start", "wait">>) = <<"wait">> /\ Tail(<<"join", "wait">>) = <<"wait">>
            /\ Tail(<<"start">>) = <<>> /\ Tail(<<"wait">>) = <<>>
        BY One, Two, Three
      <4> QED
        BY <2>1, <4>1
    <3> QED
      BY <2>2, <3>1
  <2>4. /\ ~ At("app", "mark")' /\ ~ At("app", "bring")'
        /\ todo'["app"] \notin Reconnecting /\ todo'["app"] \notin Starting
    BY <2>3, One, Two DEF At, Reconnecting, Starting
  <2>5. UNCHANGED <<started, connected, autoconnect, hold>>
    BY <1>5 DEF Serve, Start, StartFails, Join, JoinRefused, WaitEnds, WaitTimesOut, linkVars, appVars
  <2>6. CASE StartFails \/ JoinRefused
    <3>1. UNCHANGED <<radio, events>> /\ ~ asked'
      BY <2>6 DEF StartFails, JoinRefused, driverVars
    <3>2. RunReported' <=> RunReported
      BY <2>5, <3>1 DEF RunReported
    <3> QED
      BY <2>2, <2>4, <3>1, <3>2 DEF Owes
  <2>7. CASE Start
    <3>1. /\ DriverStart /\ todo'["app"] = Tail(todo["app"]) /\ Head(todo["app"]) = "start"
          /\ asked' => asked \/ autoconnect
      BY <1>1, <2>7, AdvanceType DEF Start, At
    <3>2. RunReported' /\ radio' # "off" /\ (~ started => StartComes')
      <4>1. CASE radio = "off"
        BY <1>1, <2>5, <3>1, <4>1, Posted DEF DriverStart, Event
      <4>2. CASE radio # "off"
        <5>1. UNCHANGED <<radio, events>> /\ RunReported
          BY <3>1, <4>2 DEF DriverStart, driverVars, Owes
        <5>2. ~ started => StartComes
          BY <1>1, <5>1, Run
        <5> QED
          BY <2>5, <4>2, <5>1, <5>2 DEF RunReported, StartComes
      <4> QED
        BY <4>1, <4>2
    <3>3. At("app", "join")' \/ ~ started
      <4>1. CASE todo["app"] = <<"start", "join", "wait">>
        BY <3>1, <4>1, Three, Two DEF At
      <4>2. CASE todo["app"] \in Starting
        BY <4>2 DEF Owes
      <4> QED
        BY <2>1, <3>1, <4>1, <4>2, Two, One DEF Starting
    <3>4. Carried'
      BY <3>2, <3>3 DEF Carried
    <3>5. asked' => autoconnect'
      BY <2>5, <3>1 DEF Owes
    <3> QED
      BY <2>2, <2>4, <3>2, <3>4, <3>5 DEF Owes
  <2>8. CASE Join \/ WaitEnds \/ WaitTimesOut
    <3>1. todo["app"] \in {<<"join", "wait">>, <<"wait">>}
      BY <2>1, <2>8, Two, Three, One DEF Join, WaitEnds, WaitTimesOut, At
    <3>2. ~ Restarting("app")
      BY <1>1, <3>1, RunsFrom, RunsNot, RunsOne
    <3>3. /\ UNCHANGED <<events, asked>> /\ (radio' = "off" <=> radio = "off")
          /\ RunReported' <=> RunReported
      BY <2>5, <2>8 DEF Join, DriverConnect, WaitEnds, WaitTimesOut, driverVars, RunReported
    <3>4. asked => radio # "off" /\ autoconnect
      BY <3>2 DEF Owes
    <3>5. asked' /\ ~ hold' => Carried'
      <4> SUFFICES ASSUME asked, ~ hold, Carried PROVE Carried'
        BY <2>5, <3>3 DEF Owes
      <4>1. CASE Join
        <5>1. radio' \in {"joining", "joined"}
          BY <1>1, <3>4, <4>1 DEF Join, DriverConnect, TypeOK
        <5> QED
          BY <5>1 DEF Carried, Trying
      <4>2. CASE WaitEnds \/ WaitTimesOut
        <5>1. /\ UNCHANGED <<radio, events, backoff, connected>> /\ todo["app"] # <<>>
              /\ Head(todo["app"]) = "wait"
          BY <4>2 DEF WaitEnds, WaitTimesOut, driverVars, linkVars, At
        <5>2. (Trying => Trying') /\ (LossComes => LossComes') /\ (StartComes => StartComes')
          BY <5>1 DEF Trying, LossComes, StartComes
        <5>3. \A u \in {"ev", "tm", "ble"} : todo'[u] = todo[u]
          BY <2>2 DEF Others, Task
        <5>4. \A u \in {"ev", "tm"} : Restarting(u) => Restarting(u)'
          BY <5>3 DEF Restarting, Pending
        <5>5. (\E u \in Doer : Restarting(u)) => \E u \in Doer : Restarting(u)'
          BY <3>2, <5>4 DEF Doer
        <5>6. ~ At("app", "join")
          BY <5>1 DEF At
        <5>7. \A u \in {"ev", "tm", "ble"}, op \in Op : At(u, op) => At(u, op)'
          BY <5>3 DEF At
        <5>8. {"retry", "restart", "attempt", "attempt_full", "arm", "if_down"} \subseteq Op
          BY DEF Op
        <5> QED
          BY <5>1, <5>2, <5>5, <5>6, <5>7, <5>8 DEF Carried
      <4> QED
        BY <2>8, <4>1, <4>2
    <3> QED
      BY <2>2, <2>4, <2>5, <3>3, <3>4, <3>5 DEF Owes
  <2> QED
    BY <1>5, <2>6, <2>7, <2>8 DEF Serve
<1> QED
  BY <1>1, <1>4, <1>5, OwesCalls

(* The network and the BLE task restart nothing.                           *)
LEMMA Beside ==
  ASSUME Held, UNCHANGED <<orderly, started, connected>>, \A t \in Doer : todo'[t] = todo[t],
         radio' = "off" <=> radio = "off", RunReported' <=> RunReported,
         orderly /\ asked' => asked /\ autoconnect',
         orderly /\ asked /\ asked' /\ ~ hold' => Carried'
  PROVE  OrderInv' /\ CarryInv'
<1>1. \A t \in Doer : /\ Restarting(t)' <=> Restarting(t)
                      /\ At(t, "mark")' <=> At(t, "mark")
                      /\ At(t, "bring")' <=> At(t, "bring")
  BY DEF Restarting, Pending, At
<1>2. todo'["app"] = todo["app"]
  BY DEF Doer
<1>3. OrderInv'
  <2>1. OrderInv
    BY DEF Held
  <2> QED
    BY <1>1, <1>2, <2>1 DEF OrderInv
<1>4. CarryInv'
  <2>1. CarryInv
    BY DEF Held
  <2> QED
    BY <1>1, <2>1 DEF CarryInv
<1> QED
  BY <1>3, <1>4

(* Of those that carry the link only the BLE task has moved.               *)
LEMMA CarriedBeside ==
  ASSUME Carried, UNCHANGED <<radio, events, backoff, connected>>,
         \A t \in Doer : todo'[t] = todo[t], At("ble", "arm") => At("ble", "arm")',
         At("ble", "if_down") => At("ble", "if_down")'
  PROVE  Carried'
<1>1. (Trying => Trying') /\ (LossComes => LossComes') /\ (StartComes => StartComes')
  BY DEF Trying, LossComes, StartComes
<1>2. \A t \in Doer : Restarting(t) => Restarting(t)'
  BY DEF Restarting, Pending
<1>3. "ev" \in Doer /\ "tm" \in Doer /\ "app" \in Doer
  BY DEF Doer
<1>4. \A t \in Doer : \A op : At(t, op) => At(t, op)'
  BY DEF At
<1> QED
  BY <1>1, <1>2, <1>3, <1>4 DEF Carried

LEMMA BesideBle ==
  ASSUME Held, Switch \/ Settle, UNCHANGED orderly
  PROVE  OrderInv' /\ CarryInv'
<1>1. /\ TypeOK /\ LinkInv /\ Shapes /\ "ble" \in Task /\ Doer \subseteq Task \ {"ble"}
      /\ autoconnect \in BOOLEAN
  BY DEF Held, Shaped, Task, Doer, TypeOK
<1>2. UNCHANGED <<radio, events, started, connected>>
  BY DEF Switch, Settle, Hold, Release, AutoconnectOff, AutoconnectOn, IfDown, Arm, driverVars, linkVars
<1>3. RunReported' <=> RunReported
  BY <1>2 DEF RunReported
<1>4. \A t \in Doer : todo'[t] = todo[t]
  BY <1>1, Elsewhere DEF Switch, Settle, Hold, Release, AutoconnectOff, AutoconnectOn, IfDown, Arm
<1>5. orderly /\ asked => autoconnect
  BY DEF Held, CarryInv
  (* An address nobody has lost is that of a link which is up.             *)
<1>6. connected => Carried'
  <2>1. connected => radio' = "joined" \/ LossComes'
    BY <1>1, <1>2, Run DEF LinkInv, LossComes
  <2> QED
    BY <2>1 DEF Carried, Trying
<1>7. CASE Hold
  BY <1>2, <1>3, <1>4, <1>5, <1>7, Beside DEF Hold
<1>8. CASE Release
  <2>1. todo'["ble"] = <<"if_down">> /\ UNCHANGED <<asked, autoconnect>>
    BY <1>1, <1>8 DEF Release, Goto, TypeOK
  <2>2. ~ connected => Carried'
    BY <1>2, <2>1, One DEF Carried, At
  <2> QED
    BY <1>2, <1>3, <1>4, <1>5, <1>6, <2>1, <2>2, Beside
<1>9. CASE IfDown
  <2>1. todo'["ble"] = (IF connected \/ ~ autoconnect THEN <<>> ELSE <<"arm">>)
    BY <1>1, <1>9 DEF IfDown, Goto, TypeOK
  <2>2. UNCHANGED <<asked, autoconnect>>
    BY <1>9 DEF IfDown, appVars
  <2>3. ~ connected /\ autoconnect => Carried'
    BY <2>1, One DEF Carried, At
  <2> QED
    BY <1>2, <1>3, <1>4, <1>5, <1>6, <2>2, <2>3, Beside
<1>10. CASE Arm("ble")
  <2>1. backoff' = TRUE /\ UNCHANGED <<asked, autoconnect>>
    BY <1>10 DEF Arm, appVars
  <2>2. Carried'
    BY <2>1 DEF Carried, Trying
  <2> QED
    BY <1>2, <1>3, <1>4, <1>5, <2>1, <2>2, Beside
<1>11. CASE AutoconnectOff
  BY <1>2, <1>3, <1>4, <1>11, Beside DEF AutoconnectOff
<1>12. CASE AutoconnectOn
  BY <1>2, <1>3, <1>4, <1>5, <1>12, Beside DEF AutoconnectOn
<1> QED
  BY <1>7, <1>8, <1>9, <1>10, <1>11, <1>12 DEF Switch, Settle

LEMMA BesideNetwork ==
  ASSUME Held, Network, UNCHANGED orderly
  PROVE  OrderInv' /\ CarryInv'
<1>1. TypeOK /\ Lost \subseteq Event /\ "GOT_IP" \in Event /\ (orderly /\ asked => autoconnect)
  BY DEF Held, Shaped, Lost, Event, CarryInv
<1>2. UNCHANGED <<started, connected, todo, asked, autoconnect>>
  BY DEF Network, Associate, JoinFails, LinkLost, linkVars, appVars
<1>3. CASE Associate
  <2>1. radio' = "joined" /\ events' = Append(events, "GOT_IP") /\ radio # "off"
    BY <1>3 DEF Associate
  <2>2. RunReported' <=> RunReported
    BY <1>1, <1>2, <2>1, Posted
  <2>3. Carried'
    BY <2>1 DEF Carried, Trying
  <2> QED
    BY <1>1, <1>2, <2>1, <2>2, <2>3, Beside
<1>4. CASE JoinFails \/ LinkLost
  <2>1. PICK e \in Lost : events' = Append(events, e)
    BY <1>4 DEF JoinFails, LinkLost, Lost
  <2>2. (RunReported' <=> RunReported) /\ LossComes'
    BY <1>1, <1>2, <2>1, Posted DEF Lost
  <2>3. radio' = "idle" /\ radio # "off"
    BY <1>4 DEF JoinFails, LinkLost
  <2>4. Carried'
    BY <2>2 DEF Carried
  <2> QED
    BY <1>1, <1>2, <2>2, <2>3, <2>4, Beside
<1> QED
  BY <1>3, <1>4 DEF Network

LEMMA CarryStep ==
  ASSUME Held, Shaped', [Next]_vars
  PROVE  OrderInv' /\ CarryInv'
<1>1. Shaped /\ {"ev", "tm", "app"} = Doer
  BY DEF Held, Doer
<1>2. CASE EventLoop /\ Orderly("ev")
  <2>1. orderly' => Owes("ev")' /\ Others("ev")
    BY <1>1, <1>2, Relies, OwesEvents
  <2> QED
    BY <1>1, <1>2, <2>1, Moved DEF OrderInv, CarryInv
<1>3. CASE Timer /\ Orderly("tm")
  <2>1. orderly' => Owes("tm")' /\ Others("tm")
    BY <1>1, <1>3, Relies, OwesTimer
  <2> QED
    BY <1>1, <1>3, <2>1, Moved DEF OrderInv, CarryInv
<1>4. CASE (Begin \/ Serve) /\ Orderly("app")
  <2>1. orderly' => Owes("app")' /\ Others("app")
    BY <1>1, <1>4, Relies, OwesBegin, OwesServe
  <2> QED
    BY <1>1, <1>4, <2>1, Moved DEF OrderInv, CarryInv
<1>5. CASE (Switch \/ Settle \/ Network) /\ UNCHANGED orderly
  BY <1>5, BesideBle, BesideNetwork
<1>6. CASE \E t \in {"ev", "tm", "app"} : StopFails(t)
  BY <1>6 DEF StopFails, OrderInv, CarryInv
<1>7. CASE UNCHANGED vars
  <2>1. UNCHANGED <<radio, events, started, connected, backoff, hold, autoconnect, todo, asked,
                    orderly>>
    BY <1>7 DEF vars, driverVars, linkVars, appVars, historyVars
  <2>2. RunReported' <=> RunReported
    BY <2>1 DEF RunReported
  <2>3. Carried => Carried'
    BY <2>1, CarriedBeside DEF At
  <2>4. orderly /\ asked => autoconnect /\ (~ hold => Carried)
    BY DEF Held, CarryInv
  <2> QED
    BY <2>1, <2>2, <2>3, <2>4, Beside
<1> QED
  BY <1>2, <1>3, <1>4, <1>5, <1>6, <1>7 DEF Next

LEMMA HeldStep == Held /\ Wakeup /\ [Next]_vars => Held' /\ Wakeup'
<1> SUFFICES ASSUME Held, Wakeup, [Next]_vars PROVE Held' /\ Wakeup'
  OBVIOUS
<1>1. TypeOK /\ Shapes /\ LinkInv
  BY DEF Held, Shaped
<1>2. TypeOK' /\ Shapes' /\ LinkInv' /\ Wakeup'
  BY <1>1, TypeStep, ShapesStep, LinkStep, WakeupStep
<1>3. Shaped'
  BY <1>2 DEF Shaped, Wakeup
<1> QED
  BY <1>2, <1>3, CarryStep DEF Held

LEMMA InitHeld == Init => Held
<1> SUFFICES ASSUME Init PROVE Held
  OBVIOUS
<1>1. /\ TypeOK /\ LinkInv /\ events = <<>> /\ ~ started /\ ~ connected /\ ~ asked /\ radio = "off"
      /\ \A t \in Task : todo[t] = <<>>
  BY InitType, LinkInit DEF Init
<1>2. Shaped
  BY <1>1 DEF Shaped, Shapes, LoopTodo, TimerTodo, BleTodo, AppTodo, Task
<1>3. ~ RunReported
  BY <1>1 DEF RunReported, Says
<1>4. todo["app"] \notin Reconnecting \cup Starting
  BY <1>1 DEF Reconnecting, Starting, Task
<1>5. \A t \in Doer : ~ Restarting(t) /\ ~ At(t, "mark")
  BY <1>1, RunsFrom, RunsNot DEF At, Doer, Task
<1> QED
  BY <1>1, <1>2, <1>3, <1>4, <1>5 DEF Held, OrderInv, CarryInv

LEMMA QuietTrying == Held => NeverAbandoned
<1> SUFFICES ASSUME Held, Quiet, Wanted, orderly PROVE Trying
  BY DEF NeverAbandoned
<1>1. events = <<>> /\ \A t \in Task : todo[t] = <<>>
  BY DEF Quiet, Idle
<1>2. Carried
  BY DEF Held, CarryInv, Wanted
<1>3. \A t \in Task : ~ Restarting(t) /\ \A op : ~ At(t, op)
  BY <1>1, RunsFrom, RunsNot DEF At
<1>4. ~ LossComes /\ ~ StartComes
  BY <1>1 DEF LossComes, StartComes
<1> QED
  BY <1>2, <1>3, <1>4 DEF Carried, Doer, Task

(* A link the application asked for is never abandoned, for any number of  *)
(* retries and of waiting events: as long as every restart of the radio    *)
(* ran alone and stopped it, the station is up, joins, or has its backoff  *)
(* timer armed, whenever nothing is being handled.                         *)
THEOREM NeverAbandonedAlways == Spec => []NeverAbandoned
<1>1. Spec => [](Held /\ Wakeup)
  BY InitHeld, InitWakeup, HeldStep, PTL DEF Spec
<1> QED
  BY <1>1, QuietTrying, PTL
===============================================================================
