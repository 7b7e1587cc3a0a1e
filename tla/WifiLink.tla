------------------------------- MODULE WifiLink -------------------------------
(***************************************************************************)
(* The Wi-Fi station of components/iotmer/iotmer_wifi.c: fast retries, the *)
(* persistent backoff, the stop/start restart, hold, autoconnect, kick and *)
(* the blocking connect.                                                   *)
(*                                                                         *)
(* Four tasks touch the file's statics without a lock: `ev` (the event     *)
(* loop: wifi_event_handler), `tm` (esp_timer: wifi_backoff_timer_cb),     *)
(* `app` (connect, reconnect, kick) and `ble` (hold and autoconnect).      *)
(* todo[t] is what task t has still to do of the function it is in: each   *)
(* member is one access or one driver call, and a step of its own.  A      *)
(* driver call takes effect at once; what it announces arrives through the *)
(* event loop, in order.                                                   *)
(*                                                                         *)
(* The module starts after wifi_init_once, with credentials stored: the    *)
(* event group and the timer exist.  The length of the backoff, the BSSID  *)
(* lock and the passage of the 30 s of connect are left out.               *)
(***************************************************************************)
EXTENDS Naturals, Sequences

CONSTANTS
  FastRetryMax,     \* WIFI_FAST_RETRY_MAX
  FullRestartAt,    \* WIFI_FULL_RESTART_FAST_RETRY
  MaxEvents,        \* bound: events waiting when the network or the application acts
  MaxHolds,         \* bound: changes of hold and of autoconnect
  Failing,          \* bound: the driver calls that may return an error
  OrderlyOnly       \* bound: leave out the schedules `orderly` excludes

ASSUME RetryAssumption ==
  /\ FastRetryMax \in Nat
  /\ FullRestartAt \in Nat
ASSUME BoundAssumption ==
  /\ MaxEvents \in Nat
  /\ MaxHolds \in Nat
  /\ Failing \subseteq {"stop", "start", "connect"}
  /\ OrderlyOnly \in BOOLEAN

VARIABLES
  radio,        \* the driver's station
  events,       \* posted to the event loop, not handled yet
  started,      \* s_started
  connected,    \* s_connected
  retry_num,    \* s_retry_num
  backoff,      \* s_backoff_timer is armed
  hold,         \* s_reconnect_hold
  autoconnect,  \* s_autoconnect
  bits,         \* s_event_group
  todo,         \* per task: what is left of the function it is in
  holds,        \* changes of hold and of autoconnect
  asked,        \* history: a link was asked for, and no driver call failed since
  orderly       \* history: every restart of the radio ran alone, and stopped it

appVars    == <<hold, autoconnect>>
driverVars == <<radio, events>>
linkVars   == <<started, connected, retry_num, backoff>>
historyVars == <<asked, orderly>>
vars == <<driverVars, linkVars, appVars, bits, todo, holds, historyVars>>

Task  == {"ev", "tm", "app", "ble"}
Event == {"START", "STOP", "GOT_IP", "DISC", "DISC_RESTART"}
Op    == {"connect", "prepare", "probe", "wait",
          "retry", "restart", "attempt", "attempt_full",
          "disconnect", "stop", "mark", "bring", "start", "join",
          "if_down", "arm"}

At(t, op)    == todo[t] # <<>> /\ Head(todo[t]) = op
Idle(t)      == todo[t] = <<>>
Goto(t, ops) == todo' = [todo EXCEPT ![t] = ops]
Advance(t)   == Goto(t, Tail(todo[t]))
Return(t)    == Goto(t, <<>>)

Pending(t, op) == \E i \in DOMAIN todo[t] : todo[t][i] = op

-------------------------------------------------------------------------------
(* The driver, as far as iotmer_wifi.c relies on it (external).            *)

(* A station that had joined reports the disconnection, then the stop.     *)
StopEvents ==
  CASE radio = "off"    -> <<>>
    [] radio = "joined" -> <<"DISC", "STOP">>
    [] OTHER            -> <<"STOP">>

DriverDisconnect ==
  /\ radio' = IF radio \in {"joining", "joined"} THEN "idle" ELSE radio
  /\ events' = IF radio = "joined" THEN Append(events, "DISC") ELSE events

DriverStop ==
  /\ radio' = "off"
  /\ events' = events \o StopEvents

(* A station that runs already is left as it is, without a STA_START.      *)
DriverStart ==
  IF radio = "off"
  THEN radio' = "idle" /\ events' = Append(events, "START")
  ELSE UNCHANGED driverVars

(* ESP_ERR_WIFI_NOT_STARTED or ESP_ERR_WIFI_CONN unless the radio is idle. *)
DriverConnect ==
  /\ radio' = IF radio = "idle" THEN "joining" ELSE radio
  /\ UNCHANGED events

Room == Len(events) < MaxEvents

Associate ==
  /\ radio = "joining" /\ Room
  /\ radio' = "joined"
  /\ events' = Append(events, "GOT_IP")
  /\ UNCHANGED <<linkVars, appVars, bits, todo, holds, asked>>

(* Both reasons: those of wifi_disconnect_needs_full_restart, and others.  *)
JoinFails ==
  /\ radio = "joining" /\ Room
  /\ radio' = "idle"
  /\ \E e \in {"DISC", "DISC_RESTART"} : events' = Append(events, e)
  /\ UNCHANGED <<linkVars, appVars, bits, todo, holds, asked>>

LinkLost ==
  /\ radio = "joined" /\ Room
  /\ radio' = "idle"
  /\ \E e \in {"DISC", "DISC_RESTART"} : events' = Append(events, e)
  /\ UNCHANGED <<linkVars, appVars, bits, todo, holds, asked>>

-------------------------------------------------------------------------------
(* Driver calls of a task; an error other than the tolerated ones is a     *)
(* transition of its own.                                                  *)

Disconnect(t) ==
  /\ At(t, "disconnect")
  /\ DriverDisconnect
  /\ Advance(t)
  /\ UNCHANGED <<linkVars, appVars, bits, holds, asked>>

Stop(t) ==
  /\ At(t, "stop")
  /\ DriverStop
  /\ Advance(t)
  /\ UNCHANGED <<linkVars, appVars, bits, holds, asked>>

(* Only kick gives up; reconnect goes on to connect without marking the    *)
(* radio stopped, and the retry ignores the error.                         *)
StopFails(t) ==
  /\ At(t, "stop") /\ "stop" \in Failing
  /\ orderly' = FALSE
  /\ Goto(t, IF t # "app" THEN Tail(todo[t])
             ELSE IF Pending(t, "connect") THEN <<"connect">> ELSE <<>>)
  /\ UNCHANGED <<driverVars, linkVars, appVars, bits, holds, asked>>

(* Mutant of Stopped: s_connected is cleared as well, after the stop.      *)
StoppedAll == started' = FALSE /\ connected' = FALSE
Stopped    == started' = FALSE /\ UNCHANGED connected

Mark(t) ==
  /\ At(t, "mark")
  /\ Stopped
  /\ Advance(t)
  /\ UNCHANGED <<driverVars, retry_num, backoff, appVars, bits, holds, asked>>

(* esp_wifi_start and esp_wifi_connect of the application's functions.     *)
Start ==
  /\ At("app", "start")
  /\ DriverStart
  /\ Advance("app")
  /\ asked' = (asked \/ autoconnect)
  /\ UNCHANGED <<linkVars, appVars, bits, holds>>

StartFails ==
  /\ At("app", "start") /\ "start" \in Failing
  /\ asked' = FALSE
  /\ bits' = {}
  /\ Return("app")
  /\ UNCHANGED <<driverVars, linkVars, appVars, holds>>

ClearBits == bits' = {}          \* mutant: cleared once more, after the start
KeepBits  == UNCHANGED bits

Join ==
  /\ At("app", "join")
  /\ DriverConnect
  /\ KeepBits
  /\ Advance("app")
  /\ UNCHANGED <<linkVars, appVars, holds, asked>>

JoinRefused ==
  /\ At("app", "join") /\ "connect" \in Failing
  /\ asked' = FALSE
  /\ Advance("app")
  /\ UNCHANGED <<driverVars, linkVars, appVars, bits, holds>>

-------------------------------------------------------------------------------
(* wifi_sta_reconnect_attempt, by the event loop or the timer.             *)

RestartUnmarked == <<"disconnect", "stop", "bring">>   \* mutant: s_started kept
Restart         == <<"disconnect", "stop", "mark", "bring">>

MayRetry == ~hold /\ autoconnect

Attempt(t) ==
  /\ \/ At(t, "attempt")
     \/ At(t, "attempt_full")
  /\ Goto(t, IF ~MayRetry THEN <<>>
             ELSE IF At(t, "attempt_full") /\ started THEN Restart ELSE <<"bring">>)
  /\ UNCHANGED <<driverVars, linkVars, appVars, bits, holds, asked>>

(* The radio is started, or joins if s_started says it runs.               *)
Bring(t) ==
  /\ At(t, "bring")
  /\ IF started THEN DriverConnect ELSE DriverStart
  /\ Return(t)
  /\ UNCHANGED <<linkVars, appVars, bits, holds, asked>>

BringFails(t) ==
  /\ At(t, "bring") /\ (IF started THEN "connect" ELSE "start") \in Failing
  /\ asked' = FALSE
  /\ Return(t)
  /\ UNCHANGED <<driverVars, linkVars, appVars, bits, holds>>

(* esp_timer_start_once of schedule_backoff_reconnect.                     *)
Arm(t) ==
  /\ At(t, "arm")
  /\ backoff' = TRUE
  /\ Advance(t)
  /\ UNCHANGED <<driverVars, started, connected, retry_num, appVars, bits,
                 holds, asked>>

(* wifi_backoff_timer_cb; its own checks are those of the attempt.         *)
BackoffExpires ==
  /\ backoff /\ Idle("tm")
  /\ backoff' = FALSE
  /\ Goto("tm", <<"attempt_full">>)
  /\ UNCHANGED <<driverVars, started, connected, retry_num, appVars, bits,
                 holds, asked>>

-------------------------------------------------------------------------------
(* wifi_event_handler, by the event loop.  A bit set while no connect is   *)
(* going to wait for it is left out: the next one clears it first.         *)

SetBit(bit) == bits' = IF Pending("app", "wait") THEN bits \cup {bit} ELSE bits

Handles(e) == Idle("ev") /\ events # <<>> /\ Head(events) = e /\ events' = Tail(events)

StationJoins ==
  \/ /\ radio' = IF radio = "idle" THEN "joining" ELSE radio
     /\ UNCHANGED asked
  \/ /\ "connect" \in Failing
     /\ asked' = FALSE
     /\ UNCHANGED radio

StaStart ==
  /\ Handles("START")
  /\ started' = TRUE
  /\ IF autoconnect THEN StationJoins ELSE UNCHANGED <<radio, asked>>
  /\ UNCHANGED <<connected, retry_num, backoff, appVars, bits, todo, holds>>

StaStop ==
  /\ Handles("STOP")
  /\ started' = FALSE
  /\ connected' = FALSE
  /\ backoff' = FALSE
  /\ UNCHANGED <<radio, retry_num, appVars, bits, todo, holds, asked>>

StaDisconnected ==
  \E e \in {"DISC", "DISC_RESTART"} :
    /\ Handles(e)
    /\ connected' = FALSE
    /\ Goto("ev", IF e = "DISC_RESTART" THEN <<"restart">> ELSE <<"retry">>)
    /\ UNCHANGED <<radio, started, retry_num, backoff, appVars, bits,
                   holds, asked>>

(* Fast retries are exhausted: schedule_backoff_reconnect, whose checks of *)
(* hold and autoconnect are those of Decide.                               *)
GiveUp       == <<>>                            \* mutant: no backoff
AfterRetries == <<"arm">>

RetriesLeft == retry_num < FastRetryMax

Decide ==
  /\ \/ At("ev", "retry")
     \/ At("ev", "restart")
  /\ \/ /\ ~MayRetry
        /\ SetBit("fail")
        /\ Return("ev")
        /\ UNCHANGED retry_num
     \/ /\ MayRetry /\ RetriesLeft
        /\ retry_num' = retry_num + 1
        /\ Goto("ev", IF retry_num' >= FullRestartAt \/ At("ev", "restart")
                      THEN <<"attempt_full">> ELSE <<"attempt">>)
        /\ UNCHANGED bits
     \/ /\ MayRetry /\ ~RetriesLeft
        /\ SetBit("fail")
        /\ Goto("ev", AfterRetries)
        /\ UNCHANGED retry_num
  /\ UNCHANGED <<driverVars, started, connected, backoff, appVars,
                 holds, asked>>

GotIp ==
  /\ Handles("GOT_IP")
  /\ retry_num' = 0
  /\ backoff' = FALSE
  /\ connected' = TRUE
  /\ SetBit("ip")
  /\ UNCHANGED <<radio, started, appVars, todo, holds, asked>>

-------------------------------------------------------------------------------
(* The application task: iotmer_wifi_connect, _reconnect and _kick.        *)

AppFree == Idle("app") /\ Len(events) < MaxEvents

(* An established link is an early return of connect.                      *)
Waiting == <<"prepare", "probe", "wait">>

CallConnect ==
  /\ AppFree /\ ~connected
  /\ Goto("app", Waiting)
  /\ UNCHANGED <<driverVars, linkVars, appVars, bits, holds, asked>>

(* The connect that ends a reconnect.                                      *)
Connect ==
  /\ At("app", "connect")
  /\ Goto("app", IF connected THEN <<>> ELSE Waiting)
  /\ UNCHANGED <<driverVars, linkVars, appVars, bits, holds, asked>>

Prepare ==
  /\ At("app", "prepare")
  /\ bits' = {}
  /\ retry_num' = 0
  /\ backoff' = FALSE
  /\ Advance("app")
  /\ UNCHANGED <<driverVars, started, connected, appVars, holds, asked>>

(* was_started: the driver will not announce the start a second time.      *)
Probe ==
  /\ At("app", "probe")
  /\ Goto("app", IF started THEN <<"start", "join", "wait">> ELSE <<"start", "wait">>)
  /\ UNCHANGED <<driverVars, linkVars, appVars, bits, holds, asked>>

WaitEnds ==
  /\ At("app", "wait") /\ bits # {}
  /\ bits' = {}
  /\ Advance("app")
  /\ UNCHANGED <<driverVars, linkVars, appVars, holds, asked>>

WaitTimesOut ==
  /\ At("app", "wait") /\ bits = {}
  /\ Advance("app")
  /\ UNCHANGED <<driverVars, linkVars, appVars, bits, holds, asked>>

Reconnect ==
  /\ AppFree
  /\ connected' = FALSE
  /\ Goto("app", <<"disconnect", "stop", "mark", "connect">>)
  /\ UNCHANGED <<driverVars, started, retry_num, backoff, appVars, bits,
                 holds, asked>>

Kick ==
  /\ AppFree /\ ~hold
  /\ connected' = FALSE
  /\ retry_num' = 0
  /\ backoff' = FALSE
  /\ Goto("app", <<"disconnect", "stop", "mark", "start">>)
  /\ UNCHANGED <<driverVars, started, appVars, bits, holds, asked>>

-------------------------------------------------------------------------------
(* iotmer_wifi_set_reconnect_hold and iotmer_wifi_set_autoconnect.         *)

(* The store and the esp_timer_stop that follows it, in one step.          *)
Hold ==
  /\ Idle("ble") /\ ~hold /\ holds < MaxHolds
  /\ hold' = TRUE
  /\ holds' = holds + 1
  /\ backoff' = FALSE
  /\ UNCHANGED <<driverVars, started, connected, retry_num, autoconnect, bits,
                 todo, asked>>

Release ==
  /\ Idle("ble") /\ hold
  /\ hold' = FALSE
  /\ Goto("ble", <<"if_down">>)
  /\ UNCHANGED <<driverVars, linkVars, autoconnect, bits, holds, asked>>

IfDown ==
  /\ At("ble", "if_down")
  /\ Goto("ble", IF connected \/ ~autoconnect THEN <<>> ELSE <<"arm">>)
  /\ UNCHANGED <<driverVars, linkVars, appVars, bits, holds, asked>>

AutoconnectOff ==
  /\ Idle("ble") /\ autoconnect /\ holds < MaxHolds
  /\ autoconnect' = FALSE
  /\ holds' = holds + 1
  /\ backoff' = FALSE
  /\ asked' = FALSE
  /\ UNCHANGED <<driverVars, started, connected, retry_num, hold, bits, todo>>

(* "Enabling autoconnect does not itself connect."                         *)
AutoconnectOn ==
  /\ Idle("ble") /\ ~autoconnect
  /\ autoconnect' = TRUE
  /\ UNCHANGED <<driverVars, linkVars, hold, bits, todo, holds, asked>>

-------------------------------------------------------------------------------
Init ==
  /\ radio = "off"
  /\ events = <<>>
  /\ started = FALSE
  /\ connected = FALSE
  /\ retry_num = 0
  /\ backoff = FALSE
  /\ hold = FALSE
  /\ autoconnect = TRUE
  /\ bits = {}
  /\ todo = [t \in Task |-> <<>>]
  /\ holds = 0
  /\ asked = FALSE
  /\ orderly = TRUE

Calls(t) == Disconnect(t) \/ Stop(t) \/ Mark(t)

Retry(t) == Attempt(t) \/ Bring(t) \/ BringFails(t)

EventLoop ==
  \/ StaStart \/ StaStop \/ StaDisconnected \/ GotIp
  \/ Decide \/ Retry("ev") \/ Calls("ev") \/ Arm("ev")

Timer == BackoffExpires \/ Retry("tm") \/ Calls("tm")

Begin == CallConnect \/ Reconnect \/ Kick

Serve ==
  \/ Calls("app") \/ Start \/ StartFails \/ Join \/ JoinRefused
  \/ Connect \/ Prepare \/ Probe \/ WaitEnds \/ WaitTimesOut

Switch == Hold \/ Release \/ AutoconnectOff \/ AutoconnectOn
Settle == IfDown \/ Arm("ble")

Network == Associate \/ JoinFails \/ LinkLost

(* Task t is between the decision to restart the radio and the call that   *)
(* brings it back.                                                         *)
Restarting(t) ==
  \E op \in {"mark", "bring", "connect", "probe", "start"} : Pending(t, op)

Alone(t) == \A u \in Task \ {t} : ~Restarting(u)

Orderly(t) == (orderly' = (orderly /\ Alone(t))) /\ (OrderlyOnly => orderly')

Next ==
  \/ EventLoop /\ Orderly("ev")
  \/ Timer /\ Orderly("tm")
  \/ (Begin \/ Serve) /\ Orderly("app")
  \/ (Switch \/ Settle \/ Network) /\ UNCHANGED orderly
  \/ \E t \in {"ev", "tm", "app"} : StopFails(t)

(* The event loop, the timer service and a function once called go on; a   *)
(* join that is tried again and again succeeds some day.                   *)
Fairness ==
  /\ WF_vars(EventLoop /\ Orderly("ev"))
  /\ WF_vars(Timer /\ Orderly("tm"))
  /\ WF_vars(Serve /\ Orderly("app"))
  /\ WF_vars(Settle /\ UNCHANGED orderly)
  /\ WF_vars((Associate \/ JoinFails) /\ UNCHANGED orderly)
  /\ SF_vars(Associate /\ UNCHANGED orderly)

Spec     == Init /\ [][Next]_vars
FairSpec == Spec /\ Fairness

-------------------------------------------------------------------------------
TypeOK ==
  /\ radio \in {"off", "idle", "joining", "joined"}
  /\ events \in Seq(Event)
  /\ started \in BOOLEAN
  /\ connected \in BOOLEAN
  /\ retry_num \in 0 .. FastRetryMax
  /\ backoff \in BOOLEAN
  /\ hold \in BOOLEAN
  /\ autoconnect \in BOOLEAN
  /\ bits \subseteq {"ip", "fail"}
  /\ todo \in [Task -> Seq(Op)]
  /\ holds \in 0 .. MaxHolds
  /\ asked \in BOOLEAN
  /\ orderly \in BOOLEAN

Quiet == events = <<>> /\ \A t \in Task : Idle(t)

(* iotmer_wifi_sta_has_ip answers for the radio: once nothing is being     *)
(* handled, s_connected is set exactly while the station has joined.       *)
HasIpAccurate == Quiet => (connected <=> radio = "joined")

Wanted == asked /\ autoconnect /\ ~hold
Trying == radio \in {"joining", "joined"} \/ backoff

(* The retries of the handler, the backoff and the release of a hold hand  *)
(* over to each other: as long as every restart of the radio ran alone, a  *)
(* link the application asked for is up, being joined, or due for a retry. *)
NeverAbandoned == Quiet /\ Wanted /\ orderly => Trying

(* connect does not sit out its 30 s while there is an IP address: the     *)
(* wakeup is not lost between its look at s_connected and its wait, unless *)
(* the address arrives between that look and the clearing of the bits.     *)
ConnectSeesIp == orderly /\ At("app", "wait") /\ connected => bits # {}

(* A link that stays asked for and not held comes up again and again: the  *)
(* retries and the backoff reach an access point that is there to be found.*)
LinkRecovers ==
  \/ []<>connected
  \/ []<>~(Wanted /\ orderly)
===============================================================================
