----------------------------- MODULE MqttFailover -----------------------------
(***************************************************************************)
(* Broker selection and reconnection of components/iotmer:                 *)
(* iotmer_mqtt_failover.c (ordered endpoint list, fail window, failback,   *)
(* worker task) together with the MQTT event handler, the reconnect timer  *)
(* and the hard reconnect of iotmer_client.c.                              *)
(*                                                                         *)
(* Every critical section of the failover lock is one atomic step, and a   *)
(* step that releases the lock before it acts (a probe, a list refresh, a  *)
(* decided hard reconnect) is split, with the rest of it in `worker`.      *)
(* Time is discrete: a timestamp of the code is the age of the event it    *)
(* records, saturated at the value it is compared with, and a deadline is  *)
(* the time left.  One Host value stands for one host:port pair; endpoint  *)
(* n of the code is dir[n + 1].                                            *)
(*                                                                         *)
(* The behaviour starts when iotmer_connect() has started the client.      *)
(***************************************************************************)
EXTENDS Integers, Sequences

CONSTANTS
  Host,              \* broker addresses
  NoHost,            \* no address: last_good_valid = 0, or client->mqtt = NULL
  Directories,       \* the endpoint lists the server may hand out
  SameHostAttempts,  \* policy same_host_attempts
  FailWindow,        \* policy min_fail_window_sec, in ticks
  HealthWindow,      \* policy failback_healthy_sec, in ticks
  ProbeInterval,     \* policy probe_interval_sec, in ticks
  Jitter,            \* policy failback_jitter_sec, in ticks
  ReconnectWait,     \* cfg.reconnect_delay_ms, in ticks
  AuthWait,          \* mqtt_auth_backoff_ms, in ticks
  SettleWait,        \* IOTMER_HARD_RECONNECT_SETTLE_MS, in ticks
  SuppressMax        \* ceiling of s_suppress (255)

EndpointMax == 4
Endpoint == [host : Host, role : {"primary", "backup"}]

ASSUME HostAssumption == NoHost \notin Host

ASSUME DirectoriesAssumption ==
  /\ Directories # {}
  /\ \A d \in Directories : d \in Seq(Endpoint) /\ Len(d) \in 1 .. EndpointMax

ASSUME PolicyAssumption ==
  /\ SameHostAttempts \in Nat \ {0}
  /\ FailWindow \in Nat
  /\ HealthWindow \in Nat
  /\ ProbeInterval \in Nat
  /\ Jitter \in Nat

ASSUME TimerAssumption ==
  /\ ReconnectWait \in Nat
  /\ AuthWait \in Nat
  /\ SettleWait \in Nat
  /\ SuppressMax \in Nat \ {0}

VARIABLES
  dir,                     \* s_dir.ep[0 .. count - 1]
  last_good,               \* s_dir.last_good_host, NoHost when not valid
  index,                   \* s_index + 1
  attempt_count,           \* s_attempt_count, saturated at SameHostAttempts
  window_age,              \* age of s_window_start_us, Unset when 0
  latch,                   \* s_latch, "none" when s_latch_valid is false
  need_hard,               \* s_need_hard
  suppress,                \* s_suppress
  failback_active,         \* s_failback_active
  failback_backup_index,   \* s_failback_backup_index + 1
  session_on_backup,       \* s_session_on_backup
  healthy_age,             \* age of s_probe_healthy_since_us, Unset when 0
  failback_armed,          \* s_failback_armed
  failback_in,             \* time left until s_failback_at_us
  probe_in,                \* time left until s_next_probe_us
  probe_current,           \* the gen a probe captured still equals s_session_gen
  refresh_full_cycle,      \* s_refresh_full_cycle
  restart_mqtt,            \* s_restart_mqtt
  worker,                  \* what the failover task is in the middle of
  mqtt,                    \* host the client handle is bound to, NoHost for NULL
  link,                    \* state of the esp-mqtt client behind the handle
  connected,               \* client->connected
  timer,                   \* time left on the reconnect timer, Unset when stopped
  wifi                     \* iotmer_wifi_sta_has_ip()

dirVars     == <<dir, last_good>>
windowVars  == <<attempt_count, window_age>>
failbackVars == <<failback_active, failback_backup_index>>
probeVars   == <<healthy_age, failback_armed, failback_in>>
flagVars    == <<refresh_full_cycle, restart_mqtt>>
clientVars  == <<mqtt, link, connected>>
foVars      == <<dirVars, index, windowVars, latch, need_hard, suppress,
                 failbackVars, session_on_backup, probeVars, probe_in,
                 probe_current, flagVars>>
vars        == <<foVars, worker, clientVars, timer, wifi>>

Unset == -1
Latches == {"none", "transport", "auth", "protocol"}
Refreshing == {"boot", "daily", "cycle"}
Alive == {"connecting", "failing", "up"}

-------------------------------------------------------------------------------
(* Helpers on an endpoint list.                                            *)

(* find_host: the first entry with this host, 0 for the -1 of the code.    *)
FindHost(d, h) ==
  IF \E i \in 1 .. Len(d) : d[i].host = h
  THEN CHOOSE i \in 1 .. Len(d) :
         d[i].host = h /\ \A j \in 1 .. (i - 1) : d[j].host # h
  ELSE 0

(* primary_index_of: the first primary, the first entry when there is none. *)
PrimaryIndex(d) ==
  IF \E i \in 1 .. Len(d) : d[i].role = "primary"
  THEN CHOOSE i \in 1 .. Len(d) :
         d[i].role = "primary" /\ \A j \in 1 .. (i - 1) : d[j].role # "primary"
  ELSE 1

AtLeast(a, b) == IF a < b THEN b ELSE a
AtMost(a, b)  == IF a > b THEN b ELSE a

(* reset_probe_window_locked                                               *)
ResetProbeWindow ==
  /\ healthy_age' = Unset
  /\ failback_armed' = FALSE
  /\ failback_in' = 0

(* Mutant: the count starts over, the window does not.                     *)
ClearCountOnly ==
  /\ attempt_count' = 0
  /\ UNCHANGED window_age

ClearWindow ==
  /\ attempt_count' = 0
  /\ window_age' = Unset

(* s_session_gen++: a probe in flight no longer belongs to this session.   *)
BumpGen == probe_current' = FALSE

-------------------------------------------------------------------------------
(* A new endpoint list: merge_last_good_locked, then commit_locked.        *)

(* Mutant: the list is replaced under an index that is not recomputed.     *)
StayIndexUnmoved(neu) ==
  IF last_good # NoHost /\ FindHost(neu, last_good) > 0 THEN index
  ELSE FindHost(neu, dir[index].host)

(* Where the running session stands in the new list: the recorded last     *)
(* good host decides, the host at the current index when it is not there.  *)
StayIndex(neu) ==
  IF last_good # NoHost /\ FindHost(neu, last_good) > 0
  THEN FindHost(neu, last_good)
  ELSE FindHost(neu, dir[index].host)

(* The session goes on: only its place in the list is recomputed.          *)
CommitStay(neu) ==
  LET onPrimary == neu[StayIndex(neu)].role # "backup" IN
  /\ connected /\ StayIndex(neu) > 0
  /\ index' = StayIndex(neu)
  /\ session_on_backup' = ~onPrimary
  /\ healthy_age' = IF onPrimary THEN Unset ELSE healthy_age
  /\ failback_armed' = (failback_armed /\ ~onPrimary)
  /\ failback_active' = (failback_active /\ ~onPrimary)
  /\ restart_mqtt' = FALSE
  /\ UNCHANGED <<windowVars, failback_in, probe_current>>

(* The connected host left the list: the worker has to move the session.   *)
CommitGone(neu) ==
  /\ connected /\ StayIndex(neu) = 0
  /\ index' = 1
  /\ ClearWindow
  /\ session_on_backup' = FALSE
  /\ healthy_age' = Unset
  /\ failback_armed' = FALSE
  /\ failback_active' = FALSE
  /\ restart_mqtt' = TRUE
  /\ BumpGen
  /\ UNCHANGED failback_in

(* No session: the next attempt starts from the first entry.               *)
CommitIdle ==
  /\ ~connected
  /\ index' = 1
  /\ restart_mqtt' = FALSE
  /\ UNCHANGED <<windowVars, session_on_backup, probeVars, failback_active,
                 probe_current>>

Commit(neu) ==
  /\ dir' = neu
  /\ last_good' = IF FindHost(neu, last_good) > 0 THEN last_good ELSE NoHost
  /\ CommitStay(neu) \/ CommitGone(neu) \/ CommitIdle
  /\ UNCHANGED <<latch, need_hard, suppress, failback_backup_index, probe_in,
                 refresh_full_cycle>>

(* Provisioning in the firmware poll task ingests a list at any time.      *)
Ingest(neu) ==
  /\ Commit(neu)
  /\ UNCHANGED <<worker, clientVars, timer, wifi>>

-------------------------------------------------------------------------------
(* Teardown of the esp-mqtt client: suppress_disconnect, stop, destroy.    *)

(* The client was stopped without a DISCONNECTED event.                    *)
TeardownSilent ==
  /\ suppress' = AtMost(suppress + 1, SuppressMax)
  /\ UNCHANGED <<latch, probe_current>>

(* The stop delivered DISCONNECTED, and the handler consumed the token.    *)
TeardownEvent ==
  /\ link # "none"
  /\ suppress' = AtMost(suppress + 1, SuppressMax) - 1
  /\ latch' = "none"
  /\ BumpGen

Teardown ==
  /\ TeardownSilent \/ TeardownEvent
  /\ mqtt' = NoHost
  /\ link' = "none"
  /\ connected' = FALSE

(* iotmer_reconnect_hard: the reconnect timer starts the next client after *)
(* the settle delay.                                                       *)
ReconnectHard ==
  /\ Teardown
  /\ timer' = SettleWait
  /\ UNCHANGED <<dirVars, index, windowVars, need_hard, failbackVars,
                 session_on_backup, probeVars, probe_in, flagVars, wifi>>

(* The phantom watchdog or the application forces a hard reconnect.        *)
AppReconnectHard ==
  /\ ReconnectHard
  /\ UNCHANGED worker

-------------------------------------------------------------------------------
(* MQTT events, in the esp-mqtt task.                                      *)

(* MQTT_EVENT_CONNECTED: iotmer_mqtt_failover_on_connack and timer stop.   *)
Connack ==
  /\ link = "connecting" /\ wifi
  /\ link' = "up"
  /\ connected' = TRUE
  /\ timer' = Unset
  /\ ClearWindow
  /\ latch' = "none"
  /\ failback_active' = FALSE
  /\ ResetProbeWindow
  /\ BumpGen
  /\ last_good' = dir[index].host
  /\ session_on_backup' = (dir[index].role = "backup")
  /\ probe_in' = IF dir[index].role = "backup" THEN ProbeInterval ELSE probe_in
  /\ UNCHANGED <<dir, index, need_hard, suppress, failback_backup_index,
                 flagVars, worker, mqtt, wifi>>

(* MQTT_EVENT_ERROR: iotmer_mqtt_failover_on_error latches why the attempt *)
(* or the session fails; an identifier rejection counts as transport.  A   *)
(* refused CONNACK ends an attempt, never an open session.                 *)
Error(why) ==
  /\ \/ link \in {"connecting", "up"} /\ why = "transport"
     \/ link = "connecting" /\ wifi /\ why \in {"auth", "protocol"}
  /\ link' = "failing"
  /\ latch' = why
  /\ UNCHANGED <<dirVars, index, windowVars, need_hard, suppress, failbackVars,
                 session_on_backup, probeVars, probe_in, probe_current, flagVars,
                 worker, mqtt, connected, timer, wifi>>

(* What every MQTT_EVENT_DISCONNECTED does outside a teardown.             *)
LinkLost ==
  /\ link \in Alive
  /\ link' = "waiting"
  /\ connected' = FALSE
  /\ latch' = "none"
  /\ BumpGen
  /\ UNCHANGED <<dirVars, probe_in, restart_mqtt, worker, mqtt, wifi>>

(* A token left by an earlier teardown hides this event.                   *)
DisconnectSuppressed ==
  /\ LinkLost
  /\ suppress > 0
  /\ suppress' = suppress - 1
  /\ UNCHANGED <<index, windowVars, need_hard, failbackVars, session_on_backup,
                 probeVars, refresh_full_cycle, timer>>

(* Every other one reaches iotmer_mqtt_failover_on_disconnect.             *)
OnDisconnect ==
  /\ LinkLost
  /\ suppress = 0
  /\ session_on_backup' = FALSE
  /\ UNCHANGED <<suppress, failback_backup_index>>

DisconnectWifiDown ==
  /\ OnDisconnect
  /\ ~wifi
  /\ timer' = ReconnectWait
  /\ UNCHANGED <<index, windowVars, need_hard, failback_active, probeVars,
                 refresh_full_cycle>>

(* A failback CONNECT that failed goes back to the backup it came from.    *)
DisconnectFailback ==
  /\ OnDisconnect
  /\ wifi /\ failback_active
  /\ failback_active' = FALSE
  /\ index' = IF failback_backup_index > Len(dir) THEN 1
              ELSE failback_backup_index
  /\ ClearWindow
  /\ ResetProbeWindow
  /\ need_hard' = TRUE
  /\ timer' = ReconnectWait
  /\ UNCHANGED refresh_full_cycle

(* A refused CONNACK says nothing about the broker's health.               *)
DisconnectRefused ==
  /\ OnDisconnect
  /\ wifi /\ ~failback_active
  /\ latch \in {"auth", "protocol"}
  /\ timer' = IF latch = "auth" THEN AuthWait ELSE ReconnectWait
  /\ UNCHANGED <<index, windowVars, need_hard, failback_active, probeVars,
                 refresh_full_cycle>>

FailuresNow == IF window_age = Unset THEN 1
               ELSE AtMost(attempt_count + 1, SameHostAttempts)
WindowNow   == AtLeast(window_age, 0)

(* Both halves of the leave rule.                                          *)
WindowFailed == FailuresNow >= SameHostAttempts /\ WindowNow >= FailWindow

BrokerFailure ==
  /\ OnDisconnect
  /\ wifi /\ ~failback_active
  /\ latch \notin {"auth", "protocol"}
  /\ UNCHANGED failback_active

DisconnectStay ==
  /\ BrokerFailure
  /\ ~WindowFailed
  /\ attempt_count' = FailuresNow
  /\ window_age' = WindowNow
  /\ timer' = ReconnectWait
  /\ UNCHANGED <<index, need_hard, probeVars, refresh_full_cycle>>

(* Mutant: one past the end still counts as a next entry.                  *)
PastEnd == index > Len(dir)

AtEnd == index >= Len(dir)

(* leave_host_locked: the next entry, by a hard reconnect.                 *)
LeaveHost ==
  /\ BrokerFailure
  /\ WindowFailed /\ ~AtEnd
  /\ index' = index + 1
  /\ need_hard' = TRUE
  /\ ClearWindow
  /\ ResetProbeWindow
  /\ timer' = ReconnectWait
  /\ UNCHANGED refresh_full_cycle

(* leave_host_locked at the end of the list: the worker refreshes the list *)
(* and re-arms the timer.  (The branch for a missing worker task is never  *)
(* taken: without a task s_running is false.)                              *)
LeaveLast ==
  /\ BrokerFailure
  /\ WindowFailed /\ AtEnd
  /\ refresh_full_cycle' = TRUE
  /\ ClearWindow
  /\ ResetProbeWindow
  /\ UNCHANGED <<index, need_hard, timer>>

Disconnected ==
  \/ DisconnectSuppressed
  \/ DisconnectWifiDown
  \/ DisconnectFailback
  \/ DisconnectRefused
  \/ DisconnectStay
  \/ LeaveHost
  \/ LeaveLast

-------------------------------------------------------------------------------
(* reconnect_timer_cb, in the esp_timer task.                              *)

(* The selection moved to another host: the handle has to be rebuilt.      *)
TimerHard ==
  /\ timer = 0
  /\ mqtt # NoHost /\ need_hard
  /\ need_hard' = FALSE
  /\ Teardown
  /\ timer' = SettleWait
  /\ UNCHANGED <<dirVars, index, windowVars, failbackVars, session_on_backup,
                 probeVars, probe_in, flagVars, worker, wifi>>

(* Mutant: a start that failed is not tried again.                         *)
StartGivesUp ==
  /\ timer' = Unset
  /\ UNCHANGED <<mqtt, link>>

(* No heap, no handle, or a client that does not start: try again later.   *)
StartFails ==
  /\ timer' = ReconnectWait
  /\ UNCHANGED <<mqtt, link>>

(* mqtt_client_start binds a new handle to the selected endpoint.          *)
TimerStart ==
  /\ timer = 0
  /\ mqtt = NoHost
  /\ need_hard' = FALSE
  /\ \/ /\ mqtt' = dir[index].host
        /\ link' = "connecting"
        /\ timer' = Unset
     \/ StartFails
  /\ UNCHANGED <<dirVars, index, windowVars, latch, suppress, failbackVars,
                 session_on_backup, probeVars, probe_in, probe_current, flagVars,
                 worker, connected, wifi>>

(* esp_mqtt_client_reconnect starts another attempt on the same handle.    *)
TimerSoft ==
  /\ timer = 0
  /\ mqtt # NoHost /\ ~need_hard
  /\ link = "waiting"
  /\ link' = "connecting"
  /\ timer' = Unset
  /\ UNCHANGED <<foVars, worker, mqtt, connected, wifi>>

(* It refuses, because the client is not waiting for a reconnect or is     *)
(* broken, and the callback falls back to a hard reconnect.                *)
TimerSoftFails ==
  /\ timer = 0
  /\ mqtt # NoHost /\ ~need_hard
  /\ ReconnectHard
  /\ UNCHANGED worker

-------------------------------------------------------------------------------
(* The failover task.                                                      *)

(* Refreshing on boot is under way when the client starts, or is done.     *)
(* Once a day, with a session open, the task refreshes the list again.     *)
WorkerDaily ==
  /\ worker = "idle" /\ connected
  /\ worker' = "daily"
  /\ UNCHANGED <<foVars, clientVars, timer, wifi>>

WorkerCycle ==
  /\ worker = "idle" /\ refresh_full_cycle
  /\ refresh_full_cycle' = FALSE
  /\ worker' = "cycle"
  /\ UNCHANGED <<dirVars, index, windowVars, latch, need_hard, suppress,
                 failbackVars, session_on_backup, probeVars, probe_in,
                 probe_current, restart_mqtt, clientVars, timer, wifi>>

(* Mutant: the rest of a full cycle is dropped with the refresh.           *)
RefreshEndsRound == "idle"

AfterRefresh == IF worker = "cycle" THEN "reset" ELSE "idle"

(* refresh_list without a new list: HTTP error, 304, unusable body.        *)
RefreshKeeps ==
  /\ worker \in Refreshing
  /\ worker' = AfterRefresh
  /\ UNCHANGED <<foVars, clientVars, timer, wifi>>

RefreshApplies(neu) ==
  /\ worker \in Refreshing
  /\ Commit(neu)
  /\ worker' = AfterRefresh
  /\ UNCHANGED <<clientVars, timer, wifi>>

(* After a full failed cycle the list starts over, and arm_reconnect.      *)
WorkerReset ==
  /\ worker = "reset"
  /\ index' = 1
  /\ ClearWindow
  /\ ResetProbeWindow
  /\ failback_active' = FALSE
  /\ session_on_backup' = FALSE
  /\ need_hard' = (mqtt # NoHost)
  /\ restart_mqtt' = FALSE
  /\ timer' = ReconnectWait
  /\ worker' = "idle"
  /\ UNCHANGED <<dirVars, latch, suppress, failback_backup_index, probe_in,
                 probe_current, refresh_full_cycle, clientVars, wifi>>

(* The session has to leave a host that is no longer listed.               *)
WorkerRestart ==
  /\ worker = "idle" /\ restart_mqtt
  /\ restart_mqtt' = FALSE
  /\ worker' = IF mqtt # NoHost THEN "hard" ELSE "idle"
  /\ UNCHANGED <<dirVars, index, windowVars, latch, need_hard, suppress,
                 failbackVars, session_on_backup, probeVars, probe_in,
                 probe_current, refresh_full_cycle, clientVars, timer, wifi>>

(* A hard reconnect the worker decided on before it released the lock.     *)
WorkerHard ==
  /\ worker = "hard"
  /\ ReconnectHard
  /\ worker' = "idle"

ProbeDue ==
  session_on_backup /\ ~failback_active /\ connected /\ probe_in = 0

SwitchDue ==
  /\ failback_armed /\ failback_in = 0
  /\ session_on_backup /\ ~failback_active /\ connected

CanSwitch == PrimaryIndex(dir) # index

(* Mutant: the backup is recorded after the index has moved.               *)
BeginFailbackLate ==
  /\ failback_backup_index' = PrimaryIndex(dir)
  /\ index' = PrimaryIndex(dir)
  /\ failback_active' = TRUE
  /\ failback_armed' = FALSE
  /\ session_on_backup' = FALSE
  /\ ClearWindow
  /\ BumpGen
  /\ worker' = "hard"

(* The selection goes to the primary and remembers where it came from.     *)
BeginFailback ==
  /\ failback_backup_index' = index
  /\ index' = PrimaryIndex(dir)
  /\ failback_active' = TRUE
  /\ failback_armed' = FALSE
  /\ session_on_backup' = FALSE
  /\ ClearWindow
  /\ BumpGen
  /\ worker' = "hard"

(* maybe_probe when an armed failback is due: it goes before any probe.    *)
FailbackDue ==
  /\ worker = "idle"
  /\ SwitchDue /\ CanSwitch
  /\ BeginFailback
  /\ probe_in' = IF ProbeDue THEN ProbeInterval ELSE probe_in
  /\ UNCHANGED <<dirVars, latch, need_hard, suppress, healthy_age, failback_in,
                 flagVars, clientVars, timer, wifi>>

(* maybe_probe otherwise: a handshake with the primary starts when it is   *)
(* due, and a failback that would lead nowhere is disarmed.                *)
ProbeStart ==
  /\ worker = "idle"
  /\ ~(SwitchDue /\ CanSwitch)
  /\ ProbeDue \/ SwitchDue
  /\ failback_armed' = (failback_armed /\ ~SwitchDue)
  /\ probe_in' = IF ProbeDue THEN ProbeInterval ELSE probe_in
  /\ probe_current' = (ProbeDue \/ probe_current)
  /\ worker' = IF ProbeDue THEN "probing" ELSE "idle"
  /\ UNCHANGED <<dirVars, index, windowVars, latch, need_hard, suppress,
                 failbackVars, session_on_backup, healthy_age, failback_in,
                 flagVars, clientVars, timer, wifi>>

(* Mutant: any session's result counts.                                    *)
AnyProbeCounts == session_on_backup /\ ~failback_active

(* The result counts only for the session the probe was started in.        *)
ProbeCounts == probe_current /\ session_on_backup /\ ~failback_active

ProbeEnds ==
  /\ worker = "probing"
  /\ UNCHANGED <<dirVars, latch, need_hard, suppress, probe_in, flagVars,
                 clientVars, timer, wifi>>

ProbeIgnored ==
  /\ ProbeEnds
  /\ ~ProbeCounts
  /\ worker' = "idle"
  /\ UNCHANGED <<index, windowVars, failbackVars, session_on_backup, probeVars,
                 probe_current>>

ProbeFailed ==
  /\ ProbeEnds
  /\ ProbeCounts
  /\ ResetProbeWindow
  /\ worker' = "idle"
  /\ UNCHANGED <<index, windowVars, failbackVars, session_on_backup,
                 probe_current>>

(* note_probe_locked(true): the health window opens or grows; when it is   *)
(* long enough the failback is armed, `delay` ticks ahead.                 *)
HealthyRestarts == 0  \* mutant: every good probe opens the window anew
HealthyNow == AtLeast(healthy_age, 0)
ArmsNow    == ~failback_armed /\ HealthyNow >= HealthWindow
DueAfter(delay) ==
  /\ failback_armed \/ ArmsNow
  /\ (IF ArmsNow THEN delay ELSE failback_in) = 0

ProbeHealthy(delay) ==
  /\ ProbeEnds
  /\ ProbeCounts
  /\ healthy_age' = HealthyNow
  /\ failback_in' = IF ArmsNow THEN delay ELSE failback_in
  /\ \/ /\ DueAfter(delay) /\ CanSwitch
        /\ BeginFailback
     \/ /\ ~(DueAfter(delay) /\ CanSwitch)
        /\ failback_armed' = ((failback_armed \/ ArmsNow) /\ ~DueAfter(delay))
        /\ worker' = "idle"
        /\ UNCHANGED <<index, windowVars, failbackVars, session_on_backup,
                       probe_current>>

Worker ==
  \/ WorkerDaily
  \/ WorkerCycle
  \/ RefreshKeeps
  \/ \E neu \in Directories : RefreshApplies(neu)
  \/ WorkerReset
  \/ WorkerRestart
  \/ WorkerHard
  \/ FailbackDue
  \/ ProbeStart
  \/ ProbeIgnored
  \/ ProbeFailed
  \/ \E delay \in 0 .. Jitter : ProbeHealthy(delay)

-------------------------------------------------------------------------------
(* The environment.                                                        *)

WifiChange ==
  /\ wifi' = ~wifi
  /\ UNCHANGED <<foVars, worker, clientVars, timer>>

Older(age, cap) == IF age = Unset THEN Unset ELSE AtMost(age + 1, cap)
Sooner(left)    == IF left > 0 THEN left - 1 ELSE left

Tick ==
  /\ window_age' = Older(window_age, FailWindow)
  /\ healthy_age' = Older(healthy_age, HealthWindow)
  /\ failback_in' = Sooner(failback_in)
  /\ probe_in' = Sooner(probe_in)
  /\ timer' = Sooner(timer)
  /\ UNCHANGED <<dirVars, index, attempt_count, latch, need_hard, suppress,
                 failbackVars, session_on_backup, failback_armed, probe_current,
                 flagVars, worker, clientVars, wifi>>

-------------------------------------------------------------------------------
HostsOf(d) == { d[i].host : i \in 1 .. Len(d) }

(* After iotmer_mqtt_directory_nvs_read, failover_prepare, failover_start  *)
(* and the first mqtt_client_start.                                        *)
Init ==
  /\ dir \in Directories
  /\ last_good \in HostsOf(dir) \cup {NoHost}
  /\ index = 1
  /\ attempt_count = 0 /\ window_age = Unset
  /\ latch = "none"
  /\ need_hard = FALSE
  /\ suppress = 0
  /\ failback_active = FALSE /\ failback_backup_index = 1
  /\ session_on_backup = FALSE
  /\ healthy_age = Unset /\ failback_armed = FALSE /\ failback_in = 0
  /\ probe_in = 0 /\ probe_current = FALSE
  /\ refresh_full_cycle = FALSE /\ restart_mqtt = FALSE
  /\ worker \in {"boot", "idle"}
  /\ mqtt = dir[1].host /\ link = "connecting" /\ connected = FALSE
  /\ timer = Unset
  /\ wifi = TRUE

MqttEvent == Connack \/ (\E why \in Latches : Error(why)) \/ Disconnected

TimerFires == TimerHard \/ TimerStart \/ TimerSoft \/ TimerSoftFails

Next ==
  \/ MqttEvent
  \/ TimerFires
  \/ Worker
  \/ \E neu \in Directories : Ingest(neu)
  \/ AppReconnectHard
  \/ WifiChange
  \/ Tick

Spec == Init /\ [][Next]_vars

FlagType ==
  /\ need_hard \in BOOLEAN
  /\ failback_active \in BOOLEAN
  /\ session_on_backup \in BOOLEAN
  /\ failback_armed \in BOOLEAN
  /\ probe_current \in BOOLEAN
  /\ refresh_full_cycle \in BOOLEAN
  /\ restart_mqtt \in BOOLEAN
  /\ connected \in BOOLEAN
  /\ wifi \in BOOLEAN

SelectionType ==
  /\ dir \in Directories
  /\ last_good \in Host \cup {NoHost}
  /\ index \in 1 .. Len(dir)
  /\ failback_backup_index \in 1 .. EndpointMax
  /\ latch \in Latches
  /\ worker \in Refreshing \cup {"idle", "reset", "probing", "hard"}
  /\ mqtt \in Host \cup {NoHost}
  /\ link \in Alive \cup {"none", "waiting"}

CountType ==
  /\ attempt_count \in 0 .. SameHostAttempts
  /\ suppress \in 0 .. SuppressMax
  /\ window_age \in Unset .. FailWindow
  /\ healthy_age \in Unset .. HealthWindow
  /\ failback_in \in 0 .. Jitter
  /\ probe_in \in 0 .. ProbeInterval
  /\ timer \in Int /\ timer >= Unset

TypeOK == FlagType /\ SelectionType /\ CountType

===============================================================================
