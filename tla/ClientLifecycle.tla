--------------------------- MODULE ClientLifecycle ---------------------------
(***************************************************************************)
(* Who starts and who tears down the MQTT client (iotmer_client.c): the    *)
(* application with iotmer_connect, iotmer_disconnect and                  *)
(* iotmer_reconnect_hard, the timer task with the reconnect and phantom    *)
(* timers, the failover task and the MQTT task; and the TLS coexistence    *)
(* hook all four share.                                                    *)
(*                                                                         *)
(* A task is at one place of its procedure (at[t]); every access to state  *)
(* another task can change at that moment is a step of its own. What the   *)
(* failover decides is left open here: MqttFailover is about that.         *)
(*                                                                         *)
(* The application connects when it is disconnected by its own account and *)
(* every task has left what it did for an earlier client, and reconnects   *)
(* only while connected by that account. A second teardown of a handle     *)
(* that is being torn down is undefined; the device restarts there.        *)
(***************************************************************************)
EXTENDS Integers, FiniteSets

CONSTANTS
  HookMax,      \* ceiling of s_tls_hook_depth (255)
  SuppressMax   \* ceiling of s_suppress (255)

\* A second hold must count: with a ceiling of 1 it would call on_tls_acquire again.
ASSUME CeilingAssumption == HookMax \in Nat \ {0, 1} /\ SuppressMax \in Nat \ {0}

Task == {"app", "tmr", "wrk", "net"}

VARIABLES
  mqtt,       \* client->mqtt is not NULL
  link,       \* the esp-mqtt client: "none", "connecting", "up", "waiting" (for a reconnect)
  connected,  \* client->connected
  ref,        \* client->reconnect_timer is not NULL
  armed,      \* that timer runs
  stray,      \* a timer runs whose handle is lost
  watch,      \* the phantom timer runs
  task,       \* s_task is not NULL
  running,    \* s_running
  suppress,   \* s_suppress
  need_hard,  \* s_need_hard
  cycle,      \* s_refresh_full_cycle
  at,         \* place of each task, "idle" between calls, callbacks and rounds
  call        \* what the application is calling

VARIABLES
  depth,      \* s_tls_hook_depth
  held,       \* client->tls_hook_held
  owes,       \* tasks between the hook lock and their on_tls_release
  suspended   \* the last callback was on_tls_acquire

\* History: callbacks of the hook not yet answered, whether a token swallowed a real
\* disconnect, whether the application is connected by its own account, whether a task
\* was past its checks when the application took the client down, and whether a hold was
\* taken beside that of an earlier attempt, or for a client whose teardown had let go.
VARIABLES open, swallowed, want, raced, crossed

clientVars == <<mqtt, link, connected>>
timerVars == <<ref, armed, stray, watch>>
foVars == <<task, running, suppress, need_hard, cycle>>
hookVars == <<depth, held, owes, suspended, open>>
pastVars == <<swallowed, want, raced, crossed>>
vars == <<clientVars, timerVars, foVars, at, call, hookVars, pastVars>>

Starting == {"start", "built", "store", "failed"}
Hard == {"hard", "release", "down", "destroying", "rearm"}
Place ==
  [app |-> {"idle", "begun", "stop", "timers"} \cup Starting \cup Hard,
   tmr |-> {"idle", "fired", "soft", "softgo", "trelease", "tdown", "tdestroying"}
           \cup Starting \cup Hard,
   wrk |-> {"idle", "probe", "probing", "refresh", "arm", "armnow"} \cup Starting \cup Hard,
   net |-> {"idle", "connack", "lost", "step", "netarm"}]

TypeOK ==
  /\ mqtt \in BOOLEAN /\ connected \in BOOLEAN
  /\ link \in {"none", "connecting", "up", "waiting"}
  /\ ref \in BOOLEAN /\ armed \in BOOLEAN /\ stray \in BOOLEAN /\ watch \in BOOLEAN
  /\ task \in BOOLEAN /\ running \in BOOLEAN /\ need_hard \in BOOLEAN /\ cycle \in BOOLEAN
  /\ suppress \in 0 .. SuppressMax
  /\ at \in [Task -> UNION {Place[t] : t \in Task}] /\ \A t \in Task : at[t] \in Place[t]
  /\ call \in {"none", "connect", "hard", "disconnect"}
  /\ depth \in 0 .. HookMax /\ held \in BOOLEAN /\ suspended \in BOOLEAN
  /\ owes \subseteq Task /\ open \in Nat
  /\ swallowed \in BOOLEAN /\ want \in BOOLEAN /\ raced \in BOOLEAN
  /\ crossed \in BOOLEAN

Init ==
  /\ mqtt = FALSE /\ link = "none" /\ connected = FALSE
  /\ ref = FALSE /\ armed = FALSE /\ stray = FALSE /\ watch = FALSE
  /\ task = FALSE /\ running = FALSE /\ suppress = 0 /\ need_hard = FALSE /\ cycle = FALSE
  /\ at = [t \in Task |-> "idle"] /\ call = "none"
  /\ depth = 0 /\ held = FALSE /\ owes = {} /\ suspended = FALSE /\ open = 0
  /\ swallowed = FALSE /\ want = FALSE /\ raced = FALSE /\ crossed = FALSE

-----------------------------------------------------------------------------
\* Helpers

\* A task goes on once the release callback it owes has returned.
At(t, place) == at[t] = place /\ t \notin owes
Goes(t, place) == at' = [at EXCEPT ![t] = place]
Others(t) == Task \ {t}
Destroying == {"destroying", "tdestroying"}
Released == {"down", "tdown"}

\* iotmer_tls_hook_acquire; the callback runs under the lock.
Acquire ==
  /\ depth' = IF depth < HookMax THEN depth + 1 ELSE depth
  /\ held' = TRUE
  /\ IF depth' = 1 THEN suspended' = TRUE /\ open' = open + 1
     ELSE UNCHANGED <<suspended, open>>
  /\ UNCHANGED owes

\* A hold for an attempt on the MQTT client.
AcquireForAttempt(t) ==
  /\ Acquire
  /\ crossed' = (\/ crossed
                 \/ depth > Cardinality({u \in Task : at[u] = "probing"})
                 \/ \E u \in Others(t) : at[u] \in Released)
  /\ UNCHANGED <<swallowed, want, raced>>

\* Mutant: the release of a depth of 0 calls back, too.
ReleaseAlways(t) ==
  /\ depth' = IF depth = 0 THEN 0 ELSE depth - 1
  /\ held' = (depth' > 0)
  /\ owes' = IF depth <= 1 THEN owes \cup {t} ELSE owes
  /\ UNCHANGED <<suspended, open>>

\* iotmer_tls_hook_release up to the unlock; the callback of the last one comes after it.
Release(t) ==
  /\ depth' = IF depth = 0 THEN 0 ELSE depth - 1
  /\ held' = (depth > 1 /\ held)
  /\ owes' = IF depth = 1 THEN owes \cup {t} ELSE owes
  /\ UNCHANGED <<suspended, open>>

ReleaseCallback(t) ==
  /\ t \in owes
  /\ owes' = owes \ {t}
  /\ suspended' = FALSE
  /\ open' = open - 1
  /\ UNCHANGED <<clientVars, timerVars, foVars, at, call, depth, held, pastVars>>

-----------------------------------------------------------------------------
\* mqtt_client_start, in the application's, the timer or the failover task

\* No endpoint or no topic: it fails before it takes the hook.
StartRefused(t) ==
  /\ At(t, "start")
  /\ Goes(t, "failed")
  /\ UNCHANGED <<clientVars, timerVars, foVars, call, hookVars, pastVars>>

StartAcquires(t) ==
  /\ At(t, "start")
  /\ AcquireForAttempt(t)
  /\ Goes(t, "built")
  /\ UNCHANGED <<clientVars, timerVars, foVars, call>>

\* Mutant: an error return without the release.
StartFailsHolding(t) ==
  /\ At(t, "built")
  /\ Goes(t, "failed")
  /\ UNCHANGED <<clientVars, timerVars, foVars, call, hookVars, pastVars>>

\* Heap guard, init, event registration or the start itself.
StartFails(t) ==
  /\ At(t, "built")
  /\ Release(t)
  /\ Goes(t, "failed")
  /\ UNCHANGED <<clientVars, timerVars, foVars, call, pastVars>>

StartRuns(t) ==
  /\ At(t, "built") /\ link = "none"
  /\ link' = "connecting"
  /\ Goes(t, "store")
  /\ UNCHANGED <<mqtt, connected, timerVars, foVars, call, hookVars, pastVars>>

\* client->mqtt = h, and iotmer_connect starts its watchdog.
StartStores(t) ==
  /\ At(t, "store")
  /\ mqtt' = TRUE
  /\ Goes(t, "idle")
  /\ call' = IF t = "app" THEN "none" ELSE call
  /\ IF t = "app" /\ call = "connect" THEN watch' = TRUE /\ want' = TRUE
     ELSE UNCHANGED <<watch, want>>
  /\ UNCHANGED <<link, connected, ref, armed, stray, foVars, hookVars, swallowed, raced, crossed>>

\* Mutant: the timer callback gives up, too.
StartEndsQuietly(t) ==
  /\ At(t, "failed") /\ t \in {"tmr", "wrk"}
  /\ Goes(t, "idle")
  /\ UNCHANGED <<clientVars, timerVars, foVars, call, hookVars, pastVars>>

\* A failed start: the timer callback re-arms, the synchronous fallback returns.
StartEnds(t) ==
  /\ At(t, "failed") /\ t \in {"tmr", "wrk"}
  /\ armed' = IF t = "tmr" THEN armed \/ ref ELSE armed
  /\ Goes(t, "idle")
  /\ UNCHANGED <<clientVars, ref, stray, watch, foVars, call, hookVars, pastVars>>

-----------------------------------------------------------------------------
\* Application

NothingLeft ==
  /\ ~mqtt /\ ~stray
  /\ \A t \in Others("app") : At(t, "idle")

\* iotmer_connect up to iotmer_mqtt_failover_prepare.
Connect ==
  /\ At("app", "idle") /\ ~want /\ NothingLeft
  /\ raced' = (link # "none")
  /\ Goes("app", "begun") /\ call' = "connect"
  /\ ref' = TRUE
  /\ suppress' = 0 /\ need_hard' = FALSE /\ cycle' = FALSE
  /\ UNCHANGED <<clientVars, armed, stray, watch, task, running, hookVars, swallowed, want, crossed>>

\* iotmer_mqtt_failover_start; without its task nothing is running, and the connection
\* is made all the same.
FailoverStart ==
  /\ At("app", "begun")
  /\ Goes("app", "start")
  /\ \/ task' = TRUE /\ running' = TRUE
     \/ ~task /\ running' = FALSE /\ UNCHANGED task
  /\ UNCHANGED <<clientVars, timerVars, suppress, need_hard, cycle, call, hookVars, pastVars>>

\* Tasks that are past the checks that stop them after iotmer_mqtt_failover_stop.
PastChecks ==
  \/ at["tmr"] # "idle"
  \/ at["wrk"] \in Hard \cup Starting \cup {"armnow"}
  \/ at["net"] = "netarm"

\* iotmer_mqtt_failover_stop
FailoverStop ==
  /\ running' = FALSE /\ cycle' = FALSE
  /\ UNCHANGED <<task, suppress, need_hard>>

\* esp_timer_delete refuses a timer that runs; its handle is lost all the same.
DeleteTimer ==
  /\ ref' = FALSE
  /\ stray' = (stray \/ armed)
  /\ armed' = FALSE

\* iotmer_connect fails: worker parked, timers deleted.
ConnectFails ==
  /\ At("app", "failed")
  /\ FailoverStop
  /\ DeleteTimer
  /\ Goes("app", "idle") /\ call' = "none"
  /\ UNCHANGED <<clientVars, watch, hookVars, pastVars>>

Disconnect ==
  /\ At("app", "idle") /\ (want \/ mqtt)
  /\ Goes("app", "stop") /\ call' = "disconnect"
  /\ FailoverStop
  /\ UNCHANGED <<clientVars, timerVars, hookVars, pastVars>>

StopTimers ==
  /\ At("app", "stop")
  /\ Goes("app", "release")
  /\ armed' = FALSE /\ watch' = FALSE
  /\ raced' = (raced \/ PastChecks)
  /\ UNCHANGED <<clientVars, ref, stray, foVars, call, hookVars, swallowed, want, crossed>>

DisconnectEnds ==
  /\ At("app", "timers")
  /\ DeleteTimer
  /\ want' = FALSE
  /\ Goes("app", "idle") /\ call' = "none"
  /\ UNCHANGED <<clientVars, watch, foVars, hookVars, swallowed, raced, crossed>>

AppHard ==
  /\ At("app", "idle") /\ want
  /\ Goes("app", "hard") /\ call' = "hard"
  /\ UNCHANGED <<clientVars, timerVars, foVars, hookVars, pastVars>>

-----------------------------------------------------------------------------
\* iotmer_reconnect_hard, in the application's, the timer or the failover task; from
\* "release" on it is the teardown of iotmer_disconnect, too.

\* Mutant: no ceiling.
TokenUnbounded == suppress' = suppress + 1

Token == suppress' = IF suppress < SuppressMax THEN suppress + 1 ELSE suppress

HardBegins(t) ==
  /\ At(t, "hard")
  /\ armed' = (armed /\ ~ref)
  /\ Token
  /\ Goes(t, "release")
  /\ UNCHANGED <<clientVars, ref, stray, watch, task, running, need_hard, cycle, call, hookVars, pastVars>>

HardReleases(t) ==
  /\ At(t, "release")
  /\ connected' = FALSE
  /\ Release(t)
  /\ Goes(t, "down")
  /\ UNCHANGED <<mqtt, link, timerVars, foVars, call, pastVars>>

\* What follows once the client is gone.
AfterTeardown(t) == IF t = "app" /\ call = "disconnect" THEN "timers" ELSE "rearm"

\* Without a client there is nothing to stop.
NothingToStop(t) ==
  /\ At(t, "down") /\ ~mqtt
  /\ Goes(t, AfterTeardown(t))
  /\ UNCHANGED <<clientVars, timerVars, foVars, call, hookVars, pastVars>>

\* esp_mqtt_client_stop returns when the MQTT task is in no handler (external).
Stop(t, from, to) ==
  /\ At(t, from) /\ mqtt
  /\ \A u \in Others(t) : at[u] \notin Destroying
  /\ At("net", "idle")
  /\ link' = "none"
  /\ Goes(t, to)
  /\ UNCHANGED <<mqtt, connected, timerVars, foVars, call, hookVars, pastVars>>

HardStops(t) == Stop(t, "down", "destroying")

HardDestroys(t) ==
  /\ At(t, "destroying")
  /\ mqtt' = FALSE
  /\ Goes(t, AfterTeardown(t))
  /\ UNCHANGED <<link, connected, timerVars, foVars, call, hookVars, pastVars>>

\* Restart by the timer; a hard reconnect that finds no timer starts on the spot.
HardRearms(t) ==
  /\ At(t, "rearm")
  /\ armed' = (armed \/ ref)
  /\ Goes(t, IF ref THEN "idle" ELSE "start")
  /\ call' = IF t = "app" /\ ref THEN "none" ELSE call
  /\ UNCHANGED <<clientVars, ref, stray, watch, foVars, hookVars, pastVars>>

-----------------------------------------------------------------------------
\* Timer task

\* A timer fires; a stray one runs the same callback. The shortest of its waits outlasts
\* the assignment behind the start of a client.
TimerFires ==
  /\ At("tmr", "idle") /\ \A t \in Task : at[t] # "store"
  /\ \/ armed /\ armed' = FALSE /\ UNCHANGED stray
     \/ stray /\ stray' = FALSE /\ UNCHANGED armed
  /\ Goes("tmr", "fired")
  /\ UNCHANGED <<clientVars, ref, watch, foVars, call, hookVars, pastVars>>

\* The client is bound to the previous host: token, then the teardown.
TimerHard ==
  /\ At("tmr", "fired") /\ mqtt /\ need_hard
  /\ need_hard' = FALSE
  /\ Token
  /\ Goes("tmr", "trelease")
  /\ UNCHANGED <<clientVars, timerVars, task, running, cycle, call, hookVars, pastVars>>

TimerReleases ==
  /\ At("tmr", "trelease")
  /\ Release("tmr")
  /\ Goes("tmr", "tdown")
  /\ UNCHANGED <<clientVars, timerVars, foVars, call, pastVars>>

TimerStops == Stop("tmr", "tdown", "tdestroying")

\* The handle was read, and is gone by now: both calls only return errors.
TimerStopsNothing ==
  /\ At("tmr", "tdown") /\ ~mqtt
  /\ Goes("tmr", "tdestroying")
  /\ UNCHANGED <<clientVars, timerVars, foVars, call, hookVars, pastVars>>

TimerDestroys ==
  /\ At("tmr", "tdestroying")
  /\ mqtt' = FALSE
  /\ connected' = FALSE
  /\ armed' = (armed \/ ref)
  /\ Goes("tmr", "idle")
  /\ UNCHANGED <<link, ref, stray, watch, foVars, call, hookVars, pastVars>>

TimerStart ==
  /\ At("tmr", "fired") /\ ~mqtt
  /\ need_hard' = FALSE
  /\ Goes("tmr", "start")
  /\ UNCHANGED <<clientVars, timerVars, task, running, suppress, cycle, call, hookVars, pastVars>>

TimerSoft ==
  /\ At("tmr", "fired") /\ mqtt /\ ~need_hard
  /\ AcquireForAttempt("tmr")
  /\ Goes("tmr", "softgo")
  /\ UNCHANGED <<clientVars, timerVars, foVars, call>>

\* esp_mqtt_client_reconnect refuses a client that does not wait for it.
SoftReconnect ==
  /\ At("tmr", "softgo")
  /\ \/ /\ mqtt /\ link = "waiting"
        /\ link' = "connecting"
        /\ Goes("tmr", "idle")
     \/ Goes("tmr", "hard") /\ UNCHANGED link
  /\ UNCHANGED <<mqtt, connected, timerVars, foVars, call, hookVars, pastVars>>

Phantom ==
  /\ At("tmr", "idle") /\ watch /\ connected
  /\ Goes("tmr", "hard")
  /\ UNCHANGED <<clientVars, timerVars, foVars, call, hookVars, pastVars>>

-----------------------------------------------------------------------------
\* Failover task

ProbeDecided ==
  /\ At("wrk", "idle") /\ task
  /\ running /\ connected /\ ~held
  /\ Goes("wrk", "probe")
  /\ UNCHANGED <<clientVars, timerVars, foVars, call, hookVars, pastVars>>

ProbeBegins ==
  /\ At("wrk", "probe")
  /\ Acquire
  /\ Goes("wrk", "probing")
  /\ UNCHANGED <<clientVars, timerVars, foVars, call, pastVars>>

ProbeEnds ==
  /\ At("wrk", "probing")
  /\ Release("wrk")
  /\ Goes("wrk", "idle")
  /\ UNCHANGED <<clientVars, timerVars, foVars, call, pastVars>>

\* A list came without the connected host, or the failback of a session is due.
WorkerHard ==
  /\ At("wrk", "idle") /\ task
  /\ running /\ mqtt
  /\ Goes("wrk", "hard")
  /\ UNCHANGED <<clientVars, timerVars, foVars, call, hookVars, pastVars>>

WorkerCycle ==
  /\ At("wrk", "idle") /\ task
  /\ running /\ cycle
  /\ cycle' = FALSE
  /\ Goes("wrk", "refresh")
  /\ UNCHANGED <<clientVars, timerVars, task, running, suppress, need_hard, call, hookVars, pastVars>>

\* The list was refreshed by HTTPS; the selection starts anew.
WorkerReset ==
  /\ At("wrk", "refresh")
  /\ need_hard' = mqtt
  /\ Goes("wrk", "arm")
  /\ UNCHANGED <<clientVars, timerVars, task, running, suppress, cycle, call, hookVars, pastVars>>

\* arm_reconnect: checks, then acts.
ArmChecks ==
  /\ At("wrk", "arm")
  /\ Goes("wrk", IF running /\ ref THEN "armnow" ELSE "idle")
  /\ UNCHANGED <<clientVars, timerVars, foVars, call, hookVars, pastVars>>

ArmActs(t, place) ==
  /\ At(t, place)
  /\ armed' = (armed \/ ref)
  /\ Goes(t, "idle")
  /\ UNCHANGED <<clientVars, ref, stray, watch, foVars, call, hookVars, pastVars>>

-----------------------------------------------------------------------------
\* MQTT task

Connected ==
  /\ At("net", "idle") /\ link = "connecting"
  /\ link' = "up"
  /\ connected' = TRUE
  /\ armed' = (armed /\ ~ref)
  /\ Goes("net", "connack")
  /\ UNCHANGED <<mqtt, ref, stray, watch, foVars, call, hookVars, pastVars>>

ConnackReleases ==
  /\ At("net", "connack")
  /\ Release("net")
  /\ Goes("net", "idle")
  /\ UNCHANGED <<clientVars, timerVars, foVars, call, pastVars>>

LinkLost ==
  /\ link \in {"connecting", "up"}
  /\ link' = "waiting"
  /\ connected' = FALSE

\* A hard reconnect has placed its token and has not stopped the client yet.
TokenOut ==
  \E t \in Task :
    /\ at[t] \in {"release", "down", "trelease", "tdown"}
    /\ t = "app" => call = "hard"

\* MQTT_EVENT_DISCONNECTED that finds a token: nothing is released, nothing armed.
DisconnectSuppressed ==
  /\ At("net", "idle") /\ suppress > 0
  /\ LinkLost
  /\ suppress' = suppress - 1
  /\ swallowed' = (swallowed \/ ~TokenOut)
  /\ UNCHANGED <<mqtt, timerVars, task, running, need_hard, cycle, at, call, hookVars, want, raced, crossed>>

Disconnected ==
  /\ At("net", "idle") /\ suppress = 0
  /\ LinkLost
  /\ Goes("net", "lost")
  /\ UNCHANGED <<mqtt, timerVars, foVars, call, hookVars, pastVars>>

DisconnectReleases ==
  /\ At("net", "lost")
  /\ Release("net")
  /\ Goes("net", "step")
  /\ UNCHANGED <<clientVars, timerVars, foVars, call, pastVars>>

\* Mutant: a parked failover still plans the next attempt.
OnDisconnectAlways ==
  /\ At("net", "step")
  /\ Goes("net", "netarm")
  /\ UNCHANGED <<clientVars, timerVars, foVars, call, hookVars, pastVars>>

\* iotmer_mqtt_failover_on_disconnect: nothing, the timer (another host or not), or the
\* worker when the whole list has failed.
OnDisconnect ==
  /\ At("net", "step")
  /\ \/ ~running /\ Goes("net", "idle") /\ UNCHANGED <<need_hard, cycle>>
     \/ running /\ Goes("net", "netarm") /\ need_hard' \in {need_hard, TRUE} /\ UNCHANGED cycle
     \/ running /\ task /\ Goes("net", "idle") /\ cycle' = TRUE /\ UNCHANGED need_hard
  /\ UNCHANGED <<clientVars, timerVars, task, running, suppress, call, hookVars, pastVars>>

-----------------------------------------------------------------------------
\* A task begins to tear down the handle that another one is tearing down, or starts a
\* client beside a running one: whatever the build does, the device is restarted.
Clash ==
  /\ \/ \E t \in Task, u \in Task :
          /\ t # u /\ at[u] \in Destroying
          /\ At(t, "down") \/ At(t, "tdown")
          /\ mqtt
     \/ \E t \in Task : At(t, "built") /\ link # "none"
  /\ mqtt' = FALSE /\ link' = "none" /\ connected' = FALSE
  /\ ref' = FALSE /\ armed' = FALSE /\ stray' = FALSE /\ watch' = FALSE
  /\ task' = FALSE /\ running' = FALSE /\ suppress' = 0 /\ need_hard' = FALSE /\ cycle' = FALSE
  /\ at' = [t \in Task |-> "idle"] /\ call' = "none"
  /\ depth' = 0 /\ held' = FALSE /\ owes' = {} /\ suspended' = FALSE /\ open' = 0
  /\ swallowed' = FALSE /\ want' = FALSE /\ raced' = FALSE /\ crossed' = FALSE

Start(t) ==
  StartRefused(t) \/ StartAcquires(t) \/ StartFails(t) \/ StartRuns(t) \/ StartStores(t) \/ StartEnds(t)

HardReconnect(t) ==
  \/ HardBegins(t) \/ HardReleases(t) \/ NothingToStop(t) \/ HardStops(t)
  \/ HardDestroys(t) \/ HardRearms(t)

App ==
  \/ Connect \/ FailoverStart \/ ConnectFails \/ Disconnect \/ StopTimers \/ DisconnectEnds
  \/ AppHard

Timer ==
  \/ TimerFires \/ TimerHard \/ TimerReleases \/ TimerStops \/ TimerStopsNothing \/ TimerDestroys
  \/ TimerStart \/ TimerSoft \/ SoftReconnect \/ Phantom

Worker ==
  \/ ProbeDecided \/ ProbeBegins \/ ProbeEnds \/ WorkerHard \/ WorkerCycle \/ WorkerReset
  \/ ArmChecks \/ ArmActs("wrk", "armnow")

Net ==
  \/ Connected \/ ConnackReleases \/ DisconnectSuppressed \/ Disconnected
  \/ DisconnectReleases \/ OnDisconnect \/ ArmActs("net", "netarm")

Next ==
  \/ App \/ Timer \/ Worker \/ Net \/ Clash
  \/ \E t \in Task : ReleaseCallback(t)
  \/ \E t \in Task \ {"net"} : Start(t) \/ HardReconnect(t)

Spec == Init /\ [][Next]_vars

-----------------------------------------------------------------------------
\* Properties

\* Every on_tls_acquire is answered by exactly one on_tls_release, whoever holds and
\* whoever lets go: at most the one of the present hold is still open, and those that
\* tasks are about to make (iotmer_client.h, tls_hook_held).
OneReleasePerAcquire ==
  open = Cardinality(owes) + (IF depth > 0 THEN 1 ELSE 0)

AtRest == \A t \in Task : at[t] = "idle" /\ t \notin owes

\* When no handshake and no task is under way the hook is let go and the application has
\* its resources back: no path of a failed, torn down or lost attempt keeps a hold. The
\* exceptions: a token swallowed the loss of an attempt, and the hold with it; or a hold
\* was taken beside that of another attempt, or between release and stop of a teardown.
HoldReleased ==
  (AtRest /\ link # "connecting" /\ ~swallowed /\ ~crossed) => (depth = 0 /\ ~held /\ ~suspended)

\* After iotmer_disconnect, or a failed iotmer_connect, no client and no timer is left
\* and none comes back, unless a task was past its last check when the timers stopped.
StaysDown ==
  (call = "none" /\ ~want /\ ~raced) => (~mqtt /\ link = "none" /\ ~ref /\ ~armed /\ ~stray)

\* A connected application's client that is in no attempt has its next one planned: the
\* timer runs or the failover task has the list to refresh; unless the failover task
\* could not be created, or a token swallowed the loss.
RetryPlanned ==
  (AtRest /\ want /\ running /\ ~swallowed /\ link \in {"none", "waiting"}) => (armed \/ cycle)
=============================================================================
