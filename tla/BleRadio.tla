------------------------------ MODULE BleRadio ------------------------------
(***************************************************************************)
(* The BLE JSON transport (iotmer_ble.c) beside the TLS coexistence hook:  *)
(* the application initialises, starts, stops and deinitialises the radio, *)
(* a task that opens a TLS connection suspends and resumes it              *)
(* (iotmer_client.h:111-116), the NimBLE host task calls back, and a       *)
(* worker hands received frames to the application.                        *)
(*                                                                         *)
(* None of these takes a lock, so each access to state that another task   *)
(* may change at that moment is a step of its own.  A caller that enters   *)
(* the host after another has shut it down, and two teardowns at a time,   *)
(* are undefined; the device restarts there (Clash).  The application's    *)
(* callbacks of the host, the frames' bytes and the ATT value of           *)
(* iotmer_ble_gatt.c are left out.                                         *)
(***************************************************************************)
EXTENDS Integers

CONSTANT QueueLen     \* cfg.rx_queue_len
ASSUME QueueAssumption == QueueLen \in Nat \ {0}

Caller == {"app", "hook"}
NoQueue == -1

VARIABLES
  inited, started, synced, connected, suspended, resume_start,  \* s_*
  queue,    \* s_rx_queue: frames waiting in it, or NoQueue
  nimble,   \* the port: "off", "ready" (its memory is taken) or "running" (and its task)
  adv,      \* the controller advertises
  link,     \* a central is connected
  host,     \* the host task: "idle", "check" or "air" of ble_start_advertising, "rx"
  worker,   \* ble_rx_worker: "none", "waiting" or in the application's "callback"
  at,       \* where each caller is in the procedure it runs
  call,     \* the function it called
  self      \* the worker's callback is the one that suspends

\* History: what the application asked last, whether two callers have overlapped or the
\* application initialised a suspended radio, whether an initialisation ended half-way,
\* and whether s_started fell while another task was past its look at it.
VARIABLES wish, raced, halfway, overtaken

flags == <<inited, started, synced, connected, suspended, resume_start>>
rx == <<queue, worker, self>>
air == <<adv, link, overtaken>>
calls == <<at, call>>
past == <<wish, raced, halfway>>
vars == <<flags, rx, nimble, air, host, calls, past>>

Calls == {"none", "init", "start", "stop", "deinit", "suspend", "shut", "resume", "restart"}
TearPlace == {"port", "worker", "queue", "flag"}
Place == {"idle", "init", "rest", "begin", "set", "check", "air", "silence",
          "forget", "dead"} \cup TearPlace

TypeOK ==
  /\ inited \in BOOLEAN /\ started \in BOOLEAN /\ synced \in BOOLEAN
  /\ connected \in BOOLEAN /\ suspended \in BOOLEAN /\ resume_start \in BOOLEAN
  /\ queue \in NoQueue .. QueueLen
  /\ nimble \in {"off", "ready", "running"}
  /\ adv \in BOOLEAN /\ link \in BOOLEAN
  /\ (adv \/ link \/ host # "idle") => nimble = "running"
  /\ host \in {"idle", "check", "air", "rx"}
  /\ worker \in {"none", "waiting", "callback"}
  /\ at \in [Caller -> Place] /\ call \in [Caller -> Calls] /\ self \in BOOLEAN
  /\ wish \in BOOLEAN /\ raced \in BOOLEAN /\ halfway \in BOOLEAN /\ overtaken \in BOOLEAN

Init ==
  /\ inited = FALSE /\ started = FALSE /\ synced = FALSE
  /\ connected = FALSE /\ suspended = FALSE /\ resume_start = FALSE
  /\ queue = NoQueue /\ nimble = "off" /\ adv = FALSE /\ link = FALSE
  /\ host = "idle" /\ worker = "none" /\ self = FALSE
  /\ at = [c \in Caller |-> "idle"] /\ call = [c \in Caller |-> "none"]
  /\ wish = FALSE /\ raced = FALSE /\ halfway = FALSE /\ overtaken = FALSE

-----------------------------------------------------------------------------
\* Helpers

Goes(c, place) == at' = [at EXCEPT ![c] = place] /\ UNCHANGED call
Becomes(c, f, place) == at' = [at EXCEPT ![c] = place] /\ call' = [call EXCEPT ![c] = f]
Returns(c) == Becomes(c, "none", "idle")
Idle(c) == at[c] = "idle"
Other(c) == CHOOSE o \in Caller : o # c
PastCheck(c) == at[c] \in {"check", "air"}

\* A call that is not refused notes whether it overlaps another.
Accepted(c, f) ==
  /\ raced' = (raced \/ ~ Idle(Other(c)) \/ (f = "init" /\ suspended))
  /\ UNCHANGED <<wish, halfway>>

\* The application's call returned: what it asked for holds from here on.
Answered(c, asked) ==
  /\ wish' = IF c = "app" THEN asked ELSE wish
  /\ UNCHANGED <<raced, halfway>>

-----------------------------------------------------------------------------
\* iotmer_ble_init

InitBegins(c, f) ==
  /\ IF inited
     THEN UNCHANGED <<calls, past>>
     ELSE Becomes(c, f, "init") /\ Accepted(c, f)
  /\ UNCHANGED <<flags, rx, nimble, air, host>>

\* nimble_port_init takes the controller's memory; it fails when that is taken already.
InitPort(c) ==
  /\ at[c] = "init" /\ nimble = "off"
  /\ nimble' = "ready"
  /\ Goes(c, "rest")
  /\ UNCHANGED <<flags, rx, air, host, past>>

\* A failed iotmer_ble_init: resume takes the radio for suspended again.
InitFails(c) ==
  /\ at[c] \in {"init", "rest"}
  /\ suspended' = (suspended \/ call[c] = "resume")
  /\ halfway' = (halfway \/ at[c] = "rest")
  /\ Returns(c)
  /\ UNCHANGED <<inited, started, synced, connected, resume_start, rx, nimble, air, host,
                 wish, raced>>

\* The GAP name, the GATT table and the receive worker; then the host task is started.
InitEnds(c) ==
  /\ at[c] = "rest"
  /\ IF queue = NoQueue
     THEN queue' = 0 /\ worker' = "waiting" /\ UNCHANGED self
     ELSE UNCHANGED rx
  /\ started' = FALSE /\ synced' = FALSE /\ connected' = FALSE
  /\ nimble' = "running" /\ inited' = TRUE
  /\ IF call[c] = "resume"
     THEN /\ IF resume_start THEN Becomes(c, "restart", "begin") ELSE Returns(c)
          /\ UNCHANGED past
     ELSE Returns(c) /\ Answered(c, FALSE)
  /\ overtaken' = PastCheck(Other(c))
  /\ UNCHANGED <<suspended, resume_start, adv, link, host>>

-----------------------------------------------------------------------------
\* ble_start_advertising, by a caller's iotmer_ble_start or by the host task

AirBegins == adv' = FALSE /\ UNCHANGED <<link, overtaken>>
AirStarts == adv' = TRUE /\ UNCHANGED <<link, overtaken>>

\* iotmer_ble_start
StartBegins(c) ==
  /\ at[c] = "begin" /\ call[c] \in {"start", "restart"} /\ inited
  /\ Goes(c, "set")
  /\ Accepted(c, call[c])
  /\ UNCHANGED <<flags, rx, nimble, air, host>>

StartSets(c) ==
  /\ at[c] = "set"
  /\ started' = TRUE
  /\ Goes(c, "check")
  /\ UNCHANGED <<inited, synced, connected, suspended, resume_start, rx, nimble, air, host,
                 past>>

StartChecks(c) ==
  /\ at[c] = "check" /\ nimble = "running"
  /\ IF synced
     THEN Goes(c, "air") /\ AirBegins /\ UNCHANGED past
     ELSE Returns(c) /\ Answered(c, TRUE) /\ UNCHANGED air
  /\ UNCHANGED <<flags, rx, nimble, host>>

\* ble_gap_adv_start, refused while the host is not in sync with the controller.
StartEnds(c) ==
  /\ at[c] = "air" /\ nimble = "running"
  /\ IF synced THEN AirStarts ELSE UNCHANGED air
  /\ Returns(c) /\ Answered(c, TRUE)
  /\ UNCHANGED <<flags, rx, nimble, host>>

-----------------------------------------------------------------------------
\* iotmer_ble_stop

\* Mutant: suspend stops the radio before it notes whether it was started.
StopForgets(c) ==
  /\ at[c] = "begin" /\ call[c] \in {"stop", "suspend", "deinit", "shut"} /\ inited
  /\ Accepted(c, call[c])
  /\ started' = FALSE
  /\ resume_start' = IF call[c] = "suspend" THEN started' ELSE resume_start
  /\ overtaken' = (PastCheck(Other(c)) \/ host \in {"check", "air"})
  /\ Goes(c, "silence")
  /\ UNCHANGED <<inited, synced, connected, suspended, rx, nimble, adv, link, host>>

StopBegins(c) ==
  /\ at[c] = "begin" /\ call[c] \in {"stop", "suspend", "deinit", "shut"} /\ inited
  /\ Accepted(c, call[c])
  /\ started' = FALSE
  /\ resume_start' = IF call[c] = "suspend" THEN started ELSE resume_start
  /\ overtaken' = (PastCheck(Other(c)) \/ host \in {"check", "air"})
  /\ Goes(c, "silence")
  /\ UNCHANGED <<inited, synced, connected, suspended, rx, nimble, adv, link, host>>

\* The advertisement is ended, and the connection the flags know of terminated: that it
\* is gone is an event of the host later on.
StopSilences(c) ==
  /\ at[c] = "silence" /\ nimble = "running"
  /\ adv' = FALSE
  /\ Goes(c, "forget")
  /\ UNCHANGED <<flags, rx, nimble, link, overtaken, host, past>>

StopEnds(c) ==
  /\ at[c] = "forget"
  /\ connected' = FALSE
  /\ CASE call[c] = "stop" -> Returns(c) /\ Answered(c, FALSE)
       [] call[c] = "suspend" -> Becomes(c, "shut", "begin") /\ UNCHANGED past
       [] OTHER -> Goes(c, "port") /\ UNCHANGED past
  /\ UNCHANGED <<inited, started, synced, suspended, resume_start, rx, nimble, air, host>>

-----------------------------------------------------------------------------
\* iotmer_ble_deinit, after its stop

\* Mutant: the receive worker is taken down before the host.
QueueFirst(c) ==
  /\ at[c] = "port"
  /\ queue' = NoQueue /\ worker' = "none"
  /\ Goes(c, "flag")
  /\ UNCHANGED <<flags, self, nimble, air, host, past>>

\* nimble_port_stop waits for the event the host is at, ends advertising and the
\* connection, whose event it still delivers, and the host task; nimble_port_deinit
\* gives the memory back.
PortStops(c) ==
  /\ at[c] = "port" /\ nimble = "running" /\ host = "idle"
  /\ adv' = FALSE /\ link' = FALSE
  /\ connected' = (connected /\ ~ link)
  /\ nimble' = "off"
  /\ Goes(c, "worker")
  /\ UNCHANGED <<inited, started, synced, suspended, resume_start, rx, overtaken, host, past>>

\* vTaskDelete: whatever the worker was at is over; a worker that called this is gone
\* before it comes back.
WorkerEnds(c) ==
  /\ at[c] = "worker"
  /\ worker' = "none"
  /\ Goes(c, IF c = "hook" /\ self THEN "dead" ELSE "queue")
  /\ UNCHANGED <<flags, queue, self, nimble, air, host, past>>

QueueEnds(c) ==
  /\ at[c] = "queue"
  /\ queue' = NoQueue
  /\ Goes(c, "flag")
  /\ UNCHANGED <<flags, worker, self, nimble, air, host, past>>

DeinitEnds(c) ==
  /\ at[c] = "flag"
  /\ inited' = FALSE
  /\ suspended' = (suspended \/ call[c] = "shut")
  /\ IF call[c] = "shut" THEN UNCHANGED past ELSE Answered(c, FALSE)
  /\ self' = (self /\ c # "hook")
  /\ Returns(c)
  /\ UNCHANGED <<started, synced, connected, resume_start, queue, worker, nimble, air, host>>

\* A function whose check of s_inited fails returns at once; suspend does not look at what
\* its stop and deinit returned.
Refused(c) ==
  /\ at[c] = "begin" /\ ~ inited
  /\ resume_start' = IF call[c] = "suspend" THEN started ELSE resume_start
  /\ suspended' = (suspended \/ call[c] \in {"suspend", "shut"})
  /\ self' = (self /\ c # "hook")
  /\ Returns(c)
  /\ UNCHANGED <<inited, started, synced, connected, queue, worker, nimble, air, host, past>>

-----------------------------------------------------------------------------
\* iotmer_ble_suspend and iotmer_ble_resume

\* Mutant: the radio counts as suspended while it is taken down.
SuspendEarly ==
  /\ Idle("hook") /\ ~ suspended /\ inited
  /\ Becomes("hook", "suspend", "begin")
  /\ self' \in {FALSE, worker = "callback"}
  /\ suspended' = TRUE
  /\ UNCHANGED <<inited, started, synced, connected, resume_start, queue, worker, nimble,
                 air, host, past>>

\* By a task of the MQTT client, or by the worker's callback that opens a connection.
Suspend ==
  /\ Idle("hook") /\ ~ suspended /\ inited
  /\ Becomes("hook", "suspend", "begin")
  /\ self' \in {FALSE, worker = "callback"}
  /\ UNCHANGED <<flags, queue, worker, nimble, air, host, past>>

Resume ==
  /\ Idle("hook") /\ suspended
  /\ suspended' = FALSE
  /\ IF inited
     THEN /\ IF resume_start THEN Becomes("hook", "restart", "begin") ELSE UNCHANGED calls
          /\ UNCHANGED past
     ELSE Becomes("hook", "resume", "init") /\ Accepted("hook", "resume")
  /\ UNCHANGED <<inited, started, synced, connected, resume_start, rx, nimble, air, host>>

-----------------------------------------------------------------------------
\* The host task: on_sync, on_reset, gap_event and rx_access_cb

HostFree == nimble = "running" /\ host = "idle"

\* Mutant: the event does not look whether the radio was stopped.
HostAlways == host' = "check"

\* Each of these events looks at s_started and goes on to ble_start_advertising.
HostChecks == host' = IF started THEN "check" ELSE "idle"

\* Mutant: on_sync leaves the advertising to iotmer_ble_start.
SyncQuietly ==
  /\ HostFree /\ ~ synced
  /\ synced' = TRUE
  /\ UNCHANGED <<inited, started, connected, suspended, resume_start, rx, nimble, air, host,
                 calls, past>>

Sync ==
  /\ HostFree /\ ~ synced
  /\ synced' = TRUE
  /\ HostChecks
  /\ UNCHANGED <<inited, started, connected, suspended, resume_start, rx, nimble, air,
                 calls, past>>

\* The controller was reset: nothing is on the air.
Reset ==
  /\ HostFree /\ synced
  /\ synced' = FALSE /\ connected' = FALSE /\ adv' = FALSE /\ link' = FALSE
  /\ UNCHANGED <<inited, started, suspended, resume_start, rx, nimble, host, overtaken,
                 calls, past>>

Connect ==
  /\ HostFree /\ adv /\ ~ link
  /\ adv' = FALSE
  /\ \/ link' = TRUE /\ connected' = TRUE /\ UNCHANGED host
     \/ connected' = FALSE /\ HostChecks /\ UNCHANGED link     \* the connection failed
  /\ UNCHANGED <<inited, started, synced, suspended, resume_start, rx, nimble, overtaken,
                 calls, past>>

Disconnect ==
  /\ HostFree /\ link
  /\ link' = FALSE /\ connected' = FALSE
  /\ HostChecks
  /\ UNCHANGED <<inited, started, synced, suspended, resume_start, rx, nimble, adv,
                 overtaken, calls, past>>

HostStartsAir ==
  /\ host = "check"
  /\ host' = IF synced THEN "air" ELSE "idle"
  /\ IF synced THEN AirBegins ELSE UNCHANGED air
  /\ UNCHANGED <<flags, rx, nimble, calls, past>>

HostOnAir ==
  /\ host = "air"
  /\ host' = "idle"
  /\ AirStarts
  /\ UNCHANGED <<flags, rx, nimble, calls, past>>

\* on_rx_json: with the queue seen, the frame is sent to it or, if it is full, dropped.
Receive ==
  /\ HostFree /\ link /\ queue # NoQueue
  /\ host' = "rx"
  /\ UNCHANGED <<flags, rx, nimble, air, calls, past>>

\* Mutant: a frame is stored in a full queue, too.
SendUnbounded ==
  /\ host = "rx"
  /\ host' = "idle"
  /\ queue' = queue + 1
  /\ UNCHANGED <<flags, worker, self, nimble, air, calls, past>>

Send ==
  /\ host = "rx"
  /\ host' = "idle"
  /\ queue' = IF queue < QueueLen THEN queue + 1 ELSE queue
  /\ UNCHANGED <<flags, worker, self, nimble, air, calls, past>>

\* ble_rx_worker
WorkerTakes ==
  /\ worker = "waiting" /\ queue > 0
  /\ queue' = queue - 1 /\ worker' = "callback"
  /\ UNCHANGED <<flags, self, nimble, air, host, calls, past>>

WorkerReturns ==
  /\ worker = "callback" /\ ~ self
  /\ worker' = "waiting"
  /\ UNCHANGED <<flags, queue, self, nimble, air, host, calls, past>>

-----------------------------------------------------------------------------
AppCalls ==
  /\ Idle("app")
  /\ \/ InitBegins("app", "init")
     \/ /\ \E f \in {"start", "stop", "deinit"} : Becomes("app", f, "begin")
        /\ UNCHANGED <<flags, rx, nimble, air, host, past>>

\* What the code does not order: a NimBLE call after the port is gone, a second
\* teardown, or a second worker's teardown. The device restarts.
Clash ==
  /\ \/ \E c \in Caller : at[c] \in {"check", "air", "silence", "port"} /\ nimble # "running"
     \/ \A c \in Caller : at[c] \in TearPlace
  /\ at' = [c \in Caller |-> "idle"] /\ call' = [c \in Caller |-> "none"]
  /\ inited' = FALSE /\ started' = FALSE /\ synced' = FALSE
  /\ connected' = FALSE /\ suspended' = FALSE /\ resume_start' = FALSE
  /\ queue' = NoQueue /\ nimble' = "off" /\ adv' = FALSE /\ link' = FALSE
  /\ host' = "idle" /\ worker' = "none" /\ self' = FALSE
  /\ wish' = FALSE /\ raced' = FALSE /\ halfway' = FALSE /\ overtaken' = FALSE

CallerSteps(c) ==
  \/ InitPort(c) \/ InitFails(c) \/ InitEnds(c)
  \/ StartBegins(c) \/ StartSets(c) \/ StartChecks(c) \/ StartEnds(c)
  \/ StopBegins(c) \/ StopSilences(c) \/ StopEnds(c)
  \/ PortStops(c) \/ WorkerEnds(c) \/ QueueEnds(c) \/ DeinitEnds(c) \/ Refused(c)

HostSteps ==
  \/ Sync \/ Reset \/ Connect \/ Disconnect
  \/ HostStartsAir \/ HostOnAir \/ Receive \/ Send

Next ==
  \/ AppCalls \/ Suspend \/ Resume
  \/ (\E c \in Caller : CallerSteps(c))
  \/ HostSteps \/ WorkerTakes \/ WorkerReturns
  \/ Clash

Spec == Init /\ [][Next]_vars

-----------------------------------------------------------------------------
\* Properties

Quiet == host = "idle" /\ \A c \in Caller : Idle(c)

\* Past the first step of iotmer_ble_stop's return, the device does not advertise until
\* it is started again ("Stop advertising", iotmer_ble.h): every event of the host looks
\* at s_started first. The exception is a task that was past that look when the flag
\* fell: it may advertise after the stop, for as long as the radio is up.
StoppedIsQuiet ==
  adv /\ ~ started => overtaken \/ \E c \in Caller : at[c] = "silence"

\* A started radio in sync with its controller is on the air or connected once every
\* task is through. iotmer_ble_start raises s_started before it looks at s_synced and
\* on_sync the other way around, so whichever comes last advertises; so do the ends
\* of connections. Calls of two tasks at a time can leave it silent.
OnAir ==
  Quiet /\ ~ raced /\ inited /\ nimble = "running" /\ started /\ synced => adv \/ link

\* iotmer_ble_resume "restarts advertising if it was active before": between calls, an
\* initialised radio is started as the application last asked, over any number of
\* suspensions, the ones that could not resume at first included.
ResumeRestores ==
  Quiet /\ ~ raced /\ inited => started = wish

\* "True while the radio is suspended": whoever sees iotmer_ble_is_suspended finds the
\* controller's memory free. An initialisation that failed after nimble_port_init keeps
\* it, and so may one the application began meanwhile.
SuspendedIsOff ==
  suspended => nimble = "off" \/ halfway \/ raced

\* Neither the host, between its look at s_rx_queue and the send, nor the worker that
\* waits on the queue is left with one that iotmer_ble_deinit has deleted: the host goes
\* first, then the worker, then the queue. (Of two calls at a time, one may initialise
\* the radio over the queue the other is about to delete.)
QueueOutlivesUsers ==
  (host = "rx" \/ worker # "none") => queue # NoQueue \/ raced
=============================================================================
