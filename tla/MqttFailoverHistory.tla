-------------------------- MODULE MqttFailoverHistory --------------------------
(***************************************************************************)
(* MqttFailover with history variables, and the properties stated over     *)
(* them.  The history variables record what happened to the hosts          *)
(* themselves, whatever the counters of the code say; no action reads      *)
(* them, so every behaviour of MqttFailover is a behaviour of this module. *)
(***************************************************************************)
EXTENDS MqttFailover

VARIABLES
  fail_host,     \* host whose failures are being counted, NoHost for none
  fails,         \* its failures in a row, saturated at SameHostAttempts
  fail_age,      \* age of the first of them, saturated at FailWindow
  fail_rebased,  \* some were not of the selected host, or a list moved it
  probed,        \* primary being probed for the present session, or NoHost
  ok_host,       \* host with an unbroken run of good probes since CONNACK
  ok_age,        \* age of the first of them, saturated at HealthWindow
  swapped,       \* a list with another primary arrived since CONNACK
  rebased,       \* a list or a reset moved the selection under a live handle
  swallowed,     \* a token hid the loss of the link now waiting
  home           \* backup a failback left, NoHost once a list has replaced it

failRun   == <<fail_host, fails, fail_age, fail_rebased>>
okRun     == <<probed, ok_host, ok_age, swapped>>
history   == <<failRun, okRun, rebased, swallowed, home>>
hvars     == <<vars, history>>

NoFailRun == fail_host' = NoHost /\ fails' = 0 /\ fail_age' = Unset
             /\ fail_rebased' = FALSE
NoOkRun   == ok_host' = NoHost /\ ok_age' = Unset /\ swapped' = FALSE

Primary(d) == d[PrimaryIndex(d)].host

(* One more failure of the host the handle is bound to.                    *)
FailsNow   == IF fail_host = mqtt THEN AtMost(fails + 1, SameHostAttempts) ELSE 1
FailAgeNow == IF fail_host = mqtt THEN AtLeast(fail_age, 0) ELSE 0

CountFailure ==
  /\ fail_host' = mqtt
  /\ fails' = FailsNow
  /\ fail_age' = FailAgeNow
  /\ fail_rebased' = (fail_rebased \/ dir[index].host # mqtt)

(* One more good probe of the host `probed`.                               *)
OkAgeNow == IF ok_host = probed THEN AtLeast(ok_age, 0) ELSE 0

CountHealthy ==
  /\ ok_host' = probed
  /\ ok_age' = OkAgeNow
  /\ probed' = NoHost
  /\ UNCHANGED swapped

-------------------------------------------------------------------------------
HInit ==
  /\ Init
  /\ fail_host = NoHost /\ fails = 0 /\ fail_age = Unset /\ fail_rebased = FALSE
  /\ probed = NoHost /\ ok_host = NoHost /\ ok_age = Unset /\ swapped = FALSE
  /\ rebased = FALSE /\ swallowed = FALSE /\ home = NoHost

HConnack ==
  /\ Connack
  /\ NoFailRun /\ NoOkRun
  /\ probed' = NoHost
  /\ home' = NoHost
  /\ UNCHANGED <<rebased, swallowed>>

HDisconnected ==
  /\ \/ (DisconnectSuppressed \/ DisconnectWifiDown \/ DisconnectRefused)
        /\ UNCHANGED <<failRun, home>>
     \/ DisconnectFailback /\ UNCHANGED failRun /\ home' = NoHost
     \/ DisconnectStay /\ CountFailure /\ UNCHANGED home
     \/ (LeaveHost \/ LeaveLast) /\ NoFailRun /\ UNCHANGED home
  /\ swallowed' = (suppress > 0)
  /\ UNCHANGED <<okRun, rebased>>

(* With the handle gone, how its link was lost no longer matters.           *)
HTeardown ==
  /\ swallowed' = FALSE
  /\ UNCHANGED <<failRun, okRun, rebased, home>>

HTimer ==
  \/ (TimerHard \/ TimerSoftFails) /\ HTeardown
  \/ /\ TimerStart
     /\ rebased' = (rebased /\ mqtt' = NoHost)
     /\ UNCHANGED <<failRun, okRun, swallowed, home>>
  \/ /\ TimerSoft
     /\ swallowed' = FALSE
     /\ UNCHANGED <<failRun, okRun, rebased, home>>

(* What a new list does to the history.                                    *)
HCommit(neu) ==
  /\ fail_rebased' = (fail_rebased \/ ~connected)
  /\ swapped' = (swapped \/ Primary(neu) # Primary(dir))
  /\ rebased' = (rebased \/ (mqtt # NoHost /\ (~connected \/ FindHost(neu, mqtt) = 0)))
  /\ home' = NoHost
  /\ UNCHANGED <<fail_host, fails, fail_age, probed, ok_host, ok_age, swallowed>>

(* A failback remembers the backup it leaves, when the handle is on it.    *)
HBeginFailback ==
  home' = IF failback_active' /\ ~failback_active /\ ~rebased THEN mqtt ELSE home

HWorker ==
  \/ (WorkerDaily \/ WorkerCycle \/ RefreshKeeps \/ WorkerRestart)
     /\ UNCHANGED history
  \/ \E neu \in Directories : RefreshApplies(neu) /\ HCommit(neu)
  \/ WorkerReset /\ NoFailRun /\ home' = NoHost
     /\ rebased' = (rebased \/ mqtt # NoHost)
     /\ UNCHANGED <<okRun, swallowed>>
  \/ WorkerHard /\ HTeardown
  \/ FailbackDue /\ HBeginFailback /\ UNCHANGED <<failRun, okRun, rebased, swallowed>>
  \/ ProbeStart /\ probed' = (IF ProbeDue THEN Primary(dir) ELSE NoHost)
     /\ UNCHANGED <<failRun, ok_host, ok_age, swapped, rebased, swallowed, home>>
  \/ ProbeIgnored /\ probed' = NoHost
     /\ UNCHANGED <<failRun, ok_host, ok_age, swapped, rebased, swallowed, home>>
  \/ ProbeFailed /\ probed' = NoHost /\ ok_host' = NoHost /\ ok_age' = Unset
     /\ UNCHANGED <<failRun, swapped, rebased, swallowed, home>>
  \/ \E delay \in 0 .. Jitter :
       ProbeHealthy(delay) /\ HBeginFailback /\ CountHealthy
       /\ UNCHANGED <<failRun, rebased, swallowed>>

HNext ==
  \/ HConnack
  \/ (\E why \in Latches : Error(why)) /\ UNCHANGED history
  \/ HDisconnected
  \/ HTimer
  \/ HWorker
  \/ \E neu \in Directories : Ingest(neu) /\ HCommit(neu)
  \/ AppReconnectHard /\ HTeardown
  \/ WifiChange /\ UNCHANGED history
  \/ /\ Tick
     /\ fail_age' = Older(fail_age, FailWindow)
     /\ ok_age' = Older(ok_age, HealthWindow)
     /\ UNCHANGED <<fail_host, fails, fail_rebased, probed, ok_host, swapped,
                    rebased, swallowed, home>>

HSpec == HInit /\ [][HNext]_hvars

-------------------------------------------------------------------------------
(* Properties.                                                             *)

(* The link was lost to the broker and the selection moves on: to the next *)
(* entry, or to a refresh of the whole list.                               *)
Leaves ==
  /\ link \in Alive /\ link' = "waiting"
  /\ ~failback_active
  /\ index' # index \/ (refresh_full_cycle' /\ ~refresh_full_cycle)

FailedEnough ==
  /\ wifi
  /\ latch \notin {"auth", "protocol"}
  /\ FailsNow >= SameHostAttempts
  /\ FailAgeNow >= FailWindow

(* A host is left only with Wi-Fi up, for a failure that is not a refused  *)
(* CONNACK, and after same_host_attempts failures of that very host that   *)
(* span min_fail_window_sec, with no successful CONNACK between them: the  *)
(* leave rule of on_disconnect, for as long as no list arrived between     *)
(* sessions while those failures were counted.                             *)
LeaveRule == [][Leaves => FailedEnough \/ fail_rebased]_hvars

BeginsFailback == failback_active' /\ ~failback_active

(* Including the result of a probe that ends in this step.                 *)
ProvenFor(h) ==
  \/ ok_host = h /\ ok_age >= HealthWindow
  \/ worker = "probing" /\ probed = h /\ OkAgeNow >= HealthWindow

(* A working backup session is given up for a primary only after that      *)
(* primary answered every probe of this session for failback_healthy_sec,  *)
(* for as long as no new list replaced the primary during the session.     *)
FailbackRule ==
  [][BeginsFailback => ProvenFor(dir'[index'].host) \/ swapped]_hvars

(* A failback CONNECT that fails with Wi-Fi up selects the backup it came  *)
(* from again and forces a fresh client for it, unless a new list came in  *)
(* between: the failback branch of on_disconnect.                          *)
FailbackReturns ==
  [][ (/\ failback_active /\ wifi /\ suppress = 0
       /\ link \in Alive /\ link' = "waiting"
       /\ home # NoHost)
      => dir'[index'].host = home /\ need_hard' ]_hvars

(* An open session is on the endpoint the failover believes it is on: the  *)
(* selected host, the recorded last good host and the backup flag that     *)
(* drives the probes all agree with the host the handle is bound to.       *)
(* Exceptions: a list that arrived with no session or that dropped the     *)
(* host, and a rebuild of the handle that is already decided.              *)
SessionOnSelected ==
  connected /\ ~rebased /\ worker # "hard" /\ ~need_hard
    => /\ dir[index].host = mqtt
       /\ last_good = mqtt
       /\ session_on_backup = (dir[index].role = "backup")

(* The device never sits without a session and without a plan: when no     *)
(* attempt is alive, the reconnect timer runs or the failover task still   *)
(* has a refresh or a hard reconnect to do that arms it.  (Auto-reconnect  *)
(* of esp-mqtt is off.)  Exception: a suppress token that outlived its     *)
(* teardown hid the loss of the link.                                      *)
NeverStranded ==
  link \in {"none", "waiting"} /\ ~swallowed
    => timer # Unset \/ refresh_full_cycle \/ worker \in {"cycle", "reset", "hard"}

(* The same without the exception.                                         *)
AlwaysRetrying ==
  link \in {"none", "waiting"}
    => timer # Unset \/ refresh_full_cycle \/ worker \in {"cycle", "reset", "hard"}

===============================================================================
