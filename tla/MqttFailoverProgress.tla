------------------------- MODULE MqttFailoverProgress -------------------------
(***************************************************************************)
(* What the broker selection of MqttFailover eventually does.              *)
(*                                                                         *)
(* Fairness is only what the scheduling of the device gives: time passes,  *)
(* a timer that is due fires, and the failover task, which nothing blocks  *)
(* for ever (HTTP requests and handshakes have timeouts), goes round its   *)
(* loop.  Each round looks at the cycle flag, at the probes and at the     *)
(* restart flag before the daily refresh, which comes once in 24 hours:    *)
(* a probe that is due in infinitely many rounds is not for ever           *)
(* overtaken, which is strong fairness.  The broker, the Wi-Fi link, the   *)
(* provisioning server and the application owe nothing.                    *)
(***************************************************************************)
EXTENDS MqttFailoverHistory

WorkerFinishes ==
  \/ RefreshKeeps \/ \E neu \in Directories : RefreshApplies(neu)
  \/ WorkerReset
  \/ WorkerHard
  \/ ProbeIgnored \/ ProbeFailed \/ \E delay \in 0 .. Jitter : ProbeHealthy(delay)

Fairness ==
  /\ WF_vars(Tick)
  /\ WF_vars(TimerFires)
  /\ WF_vars(WorkerFinishes)
  /\ SF_vars(WorkerCycle)
  /\ SF_vars(WorkerRestart)
  /\ SF_vars(FailbackDue \/ ProbeStart)

FairSpec == HSpec /\ Fairness

-------------------------------------------------------------------------------
(* The device keeps trying: as long as the application does not keep       *)
(* tearing the client down, an attempt is alive or the reconnect timer     *)
(* fires again and again, through host changes, failed refreshes, restarts *)
(* and whole failed cycles, unless a stale suppress token hid the loss of  *)
(* the link and nothing else ever moves it.                                *)
RetriesForever ==
  <>[][~AppReconnectHard]_vars
    => []<>(link \in Alive \/ timer = 0) \/ <>[]swallowed

(* A session does not stay on a backup for ever unless the probes of the   *)
(* primary keep failing: good probes fill the health window, the failback  *)
(* is armed, falls due and is carried out, whatever lists and refreshes    *)
(* come in between.                                                        *)
FailbackHappens ==
  <>[](connected /\ session_on_backup /\ CanSwitch) => []<><<ProbeFailed>>_vars

===============================================================================
