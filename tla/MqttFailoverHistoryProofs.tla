----------------------- MODULE MqttFailoverHistoryProofs -----------------------
(***************************************************************************)
(* Type correctness of MqttFailover and the safety properties of           *)
(* MqttFailoverHistory, proved for every set of hosts, every set of        *)
(* endpoint lists and every policy and timer value.                        *)
(***************************************************************************)
EXTENDS MqttFailoverHistory, TLAPS

(* A list of at most four entries has a first entry with a property that   *)
(* some entry has.                                                         *)
LEMMA FirstIndex ==
  ASSUME NEW n \in 1 .. EndpointMax, NEW S \in SUBSET (1 .. n), S # {}
  PROVE  \E i \in S : \A j \in 1 .. (i - 1) : j \notin S
<1>1. \A i \in S : i = 1 \/ i = 2 \/ i = 3 \/ i = 4
  BY DEF EndpointMax
<1>2. CASE 1 \in S
  BY <1>2
<1>3. CASE 1 \notin S /\ 2 \in S
  BY <1>3
<1>4. CASE 1 \notin S /\ 2 \notin S /\ 3 \in S
  BY <1>4
<1>5. CASE 1 \notin S /\ 2 \notin S /\ 3 \notin S /\ 4 \in S
  BY <1>5
<1> QED
  BY <1>1, <1>2, <1>3, <1>4, <1>5

(* A list has one to four entries.                                         *)
LEMMA ListLength ==
  ASSUME NEW d \in Directories
  PROVE  Len(d) \in Int /\ 1 <= Len(d) /\ Len(d) <= 4
<1>1. Len(d) \in 1 .. 4
  BY DirectoriesAssumption DEF EndpointMax
<1>2. \A n \in 1 .. 4 : n \in Int /\ 1 <= n /\ n <= 4
  OBVIOUS
<1> QED
  BY <1>1, <1>2, Zenon

(* find_host gives -1, or the place of an entry with that host.            *)
LEMMA FindHostFinds ==
  ASSUME NEW d \in Directories, NEW h
  PROVE  /\ FindHost(d, h) \in 0 .. Len(d)
         /\ FindHost(d, h) > 0 => d[FindHost(d, h)].host = h
<1> DEFINE S == { i \in 1 .. Len(d) : d[i].host = h }
<1>1. Len(d) \in 1 .. EndpointMax
  BY DirectoriesAssumption
<1>2. CASE S = {}
  <2>1. FindHost(d, h) = 0
    BY <1>2 DEF FindHost
  <2> QED
    BY <1>1, <2>1 DEF EndpointMax
<1>3. CASE S # {}
  <2>1. PICK i \in S : \A j \in 1 .. (i - 1) : j \notin S
    BY <1>1, <1>3, FirstIndex
  <2>2. i \in 1 .. Len(d) /\ d[i].host = h /\ \A j \in 1 .. (i - 1) : d[j].host # h
    BY <1>1, <2>1 DEF EndpointMax
  <2>3. /\ FindHost(d, h) \in 1 .. Len(d)
        /\ d[FindHost(d, h)].host = h
    BY <2>2 DEF FindHost
  <2> QED
    BY <1>1, <2>3 DEF EndpointMax
<1> QED
  BY <1>2, <1>3

(* primary_index_of gives the place of an entry.                           *)
LEMMA PrimaryIndexInList ==
  ASSUME NEW d \in Directories
  PROVE  PrimaryIndex(d) \in 1 .. Len(d)
<1> DEFINE S == { i \in 1 .. Len(d) : d[i].role = "primary" }
<1>1. Len(d) \in 1 .. EndpointMax
  BY DirectoriesAssumption
<1>2. CASE S = {}
  BY <1>1, <1>2 DEF PrimaryIndex, EndpointMax
<1>3. CASE S # {}
  <2>1. PICK i \in S : \A j \in 1 .. (i - 1) : j \notin S
    BY <1>1, <1>3, FirstIndex
  <2>2. /\ i \in 1 .. Len(d) /\ d[i].role = "primary"
        /\ \A j \in 1 .. (i - 1) : d[j].role # "primary"
    BY <1>1, <2>1 DEF EndpointMax
  <2> QED
    BY <2>2 DEF PrimaryIndex
<1> QED
  BY <1>2, <1>3

(* The host of an entry is a host.                                         *)
LEMMA EntryHost ==
  ASSUME NEW d \in Directories, NEW i \in 1 .. Len(d)
  PROVE  d[i].host \in Host
<1>1. d \in Seq(Endpoint) /\ Len(d) \in Nat
  BY DirectoriesAssumption DEF EndpointMax
<1>2. d[i] \in Endpoint
  BY <1>1
<1> QED
  BY <1>2 DEF Endpoint

-------------------------------------------------------------------------------
(* Type correctness.                                                       *)

(* What TypeOK needs of the constants.                                     *)
LEMMA ConstantTypes ==
  /\ SameHostAttempts \in Nat \ {0} /\ FailWindow \in Nat /\ HealthWindow \in Nat
  /\ ProbeInterval \in Nat /\ Jitter \in Nat
  /\ ReconnectWait \in Nat /\ AuthWait \in Nat /\ SettleWait \in Nat
  /\ SuppressMax \in Nat \ {0}
BY PolicyAssumption, TimerAssumption

(* A list that is adopted, with or without a session, keeps the types.     *)
LEMMA CommitType ==
  ASSUME TypeOK, NEW neu \in Directories, Commit(neu),
         worker' \in Refreshing \cup {"idle", "reset", "probing", "hard"},
         UNCHANGED <<clientVars, timer, wifi>>
  PROVE  TypeOK'
<1>1. Len(neu) \in 1 .. EndpointMax
  BY DirectoriesAssumption
<1>2. StayIndex(neu) \in 0 .. Len(neu)
  BY FindHostFinds DEF StayIndex
<1>3. index' \in 1 .. Len(dir')
  <2>1. CASE CommitStay(neu)
    BY <1>1, <1>2, <2>1 DEF Commit, CommitStay, EndpointMax
  <2>2. CASE CommitGone(neu) \/ CommitIdle
    BY <1>1, <2>2 DEF Commit, CommitGone, CommitIdle, EndpointMax
  <2> QED
    BY <2>1, <2>2 DEF Commit
<1>4. FlagType'
  <2>1. CASE CommitStay(neu)
    BY <2>1, Zenon DEF Commit, CommitStay, TypeOK, FlagType, clientVars
  <2>2. CASE CommitGone(neu)
    BY <2>2, Zenon DEF Commit, CommitGone, BumpGen, TypeOK, FlagType, clientVars
  <2>3. CASE CommitIdle
    BY <2>3, Zenon
    DEF Commit, CommitIdle, TypeOK, FlagType, clientVars, probeVars
  <2> QED
    BY <2>1, <2>2, <2>3 DEF Commit
<1>5. SelectionType'
  BY <1>3 DEF Commit, TypeOK, SelectionType, clientVars
<1>6. CountType'
  <2>1. CASE CommitStay(neu)
    BY <2>1, ConstantTypes
    DEF Commit, CommitStay, TypeOK, CountType, windowVars, Unset
  <2>2. CASE CommitGone(neu)
    BY <2>2, ConstantTypes
    DEF Commit, CommitGone, ClearWindow, TypeOK, CountType, Unset
  <2>3. CASE CommitIdle
    BY <2>3 DEF Commit, CommitIdle, TypeOK, CountType, windowVars, probeVars
  <2> QED
    BY <2>1, <2>2, <2>3 DEF Commit
<1> QED
  BY <1>4, <1>5, <1>6 DEF TypeOK

(* What a teardown does to the variables that it changes.                  *)
TeardownTypes ==
  /\ suppress' \in 0 .. SuppressMax
  /\ latch' \in Latches
  /\ probe_current' \in BOOLEAN
  /\ mqtt' = NoHost
  /\ link' = "none"
  /\ connected' = FALSE

LEMMA TeardownType ==
  ASSUME TypeOK, Teardown
  PROVE  TeardownTypes
<1>1. suppress' \in 0 .. SuppressMax
  BY ConstantTypes
  DEF Teardown, TeardownSilent, TeardownEvent, AtMost, TypeOK, CountType
<1>2. latch' \in Latches
  BY DEF Teardown, TeardownSilent, TeardownEvent, TypeOK, SelectionType, Latches
<1>3. probe_current' \in BOOLEAN
  BY Zenon DEF Teardown, TeardownSilent, TeardownEvent, BumpGen, TypeOK, FlagType
<1>4. mqtt' = NoHost /\ link' = "none" /\ connected' = FALSE
  BY DEF Teardown
<1> QED
  BY <1>1, <1>2, <1>3, <1>4 DEF TeardownTypes

(* The MQTT events.                                                        *)
LEMMA MqttEventType ==
  ASSUME TypeOK, MqttEvent
  PROVE  TypeOK'
<1>1. CASE Connack
  <2>1. dir[index].host \in Host
    BY EntryHost DEF TypeOK, SelectionType
  <2>2. FlagType'
    BY <1>1, Zenon
    DEF Connack, ClearWindow, ResetProbeWindow, BumpGen, flagVars, TypeOK,
        FlagType
  <2>3. SelectionType'
    BY <1>1, <2>1
    DEF Connack, ClearWindow, ResetProbeWindow, BumpGen, flagVars, TypeOK,
        SelectionType, Latches, Alive, EndpointMax
  <2>4. CountType'
    BY <1>1, <2>1, ConstantTypes
    DEF Connack, ClearWindow, ResetProbeWindow, BumpGen, flagVars, TypeOK,
        CountType, Unset
  <2> QED
    BY <2>2, <2>3, <2>4 DEF TypeOK
<1>2. ASSUME NEW why \in Latches, Error(why)
      PROVE  TypeOK'
  <2>1. FlagType'
    BY <1>2, Zenon
    DEF Error, dirVars, windowVars, failbackVars, probeVars, flagVars, TypeOK,
        FlagType
  <2>2. SelectionType'
    BY <1>2
    DEF Error, dirVars, windowVars, failbackVars, probeVars, flagVars, TypeOK,
        SelectionType, Latches, Alive, EndpointMax
  <2>3. CountType'
    BY <1>2, ConstantTypes
    DEF Error, dirVars, windowVars, failbackVars, probeVars, flagVars, TypeOK,
        CountType, Unset
  <2> QED
    BY <2>1, <2>2, <2>3 DEF TypeOK
<1>3. CASE DisconnectSuppressed
  <2>1. FlagType'
    BY <1>3, Zenon
    DEF DisconnectSuppressed, LinkLost, BumpGen, dirVars, windowVars,
        failbackVars, probeVars, TypeOK, FlagType
  <2>2. SelectionType'
    BY <1>3
    DEF DisconnectSuppressed, LinkLost, BumpGen, dirVars, windowVars,
        failbackVars, probeVars, TypeOK, SelectionType, Latches, Alive, EndpointMax
  <2>3. CountType'
    BY <1>3, ConstantTypes
    DEF DisconnectSuppressed, LinkLost, BumpGen, dirVars, windowVars,
        failbackVars, probeVars, TypeOK, CountType, Unset
  <2> QED
    BY <2>1, <2>2, <2>3 DEF TypeOK
<1>4. CASE DisconnectWifiDown
  <2>1. FlagType'
    BY <1>4, Zenon
    DEF DisconnectWifiDown, OnDisconnect, LinkLost, BumpGen, dirVars,
        windowVars, probeVars, TypeOK, FlagType
  <2>2. SelectionType'
    BY <1>4
    DEF DisconnectWifiDown, OnDisconnect, LinkLost, BumpGen, dirVars,
        windowVars, probeVars, TypeOK, SelectionType, Latches, Alive, EndpointMax
  <2>3. CountType'
    BY <1>4, ConstantTypes
    DEF DisconnectWifiDown, OnDisconnect, LinkLost, BumpGen, dirVars,
        windowVars, probeVars, TypeOK, CountType, Unset
  <2> QED
    BY <2>1, <2>2, <2>3 DEF TypeOK
<1>5. CASE DisconnectFailback
  <2>1. Len(dir) \in 1 .. EndpointMax
    BY DirectoriesAssumption DEF TypeOK, SelectionType
  <2>2. FlagType'
    BY <1>5, Zenon
    DEF DisconnectFailback, OnDisconnect, LinkLost, BumpGen, dirVars,
        ClearWindow, ResetProbeWindow, TypeOK, FlagType
  <2>3. SelectionType'
    BY <1>5, <2>1
    DEF DisconnectFailback, OnDisconnect, LinkLost, BumpGen, dirVars,
        ClearWindow, ResetProbeWindow, TypeOK, SelectionType, Latches, Alive,
        EndpointMax
  <2>4. CountType'
    BY <1>5, <2>1, ConstantTypes
    DEF DisconnectFailback, OnDisconnect, LinkLost, BumpGen, dirVars,
        ClearWindow, ResetProbeWindow, TypeOK, CountType, Unset
  <2> QED
    BY <2>2, <2>3, <2>4 DEF TypeOK
<1>6. CASE DisconnectRefused
  <2>1. FlagType'
    BY <1>6, Zenon
    DEF DisconnectRefused, OnDisconnect, LinkLost, BumpGen, dirVars,
        windowVars, probeVars, TypeOK, FlagType
  <2>2. SelectionType'
    BY <1>6
    DEF DisconnectRefused, OnDisconnect, LinkLost, BumpGen, dirVars,
        windowVars, probeVars, TypeOK, SelectionType, Latches, Alive, EndpointMax
  <2>3. CountType'
    BY <1>6, ConstantTypes
    DEF DisconnectRefused, OnDisconnect, LinkLost, BumpGen, dirVars,
        windowVars, probeVars, TypeOK, CountType, Unset
  <2> QED
    BY <2>1, <2>2, <2>3 DEF TypeOK
<1>7. CASE DisconnectStay
  <2>1. FlagType'
    BY <1>7, Zenon
    DEF DisconnectStay, BrokerFailure, OnDisconnect, LinkLost, BumpGen,
        dirVars, probeVars, FailuresNow, WindowNow, AtMost, AtLeast, TypeOK,
        FlagType
  <2>2. SelectionType'
    BY <1>7
    DEF DisconnectStay, BrokerFailure, OnDisconnect, LinkLost, BumpGen,
        dirVars, probeVars, FailuresNow, WindowNow, AtMost, AtLeast, TypeOK,
        SelectionType, Latches, Alive, EndpointMax
  <2>3. CountType'
    BY <1>7, ConstantTypes
    DEF DisconnectStay, BrokerFailure, OnDisconnect, LinkLost, BumpGen,
        dirVars, probeVars, FailuresNow, WindowNow, AtMost, AtLeast, TypeOK,
        CountType, Unset
  <2> QED
    BY <2>1, <2>2, <2>3 DEF TypeOK
<1>8. CASE LeaveHost
  <2>1. Len(dir) \in 1 .. EndpointMax
    BY DirectoriesAssumption DEF TypeOK, SelectionType
  <2>2. FlagType'
    BY <1>8, Zenon
    DEF LeaveHost, BrokerFailure, OnDisconnect, LinkLost, BumpGen, dirVars,
        AtEnd, ClearWindow, ResetProbeWindow, TypeOK, FlagType
  <2>3. SelectionType'
    BY <1>8, <2>1
    DEF LeaveHost, BrokerFailure, OnDisconnect, LinkLost, BumpGen, dirVars,
        AtEnd, ClearWindow, ResetProbeWindow, TypeOK, SelectionType, Latches,
        Alive, EndpointMax
  <2>4. CountType'
    BY <1>8, <2>1, ConstantTypes
    DEF LeaveHost, BrokerFailure, OnDisconnect, LinkLost, BumpGen, dirVars,
        AtEnd, ClearWindow, ResetProbeWindow, TypeOK, CountType, Unset
  <2> QED
    BY <2>2, <2>3, <2>4 DEF TypeOK
<1>9. CASE LeaveLast
  <2>1. FlagType'
    BY <1>9, Zenon
    DEF LeaveLast, BrokerFailure, OnDisconnect, LinkLost, BumpGen, dirVars,
        ClearWindow, ResetProbeWindow, TypeOK, FlagType
  <2>2. SelectionType'
    BY <1>9
    DEF LeaveLast, BrokerFailure, OnDisconnect, LinkLost, BumpGen, dirVars,
        ClearWindow, ResetProbeWindow, TypeOK, SelectionType, Latches, Alive,
        EndpointMax
  <2>3. CountType'
    BY <1>9, ConstantTypes
    DEF LeaveLast, BrokerFailure, OnDisconnect, LinkLost, BumpGen, dirVars,
        ClearWindow, ResetProbeWindow, TypeOK, CountType, Unset
  <2> QED
    BY <2>1, <2>2, <2>3 DEF TypeOK
<1> QED
  BY <1>1, <1>2, <1>3, <1>4, <1>5, <1>6, <1>7, <1>8, <1>9
  DEF MqttEvent, Disconnected

(* The reconnect timer.                                                    *)
LEMMA TimerType ==
  ASSUME TypeOK, TimerFires
  PROVE  TypeOK'
<1>1. CASE TimerHard
  <2>1. TeardownTypes
    BY <1>1, TeardownType DEF TimerHard
  <2>2. FlagType'
    BY <1>1, <2>1, Zenon
    DEF TimerHard, dirVars, windowVars, failbackVars, probeVars, flagVars,
        TeardownTypes, TypeOK, FlagType
  <2>3. SelectionType'
    BY <1>1, <2>1
    DEF TimerHard, dirVars, windowVars, failbackVars, probeVars, flagVars,
        TeardownTypes, TypeOK, SelectionType, Latches, Alive, EndpointMax
  <2>4. CountType'
    BY <1>1, <2>1, ConstantTypes
    DEF TimerHard, dirVars, windowVars, failbackVars, probeVars, flagVars,
        TeardownTypes, TypeOK, CountType, Unset
  <2> QED
    BY <2>2, <2>3, <2>4 DEF TypeOK
<1>2. CASE TimerStart
  <2>1. dir[index].host \in Host
    BY EntryHost DEF TypeOK, SelectionType
  <2>2. FlagType'
    BY <1>2, Zenon
    DEF TimerStart, StartFails, dirVars, windowVars, failbackVars, probeVars,
        flagVars, TypeOK, FlagType
  <2>3. SelectionType'
    BY <1>2, <2>1
    DEF TimerStart, StartFails, dirVars, windowVars, failbackVars, probeVars,
        flagVars, TypeOK, SelectionType, Latches, Alive, EndpointMax
  <2>4. CountType'
    BY <1>2, <2>1, ConstantTypes
    DEF TimerStart, StartFails, dirVars, windowVars, failbackVars, probeVars,
        flagVars, TypeOK, CountType, Unset
  <2> QED
    BY <2>2, <2>3, <2>4 DEF TypeOK
<1>3. CASE TimerSoft
  <2>1. FlagType'
    BY <1>3, Zenon
    DEF TimerSoft, foVars, dirVars, windowVars, failbackVars, probeVars,
        flagVars, TypeOK, FlagType
  <2>2. SelectionType'
    BY <1>3
    DEF TimerSoft, foVars, dirVars, windowVars, failbackVars, probeVars,
        flagVars, TypeOK, SelectionType, Latches, Alive, EndpointMax
  <2>3. CountType'
    BY <1>3, ConstantTypes
    DEF TimerSoft, foVars, dirVars, windowVars, failbackVars, probeVars,
        flagVars, TypeOK, CountType, Unset
  <2> QED
    BY <2>1, <2>2, <2>3 DEF TypeOK
<1>4. CASE TimerSoftFails
  <2>1. TeardownTypes
    BY <1>4, TeardownType DEF TimerSoftFails, ReconnectHard
  <2>2. FlagType'
    BY <1>4, <2>1, Zenon
    DEF TimerSoftFails, ReconnectHard, dirVars, windowVars, failbackVars,
        probeVars, flagVars, TeardownTypes, TypeOK, FlagType
  <2>3. SelectionType'
    BY <1>4, <2>1
    DEF TimerSoftFails, ReconnectHard, dirVars, windowVars, failbackVars,
        probeVars, flagVars, TeardownTypes, TypeOK, SelectionType, Latches, Alive,
        EndpointMax
  <2>4. CountType'
    BY <1>4, <2>1, ConstantTypes
    DEF TimerSoftFails, ReconnectHard, dirVars, windowVars, failbackVars,
        probeVars, flagVars, TeardownTypes, TypeOK, CountType, Unset
  <2> QED
    BY <2>2, <2>3, <2>4 DEF TypeOK
<1> QED
  BY <1>1, <1>2, <1>3, <1>4 DEF TimerFires

(* The failover task.                                                      *)
LEMMA WorkerType ==
  ASSUME TypeOK, Worker
  PROVE  TypeOK'
<1>1. CASE WorkerDaily
  <2>1. FlagType'
    BY <1>1, Zenon
    DEF WorkerDaily, Refreshing, foVars, dirVars, windowVars, failbackVars,
        probeVars, flagVars, clientVars, TypeOK, FlagType
  <2>2. SelectionType'
    BY <1>1
    DEF WorkerDaily, Refreshing, foVars, dirVars, windowVars, failbackVars,
        probeVars, flagVars, clientVars, TypeOK, SelectionType, Latches, Alive,
        EndpointMax
  <2>3. CountType'
    BY <1>1, ConstantTypes
    DEF WorkerDaily, Refreshing, foVars, dirVars, windowVars, failbackVars,
        probeVars, flagVars, clientVars, TypeOK, CountType, Unset
  <2> QED
    BY <2>1, <2>2, <2>3 DEF TypeOK
<1>2. CASE WorkerCycle
  <2>1. FlagType'
    BY <1>2, Zenon
    DEF WorkerCycle, Refreshing, dirVars, windowVars, failbackVars, probeVars,
        clientVars, TypeOK, FlagType
  <2>2. SelectionType'
    BY <1>2
    DEF WorkerCycle, Refreshing, dirVars, windowVars, failbackVars, probeVars,
        clientVars, TypeOK, SelectionType, Latches, Alive, EndpointMax
  <2>3. CountType'
    BY <1>2, ConstantTypes
    DEF WorkerCycle, Refreshing, dirVars, windowVars, failbackVars, probeVars,
        clientVars, TypeOK, CountType, Unset
  <2> QED
    BY <2>1, <2>2, <2>3 DEF TypeOK
<1>3. CASE RefreshKeeps
  <2>1. FlagType'
    BY <1>3, Zenon
    DEF RefreshKeeps, AfterRefresh, foVars, dirVars, windowVars, failbackVars,
        probeVars, flagVars, clientVars, TypeOK, FlagType
  <2>2. SelectionType'
    BY <1>3
    DEF RefreshKeeps, AfterRefresh, foVars, dirVars, windowVars, failbackVars,
        probeVars, flagVars, clientVars, TypeOK, SelectionType, Latches, Alive,
        EndpointMax
  <2>3. CountType'
    BY <1>3, ConstantTypes
    DEF RefreshKeeps, AfterRefresh, foVars, dirVars, windowVars, failbackVars,
        probeVars, flagVars, clientVars, TypeOK, CountType, Unset
  <2> QED
    BY <2>1, <2>2, <2>3 DEF TypeOK
<1>4. CASE WorkerReset
  <2>1. Len(dir) \in 1 .. EndpointMax
    BY DirectoriesAssumption DEF TypeOK, SelectionType
  <2>2. FlagType'
    BY <1>4, Zenon
    DEF WorkerReset, ClearWindow, ResetProbeWindow, dirVars, clientVars,
        TypeOK, FlagType
  <2>3. SelectionType'
    BY <1>4, <2>1
    DEF WorkerReset, ClearWindow, ResetProbeWindow, dirVars, clientVars,
        TypeOK, SelectionType, Latches, Alive, EndpointMax
  <2>4. CountType'
    BY <1>4, <2>1, ConstantTypes
    DEF WorkerReset, ClearWindow, ResetProbeWindow, dirVars, clientVars,
        TypeOK, CountType, Unset
  <2> QED
    BY <2>2, <2>3, <2>4 DEF TypeOK
<1>5. CASE WorkerRestart
  <2>1. FlagType'
    BY <1>5, Zenon
    DEF WorkerRestart, dirVars, windowVars, failbackVars, probeVars,
        clientVars, TypeOK, FlagType
  <2>2. SelectionType'
    BY <1>5
    DEF WorkerRestart, dirVars, windowVars, failbackVars, probeVars,
        clientVars, TypeOK, SelectionType, Latches, Alive, EndpointMax
  <2>3. CountType'
    BY <1>5, ConstantTypes
    DEF WorkerRestart, dirVars, windowVars, failbackVars, probeVars,
        clientVars, TypeOK, CountType, Unset
  <2> QED
    BY <2>1, <2>2, <2>3 DEF TypeOK
<1>6. CASE WorkerHard
  <2>1. TeardownTypes
    BY <1>6, TeardownType DEF WorkerHard, ReconnectHard
  <2>2. FlagType'
    BY <1>6, <2>1, Zenon
    DEF WorkerHard, ReconnectHard, dirVars, windowVars, failbackVars,
        probeVars, flagVars, TeardownTypes, TypeOK, FlagType
  <2>3. SelectionType'
    BY <1>6, <2>1
    DEF WorkerHard, ReconnectHard, dirVars, windowVars, failbackVars,
        probeVars, flagVars, TeardownTypes, TypeOK, SelectionType, Latches, Alive,
        EndpointMax
  <2>4. CountType'
    BY <1>6, <2>1, ConstantTypes
    DEF WorkerHard, ReconnectHard, dirVars, windowVars, failbackVars,
        probeVars, flagVars, TeardownTypes, TypeOK, CountType, Unset
  <2> QED
    BY <2>2, <2>3, <2>4 DEF TypeOK
<1>7. CASE FailbackDue
  <2>1. PrimaryIndex(dir) \in 1 .. Len(dir)
    BY PrimaryIndexInList DEF TypeOK, SelectionType
  <2>2. index \in 1 .. EndpointMax
    BY ListLength DEF TypeOK, SelectionType, EndpointMax
  <2>3. FlagType'
    BY <1>7, Zenon
    DEF FailbackDue, BeginFailback, ClearWindow, BumpGen, dirVars, flagVars,
        clientVars, TypeOK, FlagType
  <2>4. SelectionType'
    BY <1>7, <2>1, <2>2
    DEF FailbackDue, BeginFailback, dirVars, flagVars, clientVars, TypeOK,
        SelectionType
  <2>5. CountType'
    BY <1>7, <2>1, <2>2, ConstantTypes
    DEF FailbackDue, BeginFailback, ClearWindow, BumpGen, dirVars, flagVars,
        clientVars, TypeOK, CountType, Unset
  <2> QED
    BY <2>3, <2>4, <2>5 DEF TypeOK
<1>8. CASE ProbeStart
  <2>1. FlagType'
    BY <1>8, Zenon
    DEF ProbeStart, dirVars, windowVars, failbackVars, flagVars, clientVars,
        TypeOK, FlagType
  <2>2. SelectionType'
    BY <1>8
    DEF ProbeStart, dirVars, windowVars, failbackVars, flagVars, clientVars,
        TypeOK, SelectionType, Latches, Alive, EndpointMax
  <2>3. CountType'
    BY <1>8, ConstantTypes
    DEF ProbeStart, dirVars, windowVars, failbackVars, flagVars, clientVars,
        TypeOK, CountType, Unset
  <2> QED
    BY <2>1, <2>2, <2>3 DEF TypeOK
<1>9. CASE ProbeIgnored
  <2>1. FlagType'
    BY <1>9, Zenon
    DEF ProbeIgnored, ProbeEnds, dirVars, windowVars, failbackVars, probeVars,
        flagVars, clientVars, TypeOK, FlagType
  <2>2. SelectionType'
    BY <1>9
    DEF ProbeIgnored, ProbeEnds, dirVars, windowVars, failbackVars, probeVars,
        flagVars, clientVars, TypeOK, SelectionType, Latches, Alive, EndpointMax
  <2>3. CountType'
    BY <1>9, ConstantTypes
    DEF ProbeIgnored, ProbeEnds, dirVars, windowVars, failbackVars, probeVars,
        flagVars, clientVars, TypeOK, CountType, Unset
  <2> QED
    BY <2>1, <2>2, <2>3 DEF TypeOK
<1>10. CASE ProbeFailed
  <2>1. FlagType'
    BY <1>10, Zenon
    DEF ProbeFailed, ProbeEnds, ResetProbeWindow, dirVars, windowVars,
        failbackVars, flagVars, clientVars, TypeOK, FlagType
  <2>2. SelectionType'
    BY <1>10
    DEF ProbeFailed, ProbeEnds, ResetProbeWindow, dirVars, windowVars,
        failbackVars, flagVars, clientVars, TypeOK, SelectionType, Latches, Alive,
        EndpointMax
  <2>3. CountType'
    BY <1>10, ConstantTypes
    DEF ProbeFailed, ProbeEnds, ResetProbeWindow, dirVars, windowVars,
        failbackVars, flagVars, clientVars, TypeOK, CountType, Unset
  <2> QED
    BY <2>1, <2>2, <2>3 DEF TypeOK
<1>11. ASSUME NEW delay \in 0 .. Jitter, ProbeHealthy(delay)
      PROVE  TypeOK'
  <2>1. PrimaryIndex(dir) \in 1 .. Len(dir)
    BY PrimaryIndexInList DEF TypeOK, SelectionType
  <2>2. index \in 1 .. EndpointMax
    BY ListLength DEF TypeOK, SelectionType, EndpointMax
  <2>3. FlagType'
    BY <1>11, Zenon
    DEF ProbeHealthy, ProbeEnds, BeginFailback, ClearWindow, BumpGen,
        HealthyNow, AtLeast, dirVars, windowVars, failbackVars, flagVars,
        clientVars, TypeOK, FlagType
  <2>4. SelectionType'
    BY <1>11, <2>1, <2>2
    DEF ProbeHealthy, ProbeEnds, BeginFailback, dirVars, windowVars,
        failbackVars, flagVars, clientVars, TypeOK, SelectionType
  <2>5. CountType'
    BY <1>11, <2>1, <2>2, ConstantTypes
    DEF ProbeHealthy, ProbeEnds, BeginFailback, ClearWindow, BumpGen,
        HealthyNow, AtLeast, dirVars, windowVars, failbackVars, flagVars,
        clientVars, TypeOK, CountType, Unset
  <2> QED
    BY <2>3, <2>4, <2>5 DEF TypeOK
<1>12. ASSUME NEW neu \in Directories, RefreshApplies(neu)
      PROVE  TypeOK'
  <2>1. worker' \in Refreshing \cup {"idle", "reset", "probing", "hard"}
    BY <1>12 DEF RefreshApplies, AfterRefresh
  <2> QED
    BY <1>12, <2>1, CommitType DEF RefreshApplies
<1> QED
  BY <1>1, <1>2, <1>3, <1>4, <1>5, <1>6, <1>7, <1>8, <1>9, <1>10, <1>11, <1>12
  DEF Worker

(* Every step keeps the types.                                             *)
LEMMA TypeStep ==
  ASSUME TypeOK, [Next]_vars
  PROVE  TypeOK'
<1>1. CASE WifiChange
  <2>1. FlagType'
    BY <1>1, Zenon
    DEF WifiChange, foVars, dirVars, windowVars, failbackVars, probeVars,
        flagVars, clientVars, TypeOK, FlagType
  <2>2. SelectionType'
    BY <1>1
    DEF WifiChange, foVars, dirVars, windowVars, failbackVars, probeVars,
        flagVars, clientVars, TypeOK, SelectionType, Latches, Alive, EndpointMax
  <2>3. CountType'
    BY <1>1, ConstantTypes
    DEF WifiChange, foVars, dirVars, windowVars, failbackVars, probeVars,
        flagVars, clientVars, TypeOK, CountType, Unset
  <2> QED
    BY <2>1, <2>2, <2>3 DEF TypeOK
<1>2. CASE Tick
  <2>1. FlagType'
    BY <1>2, Zenon
    DEF Tick, Older, Sooner, AtMost, dirVars, failbackVars, flagVars,
        clientVars, TypeOK, FlagType
  <2>2. SelectionType'
    BY <1>2
    DEF Tick, Older, Sooner, AtMost, dirVars, failbackVars, flagVars,
        clientVars, TypeOK, SelectionType, Latches, Alive, EndpointMax
  <2>3. CountType'
    BY <1>2, ConstantTypes
    DEF Tick, Older, Sooner, AtMost, dirVars, failbackVars, flagVars,
        clientVars, TypeOK, CountType, Unset
  <2> QED
    BY <2>1, <2>2, <2>3 DEF TypeOK
<1>3. CASE AppReconnectHard
  <2>1. TeardownTypes
    BY <1>3, TeardownType DEF AppReconnectHard, ReconnectHard
  <2>2. FlagType'
    BY <1>3, <2>1, Zenon
    DEF AppReconnectHard, ReconnectHard, dirVars, windowVars, failbackVars,
        probeVars, flagVars, TeardownTypes, TypeOK, FlagType
  <2>3. SelectionType'
    BY <1>3, <2>1
    DEF AppReconnectHard, ReconnectHard, dirVars, windowVars, failbackVars,
        probeVars, flagVars, TeardownTypes, TypeOK, SelectionType, Latches, Alive,
        EndpointMax
  <2>4. CountType'
    BY <1>3, <2>1, ConstantTypes
    DEF AppReconnectHard, ReconnectHard, dirVars, windowVars, failbackVars,
        probeVars, flagVars, TeardownTypes, TypeOK, CountType, Unset
  <2> QED
    BY <2>2, <2>3, <2>4 DEF TypeOK
<1>4. ASSUME NEW neu \in Directories, Ingest(neu)
      PROVE  TypeOK'
  <2>1. worker' \in Refreshing \cup {"idle", "reset", "probing", "hard"}
    BY <1>4 DEF Ingest, TypeOK, SelectionType
  <2> QED
    BY <1>4, <2>1, CommitType DEF Ingest
<1>5. CASE UNCHANGED vars
  BY <1>5
  DEF TypeOK, FlagType, SelectionType, CountType, vars, foVars, dirVars, windowVars,
      failbackVars, probeVars, flagVars, clientVars
<1> QED
  BY MqttEventType, TimerType, WorkerType, <1>1, <1>2, <1>3, <1>4, <1>5
  DEF Next

LEMMA TypeInit ==
  ASSUME Init
  PROVE  TypeOK
<1>1. Len(dir) \in 1 .. EndpointMax
  BY DirectoriesAssumption DEF Init
<1>2. dir[1].host \in Host /\ HostsOf(dir) \subseteq Host
  BY <1>1, EntryHost DEF Init, HostsOf, EndpointMax
<1>3. FlagType
  BY Zenon DEF Init, FlagType
<1>4. SelectionType
  BY <1>1, <1>2
  DEF Init, SelectionType, EndpointMax, Latches, Refreshing, Alive
<1>5. CountType
  BY ConstantTypes DEF Init, CountType, Unset
<1> QED
  BY <1>3, <1>4, <1>5 DEF TypeOK

(* Every variable keeps its type: in particular the selected index always  *)
(* lies in the list, through every change of the list, and no counter or   *)
(* deadline leaves its range.                                              *)
THEOREM TypeCorrect == Spec => []TypeOK
<1>1. Init => TypeOK
  BY TypeInit
<1>2. TypeOK /\ [Next]_vars => TypeOK'
  BY TypeStep
<1> QED
  BY <1>1, <1>2, PTL DEF Spec

-------------------------------------------------------------------------------
(* The history variables do not restrict the behaviours of MqttFailover.   *)

LEMMA HistoryStep ==
  ASSUME [HNext]_hvars
  PROVE  [Next]_vars
<1>1. CASE HConnack
  BY <1>1 DEF HConnack, Next, MqttEvent
<1>2. CASE HDisconnected
  BY <1>2 DEF HDisconnected, Next, MqttEvent, Disconnected
<1>3. CASE HTimer
  BY <1>3 DEF HTimer, Next, TimerFires
<1>4. CASE HWorker
  BY <1>4 DEF HWorker, Next, Worker
<1>5. CASE UNCHANGED hvars
  BY <1>5 DEF hvars
<1> QED
  BY <1>1, <1>2, <1>3, <1>4, <1>5 DEF HNext, Next, MqttEvent

(* Type correctness, as the runs check it.                                 *)
THEOREM HistoryTypeCorrect == HSpec => []TypeOK
<1>1. HInit => TypeOK
  BY TypeInit DEF HInit
<1>2. TypeOK /\ [HNext]_hvars => TypeOK'
  BY TypeStep, HistoryStep
<1> QED
  BY <1>1, <1>2, PTL DEF HSpec

-------------------------------------------------------------------------------
(* The device is never without a session and without a plan.               *)

(* A teardown is always followed by the settle delay on the timer.         *)
LEMMA ReconnectHardPlans ==
  ASSUME ReconnectHard
  PROVE  NeverStranded'
BY ConstantTypes DEF ReconnectHard, NeverStranded, Unset

LEMMA NeverStrandedStep ==
  ASSUME TypeOK, NeverStranded, [HNext]_hvars
  PROVE  NeverStranded'
<1>1. CASE HConnack
  BY <1>1 DEF HConnack, Connack, NeverStranded
<1>2. ASSUME NEW why \in Latches, Error(why)
      PROVE  NeverStranded'
  BY <1>2 DEF Error, NeverStranded
<1>3. CASE HDisconnected
  <2>1. CASE suppress > 0
    BY <1>3, <2>1 DEF HDisconnected, NeverStranded
  <2>2. CASE ~(suppress > 0)
    <3>1. CASE DisconnectWifiDown \/ DisconnectFailback \/ DisconnectStay \/ LeaveHost
      BY <3>1, ConstantTypes
      DEF DisconnectWifiDown, DisconnectFailback, DisconnectStay, LeaveHost,
          NeverStranded, Unset
    <3>2. CASE DisconnectRefused
      BY <3>2, ConstantTypes DEF DisconnectRefused, NeverStranded, Unset
    <3>3. CASE LeaveLast
      BY <3>3 DEF LeaveLast, NeverStranded
    <3> QED
      BY <1>3, <2>2, <3>1, <3>2, <3>3 DEF HDisconnected, DisconnectSuppressed
  <2> QED
    BY <2>1, <2>2
<1>4. CASE HTimer
  <2>1. CASE TimerHard
    BY <2>1, ConstantTypes DEF TimerHard, NeverStranded, Unset
  <2>2. CASE TimerSoftFails
    BY <2>2, ReconnectHardPlans DEF TimerSoftFails
  <2>3. CASE TimerStart
    BY <2>3, ConstantTypes DEF TimerStart, StartFails, NeverStranded, Unset
  <2>4. CASE TimerSoft
    BY <2>4 DEF TimerSoft, NeverStranded
  <2> QED
    BY <1>4, <2>1, <2>2, <2>3, <2>4 DEF HTimer
<1>5. CASE HWorker
  <2>1. CASE WorkerDaily /\ UNCHANGED history
    BY <2>1
    DEF WorkerDaily, NeverStranded, foVars, flagVars, clientVars, history
  <2>2. CASE WorkerCycle
    BY <2>2 DEF WorkerCycle, NeverStranded
  <2>3. CASE RefreshKeeps /\ UNCHANGED history
    BY <2>3
    DEF RefreshKeeps, AfterRefresh, Refreshing, NeverStranded, foVars, flagVars,
        clientVars, history
  <2>4. ASSUME NEW neu \in Directories, RefreshApplies(neu), HCommit(neu)
        PROVE  NeverStranded'
    BY <2>4
    DEF RefreshApplies, HCommit, Commit, AfterRefresh, Refreshing, NeverStranded,
        clientVars
  <2>5. CASE WorkerReset
    BY <2>5, ConstantTypes DEF WorkerReset, NeverStranded, Unset
  <2>6. CASE WorkerRestart /\ UNCHANGED history
    BY <2>6 DEF WorkerRestart, NeverStranded, clientVars, history
  <2>7. CASE WorkerHard
    BY <2>7, ReconnectHardPlans DEF WorkerHard
  <2>8. ASSUME worker \in {"idle", "probing"},
               UNCHANGED <<link, timer, refresh_full_cycle, swallowed>>
        PROVE  NeverStranded'
    BY <2>8 DEF NeverStranded
  <2>9. CASE FailbackDue /\ UNCHANGED swallowed
    BY <2>8, <2>9 DEF FailbackDue, flagVars, clientVars
  <2>10. CASE ProbeStart /\ UNCHANGED swallowed
    BY <2>8, <2>10 DEF ProbeStart, flagVars, clientVars
  <2>11. CASE ProbeEnds /\ UNCHANGED swallowed
    BY <2>8, <2>11 DEF ProbeEnds, flagVars, clientVars
  <2> QED
    BY <1>5, <2>1, <2>2, <2>3, <2>4, <2>5, <2>6, <2>7, <2>9, <2>10, <2>11
    DEF HWorker, ProbeIgnored, ProbeFailed, ProbeHealthy
<1>6. ASSUME NEW neu \in Directories, Ingest(neu), HCommit(neu)
      PROVE  NeverStranded'
  BY <1>6 DEF Ingest, HCommit, Commit, NeverStranded, clientVars
<1>7. CASE AppReconnectHard
  BY <1>7, ReconnectHardPlans DEF AppReconnectHard
<1>8. CASE WifiChange /\ UNCHANGED history
  BY <1>8 DEF WifiChange, NeverStranded, foVars, flagVars, clientVars, history
<1>9. CASE Tick /\ UNCHANGED swallowed
  BY <1>9
  DEF Tick, Sooner, NeverStranded, TypeOK, CountType, Unset, flagVars, clientVars
<1>10. CASE UNCHANGED hvars
  BY <1>10
  DEF hvars, vars, foVars, flagVars, clientVars, history, NeverStranded
<1> QED
  BY <1>1, <1>2, <1>3, <1>4, <1>5, <1>6, <1>7, <1>8, <1>9, <1>10 DEF HNext

(* Through every host change, failed refresh, restart and failback, no     *)
(* attempt alive means a timer armed or work left for the failover task,   *)
(* unless a suppress token hid the loss of the link.                       *)
THEOREM NeverStrandedAlways == HSpec => []NeverStranded
<1>1. HInit => TypeOK /\ NeverStranded
  BY TypeInit DEF HInit, Init, NeverStranded
<1>2. TypeOK /\ NeverStranded /\ [HNext]_hvars => TypeOK' /\ NeverStranded'
  BY TypeStep, HistoryStep, NeverStrandedStep
<1> QED
  BY <1>1, <1>2, PTL DEF HSpec

-------------------------------------------------------------------------------
(* A host is left only after enough failures of that host.                 *)

(* A link belongs to a client handle.                                      *)
HandleBound == link # "none" => mqtt # NoHost

LEMMA HandleStep ==
  ASSUME TypeOK, HandleBound, [Next]_vars
  PROVE  HandleBound'
<1>1. ASSUME UNCHANGED mqtt, link' # "none" => link # "none"
      PROVE  HandleBound'
  BY <1>1 DEF HandleBound
<1>2. ASSUME Teardown
      PROVE  HandleBound'
  BY <1>2 DEF HandleBound, Teardown
<1>3. CASE MqttEvent
  BY <1>1, <1>3
  DEF MqttEvent, Connack, Error, Disconnected, DisconnectSuppressed,
      DisconnectWifiDown, DisconnectFailback, DisconnectRefused, DisconnectStay,
      LeaveHost, LeaveLast, BrokerFailure, OnDisconnect, LinkLost, Alive
<1>4. CASE TimerHard \/ TimerSoftFails
  BY <1>2, <1>4 DEF TimerHard, TimerSoftFails, ReconnectHard
<1>5. CASE TimerStart
  <2>1. dir[index].host # NoHost
    BY EntryHost, HostAssumption DEF TypeOK, SelectionType
  <2> QED
    BY <1>5, <2>1 DEF TimerStart, StartFails, HandleBound
<1>6. CASE TimerSoft
  BY <1>1, <1>6 DEF TimerSoft
<1>7. CASE Worker
  <2>1. CASE WorkerHard
    BY <1>2, <2>1 DEF WorkerHard, ReconnectHard
  <2>2. CASE UNCHANGED clientVars
    BY <1>1, <2>2 DEF clientVars
  <2> QED
    BY <1>7, <2>1, <2>2
    DEF Worker, WorkerDaily, WorkerCycle, RefreshKeeps, RefreshApplies, WorkerReset,
        WorkerRestart, FailbackDue, ProbeStart, ProbeIgnored, ProbeFailed,
        ProbeHealthy, ProbeEnds
<1>8. CASE AppReconnectHard
  BY <1>2, <1>8 DEF AppReconnectHard, ReconnectHard
<1>9. CASE (\E neu \in Directories : Ingest(neu)) \/ WifiChange \/ Tick
           \/ UNCHANGED vars
  BY <1>1, <1>9 DEF Ingest, WifiChange, Tick, vars, clientVars
<1> QED
  BY <1>3, <1>4, <1>5, <1>6, <1>7, <1>8, <1>9 DEF Next, TimerFires

FailRunType ==
  /\ fails \in 0 .. SameHostAttempts
  /\ fail_age \in Unset .. FailWindow
  /\ fail_rebased \in BOOLEAN

LEMMA EmptyFailRun ==
  0 \in 0 .. SameHostAttempts /\ Unset \in Unset .. FailWindow
BY ConstantTypes DEF Unset

(* The counters of the code understate the failures of the selected host:  *)
(* they are reset with every session, and while they count, the handle is  *)
(* bound to the selected host and no other, unless the run of failures was *)
(* mixed up by a list or by a failure of another host.                     *)
CountsMatch ==
  /\ FailRunType
  /\ connected => window_age = Unset
  /\ window_age # Unset /\ ~fail_rebased
       => /\ fail_host = dir[index].host
          /\ mqtt \in {NoHost, fail_host}
          /\ attempt_count <= fails
          /\ window_age <= fail_age

(* One more failure keeps the two counts in step.                          *)
LEMMA FailureCounts ==
  ASSUME TypeOK, CountsMatch
  PROVE  /\ FailsNow \in 1 .. SameHostAttempts
         /\ FailAgeNow \in 0 .. FailWindow
         /\ FailuresNow \in Nat /\ WindowNow \in Nat
         /\ window_age = Unset \/ (mqtt # NoHost /\ ~fail_rebased)
              => FailuresNow <= FailsNow /\ WindowNow <= FailAgeNow
<1>1. /\ fails \in 0 .. SameHostAttempts
      /\ fail_age \in Unset .. FailWindow
      /\ attempt_count \in 0 .. SameHostAttempts
      /\ window_age \in Unset .. FailWindow
  BY DEF CountsMatch, FailRunType, TypeOK, CountType
<1>2. FailsNow \in 1 .. SameHostAttempts /\ FailAgeNow \in 0 .. FailWindow
  BY <1>1, ConstantTypes DEF FailsNow, FailAgeNow, AtMost, AtLeast, Unset
<1>3. FailuresNow \in Nat /\ WindowNow \in Nat
  BY <1>1, ConstantTypes DEF FailuresNow, WindowNow, AtMost, AtLeast, Unset
<1>4. CASE window_age = Unset
  <2>1. FailuresNow = 1 /\ WindowNow = 0
    BY <1>4 DEF FailuresNow, WindowNow, AtLeast, Unset
  <2> QED
    BY <1>2, <1>3, <2>1, ConstantTypes
<1>5. CASE window_age # Unset
  <2>1. ASSUME mqtt # NoHost, ~fail_rebased
        PROVE  FailuresNow <= FailsNow /\ WindowNow <= FailAgeNow
    <3>1. fail_host = mqtt /\ attempt_count <= fails /\ window_age <= fail_age
      BY <1>5, <2>1 DEF CountsMatch
    <3> QED
      BY <1>1, <1>5, <3>1, ConstantTypes
      DEF FailuresNow, WindowNow, FailsNow, FailAgeNow, AtMost, AtLeast, Unset
  <2> QED
    BY <1>2, <1>3, <1>5, <2>1
<1> QED
  BY <1>2, <1>3, <1>4, <1>5

(* A list that moves the selection while failures are counted is recorded. *)
LEMMA CommitCounts ==
  ASSUME TypeOK, CountsMatch, NEW neu \in Directories, Commit(neu), HCommit(neu),
         UNCHANGED clientVars
  PROVE  CountsMatch'
<1>1. FailRunType'
  <2>1. UNCHANGED <<fails, fail_age>>
    BY DEF HCommit
  <2>2. fail_rebased' \in BOOLEAN
    BY Zenon DEF HCommit
  <2> QED
    BY <2>1, <2>2 DEF CountsMatch, FailRunType
<1>2. CASE connected
  <2>1. window_age' = Unset
    BY <1>2
    DEF Commit, CommitStay, CommitGone, CommitIdle, ClearWindow, windowVars,
        CountsMatch
  <2> QED
    BY <1>1, <2>1 DEF CountsMatch
<1>3. CASE ~connected
  BY <1>1, <1>3 DEF HCommit, CountsMatch, clientVars
<1> QED
  BY <1>2, <1>3

(* A step that clears the window needs nothing else.                       *)
LEMMA ClearedCounts ==
  ASSUME CountsMatch, ClearWindow, UNCHANGED failRun \/ NoFailRun
  PROVE  CountsMatch'
<1>1. CASE UNCHANGED failRun
  <2>1. UNCHANGED <<fails, fail_age, fail_rebased>> /\ window_age' = Unset
    BY <1>1 DEF failRun, ClearWindow
  <2> QED
    BY <2>1 DEF CountsMatch, FailRunType
<1>2. CASE NoFailRun
  <2>1. /\ fails' = 0 /\ fail_age' = Unset /\ fail_rebased' = FALSE
        /\ window_age' = Unset
    BY <1>2 DEF NoFailRun, ClearWindow
  <2> QED
    BY <2>1, EmptyFailRun DEF CountsMatch, FailRunType
<1> QED
  BY <1>1, <1>2

(* Nor does one that moves neither counts nor selection, and at most takes *)
(* the session or the handle away.                                         *)
LEMMA UnmovedCounts ==
  ASSUME CountsMatch, UNCHANGED <<windowVars, failRun, dir, index>>,
         connected' \in {FALSE, connected}, mqtt' \in {NoHost, mqtt, dir[index].host}
  PROVE  CountsMatch'
<1>1. UNCHANGED <<window_age, attempt_count, fail_host, fails, fail_age,
                  fail_rebased, dir, index>>
  BY DEF windowVars, failRun
<1>2. FailRunType'
  BY <1>1 DEF CountsMatch, FailRunType
<1>3. connected' => window_age' = Unset
  BY <1>1, Zenon DEF CountsMatch
<1>4. window_age' # Unset /\ ~fail_rebased'
        => /\ fail_host' = dir'[index'].host
           /\ mqtt' \in {NoHost, fail_host'}
           /\ attempt_count' <= fails'
           /\ window_age' <= fail_age'
  BY <1>1 DEF CountsMatch
<1> QED
  BY <1>2, <1>3, <1>4 DEF CountsMatch

LEMMA CountsStep ==
  ASSUME TypeOK, CountsMatch, [HNext]_hvars
  PROVE  CountsMatch'
<1>1. CASE HConnack
  BY <1>1, ClearedCounts DEF HConnack, Connack
<1>2. ASSUME NEW why \in Latches, Error(why), UNCHANGED history
      PROVE  CountsMatch'
  BY <1>2, UnmovedCounts DEF Error, dirVars, history
<1>3. CASE HDisconnected
  <2>1. CASE (DisconnectSuppressed \/ DisconnectWifiDown \/ DisconnectRefused)
             /\ UNCHANGED failRun
    BY <2>1, UnmovedCounts
    DEF DisconnectSuppressed, DisconnectWifiDown, DisconnectRefused, OnDisconnect,
        LinkLost, dirVars
  <2>2. CASE DisconnectFailback /\ UNCHANGED failRun
    BY <2>2, ClearedCounts DEF DisconnectFailback
  <2>3. CASE (LeaveHost \/ LeaveLast) /\ NoFailRun
    BY <2>3, ClearedCounts DEF LeaveHost, LeaveLast
  <2>4. CASE DisconnectStay /\ CountFailure
    <3>1. /\ UNCHANGED <<dir, index, mqtt>> /\ connected' = FALSE
          /\ attempt_count' = FailuresNow /\ window_age' = WindowNow
          /\ fail_host' = mqtt /\ fails' = FailsNow /\ fail_age' = FailAgeNow
          /\ fail_rebased' = (fail_rebased \/ dir[index].host # mqtt)
      BY <2>4
      DEF DisconnectStay, CountFailure, BrokerFailure, OnDisconnect, LinkLost, dirVars
    <3>2. fail_rebased' \in BOOLEAN
      BY <3>1, Zenon
    <3>3. FailRunType'
      BY <3>1, <3>2, FailureCounts, ConstantTypes DEF FailRunType, Unset
    <3>4. ~fail_rebased' => ~fail_rebased /\ dir[index].host = mqtt
      BY <3>1
    <3>5. ~fail_rebased' => FailuresNow <= FailsNow /\ WindowNow <= FailAgeNow
      <4>1. dir[index].host # NoHost
        BY EntryHost, HostAssumption DEF TypeOK, SelectionType
      <4> QED
        BY <3>4, <4>1, FailureCounts
    <3> QED
      BY <3>1, <3>3, <3>4, <3>5 DEF CountsMatch
  <2> QED
    BY <1>3, <2>1, <2>2, <2>3, <2>4 DEF HDisconnected
<1>4. CASE HTimer
  <2>1. CASE TimerHard /\ HTeardown
    BY <2>1, UnmovedCounts DEF TimerHard, HTeardown, Teardown, dirVars
  <2>2. CASE TimerSoftFails /\ HTeardown
    BY <2>2, UnmovedCounts
    DEF TimerSoftFails, ReconnectHard, HTeardown, Teardown, dirVars
  <2>3. CASE TimerStart /\ UNCHANGED failRun
    BY <2>3, UnmovedCounts DEF TimerStart, StartFails, dirVars
  <2>4. CASE TimerSoft /\ UNCHANGED failRun
    BY <2>4, UnmovedCounts DEF TimerSoft, foVars, dirVars
  <2> QED
    BY <1>4, <2>1, <2>2, <2>3, <2>4 DEF HTimer
<1>5. CASE HWorker
  <2>1. CASE (WorkerDaily \/ RefreshKeeps) /\ UNCHANGED failRun
    BY <2>1, UnmovedCounts DEF WorkerDaily, RefreshKeeps, foVars, dirVars, clientVars
  <2>2. CASE (WorkerCycle \/ WorkerRestart) /\ UNCHANGED failRun
    BY <2>2, UnmovedCounts DEF WorkerCycle, WorkerRestart, dirVars, clientVars
  <2>3. ASSUME NEW neu \in Directories, RefreshApplies(neu), HCommit(neu)
        PROVE  CountsMatch'
    BY <2>3, CommitCounts DEF RefreshApplies
  <2>4. CASE WorkerReset /\ NoFailRun
    BY <2>4, ClearedCounts DEF WorkerReset
  <2>5. CASE WorkerHard /\ HTeardown
    BY <2>5, UnmovedCounts DEF WorkerHard, ReconnectHard, HTeardown, Teardown, dirVars
  <2>6. CASE FailbackDue /\ UNCHANGED failRun
    BY <2>6, ClearedCounts DEF FailbackDue, BeginFailback
  <2>7. CASE ProbeStart /\ UNCHANGED failRun
    BY <2>7, UnmovedCounts DEF ProbeStart, dirVars, clientVars
  <2>8. CASE (ProbeIgnored \/ ProbeFailed) /\ UNCHANGED failRun
    BY <2>8, UnmovedCounts
    DEF ProbeIgnored, ProbeFailed, ProbeEnds, dirVars, clientVars
  <2>9. ASSUME NEW delay \in 0 .. Jitter, ProbeHealthy(delay), UNCHANGED failRun
        PROVE  CountsMatch'
    <3>1. CASE BeginFailback
      BY <2>9, <3>1, ClearedCounts DEF BeginFailback
    <3>2. CASE UNCHANGED <<index, windowVars>>
      BY <2>9, <3>2, UnmovedCounts DEF ProbeHealthy, ProbeEnds, dirVars, clientVars
    <3> QED
      BY <2>9, <3>1, <3>2 DEF ProbeHealthy
  <2> QED
    BY <1>5, <2>1, <2>2, <2>3, <2>4, <2>5, <2>6, <2>7, <2>8, <2>9
    DEF HWorker, history, failRun
<1>6. ASSUME NEW neu \in Directories, Ingest(neu), HCommit(neu)
      PROVE  CountsMatch'
  BY <1>6, CommitCounts DEF Ingest
<1>7. CASE AppReconnectHard /\ HTeardown
  BY <1>7, UnmovedCounts
  DEF AppReconnectHard, ReconnectHard, HTeardown, Teardown, dirVars
<1>8. CASE WifiChange /\ UNCHANGED history
  BY <1>8, UnmovedCounts DEF WifiChange, foVars, dirVars, clientVars, history
<1>9. CASE /\ Tick
           /\ fail_age' = Older(fail_age, FailWindow)
           /\ UNCHANGED <<fail_host, fails, fail_rebased>>
  <2>1. /\ UNCHANGED <<dir, index, attempt_count, mqtt, connected>>
        /\ window_age' = Older(window_age, FailWindow)
    BY <1>9 DEF Tick, dirVars, clientVars
  <2>2. /\ window_age \in Unset .. FailWindow
        /\ fail_age \in Unset .. FailWindow
    BY DEF TypeOK, CountType, CountsMatch, FailRunType
  <2>3. /\ fail_age' \in Unset .. FailWindow
        /\ window_age' = Unset <=> window_age = Unset
        /\ window_age # Unset /\ window_age <= fail_age => window_age' <= fail_age'
    BY <1>9, <2>1, <2>2, ConstantTypes DEF Older, AtMost, Unset
  <2> QED
    BY <1>9, <2>1, <2>3 DEF CountsMatch, FailRunType
<1>10. CASE UNCHANGED hvars
  BY <1>10, UnmovedCounts
  DEF hvars, vars, foVars, dirVars, clientVars, history
<1> QED
  BY <1>1, <1>2, <1>3, <1>4, <1>5, <1>6, <1>7, <1>8, <1>9, <1>10 DEF HNext

(* A link is lost to the broker only by an MQTT_EVENT_DISCONNECTED.        *)
LEMMA LinkLostOnlyOnEvent ==
  ASSUME [HNext]_hvars, link' # link, link' = "waiting"
  PROVE  HDisconnected
<1>1. ~HConnack
  BY DEF HConnack, Connack
<1>2. \A why \in Latches : ~Error(why)
  BY DEF Error
<1>3. ~HTimer
  BY DEF HTimer, TimerHard, TimerSoftFails, ReconnectHard, TimerStart, StartFails,
      TimerSoft, Teardown
<1>4. ~HWorker
  BY DEF HWorker, WorkerDaily, WorkerCycle, RefreshKeeps, WorkerRestart,
      RefreshApplies, WorkerReset, WorkerHard, ReconnectHard, Teardown,
      FailbackDue, ProbeStart, ProbeIgnored, ProbeFailed, ProbeHealthy, ProbeEnds,
      clientVars
<1>5. \A neu \in Directories : ~Ingest(neu)
  BY DEF Ingest, clientVars
<1>6. ~AppReconnectHard /\ ~WifiChange /\ ~Tick /\ ~UNCHANGED hvars
  BY DEF AppReconnectHard, ReconnectHard, Teardown, WifiChange, Tick, clientVars,
      hvars, vars
<1> QED
  BY <1>1, <1>2, <1>3, <1>4, <1>5, <1>6 DEF HNext

(* Only the two ways of leaving a host lose the link and move on.          *)
LEMMA LeavesByRule ==
  ASSUME TypeOK, HandleBound, CountsMatch, [HNext]_hvars, Leaves, ~fail_rebased
  PROVE  FailedEnough
<1>1. link' # link /\ link' = "waiting"
  BY DEF Leaves, Alive
<1>2. HDisconnected
  BY <1>1, LinkLostOnlyOnEvent
<1>3. LeaveHost \/ LeaveLast
  <2>1. ~DisconnectFailback
    BY DEF Leaves, DisconnectFailback
  <2>2. ~(DisconnectSuppressed \/ DisconnectWifiDown \/ DisconnectRefused
          \/ DisconnectStay)
    BY DEF Leaves, DisconnectSuppressed, DisconnectWifiDown, DisconnectRefused,
           DisconnectStay
  <2> QED
    BY <1>2, <2>1, <2>2 DEF HDisconnected
<1>4. wifi /\ latch \notin {"auth", "protocol"} /\ WindowFailed
  BY <1>3 DEF LeaveHost, LeaveLast, BrokerFailure
<1>5. FailuresNow <= FailsNow /\ WindowNow <= FailAgeNow
  BY FailureCounts DEF HandleBound, Leaves, Alive
<1>6. FailsNow >= SameHostAttempts /\ FailAgeNow >= FailWindow
  BY <1>4, <1>5, FailureCounts, ConstantTypes DEF WindowFailed
<1> QED
  BY <1>4, <1>6 DEF FailedEnough

(* The leave rule holds of every behaviour: no mixture of sessions, Wi-Fi  *)
(* outages, refused CONNACKs, teardowns, restarts and failbacks makes the  *)
(* device leave a host that has not failed often enough for long enough.   *)
THEOREM LeaveRuleHolds == HSpec => LeaveRule
<1> DEFINE Inv == TypeOK /\ HandleBound /\ CountsMatch
<1>1. HInit => Inv
  <2> SUFFICES ASSUME HInit
               PROVE  Inv
    OBVIOUS
  <2>1. TypeOK
    BY TypeInit DEF HInit
  <2>2. HandleBound
    <3>1. dir[1].host \in Host
      BY ListLength, EntryHost DEF HInit, Init
    <3> QED
      BY <3>1, HostAssumption DEF HInit, Init, HandleBound
  <2>3. FailRunType
    BY EmptyFailRun DEF HInit, FailRunType
  <2> QED
    BY <2>1, <2>2, <2>3 DEF HInit, Init, CountsMatch
<1>2. Inv /\ [HNext]_hvars => Inv'
  BY TypeStep, HistoryStep, HandleStep, CountsStep
<1>3. Inv /\ [HNext]_hvars => [Leaves => FailedEnough \/ fail_rebased]_hvars
  BY LeavesByRule
<1> QED
  BY <1>1, <1>2, <1>3, PTL DEF HSpec, LeaveRule

-------------------------------------------------------------------------------
(* A backup session is given up only for a primary that was proven.        *)

(* The health window of the code understates the good probes of the        *)
(* primary now listed, the armed flag implies a full window, and a probe   *)
(* that still counts is one of that primary, unless a list replaced it.    *)
ProbesMatch ==
  /\ ok_age \in Unset .. HealthWindow
  /\ failback_armed => healthy_age >= HealthWindow
  /\ healthy_age # Unset /\ ~swapped
       => ok_host = Primary(dir) /\ healthy_age <= ok_age
  /\ worker = "probing" /\ probe_current /\ ~swapped => probed = Primary(dir)

(* A step that extends neither the window nor the life of a probe.         *)
LEMMA UnmovedProbes ==
  ASSUME ProbesMatch, UNCHANGED <<dir, ok_host, ok_age, swapped, healthy_age>>,
         failback_armed' => failback_armed,
         worker' = "probing" /\ probe_current'
           => worker = "probing" /\ probe_current /\ probed' = probed
  PROVE  ProbesMatch'
BY DEF ProbesMatch, Primary, PrimaryIndex

(* A step that starts the health window over and ends the probe.           *)
LEMMA ResetProbes ==
  ASSUME ResetProbeWindow, ok_age' \in Unset .. HealthWindow,
         ~(worker' = "probing" /\ probe_current')
  PROVE  ProbesMatch'
BY DEF ProbesMatch, ResetProbeWindow

(* A new list keeps the primary, or is recorded as one that replaced it.   *)
LEMMA CommitProbes ==
  ASSUME TypeOK, ProbesMatch, NEW neu \in Directories, Commit(neu), HCommit(neu),
         worker' = "probing" => worker = "probing"
  PROVE  ProbesMatch'
<1>1. /\ dir' = neu
      /\ UNCHANGED <<ok_host, ok_age, probed>>
      /\ ~swapped' => ~swapped /\ Primary(neu) = Primary(dir)
  BY DEF Commit, HCommit
<1>2. Primary(dir)' = Primary(neu)
  BY <1>1 DEF Primary, PrimaryIndex
<1>3. /\ healthy_age' \in {Unset, healthy_age}
      /\ failback_armed' => failback_armed /\ healthy_age' = healthy_age
      /\ probe_current' => probe_current
  <2>1. CASE CommitStay(neu)
    BY <2>1, Zenon DEF CommitStay
  <2>2. CASE CommitGone(neu)
    BY <2>2, Zenon DEF CommitGone, BumpGen
  <2>3. CASE CommitIdle
    BY <2>3, Zenon DEF CommitIdle, probeVars
  <2> QED
    BY <2>1, <2>2, <2>3 DEF Commit
<1>4. ok_age' \in Unset .. HealthWindow
  BY <1>1 DEF ProbesMatch
<1>5. failback_armed' => healthy_age' >= HealthWindow
  BY <1>3 DEF ProbesMatch
<1>6. healthy_age' # Unset /\ ~swapped'
        => ok_host' = Primary(dir)' /\ healthy_age' <= ok_age'
  BY <1>1, <1>2, <1>3 DEF ProbesMatch
<1>7. worker' = "probing" /\ probe_current' /\ ~swapped' => probed' = Primary(dir)'
  BY <1>1, <1>2, <1>3 DEF ProbesMatch
<1> QED
  BY <1>4, <1>5, <1>6, <1>7 DEF ProbesMatch

(* One more good probe that counts keeps the two windows in step.          *)
LEMMA HealthyCounts ==
  ASSUME TypeOK, ProbesMatch, worker = "probing", ProbeCounts
  PROVE  /\ HealthyNow \in 0 .. HealthWindow
         /\ OkAgeNow \in 0 .. HealthWindow
         /\ failback_armed => HealthyNow >= HealthWindow
         /\ ~swapped => probed = Primary(dir) /\ HealthyNow <= OkAgeNow
<1>1. healthy_age \in Unset .. HealthWindow /\ ok_age \in Unset .. HealthWindow
  BY DEF TypeOK, CountType, ProbesMatch
<1>2. HealthyNow \in 0 .. HealthWindow /\ OkAgeNow \in 0 .. HealthWindow
  BY <1>1, ConstantTypes DEF HealthyNow, OkAgeNow, AtLeast, Unset
<1>3. failback_armed => HealthyNow >= HealthWindow
  BY <1>1, ConstantTypes DEF ProbesMatch, HealthyNow, AtLeast, Unset
<1>4. ASSUME ~swapped
      PROVE  probed = Primary(dir) /\ HealthyNow <= OkAgeNow
  <2>1. probed = Primary(dir)
    BY <1>4 DEF ProbesMatch, ProbeCounts
  <2>2. CASE healthy_age = Unset
    <3>1. HealthyNow = 0
      BY <2>2 DEF HealthyNow, AtLeast, Unset
    <3> QED
      BY <1>2, <2>1, <3>1, ConstantTypes
  <2>3. CASE healthy_age # Unset
    <3>1. ok_host = probed /\ healthy_age <= ok_age
      BY <1>4, <2>1, <2>3 DEF ProbesMatch
    <3> QED
      BY <1>1, <2>1, <2>3, <3>1, ConstantTypes
      DEF HealthyNow, OkAgeNow, AtLeast, Unset
  <2> QED
    BY <2>2, <2>3
<1> QED
  BY <1>2, <1>3, <1>4

LEMMA ProbesStep ==
  ASSUME TypeOK, ProbesMatch, [HNext]_hvars
  PROVE  ProbesMatch'
<1>1. CASE HConnack
  <2>1. ok_age' \in Unset .. HealthWindow
    BY <1>1, ConstantTypes DEF HConnack, NoOkRun, Unset
  <2> QED
    BY <1>1, <2>1, ResetProbes DEF HConnack, Connack, BumpGen
<1>2. ASSUME NEW why \in Latches, Error(why), UNCHANGED history
      PROVE  ProbesMatch'
  BY <1>2, UnmovedProbes DEF Error, dirVars, probeVars, history, okRun
<1>3. CASE HDisconnected
  <2>1. UNCHANGED <<dir, okRun, worker>> /\ probe_current' = FALSE
    BY <1>3
    DEF HDisconnected, DisconnectSuppressed, DisconnectWifiDown, DisconnectFailback,
        DisconnectRefused, DisconnectStay, LeaveHost, LeaveLast, BrokerFailure,
        OnDisconnect, LinkLost, BumpGen, dirVars
  <2>2. ok_age' \in Unset .. HealthWindow
    BY <2>1 DEF ProbesMatch, okRun
  <2>3. CASE UNCHANGED probeVars
    BY <2>1, <2>3, UnmovedProbes DEF probeVars, okRun
  <2>4. CASE ResetProbeWindow
    BY <2>1, <2>2, <2>4, ResetProbes
  <2> QED
    BY <1>3, <2>3, <2>4
    DEF HDisconnected, DisconnectSuppressed, DisconnectWifiDown, DisconnectFailback,
        DisconnectRefused, DisconnectStay, LeaveHost, LeaveLast, probeVars
<1>4. ASSUME ReconnectHard, HTeardown, worker' \in {worker, "idle"}
      PROVE  ProbesMatch'
  <2>1. probe_current' => probe_current
    BY <1>4, Zenon
    DEF ReconnectHard, Teardown, TeardownSilent, TeardownEvent, BumpGen
  <2> QED
    BY <1>4, <2>1, UnmovedProbes DEF ReconnectHard, HTeardown, dirVars, probeVars, okRun
<1>5. CASE HTimer
  <2>1. CASE TimerHard /\ HTeardown
    <3>1. probe_current' => probe_current
      BY <2>1, Zenon
      DEF TimerHard, Teardown, TeardownSilent, TeardownEvent, BumpGen
    <3> QED
      BY <2>1, <3>1, UnmovedProbes DEF TimerHard, HTeardown, dirVars, probeVars, okRun
  <2>2. CASE TimerSoftFails /\ HTeardown
    BY <1>4, <2>2 DEF TimerSoftFails
  <2>3. CASE TimerStart /\ UNCHANGED okRun
    BY <2>3, UnmovedProbes DEF TimerStart, dirVars, probeVars, okRun
  <2>4. CASE TimerSoft /\ UNCHANGED okRun
    BY <2>4, UnmovedProbes DEF TimerSoft, foVars, dirVars, probeVars, okRun
  <2> QED
    BY <1>5, <2>1, <2>2, <2>3, <2>4 DEF HTimer
<1>6. CASE HWorker
  <2>1. CASE (WorkerDaily \/ RefreshKeeps) /\ UNCHANGED history
    BY <2>1, UnmovedProbes
    DEF WorkerDaily, RefreshKeeps, AfterRefresh, foVars, dirVars, probeVars, history,
        okRun
  <2>2. CASE (WorkerCycle \/ WorkerRestart) /\ UNCHANGED history
    BY <2>2, UnmovedProbes
    DEF WorkerCycle, WorkerRestart, dirVars, probeVars, history, okRun
  <2>3. ASSUME NEW neu \in Directories, RefreshApplies(neu), HCommit(neu)
        PROVE  ProbesMatch'
    BY <2>3, CommitProbes DEF RefreshApplies, AfterRefresh
  <2>4. CASE WorkerReset /\ UNCHANGED okRun
    <3>1. ok_age' \in Unset .. HealthWindow
      BY <2>4 DEF ProbesMatch, okRun
    <3> QED
      BY <2>4, <3>1, ResetProbes DEF WorkerReset
  <2>5. CASE WorkerHard /\ HTeardown
    BY <1>4, <2>5 DEF WorkerHard
  <2>6. CASE FailbackDue /\ UNCHANGED okRun
    BY <2>6, UnmovedProbes DEF FailbackDue, BeginFailback, dirVars, okRun
  <2>7. CASE /\ ProbeStart
             /\ probed' = (IF ProbeDue THEN Primary(dir) ELSE NoHost)
             /\ UNCHANGED <<ok_host, ok_age, swapped>>
    <3>1. /\ UNCHANGED <<dir, healthy_age>>
          /\ worker' = "probing" => ProbeDue
      BY <2>7 DEF ProbeStart, dirVars
    <3>2. failback_armed' => failback_armed
      BY <2>7, Zenon DEF ProbeStart
    <3>3. Primary(dir)' = Primary(dir)
      BY <3>1 DEF Primary, PrimaryIndex
    <3> QED
      BY <2>7, <3>1, <3>2, <3>3 DEF ProbesMatch
  <2>8. CASE ProbeIgnored /\ UNCHANGED <<ok_host, ok_age, swapped>>
    BY <2>8, UnmovedProbes DEF ProbeIgnored, ProbeEnds, dirVars, probeVars
  <2>9. CASE ProbeFailed /\ ok_age' = Unset
    <3>1. ok_age' \in Unset .. HealthWindow
      BY <2>9, ConstantTypes DEF Unset
    <3> QED
      BY <2>9, <3>1, ResetProbes DEF ProbeFailed
  <2>10. ASSUME NEW delay \in 0 .. Jitter, ProbeHealthy(delay), CountHealthy
         PROVE  ProbesMatch'
    <3>1. /\ worker = "probing" /\ ProbeCounts /\ dir' = dir
          /\ healthy_age' = HealthyNow /\ worker' # "probing"
          /\ ok_host' = probed /\ ok_age' = OkAgeNow /\ swapped' = swapped
      BY <2>10
      DEF ProbeHealthy, ProbeEnds, BeginFailback, CountHealthy, dirVars
    <3>2. Primary(dir)' = Primary(dir)
      BY <3>1 DEF Primary, PrimaryIndex
    <3>3. failback_armed' => failback_armed \/ ArmsNow
      BY <2>10, Zenon DEF ProbeHealthy, BeginFailback
    <3>4. failback_armed' => HealthyNow >= HealthWindow
      BY <3>1, <3>3, HealthyCounts DEF ArmsNow
    <3>5. ok_age' \in Unset .. HealthWindow
      BY <3>1, HealthyCounts, ConstantTypes DEF Unset
    <3> QED
      BY <3>1, <3>2, <3>4, <3>5, HealthyCounts DEF ProbesMatch
  <2> QED
    BY <1>6, <2>1, <2>2, <2>3, <2>4, <2>5, <2>6, <2>7, <2>8, <2>9, <2>10 DEF HWorker
<1>7. ASSUME NEW neu \in Directories, Ingest(neu), HCommit(neu)
      PROVE  ProbesMatch'
  BY <1>7, CommitProbes DEF Ingest
<1>8. CASE AppReconnectHard /\ HTeardown
  BY <1>4, <1>8 DEF AppReconnectHard
<1>9. CASE WifiChange /\ UNCHANGED history
  BY <1>9, UnmovedProbes DEF WifiChange, foVars, dirVars, probeVars, history, okRun
<1>10. CASE /\ Tick
            /\ ok_age' = Older(ok_age, HealthWindow)
            /\ UNCHANGED <<probed, ok_host, swapped>>
  <2>1. /\ UNCHANGED <<dir, failback_armed, worker, probe_current>>
        /\ healthy_age' = Older(healthy_age, HealthWindow)
    BY <1>10 DEF Tick, dirVars
  <2>2. /\ healthy_age \in Unset .. HealthWindow
        /\ ok_age \in Unset .. HealthWindow
    BY DEF TypeOK, CountType, ProbesMatch
  <2>3. /\ ok_age' \in Unset .. HealthWindow
        /\ healthy_age' = Unset <=> healthy_age = Unset
        /\ healthy_age >= HealthWindow => healthy_age' >= HealthWindow
        /\ healthy_age # Unset /\ healthy_age <= ok_age => healthy_age' <= ok_age'
    BY <1>10, <2>1, <2>2, ConstantTypes DEF Older, AtMost, Unset
  <2>4. Primary(dir)' = Primary(dir)
    BY <2>1 DEF Primary, PrimaryIndex
  <2> QED
    BY <1>10, <2>1, <2>3, <2>4 DEF ProbesMatch
<1>11. CASE UNCHANGED hvars
  BY <1>11, UnmovedProbes DEF hvars, vars, foVars, dirVars, probeVars, history, okRun
<1> QED
  BY <1>1, <1>2, <1>3, <1>5, <1>6, <1>7, <1>8, <1>9, <1>10, <1>11 DEF HNext

(* A failback begins in the worker only: when an armed one falls due, or   *)
(* when a good probe completes the window and no delay is left.            *)
LEMMA BeginsByRule ==
  ASSUME TypeOK, ProbesMatch, [HNext]_hvars, BeginsFailback, ~swapped
  PROVE  ProvenFor(dir'[index'].host)
<1>1. failback_active' /\ ~failback_active
  BY DEF BeginsFailback
<1>2. \A neu \in Directories : ~Commit(neu)
  BY <1>1, Zenon DEF Commit, CommitStay, CommitGone, CommitIdle
<1>3. \/ FailbackDue
      \/ \E delay \in 0 .. Jitter : ProbeHealthy(delay) /\ BeginFailback
  <2>1. ~HConnack
    BY <1>1 DEF HConnack, Connack
  <2>2. \A why \in Latches : ~Error(why)
    BY <1>1 DEF Error, failbackVars
  <2>3. ~HDisconnected
    BY <1>1
    DEF HDisconnected, DisconnectSuppressed, DisconnectWifiDown, DisconnectFailback,
        DisconnectRefused, DisconnectStay, LeaveHost, LeaveLast, BrokerFailure,
        failbackVars
  <2>4. ~HTimer
    BY <1>1
    DEF HTimer, TimerHard, TimerSoftFails, ReconnectHard, TimerStart, TimerSoft,
        foVars, failbackVars
  <2>5. CASE HWorker
    BY <1>1, <1>2, <2>5
    DEF HWorker, WorkerDaily, WorkerCycle, RefreshKeeps, WorkerRestart,
        RefreshApplies, WorkerReset, WorkerHard, ReconnectHard, ProbeStart,
        ProbeIgnored, ProbeFailed, ProbeHealthy, foVars, failbackVars
  <2>6. \A neu \in Directories : ~Ingest(neu)
    BY <1>2 DEF Ingest
  <2>7. ~AppReconnectHard /\ ~WifiChange /\ ~Tick /\ ~UNCHANGED hvars
    BY <1>1
    DEF AppReconnectHard, ReconnectHard, WifiChange, Tick, hvars, vars, foVars,
        failbackVars
  <2> QED
    BY <2>1, <2>2, <2>3, <2>4, <2>5, <2>6, <2>7 DEF HNext
<1>4. dir'[index'].host = Primary(dir)
  BY <1>3
  DEF FailbackDue, ProbeHealthy, ProbeEnds, BeginFailback, Primary, dirVars
<1>5. CASE FailbackDue
  <2>1. failback_armed
    BY <1>5 DEF FailbackDue, SwitchDue
  <2>2. healthy_age >= HealthWindow /\ healthy_age # Unset
    BY <2>1, ConstantTypes DEF ProbesMatch, Unset
  <2>3. ok_host = Primary(dir) /\ healthy_age <= ok_age
    BY <2>2 DEF ProbesMatch
  <2>4. healthy_age \in Int /\ ok_age \in Int
    BY DEF TypeOK, CountType, ProbesMatch, Unset
  <2> QED
    BY <1>4, <2>2, <2>3, <2>4, ConstantTypes DEF ProvenFor
<1>6. ASSUME NEW delay \in 0 .. Jitter, ProbeHealthy(delay), BeginFailback
      PROVE  ProvenFor(dir'[index'].host)
  <2>1. worker = "probing" /\ ProbeCounts
    BY <1>6 DEF ProbeHealthy, ProbeEnds
  <2>2. failback_armed \/ ArmsNow
    BY <1>6, <2>1 DEF ProbeHealthy, DueAfter, BeginFailback
  <2>3. HealthyNow >= HealthWindow
    BY <2>1, <2>2, HealthyCounts DEF ArmsNow
  <2> QED
    BY <1>4, <2>1, <2>3, HealthyCounts, ConstantTypes DEF ProvenFor
<1> QED
  BY <1>3, <1>5, <1>6

(* The failback rule holds of every behaviour: probes that were in flight  *)
(* across a lost session, a reconnect or a new list never add up to a      *)
(* health window that the primary did not earn in this session.            *)
THEOREM FailbackRuleHolds == HSpec => FailbackRule
<1> DEFINE Inv == TypeOK /\ ProbesMatch
<1>1. HInit => Inv
  <2> SUFFICES ASSUME HInit
               PROVE  Inv
    OBVIOUS
  <2>1. TypeOK
    BY TypeInit DEF HInit
  <2>2. Unset \in Unset .. HealthWindow
    BY ConstantTypes DEF Unset
  <2> QED
    BY <2>1, <2>2 DEF HInit, Init, ProbesMatch
<1>2. Inv /\ [HNext]_hvars => Inv'
  BY TypeStep, HistoryStep, ProbesStep
<1>3. Inv /\ [HNext]_hvars
        => [BeginsFailback => ProvenFor(dir'[index'].host) \/ swapped]_hvars
  BY BeginsByRule
<1> QED
  BY <1>1, <1>2, <1>3, PTL DEF HSpec, FailbackRule

-------------------------------------------------------------------------------
(* The session is on the endpoint the failover believes it is on, and a    *)
(* failback that fails comes back to the backup it left.                   *)

(* A hard reconnect that a failure decided on waits without a session, and *)
(* without the backup flag, until the timer takes the handle away.         *)
HardDecided ==
  need_hard /\ ~rebased
    => ~connected /\ ~session_on_backup /\ link \in {"none", "waiting"}

(* A session that agrees with the endpoint it is on.                       *)
Agrees ==
  connected => last_good = mqtt /\ (session_on_backup <=> dir[index].role = "backup")

(* The handle is bound to the selected host, with or without a session.    *)
OnHandle ==
  mqtt # NoHost /\ ~rebased /\ ~need_hard /\ worker # "hard"
    => dir[index].host = mqtt /\ Agrees

SessionInv ==
  /\ HandleBound
  /\ connected => mqtt # NoHost
  /\ HardDecided
  /\ OnHandle

(* A step that moves neither the selection nor the handle, and at most     *)
(* loses the session.                                                      *)
LEMMA SessionUnmoved ==
  ASSUME SessionInv, HandleBound', UNCHANGED <<dir, index, need_hard, rebased, mqtt>>,
         worker = "hard" => worker' = "hard",
         link' = link \/ link' = "waiting" \/ link = "connecting" \/ link = "up",
         connected' => connected /\ UNCHANGED <<last_good, session_on_backup>>,
         session_on_backup' => session_on_backup
  PROVE  SessionInv'
<1>1. HardDecided'
  BY DEF SessionInv, HardDecided
<1>2. OnHandle'
  BY DEF SessionInv, OnHandle, Agrees
<1> QED
  BY <1>1, <1>2 DEF SessionInv

(* A teardown takes the session and the handle away.                       *)
LEMMA SessionTornDown ==
  ASSUME SessionInv, Teardown, UNCHANGED <<need_hard, rebased, session_on_backup>>
  PROVE  SessionInv'
BY DEF SessionInv, Teardown, HandleBound, HardDecided, OnHandle

(* A new list: the host of the open session is found again in it, or the   *)
(* history records that it is not.                                         *)
LEMMA SessionCommit ==
  ASSUME TypeOK, SessionInv, NEW neu \in Directories, Commit(neu), HCommit(neu),
         UNCHANGED clientVars, worker = "hard" => worker' = "hard"
  PROVE  SessionInv'
<1>1. rebased' <=> rebased \/ (mqtt # NoHost /\ (~connected \/ FindHost(neu, mqtt) = 0))
  BY DEF HCommit
<1>2. /\ UNCHANGED <<mqtt, link, connected, need_hard>> /\ dir' = neu
      /\ last_good' = IF FindHost(neu, last_good) > 0 THEN last_good ELSE NoHost
  BY DEF Commit, clientVars
<1>3. HardDecided'
  <2>1. ~connected => UNCHANGED session_on_backup
    BY DEF Commit, CommitStay, CommitGone, CommitIdle
  <2> QED
    BY <1>1, <1>2, <2>1 DEF SessionInv, HardDecided
<1>4. OnHandle'
  <2> SUFFICES ASSUME mqtt # NoHost, ~rebased', ~need_hard, worker' # "hard"
               PROVE  (dir[index].host = mqtt /\ Agrees)'
    BY <1>2 DEF OnHandle
  <2>1. connected /\ FindHost(neu, mqtt) # 0 /\ last_good = mqtt
    BY <1>1 DEF SessionInv, OnHandle, Agrees
  <2>2. FindHost(neu, mqtt) > 0 /\ neu[FindHost(neu, mqtt)].host = mqtt
    <3>1. Len(neu) \in Int /\ FindHost(neu, mqtt) \in 0 .. Len(neu)
      BY FindHostFinds, ListLength
    <3> QED
      BY <2>1, <3>1, FindHostFinds
  <2>3. StayIndex(neu) = FindHost(neu, mqtt)
    BY <2>1, <2>2 DEF StayIndex
  <2>4. CommitStay(neu)
    BY <2>1, <2>2, <2>3 DEF Commit, CommitGone, CommitIdle
  <2>5. index' = FindHost(neu, mqtt) /\ (session_on_backup' <=> neu[index'].role = "backup")
    BY <2>3, <2>4 DEF CommitStay
  <2> QED
    BY <1>2, <2>1, <2>2, <2>5 DEF Agrees
<1> QED
  BY <1>2, <1>3, <1>4 DEF SessionInv, HandleBound

LEMMA SessionEvent ==
  ASSUME TypeOK, SessionInv, HandleBound',
         HConnack \/ (\E why \in Latches : Error(why) /\ UNCHANGED history) \/ HDisconnected
  PROVE  SessionInv'
<1>1. CASE HConnack
  <2>1. /\ UNCHANGED <<dir, index, need_hard, worker, mqtt, rebased>> /\ link = "connecting"
        /\ last_good' = dir[index].host
        /\ session_on_backup' <=> dir[index].role = "backup"
    BY <1>1 DEF HConnack, Connack
  <2> QED
    BY <2>1 DEF SessionInv, HandleBound, HardDecided, OnHandle, Agrees
<1>2. CASE \E why \in Latches : Error(why) /\ UNCHANGED history
  BY <1>2, SessionUnmoved DEF Error, dirVars, history
<1>3. CASE HDisconnected
  <2>1. /\ UNCHANGED <<dir, rebased, mqtt, worker>> /\ link \in Alive
        /\ connected' = FALSE /\ link' = "waiting"
    BY <1>3
    DEF HDisconnected, DisconnectSuppressed, DisconnectWifiDown, DisconnectRefused,
        DisconnectFailback, DisconnectStay, LeaveHost, LeaveLast, BrokerFailure,
        OnDisconnect, LinkLost, dirVars
  <2>2. CASE DisconnectFailback \/ LeaveHost
    <3>1. need_hard' /\ ~session_on_backup'
      BY <2>2 DEF DisconnectFailback, LeaveHost, BrokerFailure, OnDisconnect
    <3> QED
      BY <2>1, <3>1 DEF SessionInv, HardDecided, OnHandle
  <2>3. CASE ~(DisconnectFailback \/ LeaveHost)
    <3>1. UNCHANGED <<index, need_hard>> /\ (session_on_backup' => session_on_backup)
      BY <1>3, <2>3
      DEF HDisconnected, DisconnectSuppressed, DisconnectWifiDown, DisconnectRefused,
          DisconnectStay, LeaveLast, BrokerFailure, OnDisconnect
    <3> QED
      BY <2>1, <3>1, SessionUnmoved
  <2> QED
    BY <2>2, <2>3
<1> QED
  BY <1>1, <1>2, <1>3

LEMMA SessionTimer ==
  ASSUME TypeOK, SessionInv, HandleBound', HTimer
  PROVE  SessionInv'
<1>1. CASE TimerHard /\ HTeardown
  <2>1. mqtt' = NoHost /\ ~connected' /\ ~need_hard'
    BY <1>1 DEF TimerHard, Teardown
  <2> QED
    BY <2>1 DEF SessionInv, HardDecided, OnHandle
<1>2. CASE TimerSoftFails /\ HTeardown
  BY <1>2, SessionTornDown DEF TimerSoftFails, ReconnectHard, HTeardown
<1>3. CASE TimerStart
  <2>1. mqtt = NoHost /\ ~need_hard' /\ UNCHANGED <<dir, index, connected>>
        /\ mqtt' \in {NoHost, dir[index].host}
    BY <1>3 DEF TimerStart, StartFails, dirVars
  <2>2. ~connected
    BY <2>1 DEF SessionInv
  <2> QED
    BY <2>1, <2>2 DEF SessionInv, HardDecided, OnHandle, Agrees
<1>4. CASE TimerSoft /\ UNCHANGED rebased
  <2>1. UNCHANGED <<dir, index, need_hard, rebased, mqtt, worker, connected, last_good,
                    session_on_backup>> /\ ~need_hard
    BY <1>4 DEF TimerSoft, foVars, dirVars
  <2> QED
    BY <2>1 DEF SessionInv, HardDecided, OnHandle, Agrees
<1> QED
  BY <1>1, <1>2, <1>3, <1>4 DEF HTimer

LEMMA SessionWorker ==
  ASSUME TypeOK, SessionInv, HandleBound', HWorker
  PROVE  SessionInv'
<1>1. ASSUME UNCHANGED <<clientVars, dirVars, index, need_hard, rebased, session_on_backup>>,
             worker = "hard" => worker' = "hard"
      PROVE  SessionInv'
  BY <1>1, SessionUnmoved DEF clientVars, dirVars
<1>2. CASE (WorkerDaily \/ WorkerCycle \/ RefreshKeeps) /\ UNCHANGED history
  BY <1>1, <1>2
  DEF WorkerDaily, WorkerCycle, RefreshKeeps, Refreshing, foVars, history
<1>3. CASE WorkerRestart /\ UNCHANGED history
  BY <1>1, <1>3 DEF WorkerRestart, history
<1>4. ASSUME NEW neu \in Directories, RefreshApplies(neu), HCommit(neu)
      PROVE  SessionInv'
  BY <1>4, SessionCommit DEF RefreshApplies, Refreshing
<1>5. CASE WorkerReset /\ rebased' = (rebased \/ mqtt # NoHost)
  <2>1. UNCHANGED <<mqtt, link, connected>> /\ (need_hard' <=> mqtt # NoHost)
        /\ (rebased' <=> rebased \/ mqtt # NoHost)
    BY <1>5 DEF WorkerReset, clientVars
  <2> QED
    BY <2>1 DEF SessionInv, HandleBound, HardDecided, OnHandle
<1>6. CASE WorkerHard /\ HTeardown
  BY <1>6, SessionTornDown DEF WorkerHard, ReconnectHard, HTeardown
<1>7. CASE BeginFailback /\ UNCHANGED <<need_hard, clientVars, rebased>>
  BY <1>7 DEF BeginFailback, SessionInv, HardDecided, OnHandle, HandleBound, clientVars
<1>8. CASE FailbackDue /\ UNCHANGED rebased
  BY <1>7, <1>8 DEF FailbackDue
<1>9. CASE (ProbeStart \/ ProbeIgnored \/ ProbeFailed) /\ UNCHANGED rebased
  BY <1>1, <1>9 DEF ProbeStart, ProbeIgnored, ProbeFailed, ProbeEnds
<1>10. ASSUME NEW delay \in 0 .. Jitter, ProbeHealthy(delay), UNCHANGED rebased
       PROVE  SessionInv'
  BY <1>1, <1>7, <1>10 DEF ProbeHealthy, ProbeEnds
<1> QED
  BY <1>2, <1>3, <1>4, <1>5, <1>6, <1>8, <1>9, <1>10 DEF HWorker, history

LEMMA SessionStep ==
  ASSUME TypeOK, SessionInv, [HNext]_hvars
  PROVE  SessionInv'
<1>1. HandleBound'
  BY HistoryStep, HandleStep DEF SessionInv
<1>2. ASSUME NEW neu \in Directories, Ingest(neu), HCommit(neu)
      PROVE  SessionInv'
  BY <1>2, SessionCommit DEF Ingest
<1>3. CASE AppReconnectHard /\ HTeardown
  BY <1>3, SessionTornDown DEF AppReconnectHard, ReconnectHard, HTeardown
<1>4. CASE (WifiChange /\ UNCHANGED history) \/ (Tick /\ UNCHANGED rebased) \/ UNCHANGED hvars
  <2>1. UNCHANGED <<clientVars, dirVars, index, need_hard, rebased, session_on_backup, worker>>
    BY <1>4 DEF WifiChange, Tick, hvars, vars, foVars, history, failbackVars
  <2> QED
    BY <1>1, <2>1, SessionUnmoved DEF clientVars, dirVars
<1> QED
  BY <1>1, <1>2, <1>3, <1>4, SessionEvent, SessionTimer, SessionWorker DEF HNext

LEMMA SessionInit == HInit => SessionInv
<1> SUFFICES ASSUME HInit PROVE SessionInv
  OBVIOUS
<1>1. dir[1].host \in Host
  BY ListLength, EntryHost DEF HInit, Init
<1> QED
  BY <1>1, HostAssumption DEF HInit, Init, SessionInv, HandleBound, HardDecided, OnHandle, Agrees

(* An open session is on the selected host, which is the recorded last     *)
(* good one, and the backup flag says which kind it is, through every      *)
(* list, probe, failback and teardown, but for the exceptions named there. *)
THEOREM SessionOnSelectedAlways == HSpec => []SessionOnSelected
<1>1. HInit => TypeOK
  BY TypeInit DEF HInit
<1>2. TypeOK /\ SessionInv /\ [HNext]_hvars => TypeOK' /\ SessionInv'
  BY TypeStep, HistoryStep, SessionStep
<1>3. SessionInv /\ TypeOK => SessionOnSelected
  BY DEF SessionInv, OnHandle, Agrees, SessionOnSelected, TypeOK, FlagType
<1> QED
  BY <1>1, <1>2, <1>3, SessionInit, PTL DEF HSpec

(* While a failback is under way and no list came in, the recorded index   *)
(* is the place of the backup it left.                                     *)
HomeRecorded ==
  home # NoHost => /\ failback_active
                   /\ failback_backup_index \in 1 .. Len(dir)
                   /\ dir[failback_backup_index].host = home

(* The failback leaves the host that the handle is bound to.               *)
LEMMA BeginsAtHome ==
  ASSUME TypeOK, SessionInv, HomeRecorded, BeginFailback, HBeginFailback, dir' = dir,
         session_on_backup, ~failback_active, worker # "hard"
  PROVE  HomeRecorded'
<1>1. home = NoHost
  BY DEF HomeRecorded
<1>2. /\ failback_active' /\ failback_backup_index' = index
      /\ home' \in {NoHost, mqtt} /\ (home' # NoHost => ~rebased)
  BY <1>1 DEF BeginFailback, HBeginFailback
<1>3. index \in 1 .. Len(dir)
  BY DEF TypeOK, SelectionType
<1>4. ~rebased => ~need_hard
  BY DEF SessionInv, HardDecided
<1> QED
  BY <1>2, <1>3, <1>4 DEF SessionInv, OnHandle, HomeRecorded

LEMMA HomeUnmoved ==
  ASSUME HomeRecorded, home' = NoHost \/ UNCHANGED <<home, dir, failbackVars>>
  PROVE  HomeRecorded'
BY DEF HomeRecorded, failbackVars

LEMMA HomeStep ==
  ASSUME TypeOK, SessionInv, HomeRecorded, [HNext]_hvars
  PROVE  HomeRecorded'
<1>1. CASE HConnack
  BY <1>1, HomeUnmoved DEF HConnack
<1>2. CASE \E why \in Latches : Error(why) /\ UNCHANGED history
  BY <1>2, HomeUnmoved DEF Error, dirVars, history
<1>3. CASE HDisconnected
  <2>1. CASE DisconnectFailback /\ home' = NoHost
    BY <2>1, HomeUnmoved
  <2>2. CASE DisconnectSuppressed /\ UNCHANGED home
    BY <2>2, HomeUnmoved DEF DisconnectSuppressed, LinkLost, dirVars
  <2>3. CASE (DisconnectWifiDown \/ DisconnectRefused \/ DisconnectStay \/ LeaveHost \/ LeaveLast)
             /\ UNCHANGED home
    BY <2>3, HomeUnmoved
    DEF DisconnectWifiDown, DisconnectRefused, DisconnectStay, LeaveHost, LeaveLast,
        BrokerFailure, OnDisconnect, LinkLost, dirVars, failbackVars
  <2> QED
    BY <1>3, <2>1, <2>2, <2>3 DEF HDisconnected
<1>4. CASE HTimer
  BY <1>4, HomeUnmoved
  DEF HTimer, TimerHard, TimerSoftFails, ReconnectHard, TimerStart, StartFails, TimerSoft,
      HTeardown, foVars, dirVars
<1>5. CASE HWorker
  <2>1. CASE (WorkerDaily \/ WorkerCycle \/ RefreshKeeps \/ WorkerRestart) /\ UNCHANGED history
    BY <2>1, HomeUnmoved
    DEF WorkerDaily, WorkerCycle, RefreshKeeps, WorkerRestart, foVars, dirVars, history
  <2>2. ASSUME NEW neu \in Directories, HCommit(neu)
        PROVE  HomeRecorded'
    BY <2>2, HomeUnmoved DEF HCommit
  <2>3. CASE WorkerReset /\ home' = NoHost
    BY <2>3, HomeUnmoved
  <2>4. CASE WorkerHard /\ HTeardown
    BY <2>4, HomeUnmoved DEF WorkerHard, ReconnectHard, HTeardown, dirVars
  <2>5. CASE FailbackDue /\ HBeginFailback
    BY <2>5, BeginsAtHome DEF FailbackDue, SwitchDue, dirVars
  <2>6. CASE (ProbeStart \/ ProbeIgnored \/ ProbeFailed) /\ UNCHANGED home
    BY <2>6, HomeUnmoved DEF ProbeStart, ProbeIgnored, ProbeFailed, ProbeEnds, dirVars
  <2>7. ASSUME NEW delay \in 0 .. Jitter, ProbeHealthy(delay), HBeginFailback
        PROVE  HomeRecorded'
    <3>1. dir' = dir /\ worker = "probing" /\ session_on_backup /\ ~failback_active
      BY <2>7 DEF ProbeHealthy, ProbeEnds, ProbeCounts, dirVars
    <3>2. CASE BeginFailback
      BY <2>7, <3>1, <3>2, BeginsAtHome
    <3>3. CASE UNCHANGED failbackVars
      BY <2>7, <3>1, <3>3, HomeUnmoved DEF HBeginFailback, failbackVars
    <3> QED
      BY <2>7, <3>2, <3>3 DEF ProbeHealthy
  <2> QED
    BY <1>5, <2>1, <2>2, <2>3, <2>4, <2>5, <2>6, <2>7 DEF HWorker
<1>6. ASSUME NEW neu \in Directories, HCommit(neu)
      PROVE  HomeRecorded'
  BY <1>6, HomeUnmoved DEF HCommit
<1>7. CASE AppReconnectHard /\ HTeardown
  BY <1>7, HomeUnmoved DEF AppReconnectHard, ReconnectHard, HTeardown, dirVars
<1>8. CASE (WifiChange /\ UNCHANGED history) \/ (Tick /\ UNCHANGED home) \/ UNCHANGED hvars
  BY <1>8, HomeUnmoved DEF WifiChange, Tick, hvars, vars, foVars, history, dirVars
<1> QED
  BY <1>1, <1>2, <1>3, <1>4, <1>5, <1>6, <1>7, <1>8 DEF HNext

(* A failback CONNECT that fails with Wi-Fi up selects the backup it came  *)
(* from and forces a fresh client, unless a new list came in between.      *)
THEOREM FailbackReturnsAlways == HSpec => FailbackReturns
<1> DEFINE Inv == TypeOK /\ SessionInv /\ HomeRecorded
<1>1. HInit => Inv
  BY TypeInit, SessionInit DEF HInit, HomeRecorded
<1>2. Inv /\ [HNext]_hvars => Inv'
  BY TypeStep, HistoryStep, SessionStep, HomeStep
<1>3. Inv /\ [HNext]_hvars
        => [(/\ failback_active /\ wifi /\ suppress = 0
             /\ link \in Alive /\ link' = "waiting"
             /\ home # NoHost)
            => dir'[index'].host = home /\ need_hard']_hvars
  <2> SUFFICES ASSUME HomeRecorded, TypeOK, [HNext]_hvars, failback_active, wifi, suppress = 0,
                      link \in Alive, link' = "waiting", home # NoHost
               PROVE  dir'[index'].host = home /\ need_hard'
    OBVIOUS
  <2>1. HDisconnected
    BY LinkLostOnlyOnEvent DEF Alive
  <2>2. DisconnectFailback
    BY <2>1
    DEF HDisconnected, DisconnectSuppressed, DisconnectWifiDown, DisconnectRefused,
        DisconnectStay, LeaveHost, LeaveLast, BrokerFailure
  <2>3. /\ UNCHANGED dir /\ need_hard'
        /\ index' = IF failback_backup_index > Len(dir) THEN 1 ELSE failback_backup_index
    BY <2>2 DEF DisconnectFailback, OnDisconnect, LinkLost, dirVars
  <2>4. Len(dir) \in Int /\ failback_backup_index \in 1 .. Len(dir)
    BY ListLength DEF HomeRecorded, TypeOK, SelectionType
  <2>5. index' = failback_backup_index
    BY <2>3, <2>4
  <2> QED
    BY <2>3, <2>5 DEF HomeRecorded
<1> QED
  BY <1>1, <1>2, <1>3, PTL DEF HSpec, FailbackReturns

===============================================================================
