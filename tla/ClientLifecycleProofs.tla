------------------------- MODULE ClientLifecycleProofs -------------------------
(***************************************************************************)
(* Proofs about ClientLifecycle, for every ceiling of the hook's depth and *)
(* of the disconnect tokens, and every interleaving of the four tasks: the *)
(* types; the application is never told to free its resources twice, nor   *)
(* to take them back more than once; a disconnected client stays down; a   *)
(* connected one has its next attempt planned; and no hold outlives the    *)
(* attempts it was taken for.                                              *)
(***************************************************************************)
EXTENDS ClientLifecycle, FiniteSetTheorems, TLAPS

HookType == depth \in 0 .. HookMax /\ owes \subseteq Task /\ open \in Int

HookInv == HookType /\ OneReleasePerAcquire

-----------------------------------------------------------------------------
\* Who owes a callback

LEMMA OwesFinite ==
  ASSUME owes \subseteq Task
  PROVE  IsFiniteSet(owes) /\ Cardinality(owes) \in Nat
<1>1. IsFiniteSet({"app"} \cup {"tmr"})
  BY FS_Singleton, FS_AddElement
<1>2. IsFiniteSet(({"app"} \cup {"tmr"}) \cup {"wrk"})
  BY <1>1, FS_AddElement
<1>3. IsFiniteSet((({"app"} \cup {"tmr"}) \cup {"wrk"}) \cup {"net"})
  BY <1>2, FS_AddElement
<1>4. Task = (({"app"} \cup {"tmr"}) \cup {"wrk"}) \cup {"net"}
  BY DEF Task
<1>5. IsFiniteSet(owes)
  BY <1>3, <1>4, FS_Subset
<1> QED
  BY <1>5, FS_CardinalityType

LEMMA OneOwesMore ==
  ASSUME owes \subseteq Task, NEW t \in Task, t \notin owes
  PROVE  Cardinality(owes \cup {t}) = Cardinality(owes) + 1
BY OwesFinite, FS_AddElement

LEMMA OneOwesLess ==
  ASSUME owes \subseteq Task, NEW t \in owes
  PROVE  Cardinality(owes \ {t}) = Cardinality(owes) - 1
BY OwesFinite, FS_RemoveElement

-----------------------------------------------------------------------------
\* The steps that touch the hook

LEMMA AcquireKeeps ==
  ASSUME HookInv, Acquire
  PROVE  HookInv'
<1>1. depth \in 0 .. HookMax /\ HookMax \in Nat /\ HookMax > 1
  BY CeilingAssumption DEF HookInv, HookType
<1>2. /\ depth' \in 0 .. HookMax /\ depth' > 0 /\ owes' = owes
      /\ depth' = 1 <=> depth = 0
  BY <1>1 DEF Acquire
<1>3. open' = IF depth = 0 THEN open + 1 ELSE open
  BY <1>2 DEF Acquire
<1> QED
  BY <1>1, <1>2, <1>3, OwesFinite DEF HookInv, HookType, OneReleasePerAcquire

(* The last hold goes, and its callback becomes one that a task owes.      *)
LEMMA ReleaseKeeps ==
  ASSUME HookInv, NEW t \in Task, t \notin owes, Release(t)
  PROVE  HookInv'
<1>1. depth \in 0 .. HookMax /\ HookMax \in Nat /\ owes \subseteq Task /\ open \in Int
  BY CeilingAssumption DEF HookInv, HookType
<1>2. depth' \in 0 .. HookMax /\ open' = open
  BY <1>1 DEF Release
<1>3. CASE depth = 1
  <2>1. owes' = owes \cup {t} /\ depth' = 0
    BY <1>3 DEF Release
  <2>2. Cardinality(owes') = Cardinality(owes) + 1
    BY <1>1, <2>1, OneOwesMore
  <2> QED
    BY <1>1, <1>2, <1>3, <2>1, <2>2, OwesFinite DEF HookInv, HookType, OneReleasePerAcquire
<1>4. CASE depth # 1
  <2>1. owes' = owes /\ (depth' > 0 <=> depth > 0)
    BY <1>1, <1>4 DEF Release
  <2> QED
    BY <1>1, <1>2, <2>1 DEF HookInv, HookType, OneReleasePerAcquire
<1> QED
  BY <1>3, <1>4

LEMMA CallbackKeeps ==
  ASSUME HookInv, NEW t \in Task, ReleaseCallback(t)
  PROVE  HookInv'
<1>1. owes \subseteq Task /\ open \in Int /\ t \in owes
  BY DEF HookInv, HookType, ReleaseCallback
<1>2. owes' = owes \ {t} /\ open' = open - 1 /\ depth' = depth
  BY DEF ReleaseCallback
<1>3. Cardinality(owes') = Cardinality(owes) - 1
  BY <1>1, <1>2, OneOwesLess
<1> QED
  BY <1>1, <1>2, <1>3, OwesFinite DEF HookInv, HookType, OneReleasePerAcquire

LEMMA ClashKeeps ==
  ASSUME Clash
  PROVE  HookInv'
<1>1. depth' = 0 /\ owes' = {} /\ open' = 0
  BY DEF Clash
<1> QED
  BY <1>1, CeilingAssumption, FS_EmptySet DEF HookInv, HookType, OneReleasePerAcquire

(* Nothing else does: a task that lets go has made the callback it owed.   *)
HookStep ==
  \/ UNCHANGED hookVars
  \/ Acquire
  \/ \E t \in Task : t \notin owes /\ Release(t)
  \/ \E t \in Task : ReleaseCallback(t)
  \/ Clash

LEMMA TimerHookStep == Timer => HookStep
<1> USE DEF HookStep, Task
<1>1. TimerFires => HookStep
  BY DEF TimerFires
<1>2. TimerHard => HookStep
  BY DEF TimerHard
<1>3. TimerReleases => HookStep
  BY DEF TimerReleases, At
<1>4. TimerStops => HookStep
  BY DEF TimerStops, Stop
<1>5. TimerStopsNothing => HookStep
  BY DEF TimerStopsNothing
<1>6. TimerDestroys => HookStep
  BY DEF TimerDestroys
<1>7. TimerStart => HookStep
  BY DEF TimerStart
<1>8. TimerSoft => HookStep
  BY DEF TimerSoft, AcquireForAttempt
<1>9. SoftReconnect => HookStep
  BY DEF SoftReconnect
<1>10. Phantom => HookStep
  BY DEF Phantom
<1> QED
  BY <1>1, <1>2, <1>3, <1>4, <1>5, <1>6, <1>7, <1>8, <1>9, <1>10 DEF Timer

LEMMA StartHookStep ==
  ASSUME NEW t \in Task, Start(t) \/ HardReconnect(t)
  PROVE  HookStep
<1> USE DEF HookStep
<1>1. CASE StartAcquires(t)
  BY <1>1 DEF StartAcquires, AcquireForAttempt
<1>2. CASE StartFails(t)
  BY <1>2 DEF StartFails, At
<1>3. CASE HardReleases(t)
  BY <1>3 DEF HardReleases, At
<1>4. CASE StartRefused(t) \/ StartRuns(t) \/ StartStores(t) \/ StartEnds(t)
  BY <1>4 DEF StartRefused, StartRuns, StartStores, StartEnds
<1>5. CASE HardBegins(t) \/ NothingToStop(t) \/ HardStops(t) \/ HardDestroys(t) \/ HardRearms(t)
  BY <1>5 DEF HardBegins, NothingToStop, HardStops, Stop, HardDestroys, HardRearms
<1> QED
  BY <1>1, <1>2, <1>3, <1>4, <1>5 DEF Start, HardReconnect

LEMMA EveryHookStep == [Next]_vars => HookStep
<1>1. App => HookStep
  BY DEF App, Connect, FailoverStart, ConnectFails, Disconnect, StopTimers, DisconnectEnds,
         AppHard, HookStep
<1>2. Worker => HookStep
  <2> USE DEF HookStep, Task
  <2>1. ProbeBegins => HookStep
    BY DEF ProbeBegins
  <2>2. ProbeEnds => HookStep
    BY DEF ProbeEnds, At
  <2>3. ProbeDecided \/ WorkerHard \/ WorkerCycle \/ WorkerReset \/ ArmChecks
        \/ ArmActs("wrk", "armnow") => HookStep
    BY DEF ProbeDecided, WorkerHard, WorkerCycle, WorkerReset, ArmChecks, ArmActs
  <2> QED
    BY <2>1, <2>2, <2>3 DEF Worker
<1>3. Net => HookStep
  <2> USE DEF HookStep, Task
  <2>1. ConnackReleases => HookStep
    BY DEF ConnackReleases, At
  <2>2. DisconnectReleases => HookStep
    BY DEF DisconnectReleases, At
  <2>3. Connected \/ DisconnectSuppressed \/ Disconnected \/ OnDisconnect
        \/ ArmActs("net", "netarm") => HookStep
    BY DEF Connected, DisconnectSuppressed, Disconnected, OnDisconnect, ArmActs
  <2> QED
    BY <2>1, <2>2, <2>3 DEF Net
<1>4. UNCHANGED vars => HookStep
  BY DEF vars, HookStep
<1>5. (Clash \/ \E t \in Task : ReleaseCallback(t)) => HookStep
  BY DEF HookStep
<1> QED
  BY <1>1, <1>2, <1>3, <1>4, <1>5, TimerHookStep, StartHookStep DEF Next

(* Every on_tls_acquire is answered by exactly one on_tls_release.         *)
THEOREM OneRelease == Spec => []OneReleasePerAcquire
<1>1. Init => HookInv
  BY CeilingAssumption, FS_EmptySet DEF Init, HookInv, HookType, OneReleasePerAcquire
<1>2. HookInv /\ [Next]_vars => HookInv'
  <2> SUFFICES ASSUME HookInv, HookStep PROVE HookInv'
    BY EveryHookStep
  <2>1. CASE UNCHANGED hookVars
    BY <2>1 DEF hookVars, HookInv, HookType, OneReleasePerAcquire
  <2> QED
    BY <2>1, AcquireKeeps, ReleaseKeeps, CallbackKeeps, ClashKeeps DEF HookStep
<1>3. HookInv => OneReleasePerAcquire
  BY DEF HookInv
<1> QED
  BY <1>1, <1>2, <1>3, PTL DEF Spec

-----------------------------------------------------------------------------
\* Types

(* HookInv holds on its own and bounds `open` from below.                  *)
LEMMA HookAlways == HookInv /\ [Next]_vars => HookInv'
<1> SUFFICES ASSUME HookInv, HookStep PROVE HookInv'
  BY EveryHookStep
<1>1. CASE UNCHANGED hookVars
  BY <1>1 DEF hookVars, HookInv, HookType, OneReleasePerAcquire
<1> QED
  BY <1>1, AcquireKeeps, ReleaseKeeps, CallbackKeeps, ClashKeeps DEF HookStep

AtType ==
  at \in [Task -> UNION {Place[t] : t \in Task}] /\ \A t \in Task : at[t] \in Place[t]

ClientType ==
  /\ mqtt \in BOOLEAN /\ connected \in BOOLEAN
  /\ link \in {"none", "connecting", "up", "waiting"}

TimerType == ref \in BOOLEAN /\ armed \in BOOLEAN /\ stray \in BOOLEAN /\ watch \in BOOLEAN

FoFlags == task \in BOOLEAN /\ running \in BOOLEAN /\ need_hard \in BOOLEAN /\ cycle \in BOOLEAN

FoType == FoFlags /\ suppress \in 0 .. SuppressMax

CallType == call \in {"none", "connect", "hard", "disconnect"}

HookFlags == held \in BOOLEAN /\ suspended \in BOOLEAN

PastType ==
  swallowed \in BOOLEAN /\ want \in BOOLEAN /\ raced \in BOOLEAN /\ crossed \in BOOLEAN

Types == AtType /\ ClientType /\ TimerType /\ FoType /\ CallType /\ HookFlags /\ PastType

LEMMA TypesSuffice == Types /\ HookInv => TypeOK
<1> SUFFICES ASSUME Types, HookInv PROVE TypeOK
  OBVIOUS
<1>1. open \in Nat
  <2>1. depth \in 0 .. HookMax /\ HookMax \in Nat
    BY CeilingAssumption DEF HookInv, HookType
  <2> QED
    BY <2>1, OwesFinite DEF HookInv, HookType, OneReleasePerAcquire
<1> QED
  BY <1>1 DEF TypeOK, Types, AtType, ClientType, TimerType, FoType, CallType, HookFlags, PastType,
     FoFlags, HookInv, HookType

LEMMA Places ==
  /\ Task = DOMAIN Place
  /\ Place["app"] = {"idle", "begun", "stop", "timers"} \cup Starting \cup Hard
  /\ Place["tmr"] = {"idle", "fired", "soft", "softgo", "trelease", "tdown", "tdestroying"}
                    \cup Starting \cup Hard
  /\ Place["wrk"] = {"idle", "probe", "probing", "refresh", "arm", "armnow"} \cup Starting \cup Hard
  /\ Place["net"] = {"idle", "connack", "lost", "step", "netarm"}
BY DEF Place, Task

(* A task that goes to one of its places leaves the others where they are. *)
LEMMA Going ==
  ASSUME AtType, NEW t \in Task, NEW place \in Place[t], Goes(t, place)
  PROVE  /\ AtType' /\ at'[t] = place
         /\ \A u \in Task \ {t} : at'[u] = at[u]
<1>1. place \in UNION {Place[u] : u \in Task}
  OBVIOUS
<1> QED
  BY <1>1 DEF AtType, Goes

LEMMA AtNext ==
  ASSUME AtType, [Next]_vars
  PROVE  AtType'
<1> USE Places DEF Task, Starting, Hard, At
<1>1. ASSUME NEW t \in Task, NEW place \in Place[t], Goes(t, place)
      PROVE  AtType'
  BY <1>1, Going
<1>2. CASE App
  BY <1>1, <1>2 DEF App, Connect, FailoverStart, ConnectFails, Disconnect, StopTimers,
     DisconnectEnds, AppHard
<1>3. CASE Timer
  BY <1>1, <1>3 DEF Timer, TimerFires, TimerHard, TimerReleases, TimerStops, Stop,
     TimerStopsNothing, TimerDestroys, TimerStart, TimerSoft, SoftReconnect, Phantom
<1>4. CASE Worker
  BY <1>1, <1>4 DEF Worker, ProbeDecided, ProbeBegins, ProbeEnds, WorkerHard, WorkerCycle,
     WorkerReset, ArmChecks, ArmActs
<1>5. CASE Net
  <2>1. CASE OnDisconnect
    <3>1. Goes("net", "idle") \/ Goes("net", "netarm")
      BY <2>1 DEF OnDisconnect
    <3> QED
      BY <1>1, <3>1
  <2>2. CASE DisconnectSuppressed
    BY <2>2 DEF DisconnectSuppressed, AtType
  <2> QED
    BY <1>1, <1>5, <2>1, <2>2 DEF Net, Connected, ConnackReleases, Disconnected,
       DisconnectReleases, ArmActs
<1>6. CASE Clash
  <2>1. at' = [t \in Task |-> "idle"]
    BY <1>6 DEF Clash
  <2>2. \A t \in Task : "idle" \in Place[t]
    OBVIOUS
  <2> QED
    BY <2>1, <2>2 DEF AtType
<1>7. ASSUME NEW t \in Task \ {"net"}, Start(t) \/ HardReconnect(t)
      PROVE  AtType'
  <2>1. "idle" \in Place[t] /\ Starting \subseteq Place[t] /\ Hard \subseteq Place[t]
    OBVIOUS
  <2>2. AfterTeardown(t) \in Place[t]
    BY <2>1 DEF AfterTeardown
  <2> QED
    BY <1>1, <1>7, <2>1, <2>2
    DEF Start, StartRefused, StartAcquires, StartFails, StartRuns, StartStores, StartEnds,
        HardReconnect, HardBegins, HardReleases, NothingToStop, HardStops, Stop, HardDestroys,
        HardRearms
<1>8. CASE UNCHANGED at
  BY <1>8 DEF AtType
<1> QED
  BY <1>2, <1>3, <1>4, <1>5, <1>6, <1>7, <1>8 DEF Next, ReleaseCallback, vars

LEMMA CrossedType ==
  ASSUME PastType, NEW t \in Task, AcquireForAttempt(t)
  PROVE  PastType'
<1>1. crossed' \in BOOLEAN
  BY Zenon DEF AcquireForAttempt
<1> QED
  BY <1>1 DEF PastType, AcquireForAttempt

LEMMA HookFlagsNext ==
  ASSUME HookFlags, [Next]_vars
  PROVE  HookFlags'
<1>1. HookStep
  BY EveryHookStep
<1>2. ASSUME NEW t \in Task, Release(t)
      PROVE  HookFlags'
  <2>1. held' \in BOOLEAN
    BY <1>2, Zenon DEF Release
  <2> QED
    BY <1>2, <2>1 DEF HookFlags, Release
<1> QED
  BY <1>1, <1>2 DEF HookStep, hookVars, Acquire, ReleaseCallback, Clash, HookFlags

Rest == ClientType /\ TimerType /\ FoType /\ CallType /\ PastType

LEMMA ArmedType ==
  ASSUME TimerType, armed' \in {armed, FALSE} \/ armed' = (armed \/ ref) \/ armed' = (armed /\ ~ ref),
         UNCHANGED <<ref, stray, watch>>
  PROVE  TimerType'
<1>1. armed' \in BOOLEAN
  BY DEF TimerType
<1> QED
  BY <1>1 DEF TimerType

LEMMA TokenType ==
  ASSUME FoType, Token, UNCHANGED <<task, running, cycle>>, need_hard' \in {need_hard, FALSE}
  PROVE  FoType'
<1>1. suppress' \in 0 .. SuppressMax
  BY CeilingAssumption DEF FoType, Token
<1>2. FoFlags'
  BY DEF FoType, FoFlags
<1> QED
  BY <1>1, <1>2 DEF FoType

LEMMA NoTokens == 0 \in 0 .. SuppressMax
BY CeilingAssumption

LEMMA AppRest ==
  ASSUME Rest, App
  PROVE  Rest'
<1> USE DEF Rest
<1>1. CASE Connect
  <2>1. raced' \in BOOLEAN
    BY <1>1, Zenon DEF Connect
  <2>2. FoFlags'
    BY <1>1 DEF Connect, FoType, FoFlags
  <2>3. FoType'
    BY <1>1, <2>2, NoTokens DEF Connect, FoType
  <2> QED
    BY <1>1, <2>1, <2>3 DEF Connect, ClientType, TimerType, CallType, PastType, clientVars
<1>2. CASE FailoverStart
  <2>1. FoFlags'
    BY <1>2 DEF FailoverStart, FoType, FoFlags
  <2> QED
    BY <1>2, <2>1 DEF FailoverStart, ClientType, TimerType, FoType, CallType, PastType,
       clientVars, timerVars, pastVars
<1>3. CASE ConnectFails \/ DisconnectEnds
  <2>1. stray' \in BOOLEAN
    BY <1>3 DEF ConnectFails, DisconnectEnds, DeleteTimer, TimerType
  <2>2. TimerType'
    BY <1>3, <2>1 DEF ConnectFails, DisconnectEnds, DeleteTimer, TimerType
  <2>3. ClientType' /\ FoType'
    BY <1>3 DEF ConnectFails, DisconnectEnds, FailoverStop, ClientType, FoType, FoFlags, clientVars, foVars
  <2>4. CallType' /\ PastType'
    BY <1>3 DEF ConnectFails, DisconnectEnds, CallType, PastType, pastVars
  <2> QED
    BY <2>2, <2>3, <2>4
<1>4. CASE Disconnect \/ AppHard
  <2>1. FoFlags' /\ UNCHANGED suppress
    BY <1>4 DEF Disconnect, AppHard, FailoverStop, FoType, FoFlags, foVars
  <2>2. UNCHANGED <<clientVars, timerVars, pastVars>> /\ CallType'
    BY <1>4 DEF Disconnect, AppHard, CallType
  <2> QED
    BY <2>1, <2>2 DEF ClientType, TimerType, FoType, PastType, clientVars, timerVars, pastVars
<1>5. CASE StopTimers
  <2>1. raced' \in BOOLEAN
    BY <1>5, Zenon DEF StopTimers
  <2>2. TimerType' /\ PastType'
    BY <1>5, <2>1 DEF StopTimers, TimerType, PastType
  <2>3. FoType'
    BY <1>5 DEF StopTimers, FoType, FoFlags, foVars
  <2> QED
    BY <1>5, <2>1, <2>2, <2>3 DEF StopTimers, ClientType, CallType, clientVars
<1> QED
  BY <1>1, <1>2, <1>3, <1>4, <1>5 DEF App

LEMMA TimerRest ==
  ASSUME Rest, Timer
  PROVE  Rest'
<1> USE DEF Rest
<1>1. CASE TimerFires
  <2>1. TimerType'
    BY <1>1 DEF TimerFires, TimerType
  <2> QED
    BY <1>1, <2>1 DEF TimerFires, ClientType, FoType, FoFlags, CallType, PastType, clientVars,
       foVars, pastVars
<1>2. CASE TimerHard
  <2>1. FoType'
    BY <1>2, TokenType DEF TimerHard
  <2> QED
    BY <1>2, <2>1 DEF TimerHard, ClientType, TimerType, CallType, PastType, clientVars,
       timerVars, pastVars
<1>3. CASE TimerReleases \/ TimerStops \/ TimerStopsNothing \/ SoftReconnect \/ Phantom
  <2>1. ClientType'
    BY <1>3 DEF TimerReleases, TimerStops, Stop, TimerStopsNothing, SoftReconnect, Phantom,
       ClientType, clientVars
  <2>2. UNCHANGED <<timerVars, foVars, call, pastVars>>
    BY <1>3 DEF TimerReleases, TimerStops, Stop, TimerStopsNothing, SoftReconnect, Phantom
  <2> QED
    BY <2>1, <2>2 DEF TimerType, FoType, FoFlags, CallType, PastType, timerVars, foVars, pastVars
<1>4. CASE TimerDestroys
  <2>1. TimerType'
    BY <1>4, ArmedType DEF TimerDestroys
  <2> QED
    BY <1>4, <2>1 DEF TimerDestroys, ClientType, FoType, FoFlags, CallType, PastType, foVars, pastVars
<1>5. CASE TimerStart
  <2>1. FoFlags'
    BY <1>5 DEF TimerStart, FoType, FoFlags
  <2> QED
    BY <1>5, <2>1 DEF TimerStart, ClientType, TimerType, FoType, CallType, PastType, clientVars,
       timerVars, pastVars
<1>6. CASE TimerSoft
  <2>1. PastType'
    BY <1>6, CrossedType DEF TimerSoft, Task
  <2> QED
    BY <1>6, <2>1 DEF TimerSoft, ClientType, TimerType, FoType, FoFlags, CallType, clientVars,
       timerVars, foVars
<1> QED
  BY <1>1, <1>2, <1>3, <1>4, <1>5, <1>6 DEF Timer

LEMMA WorkerRest ==
  ASSUME Rest, Worker
  PROVE  Rest'
<1> USE DEF Rest
<1>1. CASE ArmActs("wrk", "armnow")
  <2>1. TimerType'
    BY <1>1, ArmedType DEF ArmActs
  <2> QED
    BY <1>1, <2>1 DEF ArmActs, ClientType, FoType, FoFlags, CallType, PastType, clientVars, foVars, pastVars
<1>2. CASE WorkerCycle \/ WorkerReset
  <2>1. FoType'
    BY <1>2 DEF WorkerCycle, WorkerReset, FoType, FoFlags, ClientType
  <2>2. UNCHANGED <<clientVars, timerVars, call, pastVars>>
    BY <1>2 DEF WorkerCycle, WorkerReset
  <2> QED
    BY <2>1, <2>2 DEF ClientType, TimerType, CallType, PastType, clientVars, timerVars, pastVars
<1>3. CASE ProbeDecided \/ ProbeBegins \/ ProbeEnds \/ WorkerHard \/ ArmChecks
  <2>1. UNCHANGED <<clientVars, timerVars, foVars, call, pastVars>>
    BY <1>3 DEF ProbeDecided, ProbeBegins, ProbeEnds, WorkerHard, ArmChecks
  <2> QED
    BY <2>1 DEF ClientType, TimerType, FoType, FoFlags, CallType, PastType, clientVars, timerVars,
       foVars, pastVars
<1> QED
  BY <1>1, <1>2, <1>3 DEF Worker

LEMMA NetRest ==
  ASSUME Rest, Net
  PROVE  Rest'
<1> USE DEF Rest
<1>1. CASE ArmActs("net", "netarm")
  <2>1. TimerType'
    BY <1>1, ArmedType DEF ArmActs
  <2> QED
    BY <1>1, <2>1 DEF ArmActs, ClientType, FoType, FoFlags, CallType, PastType, clientVars, foVars, pastVars
<1>2. CASE Connected
  <2>1. TimerType'
    BY <1>2, ArmedType DEF Connected
  <2> QED
    BY <1>2, <2>1 DEF Connected, ClientType, FoType, FoFlags, CallType, PastType, foVars, pastVars
<1>3. CASE DisconnectSuppressed
  <2>1. swallowed' \in BOOLEAN
    BY <1>3, Zenon DEF DisconnectSuppressed
  <2>2. suppress' \in 0 .. SuppressMax
    BY <1>3, CeilingAssumption DEF DisconnectSuppressed, FoType
  <2>3. ClientType' /\ PastType'
    BY <1>3, <2>1 DEF DisconnectSuppressed, LinkLost, ClientType, PastType
  <2>4. FoType'
    BY <1>3, <2>2 DEF DisconnectSuppressed, FoType, FoFlags
  <2> QED
    BY <1>3, <2>3, <2>4 DEF DisconnectSuppressed, TimerType, CallType, timerVars
<1>4. CASE ConnackReleases \/ Disconnected \/ DisconnectReleases
  <2>1. ClientType' /\ UNCHANGED <<timerVars, foVars, call, pastVars>>
    BY <1>4 DEF ConnackReleases, Disconnected, DisconnectReleases, LinkLost, ClientType, clientVars
  <2> QED
    BY <2>1 DEF TimerType, FoType, FoFlags, CallType, PastType, timerVars, foVars, pastVars
<1>5. CASE OnDisconnect
  <2>1. FoType'
    BY <1>5 DEF OnDisconnect, FoType, FoFlags
  <2> QED
    BY <1>5, <2>1 DEF OnDisconnect, ClientType, TimerType, CallType, PastType, clientVars,
       timerVars, pastVars
<1> QED
  BY <1>1, <1>2, <1>3, <1>4, <1>5 DEF Net

LEMMA StartRest ==
  ASSUME Rest, NEW t \in Task \ {"net"}, Start(t) \/ HardReconnect(t)
  PROVE  Rest'
<1> USE DEF Rest
<1>1. CASE StartRefused(t) \/ StartFails(t) \/ StartRuns(t) \/ HardReleases(t) \/ NothingToStop(t)
           \/ HardStops(t) \/ HardDestroys(t)
  <2>1. ClientType'
    BY <1>1 DEF StartRefused, StartFails, StartRuns, HardReleases, NothingToStop, HardStops,
       Stop, HardDestroys, ClientType, clientVars
  <2>2. UNCHANGED <<timerVars, foVars, call, pastVars>>
    BY <1>1 DEF StartRefused, StartFails, StartRuns, HardReleases, NothingToStop, HardStops,
       Stop, HardDestroys
  <2> QED
    BY <2>1, <2>2 DEF TimerType, FoType, FoFlags, CallType, PastType, timerVars, foVars, pastVars
<1>2. CASE StartAcquires(t)
  <2>1. PastType'
    BY <1>2, CrossedType DEF StartAcquires
  <2> QED
    BY <1>2, <2>1 DEF StartAcquires, ClientType, TimerType, FoType, FoFlags, CallType, clientVars,
       timerVars, foVars
<1>3. CASE StartStores(t)
  <2>1. mqtt' /\ call' \in {"none", call} /\ watch' \in {watch, TRUE} /\ want' \in {want, TRUE}
    BY <1>3 DEF StartStores
  <2>2. UNCHANGED <<link, connected, ref, armed, stray, foVars, swallowed, raced, crossed>>
    BY <1>3 DEF StartStores
  <2>3. ClientType'
    BY <1>3, <2>2 DEF StartStores, ClientType
  <2>4. TimerType'
    BY <2>1, <2>2 DEF TimerType
  <2>5. PastType'
    BY <2>1, <2>2 DEF PastType
  <2> QED
    BY <2>1, <2>2, <2>3, <2>4, <2>5 DEF FoType, FoFlags, CallType, foVars
<1>4. CASE StartEnds(t) \/ HardRearms(t)
  <2>1. TimerType'
    BY <1>4, ArmedType DEF StartEnds, HardRearms
  <2>2. CallType'
    BY <1>4 DEF StartEnds, HardRearms, CallType
  <2> QED
    BY <1>4, <2>1, <2>2 DEF StartEnds, HardRearms, ClientType, FoType, FoFlags, PastType, clientVars,
       foVars, pastVars
<1>5. CASE HardBegins(t)
  <2>1. TimerType'
    BY <1>5, ArmedType DEF HardBegins
  <2>2. FoType'
    BY <1>5, TokenType DEF HardBegins
  <2> QED
    BY <1>5, <2>1, <2>2 DEF HardBegins, ClientType, CallType, PastType, clientVars, pastVars
<1> QED
  BY <1>1, <1>2, <1>3, <1>4, <1>5 DEF Start, HardReconnect

LEMMA TypesNext ==
  ASSUME Types, [Next]_vars
  PROVE  Types'
<1>1. AtType' /\ HookFlags'
  BY AtNext, HookFlagsNext DEF Types
<1>2. Rest
  BY DEF Types, Rest
<1>3. CASE Clash
  <2>1. ClientType' /\ TimerType'
    BY <1>3 DEF Clash, ClientType, TimerType
  <2>2. FoType'
    BY <1>3, NoTokens DEF Clash, FoType, FoFlags
  <2>3. CallType' /\ PastType'
    BY <1>3 DEF Clash, CallType, PastType
  <2> QED
    BY <1>1, <2>1, <2>2, <2>3 DEF Types
<1>4. CASE (\E t \in Task : ReleaseCallback(t)) \/ UNCHANGED vars
  <2>1. UNCHANGED <<clientVars, timerVars, foVars, call, pastVars>>
    BY <1>4 DEF ReleaseCallback, vars
  <2>2. Rest'
    BY <1>2, <2>1 DEF Rest, ClientType, TimerType, FoType, FoFlags, CallType, PastType, clientVars,
       timerVars, foVars, pastVars
  <2> QED
    BY <1>1, <2>2 DEF Rest, Types
<1>5. Rest' => Types'
  BY <1>1 DEF Rest, Types
<1> QED
  BY <1>2, <1>3, <1>4, <1>5, AppRest, TimerRest, WorkerRest, NetRest, StartRest DEF Next

LEMMA TypesInit == Init => Types /\ HookInv
<1> SUFFICES ASSUME Init PROVE Types /\ HookInv
  OBVIOUS
<1>1. AtType
  BY Places DEF Init, AtType, Task
<1>2. ClientType /\ TimerType
  BY DEF Init, ClientType, TimerType
<1>3. FoType
  BY NoTokens DEF Init, FoType, FoFlags
<1>4. CallType /\ HookFlags /\ PastType
  BY DEF Init, CallType, HookFlags, PastType
<1>5. HookInv
  BY CeilingAssumption, FS_EmptySet DEF Init, HookInv, HookType, OneReleasePerAcquire
<1> QED
  BY <1>1, <1>2, <1>3, <1>4, <1>5 DEF Types

(* Four tasks, their places, the hook's depth and the tokens stay in range. *)
THEOREM TypeCorrect == Spec => []TypeOK
<1>1. Types /\ HookInv /\ [Next]_vars => Types' /\ HookInv'
  BY TypesNext, HookAlways
<1> QED
  BY <1>1, TypesInit, TypesSuffice, PTL DEF Spec

-----------------------------------------------------------------------------
\* Who may start, and who tears down, in each phase of the application

(* Where the application is in what it calls, and what lives from connect to disconnect. *)
CallInv ==
  /\ call = "none" <=> at["app"] = "idle"
  /\ call = "connect" <=> at["app"] \in {"begun"} \cup Starting
  /\ call = "hard" => at["app"] \in Hard /\ want
  /\ call = "disconnect" => at["app"] \in {"stop", "release", "down", "destroying", "timers"}
  /\ call = "connect" => ~ want
  /\ ref <=> want \/ call = "connect"
  /\ armed => ref
  /\ running => \/ want /\ call # "disconnect"
                \/ call = "connect" /\ at["app"] # "begun"
  /\ cycle => running
  /\ watch => want /\ (call = "disconnect" => at["app"] = "stop")

(* A handler of the MQTT task runs for a client only.                      *)
NetInv == at["net"] # "idle" => link # "none"

(* The failover task does nothing that touches the client or its timer.    *)
Parked == at["wrk"] \in {"idle", "probe", "probing", "refresh", "arm"}

(* iotmer_connect finds the four tasks as the last client left them: only a task that was past
   its checks then can still be about.                                     *)
ConnectInv ==
  call = "connect" =>
    /\ ~ mqtt /\ ~ stray /\ at["wrk"] \notin Hard \cup Starting
    /\ at["app"] = "store" => ~ raced /\ at["tmr"] = "idle" /\ link # "none"
    /\ at["app"] # "store" /\ raced =>
         link # "none" /\ at["tmr"] \in {"idle", "fired", "start", "built", "failed"}
    /\ at["app"] # "store" /\ ~ raced =>
         /\ link = "none" /\ ~ armed /\ ~ cycle /\ at["tmr"] = "idle"
         /\ at["wrk"] \in {"idle", "probe", "probing"}

(* A client of a connected application: one task at a time starts or destroys it. *)
UpInv ==
  want /\ ~ raced =>
    /\ at["wrk"] \notin Starting
    /\ at["tmr"] \in Starting => ~ mqtt
    /\ at["tmr"] \in {"start", "built", "failed"} => link = "none"
    /\ \A t \in Task : at[t] = "destroying" => mqtt
    /\ \A t \in Task : at[t] \in Destroying => link = "none"
    /\ \A t, u \in Task : at[t] \in Destroying /\ at[u] \in Destroying => t = u
    /\ link # "none" => mqtt \/ at["tmr"] = "store"

(* Behind the timers' stop of iotmer_disconnect nothing starts a client.   *)
DisconnectInv ==
  call = "disconnect" /\ at["app"] # "stop" /\ ~ raced =>
    /\ ~ armed /\ at["tmr"] = "idle" /\ at["net"] # "netarm" /\ Parked
    /\ at["app"] = "timers" => ~ mqtt /\ link = "none"

(* Disconnected by its own account: no client, and nobody about to start one. *)
DownInv ==
  call = "none" /\ ~ want /\ ~ raced =>
    ~ mqtt /\ link = "none" /\ at["tmr"] = "idle" /\ Parked

(* A lost timer, and a task past its checks, come from such a race alone.  *)
RacedInv ==
  /\ ~ raced => ~ stray
  /\ want /\ raced => call = "disconnect" /\ at["app"] # "stop"
  /\ call = "disconnect" /\ ~ want => raced

DownwardInv == CallInv /\ NetInv /\ ConnectInv /\ UpInv /\ DisconnectInv /\ DownInv /\ RacedInv

(* The application's steps.                                                *)
LEMMA AppDownward ==
  ASSUME AtType, CallType, DownwardInv, App
  PROVE  DownwardInv'
<1> USE Places DEF Task, Starting, Hard, At, Goes, AtType, DownwardInv, CallInv, NetInv, ConnectInv,
    UpInv, DisconnectInv, DownInv, RacedInv, Parked, Destroying, clientVars, timerVars, foVars,
    hookVars, pastVars
<1>1. CASE Connect
  BY <1>1 DEF Connect, NothingLeft, Others
<1>2. CASE FailoverStart
  BY <1>2 DEF FailoverStart
<1>3. CASE ConnectFails
  BY <1>3 DEF ConnectFails, FailoverStop, DeleteTimer
<1>4. CASE Disconnect
  BY <1>4 DEF Disconnect, FailoverStop
<1>5. CASE StopTimers
  <2>1. CallInv'
    BY <1>5 DEF StopTimers, PastChecks
  <2>2. NetInv'
    BY <1>5 DEF StopTimers, PastChecks
  <2>3. ConnectInv'
    BY <1>5 DEF StopTimers, PastChecks
  <2>4. UpInv'
    BY <1>5 DEF StopTimers, PastChecks
  <2>5. DisconnectInv'
    BY <1>5 DEF StopTimers, PastChecks
  <2>6. DownInv'
    BY <1>5 DEF StopTimers, PastChecks
  <2>7. RacedInv'
    <3>1. call = "disconnect" /\ call' = call /\ at'["app"] = "release"
      BY <1>5 DEF StopTimers, CallType
    <3>2. raced => raced'
      BY <1>5 DEF StopTimers
    <3>3. want' = want /\ stray' = stray
      BY <1>5 DEF StopTimers
    <3>4. ~ want => raced
      BY <3>1
    <3> QED
      BY <3>1, <3>2, <3>3, <3>4
  <2> QED
    BY <2>1, <2>2, <2>3, <2>4, <2>5, <2>6, <2>7
<1>6. CASE DisconnectEnds
  <2>0. /\ at'["app"] = "idle" /\ \A u \in Others("app") : at'[u] = at[u]
        /\ call = "disconnect" /\ call' = "none"
        /\ ~ want' /\ ~ ref' /\ ~ armed'
        /\ raced' = raced /\ running' = running /\ cycle' = cycle /\ watch' = watch
        /\ UNCHANGED clientVars
    BY <1>6 DEF DisconnectEnds, DeleteTimer, CallType, Others
  <2>1. CallInv'
    <3>1. ~ running /\ ~ cycle /\ ~ watch
      BY <1>6, <2>0 DEF DisconnectEnds
    <3> QED
      BY <2>0, <3>1
  <2>2. NetInv'
    BY <1>6 DEF DisconnectEnds, DeleteTimer
  <2>3. ConnectInv'
    BY <1>6 DEF DisconnectEnds, DeleteTimer
  <2>4. UpInv'
    BY <1>6 DEF DisconnectEnds, DeleteTimer
  <2>5. DisconnectInv'
    BY <1>6 DEF DisconnectEnds, DeleteTimer
  <2>6. DownInv'
    <3>1. at["app"] = "timers"
      BY <1>6 DEF DisconnectEnds
    <3> QED
      BY <2>0, <3>1 DEF Others
  <2>7. RacedInv'
    <3>1. ~ raced => ~ stray /\ ~ armed
      BY <1>6, <2>0 DEF DisconnectEnds
    <3>2. stray' => stray \/ armed
      BY <1>6 DEF DisconnectEnds, DeleteTimer
    <3> QED
      BY <2>0, <3>1, <3>2
  <2> QED
    BY <2>1, <2>2, <2>3, <2>4, <2>5, <2>6, <2>7
<1>7. CASE AppHard
  BY <1>7 DEF AppHard
<1> QED
  BY <1>1, <1>2, <1>3, <1>4, <1>5, <1>6, <1>7 DEF App

(* The timer task's.                                                       *)
LEMMA TimerDownward ==
  ASSUME AtType, CallType, DownwardInv, Timer
  PROVE  DownwardInv'
<1> USE Places DEF Task, Starting, Hard, At, Goes, AtType, DownwardInv, CallInv, NetInv, ConnectInv,
    UpInv, DisconnectInv, DownInv, RacedInv, Parked, Destroying, clientVars, timerVars, foVars,
    hookVars, pastVars
<1>1. CASE TimerFires
  BY <1>1 DEF TimerFires
<1>2. CASE TimerHard
  BY <1>2 DEF TimerHard, Token
<1>3. CASE TimerReleases
  BY <1>3 DEF TimerReleases
<1>4. CASE TimerStops
  BY <1>4 DEF TimerStops, Stop, Others
<1>5. CASE TimerStopsNothing
  BY <1>5 DEF TimerStopsNothing
<1>6. CASE TimerDestroys
  BY <1>6 DEF TimerDestroys
<1>7. CASE TimerStart
  BY <1>7 DEF TimerStart
<1>8. CASE TimerSoft
  BY <1>8 DEF TimerSoft, AcquireForAttempt
<1>9. CASE SoftReconnect
  BY <1>9 DEF SoftReconnect
<1>10. CASE Phantom
  BY <1>10 DEF Phantom
<1> QED
  BY <1>1, <1>2, <1>3, <1>4, <1>5, <1>6, <1>7, <1>8, <1>9, <1>10 DEF Timer

(* The failover task's.                                                    *)
LEMMA WorkerDownward ==
  ASSUME AtType, CallType, DownwardInv, Worker
  PROVE  DownwardInv'
<1> USE Places DEF Task, Starting, Hard, At, Goes, AtType, DownwardInv, CallInv, NetInv, ConnectInv,
    UpInv, DisconnectInv, DownInv, RacedInv, Parked, Destroying, clientVars, timerVars, foVars,
    hookVars, pastVars
<1>1. CASE ProbeDecided
  BY <1>1 DEF ProbeDecided
<1>2. CASE ProbeBegins
  BY <1>2 DEF ProbeBegins
<1>3. CASE ProbeEnds
  BY <1>3 DEF ProbeEnds
<1>4. CASE WorkerHard
  BY <1>4 DEF WorkerHard
<1>5. CASE WorkerCycle
  <2>1. CallInv'
    BY <1>5 DEF WorkerCycle
  <2>2. NetInv'
    BY <1>5 DEF WorkerCycle
  <2>3. ConnectInv'
    <3>1. call = "connect" => at["app"] = "store" \/ raced
      BY <1>5 DEF WorkerCycle
    <3> QED
      BY <1>5, <3>1 DEF WorkerCycle
  <2>4. UpInv'
    BY <1>5 DEF WorkerCycle
  <2>5. DisconnectInv'
    BY <1>5 DEF WorkerCycle
  <2>6. DownInv'
    BY <1>5 DEF WorkerCycle
  <2>7. RacedInv'
    BY <1>5 DEF WorkerCycle
  <2> QED
    BY <2>1, <2>2, <2>3, <2>4, <2>5, <2>6, <2>7
<1>6. CASE WorkerReset
  BY <1>6 DEF WorkerReset
<1>7. CASE ArmChecks
  BY <1>7 DEF ArmChecks
<1>8. CASE ArmActs("wrk", "armnow")
  BY <1>8 DEF ArmActs
<1> QED
  BY <1>1, <1>2, <1>3, <1>4, <1>5, <1>6, <1>7, <1>8 DEF Worker

(* The MQTT task's.                                                        *)
LEMMA NetDownward ==
  ASSUME AtType, CallType, DownwardInv, Net
  PROVE  DownwardInv'
<1> USE Places DEF Task, Starting, Hard, At, Goes, AtType, DownwardInv, CallInv, NetInv, ConnectInv,
    UpInv, DisconnectInv, DownInv, RacedInv, Parked, Destroying, clientVars, timerVars, foVars,
    hookVars, pastVars
<1>1. CASE Connected
  BY <1>1 DEF Connected
<1>2. CASE ConnackReleases
  BY <1>2 DEF ConnackReleases
<1>3. CASE DisconnectSuppressed
  BY <1>3 DEF DisconnectSuppressed, LinkLost
<1>4. CASE Disconnected
  BY <1>4 DEF Disconnected, LinkLost
<1>5. CASE DisconnectReleases
  BY <1>5 DEF DisconnectReleases
<1>6. CASE OnDisconnect
  <2>0. /\ at["net"] = "step" /\ at'["net"] \in {"idle", "netarm"}
        /\ \A u \in Others("net") : at'[u] = at[u]
        /\ running' = running /\ (cycle' => cycle \/ running)
        /\ (at'["net"] = "netarm" => running)
        /\ UNCHANGED <<clientVars, timerVars, call, pastVars>>
    <3>1. at["net"] = "step" /\ running' = running /\ UNCHANGED <<clientVars, timerVars, call,
       pastVars>>
      BY <1>6 DEF OnDisconnect
    <3>2. cycle' => cycle \/ running
      BY <1>6 DEF OnDisconnect
    <3>3. Goes("net", "idle") \/ (Goes("net", "netarm") /\ running)
      BY <1>6 DEF OnDisconnect
    <3>4. /\ at'["net"] \in {"idle", "netarm"} /\ \A u \in Others("net") : at'[u] = at[u]
          /\ at'["net"] = "netarm" => running
      BY <3>3 DEF Others
    <3> QED
      BY <3>1, <3>2, <3>4
  <2>1. CallInv'
    BY <2>0 DEF Others
  <2>2. NetInv'
    BY <1>6 DEF OnDisconnect
  <2>3. ConnectInv'
    BY <1>6 DEF OnDisconnect
  <2>4. UpInv'
    BY <2>0 DEF Others
  <2>5. DisconnectInv'
    BY <1>6 DEF OnDisconnect
  <2>6. DownInv'
    BY <1>6 DEF OnDisconnect
  <2>7. RacedInv'
    BY <1>6 DEF OnDisconnect
  <2> QED
    BY <2>1, <2>2, <2>3, <2>4, <2>5, <2>6, <2>7
<1>7. CASE ArmActs("net", "netarm")
  BY <1>7 DEF ArmActs
<1> QED
  BY <1>1, <1>2, <1>3, <1>4, <1>5, <1>6, <1>7 DEF Net

(* mqtt_client_start and iotmer_reconnect_hard, in each of the three tasks that run them. *)
LEMMA AppStartDownward ==
  ASSUME AtType, CallType, DownwardInv, Start("app") \/ HardReconnect("app")
  PROVE  DownwardInv'
<1> USE Places DEF Task, Starting, Hard, At, Goes, AtType, DownwardInv, CallInv, NetInv, ConnectInv,
    UpInv, DisconnectInv, DownInv, RacedInv, Parked, Destroying, clientVars, timerVars, foVars,
    hookVars, pastVars
<1>1. CASE StartRefused("app")
  BY <1>1 DEF StartRefused
<1>2. CASE StartAcquires("app")
  BY <1>2 DEF StartAcquires, AcquireForAttempt
<1>3. CASE StartFails("app")
  BY <1>3 DEF StartFails
<1>4. CASE StartRuns("app")
  BY <1>4 DEF StartRuns
<1>5. CASE StartStores("app")
  BY <1>5 DEF StartStores
<1>6. CASE StartEnds("app")
  BY <1>6 DEF StartEnds
<1>7. CASE HardBegins("app")
  BY <1>7 DEF HardBegins, Token
<1>8. CASE HardReleases("app")
  BY <1>8 DEF HardReleases
<1>9. CASE NothingToStop("app")
  BY <1>9 DEF NothingToStop, AfterTeardown, Others
<1>10. CASE HardStops("app")
  BY <1>10 DEF HardStops, Stop, Others
<1>11. CASE HardDestroys("app")
  BY <1>11 DEF HardDestroys, AfterTeardown, Others
<1>12. CASE HardRearms("app")
  <2>1. CallInv'
    <3>1. call \in {"hard"} /\ want /\ ref
      BY <1>12 DEF HardRearms, CallType
    <3>2. call' = "none" /\ at'["app"] = "idle" /\ armed' /\ \A u \in Others("app") : at'[u] = at[u]
      BY <1>12, <3>1 DEF HardRearms, Others
    <3> QED
      BY <1>12, <3>1, <3>2 DEF HardRearms, Others
  <2>2. NetInv'
    BY <1>12 DEF HardRearms
  <2>3. ConnectInv'
    BY <1>12 DEF HardRearms
  <2>4. UpInv'
    BY <1>12 DEF HardRearms
  <2>5. DisconnectInv'
    BY <1>12 DEF HardRearms
  <2>6. DownInv'
    BY <1>12 DEF HardRearms
  <2>7. RacedInv'
    BY <1>12 DEF HardRearms
  <2> QED
    BY <2>1, <2>2, <2>3, <2>4, <2>5, <2>6, <2>7
<1> QED
  BY <1>1, <1>2, <1>3, <1>4, <1>5, <1>6, <1>7, <1>8, <1>9, <1>10, <1>11, <1>12 DEF Start,
     HardReconnect

LEMMA TimerStartDownward ==
  ASSUME AtType, CallType, DownwardInv, Start("tmr") \/ HardReconnect("tmr")
  PROVE  DownwardInv'
<1> USE Places DEF Task, Starting, Hard, At, Goes, AtType, DownwardInv, CallInv, NetInv, ConnectInv,
    UpInv, DisconnectInv, DownInv, RacedInv, Parked, Destroying, clientVars, timerVars, foVars,
    hookVars, pastVars
<1>1. CASE StartRefused("tmr")
  BY <1>1 DEF StartRefused
<1>2. CASE StartAcquires("tmr")
  BY <1>2 DEF StartAcquires, AcquireForAttempt
<1>3. CASE StartFails("tmr")
  BY <1>3 DEF StartFails
<1>4. CASE StartRuns("tmr")
  BY <1>4 DEF StartRuns
<1>5. CASE StartStores("tmr")
  BY <1>5 DEF StartStores
<1>6. CASE StartEnds("tmr")
  BY <1>6 DEF StartEnds
<1>7. CASE HardBegins("tmr")
  BY <1>7 DEF HardBegins, Token
<1>8. CASE HardReleases("tmr")
  BY <1>8 DEF HardReleases
<1>9. CASE NothingToStop("tmr")
  BY <1>9 DEF NothingToStop, AfterTeardown, Others
<1>10. CASE HardStops("tmr")
  BY <1>10 DEF HardStops, Stop, Others
<1>11. CASE HardDestroys("tmr")
  BY <1>11 DEF HardDestroys, AfterTeardown, Others
<1>12. CASE HardRearms("tmr")
  BY <1>12 DEF HardRearms
<1> QED
  BY <1>1, <1>2, <1>3, <1>4, <1>5, <1>6, <1>7, <1>8, <1>9, <1>10, <1>11, <1>12 DEF Start,
     HardReconnect

LEMMA WorkerStartDownward ==
  ASSUME AtType, CallType, DownwardInv, Start("wrk") \/ HardReconnect("wrk")
  PROVE  DownwardInv'
<1> USE Places DEF Task, Starting, Hard, At, Goes, AtType, DownwardInv, CallInv, NetInv, ConnectInv,
    UpInv, DisconnectInv, DownInv, RacedInv, Parked, Destroying, clientVars, timerVars, foVars,
    hookVars, pastVars
<1>1. CASE StartRefused("wrk")
  BY <1>1 DEF StartRefused
<1>2. CASE StartAcquires("wrk")
  BY <1>2 DEF StartAcquires, AcquireForAttempt
<1>3. CASE StartFails("wrk")
  BY <1>3 DEF StartFails
<1>4. CASE StartRuns("wrk")
  BY <1>4 DEF StartRuns
<1>5. CASE StartStores("wrk")
  BY <1>5 DEF StartStores
<1>6. CASE StartEnds("wrk")
  BY <1>6 DEF StartEnds
<1>7. CASE HardBegins("wrk")
  BY <1>7 DEF HardBegins, Token
<1>8. CASE HardReleases("wrk")
  BY <1>8 DEF HardReleases
<1>9. CASE NothingToStop("wrk")
  BY <1>9 DEF NothingToStop, AfterTeardown, Others
<1>10. CASE HardStops("wrk")
  BY <1>10 DEF HardStops, Stop, Others
<1>11. CASE HardDestroys("wrk")
  BY <1>11 DEF HardDestroys, AfterTeardown, Others
<1>12. CASE HardRearms("wrk")
  BY <1>12 DEF HardRearms
<1> QED
  BY <1>1, <1>2, <1>3, <1>4, <1>5, <1>6, <1>7, <1>8, <1>9, <1>10, <1>11, <1>12 DEF Start,
     HardReconnect


LEMMA ClashDownward == Clash => DownwardInv'
BY Places DEF Clash, Task, Starting, Hard, DownwardInv, CallInv, NetInv, ConnectInv, UpInv,
   DisconnectInv, DownInv, RacedInv, Parked, Destroying

LEMMA DownwardNext ==
  ASSUME Types, DownwardInv, [Next]_vars
  PROVE  DownwardInv'
<1>1. AtType /\ CallType
  BY DEF Types
<1>2. CASE (\E t \in Task : ReleaseCallback(t)) \/ UNCHANGED vars
  <2>1. UNCHANGED <<clientVars, timerVars, foVars, at, call, pastVars>>
    BY <1>2 DEF ReleaseCallback, vars
  <2> QED
    BY <2>1 DEF DownwardInv, CallInv, NetInv, ConnectInv, UpInv, DisconnectInv, DownInv, RacedInv,
       Parked, clientVars, timerVars, foVars, pastVars
<1>3. ASSUME NEW t \in Task \ {"net"}, Start(t) \/ HardReconnect(t)
      PROVE  DownwardInv'
  <2>1. t = "app" \/ t = "tmr" \/ t = "wrk"
    BY DEF Task
  <2> QED
    BY <1>1, <1>3, <2>1, AppStartDownward, TimerStartDownward, WorkerStartDownward
<1> QED
  BY <1>1, <1>2, <1>3, AppDownward, TimerDownward, WorkerDownward, NetDownward, ClashDownward DEF Next

LEMMA DownwardInit == Init => DownwardInv
BY Places DEF Init, Task, Starting, Hard, DownwardInv, CallInv, NetInv, ConnectInv, UpInv,
   DisconnectInv, DownInv, RacedInv, Parked, Destroying

Downward == Types /\ HookInv /\ DownwardInv

LEMMA DownwardAlways == Spec => []Downward
<1>1. Init => Downward
  BY TypesInit, DownwardInit DEF Downward
<1>2. Downward /\ [Next]_vars => Downward'
  BY TypesNext, HookAlways, DownwardNext DEF Downward
<1> QED
  BY <1>1, <1>2, PTL DEF Spec

(* After iotmer_disconnect, or a failed iotmer_connect, no client and no timer is left and none *)
(* comes back, unless a task was past its last check when the timers stopped.                  *)
THEOREM StaysDownAlways == Spec => []StaysDown
<1>1. Downward => StaysDown
  BY DEF Downward, DownwardInv, StaysDown, CallInv, DownInv, RacedInv
<1> QED
  BY <1>1, DownwardAlways, PTL

-----------------------------------------------------------------------------
\* The next attempt

(* Whoever is about to start the client, or to arm the timer that does.    *)
Planned ==
  \/ armed \/ cycle \/ call = "hard"
  \/ at["tmr"] \notin {"idle", "store"}
  \/ at["net"] \in {"lost", "step", "netarm"}
  \/ at["wrk"] \in {"refresh", "arm", "armnow"} \cup Hard

RetryInv ==
  (want \/ at["app"] = "store") /\ running /\ ~ swallowed /\ link \in {"none", "waiting"} => Planned

LEMMA AppRetry ==
  ASSUME AtType, CallType, DownwardInv, RetryInv, App
  PROVE  RetryInv'
<1> USE Places DEF Task, Starting, Hard, At, Goes, AtType, DownwardInv, CallInv, NetInv, ConnectInv,
    UpInv, DisconnectInv, DownInv, RacedInv, Parked, Destroying, clientVars, timerVars, foVars,
    hookVars, pastVars, RetryInv, Planned
<1>1. CASE Connect
  BY <1>1 DEF Connect, NothingLeft, Others
<1>2. CASE FailoverStart
  BY <1>2 DEF FailoverStart
<1>3. CASE ConnectFails
  BY <1>3 DEF ConnectFails, FailoverStop, DeleteTimer
<1>4. CASE Disconnect
  BY <1>4 DEF Disconnect, FailoverStop
<1>5. CASE StopTimers
  <2>1. ~ running /\ running' = running
    BY <1>5 DEF StopTimers, CallType
  <2> QED
    BY <2>1
<1>6. CASE DisconnectEnds
  BY <1>6 DEF DisconnectEnds, DeleteTimer
<1>7. CASE AppHard
  BY <1>7 DEF AppHard
<1> QED
  BY <1>1, <1>2, <1>3, <1>4, <1>5, <1>6, <1>7 DEF App

LEMMA TimerRetry ==
  ASSUME AtType, CallType, DownwardInv, RetryInv, Timer
  PROVE  RetryInv'
<1> USE Places DEF Task, Starting, Hard, At, Goes, AtType, DownwardInv, CallInv, NetInv, ConnectInv,
    UpInv, DisconnectInv, DownInv, RacedInv, Parked, Destroying, clientVars, timerVars, foVars,
    hookVars, pastVars, RetryInv, Planned
<1>1. CASE TimerFires
  BY <1>1 DEF TimerFires
<1>2. CASE TimerHard
  BY <1>2 DEF TimerHard
<1>3. CASE TimerReleases
  BY <1>3 DEF TimerReleases
<1>4. CASE TimerStops
  BY <1>4 DEF TimerStops, Stop, Others
<1>5. CASE TimerStopsNothing
  BY <1>5 DEF TimerStopsNothing
<1>6. CASE TimerDestroys
  BY <1>6 DEF TimerDestroys
<1>7. CASE TimerStart
  BY <1>7 DEF TimerStart
<1>8. CASE TimerSoft
  BY <1>8 DEF TimerSoft, AcquireForAttempt
<1>9. CASE SoftReconnect
  BY <1>9 DEF SoftReconnect
<1>10. CASE Phantom
  BY <1>10 DEF Phantom
<1> QED
  BY <1>1, <1>2, <1>3, <1>4, <1>5, <1>6, <1>7, <1>8, <1>9, <1>10 DEF Timer

LEMMA WorkerRetry ==
  ASSUME AtType, CallType, DownwardInv, RetryInv, Worker
  PROVE  RetryInv'
<1> USE Places DEF Task, Starting, Hard, At, Goes, AtType, DownwardInv, CallInv, NetInv, ConnectInv,
    UpInv, DisconnectInv, DownInv, RacedInv, Parked, Destroying, clientVars, timerVars, foVars,
    hookVars, pastVars, RetryInv, Planned
<1>1. CASE ProbeDecided
  BY <1>1 DEF ProbeDecided
<1>2. CASE ProbeBegins
  BY <1>2 DEF ProbeBegins
<1>3. CASE ProbeEnds
  BY <1>3 DEF ProbeEnds
<1>4. CASE WorkerHard
  BY <1>4 DEF WorkerHard
<1>5. CASE WorkerCycle
  BY <1>5 DEF WorkerCycle
<1>6. CASE WorkerReset
  BY <1>6 DEF WorkerReset
<1>7. CASE ArmChecks
  BY <1>7 DEF ArmChecks
<1>8. CASE ArmActs("wrk", "armnow")
  BY <1>8 DEF ArmActs
<1> QED
  BY <1>1, <1>2, <1>3, <1>4, <1>5, <1>6, <1>7, <1>8 DEF Worker

LEMMA NetRetry ==
  ASSUME AtType, CallType, DownwardInv, RetryInv, Net
  PROVE  RetryInv'
<1> USE Places DEF Task, Starting, Hard, At, Goes, AtType, DownwardInv, CallInv, NetInv, ConnectInv,
    UpInv, DisconnectInv, DownInv, RacedInv, Parked, Destroying, clientVars, timerVars, foVars,
    hookVars, pastVars, RetryInv, Planned
<1>1. CASE Connected
  BY <1>1 DEF Connected
<1>2. CASE ConnackReleases
  BY <1>2 DEF ConnackReleases
<1>3. CASE DisconnectSuppressed
  BY <1>3 DEF DisconnectSuppressed, LinkLost, TokenOut
<1>4. CASE Disconnected
  BY <1>4 DEF Disconnected, LinkLost
<1>5. CASE DisconnectReleases
  BY <1>5 DEF DisconnectReleases
<1>6. CASE OnDisconnect
  BY <1>6 DEF OnDisconnect
<1>7. CASE ArmActs("net", "netarm")
  BY <1>7 DEF ArmActs
<1> QED
  BY <1>1, <1>2, <1>3, <1>4, <1>5, <1>6, <1>7 DEF Net

LEMMA AppStartRetry ==
  ASSUME AtType, CallType, DownwardInv, RetryInv, Start("app") \/ HardReconnect("app")
  PROVE  RetryInv'
<1> USE Places DEF Task, Starting, Hard, At, Goes, AtType, DownwardInv, CallInv, NetInv, ConnectInv,
    UpInv, DisconnectInv, DownInv, RacedInv, Parked, Destroying, clientVars, timerVars, foVars,
    hookVars, pastVars, RetryInv, Planned
<1>1. CASE StartRefused("app")
  BY <1>1 DEF StartRefused
<1>2. CASE StartAcquires("app")
  BY <1>2 DEF StartAcquires, AcquireForAttempt
<1>3. CASE StartFails("app")
  BY <1>3 DEF StartFails
<1>4. CASE StartRuns("app")
  BY <1>4 DEF StartRuns
<1>5. CASE StartStores("app")
  BY <1>5 DEF StartStores
<1>6. CASE StartEnds("app")
  BY <1>6 DEF StartEnds
<1>7. CASE HardBegins("app")
  <2>1. call = "hard" \/ ~ running
    BY <1>7 DEF HardBegins, Stop, CallType
  <2>2. call' = call /\ running' = running
    BY <1>7 DEF HardBegins, Stop
  <2> QED
    BY <2>1, <2>2
<1>8. CASE HardReleases("app")
  BY <1>8 DEF HardReleases
<1>9. CASE NothingToStop("app")
  BY <1>9 DEF NothingToStop, AfterTeardown
<1>10. CASE HardStops("app")
  <2>1. call = "hard" \/ ~ running
    BY <1>10 DEF HardStops, Stop, CallType
  <2>2. call' = call /\ running' = running
    BY <1>10 DEF HardStops, Stop
  <2> QED
    BY <2>1, <2>2
<1>11. CASE HardDestroys("app")
  BY <1>11 DEF HardDestroys, AfterTeardown
<1>12. CASE HardRearms("app")
  BY <1>12 DEF HardRearms
<1> QED
  BY <1>1, <1>2, <1>3, <1>4, <1>5, <1>6, <1>7, <1>8, <1>9, <1>10, <1>11, <1>12 DEF Start,
     HardReconnect

LEMMA TimerStartRetry ==
  ASSUME AtType, CallType, DownwardInv, RetryInv, Start("tmr") \/ HardReconnect("tmr")
  PROVE  RetryInv'
<1> USE Places DEF Task, Starting, Hard, At, Goes, AtType, DownwardInv, CallInv, NetInv, ConnectInv,
    UpInv, DisconnectInv, DownInv, RacedInv, Parked, Destroying, clientVars, timerVars, foVars,
    hookVars, pastVars, RetryInv, Planned
<1>1. CASE StartRefused("tmr")
  BY <1>1 DEF StartRefused
<1>2. CASE StartAcquires("tmr")
  BY <1>2 DEF StartAcquires, AcquireForAttempt
<1>3. CASE StartFails("tmr")
  BY <1>3 DEF StartFails
<1>4. CASE StartRuns("tmr")
  BY <1>4 DEF StartRuns
<1>5. CASE StartStores("tmr")
  BY <1>5 DEF StartStores
<1>6. CASE StartEnds("tmr")
  BY <1>6 DEF StartEnds
<1>7. CASE HardBegins("tmr")
  BY <1>7 DEF HardBegins
<1>8. CASE HardReleases("tmr")
  BY <1>8 DEF HardReleases
<1>9. CASE NothingToStop("tmr")
  BY <1>9 DEF NothingToStop, AfterTeardown
<1>10. CASE HardStops("tmr")
  BY <1>10 DEF HardStops, Stop, Others
<1>11. CASE HardDestroys("tmr")
  BY <1>11 DEF HardDestroys, AfterTeardown
<1>12. CASE HardRearms("tmr")
  BY <1>12 DEF HardRearms
<1> QED
  BY <1>1, <1>2, <1>3, <1>4, <1>5, <1>6, <1>7, <1>8, <1>9, <1>10, <1>11, <1>12 DEF Start,
     HardReconnect

LEMMA WorkerStartRetry ==
  ASSUME AtType, CallType, DownwardInv, RetryInv, Start("wrk") \/ HardReconnect("wrk")
  PROVE  RetryInv'
<1> USE Places DEF Task, Starting, Hard, At, Goes, AtType, DownwardInv, CallInv, NetInv, ConnectInv,
    UpInv, DisconnectInv, DownInv, RacedInv, Parked, Destroying, clientVars, timerVars, foVars,
    hookVars, pastVars, RetryInv, Planned
<1>1. CASE StartRefused("wrk")
  BY <1>1 DEF StartRefused
<1>2. CASE StartAcquires("wrk")
  BY <1>2 DEF StartAcquires, AcquireForAttempt
<1>3. CASE StartFails("wrk")
  BY <1>3 DEF StartFails
<1>4. CASE StartRuns("wrk")
  BY <1>4 DEF StartRuns
<1>5. CASE StartStores("wrk")
  BY <1>5 DEF StartStores
<1>6. CASE StartEnds("wrk")
  BY <1>6 DEF StartEnds
<1>7. CASE HardBegins("wrk")
  BY <1>7 DEF HardBegins
<1>8. CASE HardReleases("wrk")
  BY <1>8 DEF HardReleases
<1>9. CASE NothingToStop("wrk")
  BY <1>9 DEF NothingToStop, AfterTeardown
<1>10. CASE HardStops("wrk")
  BY <1>10 DEF HardStops, Stop, Others
<1>11. CASE HardDestroys("wrk")
  BY <1>11 DEF HardDestroys, AfterTeardown
<1>12. CASE HardRearms("wrk")
  BY <1>12 DEF HardRearms
<1> QED
  BY <1>1, <1>2, <1>3, <1>4, <1>5, <1>6, <1>7, <1>8, <1>9, <1>10, <1>11, <1>12 DEF Start,
     HardReconnect

LEMMA RetryNext ==
  ASSUME Types, DownwardInv, RetryInv, [Next]_vars
  PROVE  RetryInv'
<1>1. AtType /\ CallType
  BY DEF Types
<1>2. CASE (\E t \in Task : ReleaseCallback(t)) \/ UNCHANGED vars
  <2>1. UNCHANGED <<clientVars, timerVars, foVars, at, call, pastVars>>
    BY <1>2 DEF ReleaseCallback, vars
  <2> QED
    BY <2>1 DEF RetryInv, Planned, clientVars, timerVars, foVars, pastVars
<1>3. CASE Clash
  BY <1>3 DEF Clash, RetryInv
<1>4. ASSUME NEW t \in Task \ {"net"}, Start(t) \/ HardReconnect(t)
      PROVE  RetryInv'
  <2>1. t = "app" \/ t = "tmr" \/ t = "wrk"
    BY DEF Task
  <2> QED
    BY <1>1, <1>4, <2>1, AppStartRetry, TimerStartRetry, WorkerStartRetry
<1> QED
  BY <1>1, <1>2, <1>3, <1>4, AppRetry, TimerRetry, WorkerRetry, NetRetry DEF Next

(* A connected application's client that is in no attempt has its next one planned, unless the *)
(* failover task could not be created, or a token swallowed the loss.                          *)
THEOREM RetryPlannedAlways == Spec => []RetryPlanned
<1>1. Init => RetryInv
  BY DEF Init, RetryInv
<1>2. Downward /\ RetryInv /\ [Next]_vars => RetryInv'
  BY RetryNext DEF Downward
<1>3. Downward /\ RetryInv => RetryPlanned
  <2> SUFFICES ASSUME Downward, RetryInv, AtRest, want, running, ~ swallowed,
                      link \in {"none", "waiting"}
               PROVE  armed \/ cycle
    BY DEF RetryPlanned
  <2>1. Planned
    BY DEF RetryInv
  <2>2. \A t \in Task : at[t] = "idle"
    BY DEF AtRest
  <2>3. call = "none"
    BY <2>2 DEF Downward, DownwardInv, CallInv, Task
  <2> QED
    BY <2>1, <2>2, <2>3 DEF Planned, Task, Hard
<1> QED
  BY <1>1, <1>2, <1>3, DownwardAlways, PTL DEF Spec

-----------------------------------------------------------------------------
\* What is held of the hook, and for whom

(* A hold is counted, and its callback is answered or about to be.         *)
AnsweredInv ==
  /\ held => depth > 0
  /\ suspended => depth > 0 \/ owes # {}

Probing == IF at["wrk"] = "probing" THEN 1 ELSE 0

(* An attempt on the client is under way, or its teardown has not let go.  *)
Attempting ==
  \/ link = "connecting"
  \/ at["net"] \in {"connack", "lost"}
  \/ \E t \in Task : at[t] \in {"built", "softgo", "hard", "release", "trelease"}

LettingGo == \E t \in Task : at[t] \in Released

(* The probe holds once, an attempt once, and nothing else does.           *)
DepthInv ==
  ~ swallowed /\ ~ crossed =>
    /\ depth <= Probing + 1
    /\ ~ Attempting \/ LettingGo => depth <= Probing

LEMMA AnsweredNext ==
  ASSUME HookInv, AnsweredInv, [Next]_vars
  PROVE  AnsweredInv'
<1>1. HookStep
  BY EveryHookStep
<1>2. depth \in 0 .. HookMax /\ HookMax \in Nat /\ HookMax > 1
  BY CeilingAssumption DEF HookInv, HookType
<1>3. CASE UNCHANGED hookVars
  BY <1>3 DEF hookVars, AnsweredInv
<1>4. CASE Acquire
  <2>1. depth' > 0
    BY <1>2, <1>4 DEF Acquire
  <2> QED
    BY <2>1 DEF AnsweredInv
<1>5. ASSUME NEW t \in Task, Release(t)
      PROVE  AnsweredInv'
  <2>1. held' => depth' > 0
    <3>1. held' => depth > 1
      BY <1>5, Zenon DEF Release
    <3> QED
      BY <1>2, <1>5, <3>1 DEF Release
  <2>2. suspended' => depth' > 0 \/ owes' # {}
    BY <1>2, <1>5 DEF Release, AnsweredInv
  <2> QED
    BY <2>1, <2>2 DEF AnsweredInv
<1>6. ASSUME NEW t \in Task, ReleaseCallback(t)
      PROVE  AnsweredInv'
  BY <1>6 DEF ReleaseCallback, AnsweredInv
<1>7. CASE Clash
  BY <1>7 DEF Clash, AnsweredInv
<1> QED
  BY <1>1, <1>3, <1>4, <1>5, <1>6, <1>7 DEF HookStep

(* Without the hook: an attempt goes on, or a teardown that has let go ends it. *)
Quiet ==
  /\ UNCHANGED <<depth, crossed>> /\ (swallowed => swallowed')
  /\ Probing' = Probing
  /\ Attempting => Attempting' \/ LettingGo
  /\ LettingGo' => LettingGo

LEMMA DepthQuiet ==
  ASSUME DepthInv, Quiet
  PROVE  DepthInv'
BY DEF DepthInv, Quiet

(* A hold let go was the one of an attempt.                                *)
LEMMA DepthReleased ==
  ASSUME HookInv, DepthInv, NEW t \in Task, Release(t), UNCHANGED <<swallowed, crossed>>,
         Probing' = Probing
  PROVE  DepthInv'
<1>1. depth \in Nat /\ Probing \in {0, 1}
  BY CeilingAssumption DEF HookInv, HookType, Probing
<1>2. depth' = IF depth = 0 THEN 0 ELSE depth - 1
  BY DEF Release
<1>3. ~ swallowed /\ ~ crossed => depth' <= Probing
  BY <1>1, <1>2 DEF DepthInv
<1>4. depth' \in Nat
  BY <1>1, <1>2
<1>5. depth' <= Probing => depth' <= Probing + 1
  BY <1>1, <1>4
<1> QED
  BY <1>3, <1>5 DEF DepthInv

(* An attempt's hold, unless it crosses another, is the only one beside the probe's. *)
LEMMA DepthAcquired ==
  ASSUME AtType, HookInv, DepthInv, NEW t \in Task, AcquireForAttempt(t), at[t] \notin Released,
         Probing' = Probing, Attempting', LettingGo' => LettingGo
  PROVE  DepthInv'
<1>1. depth \in Nat /\ Probing \in {0, 1}
  BY CeilingAssumption DEF HookInv, HookType, Probing
<1>2. depth' <= depth + 1
  BY <1>1, CeilingAssumption DEF AcquireForAttempt, Acquire, HookInv, HookType
<1>3. Cardinality({u \in Task : at[u] = "probing"}) = Probing
  <2>1. \A u \in Task \ {"wrk"} : at[u] # "probing"
    BY Places DEF AtType, Task, Starting, Hard
  <2>2. CASE at["wrk"] = "probing"
    <3>1. {u \in Task : at[u] = "probing"} = {"wrk"}
      BY <2>1, <2>2 DEF Task
    <3> QED
      BY <2>2, <3>1, FS_Singleton DEF Probing
  <2>3. CASE at["wrk"] # "probing"
    <3>1. {u \in Task : at[u] = "probing"} = {}
      BY <2>1, <2>3
    <3> QED
      BY <2>3, <3>1, FS_EmptySet DEF Probing
  <2> QED
    BY <2>2, <2>3
<1>4. ~ crossed' => ~ crossed /\ depth <= Probing /\ ~ LettingGo
  <2>1. ~ crossed' => ~ crossed /\ ~ (depth > Cardinality({u \in Task : at[u] = "probing"}))
                      /\ \A u \in Others(t) : at[u] \notin Released
    BY Zenon DEF AcquireForAttempt
  <2>2. ~ (depth > Probing) => depth <= Probing
    BY <1>1
  <2>3. (\A u \in Others(t) : at[u] \notin Released) => ~ LettingGo
    BY DEF LettingGo, Others
  <2> QED
    BY <1>3, <2>1, <2>2, <2>3
<1>5. ~ crossed' => depth' <= Probing + 1 /\ ~ LettingGo'
  <2>1. depth' \in Nat
    BY <1>1, CeilingAssumption DEF AcquireForAttempt, Acquire
  <2> QED
    BY <1>1, <1>2, <1>4, <2>1
<1> QED
  BY <1>5 DEF DepthInv

LEMMA AppHold ==
  ASSUME AtType, HookInv, DepthInv, App
  PROVE  DepthInv'
<1> USE Places DEF Task, Starting, Hard, Released, At, Goes, AtType, Probing, Attempting, LettingGo,
    Quiet, clientVars, foVars, hookVars, pastVars
<1>1. Connect => Quiet
  BY DEF Connect
<1>2. FailoverStart => Quiet
  BY DEF FailoverStart
<1>3. ConnectFails => Quiet
  BY DEF ConnectFails
<1>4. Disconnect => Quiet
  BY DEF Disconnect
<1>5. StopTimers => Quiet
  BY DEF StopTimers
<1>6. DisconnectEnds => Quiet
  BY DEF DisconnectEnds
<1>7. AppHard => Quiet
  BY DEF AppHard
<1> QED
  BY <1>1, <1>2, <1>3, <1>4, <1>5, <1>6, <1>7, DepthQuiet DEF App

LEMMA TimerHold ==
  ASSUME AtType, HookInv, DepthInv, Timer
  PROVE  DepthInv'
<1> USE Places DEF Task, Starting, Hard, Released, At, Goes, AtType, Probing, Attempting, LettingGo,
    Quiet, clientVars, foVars, hookVars, pastVars
<1>1. TimerFires => Quiet
  BY DEF TimerFires
<1>2. TimerHard => Quiet
  BY DEF TimerHard
<1>3. CASE TimerReleases
  <2>1. Release("tmr") /\ UNCHANGED <<swallowed, crossed>> /\ Probing' = Probing
    BY <1>3 DEF TimerReleases
  <2> QED
    BY <2>1, DepthReleased
<1>4. TimerStops => Quiet
  BY DEF TimerStops, Stop
<1>5. TimerStopsNothing => Quiet
  BY DEF TimerStopsNothing
<1>6. TimerDestroys => Quiet
  BY DEF TimerDestroys
<1>7. TimerStart => Quiet
  BY DEF TimerStart
<1>8. CASE TimerSoft
  <2>1. AcquireForAttempt("tmr") /\ at["tmr"] \notin Released /\ Probing' = Probing
    BY <1>8 DEF TimerSoft
  <2>2. Attempting' /\ (LettingGo' => LettingGo)
    BY <1>8 DEF TimerSoft
  <2> QED
    BY <2>1, <2>2, DepthAcquired
<1>9. SoftReconnect => Quiet
  BY DEF SoftReconnect
<1>10. Phantom => Quiet
  BY DEF Phantom
<1> QED
  BY <1>1, <1>2, <1>3, <1>4, <1>5, <1>6, <1>7, <1>8, <1>9, <1>10, DepthQuiet DEF Timer

LEMMA WorkerHold ==
  ASSUME AtType, HookInv, DepthInv, Worker
  PROVE  DepthInv'
<1> USE Places DEF Task, Starting, Hard, Released, At, Goes, AtType, Probing, Attempting, LettingGo,
    Quiet, clientVars, foVars, hookVars, pastVars
<1>1. ProbeDecided => Quiet
  BY DEF ProbeDecided
<1>2. CASE ProbeBegins
  <2>1. Probing = 0 /\ Probing' = 1 /\ (Attempting' <=> Attempting) /\ (LettingGo' <=> LettingGo)
    BY <1>2 DEF ProbeBegins
  <2>2. depth \in Nat /\ depth' \in Nat /\ depth' <= depth + 1 /\ UNCHANGED <<swallowed, crossed>>
    BY <1>2, CeilingAssumption DEF ProbeBegins, Acquire, HookInv, HookType
  <2> QED
    BY <2>1, <2>2 DEF DepthInv
<1>3. CASE ProbeEnds
  <2>1. Probing = 1 /\ Probing' = 0 /\ (Attempting' <=> Attempting) /\ (LettingGo' <=> LettingGo)
    BY <1>3 DEF ProbeEnds
  <2>2. /\ depth \in Nat /\ depth' = (IF depth = 0 THEN 0 ELSE depth - 1)
        /\ UNCHANGED <<swallowed, crossed>>
    BY <1>3, CeilingAssumption DEF ProbeEnds, Release, HookInv, HookType
  <2> QED
    BY <2>1, <2>2 DEF DepthInv
<1>4. WorkerHard => Quiet
  BY DEF WorkerHard
<1>5. WorkerCycle => Quiet
  BY DEF WorkerCycle
<1>6. WorkerReset => Quiet
  BY DEF WorkerReset
<1>7. ArmChecks => Quiet
  BY DEF ArmChecks
<1>8. ArmActs("wrk", "armnow") => Quiet
  BY DEF ArmActs
<1> QED
  BY <1>1, <1>2, <1>3, <1>4, <1>5, <1>6, <1>7, <1>8, DepthQuiet DEF Worker

LEMMA NetHold ==
  ASSUME AtType, HookInv, DepthInv, Net
  PROVE  DepthInv'
<1> USE Places DEF Task, Starting, Hard, Released, At, Goes, AtType, Probing, Attempting, LettingGo,
    Quiet, clientVars, foVars, hookVars, pastVars
<1>1. Connected => Quiet
  BY DEF Connected
<1>2. CASE ConnackReleases
  <2>1. Release("net") /\ UNCHANGED <<swallowed, crossed>> /\ Probing' = Probing
    BY <1>2 DEF ConnackReleases
  <2> QED
    BY <2>1, DepthReleased
<1>3. CASE DisconnectSuppressed
  <2>1. UNCHANGED <<depth, crossed, at>> /\ (~ TokenOut => swallowed')
    BY <1>3 DEF DisconnectSuppressed
  <2>2. CASE TokenOut
    <3>1. Quiet
      BY <1>3, <2>1, <2>2 DEF DisconnectSuppressed, LinkLost, TokenOut
    <3> QED
      BY <3>1, DepthQuiet
  <2>3. CASE ~ TokenOut
    BY <2>1, <2>3 DEF DepthInv
  <2> QED
    BY <2>2, <2>3
<1>4. Disconnected => Quiet
  BY DEF Disconnected, LinkLost
<1>5. CASE DisconnectReleases
  <2>1. Release("net") /\ UNCHANGED <<swallowed, crossed>> /\ Probing' = Probing
    BY <1>5 DEF DisconnectReleases
  <2> QED
    BY <2>1, DepthReleased
<1>6. OnDisconnect => Quiet
  <2> SUFFICES ASSUME OnDisconnect PROVE Quiet
    OBVIOUS
  <2>1. UNCHANGED <<clientVars, depth, pastVars>> /\ at["net"] = "step"
    BY DEF OnDisconnect
  <2>2. Goes("net", "idle") \/ Goes("net", "netarm")
    BY DEF OnDisconnect
  <2> QED
    BY <2>1, <2>2
<1>7. ArmActs("net", "netarm") => Quiet
  BY DEF ArmActs
<1> QED
  BY <1>1, <1>2, <1>3, <1>4, <1>5, <1>6, <1>7, DepthQuiet DEF Net

LEMMA AppStartHold ==
  ASSUME AtType, HookInv, DepthInv, Start("app") \/ HardReconnect("app")
  PROVE  DepthInv'
<1> USE Places DEF Task, Starting, Hard, Released, At, Goes, AtType, Probing, Attempting, LettingGo,
    Quiet, clientVars, foVars, hookVars, pastVars
<1>1. StartRefused("app") => Quiet
  BY DEF StartRefused
<1>2. CASE StartAcquires("app")
  <2>1. AcquireForAttempt("app") /\ at["app"] \notin Released /\ Probing' = Probing
    BY <1>2 DEF StartAcquires
  <2>2. Attempting' /\ (LettingGo' => LettingGo)
    BY <1>2 DEF StartAcquires
  <2> QED
    BY <2>1, <2>2, DepthAcquired
<1>3. CASE StartFails("app")
  <2>1. Release("app") /\ UNCHANGED <<swallowed, crossed>> /\ Probing' = Probing
    BY <1>3 DEF StartFails
  <2> QED
    BY <2>1, DepthReleased
<1>4. StartRuns("app") => Quiet
  BY DEF StartRuns
<1>5. StartStores("app") => Quiet
  BY DEF StartStores
<1>6. StartEnds("app") => Quiet
  BY DEF StartEnds
<1>7. HardBegins("app") => Quiet
  BY DEF HardBegins
<1>8. CASE HardReleases("app")
  <2>1. Release("app") /\ UNCHANGED <<swallowed, crossed>> /\ Probing' = Probing
    BY <1>8 DEF HardReleases
  <2> QED
    BY <2>1, DepthReleased
<1>9. NothingToStop("app") => Quiet
  BY DEF NothingToStop, AfterTeardown
<1>10. HardStops("app") => Quiet
  BY DEF HardStops, Stop
<1>11. HardDestroys("app") => Quiet
  BY DEF HardDestroys, AfterTeardown
<1>12. HardRearms("app") => Quiet
  BY DEF HardRearms
<1> QED
  BY <1>1, <1>2, <1>3, <1>4, <1>5, <1>6, <1>7, <1>8, <1>9, <1>10, <1>11, <1>12, DepthQuiet DEF
     Start, HardReconnect

LEMMA TimerStartHold ==
  ASSUME AtType, HookInv, DepthInv, Start("tmr") \/ HardReconnect("tmr")
  PROVE  DepthInv'
<1> USE Places DEF Task, Starting, Hard, Released, At, Goes, AtType, Probing, Attempting, LettingGo,
    Quiet, clientVars, foVars, hookVars, pastVars
<1>1. StartRefused("tmr") => Quiet
  BY DEF StartRefused
<1>2. CASE StartAcquires("tmr")
  <2>1. AcquireForAttempt("tmr") /\ at["tmr"] \notin Released /\ Probing' = Probing
    BY <1>2 DEF StartAcquires
  <2>2. Attempting' /\ (LettingGo' => LettingGo)
    BY <1>2 DEF StartAcquires
  <2> QED
    BY <2>1, <2>2, DepthAcquired
<1>3. CASE StartFails("tmr")
  <2>1. Release("tmr") /\ UNCHANGED <<swallowed, crossed>> /\ Probing' = Probing
    BY <1>3 DEF StartFails
  <2> QED
    BY <2>1, DepthReleased
<1>4. StartRuns("tmr") => Quiet
  BY DEF StartRuns
<1>5. StartStores("tmr") => Quiet
  BY DEF StartStores
<1>6. StartEnds("tmr") => Quiet
  BY DEF StartEnds
<1>7. HardBegins("tmr") => Quiet
  BY DEF HardBegins
<1>8. CASE HardReleases("tmr")
  <2>1. Release("tmr") /\ UNCHANGED <<swallowed, crossed>> /\ Probing' = Probing
    BY <1>8 DEF HardReleases
  <2> QED
    BY <2>1, DepthReleased
<1>9. NothingToStop("tmr") => Quiet
  BY DEF NothingToStop, AfterTeardown
<1>10. HardStops("tmr") => Quiet
  BY DEF HardStops, Stop
<1>11. HardDestroys("tmr") => Quiet
  BY DEF HardDestroys, AfterTeardown
<1>12. HardRearms("tmr") => Quiet
  BY DEF HardRearms
<1> QED
  BY <1>1, <1>2, <1>3, <1>4, <1>5, <1>6, <1>7, <1>8, <1>9, <1>10, <1>11, <1>12, DepthQuiet DEF
     Start, HardReconnect

LEMMA WorkerStartHold ==
  ASSUME AtType, HookInv, DepthInv, Start("wrk") \/ HardReconnect("wrk")
  PROVE  DepthInv'
<1> USE Places DEF Task, Starting, Hard, Released, At, Goes, AtType, Probing, Attempting, LettingGo,
    Quiet, clientVars, foVars, hookVars, pastVars
<1>1. StartRefused("wrk") => Quiet
  BY DEF StartRefused
<1>2. CASE StartAcquires("wrk")
  <2>1. AcquireForAttempt("wrk") /\ at["wrk"] \notin Released /\ Probing' = Probing
    BY <1>2 DEF StartAcquires
  <2>2. Attempting' /\ (LettingGo' => LettingGo)
    BY <1>2 DEF StartAcquires
  <2> QED
    BY <2>1, <2>2, DepthAcquired
<1>3. CASE StartFails("wrk")
  <2>1. Release("wrk") /\ UNCHANGED <<swallowed, crossed>> /\ Probing' = Probing
    BY <1>3 DEF StartFails
  <2> QED
    BY <2>1, DepthReleased
<1>4. StartRuns("wrk") => Quiet
  BY DEF StartRuns
<1>5. StartStores("wrk") => Quiet
  BY DEF StartStores
<1>6. StartEnds("wrk") => Quiet
  BY DEF StartEnds
<1>7. HardBegins("wrk") => Quiet
  BY DEF HardBegins
<1>8. CASE HardReleases("wrk")
  <2>1. Release("wrk") /\ UNCHANGED <<swallowed, crossed>> /\ Probing' = Probing
    BY <1>8 DEF HardReleases
  <2> QED
    BY <2>1, DepthReleased
<1>9. NothingToStop("wrk") => Quiet
  BY DEF NothingToStop, AfterTeardown
<1>10. HardStops("wrk") => Quiet
  BY DEF HardStops, Stop
<1>11. HardDestroys("wrk") => Quiet
  BY DEF HardDestroys, AfterTeardown
<1>12. HardRearms("wrk") => Quiet
  BY DEF HardRearms
<1> QED
  BY <1>1, <1>2, <1>3, <1>4, <1>5, <1>6, <1>7, <1>8, <1>9, <1>10, <1>11, <1>12, DepthQuiet DEF
     Start, HardReconnect

LEMMA DepthNext ==
  ASSUME Types, HookInv, DepthInv, [Next]_vars
  PROVE  DepthInv'
<1>1. AtType
  BY DEF Types
<1>2. CASE (\E t \in Task : ReleaseCallback(t)) \/ UNCHANGED vars
  <2>1. UNCHANGED <<clientVars, at, depth, pastVars>>
    BY <1>2 DEF ReleaseCallback, vars, hookVars
  <2> QED
    BY <2>1 DEF DepthInv, Probing, Attempting, LettingGo, clientVars, pastVars
<1>3. CASE Clash
  <2>1. depth' = 0 /\ at' = [t \in Task |-> "idle"]
    BY <1>3 DEF Clash
  <2>2. Probing' = 0
    BY <2>1 DEF Probing, Task
  <2> QED
    BY <2>1, <2>2 DEF DepthInv
<1>4. ASSUME NEW t \in Task \ {"net"}, Start(t) \/ HardReconnect(t)
      PROVE  DepthInv'
  <2>1. t = "app" \/ t = "tmr" \/ t = "wrk"
    BY DEF Task
  <2> QED
    BY <1>1, <1>4, <2>1, AppStartHold, TimerStartHold, WorkerStartHold
<1> QED
  BY <1>1, <1>2, <1>3, <1>4, AppHold, TimerHold, WorkerHold, NetHold DEF Next

(* When no handshake and no task is under way the hook is let go and the application has its   *)
(* resources back; the exceptions are a token that swallowed the loss of an attempt, and a     *)
(* hold taken beside that of another attempt or between release and stop of a teardown.        *)
THEOREM HoldReleasedAlways == Spec => []HoldReleased
<1>1. Init => AnsweredInv /\ DepthInv
  BY DEF Init, AnsweredInv, DepthInv, Probing, Task
<1>2. Downward /\ AnsweredInv /\ DepthInv /\ [Next]_vars => AnsweredInv' /\ DepthInv'
  BY AnsweredNext, DepthNext DEF Downward
<1>3. Downward /\ AnsweredInv /\ DepthInv => HoldReleased
  <2> SUFFICES ASSUME Downward, AnsweredInv, DepthInv, AtRest, link # "connecting",
                      ~ swallowed, ~ crossed
               PROVE  depth = 0 /\ ~ held /\ ~ suspended
    BY DEF HoldReleased
  <2>1. \A t \in Task : at[t] = "idle" /\ t \notin owes
    BY DEF AtRest
  <2>2. owes = {} /\ depth \in Nat
    BY <2>1, CeilingAssumption DEF Downward, HookInv, HookType
  <2>3. Probing = 0 /\ ~ Attempting
    BY <2>1 DEF Probing, Attempting, Task
  <2>4. depth = 0
    BY <2>2, <2>3 DEF DepthInv
  <2> QED
    BY <2>2, <2>4 DEF AnsweredInv
<1> QED
  BY <1>1, <1>2, <1>3, DownwardAlways, PTL DEF Spec

=============================================================================
