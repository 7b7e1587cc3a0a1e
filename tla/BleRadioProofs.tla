-------------------------- MODULE BleRadioProofs --------------------------
(***************************************************************************)
(* Proofs about BleRadio, for every length of the receive queue: the       *)
(* radio is quiet once it was stopped, on the air when it was started,     *)
(* off while it is suspended and as the application left it afterwards,    *)
(* and the receive queue outlives the tasks that use it.                   *)
(***************************************************************************)
EXTENDS BleRadio, TLAPS

LEMMA Others == Other("app") = "hook" /\ Other("hook") = "app"
BY DEF Other, Caller

-----------------------------------------------------------------------------
\* Types

(* Calls change `at` and `call` within their types.                        *)
LEMMA CallsType ==
  ASSUME TypeOK, NEW c \in Caller, NEW place \in Place, NEW f \in Calls,
         Goes(c, place) \/ Becomes(c, f, place)
  PROVE  at' \in [Caller -> Place] /\ call' \in [Caller -> Calls]
BY DEF TypeOK, Goes, Becomes

LEMMA ReturnsType ==
  ASSUME TypeOK, NEW c \in Caller, Returns(c)
  PROVE  at' \in [Caller -> Place] /\ call' \in [Caller -> Calls]
BY DEF TypeOK, Returns, Becomes, Place, Calls

FlagsOK ==
  /\ inited \in BOOLEAN /\ started \in BOOLEAN /\ synced \in BOOLEAN
  /\ connected \in BOOLEAN /\ suspended \in BOOLEAN /\ resume_start \in BOOLEAN
  /\ adv \in BOOLEAN /\ link \in BOOLEAN /\ self \in BOOLEAN
  /\ wish \in BOOLEAN /\ raced \in BOOLEAN /\ halfway \in BOOLEAN /\ overtaken \in BOOLEAN

TasksOK ==
  /\ queue \in NoQueue .. QueueLen
  /\ nimble \in {"off", "ready", "running"}
  /\ host \in {"idle", "check", "air", "rx"}
  /\ worker \in {"none", "waiting", "callback"}

PortOK == (adv \/ link \/ host # "idle") => nimble = "running"

CallsOK == at \in [Caller -> Place] /\ call \in [Caller -> Calls]

LEMMA TypeParts == TypeOK <=> FlagsOK /\ TasksOK /\ PortOK /\ CallsOK
BY DEF TypeOK, FlagsOK, TasksOK, PortOK, CallsOK

LEMMA TypePartsNext == TypeOK' <=> FlagsOK' /\ TasksOK' /\ PortOK' /\ CallsOK'
BY DEF TypeOK, FlagsOK, TasksOK, PortOK, CallsOK

(* What the bookkeeping of a call leaves behind.                           *)
LEMMA PastType ==
  ASSUME FlagsOK, NEW c, NEW f, NEW asked \in BOOLEAN,
         UNCHANGED past \/ Accepted(c, f) \/ Answered(c, asked)
  PROVE  wish' \in BOOLEAN /\ raced' \in BOOLEAN /\ halfway' \in BOOLEAN
<1>1. CASE UNCHANGED past
  BY <1>1 DEF FlagsOK, past
<1>2. CASE Accepted(c, f)
  BY <1>2 DEF FlagsOK, Accepted
<1>3. CASE Answered(c, asked)
  BY <1>3 DEF FlagsOK, Answered
<1> QED
  BY <1>1, <1>2, <1>3

LEMMA InitType == Init => TypeOK
<1> SUFFICES ASSUME Init PROVE TypeOK
  OBVIOUS
<1>1. at \in [Caller -> Place] /\ call \in [Caller -> Calls]
  BY DEF Init, Place, Calls
<1>2. queue \in NoQueue .. QueueLen
  BY QueueAssumption DEF Init, NoQueue
<1> QED
  BY <1>1, <1>2 DEF Init, TypeOK

(* Where a step of a caller's procedure leads.                             *)
LEMMA CallerStepsCalls ==
  ASSUME TypeOK, NEW c \in Caller, CallerSteps(c)
  PROVE  at' \in [Caller -> Place] /\ call' \in [Caller -> Calls]
<1> SUFFICES \/ \E place \in Place, f \in Calls : Goes(c, place) \/ Becomes(c, f, place)
             \/ Returns(c)
  BY CallsType, ReturnsType
<1>1. CASE InitPort(c) \/ InitFails(c) \/ InitEnds(c)
  BY <1>1 DEF InitPort, InitFails, InitEnds, Place, Calls
<1>2. CASE StartBegins(c) \/ StartSets(c) \/ StartChecks(c) \/ StartEnds(c)
  BY <1>2 DEF StartBegins, StartSets, StartChecks, StartEnds, Place, Calls
<1>3. CASE StopBegins(c) \/ StopSilences(c)
  BY <1>3 DEF StopBegins, StopSilences, Place, Calls
<1>4. CASE StopEnds(c)
  <2>1. Returns(c) \/ Becomes(c, "shut", "begin") \/ Goes(c, "port")
    BY <1>4 DEF StopEnds
  <2> QED
    BY <2>1 DEF Place, TearPlace, Calls
<1>5. CASE PortStops(c) \/ WorkerEnds(c) \/ QueueEnds(c)
  BY <1>5 DEF PortStops, WorkerEnds, QueueEnds, Place, TearPlace, Calls
<1>6. CASE DeinitEnds(c) \/ Refused(c)
  BY <1>6 DEF DeinitEnds, Refused
<1> QED
  BY <1>1, <1>2, <1>3, <1>4, <1>5, <1>6 DEF CallerSteps

(* The controller is only busy while the port runs.                        *)
LEMMA CallerStepsType ==
  ASSUME TypeOK, NEW c \in Caller, CallerSteps(c)
  PROVE  TypeOK'
<1> USE DEF flags, rx, air, past
<1>a. CallsOK'
  BY CallerStepsCalls DEF CallsOK
<1>b. FlagsOK /\ TasksOK /\ PortOK
  BY TypeParts
<1>c. NoQueue \in NoQueue .. QueueLen /\ 0 \in NoQueue .. QueueLen
  BY QueueAssumption DEF NoQueue
<1>1. CASE InitPort(c)
  <2>1. FlagsOK'
    BY <1>1, <1>b, <1>c DEF InitPort, FlagsOK
  <2>2. TasksOK'
    BY <1>1, <1>b, <1>c DEF InitPort, TasksOK
  <2>3. PortOK'
    BY <1>1, <1>b, <1>c DEF InitPort, PortOK
  <2> QED
    BY <2>1, <2>2, <2>3, <1>a, TypePartsNext
<1>2. CASE InitFails(c)
  <2>1. FlagsOK'
    BY <1>2, <1>b, <1>c DEF InitFails, FlagsOK
  <2>2. TasksOK'
    BY <1>2, <1>b, <1>c DEF InitFails, TasksOK
  <2>3. PortOK'
    BY <1>2, <1>b, <1>c DEF InitFails, PortOK
  <2> QED
    BY <2>1, <2>2, <2>3, <1>a, TypePartsNext
<1>3. CASE InitEnds(c)
  <2>1. FlagsOK'
    <3>1. wish' \in BOOLEAN /\ raced' \in BOOLEAN /\ halfway' \in BOOLEAN
      BY <1>3, <1>b, PastType DEF InitEnds
    <3>2. self' \in BOOLEAN /\ overtaken' \in BOOLEAN
      BY <1>3, <1>b DEF InitEnds, PastCheck, FlagsOK
    <3> QED
      BY <1>3, <1>b, <3>1, <3>2 DEF InitEnds, FlagsOK
  <2>2. TasksOK'
    BY <1>3, <1>b, <1>c DEF InitEnds, Answered, PastCheck, TasksOK
  <2>3. PortOK'
    BY <1>3, <1>b, <1>c DEF InitEnds, Answered, PastCheck, PortOK
  <2> QED
    BY <2>1, <2>2, <2>3, <1>a, TypePartsNext
<1>4. CASE StartBegins(c)
  <2>1. FlagsOK'
    BY <1>4, <1>b, <1>c DEF StartBegins, Accepted, FlagsOK
  <2>2. TasksOK'
    BY <1>4, <1>b, <1>c DEF StartBegins, Accepted, TasksOK
  <2>3. PortOK'
    BY <1>4, <1>b, <1>c DEF StartBegins, Accepted, PortOK
  <2> QED
    BY <2>1, <2>2, <2>3, <1>a, TypePartsNext
<1>5. CASE StartSets(c)
  <2>1. FlagsOK'
    BY <1>5, <1>b, <1>c DEF StartSets, FlagsOK
  <2>2. TasksOK'
    BY <1>5, <1>b, <1>c DEF StartSets, TasksOK
  <2>3. PortOK'
    BY <1>5, <1>b, <1>c DEF StartSets, PortOK
  <2> QED
    BY <2>1, <2>2, <2>3, <1>a, TypePartsNext
<1>6. CASE StartChecks(c)
  <2>1. FlagsOK'
    <3>1. wish' \in BOOLEAN /\ raced' \in BOOLEAN /\ halfway' \in BOOLEAN
      BY <1>6, <1>b, PastType DEF StartChecks
    <3>2. adv' \in BOOLEAN /\ link' \in BOOLEAN /\ overtaken' \in BOOLEAN
      BY <1>6, <1>b DEF StartChecks, AirBegins, FlagsOK
    <3> QED
      BY <1>6, <1>b, <3>1, <3>2 DEF StartChecks, FlagsOK
  <2>2. TasksOK'
    BY <1>6, <1>b, <1>c DEF StartChecks, Answered, AirBegins, TasksOK
  <2>3. PortOK'
    BY <1>6, <1>b, <1>c DEF StartChecks, Answered, AirBegins, PortOK
  <2> QED
    BY <2>1, <2>2, <2>3, <1>a, TypePartsNext
<1>7. CASE StartEnds(c)
  <2>1. FlagsOK'
    BY <1>7, <1>b, <1>c DEF StartEnds, Answered, AirStarts, FlagsOK
  <2>2. TasksOK'
    BY <1>7, <1>b, <1>c DEF StartEnds, Answered, AirStarts, TasksOK
  <2>3. PortOK'
    BY <1>7, <1>b, <1>c DEF StartEnds, Answered, AirStarts, PortOK
  <2> QED
    BY <2>1, <2>2, <2>3, <1>a, TypePartsNext
<1>8. CASE StopBegins(c)
  <2>1. FlagsOK'
    BY <1>8, <1>b, <1>c DEF StopBegins, Accepted, PastCheck, FlagsOK
  <2>2. TasksOK'
    BY <1>8, <1>b, <1>c DEF StopBegins, Accepted, PastCheck, TasksOK
  <2>3. PortOK'
    BY <1>8, <1>b, <1>c DEF StopBegins, Accepted, PastCheck, PortOK
  <2> QED
    BY <2>1, <2>2, <2>3, <1>a, TypePartsNext
<1>9. CASE StopSilences(c)
  <2>1. FlagsOK'
    BY <1>9, <1>b, <1>c DEF StopSilences, FlagsOK
  <2>2. TasksOK'
    BY <1>9, <1>b, <1>c DEF StopSilences, TasksOK
  <2>3. PortOK'
    BY <1>9, <1>b, <1>c DEF StopSilences, PortOK
  <2> QED
    BY <2>1, <2>2, <2>3, <1>a, TypePartsNext
<1>10. CASE StopEnds(c)
  <2>1. FlagsOK'
    BY <1>10, <1>b, <1>c DEF StopEnds, Answered, FlagsOK
  <2>2. TasksOK'
    BY <1>10, <1>b, <1>c DEF StopEnds, Answered, TasksOK
  <2>3. PortOK'
    BY <1>10, <1>b, <1>c DEF StopEnds, Answered, PortOK
  <2> QED
    BY <2>1, <2>2, <2>3, <1>a, TypePartsNext
<1>11. CASE PortStops(c)
  <2>1. FlagsOK'
    BY <1>11, <1>b, <1>c DEF PortStops, FlagsOK
  <2>2. TasksOK'
    BY <1>11, <1>b, <1>c DEF PortStops, TasksOK
  <2>3. PortOK'
    BY <1>11, <1>b, <1>c DEF PortStops, PortOK
  <2> QED
    BY <2>1, <2>2, <2>3, <1>a, TypePartsNext
<1>12. CASE WorkerEnds(c)
  <2>1. FlagsOK'
    BY <1>12, <1>b, <1>c DEF WorkerEnds, FlagsOK
  <2>2. TasksOK'
    BY <1>12, <1>b, <1>c DEF WorkerEnds, TasksOK
  <2>3. PortOK'
    BY <1>12, <1>b, <1>c DEF WorkerEnds, PortOK
  <2> QED
    BY <2>1, <2>2, <2>3, <1>a, TypePartsNext
<1>13. CASE QueueEnds(c)
  <2>1. FlagsOK'
    BY <1>13, <1>b, <1>c DEF QueueEnds, FlagsOK
  <2>2. TasksOK'
    BY <1>13, <1>b, <1>c DEF QueueEnds, TasksOK
  <2>3. PortOK'
    BY <1>13, <1>b, <1>c DEF QueueEnds, PortOK
  <2> QED
    BY <2>1, <2>2, <2>3, <1>a, TypePartsNext
<1>14. CASE DeinitEnds(c)
  <2>1. FlagsOK'
    BY <1>14, <1>b, <1>c DEF DeinitEnds, Answered, FlagsOK
  <2>2. TasksOK'
    BY <1>14, <1>b, <1>c DEF DeinitEnds, Answered, TasksOK
  <2>3. PortOK'
    BY <1>14, <1>b, <1>c DEF DeinitEnds, Answered, PortOK
  <2> QED
    BY <2>1, <2>2, <2>3, <1>a, TypePartsNext
<1>15. CASE Refused(c)
  <2>1. FlagsOK'
    BY <1>15, <1>b, <1>c DEF Refused, FlagsOK
  <2>2. TasksOK'
    BY <1>15, <1>b, <1>c DEF Refused, TasksOK
  <2>3. PortOK'
    BY <1>15, <1>b, <1>c DEF Refused, PortOK
  <2> QED
    BY <2>1, <2>2, <2>3, <1>a, TypePartsNext
<1> QED
  BY <1>1, <1>2, <1>3, <1>4, <1>5, <1>6, <1>7, <1>8, <1>9, <1>10, <1>11, <1>12, <1>13,
     <1>14, <1>15 DEF CallerSteps

LEMMA NextType == TypeOK /\ [Next]_vars => TypeOK'
<1> SUFFICES ASSUME TypeOK, [Next]_vars PROVE TypeOK'
  OBVIOUS
<1> USE DEF flags, rx, air, past
<1>a. FlagsOK /\ TasksOK /\ PortOK /\ CallsOK /\ "app" \in Caller /\ "hook" \in Caller
  BY TypeParts DEF Caller
<1>b. /\ \A n \in NoQueue .. QueueLen : n > 0 => n - 1 \in NoQueue .. QueueLen
      /\ \A n \in NoQueue .. QueueLen : n < QueueLen => n + 1 \in NoQueue .. QueueLen
      /\ NoQueue \in NoQueue .. QueueLen
  BY QueueAssumption DEF NoQueue
<1>1. CASE AppCalls
  <2>1. FlagsOK'
    <3>1. wish' \in BOOLEAN /\ raced' \in BOOLEAN /\ halfway' \in BOOLEAN
      BY <1>1, <1>a, PastType DEF AppCalls, InitBegins
    <3> QED
      BY <1>1, <1>a, <3>1 DEF AppCalls, InitBegins, FlagsOK
  <2>2. TasksOK'
    BY <1>1, <1>a, <1>b DEF AppCalls, InitBegins, Accepted, TasksOK
  <2>3. PortOK'
    BY <1>1, <1>a, <1>b DEF AppCalls, InitBegins, Accepted, PortOK
  <2>4. CallsOK'
    <3>1. \/ UNCHANGED calls
          \/ \E place \in Place, f \in Calls : Becomes("app", f, place)
      BY <1>1 DEF AppCalls, InitBegins, Place, Calls
    <3> QED
      BY <1>a, <3>1, CallsType DEF calls, CallsOK
  <2> QED
    BY <2>1, <2>2, <2>3, <2>4, TypePartsNext
<1>2. CASE Suspend
  <2>1. FlagsOK'
    BY <1>2, <1>a, <1>b DEF Suspend, FlagsOK
  <2>2. TasksOK'
    BY <1>2, <1>a, <1>b DEF Suspend, TasksOK
  <2>3. PortOK'
    BY <1>2, <1>a, <1>b DEF Suspend, PortOK
  <2>4. CallsOK'
    BY <1>2, <1>a, CallsType DEF Suspend, Place, Calls, CallsOK
  <2> QED
    BY <2>1, <2>2, <2>3, <2>4, TypePartsNext
<1>3. CASE Resume
  <2>1. FlagsOK'
    BY <1>3, <1>a, <1>b DEF Resume, Accepted, FlagsOK
  <2>2. TasksOK'
    BY <1>3, <1>a, <1>b DEF Resume, Accepted, TasksOK
  <2>3. PortOK'
    BY <1>3, <1>a, <1>b DEF Resume, Accepted, PortOK
  <2>4. CallsOK'
    <3>1. \/ UNCHANGED calls
          \/ Becomes("hook", "restart", "begin") \/ Becomes("hook", "resume", "init")
      BY <1>3 DEF Resume
    <3>2. {"begin", "init"} \subseteq Place /\ {"restart", "resume"} \subseteq Calls
      BY DEF Place, Calls
    <3> QED
      BY <1>a, <3>1, <3>2, CallsType DEF calls, CallsOK
  <2> QED
    BY <2>1, <2>2, <2>3, <2>4, TypePartsNext
<1>4. CASE \E c \in Caller : CallerSteps(c)
  BY <1>4, CallerStepsType
<1> USE DEF calls
<1>5. CASE Sync
  <2>1. FlagsOK'
    BY <1>5, <1>a, <1>b DEF Sync, HostFree, HostChecks, FlagsOK
  <2>2. TasksOK'
    BY <1>5, <1>a, <1>b DEF Sync, HostFree, HostChecks, TasksOK
  <2>3. PortOK'
    BY <1>5, <1>a, <1>b DEF Sync, HostFree, HostChecks, PortOK
  <2>4. CallsOK'
    BY <1>5, <1>a DEF Sync, CallsOK
  <2> QED
    BY <2>1, <2>2, <2>3, <2>4, TypePartsNext
<1>6. CASE Reset
  <2>1. FlagsOK'
    BY <1>6, <1>a, <1>b DEF Reset, HostFree, FlagsOK
  <2>2. TasksOK'
    BY <1>6, <1>a, <1>b DEF Reset, HostFree, TasksOK
  <2>3. PortOK'
    BY <1>6, <1>a, <1>b DEF Reset, HostFree, PortOK
  <2>4. CallsOK'
    BY <1>6, <1>a DEF Reset, CallsOK
  <2> QED
    BY <2>1, <2>2, <2>3, <2>4, TypePartsNext
<1>7. CASE Connect
  <2>1. FlagsOK'
    BY <1>7, <1>a, <1>b DEF Connect, HostFree, HostChecks, FlagsOK
  <2>2. TasksOK'
    BY <1>7, <1>a, <1>b DEF Connect, HostFree, HostChecks, TasksOK
  <2>3. PortOK'
    BY <1>7, <1>a, <1>b DEF Connect, HostFree, HostChecks, PortOK
  <2>4. CallsOK'
    BY <1>7, <1>a DEF Connect, CallsOK
  <2> QED
    BY <2>1, <2>2, <2>3, <2>4, TypePartsNext
<1>8. CASE Disconnect
  <2>1. FlagsOK'
    BY <1>8, <1>a, <1>b DEF Disconnect, HostFree, HostChecks, FlagsOK
  <2>2. TasksOK'
    BY <1>8, <1>a, <1>b DEF Disconnect, HostFree, HostChecks, TasksOK
  <2>3. PortOK'
    BY <1>8, <1>a, <1>b DEF Disconnect, HostFree, HostChecks, PortOK
  <2>4. CallsOK'
    BY <1>8, <1>a DEF Disconnect, CallsOK
  <2> QED
    BY <2>1, <2>2, <2>3, <2>4, TypePartsNext
<1>9. CASE HostStartsAir
  <2>1. FlagsOK'
    BY <1>9, <1>a, <1>b DEF HostStartsAir, AirBegins, FlagsOK
  <2>2. TasksOK'
    BY <1>9, <1>a, <1>b DEF HostStartsAir, AirBegins, TasksOK
  <2>3. PortOK'
    BY <1>9, <1>a, <1>b DEF HostStartsAir, AirBegins, PortOK
  <2>4. CallsOK'
    BY <1>9, <1>a DEF HostStartsAir, CallsOK
  <2> QED
    BY <2>1, <2>2, <2>3, <2>4, TypePartsNext
<1>10. CASE HostOnAir
  <2>1. FlagsOK'
    BY <1>10, <1>a, <1>b DEF HostOnAir, AirStarts, FlagsOK
  <2>2. TasksOK'
    BY <1>10, <1>a, <1>b DEF HostOnAir, AirStarts, TasksOK
  <2>3. PortOK'
    BY <1>10, <1>a, <1>b DEF HostOnAir, AirStarts, PortOK
  <2>4. CallsOK'
    BY <1>10, <1>a DEF HostOnAir, CallsOK
  <2> QED
    BY <2>1, <2>2, <2>3, <2>4, TypePartsNext
<1>11. CASE Receive
  <2>1. FlagsOK'
    BY <1>11, <1>a, <1>b DEF Receive, HostFree, FlagsOK
  <2>2. TasksOK'
    BY <1>11, <1>a, <1>b DEF Receive, HostFree, TasksOK
  <2>3. PortOK'
    BY <1>11, <1>a, <1>b DEF Receive, HostFree, PortOK
  <2>4. CallsOK'
    BY <1>11, <1>a DEF Receive, CallsOK
  <2> QED
    BY <2>1, <2>2, <2>3, <2>4, TypePartsNext
<1>12. CASE Send
  <2>1. FlagsOK'
    BY <1>12, <1>a, <1>b DEF Send, FlagsOK
  <2>2. TasksOK'
    BY <1>12, <1>a, <1>b DEF Send, TasksOK
  <2>3. PortOK'
    BY <1>12, <1>a, <1>b DEF Send, PortOK
  <2>4. CallsOK'
    BY <1>12, <1>a DEF Send, CallsOK
  <2> QED
    BY <2>1, <2>2, <2>3, <2>4, TypePartsNext
<1>13. CASE WorkerTakes
  <2>1. FlagsOK'
    BY <1>13, <1>a, <1>b DEF WorkerTakes, FlagsOK
  <2>2. TasksOK'
    BY <1>13, <1>a, <1>b DEF WorkerTakes, TasksOK
  <2>3. PortOK'
    BY <1>13, <1>a, <1>b DEF WorkerTakes, PortOK
  <2>4. CallsOK'
    BY <1>13, <1>a DEF WorkerTakes, CallsOK
  <2> QED
    BY <2>1, <2>2, <2>3, <2>4, TypePartsNext
<1>14. CASE WorkerReturns
  <2>1. FlagsOK'
    BY <1>14, <1>a, <1>b DEF WorkerReturns, FlagsOK
  <2>2. TasksOK'
    BY <1>14, <1>a, <1>b DEF WorkerReturns, TasksOK
  <2>3. PortOK'
    BY <1>14, <1>a, <1>b DEF WorkerReturns, PortOK
  <2>4. CallsOK'
    BY <1>14, <1>a DEF WorkerReturns, CallsOK
  <2> QED
    BY <2>1, <2>2, <2>3, <2>4, TypePartsNext
<1>15. CASE Clash
  <2>1. FlagsOK'
    BY <1>15, <1>a, <1>b DEF Clash, FlagsOK
  <2>2. TasksOK'
    BY <1>15, <1>a, <1>b DEF Clash, TasksOK
  <2>3. PortOK'
    BY <1>15, <1>a, <1>b DEF Clash, PortOK
  <2>4. CallsOK'
    BY <1>15 DEF Clash, CallsOK, Place, Calls
  <2> QED
    BY <2>1, <2>2, <2>3, <2>4, TypePartsNext
<1>16. CASE UNCHANGED vars
  BY <1>16 DEF vars, TypeOK
<1> QED
  BY <1>1, <1>2, <1>3, <1>4, <1>5, <1>6, <1>7, <1>8, <1>9, <1>10, <1>11, <1>12,
     <1>13, <1>14, <1>15, <1>16 DEF Next, HostSteps

(* Every variable keeps its type, and the controller is only busy while    *)
(* the NimBLE port runs, whatever the callers do to each other.            *)
THEOREM TypeCorrect == Spec => []TypeOK
<1>1. Init => TypeOK
  BY InitType
<1>2. TypeOK /\ [Next]_vars => TypeOK'
  BY NextType
<1> QED
  BY <1>1, <1>2, PTL DEF Spec

-----------------------------------------------------------------------------
\* Stopped is quiet

(* Only a caller that initialises finds the port ready, and only one does. *)
Readied ==
  \A c \in Caller : at[c] = "rest" => nimble = "ready" /\ at[Other(c)] # "rest"

(* Whoever is past its look at s_started while that is down was overtaken. *)
Looked ==
  ~ started /\ (host \in {"check", "air"} \/ \E c \in Caller : PastCheck(c)) => overtaken

QuietInv == Readied /\ Looked /\ StoppedIsQuiet

LEMMA CallerStepsQuiet ==
  ASSUME TypeOK, QuietInv, NEW c \in Caller, CallerSteps(c)
  PROVE  QuietInv'
<1> USE Others DEF flags, rx, air, calls, past, QuietInv, Readied, Looked, StoppedIsQuiet,
                   PastCheck, Caller, TypeOK
<1>1. CASE InitPort(c)
  BY <1>1 DEF InitPort, Goes
<1>2. CASE InitFails(c)
  BY <1>2 DEF InitFails, Returns, Becomes
<1>3. CASE InitEnds(c)
  <2>1. /\ at[c] = "rest" /\ nimble = "ready" /\ host = "idle" /\ ~ adv
        /\ host' = host /\ adv' = adv /\ started' = FALSE
        /\ overtaken' = PastCheck(Other(c))
    BY <1>3 DEF InitEnds
  <2>2. at' = [at EXCEPT ![c] = "begin"] \/ at' = [at EXCEPT ![c] = "idle"]
    BY <1>3 DEF InitEnds, Returns, Becomes
  <2> QED
    BY <2>1, <2>2
<1>4. CASE StartBegins(c)
  BY <1>4 DEF StartBegins, Goes
<1>5. CASE StartSets(c)
  BY <1>5 DEF StartSets, Goes
<1>6. CASE StartChecks(c)
  BY <1>6 DEF StartChecks, Goes, Returns, Becomes, AirBegins
<1>7. CASE StartEnds(c)
  BY <1>7 DEF StartEnds, Returns, Becomes, AirStarts
<1>8. CASE StopBegins(c)
  BY <1>8 DEF StopBegins, Goes
<1>9. CASE StopSilences(c)
  BY <1>9 DEF StopSilences, Goes
<1>10. CASE StopEnds(c)
  BY <1>10 DEF StopEnds, Goes, Returns, Becomes
<1>11. CASE PortStops(c)
  BY <1>11 DEF PortStops, Goes
<1>12. CASE WorkerEnds(c)
  BY <1>12 DEF WorkerEnds, Goes
<1>13. CASE QueueEnds(c)
  BY <1>13 DEF QueueEnds, Goes
<1>14. CASE DeinitEnds(c)
  BY <1>14 DEF DeinitEnds, Returns, Becomes
<1>15. CASE Refused(c)
  BY <1>15 DEF Refused, Returns, Becomes
<1> QED
  BY <1>1, <1>2, <1>3, <1>4, <1>5, <1>6, <1>7, <1>8, <1>9, <1>10, <1>11, <1>12, <1>13,
     <1>14, <1>15 DEF CallerSteps

LEMMA NextQuiet == TypeOK /\ QuietInv /\ [Next]_vars => QuietInv'
<1> SUFFICES ASSUME TypeOK, QuietInv, [Next]_vars PROVE QuietInv'
  OBVIOUS
<1> USE Others DEF flags, rx, air, calls, past, QuietInv, Readied, Looked, StoppedIsQuiet,
                   PastCheck, Caller, TypeOK
<1>1. CASE AppCalls
  BY <1>1 DEF AppCalls, InitBegins, Becomes, Idle
<1>2. CASE Suspend
  BY <1>2 DEF Suspend, Becomes, Idle
<1>3. CASE Resume
  BY <1>3 DEF Resume, Becomes, Idle
<1>4. CASE \E c \in Caller : CallerSteps(c)
  <2> HIDE DEF QuietInv, TypeOK, Caller
  <2> QED
    BY <1>4, CallerStepsQuiet
<1>5. CASE Sync \/ Reset \/ Connect \/ Disconnect
  BY <1>5 DEF Sync, Reset, Connect, Disconnect, HostFree, HostChecks
<1>6. CASE HostStartsAir \/ HostOnAir \/ Receive \/ Send
  BY <1>6 DEF HostStartsAir, HostOnAir, Receive, Send, HostFree, AirBegins, AirStarts
<1>7. CASE WorkerTakes \/ WorkerReturns
  BY <1>7 DEF WorkerTakes, WorkerReturns
<1>8. CASE Clash
  BY <1>8 DEF Clash
<1>9. CASE UNCHANGED vars
  BY <1>9 DEF vars
<1> QED
  BY <1>1, <1>2, <1>3, <1>4, <1>5, <1>6, <1>7, <1>8, <1>9 DEF Next, HostSteps

(* A stopped radio does not advertise, except for a task that was past its *)
(* look at s_started when the flag fell.                                   *)
THEOREM StoppedQuiet == Spec => []StoppedIsQuiet
<1>1. Init => QuietInv
  BY Others DEF Init, QuietInv, Readied, Looked, StoppedIsQuiet, PastCheck, Caller
<1>2. TypeOK /\ QuietInv /\ [Next]_vars => QuietInv'
  BY NextQuiet
<1>3. QuietInv => StoppedIsQuiet
  BY DEF QuietInv
<1> QED
  BY <1>1, <1>2, <1>3, TypeCorrect, PTL DEF Spec

-----------------------------------------------------------------------------
\* Suspended is off, and the queue outlives its users

Busy(c) == at[c] \notin {"idle", "begin"}

(* Callers that do not overlap leave the flags, the port and the worker in *)
(* step: what each place of a procedure stands for.                        *)
OneBusy == \A c \in Caller : Busy(c) => ~ Busy(Other(c))
Initialising ==
  \A c \in Caller :
    /\ at[c] \in {"init", "rest"} => ~ inited /\ ~ suspended /\ (c = "app" => at["hook"] = "idle")
    /\ at[c] = "rest" => nimble = "ready"
Running ==
  \A c \in Caller :
    at[c] \in {"set", "check", "air", "silence", "forget", "port"} => inited /\ nimble = "running"
Ending ==
  \A c \in Caller :
    /\ at[c] \in {"worker", "queue", "flag", "dead"} => inited /\ nimble = "off"
    /\ at[c] \in {"queue", "flag"} => worker = "none"
PortFollows ==
  /\ inited => nimble = "running" \/ \E c \in Caller : at[c] \in {"worker", "queue", "flag", "dead"}
  /\ ~ inited => nimble = "off" \/ halfway \/ \E c \in Caller : at[c] = "rest"
  /\ suspended => ~ inited
  /\ worker # "none" \/ host = "rx" => queue # NoQueue

Ordered == OneBusy /\ Initialising /\ Running /\ Ending /\ PortFollows

HookCalls ==
  \A c \in Caller : call[c] \in {"suspend", "shut", "resume", "restart"} => c = "hook"

OrderInv == HookCalls /\ (raced \/ Ordered)

LEMMA OrderImplies == TypeOK /\ OrderInv => SuspendedIsOff /\ QueueOutlivesUsers
<1> SUFFICES ASSUME TypeOK, OrderInv, ~ raced PROVE SuspendedIsOff /\ QueueOutlivesUsers
  BY DEF SuspendedIsOff, QueueOutlivesUsers
<1>1. Ordered
  BY DEF OrderInv
<1>2. suspended => ~ \E c \in Caller : at[c] = "rest"
  BY <1>1 DEF Ordered, Initialising
<1> QED
  BY <1>1, <1>2 DEF Ordered, PortFollows, SuspendedIsOff, QueueOutlivesUsers

(* Only the tasks of the MQTT client suspend and resume.                   *)
LEMMA NextHookCalls == TypeOK /\ HookCalls /\ [Next]_vars => HookCalls'
<1> SUFFICES ASSUME TypeOK, HookCalls, [Next]_vars PROVE HookCalls'
  OBVIOUS
<1> USE DEF HookCalls, Caller, calls
<1>1. CASE AppCalls
  BY <1>1 DEF AppCalls, InitBegins, Becomes, TypeOK
<1>2. CASE Suspend \/ Resume
  BY <1>2 DEF Suspend, Resume, Becomes, TypeOK
<1>3. ASSUME NEW c \in Caller, CallerSteps(c) PROVE HookCalls'
  <2>1. \/ UNCHANGED call \/ Returns(c)
        \/ call[c] = "resume" /\ Becomes(c, "restart", "begin")
        \/ call[c] = "suspend" /\ Becomes(c, "shut", "begin")
    BY <1>3 DEF CallerSteps, InitPort, InitFails, InitEnds, StartBegins, StartSets, StartChecks,
                StartEnds, StopBegins, StopSilences, StopEnds, PortStops, WorkerEnds, QueueEnds,
                DeinitEnds, Refused, Goes
  <2> QED
    BY <1>3, <2>1 DEF Returns, Becomes, TypeOK
<1>4. CASE HostSteps \/ WorkerTakes \/ WorkerReturns \/ UNCHANGED vars
  BY <1>4 DEF HostSteps, Sync, Reset, Connect, Disconnect, HostStartsAir, HostOnAir, Receive,
              Send, WorkerTakes, WorkerReturns, vars
<1>5. CASE Clash
  BY <1>5 DEF Clash
<1> QED
  BY <1>1, <1>2, <1>3, <1>4, <1>5 DEF Next

LEMMA CallerStepsOrder ==
  ASSUME TypeOK, HookCalls, Ordered, NEW c \in Caller, CallerSteps(c), ~ raced'
  PROVE  Ordered'
<1> USE Others DEF flags, rx, air, calls, past, Caller, TypeOK, HookCalls, Ordered, Busy, OneBusy,
                   Initialising, Running, Ending, PortFollows
<1>1. CASE InitPort(c)
  BY <1>1 DEF InitPort, Goes
<1>2. CASE InitFails(c)
  BY <1>2 DEF InitFails, Returns, Becomes
<1>3. CASE InitEnds(c)
  <2>1. at[c] = "rest" /\ inited' /\ nimble' = "running" /\ UNCHANGED <<suspended, host>>
    BY <1>3 DEF InitEnds
  <2>2. at' = [at EXCEPT ![c] = "begin"] \/ at' = [at EXCEPT ![c] = "idle"]
    BY <1>3 DEF InitEnds, Returns, Becomes
  <2>3. queue' # NoQueue
    BY <1>3 DEF InitEnds, NoQueue
  <2> QED
    BY <2>1, <2>2, <2>3
<1>4. CASE StartBegins(c)
  BY <1>4 DEF StartBegins, Goes, Accepted, Idle
<1>5. CASE StartSets(c)
  BY <1>5 DEF StartSets, Goes
<1>6. CASE StartChecks(c)
  <2>1. at[c] = "check" /\ UNCHANGED <<inited, suspended, nimble, halfway, worker, queue, host>>
    BY <1>6 DEF StartChecks, Answered
  <2>2. at' = [at EXCEPT ![c] = "air"] \/ at' = [at EXCEPT ![c] = "idle"]
    BY <1>6 DEF StartChecks, Goes, Returns, Becomes
  <2> QED
    BY <2>1, <2>2
<1>7. CASE StartEnds(c)
  BY <1>7 DEF StartEnds, Returns, Becomes, Answered, AirStarts
<1>8. CASE StopBegins(c)
  BY <1>8 DEF StopBegins, Goes, Accepted, Idle
<1>9. CASE StopSilences(c)
  BY <1>9 DEF StopSilences, Goes
<1>10. CASE StopEnds(c)
  <2>1. at[c] = "forget" /\ UNCHANGED <<inited, suspended, nimble, halfway, worker, queue, host>>
    BY <1>10 DEF StopEnds, Answered
  <2>2. \E place \in {"idle", "begin", "port"} : at' = [at EXCEPT ![c] = place]
    BY <1>10 DEF StopEnds, Goes, Returns, Becomes
  <2> QED
    BY <2>1, <2>2
<1>11. CASE PortStops(c)
  BY <1>11 DEF PortStops, Goes
<1>12. CASE WorkerEnds(c)
  BY <1>12 DEF WorkerEnds, Goes
<1>13. CASE QueueEnds(c)
  BY <1>13 DEF QueueEnds, Goes
<1>14. CASE DeinitEnds(c)
  BY <1>14 DEF DeinitEnds, Returns, Becomes, Answered
<1>15. CASE Refused(c)
  BY <1>15 DEF Refused, Returns, Becomes
<1> QED
  BY <1>1, <1>2, <1>3, <1>4, <1>5, <1>6, <1>7, <1>8, <1>9, <1>10, <1>11, <1>12, <1>13,
     <1>14, <1>15 DEF CallerSteps

(* Only a restart of the device ends a race of two calls.                  *)
LEMMA RacedStays == [Next]_vars /\ ~ raced' => Clash \/ ~ raced
BY DEF Next, AppCalls, InitBegins, Suspend, Resume, Accepted, Answered, HostSteps, Sync, Reset,
       Connect, Disconnect, HostStartsAir, HostOnAir, Receive, Send, WorkerTakes, WorkerReturns,
       CallerSteps, InitPort, InitFails, InitEnds, StartBegins, StartSets, StartChecks,
       StartEnds, StopBegins, StopSilences, StopEnds, PortStops, WorkerEnds, QueueEnds,
       DeinitEnds, Refused, past, vars

LEMMA NextOrder == TypeOK /\ OrderInv /\ [Next]_vars => OrderInv'
<1> SUFFICES ASSUME TypeOK, OrderInv, [Next]_vars, ~ raced' PROVE Ordered'
  BY NextHookCalls DEF OrderInv
<1>a. CASE Clash
  BY <1>a, Others DEF Clash, Ordered, Busy, OneBusy, Initialising, Running, Ending, PortFollows, Caller
<1>b. ~ Clash => ~ raced
  BY RacedStays
<1>c. ~ Clash => HookCalls /\ Ordered
  BY <1>b DEF OrderInv
<1> USE Others DEF flags, rx, air, calls, past, Caller, TypeOK, Ordered, Busy, OneBusy,
                   Initialising, Running, Ending, PortFollows
<1>1. CASE ~ Clash /\ AppCalls
  <2>1. at["app"] = "idle" /\ UNCHANGED <<inited, suspended, nimble, halfway, worker, queue, host>>
    BY <1>1 DEF AppCalls, InitBegins, Accepted, Idle
  <2>2. \/ at' = at \/ at' = [at EXCEPT !["app"] = "begin"]
        \/ /\ at' = [at EXCEPT !["app"] = "init"]
           /\ ~ inited /\ ~ suspended /\ at["hook"] = "idle"
    BY <1>1 DEF AppCalls, InitBegins, Accepted, Becomes, Idle
  <2>3. CASE at' = at
    BY <1>1, <1>c, <2>1, <2>3
  <2>4. CASE at' = [at EXCEPT !["app"] = "begin"]
    BY <1>1, <1>c, <2>1, <2>4
  <2>5. CASE at' = [at EXCEPT !["app"] = "init"] /\ ~ inited /\ ~ suspended /\ at["hook"] = "idle"
    BY <1>1, <1>c, <2>1, <2>5
  <2> QED
    BY <2>2, <2>3, <2>4, <2>5
<1>2. CASE ~ Clash /\ Suspend
  BY <1>2, <1>c DEF Suspend, Becomes, Idle
<1>3. CASE ~ Clash /\ Resume
  <2>1. /\ at["hook"] = "idle" /\ ~ inited /\ ~ suspended'
        /\ UNCHANGED <<inited, nimble, worker, queue, host>>
    BY <1>3, <1>c DEF Resume, Idle
  <2>2. at' = [at EXCEPT !["hook"] = "init"] /\ at["app"] = "idle" /\ halfway' = halfway
    BY <1>3, <2>1 DEF Resume, Becomes, Accepted, Idle
  <2>3. at'["hook"] = "init" /\ at'["app"] = "idle"
    BY <2>1, <2>2
  <2>4. PortFollows'
    BY <1>3, <1>c, <2>1, <2>2, <2>3
  <2>5. OneBusy' /\ Initialising' /\ Running' /\ Ending'
    BY <2>1, <2>2, <2>3
  <2> QED
    BY <2>4, <2>5
<1>4. CASE ~ Clash /\ \E c \in Caller : CallerSteps(c)
  <2> HIDE DEF Ordered, TypeOK, Caller
  <2> QED
    BY <1>4, <1>c, CallerStepsOrder
<1>5. CASE ~ Clash /\ (Sync \/ Reset \/ Connect \/ Disconnect)
  BY <1>5, <1>c DEF Sync, Reset, Connect, Disconnect, HostFree, HostChecks
<1>6. CASE ~ Clash /\ (HostStartsAir \/ HostOnAir \/ Receive)
  BY <1>6, <1>c DEF HostStartsAir, HostOnAir, Receive, HostFree, AirBegins, AirStarts
<1>7. CASE ~ Clash /\ Send
  BY <1>7, <1>c, QueueAssumption DEF Send, NoQueue
<1>8. CASE ~ Clash /\ (WorkerTakes \/ WorkerReturns)
  BY <1>8, <1>c, QueueAssumption DEF WorkerTakes, WorkerReturns, NoQueue
<1>9. CASE ~ Clash /\ UNCHANGED vars
  BY <1>9, <1>c DEF vars
<1> QED
  BY <1>a, <1>1, <1>2, <1>3, <1>4, <1>5, <1>6, <1>7, <1>8, <1>9 DEF Next, HostSteps

LEMMA OrderHolds == Spec => [](TypeOK /\ OrderInv)
<1>1. Init => OrderInv
  BY Others DEF Init, OrderInv, HookCalls, Ordered, Busy, OneBusy, Initialising, Running, Ending,
                PortFollows, Caller
<1>2. TypeOK /\ OrderInv /\ [Next]_vars => OrderInv'
  BY NextOrder
<1> QED
  BY <1>1, <1>2, TypeCorrect, PTL DEF Spec

(* Whoever finds the radio suspended finds the controller's memory free.   *)
THEOREM SuspendedOff == Spec => []SuspendedIsOff
BY OrderHolds, OrderImplies, PTL

(* Neither the host nor the receive worker is left with a deleted queue.   *)
THEOREM QueueOutlives == Spec => []QueueOutlivesUsers
BY OrderHolds, OrderImplies, PTL

-----------------------------------------------------------------------------
\* On the air

(* The function each caller is in, at each place of its procedures.        *)
AppFits(place, f) ==
  CASE place = "idle" -> f = "none"
    [] place = "begin" -> f \in {"start", "stop", "deinit"}
    [] place \in {"init", "rest"} -> f = "init"
    [] place \in {"set", "check", "air"} -> f = "start"
    [] place \in {"silence", "forget"} -> f \in {"stop", "deinit"}
    [] place \in TearPlace \cup {"dead"} -> f = "deinit"
HookFits(place, f) ==
  CASE place = "idle" -> f = "none"
    [] place = "begin" -> f \in {"suspend", "shut", "restart"}
    [] place \in {"init", "rest"} -> f = "resume"
    [] place \in {"set", "check", "air"} -> f = "restart"
    [] place \in {"silence", "forget"} -> f \in {"suspend", "shut"}
    [] place \in TearPlace \cup {"dead"} -> f = "shut"
CallFits == AppFits(at["app"], call["app"]) /\ HookFits(at["hook"], call["hook"])

(* What s_started is along a start and along a stop, and that it is down   *)
(* as long as the radio is not initialised.                                *)
StartKnown ==
  /\ ~ inited => ~ started
  /\ \A c \in Caller : /\ at[c] \in {"silence", "forget", "dead"} \cup TearPlace => ~ started
                       /\ PastCheck(c) => started

(* A started radio in sync with its controller is on the air, connected,   *)
(* or about to be advertised by a task that is past its look.              *)
AirKept ==
  started /\ synced /\ nimble = "running" =>
    adv \/ link \/ host \in {"check", "air"} \/ \E c \in Caller : PastCheck(c)

(* A caller that moves on within its function leaves the other where it is. *)
LEMMA MoveFits ==
  ASSUME TypeOK, CallFits, NEW c \in Caller, NEW place, NEW f,
         Becomes(c, f, place) \/ (Goes(c, place) /\ f = call[c]),
         c = "app" => AppFits(place, f), c = "hook" => HookFits(place, f)
  PROVE  CallFits'
<1> USE DEF Caller, TypeOK
<1>1. at'[c] = place /\ call'[c] = f
  BY DEF Becomes, Goes
<1>2. \A o \in Caller : o # c => at'[o] = at[o] /\ call'[o] = call[o]
  BY DEF Becomes, Goes
<1>3. CASE c = "app"
  BY <1>1, <1>2, <1>3 DEF CallFits
<1>4. CASE c = "hook"
  BY <1>1, <1>2, <1>4 DEF CallFits
<1> QED
  BY <1>3, <1>4

LEMMA CallerStepsFits ==
  ASSUME TypeOK, CallFits, NEW c \in Caller, CallerSteps(c)
  PROVE  CallFits'
<1> DEFINE Fits(place, f) == (c = "app" => AppFits(place, f)) /\ (c = "hook" => HookFits(place, f))
<1>a. Fits(at[c], call[c])
  BY DEF CallFits
<1>b. ASSUME NEW place, NEW f, Fits(place, f), Becomes(c, f, place) \/ (Goes(c, place) /\ f = call[c])
      PROVE  CallFits'
  BY <1>b, MoveFits
<1>c. ASSUME Returns(c) PROVE CallFits'
  <2>1. Fits("idle", "none")
    BY DEF AppFits, HookFits, TearPlace
  <2> QED
    BY <1>b, <1>c, <2>1 DEF Returns
<1>d. ASSUME NEW place, Goes(c, place), Fits(place, call[c]) PROVE CallFits'
  BY <1>b, <1>d
<1> USE <1>a DEF AppFits, HookFits, TearPlace
<1>1. CASE InitPort(c)
  BY <1>1, <1>d DEF InitPort
<1>2. CASE InitFails(c) \/ StartEnds(c) \/ DeinitEnds(c) \/ Refused(c)
  BY <1>2, <1>c DEF InitFails, StartEnds, DeinitEnds, Refused
<1>3. CASE InitEnds(c)
  <2>1. Returns(c) \/ (call[c] = "resume" /\ Becomes(c, "restart", "begin"))
    BY <1>3 DEF InitEnds
  <2>2. call[c] = "resume" /\ at[c] = "rest" => Fits("begin", "restart")
    OBVIOUS
  <2> QED
    BY <1>3, <1>b, <1>c, <2>1, <2>2 DEF InitEnds
<1>4. CASE StartBegins(c)
  BY <1>4, <1>d DEF StartBegins
<1>5. CASE StartSets(c)
  BY <1>5, <1>d DEF StartSets
<1>6. CASE StartChecks(c)
  <2>1. Returns(c) \/ Goes(c, "air")
    BY <1>6 DEF StartChecks
  <2>2. Fits("air", call[c])
    BY <1>6 DEF StartChecks
  <2> QED
    BY <1>c, <1>d, <2>1, <2>2
<1>8. CASE StopBegins(c)
  BY <1>8, <1>d DEF StopBegins
<1>9. CASE StopSilences(c)
  BY <1>9, <1>d DEF StopSilences
<1>10. CASE StopEnds(c)
  <2>1. CASE call[c] = "stop"
    BY <1>10, <2>1, <1>c DEF StopEnds
  <2>2. CASE call[c] = "suspend"
    <3>1. Fits("begin", "shut")
      BY <1>10, <2>2 DEF StopEnds
    <3> QED
      BY <1>10, <2>2, <3>1, <1>b DEF StopEnds
  <2>3. CASE call[c] \notin {"stop", "suspend"}
    <3>1. Fits("port", call[c])
      BY <1>10, <2>3 DEF StopEnds
    <3> QED
      BY <1>10, <2>3, <3>1, <1>d DEF StopEnds
  <2> QED
    BY <2>1, <2>2, <2>3
<1>11. CASE PortStops(c)
  BY <1>11, <1>d DEF PortStops
<1>12. CASE WorkerEnds(c)
  <2>1. Goes(c, "dead") \/ Goes(c, "queue")
    BY <1>12 DEF WorkerEnds
  <2>2. Fits("dead", call[c]) /\ Fits("queue", call[c])
    BY <1>12 DEF WorkerEnds
  <2> QED
    BY <1>d, <2>1, <2>2
<1>13. CASE QueueEnds(c)
  BY <1>13, <1>d DEF QueueEnds
<1> QED
  BY <1>1, <1>2, <1>3, <1>4, <1>5, <1>6, <1>8, <1>9, <1>10, <1>11, <1>12, <1>13 DEF CallerSteps

LEMMA NextFits == TypeOK /\ CallFits /\ [Next]_vars => CallFits'
<1> SUFFICES ASSUME TypeOK, CallFits, [Next]_vars PROVE CallFits'
  OBVIOUS
<1>1. CASE AppCalls
  <2>1. UNCHANGED calls \/ \E f \in {"start", "stop", "deinit"} : Becomes("app", f, "begin")
        \/ Becomes("app", "init", "init")
    BY <1>1 DEF AppCalls, InitBegins
  <2>2. AppFits("init", "init") /\ \A f \in {"start", "stop", "deinit"} : AppFits("begin", f)
    BY DEF AppFits, TearPlace
  <2> QED
    BY <2>1, <2>2, MoveFits DEF Caller, calls, CallFits
<1>2. CASE Suspend \/ Resume
  <2>1. \/ UNCHANGED calls \/ Becomes("hook", "suspend", "begin")
        \/ Becomes("hook", "restart", "begin") \/ Becomes("hook", "resume", "init")
    BY <1>2 DEF Suspend, Resume
  <2>2. HookFits("begin", "suspend") /\ HookFits("begin", "restart") /\ HookFits("init", "resume")
    BY DEF HookFits, TearPlace
  <2> QED
    BY <2>1, <2>2, MoveFits DEF Caller, calls, CallFits
<1>3. CASE \E c \in Caller : CallerSteps(c)
  BY <1>3, CallerStepsFits
<1>4. CASE HostSteps \/ WorkerTakes \/ WorkerReturns \/ UNCHANGED vars
  BY <1>4 DEF HostSteps, Sync, Reset, Connect, Disconnect, HostStartsAir, HostOnAir, Receive,
              Send, WorkerTakes, WorkerReturns, vars, calls, CallFits
<1>5. CASE Clash
  BY <1>5 DEF Clash, CallFits, AppFits, HookFits, TearPlace, Caller
<1> QED
  BY <1>1, <1>2, <1>3, <1>4, <1>5 DEF Next

LEMMA CallerStepsAir ==
  ASSUME TypeOK, CallFits, Ordered, StartKnown, AirKept, NEW c \in Caller, CallerSteps(c),
         ~ raced'
  PROVE  StartKnown' /\ AirKept'
<1> USE Others DEF flags, rx, air, calls, past, Caller, TypeOK, Ordered, Busy, OneBusy, Initialising,
                   Running, Ending, PortFollows, StartKnown, AirKept, PastCheck, TearPlace
<1>1. CASE InitPort(c)
  BY <1>1 DEF InitPort, Goes
<1>2. CASE InitFails(c)
  BY <1>2 DEF InitFails, Returns, Becomes
<1>3. CASE InitEnds(c)
  <2>1. at[c] = "rest" /\ started' = FALSE /\ synced' = FALSE
    BY <1>3 DEF InitEnds
  <2>2. at' = [at EXCEPT ![c] = "begin"] \/ at' = [at EXCEPT ![c] = "idle"]
    BY <1>3 DEF InitEnds, Returns, Becomes
  <2> QED
    BY <2>1, <2>2
<1>4. CASE StartBegins(c)
  BY <1>4 DEF StartBegins, Goes, Accepted, Idle
<1>5. CASE StartSets(c)
  BY <1>5 DEF StartSets, Goes
<1>6. CASE StartChecks(c)
  BY <1>6 DEF StartChecks, Goes, Returns, Becomes, AirBegins
<1>7. CASE StartEnds(c)
  BY <1>7 DEF StartEnds, Returns, Becomes, AirStarts
<1>8. CASE StopBegins(c)
  BY <1>8 DEF StopBegins, Goes, Accepted, Idle
<1>9. CASE StopSilences(c)
  BY <1>9 DEF StopSilences, Goes
<1>10. CASE StopEnds(c)
  BY <1>10 DEF StopEnds, Goes, Returns, Becomes
<1>11. CASE PortStops(c)
  BY <1>11 DEF PortStops, Goes
<1>12. CASE WorkerEnds(c)
  BY <1>12 DEF WorkerEnds, Goes
<1>13. CASE QueueEnds(c)
  BY <1>13 DEF QueueEnds, Goes
<1>14. CASE DeinitEnds(c)
  BY <1>14 DEF DeinitEnds, Returns, Becomes
<1>15. CASE Refused(c)
  BY <1>15 DEF Refused, Returns, Becomes
<1> QED
  BY <1>1, <1>2, <1>3, <1>4, <1>5, <1>6, <1>7, <1>8, <1>9, <1>10, <1>11, <1>12, <1>13,
     <1>14, <1>15 DEF CallerSteps

AirInv == CallFits /\ (raced \/ (StartKnown /\ AirKept))

LEMMA NextAir == TypeOK /\ OrderInv /\ AirInv /\ [Next]_vars => AirInv'
<1> SUFFICES ASSUME TypeOK, OrderInv, AirInv, [Next]_vars, ~ raced' PROVE StartKnown' /\ AirKept'
  BY NextFits DEF AirInv
<1>a. CASE Clash
  BY <1>a DEF Clash, StartKnown, AirKept, PastCheck, TearPlace, Caller
<1> SUFFICES ASSUME ~ Clash PROVE StartKnown' /\ AirKept'
  BY <1>a
<1>b. CallFits /\ Ordered /\ StartKnown /\ AirKept
  BY RacedStays DEF OrderInv, AirInv
<1> USE <1>b DEF flags, rx, air, calls, past, Caller, TypeOK, StartKnown, AirKept, PastCheck, TearPlace
<1>1. CASE AppCalls
  BY <1>1 DEF AppCalls, InitBegins, Becomes, Idle
<1>2. CASE Suspend
  BY <1>2 DEF Suspend, Becomes, Idle
<1>3. CASE Resume
  BY <1>3 DEF Resume, Becomes, Idle
<1>4. CASE \E c \in Caller : CallerSteps(c)
  <2> HIDE DEF TypeOK, Caller, StartKnown, AirKept
  <2> QED
    BY <1>4, CallerStepsAir
<1>5. CASE Sync \/ Reset \/ Connect \/ Disconnect
  BY <1>5 DEF Sync, Reset, Connect, Disconnect, HostFree, HostChecks
<1>6. CASE HostStartsAir \/ HostOnAir \/ Receive \/ Send
  BY <1>6 DEF HostStartsAir, HostOnAir, Receive, Send, HostFree, AirBegins, AirStarts
<1>7. CASE WorkerTakes \/ WorkerReturns \/ UNCHANGED vars
  BY <1>7 DEF WorkerTakes, WorkerReturns, vars
<1> QED
  BY <1>1, <1>2, <1>3, <1>4, <1>5, <1>6, <1>7 DEF Next, HostSteps

LEMMA AirHolds == Spec => []AirInv
<1>1. Init => AirInv
  BY DEF Init, AirInv, CallFits, AppFits, HookFits, StartKnown, AirKept, PastCheck, TearPlace, Caller
<1>2. TypeOK /\ OrderInv /\ AirInv /\ [Next]_vars => AirInv'
  BY NextAir
<1> QED
  BY <1>1, <1>2, OrderHolds, PTL DEF Spec

(* Whoever comes last, iotmer_ble_start or on_sync, advertises, and so do  *)
(* the ends of connections: a started radio is on the air or connected     *)
(* once every task is through.                                             *)
THEOREM OnAirAlways == Spec => []OnAir
<1>1. AirInv => OnAir
  BY DEF AirInv, AirKept, OnAir, Quiet, PastCheck, Idle
<1> QED
  BY <1>1, AirHolds, PTL

-----------------------------------------------------------------------------
\* Resume restores

(* The radio is down, or on its way, because the hook suspended it.        *)
Restoring == Busy("hook") \/ call["hook"] \in {"shut", "restart"}

(* s_resume_start keeps what the application asked for from the suspension *)
(* to the restart; otherwise s_started is what it asked for, the calls it  *)
(* is in the middle of aside.                                              *)
WishKept ==
  /\ suspended => at["hook"] = "idle" /\ resume_start = wish
  /\ Restoring => ~ Busy("app") /\ resume_start = wish
  /\ call["hook"] \in {"shut", "restart"} => inited
  /\ call["hook"] = "shut" => ~ started
  /\ call["hook"] = "restart" => resume_start
  /\ ~ Restoring /\ ~ suspended /\ at["app"] \in {"idle", "begin", "init", "rest"} => started = wish

(* A start that ended left the flag up, any other call left it down.       *)
LEMMA CallerStepsWish ==
  ASSUME TypeOK, CallFits, Ordered, StartKnown, WishKept, NEW c \in Caller, CallerSteps(c),
         ~ raced'
  PROVE  WishKept'
<1>a. AppFits(at["app"], call["app"]) /\ HookFits(at["hook"], call["hook"])
  BY DEF CallFits
<1> USE Others, <1>a DEF flags, rx, air, calls, past, Caller, TypeOK, Ordered, Busy, OneBusy,
                   Initialising, Running, Ending, PortFollows, StartKnown, WishKept, Restoring,
                   PastCheck, TearPlace
<1>1. CASE InitPort(c)
  BY <1>1 DEF InitPort, Goes
<1>2. CASE InitFails(c)
  BY <1>2 DEF InitFails, Returns, Becomes, AppFits, HookFits
<1>3. CASE InitEnds(c)
  BY <1>3 DEF InitEnds, Returns, Becomes, Answered, AppFits, HookFits
<1>4. CASE StartBegins(c)
  BY <1>4 DEF StartBegins, Goes, Accepted, Idle, AppFits, HookFits
<1>5. CASE StartSets(c)
  BY <1>5 DEF StartSets, Goes, AppFits, HookFits
<1>6. CASE StartChecks(c)
  BY <1>6 DEF StartChecks, Goes, Returns, Becomes, Answered, AppFits, HookFits
<1>7. CASE StartEnds(c)
  BY <1>7 DEF StartEnds, Returns, Becomes, Answered, AppFits, HookFits
<1>8. CASE StopBegins(c)
  BY <1>8 DEF StopBegins, Goes, Accepted, Idle, AppFits, HookFits
<1>9. CASE StopSilences(c)
  BY <1>9 DEF StopSilences, Goes
<1>10. CASE StopEnds(c)
  BY <1>10 DEF StopEnds, Goes, Returns, Becomes, Answered, AppFits, HookFits
<1>11. CASE PortStops(c)
  BY <1>11 DEF PortStops, Goes
<1>12. CASE WorkerEnds(c)
  BY <1>12 DEF WorkerEnds, Goes
<1>13. CASE QueueEnds(c)
  BY <1>13 DEF QueueEnds, Goes
<1>14. CASE DeinitEnds(c)
  BY <1>14 DEF DeinitEnds, Returns, Becomes, Answered, AppFits, HookFits
<1>15. CASE Refused(c)
  <2>1. at[c] = "begin" /\ ~ inited /\ ~ started /\ at[Other(c)] \in {"idle", "begin", "init", "rest"}
    BY <1>15 DEF Refused, Place
  <2>2. at' = [at EXCEPT ![c] = "idle"] /\ call' = [call EXCEPT ![c] = "none"]
        /\ UNCHANGED <<inited, started, wish>>
    BY <1>15 DEF Refused, Returns, Becomes
  <2>3. CASE c = "app"
    <3>1. suspended' = suspended /\ resume_start' = resume_start
      BY <1>15, <2>1, <2>3 DEF Refused, AppFits
    <3> QED
      BY <2>1, <2>2, <2>3, <3>1
  <2>4. CASE c = "hook"
    <3>1. call[c] = "suspend"
      BY <2>1, <2>4 DEF HookFits
    <3>2. suspended' /\ resume_start' = wish
      BY <1>15, <2>1, <2>4, <3>1 DEF Refused
    <3> QED
      BY <2>1, <2>2, <2>4, <3>2
  <2> QED
    BY <2>3, <2>4
<1> QED
  BY <1>1, <1>2, <1>3, <1>4, <1>5, <1>6, <1>7, <1>8, <1>9, <1>10, <1>11, <1>12, <1>13,
     <1>14, <1>15 DEF CallerSteps

WishInv == raced \/ WishKept

LEMMA NextWish == TypeOK /\ OrderInv /\ AirInv /\ WishInv /\ [Next]_vars => WishInv'
<1> SUFFICES ASSUME TypeOK, OrderInv, AirInv, WishInv, [Next]_vars, ~ raced' PROVE WishKept'
  BY DEF WishInv
<1>a. CASE Clash
  BY <1>a DEF Clash, WishKept, Restoring, Busy, Caller
<1> SUFFICES ASSUME ~ Clash PROVE WishKept'
  BY <1>a
<1>b. CallFits /\ Ordered /\ StartKnown /\ WishKept
  BY RacedStays DEF OrderInv, AirInv, WishInv
<1>c. AppFits(at["app"], call["app"]) /\ HookFits(at["hook"], call["hook"])
  BY <1>b DEF CallFits
<1> USE <1>b DEF flags, rx, air, calls, past, Caller, TypeOK, WishKept, Restoring, Busy
<1>1. CASE AppCalls
  <2>1. at["app"] = "idle" /\ UNCHANGED <<inited, started, suspended, resume_start, wish>>
    BY <1>1 DEF AppCalls, InitBegins, Idle, Accepted
  <2>2. \/ UNCHANGED calls
        \/ \E f \in {"start", "stop", "deinit"} : Becomes("app", f, "begin")
        \/ Becomes("app", "init", "init") /\ at["hook"] = "idle"
    BY <1>1, Others DEF AppCalls, InitBegins, Accepted, Idle
  <2>3. at["hook"] = "idle" => call["hook"] = "none"
    BY <1>c DEF HookFits, TearPlace
  <2> QED
    BY <2>1, <2>2, <2>3 DEF Becomes
<1>2. CASE Suspend
  <2>1. at["hook"] = "idle" /\ call["hook"] = "none"
    BY <1>2, <1>c DEF Suspend, Idle, HookFits, TearPlace
  <2>2. /\ at' = [at EXCEPT !["hook"] = "begin"] /\ call' = [call EXCEPT !["hook"] = "suspend"]
        /\ ~ suspended /\ UNCHANGED <<inited, started, suspended, resume_start, wish>>
    BY <1>2 DEF Suspend, Becomes
  <2> QED
    BY <2>1, <2>2
<1>3. CASE Resume
  BY <1>3, <1>c, Others DEF Resume, Becomes, Idle, Accepted, Ordered, PortFollows, HookFits
<1>4. CASE \E c \in Caller : CallerSteps(c)
  <2> HIDE DEF TypeOK, Caller, WishKept
  <2> QED
    BY <1>4, CallerStepsWish
<1>5. CASE HostSteps \/ WorkerTakes \/ WorkerReturns \/ UNCHANGED vars
  BY <1>5 DEF HostSteps, Sync, Reset, Connect, Disconnect, HostStartsAir, HostOnAir, Receive,
              Send, WorkerTakes, WorkerReturns, vars
<1> QED
  BY <1>1, <1>2, <1>3, <1>4, <1>5 DEF Next

LEMMA WishHolds == Spec => []WishInv
<1>1. Init => WishInv
  BY DEF Init, WishInv, WishKept, Restoring, Busy, Caller
<1>2. TypeOK /\ OrderInv /\ AirInv /\ WishInv /\ [Next]_vars => WishInv'
  BY NextWish
<1> QED
  BY <1>1, <1>2, OrderHolds, AirHolds, PTL DEF Spec

(* Over any number of suspensions, the ones that could not resume at first *)
(* included, an initialised radio is started as the application last asked.*)
THEOREM ResumeRestoresAlways == Spec => []ResumeRestores
<1>1. OrderInv /\ AirInv /\ WishInv => ResumeRestores
  <2> SUFFICES ASSUME OrderInv, AirInv, WishInv, Quiet, ~ raced, inited PROVE started = wish
    BY DEF ResumeRestores
  <2>1. at["app"] = "idle" /\ at["hook"] = "idle" /\ call["hook"] = "none"
    BY DEF Quiet, Idle, AirInv, CallFits, HookFits, Caller, TearPlace
  <2>2. ~ suspended /\ ~ Restoring
    BY <2>1 DEF OrderInv, Ordered, PortFollows, Restoring, Busy
  <2> QED
    BY <2>1, <2>2 DEF WishInv, WishKept
<1> QED
  BY <1>1, OrderHolds, AirHolds, WishHolds, PTL

=============================================================================
