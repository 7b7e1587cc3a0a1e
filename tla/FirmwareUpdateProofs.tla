------------------------- MODULE FirmwareUpdateProofs -------------------------
(***************************************************************************)
(* Proofs about FirmwareUpdate, for every set of images and any number of  *)
(* changes of the server: the broker list in flash is the one in use, no   *)
(* poll puts an older login back, and a poll goes on while it is needed.   *)
(***************************************************************************)
EXTENDS FirmwareUpdate, TLAPS

LEMMA Tasks ==
  /\ Task = {"app", "poll", "fo"} /\ Worker \subseteq Task
  /\ Place["app"] = Round \cup {"off", "halt", "load", "start", "ready"}
  /\ Place["poll"] = Round \cup {"off", "sleep", "copy", "back", "check", "next"}
  /\ Place["fo"] = {"off", "idle", "blob"}
BY DEF Task, Place, Worker

(* A task that goes to one of its places leaves the others where they are. *)
LEMMA Going ==
  ASSUME DOMAIN at = Task, \A u \in Task : at[u] \in Place[u],
         NEW t \in Task, NEW place \in Place[t], Goes(t, place)
  PROVE  /\ DOMAIN at' = Task /\ \A u \in Task : at'[u] \in Place[u]
         /\ at'[t] = place /\ \A u \in Task \ {t} : at'[u] = at[u]
BY DEF Goes

-----------------------------------------------------------------------------
\* Types

CredsOK ==
  /\ nvs \in [creds : Creds, route : Number]
  /\ cr \in [Worker -> Creds]
  /\ https \in [Worker -> BOOLEAN] /\ goal \in [Worker -> {"provisioned", "updated"}]
  /\ build \in Build /\ slot \in Build

RouteOK == dir \in Number /\ persist \in BOOLEAN /\ snap \in [Task -> Number]

PollOK == retry \in BOOLEAN /\ round \in 0 .. 4 /\ stop \in BOOLEAN

PlacesOK == DOMAIN at = Task /\ \A t \in Task : at[t] \in Place[t]

ServerOK == server \in [n : Number \ {0}, fw : Assigned]

PastOK ==
  /\ lost \in BOOLEAN /\ crossed \in BOOLEAN /\ abandoned \in BOOLEAN /\ unpolled \in BOOLEAN
  /\ since \in Number

LEMMA TypeParts ==
  TypeOK <=> CredsOK /\ RouteOK /\ PollOK /\ PlacesOK /\ ServerOK /\ PastOK
BY DEF TypeOK, CredsOK, RouteOK, PollOK, PlacesOK, ServerOK, PastOK

LEMMA TypePartsNext ==
  TypeOK' <=> CredsOK' /\ RouteOK' /\ PollOK' /\ PlacesOK' /\ ServerOK' /\ PastOK'
BY DEF TypeOK, CredsOK, RouteOK, PollOK, PlacesOK, ServerOK, PastOK

LEMMA ZeroType == 0 \in Number /\ NoCreds \in Creds
BY BuildAssumption DEF Number, NoCreds, Creds, Firmware

(* A reset leaves well typed RAM, whatever it interrupts.                  *)
LEMMA RebootType ==
  ASSUME TypeOK, Reboot, slot' = slot, server' = server,
         nvs' \in [creds : Creds, route : Number]
  PROVE  TypeOK'
<1>1. CredsOK'
  BY ZeroType DEF TypeOK, CredsOK, Reboot, Reset
<1>2. RouteOK'
  BY ZeroType DEF RouteOK, Reboot, Reset
<1>3. PollOK'
  <2>1. retry' \in BOOLEAN /\ stop' \in BOOLEAN
    BY DEF Reboot, Reset
  <2>2. round' \in 0 .. 4
    BY DEF Reboot, Reset
  <2> QED
    BY <2>1, <2>2 DEF PollOK
<1>4. PastOK'
  BY ZeroType DEF PastOK, Reboot, Reset
<1>5. PlacesOK'
  BY Tasks DEF PlacesOK, Reboot, Reset
<1> QED
  BY <1>1, <1>2, <1>3, <1>4, <1>5, TypePartsNext DEF TypeOK, ServerOK

LEMMA FreesType ==
  ASSUME TypeOK, NEW t \in Worker, Frees(t)
  PROVE  cr' \in [Worker -> Creds]
BY ZeroType DEF TypeOK, Frees

(* What follows a save.                                                    *)
LEMMA AfterSaveType ==
  ASSUME TypeOK, NEW t \in Worker, AfterSave(t), slot' = slot, server' = server,
         nvs' \in [creds : Creds, route : Number],
         goal[t] = "updated" \/ lost' \in BOOLEAN
  PROVE  TypeOK'
<1>1. CASE goal[t] = "updated"
  BY <1>1, RebootType DEF AfterSave
<1>2. CASE goal[t] # "updated"
  <2>1. Goes(t, IF t = "app" THEN "ota" ELSE "back")
    BY <1>2 DEF AfterSave
  <2>2. (IF t = "app" THEN "ota" ELSE "back") \in Place[t]
    BY Tasks DEF Worker, Round
  <2>3. PlacesOK'
    BY <2>1, <2>2, Tasks, Going DEF TypeOK, PlacesOK
  <2>4. snap' \in [Task -> Number]
    BY <1>2, ZeroType, Tasks DEF AfterSave, TypeOK
  <2> QED
    BY <1>2, <2>3, <2>4 DEF AfterSave, TypeOK, PlacesOK, poller
<1> QED
  BY <1>1, <1>2

LEMMA ProvisionType ==
  ASSUME TypeOK, NEW t \in Worker, Provision(t)
  PROVE  TypeOK'
<1> USE Tasks, Going, ZeroType DEF Worker, Round, SavePlace
<1>1. CASE Skips(t)
  <2>1. PlacesOK'
    BY <1>1 DEF Skips, TypeOK, PlacesOK
  <2>2. cr[t].login \in Number
    BY DEF TypeOK, Creds
  <2>3. PastOK'
    BY <1>1, <2>2 DEF Skips, Established, TypeOK, PastOK
  <2> QED
    BY <1>1, <2>1, <2>3 DEF Skips, TypeOK, PlacesOK, PastOK, flash, route, poller
<1>2. CASE ProvisionFails(t)
  <2>1. PlacesOK'
    BY <1>2 DEF ProvisionFails, TypeOK, PlacesOK
  <2>2. cr' \in [Worker -> Creds]
    BY <1>2, FreesType DEF ProvisionFails
  <2> QED
    BY <1>2, <2>1, <2>2 DEF ProvisionFails, TypeOK, PlacesOK, flash, route, poller, past
<1>3. CASE Answered(t)
  <2>1. PlacesOK'
    BY <1>3 DEF Answered, TypeOK, PlacesOK
  <2>2. server.n \in Number /\ server.fw \in Firmware
    BY DEF TypeOK, Assigned
  <2>3. CredsOK'
    BY <1>3, <2>2 DEF Answered, TypeOK, Creds, flash, CredsOK
  <2>4. PastOK' /\ RouteOK'
    BY <1>3, <2>2 DEF Answered, Established, TypeOK, PastOK, RouteOK
  <2> QED
    BY <1>3, <2>1, <2>3, <2>4, TypePartsNext DEF Answered, TypeOK, PollOK, ServerOK, poller
<1> QED
  BY <1>1, <1>2, <1>3 DEF Provision

LEMMA SaveType ==
  ASSUME TypeOK, NEW t \in Worker, Save(t)
  PROVE  TypeOK'
<1> USE Tasks, Going, ZeroType DEF Worker, Round, SavePlace
<1>1. CASE SaveFirmware(t) \/ SaveApplied(t) \/ SaveLogin(t)
  <2>1. PlacesOK'
    BY <1>1 DEF SaveFirmware, SaveApplied, SaveLogin, TypeOK, PlacesOK
  <2>2. nvs' \in [creds : Creds, route : Number]
    BY <1>1 DEF SaveFirmware, SaveApplied, SaveLogin, TypeOK, Creds
  <2> QED
    BY <1>1, <2>1, <2>2
       DEF SaveFirmware, SaveApplied, SaveLogin, TypeOK, PlacesOK, route, poller, past
<1>2. CASE SaveRoute(t)
  <2>1. PlacesOK'
    BY <1>2 DEF SaveRoute, TypeOK, PlacesOK
  <2>2. RouteOK' /\ PastOK'
    BY <1>2 DEF SaveRoute, TakesList, TypeOK, RouteOK, PastOK
  <2> QED
    BY <1>2, <2>1, <2>2, TypePartsNext DEF SaveRoute, TypeOK, CredsOK, PollOK, ServerOK, flash, poller
<1>3. CASE SaveEnds(t)
  <2>1. nvs' \in [creds : Creds, route : Number]
    BY <1>3 DEF SaveEnds, TypeOK
  <2> QED
    BY <1>3, <2>1, AfterSaveType DEF SaveEnds, TypeOK
<1>4. CASE SaveFails(t)
  BY <1>4, AfterSaveType DEF SaveFails, TypeOK
<1> QED
  BY <1>1, <1>2, <1>3, <1>4 DEF Save

LEMMA OtaType ==
  ASSUME TypeOK, NEW t \in Worker, Ota(t)
  PROVE  TypeOK'
<1> USE Tasks, Going, ZeroType DEF Worker, Round, SavePlace, AfterUpdate
<1>1. PlacesOK'
  BY DEF Ota, UpdateSkipped, UpdateBegins, UpdateFails, UpdateDone, TypeOK, PlacesOK
<1>2. CASE UpdateSkipped(t) \/ UpdateFails(t)
  <2>1. cr' \in [Worker -> Creds]
    BY <1>2, FreesType DEF UpdateSkipped, UpdateFails
  <2>2. https' \in [Worker -> BOOLEAN]
    <3>1. CASE UpdateSkipped(t)
      BY <3>1 DEF UpdateSkipped, TypeOK
    <3>2. CASE UpdateFails(t)
      BY <3>2 DEF UpdateFails, TypeOK
    <3> QED
      BY <1>2, <3>1, <3>2
  <2>3. CredsOK'
    BY <1>2, <2>1, <2>2 DEF UpdateSkipped, UpdateFails, TypeOK, CredsOK, flash
  <2>4. RouteOK' /\ PastOK' /\ ServerOK'
    BY <1>2 DEF UpdateSkipped, UpdateFails, TypeOK, RouteOK, PastOK, ServerOK, route, past
  <2>5. retry' \in BOOLEAN
    BY <1>2 DEF UpdateSkipped, UpdateFails
  <2>6. PollOK'
    BY <1>2, <2>5 DEF UpdateSkipped, UpdateFails, TypeOK, PollOK
  <2> QED
    BY <1>1, <2>3, <2>4, <2>6, TypePartsNext
<1>3. CASE UpdateBegins(t)
  BY <1>1, <1>3 DEF UpdateBegins, TypeOK, PlacesOK, flash, route, poller, past
<1>4. CASE UpdateDone(t)
  <2>1. cr[t].fw \in Firmware /\ slot' \in Build
    BY <1>4 DEF UpdateDone, TypeOK, Creds, Firmware
  <2>2. cr' \in [Worker -> Creds]
    BY <1>4, <2>1 DEF UpdateDone, TypeOK, Creds
  <2> QED
    BY <1>1, <1>4, <2>1, <2>2 DEF UpdateDone, TypeOK, PlacesOK, route, poller, past
<1> QED
  BY <1>2, <1>3, <1>4 DEF Ota

LEMMA InitStepsType ==
  ASSUME TypeOK, InitBegins \/ Halts \/ Load
  PROVE  TypeOK'
<1> USE Tasks, Going, ZeroType DEF Worker, Round, SavePlace
<1>1. CASE InitBegins
  BY <1>1 DEF InitBegins, TypeOK, flash, route
<1>2. CASE Halts
  BY <1>2 DEF Halts, TypeOK, flash, route
<1>3. CASE Load
  <2>1. PlacesOK'
    BY <1>3 DEF Load, TypeOK, PlacesOK
  <2>2. cr' \in [Worker -> Creds] /\ dir' \in Number
    BY <1>3 DEF Load, TypeOK
  <2> QED
    BY <1>3, <2>1, <2>2 DEF Load, TypeOK, PlacesOK, flash, poller
<1> QED
  BY <1>1, <1>2, <1>3

LEMMA PollType ==
  ASSUME TypeOK, Poll \/ PollStarts \/ PollRefused \/ NoPoll
  PROVE  TypeOK'
<1> USE Tasks, Going, ZeroType DEF Worker, Round, SavePlace
<1>1. CASE PollStarts \/ PollRefused \/ NoPoll
  <2>1. PlacesOK'
    BY <1>1 DEF PollStarts, PollRefused, NoPoll, TypeOK, PlacesOK
  <2>2. CredsOK' /\ RouteOK' /\ ServerOK'
    BY <1>1
       DEF PollStarts, PollRefused, NoPoll, TypeOK, CredsOK, RouteOK, ServerOK, flash, route
  <2>3. stop' \in BOOLEAN /\ unpolled' \in BOOLEAN
    BY <1>1 DEF PollStarts, PollRefused, NoPoll, TypeOK, poller, past
  <2>4. round' \in 0 .. 4
    BY <1>1 DEF PollStarts, PollRefused, NoPoll, TypeOK, poller
  <2>5. PollOK'
    BY <1>1, <2>3, <2>4 DEF PollStarts, PollRefused, NoPoll, TypeOK, PollOK, poller
  <2>6. PastOK'
    BY <1>1, <2>3 DEF PollStarts, PollRefused, NoPoll, TypeOK, PastOK, past
  <2> QED
    BY <2>1, <2>2, <2>5, <2>6, TypePartsNext
<1>2. CASE PollEnds
  <2>1. cr' \in [Worker -> Creds]
    BY <1>2, FreesType DEF PollEnds
  <2>2. PlacesOK'
    BY <1>2 DEF PollEnds, TypeOK, PlacesOK
  <2> QED
    BY <1>2, <2>1, <2>2 DEF PollEnds, TypeOK, PlacesOK, flash, route, poller, past
<1>3. CASE PollSleeps \/ PollWakes \/ NoHeap \/ PollUpdates
  <2>1. PlacesOK'
    BY <1>3 DEF PollSleeps, PollWakes, NoHeap, PollUpdates, TypeOK, PlacesOK
  <2> QED
    BY <1>3, <2>1
       DEF PollSleeps, PollWakes, NoHeap, PollUpdates, TypeOK, PlacesOK, flash, route, poller, past
<1>4. CASE PollCopies
  <2>1. PlacesOK'
    BY <1>4 DEF PollCopies, TypeOK, PlacesOK
  <2>2. cr' \in [Worker -> Creds] /\ round' \in 0 .. 4
    BY <1>4 DEF PollCopies, NextRound, TypeOK
  <2> QED
    BY <1>4, <2>1, <2>2 DEF PollCopies, TypeOK, PlacesOK, flash, route, past
<1>5. CASE PollCopiesBack
  <2>1. PlacesOK'
    BY <1>5 DEF PollCopiesBack, TypeOK, PlacesOK
  <2> QED
    BY <1>5, <2>1 DEF PollCopiesBack, TypeOK, PlacesOK, flash, route, poller, past
<1> QED
  BY <1>1, <1>2, <1>3, <1>4, <1>5 DEF Poll

LEMMA FailoverType ==
  ASSUME TypeOK, Failover
  PROVE  TypeOK'
<1> USE Tasks, Going, ZeroType
<1>1. CASE FoStarts
  <2>1. PlacesOK'
    BY <1>1 DEF FoStarts, TypeOK, PlacesOK
  <2> QED
    BY <1>1, <2>1 DEF FoStarts, TypeOK, PlacesOK, flash, route, poller, past
<1>2. CASE FoAnswered
  BY <1>2 DEF FoAnswered, TypeOK, flash, poller, past
<1>3. CASE FoTakesList
  <2>1. PlacesOK'
    BY <1>3 DEF FoTakesList, TypeOK, PlacesOK
  <2>2. RouteOK' /\ PastOK'
    BY <1>3 DEF FoTakesList, TakesList, TypeOK, RouteOK, PastOK
  <2> QED
    BY <1>3, <2>1, <2>2, TypePartsNext
       DEF FoTakesList, TypeOK, CredsOK, PollOK, ServerOK, flash, poller
<1>4. CASE FoWrites \/ FoWriteFails
  <2>1. PlacesOK'
    BY <1>4 DEF FoWrites, FoWriteFails, TypeOK, PlacesOK
  <2>2. nvs' \in [creds : Creds, route : Number] /\ snap' \in [Task -> Number]
    BY <1>4 DEF FoWrites, FoWriteFails, TypeOK
  <2>3. CredsOK'
    BY <1>4, <2>2 DEF FoWrites, FoWriteFails, TypeOK, CredsOK
  <2>4. persist' \in BOOLEAN
    BY <1>4 DEF FoWrites, FoWriteFails, TypeOK
  <2>5. RouteOK'
    BY <1>4, <2>2, <2>4 DEF FoWrites, FoWriteFails, TypeOK, RouteOK
  <2> QED
    BY <1>4, <2>1, <2>3, <2>5, TypePartsNext
       DEF FoWrites, FoWriteFails, TypeOK, PollOK, ServerOK, PastOK, poller, past
<1> QED
  BY <1>1, <1>2, <1>3, <1>4 DEF Failover

LEMMA ServerType ==
  ASSUME TypeOK, ServerChanges
  PROVE  TypeOK'
<1>1. server.n + 1 \in Number \ {0}
  BY BuildAssumption DEF ServerChanges, TypeOK, Number
<1>2. server' \in [n : Number \ {0}, fw : Assigned]
  BY <1>1 DEF ServerChanges
<1> QED
  BY <1>2 DEF ServerChanges, TypeOK, flash, route, poller, past

LEMMA TypeStep == TypeOK /\ [Next]_vars => TypeOK'
<1> SUFFICES ASSUME TypeOK, [Next]_vars PROVE TypeOK'
  OBVIOUS
<1>1. CASE PowerFails
  BY <1>1, RebootType DEF PowerFails, TypeOK
<1>2. CASE UNCHANGED vars
  BY <1>2 DEF TypeOK, vars, flash, route, poller, past
<1> QED
  BY <1>1, <1>2, InitStepsType, ProvisionType, SaveType, OtaType, PollType, FailoverType,
     ServerType DEF Next

LEMMA TypeInit == Init => TypeOK
<1> SUFFICES ASSUME Init PROVE TypeOK
  OBVIOUS
<1>1. CredsOK
  BY ZeroType, BuildAssumption DEF Init, CredsOK
<1>2. RouteOK
  BY ZeroType DEF Init, RouteOK
<1>6. PollOK
  <2>1. retry \in BOOLEAN /\ stop \in BOOLEAN
    BY DEF Init
  <2>2. round \in 0 .. 4
    BY DEF Init
  <2> QED
    BY <2>1, <2>2 DEF PollOK
<1>7. PastOK
  BY ZeroType DEF Init, PastOK
<1>3. PlacesOK
  BY Tasks DEF Init, PlacesOK
<1>4. 1 \in Number \ {0}
  BY BuildAssumption DEF Number
<1>5. ServerOK
  BY <1>4 DEF Init, ServerOK
<1> QED
  BY <1>1, <1>2, <1>3, <1>5, <1>6, <1>7, TypeParts

(* Credentials, list, flash and tasks keep their types through failed      *)
(* saves, updates and power losses.                                        *)
THEOREM TypeCorrect == Spec => []TypeOK
BY TypeInit, TypeStep, PTL DEF Spec

-----------------------------------------------------------------------------
\* The failover task lives while the client is up.

FoStays == at["app"] # "ready" => at["fo"] = "off"

(* The list: while its mark is clear, some task is about to write the one  *)
(* in use, or flash has it. Two tasks that hold a list to write, or a list *)
(* that a failed save took, are the two exceptions of RoutePersisted.      *)
WritersCross ==
  \A t, u \in Task : t # u /\ at[t] = "blob" /\ at[u] = "blob" => crossed

Covered ==
  /\ \A t \in Task : at[t] = "blob" => snap[t] = dir
  /\ (\A t \in Task : at[t] # "blob") => nvs.route = dir

RouteCovered ==
  at["app"] \notin {"off", "halt", "load"} => persist \/ lost \/ crossed \/ Covered

RouteInv == FoStays /\ WritersCross /\ RouteCovered

(* The logins: none is newer than the server's, and a poll that was not    *)
(* given up on only holds logins of the initialisation that started it.    *)
NotNewer ==
  /\ since <= server.n /\ nvs.creds.login <= server.n
  /\ \A t \in Worker : cr[t].login <= server.n

PollOfThisInit ==
  /\ at["poll"] # "off" => at["app"] \in {"ready", "halt"}
  /\ at["app"] \in {"halt", "load"} => since = 0
  /\ cr["app"].login >= since
  /\ at["poll"] \in Round \cup {"back", "check"} => cr["poll"].login >= since

LoginInv == NotNewer /\ (abandoned \/ PollOfThisInit)

(* The poll: it is told to stop only by the next initialisation, and is    *)
(* gone only when nothing is left to do.                                   *)
PollInv ==
  at["app"] = "ready" /\ ~ abandoned /\ ~ unpolled =>
    IF at["poll"] = "off" THEN ~ NeedsPoll(cr["app"]) ELSE ~ stop


LEMMA RouteInit == Init => RouteInv
BY Tasks DEF Init, RouteInv, FoStays, WritersCross, RouteCovered

LEMMA FoStaysStep ==
  ASSUME TypeOK, FoStays, [Next]_vars
  PROVE  FoStays'
<1> USE Tasks DEF TypeOK, FoStays, Goes
<1>1. CASE InitBegins \/ Halts \/ Load
  BY <1>1 DEF InitBegins, Halts, Load
<1>2. ASSUME NEW t \in Worker, Provision(t)
      PROVE  FoStays'
  BY <1>2 DEF Provision, Skips, ProvisionFails, Answered, Worker
<1>3. ASSUME NEW t \in Worker, Save(t)
      PROVE  FoStays'
  <2>1. CASE Reboot
    BY <2>1 DEF Reboot, Reset
  <2>2. CASE ~ Reboot
    BY <1>3, <2>2 DEF Save, SaveFirmware, SaveApplied, SaveLogin, SaveRoute, SaveEnds, SaveFails,
       AfterSave, Worker, SavePlace
  <2> QED
    BY <2>1, <2>2
<1>4. ASSUME NEW t \in Worker, Ota(t)
      PROVE  FoStays'
  BY <1>4 DEF Ota, UpdateSkipped, UpdateBegins, UpdateFails, UpdateDone, Worker
<1>5. CASE PollStarts \/ PollRefused \/ NoPoll
  BY <1>5 DEF PollStarts, PollRefused, NoPoll
<1>6. CASE Poll
  BY <1>6 DEF Poll, PollEnds, PollSleeps, PollWakes, PollCopies, NoHeap, PollCopiesBack, PollUpdates
<1>7. CASE Failover
  BY <1>7 DEF Failover, FoStarts, FoAnswered, FoTakesList, FoWrites, FoWriteFails
<1>8. CASE ServerChanges \/ UNCHANGED vars
  BY <1>8 DEF ServerChanges, vars
<1>9. CASE PowerFails
  BY <1>9 DEF PowerFails, Reboot, Reset
<1> QED
  BY <1>1, <1>2, <1>3, <1>4, <1>5, <1>6, <1>7, <1>8, <1>9 DEF Next

(* A step of a task that touches neither the list nor its record.          *)
LEMMA RouteQuiet ==
  ASSUME TypeOK, RouteInv, NEW t \in Task, NEW place \in Place[t], Goes(t, place),
         at[t] # "blob", place # "blob",
         t = "app" /\ at["app"] \in {"off", "halt", "load"} => place \in {"off", "halt", "load"},
         nvs'.route = nvs.route, UNCHANGED <<dir, persist, snap, lost, crossed>>
  PROVE  WritersCross' /\ RouteCovered'
<1>1. \A u \in Task : at'[u] = "blob" <=> at[u] = "blob"
  BY Going DEF TypeOK
<1>2. WritersCross'
  BY <1>1 DEF RouteInv, WritersCross
<1>3. Covered => Covered'
  BY <1>1 DEF Covered
<1>4. at'["app"] \notin {"off", "halt", "load"} => at["app"] \notin {"off", "halt", "load"}
  BY Going, Tasks DEF TypeOK
<1> QED
  BY <1>2, <1>3, <1>4 DEF RouteInv, RouteCovered

LEMMA RouteReboots ==
  ASSUME Reboot
  PROVE  WritersCross' /\ RouteCovered'
BY Tasks DEF Reboot, Reset, WritersCross, RouteCovered

(* A task that takes the list writes it, or shares it with another writer. *)
LEMMA RouteTaken ==
  ASSUME TypeOK, RouteInv, NEW t \in Task, Goes(t, "blob"), "blob" \in Place[t], TakesList(t)
  PROVE  WritersCross' /\ RouteCovered'
<1>1. at'[t] = "blob" /\ \A u \in Task \ {t} : at'[u] = at[u]
  BY Going DEF TypeOK
<1>2. crossed' = (\E u \in Task \ {t} : at[u] = "blob") /\ dir' = dir /\ snap'[t] = dir
  BY DEF TakesList, TypeOK
<1>3. WritersCross'
  <2> SUFFICES ASSUME NEW u \in Task, NEW v \in Task, u # v, at'[u] = "blob", at'[v] = "blob"
               PROVE  crossed'
    BY DEF WritersCross
  <2> QED
    BY <1>1, <1>2
<1>4. ~ crossed' => Covered'
  BY <1>1, <1>2 DEF Covered
<1> QED
  BY <1>3, <1>4 DEF RouteCovered

LEMMA RouteSave ==
  ASSUME TypeOK, RouteInv, NEW t \in Worker, Save(t)
  PROVE  WritersCross' /\ RouteCovered'
<1> USE Tasks DEF Worker, Round, SavePlace
<1>1. CASE SaveFirmware(t) \/ SaveApplied(t) \/ SaveLogin(t)
  <2>1. nvs'.route = nvs.route
    BY <1>1 DEF SaveFirmware, SaveApplied, SaveLogin, TypeOK
  <2> QED
    BY <1>1, <2>1, RouteQuiet DEF SaveFirmware, SaveApplied, SaveLogin, route, past
<1>2. CASE SaveRoute(t)
  BY <1>2, RouteTaken DEF SaveRoute
<1>3. CASE (SaveEnds(t) \/ SaveFails(t)) /\ goal[t] = "updated"
  BY <1>3, RouteReboots DEF SaveEnds, SaveFails, AfterSave
<1>4. CASE (SaveEnds(t) \/ SaveFails(t)) /\ goal[t] # "updated"
  <2> DEFINE place == IF t = "app" THEN "ota" ELSE "back"
  <2>1. Goes(t, place) /\ place \in Place[t] /\ place # "blob"
    BY <1>4 DEF SaveEnds, SaveFails, AfterSave
  <2>2. at'[t] # "blob" /\ \A u \in Task \ {t} : at'[u] = at[u]
    BY <2>1, Going DEF TypeOK
  <2>3. UNCHANGED <<dir, persist, crossed>> /\ \A u \in Task \ {t} : snap'[u] = snap[u]
    BY <1>4 DEF SaveEnds, SaveFails, AfterSave, TypeOK
  <2>4. WritersCross'
    BY <2>2, <2>3 DEF RouteInv, WritersCross
  <2>5. at["app"] \notin {"off", "halt", "load"} \/ at'["app"] \in {"off", "halt", "load"}
    BY <1>4, <2>2 DEF SaveEnds, SaveFails
  <2>6. CASE SaveEnds(t)
    <3>1. at[t] = "blob" /\ nvs'.route = snap[t] /\ lost' = lost
      BY <1>4, <2>6 DEF SaveEnds, TypeOK
    <3>2. Covered /\ ~ crossed => Covered'
      BY <2>2, <2>3, <3>1 DEF Covered, RouteInv, WritersCross
    <3> QED
      BY <2>3, <2>4, <2>5, <3>1, <3>2 DEF RouteInv, RouteCovered
  <2>7. CASE SaveFails(t)
    <3>1. nvs' = nvs /\ lost' = (lost \/ at[t] = "blob")
      BY <1>4, <2>7 DEF SaveFails
    <3>2. Covered /\ at[t] # "blob" => Covered'
      BY <2>2, <2>3, <3>1 DEF Covered
    <3> QED
      BY <2>3, <2>4, <2>5, <3>1, <3>2 DEF RouteInv, RouteCovered
  <2> QED
    BY <1>4, <2>6, <2>7
<1> QED
  BY <1>1, <1>2, <1>3, <1>4 DEF Save

LEMMA RouteFailover ==
  ASSUME TypeOK, RouteInv, Failover
  PROVE  WritersCross' /\ RouteCovered'
<1> USE Tasks
<1>1. CASE FoStarts
  BY <1>1, RouteQuiet DEF FoStarts, flash, route, past
<1>2. CASE FoAnswered
  BY <1>2 DEF FoAnswered, past, RouteInv, WritersCross, RouteCovered
<1>3. CASE FoTakesList
  BY <1>3, RouteTaken DEF FoTakesList
<1>4. CASE FoWrites \/ FoWriteFails
  <2>1. at["fo"] = "blob" /\ at'["fo"] = "idle" /\ \A u \in Task \ {"fo"} : at'[u] = at[u]
    BY <1>4, Going DEF FoWrites, FoWriteFails, TypeOK
  <2>2. UNCHANGED <<dir, crossed, lost>> /\ \A u \in Task \ {"fo"} : snap'[u] = snap[u]
    BY <1>4 DEF FoWrites, FoWriteFails, TypeOK, past
  <2>3. WritersCross'
    BY <2>1, <2>2 DEF RouteInv, WritersCross
  <2>4. CASE FoWriteFails
    BY <2>3, <2>4 DEF FoWriteFails, RouteCovered
  <2>5. CASE FoWrites
    <3>1. nvs'.route = snap["fo"] /\ persist' = persist
      BY <2>5 DEF FoWrites, TypeOK
    <3>2. Covered /\ ~ crossed => Covered'
      BY <2>1, <2>2, <3>1 DEF Covered, RouteInv, WritersCross
    <3> QED
      BY <2>1, <2>2, <2>3, <3>1, <3>2 DEF RouteInv, RouteCovered
  <2> QED
    BY <1>4, <2>4, <2>5
<1> QED
  BY <1>1, <1>2, <1>3, <1>4 DEF Failover

LEMMA RouteStep == TypeOK /\ RouteInv /\ [Next]_vars => RouteInv'
<1> SUFFICES ASSUME TypeOK, RouteInv, [Next]_vars PROVE WritersCross' /\ RouteCovered'
  BY FoStaysStep DEF RouteInv
<1> USE Tasks DEF Worker, Round, SavePlace
<1>1. CASE InitBegins
  <2>1. at'["app"] = "halt" /\ (\A t \in Task : at'[t] = "blob" => at[t] = "blob") /\ crossed' = crossed
    BY <1>1 DEF InitBegins, TypeOK
  <2> QED
    BY <2>1 DEF RouteInv, WritersCross, RouteCovered
<1>2. CASE Halts
  BY <1>2, RouteQuiet DEF Halts, flash, route
<1>3. CASE Load
  <2>1. at["app"] = "load" /\ at["fo"] = "off"
    BY <1>3 DEF Load, RouteInv, FoStays
  <2>2. at'["app"] = "provision" /\ at'["fo"] = "off" /\ at'["poll"] = at["poll"]
    BY <1>3, <2>1, Going DEF Load, TypeOK
  <2>3. dir' = nvs.route /\ nvs' = nvs /\ crossed' = (at["poll"] = "blob")
    BY <1>3 DEF Load, flash
  <2> QED
    BY <2>2, <2>3 DEF WritersCross, RouteCovered, Covered
<1>4. ASSUME NEW t \in Worker, Provision(t)
      PROVE  WritersCross' /\ RouteCovered'
  <2>1. CASE Skips(t) \/ ProvisionFails(t)
    BY <2>1, RouteQuiet DEF Skips, ProvisionFails, Established, flash, route, past
  <2>2. CASE Answered(t) /\ dir' = dir /\ persist' = persist
    BY <2>2, RouteQuiet DEF Answered, Established, flash
  <2>3. CASE Answered(t) /\ persist'
    <3>1. \A u \in Task : at'[u] = "blob" => at[u] = "blob"
      BY <2>3, Going DEF Answered, TypeOK
    <3> QED
      BY <2>3, <3>1 DEF Answered, Established, RouteInv, WritersCross, RouteCovered
  <2>4. Answered(t) => persist' \/ (dir' = dir /\ persist' = persist)
    BY DEF Answered, TypeOK
  <2> QED
    BY <1>4, <2>1, <2>2, <2>3, <2>4 DEF Provision
<1>5. ASSUME NEW t \in Worker, Ota(t)
      PROVE  WritersCross' /\ RouteCovered'
  BY <1>5, RouteQuiet
     DEF Ota, UpdateSkipped, UpdateBegins, UpdateFails, UpdateDone, AfterUpdate, flash, route, past
<1>6. CASE PollStarts
  <2>1. at' = [at EXCEPT !["app"] = "ready", !["poll"] = "sleep"] /\ at["app"] = "start"
    BY <1>6 DEF PollStarts
  <2>2. \A u \in Task : at'[u] = "blob" <=> at[u] = "blob"
    BY <1>6, <2>1 DEF PollStarts, TypeOK
  <2>3. at["app"] \notin {"off", "halt", "load"}
    BY <2>1
  <2> QED
    BY <1>6, <2>2, <2>3
       DEF PollStarts, RouteInv, WritersCross, RouteCovered, Covered, flash, route, past
<1>7. CASE PollRefused \/ NoPoll
  BY <1>7, RouteQuiet DEF PollRefused, NoPoll, flash, route, past
<1>8. CASE Poll
  BY <1>8, RouteQuiet DEF Poll, PollEnds, PollSleeps, PollWakes, PollCopies, NoHeap, PollCopiesBack,
     PollUpdates, flash, route, past
<1>9. CASE ServerChanges \/ UNCHANGED vars
  BY <1>9 DEF ServerChanges, vars, flash, route, past, RouteInv, WritersCross, RouteCovered, Covered
<1>10. CASE PowerFails
  BY <1>10, RouteReboots DEF PowerFails
<1> QED
  BY <1>1, <1>2, <1>3, <1>4, <1>5, <1>6, <1>7, <1>8, <1>9, <1>10, RouteSave, RouteFailover DEF Next

(* A broker list whose mark is clear is the one in flash, once nobody is   *)
(* about to write it, but for a save that failed with it and two writers.  *)
THEOREM ListPersisted == Spec => []RoutePersisted
<1>1. RouteInv => RoutePersisted
  BY DEF RouteInv, RouteCovered, Covered, RoutePersisted
<1> QED
  BY <1>1, RouteInit, RouteStep, TypeInit, TypeStep, PTL DEF Spec

-----------------------------------------------------------------------------
\* Logins

LEMMA LoginTypes ==
  ASSUME TypeOK
  PROVE  /\ server.n \in Int /\ server.n >= 1 /\ since \in Int /\ since >= 0
         /\ nvs.creds.login \in Int /\ nvs.creds.login >= 0
         /\ \A t \in Worker : cr[t].login \in Int /\ cr[t].login >= 0
         /\ NoCreds.login = 0
BY BuildAssumption DEF TypeOK, Number, Creds, NoCreds

LEMMA LoginInit == Init => LoginInv
<1> SUFFICES ASSUME Init PROVE LoginInv
  OBVIOUS
<1>1. server.n = 1 /\ since = 0 /\ nvs.creds.login = 0 /\ \A t \in Worker : cr[t].login = 0
  BY DEF Init, NoCreds
<1>2. at["app"] = "off" /\ at["poll"] = "off"
  BY Tasks DEF Init
<1> QED
  BY <1>1, <1>2 DEF LoginInv, NotNewer, PollOfThisInit, Round, SavePlace, Worker

LEMMA LoginReboots ==
  ASSUME TypeOK, NotNewer, Reboot, server' = server, nvs'.creds.login <= server.n
  PROVE  LoginInv'
<1>1. since' = 0 /\ \A t \in Worker : cr'[t] = NoCreds
  BY DEF Reboot, Reset
<1>2. NotNewer'
  BY <1>1, LoginTypes DEF NotNewer
<1>3. at'["app"] = "off" /\ at'["poll"] = "off"
  BY Tasks DEF Reboot, Reset
<1>4. PollOfThisInit'
  BY <1>1, <1>3, LoginTypes DEF PollOfThisInit, Worker, Round, SavePlace
<1> QED
  BY <1>2, <1>4 DEF LoginInv

(* A step of a task that changes no login.                                 *)
LEMMA LoginQuiet ==
  ASSUME TypeOK, LoginInv, NEW t \in Task, NEW place \in Place[t], Goes(t, place),
         nvs'.creds.login = nvs.creds.login, UNCHANGED <<since, server, abandoned>>,
         \A u \in Worker : cr'[u].login = cr[u].login,
         t = "app" => /\ at["app"] \notin {"ready", "halt"}
                      /\ place \notin {"halt", "load"},
         t = "poll" => /\ at["poll"] # "off" \/ place = "off"
                       /\ \/ at["poll"] \in Round \cup {"back", "check"}
                          \/ place \notin Round \cup {"back", "check"}
  PROVE  LoginInv'
<1>1. NotNewer'
  BY DEF LoginInv, NotNewer
<1>2. at'[t] = place /\ \A u \in Task \ {t} : at'[u] = at[u]
  BY Going DEF TypeOK
<1>3. CASE ~ abandoned
  <2>1. PollOfThisInit
    BY <1>3 DEF LoginInv
  <2>2. cr'["app"].login = cr["app"].login /\ cr'["poll"].login = cr["poll"].login
    BY DEF Worker
  <2>3. at'["poll"] # "off" => at'["app"] \in {"ready", "halt"}
    BY <1>2, <2>1, Tasks DEF PollOfThisInit
  <2>4. at'["app"] \in {"halt", "load"} => at["app"] \in {"halt", "load"}
    BY <1>2, Tasks
  <2>5. at'["poll"] \in Round \cup {"back", "check"} => at["poll"] \in Round \cup {"back", "check"}
    BY <1>2, Tasks
  <2>6. PollOfThisInit'
    BY <2>1, <2>2, <2>3, <2>4, <2>5 DEF PollOfThisInit
  <2> QED
    BY <1>1, <2>6 DEF LoginInv
<1> QED
  BY <1>1, <1>3 DEF LoginInv

(* The poll frees its copy as a round ends, iotmer_init keeps its own.     *)
LEMMA LoginFreed ==
  ASSUME TypeOK, LoginInv, NEW t \in Worker, NEW place \in Place[t], Goes(t, place), Frees(t),
         UNCHANGED <<nvs, since, server, abandoned>>,
         t = "app" => at["app"] \notin {"ready", "halt"} /\ place \notin {"halt", "load"},
         t = "poll" => at["poll"] # "off" /\ place \notin Round \cup {"back", "check"}
  PROVE  LoginInv'
<1>1. CASE t = "app"
  BY <1>1, LoginQuiet, Tasks DEF Frees
<1>2. CASE t = "poll"
  <2>1. cr'["app"] = cr["app"] /\ cr'["poll"] = NoCreds
    BY <1>2 DEF Frees, TypeOK, Worker
  <2>2. NotNewer'
    BY <2>1, LoginTypes DEF LoginInv, NotNewer, Worker
  <2>3. at'["poll"] = place /\ at'["app"] = at["app"]
    BY <1>2, Going, Tasks DEF TypeOK
  <2>4. PollOfThisInit => PollOfThisInit'
    BY <1>2, <2>1, <2>3 DEF PollOfThisInit
  <2> QED
    BY <2>2, <2>4 DEF LoginInv
<1> QED
  BY <1>1, <1>2 DEF Worker

LEMMA LoginProvision ==
  ASSUME TypeOK, LoginInv, NEW t \in Worker, Provision(t)
  PROVE  LoginInv'
<1> USE Tasks DEF Worker, Round, SavePlace
<1>1. CASE ProvisionFails(t)
  BY <1>1, LoginFreed DEF ProvisionFails, flash, past
<1>2. CASE Skips(t) \/ Answered(t)
  <2>1. at[t] = "provision" /\ at'[t] = "fw" /\ \A u \in Task \ {t} : at'[u] = at[u]
    BY <1>2, Going DEF Skips, Answered, TypeOK
  <2>2. UNCHANGED <<nvs, server, abandoned>> /\ since' = IF t = "app" THEN cr'[t].login ELSE since
    BY <1>2 DEF Skips, Answered, Established, flash, TypeOK, Creds
  <2>3. /\ \A u \in Worker \ {t} : cr'[u] = cr[u]
        /\ cr'[t].login = cr[t].login \/ cr'[t].login = server.n
    BY <1>2 DEF Skips, Answered, TypeOK, Creds
  <2>4. NotNewer'
    BY <2>2, <2>3, LoginTypes DEF LoginInv, NotNewer
  <2>5. PollOfThisInit => PollOfThisInit'
    <3>1. CASE t = "app"
      BY <2>1, <2>2, <2>3, <3>1, LoginTypes DEF PollOfThisInit
    <3>2. CASE t = "poll"
      BY <2>1, <2>2, <2>3, <3>2, LoginTypes DEF PollOfThisInit, LoginInv, NotNewer
    <3> QED
      BY <3>1, <3>2
  <2> QED
    BY <2>2, <2>4, <2>5 DEF LoginInv
<1> QED
  BY <1>1, <1>2 DEF Provision

LEMMA LoginSave ==
  ASSUME TypeOK, LoginInv, NEW t \in Worker, Save(t)
  PROVE  LoginInv'
<1> USE Tasks DEF Worker, Round, SavePlace
<1>1. CASE SaveFirmware(t) \/ SaveApplied(t) \/ SaveRoute(t)
  <2>1. nvs'.creds.login = nvs.creds.login
    BY <1>1 DEF SaveFirmware, SaveApplied, SaveRoute, TypeOK, Creds, flash
  <2> QED
    BY <1>1, <2>1, LoginQuiet DEF SaveFirmware, SaveApplied, SaveRoute, TakesList, past
<1>2. CASE SaveLogin(t)
  <2>1. nvs'.creds.login = cr[t].login
    BY <1>2 DEF SaveLogin, TypeOK, Creds
  <2>2. NotNewer'
    BY <1>2, <2>1 DEF SaveLogin, LoginInv, NotNewer, past
  <2>3. at[t] = "login" /\ at'[t] = "route" /\ \A u \in Task \ {t} : at'[u] = at[u]
    BY <1>2, Going DEF SaveLogin, TypeOK
  <2>4. PollOfThisInit => PollOfThisInit'
    BY <1>2, <2>3 DEF SaveLogin, PollOfThisInit, past
  <2> QED
    BY <1>2, <2>2, <2>4 DEF SaveLogin, LoginInv, past
<1>3. CASE SaveEnds(t) \/ SaveFails(t)
  <2>1. nvs'.creds.login = nvs.creds.login /\ server' = server /\ at[t] \in SavePlace
    BY <1>3 DEF SaveEnds, SaveFails, TypeOK
  <2>2. CASE goal[t] = "updated"
    <3>1. nvs'.creds.login <= server.n
      BY <2>1 DEF LoginInv, NotNewer
    <3> QED
      BY <1>3, <2>1, <2>2, <3>1, LoginReboots DEF SaveEnds, SaveFails, AfterSave, LoginInv
  <2>3. CASE goal[t] # "updated"
    <3>1. Goes(t, IF t = "app" THEN "ota" ELSE "back") /\ UNCHANGED <<since, abandoned, cr>>
      BY <1>3, <2>3 DEF SaveEnds, SaveFails, AfterSave
    <3> QED
      BY <2>1, <3>1, LoginQuiet
  <2> QED
    BY <2>2, <2>3
<1> QED
  BY <1>1, <1>2, <1>3 DEF Save

LEMMA LoginOta ==
  ASSUME TypeOK, LoginInv, NEW t \in Worker, Ota(t)
  PROVE  LoginInv'
<1> USE Tasks DEF Worker, Round, SavePlace
<1>1. CASE UpdateSkipped(t) \/ UpdateFails(t)
  BY <1>1, LoginFreed DEF UpdateSkipped, UpdateFails, AfterUpdate, flash, past
<1>2. CASE UpdateBegins(t)
  BY <1>2, LoginQuiet DEF UpdateBegins, flash, past
<1>3. CASE UpdateDone(t)
  <2>1. \A u \in Worker : cr'[u].login = cr[u].login
    BY <1>3 DEF UpdateDone, TypeOK, Creds
  <2> QED
    BY <1>3, <2>1, LoginQuiet DEF UpdateDone, past
<1> QED
  BY <1>1, <1>2, <1>3 DEF Ota

LEMMA LoginInitSteps ==
  ASSUME TypeOK, LoginInv, InitBegins \/ Halts \/ Load \/ PollStarts \/ PollRefused \/ NoPoll
  PROVE  LoginInv'
<1> USE Tasks DEF Worker, Round, SavePlace
<1>1. CASE InitBegins
  <2>1. at'["app"] = "halt" /\ at'["poll"] = at["poll"] /\ at["app"] \in {"off", "ready"}
    BY <1>1 DEF InitBegins, TypeOK
  <2>2. NotNewer'
    BY <1>1, LoginTypes DEF InitBegins, LoginInv, NotNewer, flash
  <2>3. PollOfThisInit => PollOfThisInit'
    BY <1>1, <2>1, LoginTypes DEF InitBegins, PollOfThisInit
  <2> QED
    BY <1>1, <2>2, <2>3 DEF InitBegins, LoginInv
<1>2. CASE Halts
  <2>1. at["app"] = "halt" /\ at'["app"] = "load" /\ at'["poll"] = at["poll"]
    BY <1>2, Going DEF Halts, TypeOK
  <2>2. cr'["app"] = NoCreds /\ cr'["poll"] = cr["poll"]
    BY <1>2 DEF Halts, TypeOK
  <2>3. NotNewer'
    BY <1>2, <2>2, LoginTypes DEF Halts, LoginInv, NotNewer, flash
  <2>4. abandoned' <=> abandoned \/ at["poll"] # "off"
    BY <1>2 DEF Halts
  <2>5. PollOfThisInit /\ at["poll"] = "off" => PollOfThisInit'
    BY <1>2, <2>1, <2>2, LoginTypes DEF Halts, PollOfThisInit
  <2> QED
    BY <2>3, <2>4, <2>5 DEF LoginInv
<1>3. CASE Load
  <2>1. at["app"] = "load" /\ at'["app"] = "provision" /\ at'["poll"] = at["poll"]
    BY <1>3, Going DEF Load, TypeOK
  <2>2. cr'["app"] \in {NoCreds, nvs.creds} /\ cr'["poll"] = cr["poll"]
    BY <1>3 DEF Load, TypeOK
  <2>3. NotNewer'
    BY <1>3, <2>2, LoginTypes DEF Load, LoginInv, NotNewer, flash
  <2>4. PollOfThisInit => PollOfThisInit'
    BY <1>3, <2>1, <2>2, LoginTypes DEF Load, PollOfThisInit
  <2> QED
    BY <1>3, <2>3, <2>4 DEF Load, LoginInv
<1>4. CASE PollStarts
  <2>1. /\ at["app"] = "start" /\ at["poll"] = "off"
        /\ at'["app"] = "ready" /\ at'["poll"] = "sleep"
    BY <1>4 DEF PollStarts, TypeOK
  <2>2. NotNewer'
    BY <1>4 DEF PollStarts, LoginInv, NotNewer, flash, past
  <2>3. PollOfThisInit => PollOfThisInit'
    BY <1>4, <2>1 DEF PollStarts, PollOfThisInit, past
  <2> QED
    BY <1>4, <2>2, <2>3 DEF PollStarts, LoginInv, past
<1>5. CASE PollRefused \/ NoPoll
  BY <1>5, LoginQuiet DEF PollRefused, NoPoll, flash, past
<1> QED
  BY <1>1, <1>2, <1>3, <1>4, <1>5

LEMMA LoginPoll ==
  ASSUME TypeOK, LoginInv, Poll
  PROVE  LoginInv'
<1> USE Tasks DEF Worker, Round, SavePlace
<1>1. CASE PollEnds
  BY <1>1, LoginFreed DEF PollEnds, flash, past
<1>2. CASE PollSleeps \/ PollWakes \/ NoHeap \/ PollUpdates
  BY <1>2, LoginQuiet DEF PollSleeps, PollWakes, NoHeap, PollUpdates, flash, past
<1>3. CASE PollCopies
  <2>1. cr'["app"] = cr["app"] /\ cr'["poll"] = cr["app"]
    BY <1>3 DEF PollCopies, TypeOK
  <2>2. at["poll"] = "copy" /\ at'["poll"] # "off" /\ at'["app"] = at["app"]
    BY <1>3, Going DEF PollCopies, TypeOK
  <2>3. NotNewer'
    BY <1>3, <2>1 DEF PollCopies, LoginInv, NotNewer, flash, past
  <2>4. PollOfThisInit => PollOfThisInit'
    BY <1>3, <2>1, <2>2 DEF PollCopies, PollOfThisInit, past
  <2> QED
    BY <1>3, <2>3, <2>4 DEF PollCopies, LoginInv, past
<1>4. CASE PollCopiesBack
  <2>1. cr'["app"] = cr["poll"] /\ cr'["poll"] = cr["poll"]
    BY <1>4 DEF PollCopiesBack, TypeOK
  <2>2. at["poll"] = "back" /\ at'["poll"] = "check" /\ at'["app"] = at["app"]
    BY <1>4, Going DEF PollCopiesBack, TypeOK
  <2>3. NotNewer'
    BY <1>4, <2>1 DEF PollCopiesBack, LoginInv, NotNewer, flash, past
  <2>4. PollOfThisInit => PollOfThisInit'
    BY <1>4, <2>1, <2>2 DEF PollCopiesBack, PollOfThisInit, past
  <2> QED
    BY <1>4, <2>3, <2>4 DEF PollCopiesBack, LoginInv, past
<1> QED
  BY <1>1, <1>2, <1>3, <1>4 DEF Poll

LEMMA LoginFailover ==
  ASSUME TypeOK, LoginInv, Failover
  PROVE  LoginInv'
<1> USE Tasks
<1>1. CASE FoAnswered
  BY <1>1 DEF FoAnswered, LoginInv, NotNewer, PollOfThisInit, flash, past
<1>2. CASE FoStarts \/ FoTakesList
  BY <1>2, LoginQuiet DEF FoStarts, FoTakesList, TakesList, flash, past
<1>3. CASE FoWrites \/ FoWriteFails
  <2>1. nvs'.creds.login = nvs.creds.login
    BY <1>3 DEF FoWrites, FoWriteFails, TypeOK
  <2> QED
    BY <1>3, <2>1, LoginQuiet DEF FoWrites, FoWriteFails, past
<1> QED
  BY <1>1, <1>2, <1>3 DEF Failover

LEMMA LoginStep == TypeOK /\ LoginInv /\ [Next]_vars => LoginInv'
<1> SUFFICES ASSUME TypeOK, LoginInv, [Next]_vars PROVE LoginInv'
  OBVIOUS
<1>1. CASE ServerChanges
  <2>1. server'.n = server.n + 1
    BY <1>1 DEF ServerChanges
  <2>2. NotNewer'
    BY <1>1, <2>1, LoginTypes DEF ServerChanges, LoginInv, NotNewer, flash, past
  <2> QED
    BY <1>1, <2>2 DEF ServerChanges, LoginInv, PollOfThisInit, past
<1>2. CASE PowerFails
  BY <1>2, LoginReboots DEF PowerFails, LoginInv, NotNewer
<1>3. CASE UNCHANGED vars
  BY <1>3 DEF vars, flash, past, LoginInv, NotNewer, PollOfThisInit
<1> QED
  BY <1>1, <1>2, <1>3, LoginInitSteps, LoginProvision, LoginSave, LoginOta, LoginPoll,
     LoginFailover DEF Next

(* A client that is up holds no login older than the one its               *)
(* initialisation ended with, unless an earlier poll was given up on.      *)
THEOREM LoginKept == Spec => []NoOldLogin
<1>1. LoginInv => NoOldLogin
  BY DEF LoginInv, PollOfThisInit, NoOldLogin
<1> QED
  BY <1>1, LoginInit, LoginStep, TypeInit, TypeStep, PTL DEF Spec

-----------------------------------------------------------------------------
\* The poll

LEMMA PollInit == Init => PollInv
BY Tasks DEF Init, PollInv

(* A step that leaves the client where it is, and the poll alive and not   *)
(* told to stop.                                                           *)
LEMMA PollQuiet ==
  ASSUME TypeOK, PollInv, at'["app"] = at["app"] \/ at'["app"] # "ready",
         UNCHANGED <<abandoned, unpolled>>,
         at["poll"] = "off" <=> at'["poll"] = "off",
         at["app"] = "ready" =>
           /\ stop' = stop
           /\ at["poll"] = "off" =>
                retry' = retry /\ build' = build /\ cr'["app"] = cr["app"]
  PROVE  PollInv'
BY DEF PollInv, NeedsPoll, Auth

LEMMA PollStep == TypeOK /\ LoginInv /\ PollInv /\ [Next]_vars => PollInv'
<1> SUFFICES ASSUME TypeOK, LoginInv, PollInv, [Next]_vars PROVE PollInv'
  OBVIOUS
<1> USE Tasks DEF Worker, Round, SavePlace
<1>1. CASE InitBegins \/ Halts \/ Load
  <2>1. at'["app"] # "ready"
    BY <1>1, Going DEF InitBegins, Halts, Load, TypeOK
  <2> QED
    BY <2>1 DEF PollInv
<1>2. ASSUME NEW t \in Worker, Provision(t)
      PROVE  PollInv'
  <2>1. at[t] = "provision" /\ \A u \in Task \ {t} : at'[u] = at[u]
    BY <1>2, Going DEF Provision, Skips, ProvisionFails, Answered, TypeOK
  <2>2. at'[t] = "fw" \/ at'[t] = IF t = "app" THEN "off" ELSE "sleep"
    BY <1>2, Going DEF Provision, Skips, ProvisionFails, Answered, TypeOK
  <2>3. UNCHANGED <<build, retry, stop, abandoned, unpolled>>
    BY <1>2 DEF Provision, Skips, ProvisionFails, Answered, Established, flash, poller, past
  <2> QED
    BY <2>1, <2>2, <2>3, PollQuiet
<1>3. ASSUME NEW t \in Worker, Save(t)
      PROVE  PollInv'
  <2>1. CASE Reboot
    BY <2>1 DEF Reboot, Reset, PollInv
  <2>2. CASE ~ Reboot
    <3>1. at[t] \in SavePlace /\ \A u \in Task \ {t} : at'[u] = at[u]
      BY <1>3, <2>2, Going DEF Save, SaveFirmware, SaveApplied, SaveLogin, SaveRoute, SaveEnds,
         SaveFails, AfterSave, TypeOK
    <3>2. at'[t] \in SavePlace \cup {"ota", "back"}
      BY <1>3, <2>2, Going DEF Save, SaveFirmware, SaveApplied, SaveLogin, SaveRoute, SaveEnds,
         SaveFails, AfterSave, TypeOK
    <3>3. UNCHANGED <<build, retry, stop, abandoned, unpolled, cr>>
      BY <1>3, <2>2 DEF Save, SaveFirmware, SaveApplied, SaveLogin, SaveRoute, SaveEnds,
         SaveFails, AfterSave, TakesList, flash, poller, past
    <3> QED
      BY <3>1, <3>2, <3>3, PollQuiet
  <2> QED
    BY <2>1, <2>2
<1>4. ASSUME NEW t \in Worker, Ota(t)
      PROVE  PollInv'
  <2>1. at[t] \in {"ota", "download"} /\ \A u \in Task \ {t} : at'[u] = at[u]
    BY <1>4, Going DEF Ota, UpdateSkipped, UpdateBegins, UpdateFails, UpdateDone, AfterUpdate, TypeOK
  <2>2. at'[t] \in {"download", "fw", AfterUpdate(t)}
    BY <1>4, Going DEF Ota, UpdateSkipped, UpdateBegins, UpdateFails, UpdateDone, AfterUpdate, TypeOK
  <2>3. UNCHANGED <<stop, abandoned, unpolled>>
    BY <1>4 DEF Ota, UpdateSkipped, UpdateBegins, UpdateFails, UpdateDone, poller, past
  <2> QED
    BY <2>1, <2>2, <2>3, PollQuiet DEF AfterUpdate
<1>5. CASE PollStarts
  BY <1>5 DEF PollStarts, PollInv, TypeOK
<1>6. CASE PollRefused
  BY <1>6 DEF PollRefused, PollInv
<1>7. CASE NoPoll
  <2>1. at["app"] = "start" /\ at'["poll"] = at["poll"] /\ ~ NeedsPoll(cr["app"])'
    BY <1>7, Going DEF NoPoll, TypeOK, NeedsPoll, Auth, flash, poller
  <2>2. ~ abandoned => at["poll"] = "off"
    BY <2>1 DEF LoginInv, PollOfThisInit
  <2> QED
    BY <1>7, <2>1, <2>2 DEF NoPoll, PollInv, past
<1>8. CASE PollEnds
  <2>1. CASE stop
    <3>1. UNCHANGED <<abandoned, unpolled>> /\ at'["app"] = at["app"] /\ at["poll"] # "off"
      BY <1>8, Going DEF PollEnds, past, TypeOK
    <3> QED
      BY <2>1, <3>1 DEF PollInv
  <2>2. CASE ~ NeedsPoll(cr["app"])
    <3>1. cr'["app"] = cr["app"]
      BY <1>8 DEF PollEnds, Frees, TypeOK
    <3>2. ~ NeedsPoll(cr["app"])' /\ at'["poll"] = "off"
      BY <1>8, <2>2, <3>1, Going DEF PollEnds, TypeOK, NeedsPoll, Auth, flash, poller
    <3> QED
      BY <3>2 DEF PollInv
  <2> QED
    BY <1>8, <2>1, <2>2 DEF PollEnds
<1>9. CASE Poll /\ ~ PollEnds
  <2>1. at["poll"] # "off" /\ at'["poll"] # "off" /\ at'["app"] = at["app"]
    BY <1>9, Going DEF Poll, PollSleeps, PollWakes, PollCopies, NoHeap, PollCopiesBack,
       PollUpdates, TypeOK
  <2>2. UNCHANGED <<stop, abandoned, unpolled>>
    BY <1>9 DEF Poll, PollSleeps, PollWakes, PollCopies, NoHeap, PollCopiesBack,
       PollUpdates, poller, past
  <2> QED
    BY <2>1, <2>2, PollQuiet
<1>10. CASE Failover
  <2>1. at'["poll"] = at["poll"] /\ at'["app"] = at["app"]
    BY <1>10, Going DEF Failover, FoStarts, FoAnswered, FoTakesList, FoWrites, FoWriteFails, TypeOK
  <2>2. UNCHANGED <<build, cr, retry, stop, abandoned, unpolled>>
    BY <1>10 DEF Failover, FoStarts, FoAnswered, FoTakesList, FoWrites, FoWriteFails, TakesList,
       flash, poller, past
  <2> QED
    BY <2>1, <2>2, PollQuiet
<1>11. CASE ServerChanges \/ UNCHANGED vars
  <2>1. UNCHANGED <<at, build, cr, retry, stop, abandoned, unpolled>>
    BY <1>11 DEF ServerChanges, vars, flash, poller, past
  <2> QED
    BY <2>1, PollQuiet
<1>12. CASE PowerFails
  BY <1>12 DEF PowerFails, Reboot, Reset, PollInv
<1> QED
  BY <1>1, <1>2, <1>3, <1>4, <1>5, <1>6, <1>7, <1>8, <1>9, <1>10, <1>11, <1>12 DEF Next

(* While an image is rejected or metadata missing, a poll runs that nobody *)
(* told to stop, but for one that could not be started or was given up on. *)
THEOREM PollPersists == Spec => []PollsWhileNeeded
<1>1. PollInv => PollsWhileNeeded
  BY DEF PollInv, PollsWhileNeeded
<1> QED
  BY <1>1, PollInit, PollStep, LoginInit, LoginStep, TypeInit, TypeStep, PTL DEF Spec
=============================================================================
