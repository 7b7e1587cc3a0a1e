--------------------------- MODULE FirmwareUpdate ---------------------------
(***************************************************************************)
(* From boot to boot: iotmer_init loads the credentials (iotmer_nvs.c),    *)
(* provisions (iotmer_provision.c), saves, updates the firmware            *)
(* (iotmer_ota_apply_if_needed) and starts the firmware poll, a task that  *)
(* does the same from a copy of the credentials; the failover task         *)
(* refreshes the broker list and saves it into the same namespace.  Power  *)
(* may fail at any step, and a save at any key.                            *)
(*                                                                         *)
(* Of the credentials the model keeps the generation of the broker login,  *)
(* the firmware the server assigned (its URL and checksum, one name) and   *)
(* the one applied last. FirmwareDownload is the download itself; here it  *)
(* succeeds or fails. Numbers are those of the server's changes; an answer *)
(* is taken over the moment the server gives it.                           *)
(***************************************************************************)
EXTENDS Integers, FiniteSets

CONSTANTS
  Build,        \* firmware images
  Factory,      \* the one flashed first, which the server never assigns
  AuthBuilds,   \* those built with CONFIG_IOTMER_PROVISION_AUTH_CODE
  None,
  MaxChanges    \* bound on what the server changes

ASSUME BuildAssumption ==
  Factory \in Build /\ AuthBuilds \subseteq Build /\ None \notin Build /\ MaxChanges \in Nat

Worker == {"app", "poll"}
Number == 0 .. MaxChanges + 1
Firmware == Build \cup {None}
Assigned == Firmware \ {Factory}
Creds == [login : Number, fw : Firmware, applied : Firmware]
NoCreds == [login |-> 0, fw |-> None, applied |-> None]

VARIABLES
  build, slot,   \* the image that runs, and the one the next boot takes
  nvs,           \* the namespace: a record of creds, and route
  cr,            \* cr["app"] is client->creds, cr["poll"] the poll's work copy
  dir,           \* s_dir: the broker list
  persist,       \* s_persist
  https,         \* provision_https
  goal,          \* why a task saves: "provisioned" or "updated"
  snap,          \* the list a task is about to write
  retry,         \* s_fw_poll_mismatch_retry
  round,         \* mismatch_round, modulo 5
  stop,          \* s_fw_poll_stop_req
  at,            \* the place of each task; s_fw_poll_task is NULL while the poll is "off"
  server         \* what the server would by number

\* History: a save failed after it took the list; two tasks used the stored list at a time; the
\* poll of an earlier initialisation was given up on; a poll could not be started; and the
\* login the last initialisation ended with.
VARIABLES lost, crossed, abandoned, unpolled, since

flash == <<build, slot, nvs>>
route == <<dir, persist, snap>>
poller == <<retry, round, stop>>
past == <<lost, crossed, abandoned, unpolled, since>>
vars == <<flash, route, cr, https, goal, poller, at, server, past>>

SavePlace == {"fw", "applied", "login", "route", "blob"}
Round == SavePlace \cup {"provision", "ota", "download"}
Place ==
  [app |-> Round \cup {"off", "halt", "load", "start", "ready"},
   poll |-> Round \cup {"off", "sleep", "copy", "back", "check", "next"},
   fo |-> {"off", "idle", "blob"}]
Task == DOMAIN Place

TypeOK ==
  /\ build \in Build /\ slot \in Build
  /\ nvs \in [creds : Creds, route : Number]
  /\ cr \in [Worker -> Creds]
  /\ dir \in Number /\ persist \in BOOLEAN
  /\ https \in [Worker -> BOOLEAN] /\ goal \in [Worker -> {"provisioned", "updated"}]
  /\ snap \in [Task -> Number]
  /\ retry \in BOOLEAN /\ round \in 0 .. 4 /\ stop \in BOOLEAN
  /\ DOMAIN at = Task /\ \A t \in Task : at[t] \in Place[t]
  /\ server \in [n : Number \ {0}, fw : Assigned]
  /\ lost \in BOOLEAN /\ crossed \in BOOLEAN /\ abandoned \in BOOLEAN /\ unpolled \in BOOLEAN
  /\ since \in Number

\* RAM after a reset.
Reset ==
  /\ cr' = [t \in Worker |-> NoCreds]
  /\ dir' = 0 /\ persist' = FALSE
  /\ https' = [t \in Worker |-> FALSE] /\ goal' = [t \in Worker |-> "provisioned"]
  /\ snap' = [t \in Task |-> 0]
  /\ retry' = FALSE /\ round' = 0 /\ stop' = FALSE
  /\ at' = [t \in Task |-> "off"]
  /\ lost' = FALSE /\ crossed' = FALSE /\ abandoned' = FALSE /\ unpolled' = FALSE /\ since' = 0

Init ==
  /\ build = Factory /\ slot = Factory
  /\ nvs = [creds |-> NoCreds, route |-> 0]
  /\ cr = [t \in Worker |-> NoCreds]
  /\ dir = 0 /\ persist = FALSE
  /\ server \in [n : {1}, fw : Assigned]
  /\ https = [t \in Worker |-> FALSE] /\ goal = [t \in Worker |-> "provisioned"]
  /\ snap = [t \in Task |-> 0]
  /\ retry = FALSE /\ round = 0 /\ stop = FALSE
  /\ at = [t \in Task |-> "off"]
  /\ lost = FALSE /\ crossed = FALSE /\ abandoned = FALSE /\ unpolled = FALSE /\ since = 0

-----------------------------------------------------------------------------
\* Helpers

Goes(t, place) == at' = [at EXCEPT ![t] = place]
Auth == build \in AuthBuilds

\* creds_need_firmware_poll: a rejected image is tried again; missing metadata is asked for
\* if the build can ask.
NeedsPoll(c) == c.login # 0 /\ (retry \/ (c.fw = None /\ Auth))

\* The poll frees its copy.
Frees(t) == cr' = IF t = "poll" THEN [cr EXCEPT ![t] = NoCreds] ELSE cr

\* A task that waits for the server may take longer than firmware_poll_stop waits.
Busy == at["poll"] \in {"provision", "download"}

-----------------------------------------------------------------------------
\* iotmer_init, up to the load

InitBegins ==
  /\ at["app"] \in {"off", "ready"} /\ at["fo"] \in {"off", "idle"}
  /\ stop' = (stop \/ at["poll"] # "off")
  /\ at' = [at EXCEPT !["app"] = "halt", !["fo"] = "off"]
  /\ since' = 0
  /\ UNCHANGED <<flash, route, cr, https, goal, retry, round, server, lost, crossed, abandoned,
                 unpolled>>

\* Mutant: the poll is told to stop, and not waited for.
Hurries ==
  /\ at["app"] = "halt"
  /\ retry' = FALSE
  /\ cr' = [cr EXCEPT !["app"] = NoCreds]
  /\ Goes("app", "load")
  /\ UNCHANGED <<flash, route, https, goal, round, stop, server, past>>

\* firmware_poll_stop returns when the poll is gone, or after five seconds; then the client
\* is cleared.
Halts ==
  /\ at["app"] = "halt"
  /\ at["poll"] = "off" \/ Busy
  /\ abandoned' = (abandoned \/ at["poll"] # "off")
  /\ retry' = FALSE
  /\ cr' = [cr EXCEPT !["app"] = NoCreds]
  /\ Goes("app", "load")
  /\ UNCHANGED <<flash, route, https, goal, round, stop, server, lost, crossed,
                 unpolled, since>>

\* iotmer_nvs_load_creds: without a complete login nothing is kept but the broker list.
Load ==
  /\ at["app"] = "load"
  /\ cr' = [cr EXCEPT !["app"] = IF nvs.creds.login = 0 THEN NoCreds ELSE nvs.creds]
  /\ dir' = nvs.route
  /\ lost' = FALSE /\ crossed' = (at["poll"] = "blob")
  /\ Goes("app", "provision")
  /\ UNCHANGED <<flash, persist, snap, https, goal, poller, server, abandoned, unpolled,
                 since>>

-----------------------------------------------------------------------------
\* iotmer_provision, by iotmer_init or a round of the poll

Established(t, login) ==
  /\ since' = IF t = "app" THEN login ELSE since
  /\ UNCHANGED <<lost, crossed, abandoned, unpolled>>

\* Without an authentication code a stored session is used as it is.
Skips(t) ==
  /\ at[t] = "provision" /\ ~ Auth /\ cr[t].login # 0
  /\ https' = [https EXCEPT ![t] = FALSE]
  /\ Established(t, cr[t].login)
  /\ Goes(t, "fw")
  /\ UNCHANGED <<flash, route, cr, goal, poller, server>>

\* The credentials are as before; iotmer_init returns, the poll sleeps.
ProvisionFails(t) ==
  /\ at[t] = "provision" /\ (Auth \/ cr[t].login = 0)
  /\ Frees(t)
  /\ Goes(t, IF t = "app" THEN "off" ELSE "sleep")
  /\ UNCHANGED <<flash, route, https, goal, poller, server, past>>

\* The answer replaces all but the applied image; its broker list, if it has one, becomes
\* the list in use, otherwise a stored one is kept.
Answered(t) ==
  /\ at[t] = "provision" /\ Auth
  /\ cr' = [cr EXCEPT ![t].login = server.n, ![t].fw = server.fw]
  /\ \/ dir' = server.n /\ persist' = TRUE
     \/ persist' = (persist \/ dir = 0) /\ UNCHANGED dir
  /\ https' = [https EXCEPT ![t] = TRUE]
  /\ Established(t, server.n)
  /\ Goes(t, "fw")
  /\ UNCHANGED <<flash, snap, goal, poller, server>>

-----------------------------------------------------------------------------
\* iotmer_nvs_save_creds, key by key

SaveFirmware(t) ==
  /\ at[t] = "fw"
  /\ nvs' = [nvs EXCEPT !.creds.fw = cr[t].fw]
  /\ Goes(t, "applied")
  /\ UNCHANGED <<build, slot, route, cr, https, goal, poller, server, past>>

\* The applied image is never erased.
SaveApplied(t) ==
  /\ at[t] = "applied"
  /\ nvs' = [nvs EXCEPT !.creds.applied = IF cr[t].applied = None THEN @ ELSE cr[t].applied]
  /\ Goes(t, "login")
  /\ UNCHANGED <<build, slot, route, cr, https, goal, poller, server, past>>

SaveLogin(t) ==
  /\ at[t] = "login"
  /\ nvs' = [nvs EXCEPT !.creds.login = cr[t].login]
  /\ Goes(t, "route")
  /\ UNCHANGED <<build, slot, route, cr, https, goal, poller, server, past>>

\* iotmer_mqtt_directory_nvs_write takes a copy of the list under the lock ...
TakesList(t) ==
  /\ snap' = [snap EXCEPT ![t] = dir]
  /\ persist' = FALSE
  /\ lost' = FALSE /\ crossed' = (\E u \in Task \ {t} : at[u] = "blob")
  /\ UNCHANGED <<dir, abandoned, unpolled, since>>

SaveRoute(t) ==
  /\ at[t] = "route"
  /\ TakesList(t)
  /\ Goes(t, "blob")
  /\ UNCHANGED <<flash, cr, https, goal, poller, server>>

\* RAM after a reset.
Reboot ==
  /\ build' = slot
  /\ Reset

\* What follows a save, whether it worked or not: the update of iotmer_init or of the poll,
\* which first copies its credentials back; or, after an update, the restart.
AfterSave(t) ==
  IF goal[t] = "updated" THEN Reboot
  ELSE /\ Goes(t, IF t = "app" THEN "ota" ELSE "back")
       /\ snap' = [snap EXCEPT ![t] = 0]
       /\ UNCHANGED <<build, dir, persist, cr, https, goal, poller, crossed, abandoned,
                      unpolled, since>>

\* ... and writes it.
SaveEnds(t) ==
  /\ at[t] = "blob"
  /\ nvs' = [nvs EXCEPT !.route = snap[t]]
  /\ AfterSave(t)
  /\ IF goal[t] = "updated" THEN TRUE ELSE UNCHANGED lost
  /\ UNCHANGED <<slot, server>>

\* A key cannot be written, or the commit fails: the keys after it stay as they are.
SaveFails(t) ==
  /\ at[t] \in SavePlace
  /\ AfterSave(t)
  /\ IF goal[t] = "updated" THEN TRUE ELSE lost' = (lost \/ at[t] = "blob")
  /\ UNCHANGED <<slot, nvs, server>>

-----------------------------------------------------------------------------
\* iotmer_ota_apply_if_needed and fw_poll_note_ota_result

AfterUpdate(t) == IF t = "app" THEN "start" ELSE "next"

UpToDate(t) == cr[t].fw = None \/ (~ https[t] /\ cr[t].fw = cr[t].applied)

UpdateSkipped(t) ==
  /\ at[t] = "ota" /\ UpToDate(t)
  /\ retry' = FALSE
  /\ https' = [https EXCEPT ![t] = FALSE]
  /\ Frees(t)
  /\ Goes(t, AfterUpdate(t))
  /\ UNCHANGED <<flash, route, goal, round, stop, server, past>>

UpdateBegins(t) ==
  /\ at[t] = "ota" /\ ~ UpToDate(t)
  /\ https' = [https EXCEPT ![t] = FALSE]
  /\ Goes(t, "download")
  /\ UNCHANGED <<flash, route, cr, goal, poller, server, past>>

UpdateFails(t) ==
  /\ at[t] = "download"
  /\ retry' = TRUE
  /\ Frees(t)
  /\ Goes(t, AfterUpdate(t))
  /\ UNCHANGED <<flash, route, https, goal, round, stop, server, past>>

UpdateDone(t) ==
  /\ at[t] = "download"
  /\ cr[t].fw # None /\ slot' = cr[t].fw
  /\ cr' = [cr EXCEPT ![t].applied = cr[t].fw]
  /\ goal' = [goal EXCEPT ![t] = "updated"]
  /\ Goes(t, "fw")
  /\ UNCHANGED <<build, nvs, route, https, poller, server, past>>

-----------------------------------------------------------------------------
\* firmware_poll_start, which never runs two polls, and the end of iotmer_init

PollStarts ==
  /\ at["app"] = "start" /\ NeedsPoll(cr["app"]) /\ at["poll"] = "off"
  /\ stop' = FALSE /\ round' = 0
  /\ at' = [at EXCEPT !["app"] = "ready", !["poll"] = "sleep"]
  /\ UNCHANGED <<flash, route, cr, https, goal, retry, server, past>>

\* The old poll is still busy, or there is no memory for a task.
PollRefused ==
  /\ at["app"] = "start" /\ NeedsPoll(cr["app"]) /\ (at["poll"] = "off" \/ Busy)
  /\ unpolled' = TRUE
  /\ stop' = (at["poll"] # "off")
  /\ Goes("app", "ready")
  /\ UNCHANGED <<flash, route, cr, https, goal, retry, round, server, lost, crossed, abandoned,
                 since>>

NoPoll ==
  /\ at["app"] = "start" /\ ~ NeedsPoll(cr["app"])
  /\ Goes("app", "ready")
  /\ UNCHANGED <<flash, route, cr, https, goal, poller, server, past>>

-----------------------------------------------------------------------------
\* firmware_poll_task

\* The poll ends when it is told to, or has nothing left to do.
PollEnds ==
  /\ \/ at["poll"] \in {"sleep", "copy", "check", "next"} /\ stop
     \/ at["poll"] \in {"sleep", "next"} /\ ~ NeedsPoll(cr["app"])
  /\ Frees("poll")
  /\ https' = [https EXCEPT !["poll"] = FALSE]
  /\ Goes("poll", "off")
  /\ UNCHANGED <<flash, route, goal, poller, server, past>>

\* Mutant: one update that failed ends the poll.
PollGivesUp ==
  /\ at["poll"] = "next"
  /\ Goes("poll", IF retry THEN "off" ELSE "sleep")
  /\ UNCHANGED <<flash, route, cr, https, goal, poller, server, past>>

PollSleeps ==
  /\ at["poll"] = "next" /\ ~ stop /\ NeedsPoll(cr["app"])
  /\ Goes("poll", "sleep")
  /\ UNCHANGED <<flash, route, cr, https, goal, poller, server, past>>

PollWakes ==
  /\ at["poll"] = "sleep" /\ ~ stop /\ NeedsPoll(cr["app"])
  /\ Goes("poll", "copy")
  /\ UNCHANGED <<flash, route, cr, https, goal, poller, server, past>>

\* Mutant: counted, and never counted around.
RoundUnbounded == round + 1
NextRound == (round + 1) % 5

\* A round works on a copy; while an image is rejected, only every fifth asks the server.
PollCopies ==
  /\ at["poll"] = "copy" /\ ~ stop
  /\ cr' = [cr EXCEPT !["poll"] = cr["app"]]
  /\ LET rejected == retry /\ cr["app"].fw # None
     IN  /\ round' = IF rejected THEN NextRound ELSE 0
         /\ Goes("poll", IF rejected /\ round' # 1 THEN "check" ELSE "provision")
  /\ UNCHANGED <<flash, route, https, goal, retry, stop, server, past>>

NoHeap ==
  /\ at["poll"] = "copy" /\ ~ stop
  /\ Goes("poll", "sleep")
  /\ UNCHANGED <<flash, route, cr, https, goal, poller, server, past>>

\* The copy replaces the client's credentials.
PollCopiesBack ==
  /\ at["poll"] = "back"
  /\ cr' = [cr EXCEPT !["app"] = cr["poll"]]
  /\ Goes("poll", "check")
  /\ UNCHANGED <<flash, route, https, goal, poller, server, past>>

PollUpdates ==
  /\ at["poll"] = "check" /\ ~ stop
  /\ Goes("poll", "ota")
  /\ UNCHANGED <<flash, route, cr, https, goal, poller, server, past>>

-----------------------------------------------------------------------------
\* The failover task of a connected client: refresh_list and persist_snapshot

FoStarts ==
  /\ at["fo"] = "off" /\ at["app"] = "ready"
  /\ Goes("fo", "idle")
  /\ UNCHANGED <<flash, route, cr, https, goal, poller, server, past>>

FoAnswered ==
  /\ at["fo"] = "idle"
  /\ dir' = server.n /\ persist' = TRUE
  /\ UNCHANGED <<flash, snap, cr, https, goal, poller, at, server, past>>

FoTakesList ==
  /\ at["fo"] = "idle" /\ persist
  /\ TakesList("fo")
  /\ Goes("fo", "blob")
  /\ UNCHANGED <<flash, cr, https, goal, poller, server>>

FoWrites ==
  /\ at["fo"] = "blob"
  /\ nvs' = [nvs EXCEPT !.route = snap["fo"]]
  /\ snap' = [snap EXCEPT !["fo"] = 0]
  /\ Goes("fo", "idle")
  /\ UNCHANGED <<build, slot, dir, persist, cr, https, goal, poller, server, past>>

\* Mutant: a list that could not be written counts as saved.
FoForgets ==
  /\ at["fo"] = "blob"
  /\ snap' = [snap EXCEPT !["fo"] = 0]
  /\ Goes("fo", "idle")
  /\ UNCHANGED <<flash, dir, persist, cr, https, goal, poller, server, past>>

\* The write or the commit fails: the list stays marked.
FoWriteFails ==
  /\ at["fo"] = "blob"
  /\ nvs' = [nvs EXCEPT !.route = snap["fo"]] \/ UNCHANGED nvs
  /\ persist' = TRUE
  /\ snap' = [snap EXCEPT !["fo"] = 0]
  /\ Goes("fo", "idle")
  /\ UNCHANGED <<build, slot, dir, cr, https, goal, poller, server, past>>

-----------------------------------------------------------------------------
\* The server rotates the login, edits the broker list or assigns another image.
ServerChanges ==
  /\ server.n <= MaxChanges
  /\ server' \in [n : {server.n + 1}, fw : Assigned]
  /\ UNCHANGED <<flash, route, cr, https, goal, poller, at, past>>

PowerFails ==
  /\ at["app"] # "off"
  /\ Reboot
  /\ UNCHANGED <<slot, nvs, server>>

Provision(t) ==
  \/ Skips(t) \/ ProvisionFails(t) \/ Answered(t)
Save(t) ==
  \/ SaveFirmware(t) \/ SaveApplied(t) \/ SaveLogin(t) \/ SaveRoute(t)
  \/ SaveEnds(t) \/ SaveFails(t)
Ota(t) ==
  \/ UpdateSkipped(t) \/ UpdateBegins(t) \/ UpdateFails(t) \/ UpdateDone(t)
Poll ==
  \/ PollEnds \/ PollSleeps \/ PollWakes \/ PollCopies \/ NoHeap \/ PollCopiesBack
  \/ PollUpdates
Failover ==
  \/ FoStarts \/ FoAnswered \/ FoTakesList \/ FoWrites \/ FoWriteFails

Next ==
  \/ InitBegins \/ Halts \/ Load
  \/ (\E t \in Worker : Provision(t) \/ Save(t) \/ Ota(t))
  \/ PollStarts \/ PollRefused \/ NoPoll
  \/ Poll \/ Failover
  \/ ServerChanges \/ PowerFails

Spec == Init /\ [][Next]_vars

-----------------------------------------------------------------------------
\* Properties

\* A broker list that is not marked as changed is the one in flash, once no task is about
\* to write it: persist_snapshot marks it again when the write fails. Two exceptions: a
\* save of all credentials that fails has cleared the mark for good, and of two tasks that
\* write at a time the one with the older list may be the last.
RoutePersisted ==
  /\ at["app"] \notin {"off", "halt", "load"}
  /\ ~ persist /\ \A t \in Task : at[t] # "blob"
  => nvs.route = dir \/ lost \/ crossed

\* A firmware poll works seconds on its copy before it replaces the client's credentials:
\* none of an earlier iotmer_init puts an older login back, except one that was given up
\* on ("will exit at its next checkpoint"), whose checkpoint comes after the copy.
NoOldLogin ==
  at["app"] = "ready" => cr["app"].login >= since \/ abandoned

\* While metadata is missing or an image was rejected, a poll goes on, so that a fixed image
\* on the server is picked up without a reboot (Kconfig.projbuild:98-102), unless it could
\* not be started or an earlier one was given up on.
PollsWhileNeeded ==
  at["app"] = "ready" /\ NeedsPoll(cr["app"]) => at["poll"] # "off" \/ unpolled \/ abandoned

\* "OTA is skipped if firmware_checksum_sha256 equals the value stored after the last
\* successful OTA" (Kconfig.projbuild:80-81, the default).
SkipsSameImage ==
  \A t \in Worker : at[t] = "download" => cr[t].fw # cr[t].applied
=============================================================================
