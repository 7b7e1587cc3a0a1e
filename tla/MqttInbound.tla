---------------------------- MODULE MqttInbound ----------------------------
(***************************************************************************)
(* The inbound side of an MQTT session (iotmer_client.c): the registry of  *)
(* subscriptions, their re-issue on CONNECTED, the reassembly of messages  *)
(* that arrive in fragments, and the dispatch to callbacks; with teardowns *)
(* of the client by other tasks.                                           *)
(*                                                                         *)
(* Payload is counted in units of one fragment; unit i of message m is     *)
(* <<m, i>>. A message of one unit fits the receive buffer of esp-mqtt.    *)
(***************************************************************************)
EXTENDS Integers, Sequences, TopicFilter

CONSTANTS
  Message, Topic, Size,   \* messages, the topic and the number of units of each
  Filter,                 \* filters the application registers
  Slots,                  \* IOTMER_MAX_SUBSCRIPTIONS
  Limit,                  \* CONFIG_IOTMER_MQTT_RX_ASSEMBLY_MAX in units
  MaxLost,                \* DATA events lost between two first fragments, at most
  NoFilter, NoOp          \* sentinels

ASSUME MessageAssumption ==
  /\ Message # {}
  /\ Topic \in [Message -> Seq(STRING) \ {<<>>}]
  /\ Size \in [Message -> Nat \ {0}]
ASSUME SlotAssumption == Slots \in Nat \ {0} /\ Limit \in Nat /\ MaxLost \in Nat
ASSUME SentinelAssumption ==
  /\ NoFilter \notin Filter
  /\ NoOp \notin [by : {"app", "net"}, kind : {"sub", "issue", "unsub", "clear"},
                  filter : Filter, pos : 1 .. Slots]

Wanted(m) == {f \in Filter : FilterMatches(f, Topic[m])}
Units(m, n) == [i \in 1 .. n |-> <<m, i>>]
Whole(m) == [topic |-> Topic[m], payload |-> Units(m, Size[m])]

VARIABLES
  mqtt,       \* client->mqtt is not NULL
  link,       \* the esp-mqtt client: "none", "down" (no session), "up"
  connected,  \* client->connected
  tear,       \* teardown by another task: "idle", then "stop", "free" (hard) or "tstop", "tfree" (timer)
  slot,       \* filter of each entry of client->subs, NoFilter when not in use
  op,         \* subscribe or unsubscribe under way, NoOp otherwise
  broker,     \* filters the broker knows in this session
  net,        \* MQTT task: "idle", "resub", "copy", "dispatch", "incall"
  at,         \* loop variable of resubscribe_all and dispatch_data
  wire,       \* the message the broker is sending, {} between messages
  offset,     \* units of it that are behind
  lost,       \* DATA events lost since the last first fragment
  allocated,  \* client->rx_assembly is not NULL
  rx,         \* its content
  total, rx_topic, dropping  \* client->rx_assembly_...

sessionVars == <<mqtt, link, connected, tear>>
registryVars == <<slot, op, broker>>
netVars == <<net, at>>
wireVars == <<wire, offset, lost>>
rxVars == <<allocated, rx, total, rx_topic, dropping>>

\* History: the filters served with the current message, those registered since it
\* began, the call under way, why it may legitimately go missing, and filters that a
\* failed subscribe call or an early CONNECTED has left without a subscription.
VARIABLES served, since, handed, spoiled, unissued

historyVars == <<served, since, handed, spoiled, unissued>>
vars == <<sessionVars, registryVars, netVars, wireVars, rxVars, historyVars>>

Slot == 1 .. Slots
Registered == {slot[i] : i \in Slot} \ {NoFilter}
Due == (UNION {Wanted(m) \cap since : m \in wire}) \ served

TypeOK ==
  /\ mqtt \in BOOLEAN /\ connected \in BOOLEAN
  /\ link \in {"none", "down", "up"}
  /\ tear \in {"idle", "stop", "free", "tstop", "tfree"}
  /\ slot \in [Slot -> Filter \cup {NoFilter}]
  /\ op = NoOp \/ op \in [by : {"app", "net"}, kind : {"sub", "issue", "unsub", "clear"},
                          filter : Filter, pos : Slot]
  /\ broker \subseteq Filter
  /\ net \in {"idle", "resub", "copy", "dispatch", "incall"}
  /\ at \in 1 .. Slots + 1
  /\ wire = {} \/ \E m \in Message : wire = {m} /\ offset \in 0 .. Size[m]
  /\ offset \in Nat /\ lost \in 0 .. MaxLost
  /\ allocated \in BOOLEAN /\ dropping \in BOOLEAN
  /\ rx \in Seq(Message \X Nat) /\ Len(rx) <= total
  /\ total \in 0 .. Limit
  /\ rx_topic \in Seq(STRING)
  /\ wire = {} => offset = 0
  /\ handed \subseteq [topic : Seq(STRING), payload : Seq(Message \X Nat)]
  /\ served \subseteq Filter /\ since \subseteq Filter /\ unissued \subseteq Filter
  /\ spoiled \in BOOLEAN

Init ==
  /\ mqtt = FALSE /\ link = "none" /\ connected = FALSE /\ tear = "idle"
  /\ slot = [i \in Slot |-> NoFilter] /\ op = NoOp /\ broker = {}
  /\ net = "idle" /\ at = 1
  /\ wire = {} /\ offset = 0 /\ lost = 0
  /\ allocated = FALSE /\ rx = <<>> /\ total = 0 /\ rx_topic = <<>> /\ dropping = FALSE
  /\ served = {} /\ since = {} /\ spoiled = FALSE /\ unissued = {}
  /\ handed = {}

-----------------------------------------------------------------------------
\* Helpers

RxEmpty ==
  /\ allocated' = FALSE
  /\ rx' = <<>>
  /\ total' = 0
  /\ rx_topic' = <<>>

\* rx_assembly_reset
RxReset == RxEmpty /\ dropping' = FALSE

\* The message is over, whatever became of it.
MessageEnds ==
  /\ wire' = {}
  /\ offset' = 0
  /\ served' = {}
  /\ since' = {}
  /\ spoiled' = FALSE

MessageGoesOn == UNCHANGED <<wire, served, since>>

\* The session is cut; a message in transit never ends.
Cut ==
  /\ MessageEnds
  /\ lost' = 0
  /\ broker' = {}
  /\ unissued' = {}
  /\ UNCHANGED handed

\* While the MQTT task is inside a registry call it does nothing else.
NetCalls == op # NoOp /\ op.by = "net"
NetRuns(pc) == net = pc /\ ~NetCalls

-----------------------------------------------------------------------------
\* Client and session

\* mqtt_client_start: the client runs before its handle is stored.
Start ==
  /\ link = "none" /\ tear = "idle"
  /\ link' = "down"
  /\ UNCHANGED <<mqtt, connected, tear, registryVars, netVars, wireVars, rxVars, historyVars>>

StoreHandle ==
  /\ link # "none" /\ ~mqtt
  /\ mqtt' = TRUE
  /\ UNCHANGED <<link, connected, tear, registryVars, netVars, wireVars, rxVars, historyVars>>

\* MQTT_EVENT_CONNECTED up to the guard of resubscribe_all; without the handle
\* nothing is re-issued.
Connected ==
  /\ link = "down" /\ NetRuns("idle")
  /\ link' = "up"
  /\ connected' = TRUE
  /\ at' = 1
  /\ net' = IF mqtt THEN "resub" ELSE "idle"
  /\ unissued' = IF mqtt THEN {} ELSE Registered
  /\ UNCHANGED <<mqtt, tear, registryVars, wireVars, rxVars, served, since, handed, spoiled>>

\* One entry of resubscribe_all; a refused call (outbox full) is only logged.
Reissue ==
  /\ NetRuns("resub") /\ at <= Slots
  /\ at' = at + 1
  /\ \/ slot[at] = NoFilter /\ UNCHANGED <<broker, unissued>>
     \/ slot[at] # NoFilter /\ broker' = broker \cup {slot[at]} /\ UNCHANGED unissued
     \/ slot[at] # NoFilter /\ unissued' = unissued \cup {slot[at]} /\ UNCHANGED broker
  /\ UNCHANGED <<sessionVars, slot, op, net, wireVars, rxVars, served, since, handed, spoiled>>

\* Mutant: the loop stops one entry early.
ReissueStopsEarly ==
  /\ NetRuns("resub") /\ at >= Slots
  /\ net' = "idle" /\ at' = 1
  /\ UNCHANGED <<sessionVars, registryVars, wireVars, rxVars, historyVars>>

ReissueEnds ==
  /\ NetRuns("resub") /\ at > Slots
  /\ net' = "idle" /\ at' = 1
  /\ UNCHANGED <<sessionVars, registryVars, wireVars, rxVars, historyVars>>

\* MQTT_EVENT_DISCONNECTED of a lost link or a failed attempt.
Disconnected ==
  /\ link # "none" /\ NetRuns("idle")
  /\ link' = "down"
  /\ connected' = FALSE
  /\ RxReset
  /\ Cut
  /\ UNCHANGED <<mqtt, tear, slot, op, netVars>>

\* Mutant: the buffer is freed before the stop has waited for the handler.
TearHardFrees ==
  /\ mqtt /\ tear = "idle"
  /\ tear' = "stop"
  /\ connected' = FALSE
  /\ RxReset
  /\ UNCHANGED <<mqtt, link, registryVars, netVars, wireVars, historyVars>>

\* iotmer_reconnect_hard and iotmer_disconnect clear the flag before the stop, the
\* reconnect timer clears it afterwards.
TearHard ==
  /\ mqtt /\ tear = "idle"
  /\ tear' = "stop"
  /\ connected' = FALSE
  /\ UNCHANGED <<mqtt, link, registryVars, netVars, wireVars, rxVars, historyVars>>

TearTimer ==
  /\ mqtt /\ tear = "idle"
  /\ tear' = "tstop"
  /\ UNCHANGED <<mqtt, link, connected, registryVars, netVars, wireVars, rxVars, historyVars>>

\* esp_mqtt_client_stop returns when the MQTT task has left its handler; it may or may
\* not have delivered DISCONNECTED first. Then the client is destroyed.
StopWaits == net = "idle"

Stopped ==
  /\ tear \in {"stop", "tstop"} /\ StopWaits
  /\ tear' = IF tear = "stop" THEN "free" ELSE "tfree"
  /\ link' = "none" /\ mqtt' = FALSE
  /\ Cut
  /\ \/ connected' = FALSE /\ RxReset
     \/ UNCHANGED <<connected, rxVars>>
  /\ UNCHANGED <<slot, op, netVars>>

Freed ==
  /\ tear \in {"free", "tfree"}
  /\ tear' = "idle"
  /\ connected' = IF tear = "tfree" THEN FALSE ELSE connected
  /\ RxReset
  /\ UNCHANGED <<mqtt, link, registryVars, netVars, wireVars, historyVars>>

-----------------------------------------------------------------------------
\* Registry: called by the application's task, or from a callback in the MQTT task.
\* Two calls never overlap; the code has no lock for them.

Caller == {"app"} \cup (IF net = "incall" THEN {"net"} ELSE {})

Holding(f) == {i \in Slot : slot[i] = f}
First(i, S) == i \in S /\ \A j \in S : i <= j

\* The search of iotmer_subscribe: the entry of the same filter, or the first free one.
CallSubscribe(f) ==
  /\ op = NoOp
  /\ \E t \in Caller, i \in Slot :
       /\ First(i, IF Holding(f) # {} THEN Holding(f) ELSE Holding(NoFilter))
       /\ op' = [by |-> t, kind |-> "sub", filter |-> f, pos |-> i]
  /\ UNCHANGED <<sessionVars, slot, broker, netVars, wireVars, rxVars, historyVars>>

\* It fills the entry, in_use last, ...
Store ==
  /\ op # NoOp /\ op.kind = "sub"
  /\ slot' = [slot EXCEPT ![op.pos] = op.filter]
  /\ op' = [op EXCEPT !.kind = "issue"]
  /\ UNCHANGED <<sessionVars, broker, netVars, wireVars, rxVars, historyVars>>

\* ... and tells the broker unless there is no session, which the next CONNECTED does.
Issue ==
  /\ op # NoOp /\ op.kind = "issue"
  /\ op' = NoOp
  /\ \/ /\ mqtt /\ connected /\ link = "up"
        /\ broker' = broker \cup {op.filter}
        /\ unissued' = unissued \ {op.filter}
     \/ /\ mqtt /\ connected
        /\ unissued' = unissued \cup {op.filter}
        /\ UNCHANGED broker
     \/ /\ ~(mqtt /\ connected)
        /\ unissued' = unissued \cup {f \in {op.filter} : link = "up" /\ ~mqtt}
        /\ UNCHANGED broker
  /\ UNCHANGED <<sessionVars, slot, netVars, wireVars, rxVars, served, since, handed, spoiled>>

CallUnsubscribe(f) ==
  /\ op = NoOp
  /\ \E t \in Caller, i \in Slot :
       /\ First(i, Holding(f))
       /\ op' = [by |-> t, kind |-> "unsub", filter |-> f, pos |-> i]
  /\ UNCHANGED <<sessionVars, slot, broker, netVars, wireVars, rxVars, historyVars>>

Tell ==
  /\ op # NoOp /\ op.kind = "unsub"
  /\ broker' = IF mqtt /\ connected THEN broker \ {op.filter} ELSE broker
  /\ op' = [op EXCEPT !.kind = "clear"]
  /\ UNCHANGED <<sessionVars, slot, netVars, wireVars, rxVars, historyVars>>

Clear ==
  /\ op # NoOp /\ op.kind = "clear"
  /\ slot' = [slot EXCEPT ![op.pos] = NoFilter]
  /\ op' = NoOp
  /\ served' = served \ {op.filter}
  /\ since' = since \ {op.filter}
  /\ UNCHANGED <<sessionVars, broker, netVars, wireVars, rxVars, handed, spoiled, unissued>>

-----------------------------------------------------------------------------
\* MQTT_EVENT_DATA

\* The broker starts to send a message (external).
Begin(m) ==
  /\ link = "up" /\ NetRuns("idle") /\ wire = {}
  /\ wire' = {m}
  /\ offset' = 0
  /\ since' = Registered
  /\ UNCHANGED <<sessionVars, registryVars, netVars, lost, rxVars, served, handed, spoiled, unissued>>

Sending(m) == wire = {m} /\ NetRuns("idle") /\ link = "up"
LastUnit(m) == offset + 1 >= Size[m]

\* After a unit that leads to no dispatch.
UnitGone(m) ==
  IF LastUnit(m) THEN MessageEnds
  ELSE offset' = offset + 1 /\ UNCHANGED spoiled /\ MessageGoesOn

\* The event of a unit is lost: esp-mqtt has no heap to post it.
Lose(m) ==
  /\ Sending(m) /\ lost < MaxLost
  /\ lost' = lost + 1
  /\ IF LastUnit(m) THEN MessageEnds
     ELSE offset' = offset + 1 /\ spoiled' = TRUE /\ MessageGoesOn
  /\ UNCHANGED <<sessionVars, registryVars, netVars, rxVars, handed, unissued>>

\* A message in one piece.
Direct(m) ==
  /\ Sending(m) /\ Size[m] = 1
  /\ net' = "dispatch" /\ at' = 1
  /\ offset' = 1
  /\ UNCHANGED <<sessionVars, registryVars, wire, lost, rxVars, historyVars>>

\* First fragment of a message that cannot be reassembled: too long, or no heap.
Refuse(m) ==
  /\ Sending(m) /\ Size[m] > 1 /\ offset = 0
  /\ RxEmpty
  /\ dropping' = TRUE
  /\ lost' = 0
  /\ offset' = 1 /\ spoiled' = TRUE /\ MessageGoesOn
  /\ UNCHANGED <<sessionVars, registryVars, netVars, handed, unissued>>

\* Mutant: the limit is not checked.
AllocateAny(m) ==
  /\ Sending(m) /\ Size[m] > 1 /\ offset = 0
  /\ allocated' = TRUE /\ rx' = <<>> /\ dropping' = FALSE
  /\ rx_topic' = Topic[m] /\ total' = Size[m]
  /\ lost' = 0
  /\ net' = "copy"
  /\ UNCHANGED <<sessionVars, registryVars, at, wire, offset, historyVars>>

\* Mutant: the mark of an earlier dropped message is not cleared.
AllocateDropping(m) ==
  /\ Sending(m) /\ Size[m] > 1 /\ offset = 0
  /\ Size[m] <= Limit
  /\ allocated' = TRUE /\ rx' = <<>>
  /\ rx_topic' = Topic[m] /\ total' = Size[m]
  /\ lost' = 0
  /\ net' = "copy"
  /\ UNCHANGED <<sessionVars, registryVars, at, wire, offset, dropping, historyVars>>

\* First fragment: any previous half message is stale.
Allocate(m) ==
  /\ Sending(m) /\ Size[m] > 1 /\ offset = 0
  /\ Size[m] <= Limit
  /\ allocated' = TRUE /\ rx' = <<>> /\ dropping' = FALSE
  /\ rx_topic' = Topic[m] /\ total' = Size[m]
  /\ lost' = 0
  /\ net' = "copy"
  /\ UNCHANGED <<sessionVars, registryVars, at, wire, offset, historyVars>>

\* A later fragment of a message that is being dropped.
Swallow(m) ==
  /\ Sending(m) /\ offset > 0 /\ dropping
  /\ IF LastUnit(m) THEN RxReset ELSE UNCHANGED rxVars
  /\ UnitGone(m)
  /\ UNCHANGED <<sessionVars, registryVars, netVars, lost, handed, unissued>>

\* Mutant: the offset is not compared.
ExpectedLength(m) == allocated /\ total = Size[m]

\* client->rx_assembly_received is the length of the buffer's content.
Expected(m) == allocated /\ total = Size[m] /\ offset = Len(rx)

\* A later fragment out of sequence: give the message up.
Mismatch(m) ==
  /\ Sending(m) /\ offset > 0 /\ ~dropping /\ ~Expected(m)
  /\ RxEmpty
  /\ dropping' = ~LastUnit(m)
  /\ UnitGone(m)
  /\ UNCHANGED <<sessionVars, registryVars, netVars, lost, handed, unissued>>

\* A later fragment in sequence.
Continue(m) ==
  /\ Sending(m) /\ offset > 0 /\ ~dropping /\ Expected(m)
  /\ net' = "copy"
  /\ UNCHANGED <<sessionVars, registryVars, at, wireVars, rxVars, historyVars>>

\* The copy behind the checks; the buffer may turn out complete.
Copy(m) ==
  /\ wire = {m} /\ NetRuns("copy")
  /\ rx' = Append(rx, <<m, offset + 1>>)
  /\ offset' = offset + 1
  /\ IF Len(rx) + 1 >= total THEN net' = "dispatch" /\ at' = 1
     ELSE net' = "idle" /\ UNCHANGED at
  /\ UNCHANGED <<sessionVars, registryVars, wire, lost, allocated, total, rx_topic, dropping, historyVars>>

\* dispatch_data reads the event of a message in one piece, else the buffer.
Dispatched(m) ==
  IF Size[m] = 1 THEN Whole(m) ELSE [topic |-> rx_topic, payload |-> rx]

Matching(i, d) == slot[i] # NoFilter /\ FilterMatches(slot[i], d.topic)

CallBack(m) ==
  /\ wire = {m} /\ NetRuns("dispatch") /\ at <= Slots
  /\ Matching(at, Dispatched(m))
  /\ net' = "incall"
  /\ handed' = {Dispatched(m)}
  /\ served' = served \cup {slot[at]}
  /\ UNCHANGED <<sessionVars, registryVars, at, wireVars, rxVars, since, spoiled, unissued>>

CallReturns ==
  /\ NetRuns("incall")
  /\ net' = "dispatch" /\ at' = at + 1
  /\ handed' = {}
  /\ UNCHANGED <<sessionVars, registryVars, wireVars, rxVars, served, since, spoiled, unissued>>

Skip(m) ==
  /\ wire = {m} /\ NetRuns("dispatch") /\ at <= Slots
  /\ ~Matching(at, Dispatched(m))
  /\ at' = at + 1
  /\ UNCHANGED <<sessionVars, registryVars, net, wireVars, rxVars, historyVars>>

DispatchEnds(m) ==
  /\ wire = {m} /\ NetRuns("dispatch") /\ at > Slots
  /\ net' = "idle" /\ at' = 1
  /\ IF Size[m] = 1 THEN UNCHANGED rxVars ELSE RxReset
  /\ MessageEnds
  /\ UNCHANGED <<sessionVars, registryVars, lost, handed, unissued>>

-----------------------------------------------------------------------------
Session ==
  \/ Start \/ StoreHandle \/ Connected \/ Reissue \/ ReissueEnds \/ Disconnected
  \/ TearHard \/ TearTimer \/ Stopped \/ Freed

Registry ==
  \/ \E f \in Filter : CallSubscribe(f) \/ CallUnsubscribe(f)
  \/ Store \/ Issue \/ Tell \/ Clear

Data(m) ==
  \/ Begin(m) \/ Lose(m) \/ Direct(m) \/ Refuse(m) \/ Allocate(m) \/ Swallow(m)
  \/ Mismatch(m) \/ Continue(m) \/ Copy(m) \/ CallBack(m) \/ Skip(m) \/ DispatchEnds(m)

Next == Session \/ Registry \/ CallReturns \/ \E m \in Message : Data(m)

Spec == Init /\ [][Next]_vars

-----------------------------------------------------------------------------
\* Properties

\* Every behaviour is one of MessageDelivery: what a callback gets is one whole message
\* with its own topic, and a message reaches all registered filters or none. The code
\* promises it in the comment of handle_fragmented_data and in Kconfig.
Delivery == INSTANCE MessageDelivery WITH registered <- Registered, current <- wire, due <- Due
DeliversWhole == Delivery!Spec

\* A message that came whole within one session, fits the limit and found heap is
\* missed by no filter registered throughout: no earlier message, dropped, cut off or
\* half received, leaves a trace in the assembly state that costs the next one.
NothingMissed ==
  [][\A m \in Message :
       (wire = {m} /\ wire' = {} /\ link' = "up" /\ ~spoiled /\ lost' = lost) => Due = {}]_vars

\* In a session, with no call under way, the broker knows every registered filter,
\* whenever it was registered: before, during or after CONNECTED. Exceptions: its own
\* subscribe call failed, or CONNECTED came before the handle was stored.
EverySessionSubscribed ==
  (link = "up" /\ connected /\ net = "idle" /\ op = NoOp) => Registered \subseteq broker \cup unissued

\* While the MQTT task copies into the buffer or dispatches from it, nobody frees it:
\* the resets of other tasks come behind the stop that waits for the handler.
BufferStays ==
  /\ net = "copy" => allocated
  /\ net \in {"dispatch", "incall"} => \A m \in wire : Size[m] > 1 => allocated
=============================================================================
