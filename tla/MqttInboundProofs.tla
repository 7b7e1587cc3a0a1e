--------------------------- MODULE MqttInboundProofs ---------------------------
(***************************************************************************)
(* Proofs about MqttInbound, for every set of messages and filters, number *)
(* of slots and limit: the types; the reassembly buffer is there while the *)
(* MQTT task uses it; with at most one DATA event lost between two first   *)
(* fragments callbacks get whole messages, as MessageDelivery asks; and,   *)
(* however many events are lost, the broker knows what is registered and a *)
(* message that came whole is missed by nobody. And, for every set of      *)
(* levels and every number of them, the filter matcher decides as the      *)
(* standard does: the sections from "Induction over the natural numbers".  *)
(***************************************************************************)
EXTENDS TopicFilterReference, SequenceTheorems, WellFoundedInduction, TLAPS

-----------------------------------------------------------------------------
\* Who may free the buffer

(* Messages are on the wire only within a session, the MQTT task works     *)
(* only for a client, and a teardown frees only what has been stopped.     *)
SessionInv ==
  /\ tear \in {"free", "tfree"} => link = "none"
  /\ link = "none" => net = "idle"
  /\ wire # {} => link = "up"
  /\ net \in {"copy", "dispatch", "incall"} => wire # {}
  /\ net = "resub" => wire = {}
  /\ wire = {} \/ \E m \in Message : wire = {m}

\* The steps of the registry, and those that only look at it, leave the session, the
\* message and the assembly alone.
RegistryFrame == UNCHANGED <<sessionVars, net, wireVars, rxVars>>

LEMMA RegistryLeaves == Registry => RegistryFrame
<1> USE DEF RegistryFrame, sessionVars, netVars, wireVars, rxVars
<1>1. ASSUME NEW f \in Filter, CallSubscribe(f) \/ CallUnsubscribe(f) PROVE RegistryFrame
  BY <1>1 DEF CallSubscribe, CallUnsubscribe
<1>2. Store \/ Tell \/ Clear => RegistryFrame
  BY DEF Store, Tell, Clear
<1>3. Issue => RegistryFrame
  BY DEF Issue
<1> QED
  BY <1>1, <1>2, <1>3 DEF Registry

BufferInv == SessionInv /\ BufferStays

LEMMA SessionKeepsBuffer == BufferInv /\ Session => BufferInv'
<1> SUFFICES ASSUME BufferInv, Session PROVE BufferInv'
  OBVIOUS
<1> USE DEF BufferInv, SessionInv, BufferStays, sessionVars, netVars, wireVars, rxVars
<1>1. CASE Start
  BY <1>1 DEF Start
<1>2. CASE StoreHandle
  BY <1>2 DEF StoreHandle
<1>3. CASE Connected
  BY <1>3 DEF Connected, NetRuns
<1>4. CASE Reissue
  BY <1>4 DEF Reissue, NetRuns
<1>5. CASE ReissueEnds
  BY <1>5 DEF ReissueEnds, NetRuns
<1>6. CASE Disconnected
  BY <1>6 DEF Disconnected, NetRuns, RxReset, RxEmpty, Cut, MessageEnds
<1>7. CASE TearHard
  BY <1>7 DEF TearHard
<1>8. CASE TearTimer
  BY <1>8 DEF TearTimer
<1>9. CASE Stopped
  BY <1>9 DEF Stopped, StopWaits, Cut, MessageEnds
<1>10. CASE Freed
  BY <1>10 DEF Freed, RxReset, RxEmpty
<1> QED
  BY <1>1, <1>2, <1>3, <1>4, <1>5, <1>6, <1>7, <1>8, <1>9, <1>10 DEF Session

LEMMA DataKeepsBuffer ==
  ASSUME BufferInv, NEW m \in Message, Data(m)
  PROVE  BufferInv'
<1> USE DEF BufferInv, SessionInv, BufferStays, sessionVars, netVars, wireVars, rxVars,
            Sending, NetRuns, MessageEnds, MessageGoesOn, UnitGone
<1>1. CASE Begin(m)
  BY <1>1 DEF Begin
<1>2. CASE Lose(m)
  BY <1>2 DEF Lose
<1>3. CASE Direct(m)
  BY <1>3 DEF Direct
<1>4. CASE Refuse(m)
  BY <1>4 DEF Refuse
<1>5. CASE Allocate(m)
  BY <1>5 DEF Allocate
<1>6. CASE Swallow(m)
  BY <1>6 DEF Swallow
<1>7. CASE Mismatch(m)
  BY <1>7 DEF Mismatch
<1>8. CASE Continue(m)
  BY <1>8 DEF Continue, Expected
<1>9. CASE Copy(m)
  BY <1>9 DEF Copy
<1>10. CASE CallBack(m)
  BY <1>10 DEF CallBack
<1>11. CASE Skip(m)
  BY <1>11 DEF Skip
<1>12. CASE DispatchEnds(m)
  BY <1>12 DEF DispatchEnds
<1> QED
  BY <1>1, <1>2, <1>3, <1>4, <1>5, <1>6, <1>7, <1>8, <1>9, <1>10, <1>11, <1>12 DEF Data

LEMMA NextBuffer == BufferInv /\ [Next]_vars => BufferInv'
<1> SUFFICES ASSUME BufferInv, [Next]_vars PROVE BufferInv'
  OBVIOUS
<1>1. CASE Session
  BY <1>1, SessionKeepsBuffer
<1>2. CASE Registry
  BY <1>2, RegistryLeaves
     DEF RegistryFrame, BufferInv, SessionInv, BufferStays, sessionVars, wireVars, rxVars
<1>3. CASE CallReturns
  BY <1>3 DEF CallReturns, NetRuns, BufferInv, SessionInv, BufferStays, sessionVars, wireVars, rxVars
<1>4. ASSUME NEW m \in Message, Data(m) PROVE BufferInv'
  BY <1>4, DataKeepsBuffer
<1>5. CASE UNCHANGED vars
  BY <1>5 DEF vars, BufferInv, SessionInv, BufferStays, sessionVars, netVars, wireVars, rxVars
<1> QED
  BY <1>1, <1>2, <1>3, <1>4, <1>5 DEF Next

LEMMA InitBuffer == Init => BufferInv
BY DEF Init, BufferInv, SessionInv, BufferStays

(* The buffer is not freed while the MQTT task copies into it or           *)
(* dispatches from it.                                                     *)
THEOREM BufferIsThere == Spec => []BufferStays
<1>1. Init => BufferInv
  BY InitBuffer
<1>2. BufferInv /\ [Next]_vars => BufferInv'
  BY NextBuffer
<1>3. BufferInv => BufferStays
  BY DEF BufferInv
<1> QED
  BY <1>1, <1>2, <1>3, PTL DEF Spec

-----------------------------------------------------------------------------
\* The registry

(* A filter has one entry, and a call under way stands where it left off.  *)
OneEntry == \A i, j \in Slot : slot[i] = slot[j] /\ i # j => slot[i] = NoFilter

OpType == [by : {"app", "net"}, kind : {"sub", "issue", "unsub", "clear"},
           filter : Filter, pos : Slot]

OpStands ==
  op # NoOp =>
    /\ op \in OpType
    /\ op.kind = "sub" => \/ slot[op.pos] = op.filter
                          \/ slot[op.pos] = NoFilter /\ op.filter \notin Registered
    /\ op.kind # "sub" => slot[op.pos] = op.filter

RegistryInv == slot \in [Slot -> Filter \cup {NoFilter}] /\ OneEntry /\ OpStands

(* What the two writes to the table do to the set of registered filters.   *)
LEMMA StoreRegisters ==
  ASSUME RegistryInv, Store
  PROVE  /\ RegistryInv' /\ op.filter \in Filter
         /\ Registered' = Registered \cup {op.filter}
         /\ slot' = slot \/ op.filter \notin Registered
<1>1. /\ op # NoOp /\ op \in OpType /\ slot' = [slot EXCEPT ![op.pos] = op.filter]
      /\ op.kind = "sub" /\ op' = [op EXCEPT !.kind = "issue"]
  BY DEF RegistryInv, OpStands, Store
<1>2. /\ op.pos \in Slot /\ op.filter \in Filter /\ op.filter # NoFilter
      /\ op' \in OpType /\ op'.kind = "issue" /\ op'.pos = op.pos /\ op'.filter = op.filter
  BY <1>1, SentinelAssumption DEF OpType
<1>3. slot[op.pos] = op.filter \/ (slot[op.pos] = NoFilter /\ op.filter \notin Registered)
  BY <1>1 DEF RegistryInv, OpStands
<1>4. slot' \in [Slot -> Filter \cup {NoFilter}]
  BY <1>1, <1>2 DEF RegistryInv
<1>5. CASE slot[op.pos] = op.filter
  <2>1. slot' = slot
    BY <1>1, <1>2, <1>5 DEF RegistryInv
  <2>2. op.filter \in Registered /\ Registered' = Registered
    BY <1>2, <1>5, <2>1 DEF Registered
  <2> QED
    BY <1>2, <1>4, <1>5, <2>1, <2>2 DEF RegistryInv, OneEntry, OpStands
<1>6. CASE slot[op.pos] = NoFilter /\ op.filter \notin Registered
  <2>1. \A i \in Slot : slot[i] # op.filter
    BY <1>2, <1>6 DEF Registered
  <2>2. \A i \in Slot : slot'[i] = IF i = op.pos THEN op.filter ELSE slot[i]
    BY <1>1, <1>2 DEF RegistryInv
  <2>3. Registered' = Registered \cup {op.filter}
    BY <1>2, <1>6, <2>2 DEF Registered
  <2>4. OneEntry'
    BY <1>2, <2>1, <2>2 DEF RegistryInv, OneEntry
  <2> QED
    BY <1>2, <1>4, <1>6, <2>2, <2>3, <2>4 DEF RegistryInv, OpStands
<1> QED
  BY <1>3, <1>5, <1>6

LEMMA ClearUnregisters ==
  ASSUME RegistryInv, Clear
  PROVE  /\ RegistryInv' /\ op.filter \in Filter
         /\ op.filter \in Registered /\ Registered' = Registered \ {op.filter}
         /\ \A i \in Slot : slot'[i] = IF slot[i] = op.filter THEN NoFilter ELSE slot[i]
<1>1. /\ op \in OpType /\ slot' = [slot EXCEPT ![op.pos] = NoFilter] /\ op' = NoOp
      /\ slot[op.pos] = op.filter
  BY DEF RegistryInv, OpStands, Clear
<1>2. op.pos \in Slot /\ op.filter \in Filter /\ op.filter # NoFilter
  BY <1>1, SentinelAssumption DEF OpType
<1>3. \A i \in Slot : slot'[i] = IF i = op.pos THEN NoFilter ELSE slot[i]
  BY <1>1, <1>2 DEF RegistryInv
<1>4. \A i \in Slot : slot[i] = op.filter <=> i = op.pos
  BY <1>1, <1>2 DEF RegistryInv, OneEntry
<1>5. op.filter \in Registered /\ Registered' = Registered \ {op.filter}
  BY <1>1, <1>2, <1>3, <1>4 DEF Registered
<1>6. slot' \in [Slot -> Filter \cup {NoFilter}]
  BY <1>1, <1>2 DEF RegistryInv
<1>7. OneEntry'
  BY <1>3 DEF RegistryInv, OneEntry
<1> QED
  BY <1>1, <1>2, <1>3, <1>4, <1>5, <1>6, <1>7 DEF RegistryInv, OpStands

LEMMA CallerIs == Caller \subseteq {"app", "net"}
BY DEF Caller

LEMMA RegistryCallsKeep ==
  ASSUME RegistryInv, Registry, ~ Store, ~ Clear
  PROVE  RegistryInv' /\ slot' = slot
<1>1. ASSUME NEW f \in Filter, CallSubscribe(f) PROVE RegistryInv' /\ slot' = slot
  <2>1. PICK t \in Caller, i \in Slot :
          /\ i \in (IF Holding(f) # {} THEN Holding(f) ELSE Holding(NoFilter))
          /\ op' = [by |-> t, kind |-> "sub", filter |-> f, pos |-> i]
    BY <1>1 DEF CallSubscribe, First
  <2>2. /\ op' \in OpType /\ op'.kind = "sub" /\ op'.pos = i /\ op'.filter = f
        /\ slot' = slot
    BY <1>1, <2>1, CallerIs DEF CallSubscribe, OpType
  <2>3. slot[i] = f \/ (slot[i] = NoFilter /\ f \notin Registered)
    BY <1>1, <2>1, SentinelAssumption DEF Holding, Registered
  <2>4. Registered' = Registered
    BY <2>2 DEF Registered
  <2> QED
    BY <2>2, <2>3, <2>4 DEF RegistryInv, OneEntry, OpStands
<1>2. ASSUME NEW f \in Filter, CallUnsubscribe(f) PROVE RegistryInv' /\ slot' = slot
  <2>1. PICK t \in Caller, i \in Slot :
          /\ i \in Holding(f)
          /\ op' = [by |-> t, kind |-> "unsub", filter |-> f, pos |-> i]
    BY <1>2 DEF CallUnsubscribe, First
  <2>2. /\ op' \in OpType /\ op'.kind = "unsub" /\ op'.pos = i /\ op'.filter = f
        /\ slot' = slot /\ slot[i] = f
    BY <1>2, <2>1, CallerIs DEF CallUnsubscribe, OpType, Holding
  <2> QED
    BY <2>2 DEF RegistryInv, OneEntry, OpStands
<1>3. CASE Issue
  BY <1>3 DEF Issue, RegistryInv, OneEntry, OpStands
<1>4. CASE Tell
  <2>1. /\ op \in OpType /\ slot[op.pos] = op.filter /\ slot' = slot
        /\ op' = [op EXCEPT !.kind = "clear"]
    BY <1>4 DEF Tell, RegistryInv, OpStands
  <2>2. /\ op' \in OpType /\ op'.kind = "clear" /\ op'.pos = op.pos /\ op'.filter = op.filter
    BY <2>1 DEF OpType
  <2> QED
    BY <2>1, <2>2 DEF RegistryInv, OneEntry, OpStands
<1> QED
  BY <1>1, <1>2, <1>3, <1>4 DEF Registry

(* Nothing else writes the table or the call.                              *)
LEMMA OthersLeaveRegistry ==
  ASSUME NEW m \in Message, Session \/ CallReturns \/ Data(m) \/ UNCHANGED vars
  PROVE  UNCHANGED <<slot, op>>
<1> USE DEF registryVars
<1>1. Session => UNCHANGED <<slot, op>>
  BY DEF Session, Start, StoreHandle, Connected, Reissue, ReissueEnds, Disconnected, TearHard,
         TearTimer, Stopped, Freed
<1>2. Data(m) => UNCHANGED <<slot, op>>
  BY DEF Data, Begin, Lose, Direct, Refuse, Allocate, Swallow, Mismatch, Continue, Copy, CallBack,
         Skip, DispatchEnds
<1>3. CallReturns \/ UNCHANGED vars => UNCHANGED <<slot, op>>
  BY DEF CallReturns, vars
<1> QED
  BY <1>1, <1>2, <1>3

LEMMA NextRegistry == RegistryInv /\ [Next]_vars => RegistryInv'
<1> SUFFICES ASSUME RegistryInv, [Next]_vars PROVE RegistryInv'
  OBVIOUS
<1>1. CASE Registry
  BY <1>1, StoreRegisters, ClearUnregisters, RegistryCallsKeep
<1>2. CASE UNCHANGED <<slot, op>>
  BY <1>2 DEF RegistryInv, OneEntry, OpStands, Registered
<1>3. \E m : m \in Message
  BY MessageAssumption
<1> QED
  BY <1>1, <1>2, <1>3, OthersLeaveRegistry DEF Next

LEMMA InitRegistry == Init => RegistryInv
BY DEF Init, RegistryInv, OneEntry, OpStands

-----------------------------------------------------------------------------
\* Reassembly

LEMMA UnitsType ==
  ASSUME NEW h \in Message, NEW n \in Nat
  PROVE  /\ Units(h, n) \in Seq(Message \X Nat)
         /\ Len(Units(h, n)) = n
         /\ Append(Units(h, n), <<h, n + 1>>) = Units(h, n + 1)
<1>1. \A k \in Nat : Units(h, k) \in [1 .. k -> Message \X Nat]
  BY DEF Units
<1>2. \A k \in Nat : Units(h, k) \in Seq(Message \X Nat) /\ Len(Units(h, k)) = k
  BY <1>1, SeqDef
<1> DEFINE S == Message \X Nat
           short == Units(h, n)
           last == <<h, n + 1>>
           longer == Append(short, last)
<1>3. /\ short \in Seq(S)
      /\ Len(short) = n
      /\ last \in S
  <2>1. n \in Nat /\ last \in S
    OBVIOUS
  <2> HIDE DEF S, last
  <2> QED
    BY <1>2, <2>1 DEF S
<1>4. /\ longer \in Seq(S) /\ Len(longer) = n + 1
      /\ \A i \in 1 .. n + 1 : longer[i] = IF i <= n THEN short[i] ELSE last
  <2> HIDE DEF S, short, last
  <2> QED
    BY <1>3, AppendProperties
<1>5. \A i \in 1 .. n + 1 : longer[i] = Units(h, n + 1)[i]
  <2>1. \A i \in 1 .. n : short[i] = <<h, i>>
    BY DEF Units
  <2>2. \A i \in 1 .. n + 1 : Units(h, n + 1)[i] = <<h, i>>
    BY DEF Units
  <2>3. last = <<h, n + 1>>
    OBVIOUS
  <2>4. ASSUME NEW i \in 1 .. n + 1 PROVE (i \in 1 .. n /\ i <= n) \/ (i = n + 1 /\ ~ i <= n)
    OBVIOUS
  <2> HIDE DEF longer, short, last
  <2> QED
    BY <1>4, <2>1, <2>2, <2>3, <2>4
<1>6. n + 1 \in Nat /\ Units(h, n + 1) \in Seq(S) /\ Len(Units(h, n + 1)) = n + 1
  BY <1>2
<1>7. longer = Units(h, n + 1)
  <2> HIDE DEF longer, S
  <2> QED
    BY <1>4, <1>5, <1>6, SeqEqual
<1> QED
  BY <1>2, <1>7

(* How far a message is, as far as the MQTT task knows.                    *)
OffsetInv ==
  /\ offset \in Nat /\ lost \in 0 .. MaxLost
  /\ \A m \in wire : net \in {"idle", "copy"} => offset < Size[m]
  /\ \A m \in wire : net = "copy" => Size[m] > 1
  /\ net \in {"dispatch", "incall"} => offset > 0

(* The buffer holds the first n units of the message h.                    *)
Holds(h, n) ==
  /\ Size[h] > 1 /\ n <= Size[h]
  /\ rx = Units(h, n) /\ total = Size[h] /\ rx_topic = Topic[h]

InSequence(h, n) ==
  /\ wire = {h}
  /\ \/ net = "idle" /\ n > 0 /\ offset = n
     \/ net = "copy" /\ offset = n
     \/ net \in {"dispatch", "incall"} /\ n = Size[h]

(* A unit is missing: the next one is not the one that is expected, or the *)
(* message is over and the next long one begins with its first fragment.   *)
Broken(h, n) ==
  \/ wire = {h} /\ net = "idle" /\ offset > n
  \/ lost >= 1 /\ \/ wire = {}
                  \/ net = "idle" /\ offset = 0
                  \/ \E m \in wire : Size[m] = 1

AssemblyInv ==
  allocated =>
    /\ ~ dropping
    /\ \E h \in Message, n \in Nat :
         Holds(h, n) /\ (InSequence(h, n) \/ Broken(h, n) \/ tear \in {"free", "tfree"})

(* A buffer the MQTT task works on holds the message that is on the wire.  *)
LEMMA AssemblyInUse ==
  BufferInv /\ OffsetInv /\ AssemblyInv =>
    \A m \in Message :
      wire = {m} /\ (net = "copy" \/ (net \in {"dispatch", "incall"} /\ Size[m] > 1)) =>
        \E n \in Nat : Holds(m, n) /\ InSequence(m, n)
<1> SUFFICES ASSUME BufferInv, OffsetInv, AssemblyInv, NEW m \in Message, wire = {m},
                    net = "copy" \/ (net \in {"dispatch", "incall"} /\ Size[m] > 1)
             PROVE  \E n \in Nat : Holds(m, n) /\ InSequence(m, n)
  OBVIOUS
<1>1. allocated /\ tear \notin {"free", "tfree"}
  BY DEF BufferInv, SessionInv, BufferStays
<1>2. PICK h \in Message, n \in Nat : Holds(h, n) /\ (InSequence(h, n) \/ Broken(h, n))
  BY <1>1 DEF AssemblyInv
<1>3. ~ Broken(h, n)
  BY MessageAssumption DEF OffsetInv, Broken
<1>4. InSequence(h, n) /\ h = m
  BY <1>2, <1>3 DEF InSequence
<1> QED
  BY <1>2, <1>4

(* Neither steps of the session nor the registry put the buffer in use.    *)
LEMMA SessionKeepsAssembly ==
  ASSUME BufferInv, OffsetInv, AssemblyInv, Session
  PROVE  OffsetInv' /\ AssemblyInv'
<1> USE DEF BufferInv, SessionInv, sessionVars, netVars, wireVars, rxVars
<1>1. CASE Start \/ StoreHandle \/ TearHard \/ TearTimer \/ Reissue
  <2>1. UNCHANGED <<net, wire, offset, lost, allocated, rx, total, rx_topic, dropping>>
    BY <1>1 DEF Start, StoreHandle, TearHard, TearTimer, Reissue
  <2>2. tear \in {"free", "tfree"} => tear' = tear
    BY <1>1 DEF Start, StoreHandle, TearHard, TearTimer, Reissue
  <2>3. OffsetInv'
    BY <2>1 DEF OffsetInv
  <2>4. AssemblyInv'
    BY <2>1, <2>2 DEF AssemblyInv, Holds, InSequence, Broken
  <2> QED
    BY <2>3, <2>4
<1>2. CASE Connected \/ ReissueEnds
  <2>1. /\ wire = {} /\ net' \in {"idle", "resub"}
        /\ UNCHANGED <<tear, wire, offset, lost, allocated, rx, total, rx_topic, dropping>>
    BY <1>2 DEF Connected, ReissueEnds, NetRuns
  <2>2. OffsetInv'
    BY <2>1 DEF OffsetInv
  <2>3. AssemblyInv'
    BY <2>1 DEF AssemblyInv, Holds, InSequence, Broken
  <2> QED
    BY <2>2, <2>3
<1>3. CASE Disconnected \/ Freed
  <2>1. ~ allocated'
    BY <1>3 DEF Disconnected, Freed, RxReset, RxEmpty
  <2>2. CASE Disconnected
    BY <2>1, <2>2, SlotAssumption DEF Disconnected, Cut, MessageEnds, NetRuns, OffsetInv, AssemblyInv
  <2>3. CASE Freed
    BY <2>1, <2>3 DEF Freed, OffsetInv, AssemblyInv
  <2> QED
    BY <1>3, <2>2, <2>3
<1>4. CASE Stopped
  <2>1. OffsetInv'
    BY <1>4, SlotAssumption DEF Stopped, StopWaits, Cut, MessageEnds, OffsetInv
  <2>2. CASE RxReset
    BY <2>1, <2>2 DEF RxReset, RxEmpty, AssemblyInv
  <2>3. CASE UNCHANGED rxVars
    BY <1>4, <2>1, <2>3 DEF Stopped, AssemblyInv, Holds
  <2> QED
    BY <1>4, <2>2, <2>3 DEF Stopped
<1> QED
  BY <1>1, <1>2, <1>3, <1>4 DEF Session

LEMMA FrameKeepsAssembly ==
  ASSUME OffsetInv, AssemblyInv,
         UNCHANGED <<tear, net, wire, offset, lost, allocated, rx, total, rx_topic, dropping>>
  PROVE  OffsetInv' /\ AssemblyInv'
BY DEF OffsetInv, AssemblyInv, Holds, InSequence, Broken

(* With one event lost, at most, between two first fragments, what is in   *)
(* the buffer is continued by its own message only.                        *)
LEMMA DataKeepsAssembly ==
  ASSUME MaxLost <= 1, BufferInv, OffsetInv, AssemblyInv, NEW m \in Message, Data(m)
  PROVE  OffsetInv' /\ AssemblyInv'
<1> USE DEF BufferInv, SessionInv, sessionVars, netVars, wireVars, rxVars, Sending, NetRuns,
            MessageEnds, MessageGoesOn
<1>a. Size[m] \in Nat \ {0} /\ offset \in Nat /\ lost \in Nat /\ MaxLost \in Nat
  BY MessageAssumption, SlotAssumption DEF OffsetInv
<1>1. CASE Begin(m)
  <2>1. /\ wire = {} /\ net' = "idle" /\ wire' = {m} /\ offset' = 0 /\ tear = tear'
        /\ tear \notin {"free", "tfree"}
        /\ UNCHANGED <<lost, allocated, rx, total, rx_topic, dropping>>
    BY <1>1 DEF Begin
  <2>2. OffsetInv'
    BY <1>a, <2>1 DEF OffsetInv
  <2>3. AssemblyInv'
    BY <2>1 DEF AssemblyInv, Holds, InSequence, Broken
  <2> QED
    BY <2>2, <2>3
<1>2. CASE Lose(m)
  <2>1. /\ wire = {m} /\ net = "idle" /\ net' = "idle" /\ lost = 0 /\ lost' = 1
        /\ UNCHANGED <<tear, allocated, rx, total, rx_topic, dropping>>
        /\ \/ wire' = {} /\ offset' = 0
           \/ wire' = wire /\ offset' = offset + 1 /\ offset + 1 < Size[m]
    BY <1>2, <1>a DEF Lose, LastUnit
  <2>2. OffsetInv'
    BY <1>2, <1>a, <2>1 DEF OffsetInv, Lose
  <2>3. ASSUME NEW h \in Message, NEW n \in Nat, InSequence(h, n) \/ Broken(h, n)
        PROVE  Broken(h, n)'
    BY <1>a, <2>1, <2>3 DEF InSequence, Broken
  <2>4. AssemblyInv'
    BY <2>1, <2>3 DEF AssemblyInv, Holds
  <2> QED
    BY <2>2, <2>4
<1>3. CASE Direct(m)
  <2>1. /\ wire = {m} /\ Size[m] = 1 /\ net = "idle" /\ net' = "dispatch" /\ offset' = 1
        /\ wire' = wire /\ UNCHANGED <<tear, lost, allocated, rx, total, rx_topic, dropping>>
    BY <1>3 DEF Direct
  <2>2. OffsetInv'
    BY <1>a, <2>1 DEF OffsetInv
  <2>3. ASSUME NEW h \in Message, NEW n \in Nat, Holds(h, n), InSequence(h, n) \/ Broken(h, n)
        PROVE  Broken(h, n)'
    BY <1>a, <2>1, <2>3 DEF Holds, InSequence, Broken
  <2>4. AssemblyInv'
    BY <2>1, <2>3 DEF AssemblyInv, Holds
  <2> QED
    BY <2>2, <2>4
<1>4. CASE Refuse(m)
  <2>1. ~ allocated' /\ net' = "idle" /\ wire' = {m} /\ offset' = 1 /\ lost' = 0 /\ Size[m] > 1
    BY <1>4 DEF Refuse, RxEmpty
  <2> QED
    BY <1>a, <2>1 DEF OffsetInv, AssemblyInv
<1>5. CASE Allocate(m)
  <2>1. /\ net' = "copy" /\ wire' = {m} /\ offset' = 0 /\ lost' = 0 /\ Size[m] > 1
        /\ ~ dropping' /\ rx' = <<>> /\ total' = Size[m] /\ rx_topic' = Topic[m]
    BY <1>5 DEF Allocate
  <2>2. Units(m, 0) = <<>>
    BY UnitsType, EmptySeq
  <2>3. Holds(m, 0)' /\ InSequence(m, 0)'
    BY <1>a, <2>1, <2>2 DEF Holds, InSequence
  <2>4. OffsetInv'
    BY <1>a, <2>1 DEF OffsetInv
  <2> QED
    BY <2>1, <2>3, <2>4 DEF AssemblyInv
<1>6. CASE Swallow(m) \/ Mismatch(m)
  <2>1. ~ allocated'
    BY <1>6 DEF Swallow, Mismatch, RxReset, RxEmpty, AssemblyInv
  <2>2. OffsetInv'
    BY <1>6, <1>a DEF Swallow, Mismatch, UnitGone, LastUnit, OffsetInv
  <2> QED
    BY <2>1, <2>2 DEF AssemblyInv
<1>7. CASE Continue(m)
  <2>1. /\ wire = {m} /\ net = "idle" /\ net' = "copy" /\ offset > 0 /\ offset < Size[m]
        /\ allocated /\ offset = Len(rx)
        /\ UNCHANGED <<tear, wire, offset, lost, allocated, rx, total, rx_topic, dropping>>
    BY <1>7 DEF Continue, Expected, OffsetInv
  <2>2. PICK h \in Message, n \in Nat :
          Holds(h, n) /\ (InSequence(h, n) \/ Broken(h, n))
    BY <2>1 DEF AssemblyInv
  <2>3. offset = n
    BY <2>1, <2>2, UnitsType DEF Holds
  <2>4. h = m
    BY <1>a, <2>1, <2>2, <2>3 DEF InSequence, Broken
  <2>5. Holds(m, n)' /\ InSequence(m, n)' /\ ~ dropping'
    BY <2>1, <2>2, <2>3, <2>4 DEF Holds, InSequence, AssemblyInv
  <2>6. OffsetInv'
    BY <1>a, <2>1 DEF OffsetInv
  <2> QED
    BY <2>5, <2>6 DEF AssemblyInv
<1>8. CASE Copy(m)
  <2>1. /\ wire = {m} /\ net = "copy" /\ net' \in {"idle", "dispatch"} /\ offset' = offset + 1
        /\ rx' = Append(rx, <<m, offset + 1>>)
        /\ net' = "dispatch" <=> Len(rx) + 1 >= total
        /\ UNCHANGED <<tear, wire, lost, allocated, total, rx_topic, dropping>>
    BY <1>8 DEF Copy
  <2> HIDE DEF BufferInv, SessionInv
  <2>2. PICK n \in Nat : Holds(m, n) /\ InSequence(m, n)
    BY <2>1, AssemblyInUse
  <2>3. offset = n /\ n < Size[m] /\ allocated /\ ~ dropping
    BY <2>1, <2>2 DEF BufferInv, InSequence, OffsetInv, BufferStays, AssemblyInv
  <2>. Len(rx) = n
    BY <2>2, UnitsType DEF Holds
  <2>4. rx' = Units(m, n + 1)
    BY <2>1, <2>2, <2>3, UnitsType DEF Holds
  <2>5. Holds(m, n + 1)'
    BY <1>a, <2>1, <2>2, <2>3, <2>4 DEF Holds
  <2>6. InSequence(m, n + 1)'
    BY <1>a, <2>1, <2>2, <2>3 DEF InSequence, Holds
  <2>7. OffsetInv'
    BY <1>a, <2>1, <2>2, <2>3 DEF OffsetInv, Holds
  <2> QED
    BY <2>1, <2>3, <2>5, <2>6, <2>7 DEF AssemblyInv
<1>9. CASE CallBack(m) \/ Skip(m)
  <2>1. /\ net = "dispatch" /\ net' \in {"dispatch", "incall"}
        /\ UNCHANGED <<tear, wire, offset, lost, allocated, rx, total, rx_topic, dropping>>
    BY <1>9 DEF CallBack, Skip
  <2>2. OffsetInv'
    BY <2>1 DEF OffsetInv
  <2>3. AssemblyInv'
    BY <2>1 DEF AssemblyInv, Holds, InSequence, Broken
  <2> QED
    BY <2>2, <2>3
<1>10. CASE DispatchEnds(m)
  <2>1. /\ wire = {m} /\ net = "dispatch" /\ net' = "idle" /\ wire' = {} /\ offset' = 0
        /\ lost' = lost /\ tear' = tear
    BY <1>10 DEF DispatchEnds
  <2>2. OffsetInv'
    BY <2>1 DEF OffsetInv
  <2>3. CASE Size[m] = 1
    <3>1. UNCHANGED <<allocated, rx, total, rx_topic, dropping>>
      BY <1>10, <2>3 DEF DispatchEnds
    <3> QED
      BY <2>1, <2>2, <2>3, <3>1 DEF AssemblyInv, Holds, InSequence, Broken
  <2>4. CASE Size[m] # 1
    <3>1. ~ allocated'
      BY <1>10, <2>4 DEF DispatchEnds, RxReset, RxEmpty
    <3> QED
      BY <2>2, <3>1 DEF AssemblyInv
  <2> QED
    BY <2>3, <2>4
<1> QED
  BY <1>1, <1>2, <1>3, <1>4, <1>5, <1>6, <1>7, <1>8, <1>9, <1>10 DEF Data

LEMMA NextAssembly ==
  ASSUME MaxLost <= 1, BufferInv, OffsetInv, AssemblyInv, [Next]_vars
  PROVE  OffsetInv' /\ AssemblyInv'
<1>1. CASE Session
  BY <1>1, SessionKeepsAssembly
<1>2. CASE Registry \/ UNCHANGED vars
  BY <1>2, RegistryLeaves, FrameKeepsAssembly
     DEF RegistryFrame, vars, sessionVars, netVars, wireVars, rxVars
<1>3. CASE CallReturns
  <2>1. /\ net = "incall" /\ net' = "dispatch"
        /\ UNCHANGED <<tear, wire, offset, lost, allocated, rx, total, rx_topic, dropping>>
    BY <1>3 DEF CallReturns, NetRuns, sessionVars, wireVars, rxVars
  <2>2. OffsetInv'
    BY <2>1 DEF OffsetInv
  <2>3. AssemblyInv'
    BY <2>1 DEF AssemblyInv, Holds, InSequence, Broken
  <2> QED
    BY <2>2, <2>3
<1>4. ASSUME NEW m \in Message, Data(m) PROVE OffsetInv' /\ AssemblyInv'
  BY <1>4, DataKeepsAssembly
<1> QED
  BY <1>1, <1>2, <1>3, <1>4 DEF Next

-----------------------------------------------------------------------------
\* Dispatch

(* The entries the loop of dispatch_data has been to.                      *)
Behind(i) == IF net = "incall" THEN i <= at ELSE i < at

Dispatching == net \in {"dispatch", "incall"}

(* Outside the loop nobody has got the message; inside, those behind have  *)
(* got it, if they match and were there when it began, and nobody else.    *)
DispatchInv ==
  /\ at \in Nat \ {0}
  /\ since \subseteq Registered /\ served \subseteq Registered
  /\ wire = {} => since = {}
  /\ ~ Dispatching => served = {}
  /\ net = "incall" <=> handed # {}
  /\ Dispatching => \A f \in served : \E i \in Slot : Behind(i) /\ slot[i] = f
  /\ Dispatching => \A m \in wire, i \in Slot :
                      Behind(i) /\ slot[i] \in since \cap Wanted(m) => slot[i] \in served

InboundInv == BufferInv /\ RegistryInv /\ OffsetInv /\ AssemblyInv /\ DispatchInv

Maps == [Delivery!Next]_(Delivery!vars)

LEMMA DueIs ==
  ASSUME NEW f
  PROVE  /\ f \in Due <=> f \notin served /\ f \in since /\ \E m \in wire : f \in Wanted(m)
         /\ f \in Due' <=> f \notin served' /\ f \in since' /\ \E m \in wire' : f \in Wanted(m)
BY DEF Due

LEMMA StutterMaps == UNCHANGED <<slot, wire, since, served, handed>> => Maps
BY DEF Maps, Delivery!vars, Registered, Due

LEMMA EndMaps ==
  ASSUME DispatchInv, ~ Dispatching, MessageEnds, UNCHANGED <<slot, handed>>
  PROVE  Maps
<1>1. served = {} /\ handed = {}
  BY DEF DispatchInv, Dispatching
<1>2. wire' = {} /\ since' = {} /\ served' = {} /\ Due' = {} /\ Registered' = Registered
  BY DEF MessageEnds, Due, Registered
<1>3. CASE wire = {}
  BY <1>1, <1>2, <1>3, StutterMaps DEF DispatchInv
<1>4. CASE wire # {}
  BY <1>1, <1>2, <1>4 DEF Maps, Delivery!Next, Delivery!End
<1> QED
  BY <1>3, <1>4

LEMMA SessionMaps ==
  ASSUME BufferInv, DispatchInv, Session
  PROVE  DispatchInv' /\ Maps
<1> USE DEF sessionVars, registryVars, netVars, wireVars
<1>1. CASE Start \/ StoreHandle \/ TearHard \/ TearTimer \/ Freed
  <2>1. UNCHANGED <<slot, wire, since, served, handed, net, at>>
    BY <1>1 DEF Start, StoreHandle, TearHard, TearTimer, Freed, historyVars
  <2>2. DispatchInv'
    BY <2>1 DEF DispatchInv, Registered, Dispatching, Behind
  <2> QED
    BY <2>1, <2>2, StutterMaps
<1>2. CASE Connected \/ Reissue \/ ReissueEnds
  <2>1. /\ UNCHANGED <<slot, wire, since, served, handed>>
        /\ net \in {"idle", "resub"} /\ net' \in {"idle", "resub"} /\ at' \in {1, at, at + 1}
    BY <1>2 DEF Connected, Reissue, ReissueEnds, NetRuns, historyVars
  <2>2. DispatchInv'
    BY <2>1 DEF DispatchInv, Registered, Dispatching
  <2> QED
    BY <2>1, <2>2, StutterMaps
<1>3. CASE Disconnected \/ Stopped
  <2>1. net = "idle" /\ MessageEnds /\ UNCHANGED <<slot, handed, net, at>>
    BY <1>3 DEF Disconnected, Stopped, StopWaits, NetRuns, Cut
  <2>2. DispatchInv'
    BY <2>1 DEF DispatchInv, MessageEnds, Dispatching
  <2> QED
    BY <2>1, <2>2, EndMaps DEF Dispatching
<1> QED
  BY <1>1, <1>2, <1>3 DEF Session

LEMMA RegistryMaps ==
  ASSUME RegistryInv, DispatchInv, Registry
  PROVE  DispatchInv' /\ Maps
<1>0. UNCHANGED <<net, at, wire, handed>>
  BY DEF Registry, CallSubscribe, CallUnsubscribe, Store, Issue, Tell, Clear, netVars, wireVars,
         historyVars
<1>1. CASE Store
  <2>1. UNCHANGED <<since, served>>
    BY <1>1 DEF Store, historyVars
  <2>2. CASE slot' = slot
    <3>1. DispatchInv'
      BY <1>0, <2>1, <2>2 DEF DispatchInv, Registered, Dispatching, Behind
    <3> QED
      BY <1>0, <2>1, <2>2, <3>1, StutterMaps
  <2>3. CASE slot' # slot
    <3>1. /\ Registered' = Registered \cup {op.filter} /\ op.filter \in Filter
          /\ op.filter \notin Registered
      BY <1>1, <2>3, StoreRegisters
    <3>2. \A i \in Slot : slot'[i] = slot[i] \/ (slot[i] \notin Registered /\ slot'[i] = op.filter)
      BY <1>1, <2>3, SentinelAssumption DEF Store, RegistryInv, OpStands, OpType, Registered
    <3>3. DispatchInv'
      BY <1>0, <2>1, <3>1, <3>2 DEF DispatchInv, Dispatching, Behind
    <3>4. Due' = Due
      BY <1>0, <2>1 DEF Due
    <3>5. Delivery!Register(op.filter)
      BY <1>0, <2>1, <3>1, <3>4 DEF Delivery!Register
    <3> QED
      BY <3>1, <3>3, <3>5 DEF Maps, Delivery!Next
  <2> QED
    BY <2>2, <2>3
<1>2. CASE Clear
  <2>1. /\ op.filter \in Filter /\ op.filter \in Registered
        /\ Registered' = Registered \ {op.filter}
        /\ \A i \in Slot : slot'[i] = IF slot[i] = op.filter THEN NoFilter ELSE slot[i]
    BY <1>2, ClearUnregisters
  <2>2. served' = served \ {op.filter} /\ since' = since \ {op.filter}
    BY <1>2 DEF Clear
  <2>3. DispatchInv'
    BY <1>0, <2>1, <2>2, SentinelAssumption DEF DispatchInv, Dispatching, Behind, Registered
  <2>4. Due' = Due \ {op.filter}
    <3>1. \A f : f \in Due' <=> f \in Due /\ f # op.filter
      BY <1>0, <2>2, DueIs
    <3> QED
      BY <3>1
  <2>5. Delivery!Unregister(op.filter)
    BY <1>0, <2>1, <2>2, <2>4 DEF Delivery!Unregister
  <2> QED
    BY <2>1, <2>3, <2>5 DEF Maps, Delivery!Next
<1>3. CASE ~ Store /\ ~ Clear
  <2>1. slot' = slot
    BY <1>3, RegistryCallsKeep
  <2>2. UNCHANGED <<since, served>>
    BY <1>3 DEF Registry, CallSubscribe, CallUnsubscribe, Issue, Tell, historyVars
  <2>3. DispatchInv'
    BY <1>0, <2>1, <2>2 DEF DispatchInv, Registered, Dispatching, Behind
  <2> QED
    BY <1>0, <2>1, <2>2, <2>3, StutterMaps
<1> QED
  BY <1>1, <1>2, <1>3

(* What dispatch_data hands over is the message on the wire.               *)
LEMMA DispatchedWhole ==
  ASSUME BufferInv, OffsetInv, AssemblyInv, NEW m \in Message, wire = {m}, Dispatching
  PROVE  Dispatched(m) = Whole(m)
<1>1. CASE Size[m] = 1
  BY <1>1 DEF Dispatched
<1>2. CASE Size[m] # 1
  <2>1. Size[m] > 1
    BY <1>2, MessageAssumption
  <2>2. PICK n \in Nat : Holds(m, n) /\ InSequence(m, n)
    BY <2>1, AssemblyInUse DEF Dispatching
  <2>3. rx = Units(m, Size[m]) /\ rx_topic = Topic[m]
    BY <2>2 DEF Holds, InSequence, Dispatching
  <2> QED
    BY <1>2, <2>3 DEF Dispatched, Whole
<1> QED
  BY <1>1, <1>2

LEMMA CallBackMaps ==
  ASSUME InboundInv, NEW m \in Message, CallBack(m)
  PROVE  DispatchInv' /\ Maps
<1> USE DEF InboundInv
<1>1. /\ wire = {m} /\ net = "dispatch" /\ net' = "incall" /\ at' = at /\ at <= Slots
      /\ slot[at] # NoFilter /\ FilterMatches(slot[at], Dispatched(m).topic)
      /\ handed' = {Dispatched(m)} /\ served' = served \cup {slot[at]}
      /\ UNCHANGED <<slot, wire, since>>
  BY DEF CallBack, NetRuns, Matching, registryVars, wireVars
<1>2. Dispatched(m) = Whole(m) /\ Whole(m).topic = Topic[m]
  BY <1>1, DispatchedWhole DEF Dispatching, Whole
<1>3. at \in Slot
  BY <1>1, SlotAssumption DEF DispatchInv, Slot
<1>4. slot[at] \in Registered /\ slot[at] \in Filter
  BY <1>1, <1>3 DEF Registered, RegistryInv
<1>5. slot[at] \in Wanted(m)
  BY <1>1, <1>2, <1>4 DEF Wanted
<1>6. handed = {}
  BY <1>1 DEF DispatchInv
<1>7. slot[at] \notin served
  <2>1. \A i \in Slot : i < at => slot[i] # slot[at]
    BY <1>1, <1>3 DEF RegistryInv, OneEntry, Slot
  <2> QED
    BY <1>1, <2>1 DEF DispatchInv, Dispatching, Behind
<1>8. Registered' = Registered /\ Due' = Due \ {slot[at]}
  <2>1. \A f : f \in Due' <=> f \in Due /\ f # slot[at]
    BY <1>1, DueIs
  <2> QED
    BY <1>1, <2>1 DEF Registered
<1>9. Delivery!HandOver(m, slot[at])
  BY <1>1, <1>2, <1>4, <1>5, <1>6, <1>7, <1>8 DEF Delivery!HandOver
<1>10. DispatchInv'
  <2>1. \A i \in Slot : Behind(i)' <=> (Behind(i) \/ i = at)
    BY <1>1, <1>3 DEF Behind, Slot
  <2>2. Dispatching /\ Dispatching'
    BY <1>1 DEF Dispatching
  <2> QED
    BY <1>1, <1>3, <1>4, <1>8, <2>1, <2>2 DEF DispatchInv
<1> QED
  BY <1>4, <1>9, <1>10 DEF Maps, Delivery!Next

LEMMA CallReturnsMaps ==
  ASSUME DispatchInv, CallReturns
  PROVE  DispatchInv' /\ Maps
<1>1. /\ net = "incall" /\ net' = "dispatch" /\ at' = at + 1 /\ handed' = {}
      /\ UNCHANGED <<slot, wire, since, served>>
  BY DEF CallReturns, NetRuns, registryVars, wireVars
<1>2. Registered' = Registered /\ Due' = Due
  BY <1>1 DEF Registered, Due
<1>3. Delivery!Return
  BY <1>1, <1>2 DEF Delivery!Return, DispatchInv
<1>4. \A i \in Slot : Behind(i)' <=> Behind(i)
  BY <1>1 DEF Behind, Slot, DispatchInv
<1>5. DispatchInv'
  BY <1>1, <1>2, <1>4 DEF DispatchInv, Dispatching
<1> QED
  BY <1>3, <1>5 DEF Maps, Delivery!Next

LEMMA SkipMaps ==
  ASSUME InboundInv, NEW m \in Message, Skip(m)
  PROVE  DispatchInv' /\ Maps
<1> USE DEF InboundInv
<1>1. /\ wire = {m} /\ net = "dispatch" /\ net' = net /\ at' = at + 1
      /\ ~ Matching(at, Dispatched(m))
      /\ UNCHANGED <<slot, wire, since, served, handed>>
  BY DEF Skip, NetRuns, registryVars, wireVars, historyVars
<1>2. Dispatched(m) = Whole(m) /\ Whole(m).topic = Topic[m]
  BY <1>1, DispatchedWhole DEF Dispatching, Whole
<1>3. slot[at] \notin Wanted(m)
  BY <1>1, <1>2, SentinelAssumption DEF Matching, Wanted
<1>4. \A i \in Slot : Behind(i)' <=> (Behind(i) \/ i = at)
  BY <1>1 DEF Behind, Slot, DispatchInv
<1>5. DispatchInv'
  BY <1>1, <1>3, <1>4 DEF DispatchInv, Dispatching, Registered
<1> QED
  BY <1>1, <1>5, StutterMaps

LEMMA DispatchEndsMaps ==
  ASSUME InboundInv, NEW m \in Message, DispatchEnds(m)
  PROVE  DispatchInv' /\ Maps
<1> USE DEF InboundInv
<1>1. /\ wire = {m} /\ net = "dispatch" /\ net' = "idle" /\ at > Slots /\ at' = 1
      /\ wire' = {} /\ served' = {} /\ since' = {} /\ UNCHANGED <<slot, handed>>
  BY DEF DispatchEnds, NetRuns, MessageEnds, registryVars
<1>2. \A i \in Slot : Behind(i)
  BY <1>1, SlotAssumption DEF Behind, Slot, DispatchInv
<1>3. \A f \in since \cap Wanted(m) : f \in served
  BY <1>1, <1>2 DEF DispatchInv, Dispatching, Registered
<1>4. Due = {}
  BY <1>1, <1>3, DueIs
<1>5. Registered' = Registered /\ Due' = {}
  BY <1>1 DEF Registered, Due
<1>6. Delivery!End
  BY <1>1, <1>4, <1>5 DEF Delivery!End, DispatchInv
<1>7. DispatchInv'
  BY <1>1 DEF DispatchInv, Dispatching
<1> QED
  BY <1>6, <1>7 DEF Maps, Delivery!Next

LEMMA DataMaps ==
  ASSUME InboundInv, NEW m \in Message, Data(m)
  PROVE  DispatchInv' /\ Maps
<1> USE DEF registryVars, netVars, wireVars, historyVars
<1>1. CASE Begin(m)
  <2>1. /\ wire = {} /\ wire' = {m} /\ since' = Registered /\ net = "idle"
        /\ UNCHANGED <<net, at, slot, served, handed>>
    BY <1>1 DEF Begin, NetRuns
  <2>2. served = {} /\ Registered' = Registered
    BY <2>1 DEF InboundInv, DispatchInv, Dispatching, Registered
  <2>3. Due' = Wanted(m) \cap Registered
    BY <2>1, <2>2 DEF Due
  <2>4. Delivery!Begin(m)
    BY <2>1, <2>2, <2>3 DEF Delivery!Begin
  <2>5. DispatchInv'
    BY <2>1, <2>2 DEF InboundInv, DispatchInv, Dispatching
  <2> QED
    BY <2>4, <2>5 DEF Maps, Delivery!Next
<1>2. CASE Lose(m) \/ Swallow(m) \/ Mismatch(m)
  <2>1. net = "idle" /\ UNCHANGED <<net, at, slot, handed>>
    BY <1>2 DEF Lose, Swallow, Mismatch, Sending, NetRuns
  <2>2. MessageEnds \/ MessageGoesOn
    BY <1>2 DEF Lose, Swallow, Mismatch, UnitGone
  <2>3. DispatchInv'
    BY <2>1, <2>2 DEF InboundInv, DispatchInv, Dispatching, Registered, MessageEnds, MessageGoesOn
  <2>4. Maps
    BY <2>1, <2>2, EndMaps, StutterMaps DEF InboundInv, Dispatching, MessageGoesOn
  <2> QED
    BY <2>3, <2>4
<1>3. CASE Direct(m) \/ Refuse(m) \/ Allocate(m) \/ Continue(m) \/ Copy(m)
  <2>1. /\ net \in {"idle", "copy"} /\ UNCHANGED <<slot, wire, since, served, handed>>
        /\ \/ ~ Dispatching' /\ at' = at
           \/ net' = "dispatch" /\ at' = 1
    BY <1>3 DEF Direct, Refuse, Allocate, Continue, Copy, Sending, NetRuns, MessageGoesOn, Dispatching
  <2>2. served = {}
    BY <2>1 DEF InboundInv, DispatchInv, Dispatching
  <2>3. \A i \in Slot : net' = "dispatch" => ~ Behind(i)'
    BY <2>1 DEF Behind, Slot, Dispatching
  <2>4. net' # "incall"
    BY <2>1 DEF Dispatching
  <2>5. DispatchInv'
    BY <2>1, <2>2, <2>3, <2>4 DEF InboundInv, DispatchInv, Dispatching, Registered
  <2> QED
    BY <2>1, <2>5, StutterMaps
<1> QED
  BY <1>1, <1>2, <1>3, CallBackMaps, SkipMaps, DispatchEndsMaps DEF Data

LEMMA NextMaps ==
  ASSUME MaxLost <= 1, InboundInv, [Next]_vars
  PROVE  InboundInv' /\ Maps
<1> USE DEF InboundInv
<1>1. BufferInv' /\ RegistryInv' /\ OffsetInv' /\ AssemblyInv'
  BY NextBuffer, NextRegistry, NextAssembly
<1>2. CASE Session
  BY <1>1, <1>2, SessionMaps
<1>3. CASE Registry
  BY <1>1, <1>3, RegistryMaps
<1>4. CASE CallReturns
  BY <1>1, <1>4, CallReturnsMaps
<1>5. ASSUME NEW m \in Message, Data(m) PROVE InboundInv' /\ Maps
  BY <1>1, <1>5, DataMaps
<1>6. CASE UNCHANGED vars
  <2>1. UNCHANGED <<slot, wire, since, served, handed, net, at>>
    BY <1>6 DEF vars, registryVars, netVars, wireVars, historyVars
  <2>2. DispatchInv'
    BY <2>1 DEF DispatchInv, Registered, Dispatching, Behind
  <2> QED
    BY <1>1, <2>1, <2>2, StutterMaps
<1> QED
  BY <1>2, <1>3, <1>4, <1>5, <1>6 DEF Next

LEMMA InitMaps == Init => InboundInv /\ Delivery!Init
<1> SUFFICES ASSUME Init PROVE InboundInv /\ Delivery!Init
  OBVIOUS
<1>1. BufferInv /\ RegistryInv
  BY InitBuffer, InitRegistry
<1>2. OffsetInv /\ AssemblyInv
  BY SlotAssumption DEF Init, OffsetInv, AssemblyInv
<1>3. DispatchInv
  BY DEF Init, DispatchInv, Dispatching
<1>4. Registered = {} /\ Due = {}
  BY DEF Init, Registered, Due
<1> QED
  BY <1>1, <1>2, <1>3, <1>4 DEF InboundInv, Delivery!Init, Init

(* With at most one DATA event lost between two first fragments, every     *)
(* callback gets one whole message under its own topic, once for each      *)
(* registration, and a message reaches all filters registered throughout   *)
(* or none.                                                                *)
THEOREM ImplementsDelivery ==
  ASSUME MaxLost <= 1
  PROVE  Spec => DeliversWhole
<1>1. Init => InboundInv /\ Delivery!Init
  BY InitMaps
<1>2. InboundInv /\ [Next]_vars => InboundInv' /\ [Delivery!Next]_(Delivery!vars)
  BY NextMaps DEF Maps
<1> QED
  BY <1>1, <1>2, PTL DEF Spec, DeliversWhole, Delivery!Spec

-----------------------------------------------------------------------------
\* The types

FlagsOK ==
  /\ mqtt \in BOOLEAN /\ connected \in BOOLEAN
  /\ link \in {"none", "down", "up"}
  /\ tear \in {"idle", "stop", "free", "tstop", "tfree"}
  /\ net \in {"idle", "resub", "copy", "dispatch", "incall"}
  /\ allocated \in BOOLEAN /\ dropping \in BOOLEAN /\ spoiled \in BOOLEAN

FiltersOK ==
  /\ at \in 1 .. Slots + 1
  /\ net = "incall" => at <= Slots
  /\ broker \subseteq Filter /\ served \subseteq Filter
  /\ since \subseteq Filter /\ unissued \subseteq Filter

(* How far a message is: while it is copied, its length is that of the     *)
(* buffer, and what the buffer holds is what is behind.                    *)
ProgressOK ==
  /\ offset \in Nat /\ lost \in 0 .. MaxLost
  /\ wire = {} => offset = 0
  /\ \A m \in wire :
       /\ offset <= Size[m]
       /\ net \in {"idle", "copy"} => offset < Size[m]
       /\ net = "copy" => Size[m] > 1 /\ total = Size[m] /\ Len(rx) = offset

BufferOK ==
  /\ rx \in Seq(Message \X Nat) /\ Len(rx) <= total
  /\ total \in 0 .. Limit
  /\ rx_topic \in Seq(STRING)
  /\ handed \subseteq [topic : Seq(STRING), payload : Seq(Message \X Nat)]

Types == BufferInv /\ RegistryInv /\ FlagsOK /\ FiltersOK /\ ProgressOK /\ BufferOK

LEMMA TypesImply == Types => TypeOK
<1> SUFFICES ASSUME Types PROVE TypeOK
  OBVIOUS
<1>1. op = NoOp \/ op \in OpType
  BY DEF Types, RegistryInv, OpStands
<1>2. wire = {} \/ \E m \in Message : wire = {m} /\ offset \in 0 .. Size[m]
  BY MessageAssumption DEF Types, BufferInv, SessionInv, ProgressOK
<1> QED
  BY <1>1, <1>2 DEF Types, RegistryInv, FlagsOK, FiltersOK, ProgressOK, BufferOK, TypeOK, OpType

LEMMA RegisteredType == RegistryInv => Registered \subseteq Filter
BY DEF RegistryInv, Registered

LEMMA FlagsStep ==
  ASSUME FlagsOK, NEW m \in Message, Session \/ Registry \/ CallReturns \/ Data(m)
  PROVE  FlagsOK'
<1> USE DEF FlagsOK, sessionVars, netVars, rxVars, historyVars, RxReset, RxEmpty, Cut, MessageEnds,
            MessageGoesOn
<1>1. CASE Registry
  <2>1. UNCHANGED <<sessionVars, net, rxVars>>
    BY <1>1, RegistryLeaves DEF RegistryFrame
  <2>2. spoiled' = spoiled
    BY <1>1 DEF Registry, CallSubscribe, CallUnsubscribe, Store, Issue, Tell, Clear
  <2> QED
    BY <2>1, <2>2
<1>2. CASE Start \/ StoreHandle \/ Reissue \/ ReissueEnds
  BY <1>2 DEF Start, StoreHandle, Reissue, ReissueEnds
<1>10. CASE Connected
  <2>1. /\ link' = "up" /\ connected' = TRUE /\ net' \in {"resub", "idle"}
        /\ UNCHANGED <<mqtt, tear, allocated, dropping, spoiled>>
    BY <1>10 DEF Connected
  <2> QED
    BY <2>1
<1>3. CASE Disconnected \/ TearHard \/ TearTimer
  BY <1>3 DEF Disconnected, TearHard, TearTimer
<1>4. CASE Stopped
  BY <1>4 DEF Stopped
<1>5. CASE Freed
  BY <1>5 DEF Freed
<1>6. CASE Begin(m) \/ Direct(m)
  BY <1>6 DEF Begin, Direct
<1>11. CASE Lose(m)
  BY <1>11 DEF Lose
<1>12. CASE Refuse(m) \/ Allocate(m)
  BY <1>12 DEF Refuse, Allocate
<1>7. CASE Swallow(m) \/ Mismatch(m)
  BY <1>7 DEF Swallow, Mismatch, UnitGone, LastUnit
<1>8. CASE Continue(m) \/ Copy(m) \/ CallBack(m) \/ Skip(m) \/ CallReturns
  BY <1>8 DEF Continue, Copy, CallBack, Skip, CallReturns
<1>9. CASE DispatchEnds(m)
  BY <1>9 DEF DispatchEnds
<1> QED
  BY <1>1, <1>2, <1>3, <1>4, <1>5, <1>6, <1>7, <1>8, <1>9, <1>10, <1>11, <1>12
     DEF Session, Data

LEMMA FiltersStep ==
  ASSUME RegistryInv, FiltersOK, NEW m \in Message, Session \/ Registry \/ CallReturns \/ Data(m)
  PROVE  FiltersOK'
<1> USE DEF FiltersOK, registryVars, netVars, historyVars, Cut, MessageEnds, MessageGoesOn, NetRuns
<1>a. Slots \in Nat \ {0} /\ 1 \in 1 .. Slots + 1 /\ Registered \subseteq Filter
  BY SlotAssumption, RegisteredType
<1>b. at <= Slots => at \in Slot /\ at + 1 \in 1 .. Slots + 1
  BY <1>a DEF Slot
<1>c. \A i \in Slot : slot[i] \in Filter \cup {NoFilter}
  BY DEF RegistryInv
<1>1. CASE Store \/ Issue \/ Tell \/ Clear
  <2>1. op.filter \in Filter /\ UNCHANGED <<net, at>>
    BY <1>1 DEF Store, Issue, Tell, Clear, RegistryInv, OpStands, OpType
  <2>2. broker' \subseteq Filter /\ unissued' \subseteq Filter
    BY <1>1, <2>1 DEF Store, Issue, Tell, Clear
  <2>3. served' \subseteq Filter /\ since' \subseteq Filter
    BY <1>1, <2>1 DEF Store, Issue, Tell, Clear
  <2> QED
    BY <2>1, <2>2, <2>3
<1>2. CASE \E f \in Filter : CallSubscribe(f) \/ CallUnsubscribe(f)
  BY <1>2 DEF CallSubscribe, CallUnsubscribe
<1>3. CASE Reissue
  <2>1. /\ at' = at + 1 /\ at \in Slot /\ net = "resub"
        /\ UNCHANGED <<net, served, since>>
    BY <1>3, <1>b DEF Reissue
  <2>2. broker' \subseteq Filter /\ unissued' \subseteq Filter
    BY <1>3, <1>c, <2>1 DEF Reissue
  <2> QED
    BY <1>3, <1>b, <2>1, <2>2 DEF Reissue
<1>4. CASE Start \/ StoreHandle \/ TearHard \/ TearTimer \/ Freed
  BY <1>4 DEF Start, StoreHandle, TearHard, TearTimer, Freed
<1>5. CASE Connected \/ ReissueEnds
  BY <1>5, <1>a DEF Connected, ReissueEnds
<1>6. CASE Disconnected \/ Stopped
  BY <1>6 DEF Disconnected, Stopped
<1>7. CASE Begin(m) \/ Lose(m) \/ Swallow(m) \/ Mismatch(m)
  BY <1>7, <1>a DEF Begin, Lose, Swallow, Mismatch, UnitGone
<1>8. CASE Direct(m) \/ Refuse(m) \/ Allocate(m) \/ Continue(m)
  BY <1>8, <1>a DEF Direct, Refuse, Allocate, Continue
<1>9. CASE Copy(m)
  BY <1>9, <1>a DEF Copy
<1>10. CASE CallBack(m)
  <2>1. at \in Slot /\ slot[at] \in Filter
    BY <1>10, <1>b, <1>c DEF CallBack, Matching
  <2> QED
    BY <1>10, <1>b, <2>1 DEF CallBack
<1>11. CASE Skip(m) \/ CallReturns
  BY <1>11, <1>b DEF Skip, CallReturns
<1>12. CASE DispatchEnds(m)
  BY <1>12, <1>a DEF DispatchEnds
<1> QED
  BY <1>1, <1>2, <1>3, <1>4, <1>5, <1>6, <1>7, <1>8, <1>9, <1>10, <1>11, <1>12
     DEF Session, Registry, Data

LEMMA ProgressStep ==
  ASSUME BufferInv, ProgressOK, BufferOK, NEW m \in Message,
         Session \/ Registry \/ CallReturns \/ Data(m)
  PROVE  ProgressOK'
<1>a. /\ Size[m] \in Nat \ {0} /\ offset \in Nat /\ lost \in 0 .. MaxLost /\ MaxLost \in Nat
      /\ wire = {} \/ \E h \in Message : wire = {h}
      /\ Len(rx) \in Nat /\ 0 \in 0 .. MaxLost
  BY MessageAssumption, SlotAssumption DEF ProgressOK, BufferOK, BufferInv, SessionInv
<1>1. CASE Registry
  BY <1>1, RegistryLeaves DEF RegistryFrame, ProgressOK, wireVars, rxVars
<1>2. CASE Start \/ StoreHandle \/ TearHard \/ TearTimer \/ Reissue
  BY <1>2 DEF Start, StoreHandle, TearHard, TearTimer, Reissue, ProgressOK, netVars, wireVars, rxVars
<1>3. CASE Connected \/ ReissueEnds
  <2>1. wire = {} /\ UNCHANGED wireVars
    BY <1>3 DEF Connected, ReissueEnds, NetRuns, BufferInv, SessionInv
  <2> QED
    BY <2>1 DEF ProgressOK, wireVars
<1>4. CASE Disconnected \/ Stopped
  BY <1>4, <1>a DEF Disconnected, Stopped, Cut, MessageEnds, ProgressOK
<1>5. CASE Freed
  <2>1. wire = {} /\ UNCHANGED wireVars
    BY <1>5 DEF Freed, BufferInv, SessionInv
  <2> QED
    BY <2>1 DEF ProgressOK, wireVars
<1>6. CASE Begin(m)
  BY <1>6, <1>a DEF Begin, NetRuns, netVars, ProgressOK
<1>7. CASE Lose(m)
  <2>1. lost' \in 0 .. MaxLost /\ wire = {m} /\ net = "idle" /\ net' = net
    BY <1>7, <1>a DEF Lose, Sending, NetRuns, netVars
  <2>2. \/ wire' = {} /\ offset' = 0
        \/ wire' = wire /\ offset' = offset + 1 /\ offset + 1 < Size[m]
    BY <1>7, <1>a DEF Lose, LastUnit, MessageEnds, MessageGoesOn
  <2> QED
    BY <1>a, <2>1, <2>2 DEF ProgressOK
<1>8. CASE Swallow(m) \/ Mismatch(m)
  <2>1. lost' \in 0 .. MaxLost /\ wire = {m} /\ net = "idle" /\ net' = net
    BY <1>8, <1>a DEF Swallow, Mismatch, Sending, NetRuns, netVars
  <2>2. \/ wire' = {} /\ offset' = 0
        \/ wire' = wire /\ offset' = offset + 1 /\ offset + 1 < Size[m]
    BY <1>8, <1>a DEF Swallow, Mismatch, UnitGone, LastUnit, MessageEnds, MessageGoesOn
  <2> QED
    BY <1>a, <2>1, <2>2 DEF ProgressOK
<1>9. CASE Direct(m)
  <2>1. wire' = {m} /\ Size[m] = 1 /\ net' = "dispatch" /\ offset' = 1 /\ lost' = lost
    BY <1>9 DEF Direct, Sending
  <2> QED
    BY <1>a, <2>1 DEF ProgressOK
<1>10. CASE Refuse(m)
  <2>1. wire' = {m} /\ net' = "idle" /\ offset' = 1 /\ lost' = 0 /\ Size[m] > 1
    BY <1>10 DEF Refuse, Sending, NetRuns, netVars, MessageGoesOn
  <2> QED
    BY <1>a, <2>1 DEF ProgressOK
<1>11. CASE Allocate(m)
  <2>1. /\ wire' = {m} /\ net' = "copy" /\ offset = 0 /\ offset' = 0 /\ lost' = 0 /\ Size[m] > 1
        /\ rx' = <<>> /\ total' = Size[m]
    BY <1>11 DEF Allocate, Sending
  <2>2. Len(rx') = 0
    BY <2>1
  <2> QED
    BY <1>a, <2>1, <2>2 DEF ProgressOK
<1>12. CASE Continue(m)
  <2>1. /\ wire = {m} /\ net = "idle" /\ net' = "copy" /\ offset > 0
        /\ total = Size[m] /\ offset = Len(rx)
        /\ UNCHANGED <<wire, offset, lost, total, rx>>
    BY <1>12 DEF Continue, Sending, NetRuns, Expected, wireVars, rxVars
  <2> QED
    BY <1>a, <2>1 DEF ProgressOK
<1>13. CASE Copy(m)
  <2>1. /\ wire = {m} /\ net = "copy" /\ offset' = offset + 1 /\ UNCHANGED <<wire, lost, total>>
        /\ \/ net' = "dispatch"
           \/ net' = "idle" /\ Len(rx) + 1 < total
    BY <1>13, <1>a DEF Copy, NetRuns, BufferOK
  <2> QED
    BY <1>a, <2>1 DEF ProgressOK
<1>14. CASE CallBack(m) \/ Skip(m) \/ CallReturns
  <2>1. net' \in {"dispatch", "incall"} /\ UNCHANGED <<wire, offset, lost>>
    BY <1>14 DEF CallBack, Skip, CallReturns, NetRuns, wireVars
  <2> QED
    BY <2>1 DEF ProgressOK
<1>15. CASE DispatchEnds(m)
  BY <1>15, <1>a DEF DispatchEnds, MessageEnds, ProgressOK
<1> QED
  BY <1>1, <1>2, <1>3, <1>4, <1>5, <1>6, <1>7, <1>8, <1>9, <1>10, <1>11, <1>12, <1>13, <1>14, <1>15
     DEF Session, Data

LEMMA BufferTypeStep ==
  ASSUME ProgressOK, BufferOK, NEW m \in Message, Session \/ Registry \/ CallReturns \/ Data(m)
  PROVE  BufferOK'
<1>a. /\ Size[m] \in Nat \ {0} /\ Limit \in Nat /\ Topic[m] \in Seq(STRING)
      /\ <<>> \in Seq(STRING) /\ <<>> \in Seq(Message \X Nat) /\ Len(<<>>) = 0
  BY MessageAssumption, SlotAssumption
<1>b. RxEmpty => /\ rx' \in Seq(Message \X Nat) /\ Len(rx') <= total' /\ total' \in 0 .. Limit
                 /\ rx_topic' \in Seq(STRING)
  BY <1>a DEF RxEmpty
<1>1. CASE RxEmpty /\ UNCHANGED handed
  BY <1>1, <1>b DEF BufferOK
<1>2. CASE UNCHANGED <<rx, total, rx_topic, handed>>
  BY <1>2 DEF BufferOK
<1>3. CASE Registry
  <2>1. UNCHANGED handed
    BY <1>3 DEF Registry, CallSubscribe, CallUnsubscribe, Store, Issue, Tell, Clear, historyVars
  <2> QED
    BY <1>2, <1>3, <2>1, RegistryLeaves DEF RegistryFrame, rxVars
<1>4. CASE Session
  BY <1>1, <1>2, <1>4 DEF Session, Start, StoreHandle, Connected, Reissue, ReissueEnds, Disconnected,
     TearHard, TearTimer, Stopped, Freed, RxReset, Cut, rxVars, historyVars
<1>5. CASE Begin(m) \/ Lose(m) \/ Direct(m) \/ Refuse(m) \/ Swallow(m) \/ Mismatch(m) \/ Continue(m)
           \/ Skip(m) \/ DispatchEnds(m)
  BY <1>1, <1>2, <1>5 DEF Begin, Lose, Direct, Refuse, Swallow, Mismatch, Continue, Skip,
     DispatchEnds, RxReset, rxVars, historyVars
<1>6. CASE Allocate(m)
  <2>1. rx' = <<>> /\ total' = Size[m] /\ Size[m] <= Limit /\ rx_topic' = Topic[m] /\ handed' = handed
    BY <1>6 DEF Allocate, historyVars
  <2> QED
    BY <1>a, <2>1 DEF BufferOK
<1>7. CASE Copy(m)
  <2>1. /\ wire = {m} /\ net = "copy" /\ rx' = Append(rx, <<m, offset + 1>>)
        /\ UNCHANGED <<total, rx_topic, handed>>
    BY <1>7 DEF Copy, NetRuns, historyVars
  <2>2. offset < Size[m] /\ total = Size[m] /\ Len(rx) = offset /\ offset \in Nat
    BY <2>1 DEF ProgressOK
  <2> DEFINE S == Message \X Nat
             unit == <<m, offset + 1>>
  <2>3. rx \in Seq(S) /\ unit \in S
    BY <2>2 DEF BufferOK
  <2> HIDE DEF S, unit
  <2>4. Append(rx, unit) \in Seq(S) /\ Len(Append(rx, unit)) = Len(rx) + 1
    BY <2>3, AppendProperties
  <2>5. rx' \in Seq(Message \X Nat) /\ Len(rx') = Len(rx) + 1
    BY <2>1, <2>4 DEF S, unit
  <2> QED
    BY <1>a, <2>1, <2>2, <2>5 DEF BufferOK
<1>8. CASE CallBack(m)
  <2>1. Units(m, Size[m]) \in Seq(Message \X Nat)
    BY <1>a, UnitsType
  <2>2. Dispatched(m) \in [topic : Seq(STRING), payload : Seq(Message \X Nat)]
    BY <1>a, <2>1 DEF Dispatched, Whole, BufferOK
  <2>3. handed' = {Dispatched(m)} /\ UNCHANGED rxVars
    BY <1>8 DEF CallBack
  <2> QED
    BY <2>2, <2>3 DEF BufferOK, rxVars
<1>9. CASE CallReturns
  BY <1>9 DEF CallReturns, BufferOK, rxVars
<1> QED
  BY <1>3, <1>4, <1>5, <1>6, <1>7, <1>8, <1>9 DEF Data

LEMMA TypesStep == Types /\ [Next]_vars => Types'
<1> SUFFICES ASSUME Types, [Next]_vars PROVE Types'
  OBVIOUS
<1>1. BufferInv' /\ RegistryInv'
  BY NextBuffer, NextRegistry DEF Types
<1>2. ASSUME NEW m \in Message, Session \/ Registry \/ CallReturns \/ Data(m) PROVE Types'
  BY <1>1, <1>2, FlagsStep, FiltersStep, ProgressStep, BufferTypeStep DEF Types
<1>3. CASE UNCHANGED vars
  <2>1. FlagsOK' /\ FiltersOK' /\ ProgressOK' /\ BufferOK'
    BY <1>3 DEF Types, vars, sessionVars, registryVars, netVars, wireVars, rxVars, historyVars,
       FlagsOK, FiltersOK, ProgressOK, BufferOK
  <2> QED
    BY <1>1, <2>1 DEF Types
<1>4. \E m : m \in Message
  BY MessageAssumption
<1> QED
  BY <1>2, <1>3, <1>4 DEF Next

LEMMA InitTypes == Init => Types
<1> SUFFICES ASSUME Init PROVE Types
  OBVIOUS
<1>1. BufferInv /\ RegistryInv
  BY InitBuffer, InitRegistry
<1>2. FlagsOK
  BY DEF Init, FlagsOK
<1>3. FiltersOK
  BY SlotAssumption DEF Init, FiltersOK
<1>4. ProgressOK /\ BufferOK
  BY SlotAssumption DEF Init, ProgressOK, BufferOK
<1> QED
  BY <1>1, <1>2, <1>3, <1>4 DEF Types

(* Every variable stays within its type, for every set of messages and any *)
(* number of lost events: in particular the buffer never takes more than   *)
(* was allocated for it, nor more than the limit.                          *)
THEOREM TypeCorrect == Spec => []TypeOK
BY InitTypes, TypesStep, TypesImply, PTL DEF Spec

-----------------------------------------------------------------------------
\* Who has told the broker

(* The filter of a call that has written its entry and still has to speak  *)
(* to the broker, or has unsubscribed and still has to clear the entry.    *)
Unsettled == IF op # NoOp /\ op.kind \in {"issue", "clear"} THEN {op.filter} ELSE {}
Known     == broker \cup unissued \cup Unsettled

(* The loop of resubscribe_all owes the entries it has not been to.        *)
SubscribedInv ==
  link = "up" /\ connected =>
    \A i \in Slot : slot[i] # NoFilter /\ (net = "resub" => i < at) => slot[i] \in Known

(* A step that keeps what is known, and does not take the loop back.       *)
LEMMA KnownKept ==
  ASSUME SubscribedInv, UNCHANGED <<slot, link, net, at>>, connected' => connected,
         \A i \in Slot : slot[i] # NoFilter /\ slot[i] \in Known => slot[i] \in Known'
  PROVE  SubscribedInv'
BY DEF SubscribedInv

LEMMA RegistrySubscribes ==
  ASSUME RegistryInv, SubscribedInv, Registry
  PROVE  SubscribedInv'
<1>1. UNCHANGED <<sessionVars, net, at>>
  BY RegistryLeaves DEF RegistryFrame, Registry, CallSubscribe, CallUnsubscribe, Store, Issue, Tell,
     Clear, netVars
<1>2. UNCHANGED <<link, connected, mqtt, net, at>>
  BY <1>1 DEF sessionVars
<1>3. CASE Store
  <2>1. /\ op # NoOp /\ op \in OpType /\ op.kind = "sub" /\ op' = [op EXCEPT !.kind = "issue"]
        /\ slot' = [slot EXCEPT ![op.pos] = op.filter] /\ slot \in [Slot -> Filter \cup {NoFilter}]
        /\ UNCHANGED <<broker, unissued>>
    BY <1>3 DEF Store, RegistryInv, OpStands, historyVars
  <2>2. op' # NoOp /\ op'.kind = "issue" /\ op'.filter = op.filter
    <3>1. op' \in OpType /\ op'.kind = "issue" /\ op'.filter = op.filter
      BY <2>1 DEF OpType
    <3>2. op' # NoOp
      BY <3>1, SentinelAssumption DEF OpType, Slot
    <3> QED
      BY <3>1, <3>2
  <2>3. op.filter \in Known' /\ Known \subseteq Known'
    BY <2>1, <2>2 DEF Known, Unsettled
  <2>4. \A i \in Slot : slot'[i] = slot[i] \/ slot'[i] = op.filter
    BY <2>1
  <2> QED
    BY <1>2, <2>3, <2>4 DEF SubscribedInv
<1>4. CASE Issue
  <2>1. op # NoOp /\ op.kind = "issue" /\ op' = NoOp /\ slot' = slot
    BY <1>4 DEF Issue
  <2>2. Unsettled = {op.filter} /\ Unsettled' = {}
    BY <2>1 DEF Unsettled
  <2>3. link = "up" /\ connected => Known \subseteq Known'
    BY <1>4, <2>2 DEF Issue, Known
  <2> QED
    BY <1>2, <2>1, <2>3 DEF SubscribedInv
<1>5. CASE Tell
  <2>1. /\ op # NoOp /\ op \in OpType /\ op.kind = "unsub" /\ op' = [op EXCEPT !.kind = "clear"]
        /\ slot' = slot /\ unissued' = unissued /\ broker \ {op.filter} \subseteq broker'
    BY <1>5 DEF Tell, RegistryInv, OpStands, historyVars
  <2>2. op' \in OpType /\ op'.kind = "clear" /\ op'.filter = op.filter
    BY <2>1 DEF OpType
  <2>3. Unsettled = {}
    BY <2>1 DEF Unsettled
  <2>4. op' # NoOp
    BY <2>2, SentinelAssumption DEF OpType, Slot
  <2>5. Known \subseteq Known'
    BY <2>1, <2>2, <2>3, <2>4 DEF Known, Unsettled
  <2> QED
    BY <1>2, <2>1, <2>5, KnownKept
<1>6. CASE Clear
  <2>1. /\ op' = NoOp /\ UNCHANGED <<broker, unissued>>
        /\ \A i \in Slot : slot'[i] = IF slot[i] = op.filter THEN NoFilter ELSE slot[i]
    BY <1>6, ClearUnregisters DEF Clear
  <2>2. Known \subseteq Known' \cup {op.filter}
    BY <2>1 DEF Known, Unsettled
  <2> QED
    BY <1>2, <2>1, <2>2 DEF SubscribedInv
<1>7. CASE \E f \in Filter : CallSubscribe(f) \/ CallUnsubscribe(f)
  <2>1. op = NoOp /\ UNCHANGED <<slot, broker, unissued>>
    BY <1>7 DEF CallSubscribe, CallUnsubscribe, historyVars
  <2>2. Known \subseteq Known'
    BY <2>1 DEF Known, Unsettled
  <2> QED
    BY <1>2, <2>1, <2>2, KnownKept
<1> QED
  BY <1>3, <1>4, <1>5, <1>6, <1>7 DEF Registry

LEMMA SessionSubscribes ==
  ASSUME FiltersOK, SubscribedInv, Session
  PROVE  SubscribedInv'
<1> USE DEF sessionVars, registryVars, netVars, historyVars
<1>a. at \in Nat
  BY SlotAssumption DEF FiltersOK
<1>1. CASE Start
  BY <1>1 DEF Start, SubscribedInv
<1>2. CASE StoreHandle \/ TearHard \/ TearTimer
  <2>1. UNCHANGED <<slot, link, net, at, op, broker, unissued>> /\ (connected' => connected)
    BY <1>2 DEF StoreHandle, TearHard, TearTimer
  <2>2. Known' = Known
    BY <2>1 DEF Known, Unsettled
  <2> QED
    BY <2>1, <2>2, KnownKept
<1>3. CASE Connected
  <2>1. /\ slot' = slot /\ at' = 1
        /\ \/ net' = "resub"
           \/ unissued' = Registered
    BY <1>3 DEF Connected
  <2>2. CASE net' = "resub"
    <3>1. \A i \in Slot : ~ i < at'
      BY <2>1 DEF Slot
    <3> QED
      BY <2>2, <3>1 DEF SubscribedInv
  <2>3. CASE unissued' = Registered
    BY <2>1, <2>3 DEF SubscribedInv, Registered, Known
  <2> QED
    BY <2>1, <2>2, <2>3
<1>4. CASE Reissue
  <2>1. /\ net = "resub" /\ net' = net /\ at' = at + 1 /\ UNCHANGED <<slot, op, link, connected>>
        /\ broker \subseteq broker' /\ unissued \subseteq unissued'
        /\ slot[at] # NoFilter => slot[at] \in broker' \cup unissued'
    BY <1>4 DEF Reissue, NetRuns
  <2>2. Known \subseteq Known' /\ (slot[at] # NoFilter => slot[at] \in Known')
    BY <2>1 DEF Known, Unsettled
  <2>3. \A i \in Slot : i < at' => i < at \/ i = at
    BY <1>a, <2>1 DEF Slot
  <2> QED
    BY <2>1, <2>2, <2>3 DEF SubscribedInv
<1>5. CASE ReissueEnds
  <2>1. /\ net = "resub" /\ at > Slots /\ UNCHANGED <<slot, op, link, connected, broker, unissued>>
    BY <1>5 DEF ReissueEnds, NetRuns
  <2>2. \A i \in Slot : i < at
    BY <1>a, <2>1, SlotAssumption DEF Slot
  <2>3. Known' = Known
    BY <2>1 DEF Known, Unsettled
  <2> QED
    BY <2>1, <2>2, <2>3 DEF SubscribedInv
<1>6. CASE Disconnected \/ Stopped
  BY <1>6 DEF Disconnected, Stopped, SubscribedInv
<1>7. CASE Freed
  <2>1. UNCHANGED <<slot, link, net, at, op, broker, unissued>> /\ (connected' => connected)
    BY <1>7 DEF Freed
  <2>2. Known' = Known
    BY <2>1 DEF Known, Unsettled
  <2> QED
    BY <2>1, <2>2, KnownKept
<1> QED
  BY <1>1, <1>2, <1>3, <1>4, <1>5, <1>6, <1>7 DEF Session

LEMMA DataSubscribes ==
  ASSUME BufferInv, SubscribedInv, NEW m \in Message, CallReturns \/ Data(m)
  PROVE  SubscribedInv'
<1>1. /\ UNCHANGED <<slot, op, broker, unissued, link, connected>>
      /\ net # "resub" /\ net' # "resub"
  <2> USE DEF sessionVars, registryVars, netVars, historyVars, Sending, NetRuns
  <2>1. CASE Begin(m) \/ Lose(m) \/ Direct(m) \/ Refuse(m) \/ Allocate(m)
    BY <2>1 DEF Begin, Lose, Direct, Refuse, Allocate
  <2>2. CASE Swallow(m) \/ Mismatch(m) \/ Continue(m) \/ Copy(m)
    BY <2>2 DEF Swallow, Mismatch, Continue, Copy
  <2>3. CASE CallBack(m) \/ CallReturns \/ Skip(m) \/ DispatchEnds(m)
    BY <2>3 DEF CallBack, CallReturns, Skip, DispatchEnds
  <2> QED
    BY <2>1, <2>2, <2>3 DEF Data
<1>2. Known' = Known
  BY <1>1 DEF Known, Unsettled
<1> QED
  BY <1>1, <1>2 DEF SubscribedInv

(* In a session the broker knows every registered filter, whenever it was  *)
(* registered - before, during or after CONNECTED - once no call is under  *)
(* way, except for those whose own subscribe call failed and for a         *)
(* CONNECTED that came before the handle was stored.                       *)
THEOREM EverySessionSubscribedAlways == Spec => []EverySessionSubscribed
<1>1. Init => Types /\ SubscribedInv
  BY InitTypes DEF Init, SubscribedInv
<1>2. Types /\ SubscribedInv /\ [Next]_vars => SubscribedInv'
  <2> SUFFICES ASSUME Types, SubscribedInv, [Next]_vars PROVE SubscribedInv'
    OBVIOUS
  <2>1. BufferInv /\ RegistryInv /\ FiltersOK
    BY DEF Types
  <2>2. CASE UNCHANGED vars
    <3>1. UNCHANGED <<slot, link, connected, net, at, op, broker, unissued>>
      BY <2>2 DEF vars, sessionVars, registryVars, netVars, historyVars
    <3>2. Known' = Known
      BY <3>1 DEF Known, Unsettled
    <3> QED
      BY <3>1, <3>2, KnownKept
  <2>3. \E m : m \in Message
    BY MessageAssumption
  <2> QED
    BY <2>1, <2>2, <2>3, RegistrySubscribes, SessionSubscribes, DataSubscribes DEF Next
<1>3. SubscribedInv => EverySessionSubscribed
  <2> SUFFICES ASSUME SubscribedInv, link = "up", connected, net = "idle", op = NoOp
               PROVE  Registered \subseteq broker \cup unissued
    BY DEF EverySessionSubscribed
  <2>1. Known = broker \cup unissued
    BY DEF Known, Unsettled
  <2> QED
    BY <2>1 DEF SubscribedInv, Registered
<1> QED
  BY <1>1, <1>2, <1>3, TypesStep, PTL DEF Spec

-----------------------------------------------------------------------------
\* A message that came whole

(* Of a message no unit of which is missing, the buffer holds exactly what *)
(* is behind, however many events were lost before it.                     *)
FreshInv ==
  ~ spoiled =>
    \A m \in wire :
      net = "copy" \/ (net = "idle" /\ offset > 0) \/ (Dispatching /\ Size[m] > 1) =>
        /\ allocated /\ ~ dropping
        /\ Holds(m, offset)
        /\ Dispatching => offset = Size[m]

(* Whom the loop of dispatch_data has passed has got it.                   *)
SeenInv ==
  /\ since \subseteq Registered
  /\ ~ spoiled /\ Dispatching =>
       \A m \in wire, i \in Slot :
         Behind(i) /\ slot[i] \in since \cap Wanted(m) => slot[i] \in served

Whence == Types /\ FreshInv /\ SeenInv

LEMMA FreshDispatch ==
  ASSUME Whence, NEW m \in Message, wire = {m}, Dispatching, ~ spoiled
  PROVE  Dispatched(m) = Whole(m)
<1>1. CASE Size[m] = 1
  BY <1>1 DEF Dispatched
<1>2. CASE Size[m] # 1
  <2>1. Size[m] > 1
    BY <1>2, MessageAssumption
  <2>2. rx = Units(m, Size[m]) /\ rx_topic = Topic[m]
    BY <2>1 DEF Whence, FreshInv, Holds
  <2> QED
    BY <1>2, <2>2 DEF Dispatched, Whole
<1> QED
  BY <1>1, <1>2

LEMMA SessionFresh ==
  ASSUME Whence, Session
  PROVE  FreshInv' /\ SeenInv'
<1>a. BufferInv
  BY DEF Whence, Types
<1> USE DEF sessionVars, registryVars, netVars, wireVars, rxVars, historyVars
<1>1. CASE Start \/ StoreHandle \/ TearHard \/ TearTimer
  <2>1. UNCHANGED <<slot, net, at, wire, offset, allocated, rx, total, rx_topic, dropping, served,
                    since, spoiled>>
    BY <1>1 DEF Start, StoreHandle, TearHard, TearTimer
  <2> QED
    BY <2>1 DEF Whence, FreshInv, SeenInv, Holds, Dispatching, Behind, Registered
<1>2. CASE Connected \/ Reissue \/ ReissueEnds \/ Freed
  <2>1. wire = {} /\ UNCHANGED <<slot, wire, since>>
    BY <1>2, <1>a DEF Connected, Reissue, ReissueEnds, Freed, NetRuns, BufferInv, SessionInv
  <2> QED
    BY <2>1 DEF Whence, FreshInv, SeenInv, Registered
<1>3. CASE Disconnected \/ Stopped
  <2>1. wire' = {} /\ since' = {}
    BY <1>3 DEF Disconnected, Stopped, Cut, MessageEnds
  <2> QED
    BY <2>1 DEF FreshInv, SeenInv
<1> QED
  BY <1>1, <1>2, <1>3 DEF Session

LEMMA RegistryFresh ==
  ASSUME Whence, Registry
  PROVE  FreshInv' /\ SeenInv'
<1>a. RegistryInv
  BY DEF Whence, Types
<1>1. UNCHANGED <<net, at, wire, offset, allocated, rx, total, rx_topic, dropping, spoiled>>
  BY RegistryLeaves DEF RegistryFrame, Registry, CallSubscribe, CallUnsubscribe, Store, Issue, Tell,
     Clear, netVars, wireVars, rxVars, historyVars
<1>2. FreshInv'
  BY <1>1 DEF Whence, FreshInv, Holds, Dispatching
<1>3. \A i \in Slot : Behind(i)' <=> Behind(i)
  BY <1>1 DEF Behind
<1>4. CASE Store
  <2>1. Registered \subseteq Registered' /\ UNCHANGED <<since, served>>
    BY <1>a, <1>4, StoreRegisters DEF Store, historyVars
  <2>2. \A i \in Slot : slot'[i] = slot[i] \/ slot'[i] \notin since
    <3>1. CASE slot' = slot
      BY <3>1
    <3>2. CASE slot' # slot
      <4>1. op.filter \notin Registered /\ slot' = [slot EXCEPT ![op.pos] = op.filter]
        BY <1>a, <1>4, <3>2, StoreRegisters DEF Store
      <4>2. \A i \in Slot : slot'[i] = slot[i] \/ slot'[i] = op.filter
        BY <1>a, <4>1 DEF RegistryInv
      <4> QED
        BY <4>1, <4>2 DEF Whence, SeenInv
    <3> QED
      BY <3>1, <3>2
  <2> QED
    BY <1>1, <1>2, <1>3, <2>1, <2>2 DEF Whence, SeenInv, Dispatching
<1>5. CASE Clear
  <2>1. /\ Registered' = Registered \ {op.filter}
        /\ \A i \in Slot : slot'[i] = IF slot[i] = op.filter THEN NoFilter ELSE slot[i]
        /\ served' = served \ {op.filter} /\ since' = since \ {op.filter}
    BY <1>a, <1>5, ClearUnregisters DEF Clear
  <2>2. NoFilter \notin since'
    BY <2>1 DEF Whence, SeenInv, Registered
  <2> QED
    BY <1>1, <1>2, <1>3, <2>1, <2>2 DEF Whence, SeenInv, Dispatching
<1>6. CASE ~ Store /\ ~ Clear
  <2>1. UNCHANGED <<slot, since, served>>
    BY <1>a, <1>6, RegistryCallsKeep DEF Registry, CallSubscribe, CallUnsubscribe, Issue, Tell,
       historyVars
  <2> QED
    BY <1>1, <1>2, <1>3, <2>1 DEF Whence, SeenInv, Dispatching, Registered
<1> QED
  BY <1>4, <1>5, <1>6

(* A message that is over, or of which a unit is gone, is owed nothing.    *)
LEMMA Nothing ==
  ASSUME since' \subseteq Registered', wire' = {} \/ spoiled'
  PROVE  FreshInv' /\ SeenInv'
BY DEF FreshInv, SeenInv

LEMMA DataFresh ==
  ASSUME Whence, NEW m \in Message, CallReturns \/ Data(m)
  PROVE  FreshInv' /\ SeenInv'
<1>a. /\ Size[m] \in Nat \ {0} /\ since \subseteq Registered
      /\ ProgressOK /\ offset \in Nat /\ at \in Nat \ {0}
      /\ \A i \in Slot : i \in Nat \ {0}
  BY MessageAssumption, SlotAssumption DEF Whence, SeenInv, Types, ProgressOK, FiltersOK, Slot
<1>b. slot' = slot /\ Registered' = Registered
  BY OthersLeaveRegistry DEF Registered
<1> USE DEF netVars, wireVars, rxVars, historyVars, Sending, NetRuns
<1>1. CASE Begin(m)
  <2>1. net' = "idle" /\ offset' = 0 /\ since' = Registered
    BY <1>1 DEF Begin
  <2> QED
    BY <1>b, <2>1 DEF FreshInv, SeenInv, Dispatching
<1>2. CASE Lose(m) \/ Refuse(m)
  <2>1. wire' = {} \/ spoiled'
    BY <1>2 DEF Lose, Refuse, MessageEnds
  <2>2. since' \subseteq since
    BY <1>2 DEF Lose, Refuse, MessageEnds, MessageGoesOn
  <2> QED
    BY <1>a, <1>b, <2>1, <2>2, Nothing
<1>3. CASE Swallow(m) \/ Mismatch(m)
  <2>1. /\ wire = {m} /\ net = "idle" /\ offset > 0 /\ (dropping \/ ~ Expected(m))
        /\ wire' = {} \/ spoiled' = spoiled
        /\ since' \subseteq since
    BY <1>3 DEF Swallow, Mismatch, UnitGone, MessageEnds, MessageGoesOn
  <2>2. ~ spoiled => ~ dropping /\ Holds(m, offset) /\ allocated
    BY <2>1 DEF Whence, FreshInv
  <2>3. ~ spoiled => Expected(m)
    BY <1>a, <2>2, UnitsType DEF Holds, Expected
  <2>4. wire' = {} \/ spoiled'
    BY <2>1, <2>2, <2>3
  <2> QED
    BY <1>a, <1>b, <2>1, <2>4, Nothing
<1>4. CASE Direct(m)
  <2>1. /\ wire' = {m} /\ net' = "dispatch" /\ at' = 1 /\ Size[m] = 1 /\ since' = since
    BY <1>4 DEF Direct
  <2>2. \A i \in Slot : ~ Behind(i)'
    BY <1>a, <2>1 DEF Behind
  <2> QED
    BY <1>a, <1>b, <2>1, <2>2 DEF FreshInv, SeenInv
<1>5. CASE Allocate(m)
  <2>1. /\ wire' = {m} /\ net' = "copy" /\ offset' = 0 /\ Size[m] > 1 /\ since' = since
        /\ allocated' /\ ~ dropping' /\ rx' = <<>> /\ total' = Size[m] /\ rx_topic' = Topic[m]
    BY <1>5 DEF Allocate
  <2>2. Units(m, 0) = <<>>
    BY UnitsType, EmptySeq
  <2>3. Holds(m, offset)'
    BY <1>a, <2>1, <2>2 DEF Holds
  <2> QED
    BY <1>a, <1>b, <2>1, <2>3 DEF FreshInv, SeenInv, Dispatching
<1>6. CASE Continue(m)
  <2>1. /\ wire = {m} /\ net = "idle" /\ net' = "copy" /\ offset > 0
        /\ UNCHANGED <<wire, offset, allocated, rx, total, rx_topic, dropping, since, spoiled>>
    BY <1>6 DEF Continue
  <2> QED
    BY <1>a, <1>b, <2>1 DEF Whence, FreshInv, SeenInv, Dispatching, Holds
<1>7. CASE Copy(m)
  <2>1. /\ wire = {m} /\ net = "copy" /\ offset' = offset + 1
        /\ rx' = Append(rx, <<m, offset + 1>>)
        /\ \/ Len(rx) + 1 >= total /\ net' = "dispatch" /\ at' = 1
           \/ net' = "idle"
        /\ UNCHANGED <<wire, allocated, total, rx_topic, dropping, since, spoiled>>
    BY <1>7 DEF Copy
  <2>2. offset < Size[m] /\ total = Size[m] /\ Len(rx) = offset
    BY <1>a, <2>1 DEF ProgressOK
  <2>3. ASSUME ~ spoiled PROVE Holds(m, offset)' /\ allocated /\ ~ dropping
    <3>1. Holds(m, offset) /\ allocated /\ ~ dropping
      BY <2>1, <2>3 DEF Whence, FreshInv
    <3>2. rx' = Units(m, offset + 1)
      BY <1>a, <2>1, <3>1, UnitsType DEF Holds
    <3> QED
      BY <1>a, <2>1, <2>2, <3>1, <3>2 DEF Holds
  <2>4. net' = "dispatch" => offset' = Size[m] /\ \A i \in Slot : ~ Behind(i)'
    BY <1>a, <2>1, <2>2 DEF Behind
  <2>5. FreshInv'
    BY <2>1, <2>3, <2>4 DEF FreshInv, Dispatching
  <2>6. SeenInv'
    BY <1>a, <1>b, <2>1, <2>4 DEF SeenInv, Dispatching
  <2> QED
    BY <2>5, <2>6
<1>8. CASE CallBack(m) \/ Skip(m) \/ CallReturns
  <2>1. /\ Dispatching /\ Dispatching'
        /\ UNCHANGED <<wire, offset, allocated, rx, total, rx_topic, dropping, since, spoiled>>
    BY <1>8 DEF CallBack, Skip, CallReturns, Dispatching
  <2>2. FreshInv'
    BY <2>1 DEF Whence, FreshInv, Holds, Dispatching
  <2>3. CASE CallReturns
    <3>1. \A i \in Slot : Behind(i)' => Behind(i)
      BY <1>a, <2>3 DEF CallReturns, Behind
    <3>2. served' = served
      BY <2>3 DEF CallReturns
    <3> QED
      BY <1>b, <2>1, <2>2, <3>1, <3>2 DEF Whence, SeenInv
  <2>4. CASE CallBack(m)
    <3>1. \A i \in Slot : Behind(i)' => Behind(i) \/ i = at
      BY <1>a, <2>4 DEF CallBack, Behind
    <3>2. served' = served \cup {slot[at]}
      BY <2>4 DEF CallBack
    <3> QED
      BY <1>b, <2>1, <2>2, <3>1, <3>2 DEF Whence, SeenInv
  <2>5. CASE Skip(m)
    <3>1. wire = {m} /\ ~ Matching(at, Dispatched(m)) /\ served' = served
      BY <2>5 DEF Skip
    <3>2. \A i \in Slot : Behind(i)' => Behind(i) \/ i = at
      BY <1>a, <2>5 DEF Skip, Behind
    <3>3. ~ spoiled => slot[at] \notin Wanted(m)
      <4>1. ~ spoiled => Dispatched(m).topic = Topic[m]
        BY <2>1, <3>1, FreshDispatch DEF Whole
      <4> QED
        BY <3>1, <4>1, SentinelAssumption DEF Matching, Wanted
    <3> QED
      BY <1>b, <2>1, <2>2, <3>1, <3>2, <3>3 DEF Whence, SeenInv
  <2> QED
    BY <1>8, <2>3, <2>4, <2>5
<1>9. CASE DispatchEnds(m)
  BY <1>9 DEF DispatchEnds, MessageEnds, FreshInv, SeenInv
<1> QED
  BY <1>1, <1>2, <1>3, <1>4, <1>5, <1>6, <1>7, <1>8, <1>9 DEF Data

LEMMA WhenceStep == Whence /\ [Next]_vars => Whence'
<1> SUFFICES ASSUME Whence, [Next]_vars PROVE Whence'
  OBVIOUS
<1>1. Types'
  BY TypesStep DEF Whence
<1>2. CASE UNCHANGED vars
  BY <1>1, <1>2 DEF vars, registryVars, netVars, wireVars, rxVars, historyVars, Whence, FreshInv,
     SeenInv, Holds, Dispatching, Behind, Registered
<1>3. \E m : m \in Message
  BY MessageAssumption
<1> QED
  BY <1>1, <1>2, <1>3, SessionFresh, RegistryFresh, DataFresh DEF Next, Whence

(* Only the end of the loop ends a message that is owed something.         *)
LEMMA NothingMissedStep ==
  ASSUME Whence, [Next]_vars, NEW m \in Message, wire = {m}, wire' = {}, link' = "up", ~ spoiled,
         lost' = lost
  PROVE  Due = {}
<1>a. /\ Size[m] \in Nat \ {0} /\ lost \in Nat /\ offset \in Nat
      /\ wire # {}
  BY MessageAssumption, SlotAssumption DEF Whence, Types, ProgressOK
<1>1. Registry \/ CallReturns \/ UNCHANGED vars => wire' = wire
  BY RegistryLeaves DEF RegistryFrame, CallReturns, vars, wireVars
<1>2. Session => wire' = wire \/ link' # "up"
  BY DEF Session, Start, StoreHandle, Connected, Reissue, ReissueEnds, Disconnected, TearHard,
     TearTimer, Stopped, Freed, wireVars
<1>3. PICK h \in Message : Data(h)
  BY <1>a, <1>1, <1>2 DEF Next
<1>4. CASE Lose(h)
  BY <1>a, <1>4 DEF Lose
<1>5. CASE Swallow(h) \/ Mismatch(h)
  <2>1. h = m /\ net = "idle" /\ offset > 0 /\ (dropping \/ ~ Expected(m))
    BY <1>5 DEF Swallow, Mismatch, Sending, NetRuns
  <2>2. ~ dropping /\ Holds(m, offset) /\ allocated
    BY <2>1 DEF Whence, FreshInv
  <2>3. Expected(m)
    BY <1>a, <2>2, UnitsType DEF Holds, Expected
  <2> QED
    BY <2>1, <2>2, <2>3
<1>6. CASE DispatchEnds(h)
  <2>1. net = "dispatch" /\ at > Slots
    BY <1>6 DEF DispatchEnds, NetRuns
  <2>2. \A i \in Slot : Behind(i)
    BY <2>1, SlotAssumption DEF Behind, Slot, Whence, Types, FiltersOK
  <2>3. \A f \in since \cap Wanted(m) : f \in served
    BY <2>1, <2>2 DEF Whence, SeenInv, Dispatching, Registered
  <2> QED
    BY <2>3, DueIs
<1>7. ~ (Lose(h) \/ Swallow(h) \/ Mismatch(h) \/ DispatchEnds(h)) => wire' # {}
  BY <1>a, <1>3 DEF Data, Begin, Direct, Refuse, Allocate, Continue, Copy, CallBack, Skip,
     MessageGoesOn, wireVars
<1> QED
  BY <1>4, <1>5, <1>6, <1>7

(* A message that came whole within one session is missed by no filter     *)
(* registered throughout, however many DATA events were lost before it: no *)
(* earlier message leaves a trace in the assembly that costs the next one. *)
THEOREM NothingMissedAlways == Spec => NothingMissed
<1>1. Init => Whence
  BY InitTypes DEF Init, Whence, FreshInv, SeenInv, Registered
<1>2. Whence /\ [Next]_vars =>
        [\A m \in Message :
           (wire = {m} /\ wire' = {} /\ link' = "up" /\ ~spoiled /\ lost' = lost) => Due = {}]_vars
  BY NothingMissedStep
<1> QED
  BY <1>1, <1>2, WhenceStep, PTL DEF Spec, NothingMissed

-----------------------------------------------------------------------------
\* Induction over the natural numbers

\* The order of the natural numbers is well-founded.
LEMMA NatLess == IsWellFoundedOn({ss \in Nat \X Nat : ss[1] < ss[2]}, Nat)
<1>1. OpToRel(<, Nat) = {ss \in Nat \X Nat : ss[1] < ss[2]}
  BY Zenon DEF OpToRel
<1>2. QED BY Zenon, NatLessThanWellFounded, <1>1

\* A set of natural numbers has a least element.
LEMMA Least ==
  ASSUME NEW S, S \subseteq Nat, S # {}
  PROVE  \E n \in S : \A m \in S : n <= m
<1> DEFINE R == {ss \in Nat \X Nat : ss[1] < ss[2]}
<1>1. PICK n \in S : \A m \in S : <<m, n>> \notin R
  <2>1. IsWellFoundedOn(R, Nat)
    BY NatLess
  <2> HIDE DEF R
  <2>2. QED BY <2>1, WFMin
<1>2. ASSUME NEW m \in S PROVE n <= m
  <2>1. m < n => <<m, n>> \in R
    OBVIOUS
  <2>2. QED BY <1>1, <2>1
<1>3. QED BY <1>2

\* What holds of the first number, and of the next one with each, holds of all.
LEMMA Induction ==
  ASSUME NEW N \in Nat, NEW S, 0 \in S, \A n \in 0 .. N - 1 : n \in S => n + 1 \in S
  PROVE  0 .. N \subseteq S
<1> SUFFICES ASSUME (0 .. N) \ S # {} PROVE FALSE
  OBVIOUS
<1> DEFINE T == (0 .. N) \ S
<1>1. PICK n \in T : \A m \in T : n <= m
  <2>1. T \subseteq Nat /\ T # {}
    OBVIOUS
  <2> HIDE DEF T
  <2>2. QED BY <2>1, Least
<1>2. n - 1 \in 0 .. N - 1 /\ n - 1 \in S
  BY <1>1
<1>3. (n - 1) + 1 \in S
  BY <1>2
<1>4. QED BY <1>1, <1>3

-----------------------------------------------------------------------------
\* Recursive functions

\* How a value follows, at every index of I, from its neighbour.
Rules(I, V) == [I -> [V -> V]]

\* A function of 1 .. N + 1 given by its last value and by how each follows from the next,
\* and one given by its first value and by how each follows from the one before.
IsBackwards(N, V, last, G, f) ==
  /\ f \in [1 .. N + 1 -> V]
  /\ f[N + 1] = last
  /\ \A i \in 1 .. N : f[i] = G[i][f[i + 1]]

IsForwards(N, V, first, G, f) ==
  /\ f \in [1 .. N + 1 -> V]
  /\ f[1] = first
  /\ \A i \in 2 .. N + 1 : f[i] = G[i][f[i - 1]]

\* There is such a function.
LEMMA Backwards ==
  ASSUME NEW N \in Nat, NEW V, NEW last \in V, NEW G \in Rules(1 .. N, V)
  PROVE  \E f : IsBackwards(N, V, last, G, f)
<1> USE DEF Rules, IsBackwards
<1> DEFINE Defined(k, f) == /\ f \in [N + 1 - k .. N + 1 -> V]
                            /\ f[N + 1] = last
                            /\ \A i \in N + 1 - k .. N : f[i] = G[i][f[i + 1]]
           S == {k \in 0 .. N : \E f : Defined(k, f)}
<1>1. 0 \in S
  <2>1. Defined(0, [i \in N + 1 .. N + 1 |-> last])
    OBVIOUS
  <2> HIDE DEF Defined
  <2>2. QED BY <2>1
<1>2. ASSUME NEW k \in 0 .. N - 1, k \in S PROVE k + 1 \in S
  <2>1. PICK f : Defined(k, f)
    BY <1>2
  <2> DEFINE first == N + 1 - (k + 1)
             g == [i \in first .. N + 1 |-> IF i = first THEN G[first][f[first + 1]] ELSE f[i]]
  <2>2. first \in 1 .. N /\ first + 1 = N + 1 - k
    OBVIOUS
  <2>3. G[first] \in [V -> V] /\ f[first + 1] \in V
    BY <2>1, <2>2
  <2>4. G[first][f[first + 1]] \in V
    BY <2>3
  <2> HIDE DEF first
  <2>5. \A i \in first .. N + 1 : i # first => i \in N + 1 - k .. N + 1
    BY <2>2
  <2>6. g \in [first .. N + 1 -> V]
    BY <2>1, <2>4, <2>5
  <2>7. \A i \in first .. N : g[i] = G[i][g[i + 1]]
    <3> SUFFICES ASSUME NEW i \in first .. N PROVE g[i] = G[i][g[i + 1]]
      OBVIOUS
    <3>1. i + 1 \in first .. N + 1 /\ i + 1 # first
      BY <2>2
    <3>2. g[i + 1] = f[i + 1]
      BY <3>1
    <3>3. i # first => f[i] = G[i][f[i + 1]]
      BY <2>1, <2>2
    <3>4. QED BY <3>2, <3>3, <2>2
  <2>8. g[N + 1] = last
    BY <2>1, <2>2
  <2>9. Defined(k + 1, g)
    BY <2>6, <2>7, <2>8 DEF first
  <2> HIDE DEF Defined, g
  <2>10. QED BY <2>9
<1>3. N \in S
  <2> HIDE DEF S
  <2>1. 0 .. N \subseteq S
    BY <1>1, <1>2, Induction
  <2>2. QED BY <2>1
<1>4. QED BY <1>3

LEMMA Forwards ==
  ASSUME NEW N \in Nat, NEW V, NEW first \in V, NEW G \in Rules(2 .. N + 1, V)
  PROVE  \E f : IsForwards(N, V, first, G, f)
<1> DEFINE H == [i \in 1 .. N |-> G[N + 2 - i]]
<1>1. H \in Rules(1 .. N, V)
  BY DEF Rules
<1>2. PICK g : IsBackwards(N, V, first, H, g)
  <2> HIDE DEF H
  <2>1. QED BY <1>1, Backwards
<1> DEFINE f == [i \in 1 .. N + 1 |-> g[N + 2 - i]]
<1>3. f \in [1 .. N + 1 -> V] /\ f[1] = first
  BY <1>2 DEF IsBackwards
<1>4. ASSUME NEW i \in 2 .. N + 1 PROVE f[i] = G[i][f[i - 1]]
  <2> DEFINE k == N + 2 - i
  <2>1. k \in 1 .. N /\ N + 2 - k = i /\ k + 1 = N + 2 - (i - 1) /\ i - 1 \in 1 .. N + 1
    OBVIOUS
  <2>2. f[i] = g[k] /\ f[i - 1] = g[k + 1]
    BY <2>1
  <2>3. H[k] = G[i]
    BY <2>1
  <2> HIDE DEF k, f, H
  <2>4. g[k] = H[k][g[k + 1]]
    BY <1>2, <2>1 DEF IsBackwards
  <2>5. QED BY <2>2, <2>3, <2>4
<1> HIDE DEF f
<1>5. IsForwards(N, V, first, G, f)
  BY <1>3, <1>4 DEF IsForwards
<1>6. QED BY <1>5

\* FlattenSeq appends the sequences one after the other.
LEMMA Flattened ==
  ASSUME NEW C, NEW seqs \in Seq(Seq(C)), seqs # << >>
  PROVE  \E F \in [1 .. Len(seqs) -> Seq(C)] :
           /\ FlattenSeq(seqs) = F[Len(seqs)]
           /\ F[1] = seqs[1]
           /\ \A i \in 2 .. Len(seqs) : F[i] = F[i - 1] \o seqs[i]
<1> DEFINE Step(g) == [i \in 1 .. Len(seqs) |-> IF i = 1 THEN seqs[i] ELSE g[i - 1] \o seqs[i]]
           flat == CHOOSE g : g = Step(g)
<1>1. PICK N \in Nat : Len(seqs) = N + 1
  <2>1. Len(seqs) - 1 \in Nat /\ Len(seqs) = (Len(seqs) - 1) + 1
    OBVIOUS
  <2>2. QED BY <2>1
<1>2. seqs \in [1 .. N + 1 -> Seq(C)]
  BY <1>1
<1>3. PICK F \in [1 .. N + 1 -> Seq(C)] :
         F[1] = seqs[1] /\ \A i \in 2 .. N + 1 : F[i] = F[i - 1] \o seqs[i]
  <2> DEFINE V == Seq(C)
             G == [i \in 2 .. N + 1 |-> [v \in V |-> v \o seqs[i]]]
  <2>1. ASSUME NEW i \in 2 .. N + 1, NEW v \in V PROVE v \o seqs[i] \in V
    BY <1>2, ConcatProperties
  <2>2. G \in Rules(2 .. N + 1, V) /\ seqs[1] \in V
    BY <2>1, <1>2 DEF Rules
  <2>3. PICK F : IsForwards(N, V, seqs[1], G, F)
    <3> HIDE DEF G, V
    <3>1. QED BY <2>2, Forwards
  <2>4. ASSUME NEW i \in 2 .. N + 1 PROVE F[i] = F[i - 1] \o seqs[i]
    <3>1. F[i - 1] \in V /\ F[i] = G[i][F[i - 1]]
      <4> HIDE DEF G, V
      <4>1. QED BY <2>3 DEF IsForwards
    <3>2. QED BY <3>1
  <2>5. QED BY <2>3, <2>4 DEF IsForwards
<1>4. F = Step(F)
  <2>1. ASSUME NEW i \in 1 .. N + 1 PROVE F[i] = Step(F)[i]
    <3>1. Step(F)[i] = IF i = 1 THEN seqs[i] ELSE F[i - 1] \o seqs[i]
      BY <1>1
    <3> HIDE DEF Step
    <3>2. i # 1 => i \in 2 .. N + 1
      OBVIOUS
    <3>3. QED BY <1>3, <3>1, <3>2
  <2>2. DOMAIN F = 1 .. N + 1 /\ F = [i \in 1 .. N + 1 |-> F[i]]
    BY <1>3
  <2>3. Step(F) = [i \in 1 .. N + 1 |-> Step(F)[i]]
    BY <1>1
  <2> HIDE DEF Step
  <2>4. QED BY <2>1, <2>2, <2>3
<1>5. flat = Step(flat)
  <2> HIDE DEF Step
  <2>1. QED BY <1>4
<1>6. FlattenSeq(seqs) = flat[N + 1]
  BY <1>1 DEF FlattenSeq
<1>7. flat = [i \in 1 .. N + 1 |-> flat[i]]
  <2>1. \A g : Step(g) = [i \in 1 .. N + 1 |-> Step(g)[i]]
    BY <1>1
  <2> HIDE DEF flat, Step
  <2>2. Step(flat) = [i \in 1 .. N + 1 |-> Step(flat)[i]]
    BY <2>1
  <2>3. QED BY <1>5, <2>2
<1>8. \A i \in 1 .. N + 1 : flat[i] = IF i = 1 THEN seqs[i] ELSE flat[i - 1] \o seqs[i]
  <2> HIDE DEF flat
  <2>1. QED BY <1>1, <1>5
<1> HIDE DEF flat, Step
<1>9. flat[1] = seqs[1] /\ \A i \in 2 .. N + 1 : flat[i] = flat[i - 1] \o seqs[i]
  <2>1. 1 \in 1 .. N + 1 /\ \A i \in 2 .. N + 1 : i \in 1 .. N + 1 /\ i # 1
    OBVIOUS
  <2>2. QED BY <1>8, <2>1
<1>10. \A i \in 1 .. N + 1 : flat[i] \in Seq(C)
  <2> DEFINE S == {k \in 0 .. N : flat[k + 1] \in Seq(C)}
  <2>1. 0 \in S
    BY <1>2, <1>9
  <2>2. ASSUME NEW k \in 0 .. N - 1, k \in S PROVE k + 1 \in S
    <3>1. flat[(k + 1) + 1] = flat[k + 1] \o seqs[(k + 1) + 1]
      <4>1. (k + 1) + 1 \in 2 .. N + 1 /\ ((k + 1) + 1) - 1 = k + 1
        OBVIOUS
      <4>2. QED BY <1>9, <4>1
    <3>2. flat[k + 1] \in Seq(C) /\ seqs[(k + 1) + 1] \in Seq(C)
      BY <2>2, <1>2
    <3>3. flat[k + 1] \o seqs[(k + 1) + 1] \in Seq(C)
      BY <3>2, ConcatProperties
    <3>4. flat[(k + 1) + 1] \in Seq(C)
      BY <3>1, <3>3
    <3>5. k + 1 \in 0 .. N
      OBVIOUS
    <3>6. QED BY <3>4, <3>5
  <2>3. 0 .. N \subseteq S
    <3> HIDE DEF S
    <3>1. QED BY <2>1, <2>2, Induction
  <2>4. ASSUME NEW i \in 1 .. N + 1 PROVE flat[i] \in Seq(C)
    <3>1. i - 1 \in 0 .. N /\ (i - 1) + 1 = i
      OBVIOUS
    <3>2. QED BY <2>3, <3>1
  <2>5. QED BY <2>4
<1>11. flat \in [1 .. N + 1 -> Seq(C)]
  BY <1>7, <1>10
<1>12. QED BY <1>1, <1>6, <1>9, <1>11

-----------------------------------------------------------------------------
\* Where the levels are in a string

LEMMA FunctionSeq ==
  ASSUME NEW n \in Nat, NEW V, NEW f \in [1 .. n -> V]
  PROVE  f \in Seq(V) /\ Len(f) = n /\ (n # 0 => f # << >>)
OBVIOUS

\* i comes right after j.
Follows(i, j) == j < i /\ i <= j + 1

\* Levels of z[p] characters begin at s[p], and end before e[p], where the separator is.
Layout(n, s, e, z) ==
  /\ s[1] = 1
  /\ \A i \in 1 .. n : e[i] = s[i] + z[i]
  /\ \A i, j \in 1 .. n : Follows(i, j) => s[i] = e[j] + 1

\* e[i] characters are there after i levels, of which the last one has z[i].
Appended(n, F, ls, e, z) ==
  /\ e[1] = z[1] + 1
  /\ F[1][1] = "/"
  /\ \A c \in Nat \ {0} : c <= z[1] => F[1][1 + c] = ls[1][c]
  /\ \A i, j \in 1 .. n : Follows(i, j) =>
       /\ e[i] = e[j] + (z[i] + 1)
       /\ \A c \in Nat \ {0} : c <= e[j] => F[i][c] = F[j][c]
       /\ F[i][e[j] + 1] = "/"
       /\ \A c \in Nat \ {0} : c <= z[i] => F[i][e[j] + 1 + c] = ls[i][c]

\* Level p is where it was put when the k-th has been appended.
Placed(F, ls, s, e, z, k, p) ==
  /\ e[p] <= e[k] /\ (p # k => e[p] < e[k])
  /\ F[k][s[p]] = "/"
  /\ \A c \in Nat \ {0} : c <= z[p] => F[k][s[p] + c] = ls[p][c]

\* Appending level m leaves the levels before it where they are.
LEMMA PlacedNext ==
  ASSUME NEW n \in Nat \ {0}, NEW F, NEW ls,
         NEW e \in [1 .. n -> Nat], NEW z \in [1 .. n -> Nat], NEW s \in [1 .. n -> Nat \ {0}],
         Appended(n, F, ls, e, z),
         Layout(n, s, e, z),
         NEW k \in 1 .. n, NEW m \in 1 .. n, Follows(m, k),
         \A p \in 1 .. k : Placed(F, ls, s, e, z, k, p)
  PROVE  \A p \in 1 .. m : Placed(F, ls, s, e, z, m, p)
<1>1. e[m] = e[k] + (z[m] + 1) /\ s[m] = e[k] + 1
  BY DEF Appended, Layout
<1>2. /\ \A c \in Nat \ {0} : c <= e[k] => F[m][c] = F[k][c]
      /\ F[m][e[k] + 1] = "/"
      /\ \A c \in Nat \ {0} : c <= z[m] => F[m][e[k] + 1 + c] = ls[m][c]
  BY SMTT(60) DEF Appended
<1>3. ASSUME NEW p \in 1 .. n, p <= k PROVE Placed(F, ls, s, e, z, m, p)
  <2>1. Placed(F, ls, s, e, z, k, p) /\ p # m
    BY SMTT(60), <1>3 DEF Follows
  <2>2. e[p] <= e[k]
    BY <2>1 DEF Placed
  <2>3. e[k] < e[m]
    BY SMTT(60), <1>1
  <2>4. e[p] <= e[m] /\ e[p] < e[m]
    BY SMTT(60), <2>2, <2>3
  <2>5. e[p] = s[p] + z[p]
    BY DEF Layout
  <2>6. s[p] <= e[k]
    BY SMTT(60), <2>2, <2>5
  <2>7. F[m][s[p]] = "/"
    BY <1>2, <2>1, <2>6 DEF Placed
  <2>8. ASSUME NEW c \in Nat \ {0}, c <= z[p] PROVE F[m][s[p] + c] = ls[p][c]
    <3>1. s[p] + c \in Nat \ {0} /\ s[p] + c <= e[k]
      BY SMTT(60), <2>2, <2>5, <2>8
    <3>2. F[m][s[p] + c] = F[k][s[p] + c]
      BY <1>2, <3>1
    <3>3. QED BY <2>1, <2>8, <3>2 DEF Placed
  <2>9. QED BY <2>1, <2>4, <2>7, <2>8 DEF Placed
<1>4. Placed(F, ls, s, e, z, m, m)
  BY <1>1, <1>2 DEF Placed
<1>5. \A p \in 1 .. m : p \in 1 .. n /\ (p = m \/ p <= k)
  BY DEF Follows
<1>6. QED BY <1>3, <1>4, <1>5

\* So in the end every level is where it was put.
LEMMA PlacedAll ==
  ASSUME NEW n \in Nat \ {0}, NEW F, NEW ls,
         NEW e \in [1 .. n -> Nat], NEW z \in [1 .. n -> Nat], NEW s \in [1 .. n -> Nat \ {0}],
         Appended(n, F, ls, e, z),
         Layout(n, s, e, z)
  PROVE  \A p \in 1 .. n : Placed(F, ls, s, e, z, n, p)
<1> DEFINE P(k) == \A p \in 1 .. k : Placed(F, ls, s, e, z, k, p)
           S == {k \in 0 .. n - 1 : P(k + 1)}
<1>1. 0 \in S
  <2>1. Placed(F, ls, s, e, z, 1, 1)
    BY DEF Placed, Appended, Layout
  <2>2. QED BY <2>1
<1>2. ASSUME NEW k \in 0 .. (n - 1) - 1, k \in S PROVE k + 1 \in S
  <2>1. PICK i \in 1 .. n, m \in 1 .. n : i = k + 1 /\ m = i + 1 /\ i \in 0 .. n - 1 /\ Follows(m, i)
    <3>1. k + 1 \in 1 .. n /\ (k + 1) + 1 \in 1 .. n /\ k + 1 \in 0 .. n - 1
      OBVIOUS
    <3>2. QED BY <3>1 DEF Follows
  <2>2. P(i)
    BY <1>2, <2>1
  <2>3. P(m)
    BY <2>1, <2>2, PlacedNext
  <2> HIDE DEF P
  <2>4. QED BY <2>1, <2>3
<1>3. n - 1 \in S
  <2>1. n - 1 \in Nat /\ n - 1 \in 0 .. n - 1
    OBVIOUS
  <2> HIDE DEF S
  <2>2. QED BY <1>1, <1>2, <2>1, Induction
<1>4. P((n - 1) + 1)
  <2> HIDE DEF P
  <2>1. QED BY <1>3
<1>5. (n - 1) + 1 = n
  OBVIOUS
<1>6. QED BY <1>4, <1>5

\* In x the u characters of a come first, then those of b.
Concatenated(x, a, b, u, v) ==
  /\ \A c \in Nat \ {0} : c <= u => x[c] = a[c]
  /\ x[u + 1] = b[1]
  /\ \A c \in Nat \ {0} : c <= v => x[u + 1 + c] = b[c + 1]

LEMMA ConcatenatedIs ==
  ASSUME NEW C, NEW a \in Seq(C), NEW b \in Seq(C), NEW u \in Nat, NEW v \in Nat,
         Len(a) = u, Len(b) = v + 1
  PROVE  Concatenated(a \o b, a, b, u, v)
BY SMTT(60), ConcatProperties DEF Concatenated

LEMMA TailAt ==
  ASSUME NEW C, NEW a \in Seq(C), NEW u \in Nat, Len(a) = u, u # 0
  PROVE  /\ Tail(a) \in Seq(C) /\ u = Len(Tail(a)) + 1
         /\ \A c \in Nat \ {0} : c < u => Tail(a)[c] = a[c + 1]
BY SMTT(60), HeadTailProperties

\* x is the levels of ls, with a separator before every one but the first.
Spells(x, n, ls, s, e, z) ==
  /\ Layout(n, s, e, z)
  /\ e[n] = Len(x) + 1
  /\ \A p \in 1 .. n : z[p] = Len(ls[p])
  /\ \A p \in 1 .. n : p # n => e[p] < e[n] /\ x[e[p]] = "/"
  /\ \A p \in 1 .. n, c \in Nat : c < z[p] => x[s[p] + c] = ls[p][c + 1]

\* Join spells its levels: each is somewhere in the string, and separators are between them.
LEMMA JoinSpells ==
  ASSUME NEW C, "/" \in C, NEW n \in Nat \ {0}, NEW ls \in [1 .. n -> Seq(C)]
  PROVE  /\ Join(ls) \in Seq(C)
         /\ \E s \in [1 .. n -> Nat \ {0}], e \in [1 .. n -> Nat], z \in [1 .. n -> Nat] :
              Spells(Join(ls), n, ls, s, e, z)
<1> DEFINE seqs == [i \in 1 .. n |-> <<"/">> \o ls[i]]
<1>1. ASSUME NEW i \in 1 .. n
      PROVE  /\ seqs[i] \in Seq(C)
             /\ Len(seqs[i]) = Len(ls[i]) + 1
             /\ seqs[i][1] = "/"
             /\ \A c \in Nat \ {0} : c <= Len(ls[i]) => seqs[i][c + 1] = ls[i][c]
  <2>1. ls[i] \in Seq(C) /\ <<"/">> \in Seq(C) /\ Len(<<"/">>) = 1
    <3>1. ls[i] \in Seq(C)
      OBVIOUS
    <3>2. <<"/">> \in Seq(C)
      OBVIOUS
    <3>3. Len(<<"/">>) = 1
      OBVIOUS
    <3>4. QED BY <3>1, <3>2, <3>3
  <2>2. seqs[i] = <<"/">> \o ls[i]
    OBVIOUS
  <2>3. seqs[i] \in Seq(C) /\ Len(seqs[i]) = Len(ls[i]) + 1
    BY <2>1, <2>2, ConcatProperties
  <2>4. /\ (<<"/">> \o ls[i])[1] = "/"
        /\ \A c \in Nat \ {0} : c <= Len(ls[i]) => (<<"/">> \o ls[i])[c + 1] = ls[i][c]
    BY SMTT(60), <2>1, ConcatProperties
  <2> HIDE DEF seqs
  <2>5. QED BY <2>1, <2>2, <2>3, <2>4
<1>2. seqs \in Seq(Seq(C)) /\ Len(seqs) = n /\ seqs # << >>
  <2>1. seqs \in [1 .. n -> Seq(C)]
    BY <1>1
  <2> HIDE DEF seqs
  <2>2. QED BY <2>1, FunctionSeq
<1>3. Join(ls) = Tail(FlattenSeq(seqs))
  <2>1. DOMAIN ls = 1 .. n
    OBVIOUS
  <2>2. QED BY <2>1 DEF Join
<1> HIDE DEF seqs
<1>4. PICK F \in [1 .. n -> Seq(C)] :
         /\ FlattenSeq(seqs) = F[n]
         /\ F[1] = seqs[1]
         /\ \A i \in 2 .. n : F[i] = F[i - 1] \o seqs[i]
  <2>1. \E F \in [1 .. Len(seqs) -> Seq(C)] :
           /\ FlattenSeq(seqs) = F[Len(seqs)]
           /\ F[1] = seqs[1]
           /\ \A i \in 2 .. Len(seqs) : F[i] = F[i - 1] \o seqs[i]
    BY <1>2, Flattened
  <2>2. QED BY <1>2, <2>1
<1>5. PICK e \in [1 .. n -> Nat], z \in [1 .. n -> Nat] :
         \A p \in 1 .. n : e[p] = Len(F[p]) /\ z[p] = Len(ls[p])
  <2>1. \A p \in 1 .. n : F[p] \in Seq(C) /\ ls[p] \in Seq(C)
    BY <1>4
  <2>2. /\ [p \in 1 .. n |-> Len(F[p])] \in [1 .. n -> Nat]
        /\ [p \in 1 .. n |-> Len(ls[p])] \in [1 .. n -> Nat]
    BY <2>1
  <2>3. QED BY <2>2
<1>6. ASSUME NEW i \in 1 .. n, NEW j \in 1 .. n, Follows(i, j)
      PROVE  F[i] = F[j] \o seqs[i]
  <2>1. i \in 2 .. n /\ i - 1 = j
    BY <1>6 DEF Follows
  <2>2. F[i] = F[i - 1] \o seqs[i]
    BY <1>4, <2>1
  <2>3. QED BY <2>1, <2>2
<1>7. e[1] = z[1] + 1
  BY SMTT(60), <1>1, <1>4, <1>5
<1>8. ASSUME NEW i \in 1 .. n, NEW j \in 1 .. n, Follows(i, j)
      PROVE  e[i] = e[j] + (z[i] + 1)
  <2>1. F[j] \in Seq(C) /\ seqs[i] \in Seq(C) /\ Len(seqs[i]) = z[i] + 1
    BY SMTT(60), <1>1, <1>5
  <2>2. Len(F[j] \o seqs[i]) = Len(F[j]) + Len(seqs[i])
    BY <2>1, ConcatProperties
  <2>3. QED BY <1>5, <1>6, <1>8, <2>1, <2>2
<1>9. PICK s \in [1 .. n -> Nat \ {0}] : Layout(n, s, e, z)
  <2>1. PICK s \in [1 .. n -> Int] : \A i \in 1 .. n : s[i] = e[i] - z[i]
    <3>1. [i \in 1 .. n |-> e[i] - z[i]] \in [1 .. n -> Int]
      OBVIOUS
    <3>2. QED BY <3>1
  <2>2. s[1] = 1
    BY <1>7, <2>1
  <2>3. \A i \in 1 .. n : e[i] = s[i] + z[i]
    BY SMTT(60), <2>1
  <2>4. ASSUME NEW i \in 1 .. n, NEW j \in 1 .. n, Follows(i, j) PROVE s[i] = e[j] + 1
    <3>1. e[i] = e[j] + (z[i] + 1)
      BY <1>8, <2>4
    <3>2. s[i] = e[i] - z[i]
      BY <2>1
    <3>3. s[i] = (e[j] + (z[i] + 1)) - z[i]
      BY Zenon, <3>1, <3>2
    <3>4. (e[j] + (z[i] + 1)) - z[i] = e[j] + 1
      <4>1. e[j] \in Nat /\ z[i] \in Nat
        OBVIOUS
      <4>2. \A a, b \in Nat : (a + (b + 1)) - b = a + 1
        OBVIOUS
      <4>3. QED BY Zenon, <4>1, <4>2
    <3>5. QED BY Zenon, <3>3, <3>4
  <2>5. ASSUME NEW i \in 1 .. n PROVE s[i] \in Nat \ {0}
    <3>1. i = 1 \/ \E j \in 1 .. n : Follows(i, j)
      <4>1. i # 1 => i - 1 \in 1 .. n /\ Follows(i, i - 1)
        BY DEF Follows
      <4>2. QED BY <4>1
    <3>2. QED BY SMTT(60), <3>1, <2>2, <2>4
  <2>6. QED BY <2>2, <2>3, <2>4, <2>5 DEF Layout
<1>10. Appended(n, F, ls, e, z)
  <2>1. F[1][1] = "/" /\ \A c \in Nat \ {0} : c <= z[1] => F[1][1 + c] = ls[1][c]
    BY <1>1, <1>4, <1>5
  <2>2. ASSUME NEW i \in 1 .. n, NEW j \in 1 .. n, Follows(i, j)
        PROVE  /\ \A c \in Nat \ {0} : c <= e[j] => F[i][c] = F[j][c]
               /\ F[i][e[j] + 1] = "/"
               /\ \A c \in Nat \ {0} : c <= z[i] => F[i][e[j] + 1 + c] = ls[i][c]
    <3>1. F[i] = F[j] \o seqs[i]
      BY <1>6, <2>2
    <3>2. /\ F[j] \in Seq(C) /\ Len(F[j]) = e[j]
          /\ seqs[i] \in Seq(C) /\ Len(seqs[i]) = z[i] + 1 /\ seqs[i][1] = "/"
          /\ \A c \in Nat \ {0} : c <= z[i] => seqs[i][c + 1] = ls[i][c]
      BY <1>1, <1>5
    <3>3. Concatenated(F[j] \o seqs[i], F[j], seqs[i], e[j], z[i])
      <4>1. e[j] \in Nat /\ z[i] \in Nat
        OBVIOUS
      <4>2. QED BY <3>2, <4>1, ConcatenatedIs
    <3>4. Concatenated(F[i], F[j], seqs[i], e[j], z[i])
      BY <3>1, <3>3
    <3>5. /\ \A c \in Nat \ {0} : c <= e[j] => F[i][c] = F[j][c]
          /\ F[i][e[j] + 1] = seqs[i][1]
          /\ \A c \in Nat \ {0} : c <= z[i] => F[i][e[j] + 1 + c] = seqs[i][c + 1]
      BY Zenon, <3>4 DEF Concatenated
    <3>6. \A c \in Nat \ {0} : c <= z[i] => F[i][e[j] + 1 + c] = ls[i][c]
      BY Zenon, <3>2, <3>5
    <3>7. F[i][e[j] + 1] = "/"
      BY Zenon, <3>2, <3>5
    <3>8. QED BY Zenon, <3>5, <3>6, <3>7
  <2>3. QED BY <1>7, <1>8, <2>1, <2>2 DEF Appended
<1>11. \A p \in 1 .. n : Placed(F, ls, s, e, z, n, p)
  BY <1>9, <1>10, PlacedAll
<1>12. Join(ls) = Tail(F[n]) /\ F[n] \in Seq(C) /\ Len(F[n]) = e[n] /\ e[n] # 0
  <2>1. e[n] = s[n] + z[n]
    BY <1>9 DEF Layout
  <2>2. QED BY <1>3, <1>4, <1>5, <2>1
<1>13. /\ Join(ls) \in Seq(C) /\ e[n] = Len(Join(ls)) + 1
       /\ \A i \in Nat \ {0} : i < e[n] => Join(ls)[i] = F[n][i + 1]
  BY <1>12, TailAt
<1>14. ASSUME NEW p \in 1 .. n, p # n PROVE e[p] < e[n] /\ Join(ls)[e[p]] = "/"
  <2>1. PICK q \in 1 .. n : Follows(q, p)
    <3>1. p + 1 \in 1 .. n /\ Follows(p + 1, p)
      BY <1>14 DEF Follows
    <3>2. QED BY <3>1
  <2>2. F[n][s[q]] = "/" /\ s[q] = e[p] + 1
    BY <1>9, <1>11, <2>1 DEF Placed, Layout
  <2>3. e[p] < e[n]
    BY <1>11, <1>14 DEF Placed
  <2>4. e[p] = s[p] + z[p]
    BY <1>9 DEF Layout
  <2>5. e[p] \in Nat \ {0}
    BY SMTT(60), <2>4
  <2>6. QED BY <1>13, <2>2, <2>3, <2>5
<1>15. ASSUME NEW p \in 1 .. n, NEW c \in Nat, c < z[p] PROVE Join(ls)[s[p] + c] = ls[p][c + 1]
  <2>1. e[p] <= e[n] /\ e[p] = s[p] + z[p]
    BY <1>9, <1>11 DEF Placed, Layout
  <2>2. s[p] + c \in Nat \ {0} /\ s[p] + c < e[n]
    BY SMTT(60), <1>15, <2>1
  <2>3. c + 1 \in Nat \ {0} /\ c + 1 <= z[p]
    BY SMTT(60), <1>15
  <2>4. F[n][s[p] + (c + 1)] = ls[p][c + 1]
    BY <1>11, <2>3 DEF Placed
  <2>5. (s[p] + c) + 1 = s[p] + (c + 1)
    BY SMTT(60)
  <2>6. QED BY <1>13, <2>2, <2>4, <2>5
<1>16. Spells(Join(ls), n, ls, s, e, z)
  BY <1>5, <1>9, <1>13, <1>14, <1>15 DEF Spells
<1>17. QED BY <1>13, <1>16

-----------------------------------------------------------------------------
\* The loop of the matcher

\* There is a first separator from j on, or the end of the topic.
LEMMA LevelEndIs ==
  ASSUME NEW y, NEW M \in Nat, Len(y) = M, NEW j \in 1 .. M + 1
  PROVE  /\ LevelEnd(y, j) \in j .. M + 1
         /\ LevelEnd(y, j) > M \/ y[LevelEnd(y, j)] = "/"
         /\ \A l \in j .. LevelEnd(y, j) - 1 : y[l] # "/"
<1> DEFINE S == {k \in j .. M + 1 : k > M \/ y[k] = "/"}
<1>1. PICK k \in S : \A l \in S : k <= l
  <2>1. S \subseteq Nat /\ M + 1 \in S
    OBVIOUS
  <2> HIDE DEF S
  <2>2. QED BY <2>1, Least
<1>2. /\ k \in j .. M + 1
      /\ k > M \/ y[k] = "/"
      /\ \A l \in j .. k - 1 : y[l] # "/"
  BY <1>1
<1>3. QED BY <1>2 DEF LevelEnd

\* From filter position i and topic position j on, the loop returns f[i][j].
IsLoop(f, x, y, N, M) ==
  /\ f \in [1 .. N + 1 -> [1 .. M + 1 -> BOOLEAN]]
  /\ \A j \in 1 .. M + 1 : (f[N + 1][j] <=> j = M + 1)
  /\ \A i \in 1 .. N, j \in 1 .. M + 1 :
       f[i][j] <=> IF x[i] = "#" THEN TRUE
                   ELSE IF x[i] = "+" THEN f[i + 1][LevelEnd(y, j)]
                   ELSE IF j > M THEN x[i] = "/" /\ i < N /\ x[i + 1] = "#"
                   ELSE x[i] = y[j] /\ f[i + 1][j + 1]

\* There is a function that meets the equations of the loop.
LEMMA LoopExists ==
  ASSUME NEW x, NEW y, NEW N \in Nat, NEW M \in Nat, Len(x) = N, Len(y) = M
  PROVE  \E f : IsLoop(f, x, y, N, M)
<1> DEFINE V == [1 .. M + 1 -> BOOLEAN]
           Value(v, i, j) == IF x[i] = "#" THEN TRUE
                             ELSE IF x[i] = "+" THEN v[LevelEnd(y, j)]
                             ELSE IF j > M THEN x[i] = "/" /\ i < N /\ x[i + 1] = "#"
                             ELSE x[i] = y[j] /\ v[j + 1]
           G == [i \in 1 .. N |-> [v \in V |-> [j \in 1 .. M + 1 |-> Value(v, i, j)]]]
           last == [j \in 1 .. M + 1 |-> j = M + 1]
<1>1. ASSUME NEW i \in 1 .. N, NEW v \in V, NEW j \in 1 .. M + 1 PROVE Value(v, i, j) \in BOOLEAN
  <2>1. v[LevelEnd(y, j)] \in BOOLEAN
    BY SMTT(60), LevelEndIs
  <2>2. j <= M => v[j + 1] \in BOOLEAN
    OBVIOUS
  <2>3. QED BY <2>1, <2>2
<1> HIDE DEF Value
<1>2. G \in Rules(1 .. N, V) /\ last \in V
  BY <1>1 DEF Rules
<1>3. PICK f : IsBackwards(N, V, last, G, f)
  <2> HIDE DEF G, V, last
  <2>1. QED BY <1>2, Backwards
<1>4. f \in [1 .. N + 1 -> V] /\ f[N + 1] = last
  BY <1>3 DEF IsBackwards
<1>5. ASSUME NEW i \in 1 .. N, NEW j \in 1 .. M + 1 PROVE f[i][j] = Value(f[i + 1], i, j)
  <2>1. f[i] = G[i][f[i + 1]]
    <3> HIDE DEF G, V, last
    <3>1. QED BY <1>3 DEF IsBackwards
  <2>2. f[i + 1] \in V
    BY <1>4
  <2>3. QED BY <2>1, <2>2
<1>6. \A j \in 1 .. M + 1 : (f[N + 1][j] <=> j = M + 1)
  BY <1>4
<1>7. IsLoop(f, x, y, N, M)
  <2> HIDE DEF last
  <2>1. QED BY <1>4, <1>5, <1>6 DEF IsLoop, Value
<1>8. QED BY <1>7

\* That is what FilterMatches computes.
LEMMA MatcherLoop ==
  ASSUME NEW x, NEW y, NEW N \in Nat, NEW M \in Nat, Len(x) = N, Len(y) = M
  PROVE  \E f : IsLoop(f, x, y, N, M) /\ FilterMatches(x, y) = f[1][1]
<1> DEFINE V == [1 .. M + 1 -> BOOLEAN]
           Value(g, i, j) == IF i > N THEN j > M
                             ELSE IF x[i] = "#" THEN TRUE
                             ELSE IF x[i] = "+" THEN g[i + 1][LevelEnd(y, j)]
                             ELSE IF j > M THEN x[i] = "/" /\ i < N /\ x[i + 1] = "#"
                             ELSE x[i] = y[j] /\ g[i + 1][j + 1]
           Step(g) == [i \in 1 .. N + 1 |-> [j \in 1 .. M + 1 |-> Value(g, i, j)]]
           f == CHOOSE g : g = Step(g)
<1>1. PICK h : IsLoop(h, x, y, N, M)
  BY LoopExists
<1>2. ASSUME NEW i \in 1 .. N + 1, NEW j \in 1 .. M + 1 PROVE h[i][j] = Value(h, i, j)
  <2>1. h[i][j] \in BOOLEAN
    BY <1>1 DEF IsLoop
  <2>2. CASE i > N
    <3>1. h[i][j] <=> j > M
      BY <1>1, <2>2 DEF IsLoop
    <3>2. h[i][j] = (j > M)
      BY <2>1, <3>1
    <3>3. Value(h, i, j) = (j > M)
      BY <2>2
    <3> HIDE DEF Value
    <3>4. QED BY <3>2, <3>3
  <2>3. CASE ~ (i > N)
    <3>1. i \in 1 .. N
      BY <2>3
    <3>2. h[i + 1][LevelEnd(y, j)] \in BOOLEAN /\ (~ (j > M) => h[i + 1][j + 1] \in BOOLEAN)
      <4>1. h[i + 1] \in [1 .. M + 1 -> BOOLEAN] /\ (~ (j > M) => j + 1 \in 1 .. M + 1)
        BY <1>1, <3>1 DEF IsLoop
      <4>2. LevelEnd(y, j) \in 1 .. M + 1
        BY LevelEndIs
      <4>3. QED BY <4>1, <4>2
    <3>3. Value(h, i, j) \in BOOLEAN
      BY Zenon, <2>3, <3>2
    <3>4. h[i][j] <=> Value(h, i, j)
      BY Zenon, <1>1, <2>3, <3>1 DEF IsLoop
    <3> HIDE DEF Value
    <3>5. QED BY <2>1, <3>3, <3>4
  <2>4. QED BY <2>2, <2>3
<1> HIDE DEF Value
<1>3. h = Step(h)
  <2>1. h = [i \in 1 .. N + 1 |-> [j \in 1 .. M + 1 |-> h[i][j]]]
    BY <1>1 DEF IsLoop
  <2>2. QED BY <1>2, <2>1
<1>4. f = Step(f)
  <2> HIDE DEF Step
  <2>1. QED BY <1>3
<1>5. FilterMatches(x, y) = f[1][1]
  BY DEF FilterMatches, Value
<1> HIDE DEF f
<1>6. \A i \in 1 .. N + 1 : f[i] = [j \in 1 .. M + 1 |-> Value(f, i, j)]
  <2>1. \A g : \A i \in 1 .. N + 1 : Step(g)[i] = [j \in 1 .. M + 1 |-> Value(g, i, j)]
    OBVIOUS
  <2>2. \A i \in 1 .. N + 1 : Step(f)[i] = [j \in 1 .. M + 1 |-> Value(f, i, j)]
    BY <2>1
  <2> HIDE DEF Step
  <2>3. QED BY Zenon, <1>4, <2>2
<1>7. f = [i \in 1 .. N + 1 |-> f[i]]
  <2>1. \A g : Step(g) = [i \in 1 .. N + 1 |-> Step(g)[i]]
    OBVIOUS
  <2> HIDE DEF Step
  <2>2. Step(f) = [i \in 1 .. N + 1 |-> Step(f)[i]]
    BY <2>1
  <2>3. QED BY Zenon, <1>4, <2>2
<1>8. ASSUME NEW i \in 1 .. N + 1, i # N + 1 => f[i + 1] \in V PROVE f[i] \in V
  <2>1. ASSUME NEW j \in 1 .. M + 1 PROVE Value(f, i, j) \in BOOLEAN
    <3>1. CASE i > N
      <4>1. Value(f, i, j) = (j > M)
        BY <3>1 DEF Value
      <4>2. QED BY <4>1
    <3>2. CASE ~ (i > N)
      <4>1. f[i + 1] \in V
        BY <1>8, <3>2
      <4>2. LevelEnd(y, j) \in 1 .. M + 1 /\ (~ (j > M) => j + 1 \in 1 .. M + 1)
        BY LevelEndIs
      <4>3. f[i + 1][LevelEnd(y, j)] \in BOOLEAN /\ (~ (j > M) => f[i + 1][j + 1] \in BOOLEAN)
        BY <4>1, <4>2
      <4>4. QED BY Zenon, <3>2, <4>3 DEF Value
    <3>3. QED BY <3>1, <3>2
  <2>2. QED BY <1>6, <2>1
<1>9. \A i \in 1 .. N + 1 : f[i] \in V
  <2> DEFINE S == {k \in 0 .. N : f[N + 1 - k] \in V}
  <2> HIDE DEF V
  <2>1. 0 \in S
    BY <1>8
  <2>2. ASSUME NEW k \in 0 .. N - 1, k \in S PROVE k + 1 \in S
    <3>1. PICK i \in 1 .. N + 1 : i = N + 1 - (k + 1) /\ i + 1 = N + 1 - k
      <4>1. N + 1 - (k + 1) \in 1 .. N + 1 /\ (N + 1 - (k + 1)) + 1 = N + 1 - k
        OBVIOUS
      <4>2. QED BY <4>1
    <3>2. f[i] \in V
      BY <2>2, <3>1, <1>8
    <3>3. k + 1 \in 0 .. N
      OBVIOUS
    <3>4. QED BY <3>1, <3>2, <3>3
  <2>3. 0 .. N \subseteq S
    <3> HIDE DEF S
    <3>1. QED BY <2>1, <2>2, Induction
  <2>4. ASSUME NEW i \in 1 .. N + 1 PROVE f[i] \in V
    <3>1. N + 1 - i \in 0 .. N /\ N + 1 - (N + 1 - i) = i
      OBVIOUS
    <3>2. N + 1 - i \in S
      BY <2>3, <3>1
    <3>3. QED BY <3>1, <3>2
  <2>5. QED BY <2>4
<1>10. ASSUME NEW i \in 1 .. N + 1, NEW j \in 1 .. M + 1 PROVE f[i][j] <=> Value(f, i, j)
  <2>1. f[i][j] = Value(f, i, j)
    <3>1. f[i] = [k \in 1 .. M + 1 |-> Value(f, i, k)]
      BY Zenon, <1>6
    <3>2. QED BY Zenon, <3>1
  <2>2. QED BY <2>1
<1>11. IsLoop(f, x, y, N, M)
  <2>1. f \in [1 .. N + 1 -> V]
    BY <1>7, <1>9
  <2>2. ASSUME NEW j \in 1 .. M + 1 PROVE f[N + 1][j] <=> j = M + 1
    <3>1. N + 1 \in 1 .. N + 1 /\ N + 1 > N /\ (j > M <=> j = M + 1)
      OBVIOUS
    <3>2. QED BY Zenon, <3>1, <1>10 DEF Value
  <2>3. \A i \in 1 .. N : i \in 1 .. N + 1 /\ ~ (i > N)
    OBVIOUS
  <2>4. QED BY Zenon, <2>1, <2>2, <2>3, <1>10 DEF IsLoop, Value
<1>12. QED BY <1>5, <1>11

-----------------------------------------------------------------------------
\* What the loop does with one level

\* From i and j on, c characters of the filter are no wildcards, and are those of the topic.
Agree(x, y, i, j, c) ==
  \A k \in Nat : k < c => x[i + k] \notin {"+", "#"} /\ x[i + k] = y[j + k]

\* The loop runs through them.
LEMMA RunsThrough ==
  ASSUME NEW x, NEW y, NEW N \in Nat, NEW M \in Nat, NEW f, IsLoop(f, x, y, N, M),
         NEW i \in 1 .. N + 1, NEW j \in 1 .. M + 1, NEW c \in Nat,
         i + c <= N + 1, j + c <= M + 1, Agree(x, y, i, j, c)
  PROVE  f[i][j] <=> f[i + c][j + c]
<1> DEFINE S == {k \in 0 .. c : f[i][j] <=> f[i + k][j + k]}
<1>1. 0 \in S
  <2>1. i + 0 = i /\ j + 0 = j
    OBVIOUS
  <2>2. f[i][j] <=> f[i + 0][j + 0]
    BY <2>1
  <2>3. 0 \in 0 .. c
    OBVIOUS
  <2>4. QED BY <2>2, <2>3
<1>2. ASSUME NEW k \in 0 .. c - 1, k \in S PROVE k + 1 \in S
  <2>1. PICK u \in 1 .. N, v \in 1 .. M + 1 :
          u = i + k /\ v = j + k /\ ~ (v > M) /\ u + 1 = i + (k + 1) /\ v + 1 = j + (k + 1)
    <3>1. /\ i + k \in 1 .. N /\ j + k \in 1 .. M + 1 /\ ~ (j + k > M)
          /\ (i + k) + 1 = i + (k + 1) /\ (j + k) + 1 = j + (k + 1)
      OBVIOUS
    <3>2. QED BY <3>1
  <2>2. x[u] \notin {"+", "#"} /\ x[u] = y[v]
    BY <2>1 DEF Agree
  <2>3. f[u][v] <=> f[u + 1][v + 1]
    BY <2>1, <2>2 DEF IsLoop
  <2>4. f[i][j] <=> f[u][v]
    BY <1>2, <2>1
  <2>5. k + 1 \in 0 .. c
    OBVIOUS
  <2>6. f[i][j] <=> f[i + (k + 1)][j + (k + 1)]
    BY <2>1, <2>3, <2>4
  <2>7. QED BY <2>5, <2>6
<1>3. c \in S
  <2>1. c \in 0 .. c
    OBVIOUS
  <2> HIDE DEF S
  <2>2. QED BY <1>1, <1>2, <2>1, Induction
<1>4. QED BY <1>3

\* It stops at a character of the filter that is none of the topic's.
LEMMA Stops ==
  ASSUME NEW x, NEW y, NEW N \in Nat, NEW M \in Nat, NEW f, IsLoop(f, x, y, N, M),
         NEW i \in 1 .. N, NEW j \in 1 .. M + 1, x[i] \notin {"+", "#"},
         IF j > M THEN x[i] # "/" ELSE x[i] # y[j]
  PROVE  ~ f[i][j]
BY DEF IsLoop

\* The n characters from i on are those of a level: neither separator nor wildcard.
Plain(x, i, n) == \A k \in Nat : k < n => x[i + k] \notin {"/", "+", "#"}

\* A level of a filter or a topic ends at e: at a separator or with the string.
Ends(x, e, N) == IF e > N THEN e = N + 1 ELSE x[e] = "/"

SameChars(x, y, i, j, n, w) == n = w /\ \A k \in Nat : k < n => x[i + k] = y[j + k]

\* Two levels without wildcards match if they are the same and what follows matches.
LEMMA PlainLevel ==
  ASSUME NEW x, NEW y, NEW N \in Nat, NEW M \in Nat, NEW f, IsLoop(f, x, y, N, M),
         NEW i \in 1 .. N + 1, NEW j \in 1 .. M + 1, NEW n \in Nat, NEW w \in Nat,
         i + n <= N + 1, j + w <= M + 1,
         Plain(x, i, n), Plain(y, j, w), Ends(x, i + n, N), Ends(y, j + w, M)
  PROVE  f[i][j] <=> SameChars(x, y, i, j, n, w) /\ f[i + n][j + w]
<1>1. CASE SameChars(x, y, i, j, n, w)
  <2>1. n = w /\ Agree(x, y, i, j, n)
    BY <1>1 DEF SameChars, Agree, Plain
  <2>2. f[i][j] <=> f[i + n][j + n]
    BY <2>1, RunsThrough
  <2>3. QED BY <1>1, <2>1, <2>2
<1>2. CASE \E k \in Nat : k < n /\ k < w /\ x[i + k] # y[j + k]
  <2> DEFINE S == {k \in Nat : k < n /\ k < w /\ x[i + k] # y[j + k]}
  <2>1. PICK k \in S : \A l \in S : k <= l
    <3>1. S \subseteq Nat /\ S # {}
      BY <1>2
    <3> HIDE DEF S
    <3>2. QED BY <3>1, Least
  <2>2. k \in Nat /\ k < n /\ k < w /\ x[i + k] # y[j + k]
    BY <2>1
  <2>3. ASSUME NEW l \in Nat, l < k PROVE x[i + l] \notin {"+", "#"} /\ x[i + l] = y[j + l]
    <3>1. l < n /\ l < w /\ ~ (k <= l)
      BY <2>2, <2>3
    <3>2. l \notin S
      BY <2>1, <3>1
    <3>3. QED BY <3>1, <3>2 DEF Plain
  <2>4. Agree(x, y, i, j, k)
    BY <2>3 DEF Agree
  <2>5. f[i][j] <=> f[i + k][j + k]
    BY <2>2, <2>4, RunsThrough
  <2>6. ~ f[i + k][j + k]
    <3>1. i + k \in 1 .. N /\ j + k \in 1 .. M + 1 /\ ~ (j + k > M)
      BY <2>2
    <3>2. x[i + k] \notin {"+", "#"}
      BY <2>2 DEF Plain
    <3>3. QED BY <2>2, <3>1, <3>2, Stops
  <2>7. ~ SameChars(x, y, i, j, n, w)
    BY <2>2 DEF SameChars
  <2>8. QED BY <2>5, <2>6, <2>7
<1>3. CASE n < w /\ \A k \in Nat : k < n => x[i + k] = y[j + k]
  <2>1. f[i][j] <=> f[i + n][j + n]
    <3>1. Agree(x, y, i, j, n) /\ j + n <= M + 1
      BY <1>3 DEF Agree, Plain
    <3>2. QED BY <3>1, RunsThrough
  <2>2. ~ f[i + n][j + n]
    <3>1. j + n \in 1 .. M + 1 /\ ~ (j + n > M) /\ j + n # M + 1
      BY <1>3
    <3>2. CASE i + n > N
      <4>1. i + n = N + 1
        BY <3>2 DEF Ends
      <4>2. QED BY <3>1, <4>1 DEF IsLoop
    <3>3. CASE ~ (i + n > N)
      <4>1. i + n \in 1 .. N /\ x[i + n] = "/"
        BY <3>3 DEF Ends
      <4>2. y[j + n] # "/"
        BY <1>3 DEF Plain
      <4>3. x[i + n] \notin {"+", "#"} /\ x[i + n] # y[j + n]
        BY <4>1, <4>2
      <4>4. IF j + n > M THEN x[i + n] # "/" ELSE x[i + n] # y[j + n]
        BY Zenon, <3>1, <4>3
      <4>5. QED BY Zenon, <3>1, <4>1, <4>3, <4>4, Stops
    <3>4. QED BY <3>2, <3>3
  <2>3. ~ SameChars(x, y, i, j, n, w)
    BY <1>3 DEF SameChars
  <2>4. QED BY <2>1, <2>2, <2>3
<1>4. CASE w < n /\ \A k \in Nat : k < w => x[i + k] = y[j + k]
  <2>1. f[i][j] <=> f[i + w][j + w]
    <3>1. Agree(x, y, i, j, w) /\ i + w <= N + 1
      BY <1>4 DEF Agree, Plain
    <3>2. QED BY <3>1, RunsThrough
  <2>2. ~ f[i + w][j + w]
    <3>1. i + w \in 1 .. N /\ j + w \in 1 .. M + 1 /\ x[i + w] \notin {"/", "+", "#"}
      BY <1>4 DEF Plain
    <3>2. ~ (j + w > M) => y[j + w] = "/"
      BY DEF Ends
    <3>3. QED BY <3>1, <3>2, Stops
  <2>3. ~ SameChars(x, y, i, j, n, w)
    BY <1>4 DEF SameChars
  <2>4. QED BY <2>1, <2>2, <2>3
<1>5. \/ SameChars(x, y, i, j, n, w)
      \/ \E k \in Nat : k < n /\ k < w /\ x[i + k] # y[j + k]
      \/ n < w /\ \A k \in Nat : k < n => x[i + k] = y[j + k]
      \/ w < n /\ \A k \in Nat : k < w => x[i + k] = y[j + k]
  BY DEF SameChars
<1>6. QED BY <1>1, <1>2, <1>3, <1>4, <1>5

-----------------------------------------------------------------------------
\* The loop from level to level

PlainChars(l) == \A c \in Nat : c < Len(l) => l[c + 1] \notin {"/", "+", "#"}

\* A level of a filter is a wildcard, of which '#' is the last level, or plain.
FilterLevel(l, last) ==
  \/ l = <<"+">>
  \/ l = <<"#">> /\ last
  \/ PlainChars(l)

\* x, of N characters, is the n levels of ls, and these are where they begin, where they
\* end and how long they are.
Written(x, N, n, ls, s, e, z) ==
  /\ N \in Nat /\ N = Len(x) /\ n \in Nat \ {0}
  /\ s \in [1 .. n -> Nat \ {0}] /\ e \in [1 .. n -> Nat] /\ z \in [1 .. n -> Nat]
  /\ Spells(x, n, ls, s, e, z)

\* Level l is the c characters of x from i on, and ends at k.
LevelAt(x, N, l, last, i, k, c) ==
  /\ i \in 1 .. N + 1 /\ k \in 1 .. N + 1 /\ c \in Nat /\ k = i + c
  /\ Ends(x, k, N)
  /\ last <=> k = N + 1
  /\ c = Len(l)
  /\ \A b \in Nat : b < c => x[i + b] = l[b + 1]

\* Every level of a string that was written from levels has its place in it.
LEMMA LevelPlace ==
  ASSUME NEW x, NEW N, NEW n, NEW ls, NEW s, NEW e, NEW z,
         Written(x, N, n, ls, s, e, z), NEW p \in 1 .. n
  PROVE  LevelAt(x, N, ls[p], p = n, s[p], e[p], z[p])
<1>1. /\ N \in Nat /\ N = Len(x) /\ n \in Nat \ {0} /\ n \in 1 .. n
      /\ s[p] \in Nat \ {0} /\ e[p] \in Nat /\ z[p] \in Nat
  BY DEF Written
<1>2. e[p] = s[p] + z[p] /\ e[n] = N + 1 /\ z[p] = Len(ls[p])
  BY <1>1 DEF Written, Spells, Layout
<1>3. p # n => e[p] < e[n] /\ x[e[p]] = "/"
  BY DEF Written, Spells
<1>4. e[p] <= N + 1 /\ s[p] <= N + 1 /\ (p = n <=> e[p] = N + 1) /\ e[p] >= 1
  BY SMTT(60), <1>1, <1>2, <1>3
<1>5. Ends(x, e[p], N)
  BY <1>1, <1>2, <1>3, <1>4 DEF Ends
<1>6. \A b \in Nat : b < z[p] => x[s[p] + b] = ls[p][b + 1]
  BY Zenon DEF Written, Spells
<1>7. QED BY <1>1, <1>2, <1>4, <1>5, <1>6 DEF LevelAt

\* A level without wildcards, in the string.
LEMMA PlainPlace ==
  ASSUME NEW x, NEW N, NEW l, NEW last, NEW i, NEW k, NEW c,
         LevelAt(x, N, l, last, i, k, c), PlainChars(l)
  PROVE  Plain(x, i, c)
BY DEF LevelAt, PlainChars, Plain

\* A level that is a wildcard, in the string.
LEMMA WildcardPlace ==
  ASSUME NEW x, NEW N \in Nat, NEW l, NEW a, l = <<a>>, NEW last, NEW i, NEW k, NEW c,
         LevelAt(x, N, l, last, i, k, c)
  PROVE  x[i] = a /\ i \in 1 .. N /\ k = i + 1
<1>1. c = 1
  BY DEF LevelAt
<1>2. i \in 1 .. N /\ k = i + 1
  BY <1>1 DEF LevelAt
<1>3. x[i + 0] = <<a>>[0 + 1]
  BY <1>1 DEF LevelAt
<1>4. QED BY <1>2, <1>3

\* Two levels of the same characters are the same.
LEMMA SameLevel ==
  ASSUME NEW C, NEW k \in Seq(C), NEW l \in Seq(C)
  PROVE  k = l <=> Len(k) = Len(l) /\ \A c \in Nat : c < Len(k) => k[c + 1] = l[c + 1]
<1>1. ASSUME Len(k) = Len(l), \A c \in Nat : c < Len(k) => k[c + 1] = l[c + 1] PROVE k = l
  <2>1. \A i \in 1 .. Len(k) : k[i] = l[i]
    <3> SUFFICES ASSUME NEW i \in 1 .. Len(k) PROVE k[i] = l[i]
      OBVIOUS
    <3>1. i - 1 \in Nat /\ i - 1 < Len(k) /\ (i - 1) + 1 = i
      OBVIOUS
    <3>2. k[(i - 1) + 1] = l[(i - 1) + 1]
      BY <1>1, <3>1
    <3>3. QED BY <3>1, <3>2
  <2>2. QED BY <1>1, <2>1, SeqEqual
<1>2. QED BY <1>1

\* A level with no separator ends where LevelEnd says.
LEMMA LevelEndUnique ==
  ASSUME NEW y, NEW M \in Nat, Len(y) = M, NEW j \in 1 .. M + 1, NEW w \in Nat, j + w <= M + 1,
         Plain(y, j, w), Ends(y, j + w, M)
  PROVE  LevelEnd(y, j) = j + w
<1>1. PICK k \in j .. M + 1 : /\ k = LevelEnd(y, j)
                              /\ k > M \/ y[k] = "/"
                              /\ \A l \in j .. k - 1 : y[l] # "/"
  BY LevelEndIs
<1>2. CASE k < j + w
  <2>1. k - j \in Nat /\ k - j < w /\ j + (k - j) = k
    BY <1>2
  <2>2. y[k] # "/"
    BY <2>1 DEF Plain
  <2>3. QED BY <1>1, <1>2, <2>2
<1>3. CASE k > j + w
  <2>1. j + w \in j .. k - 1 /\ ~ (j + w > M)
    BY <1>3
  <2>2. y[j + w] = "/"
    BY <2>1 DEF Ends
  <2>3. QED BY <1>1, <2>1, <2>2
<1>4. QED BY <1>1, <1>2, <1>3

\* f is the loop on the strings x of N characters and y of M.
LoopOn(f, x, y, N, M) ==
  N \in Nat /\ M \in Nat /\ Len(x) = N /\ Len(y) = M /\ IsLoop(f, x, y, N, M)

\* A level of a filter that is not '#'.
OneLevelOnly(k) == k = <<"+">> \/ PlainChars(k)

IsOpen(k) == k = <<"#">>

LevelMatch(k, l) == k = <<"+">> \/ k = l

\* A level of the filter against one of the topic: '+' takes it whole, any other must be
\* the same, and then what comes after the two decides.
LEMMA OneLevel ==
  ASSUME NEW f, NEW x, NEW y, NEW N, NEW M, LoopOn(f, x, y, N, M),
         NEW C, NEW k \in Seq(C), NEW l \in Seq(C), NEW last, NEW lastTopic,
         NEW i, NEW e, NEW c, LevelAt(x, N, k, last, i, e, c),
         NEW j, NEW d, NEW w, LevelAt(y, M, l, lastTopic, j, d, w),
         OneLevelOnly(k), PlainChars(l)
  PROVE  f[i][j] <=> LevelMatch(k, l) /\ f[e][d]
<1>1. /\ N \in Nat /\ M \in Nat /\ Len(x) = N /\ Len(y) = M /\ IsLoop(f, x, y, N, M)
      /\ k = <<"+">> \/ PlainChars(k)
  BY DEF LoopOn, OneLevelOnly
<1>2. /\ i \in 1 .. N + 1 /\ e \in 1 .. N + 1 /\ c \in Nat /\ e = i + c
      /\ Ends(x, e, N) /\ c = Len(k)
  BY <1>1 DEF LevelAt
<1>3. /\ j \in 1 .. M + 1 /\ d \in 1 .. M + 1 /\ w \in Nat /\ d = j + w
      /\ Ends(y, d, M) /\ w = Len(l)
  BY <1>1 DEF LevelAt
<1>4. /\ i + c <= N + 1 /\ Ends(x, i + c, N)
      /\ j + w <= M + 1 /\ Ends(y, j + w, M)
  BY <1>1, <1>2, <1>3
<1>5. i \in 1 .. N + 1 /\ c \in Nat /\ j \in 1 .. M + 1 /\ w \in Nat
  BY <1>1, <1>2, <1>3
<1>6. Plain(y, j, w)
  BY Zenon, PlainPlace
<1>7. CASE k = <<"+">>
  <2>1. x[i] = "+" /\ i \in 1 .. N /\ e = i + 1
    BY SMTT(60), <1>1, <1>7, WildcardPlace
  <2>2. LevelEnd(y, j) = d
    <3>1. LevelEnd(y, j) = j + w
      BY <1>1, <1>6, <1>4, <1>5, LevelEndUnique
    <3>2. QED BY <1>3, <3>1
  <2>3. f[i][j] <=> f[i + 1][LevelEnd(y, j)]
    BY <1>1, <1>3, <2>1 DEF IsLoop
  <2>4. QED BY <1>7, <2>1, <2>2, <2>3 DEF LevelMatch
<1>8. CASE PlainChars(k) /\ k # <<"+">>
  <2>1. Plain(x, i, c)
    BY Zenon, <1>8, PlainPlace
  <2>2. f[i][j] <=> SameChars(x, y, i, j, c, w) /\ f[i + c][j + w]
    BY <1>1, <1>6, <1>4, <1>5, <2>1, PlainLevel
  <2>3. SameChars(x, y, i, j, c, w) <=> k = l
    <3>1. \A b \in Nat : b < c => x[i + b] = k[b + 1]
      BY Zenon DEF LevelAt
    <3>2. \A b \in Nat : b < w => y[j + b] = l[b + 1]
      BY Zenon DEF LevelAt
    <3>3. k = l <=> c = w /\ \A b \in Nat : b < c => k[b + 1] = l[b + 1]
      BY ZenonT(60), <1>1, <1>2, <1>3, SameLevel
    <3>4. QED BY <3>1, <3>2, <3>3 DEF SameChars
  <2>4. QED BY <1>2, <1>3, <1>8, <2>2, <2>3 DEF LevelMatch
<1>9. QED BY <1>1, <1>7, <1>8

\* A '#' takes the rest of the topic.
LEMMA OpenLevel ==
  ASSUME NEW x, NEW y, NEW N \in Nat, NEW M \in Nat, Len(x) = N, Len(y) = M,
         NEW f, IsLoop(f, x, y, N, M),
         NEW l, NEW last, NEW i, NEW e, NEW c, LevelAt(x, N, l, last, i, e, c), l = <<"#">>,
         NEW j \in 1 .. M + 1
  PROVE  f[i][j]
<1>1. x[i] = "#" /\ i \in 1 .. N
  BY SMTT(60), WildcardPlace
<1>2. QED BY <1>1 DEF IsLoop

\* Before another level of the filter, the loop is at a separator.
LEMMA NextLevel ==
  ASSUME NEW x, NEW N, NEW n, NEW ls, NEW s, NEW e, NEW z,
         Written(x, N, n, ls, s, e, z), NEW p \in 1 .. n, NEW r \in 1 .. n, Follows(r, p)
  PROVE  e[p] \in 1 .. N /\ x[e[p]] = "/" /\ s[r] = e[p] + 1
<1>1. /\ N \in Nat /\ n \in Nat /\ p # n /\ e[p] \in Nat
  BY DEF Written, Follows
<1>2. s[r] = e[p] + 1
  BY DEF Written, Spells, Layout
<1>3. x[e[p]] = "/" /\ e[p] < e[n] /\ e[n] = N + 1
  BY <1>1 DEF Written, Spells
<1>4. e[p] = s[p] + z[p] /\ s[p] \in Nat \ {0} /\ z[p] \in Nat
  BY DEF Written, Spells, Layout
<1>5. QED BY <1>1, <1>2, <1>3, <1>4

\* When both have another level, the loop goes on with it.
LEMMA BothGoOn ==
  ASSUME NEW f, NEW x, NEW y, NEW N, NEW M, LoopOn(f, x, y, N, M),
         NEW a \in 1 .. N, x[a] = "/", NEW b \in 1 .. M, y[b] = "/"
  PROVE  f[a][b] <=> f[a + 1][b + 1]
<1>1. N \in Nat /\ M \in Nat /\ IsLoop(f, x, y, N, M)
  BY DEF LoopOn
<1>2. ~ (b > M) /\ b \in 1 .. M + 1
  BY <1>1
<1>3. QED BY <1>1, <1>2 DEF IsLoop

\* When the topic has no more levels, only a '#' that comes next makes the filter match.
LEMMA TopicEnds ==
  ASSUME NEW f, NEW x, NEW y, NEW N, NEW M, LoopOn(f, x, y, N, M),
         NEW a \in 1 .. N, x[a] = "/", NEW i, i = a + 1,
         NEW l, NEW last, NEW e, NEW c, LevelAt(x, N, l, last, i, e, c),
         FilterLevel(l, last)
  PROVE  f[a][M + 1] <=> IsOpen(l)
<1> USE DEF LoopOn, IsOpen
<1>1. M + 1 \in 1 .. M + 1 /\ M + 1 > M
  OBVIOUS
<1>2. f[a][M + 1] <=> a < N /\ x[i] = "#"
  BY <1>1 DEF IsLoop
<1>3. CASE l = <<"#">>
  <2>1. x[i] = "#" /\ i \in 1 .. N
    BY SMTT(60), <1>3, WildcardPlace
  <2>2. QED BY <1>2, <1>3, <2>1
<1>4. CASE l = <<"+">>
  <2>1. x[i] = "+"
    BY SMTT(60), <1>4, WildcardPlace
  <2>2. l # <<"#">>
    BY <1>4
  <2>3. QED BY <1>2, <2>1, <2>2
<1>5. CASE PlainChars(l)
  <2>1. Plain(x, i, c) /\ c \in Nat /\ e = i + c /\ Ends(x, e, N) /\ i \in Nat
    <3>1. Plain(x, i, c)
      BY Zenon, <1>5, PlainPlace
    <3>2. c \in Nat /\ e = i + c /\ Ends(x, e, N) /\ i \in Nat
      BY DEF LevelAt
    <3>3. QED BY <3>1, <3>2
  <2>2. ~ (a < N /\ x[i] = "#")
    <3>1. CASE c = 0
      <4>1. e = i
        BY <2>1, <3>1
      <4>2. QED BY <2>1, <4>1 DEF Ends
    <3>2. CASE c # 0
      <4>1. 0 < c /\ i + 0 = i
        BY <2>1, <3>2
      <4>2. x[i + 0] \notin {"/", "+", "#"}
        BY <2>1, <4>1 DEF Plain
      <4>3. QED BY <4>1, <4>2
    <3>3. QED BY <3>1, <3>2
  <2>3. l # <<"#">>
    <3>1. SUFFICES ASSUME l = <<"#">> PROVE FALSE
      OBVIOUS
    <3>2. Len(l) = 1 /\ l[0 + 1] = "#"
      BY <3>1
    <3>3. 0 < Len(l)
      BY <3>2
    <3>4. QED BY <1>5, <3>2, <3>3 DEF PlainChars
  <2>4. QED BY <1>2, <2>2, <2>3
<1>6. QED BY <1>3, <1>4, <1>5 DEF FilterLevel

-----------------------------------------------------------------------------
\* The rule of the standard from level to level

\* The levels of a filter from p on match those of a topic from q on.
Rest(n, fl, m, tl, p, q) ==
  LET open == fl[n] = <<"#">>
      fixed == IF open THEN n - 1 ELSE n
  IN /\ IF open THEN m - q >= fixed - p ELSE m - q = fixed - p
     /\ \A i \in p .. fixed : LevelMatch(fl[i], tl[q + (i - p)])

\* A last level '#' matches whatever is left of the topic.
LEMMA RestOpen ==
  ASSUME NEW n \in Nat \ {0}, NEW m \in Nat \ {0}, NEW fl, NEW tl, NEW q \in 1 .. m,
         fl[n] = <<"#">>
  PROVE  Rest(n, fl, m, tl, n, q)
BY DEF Rest

\* Another last level matches the last one of the topic.
LEMMA RestLast ==
  ASSUME NEW n \in Nat \ {0}, NEW m \in Nat \ {0}, NEW fl, NEW tl, NEW q \in 1 .. m,
         fl[n] # <<"#">>
  PROVE  Rest(n, fl, m, tl, n, q) <=> LevelMatch(fl[n], tl[q]) /\ q = m
<1>1. \A i \in n .. n : i = n /\ q + (i - n) = q
  OBVIOUS
<1>2. n \in n .. n
  OBVIOUS
<1>3. (\A i \in n .. n : LevelMatch(fl[i], tl[q + (i - n)]))
      <=> LevelMatch(fl[n], tl[q])
  BY <1>1, <1>2
<1>4. m - q = n - n <=> q = m
  OBVIOUS
<1>5. QED BY <1>3, <1>4 DEF Rest

OpenOnlyLast(n, fl) == \A i \in 1 .. n : i < n => fl[i] # <<"#">>

\* With the last level of the topic, a filter that goes on must do so with '#'.
LEMMA RestTopicEnds ==
  ASSUME NEW n \in Nat \ {0}, NEW m \in Nat \ {0}, NEW fl, NEW tl, NEW p \in 1 .. n, p < n,
         NEW r \in 1 .. n, Follows(r, p), OpenOnlyLast(n, fl)
  PROVE  Rest(n, fl, m, tl, p, m) <=>
           LevelMatch(fl[p], tl[m]) /\ IsOpen(fl[r])
<1> DEFINE open == fl[n] = <<"#">>
           fixed == IF open THEN n - 1 ELSE n
<1>1. fixed \in Nat /\ p <= fixed /\ (open => fixed = n - 1) /\ (~ open => fixed = n)
  OBVIOUS
<1>2. IsOpen(fl[r]) <=> open /\ r = n
  BY DEF OpenOnlyLast, IsOpen
<1>3. (IF open THEN m - m >= fixed - p ELSE m - m = fixed - p) <=> open /\ r = n
  BY <1>1 DEF Follows
<1>4. ASSUME open, r = n
      PROVE  (\A i \in p .. fixed : LevelMatch(fl[i], tl[m + (i - p)]))
             <=> LevelMatch(fl[p], tl[m])
  <2>1. p \in p .. fixed /\ \A i \in p .. fixed : i = p /\ m + (i - p) = m
    BY <1>1, <1>4 DEF Follows
  <2>2. QED BY <2>1
<1>5. Rest(n, fl, m, tl, p, m) <=>
        /\ IF open THEN m - m >= fixed - p ELSE m - m = fixed - p
        /\ \A i \in p .. fixed : LevelMatch(fl[i], tl[m + (i - p)])
  BY Zenon DEF Rest
<1> HIDE DEF open, fixed
<1>6. QED BY <1>2, <1>3, <1>4, <1>5

\* While both go on, one level of each is compared and the rest decides.
LEMMA RestNext ==
  ASSUME NEW n \in Nat \ {0}, NEW m \in Nat \ {0}, NEW fl, NEW tl,
         NEW p \in 1 .. n, NEW r \in 1 .. n, Follows(r, p), p < n,
         NEW q \in 1 .. m, NEW u \in 1 .. m, Follows(u, q)
  PROVE  Rest(n, fl, m, tl, p, q) <=>
           LevelMatch(fl[p], tl[q]) /\ Rest(n, fl, m, tl, r, u)
<1> DEFINE open == fl[n] = <<"#">>
           fixed == IF open THEN n - 1 ELSE n
<1>1. fixed \in Nat /\ p <= fixed
  OBVIOUS
<1>2. Rest(n, fl, m, tl, p, q) <=>
        /\ IF open THEN m - q >= fixed - p ELSE m - q = fixed - p
        /\ \A i \in p .. fixed : LevelMatch(fl[i], tl[q + (i - p)])
  BY Zenon DEF Rest
<1>3. Rest(n, fl, m, tl, r, u) <=>
        /\ IF open THEN m - u >= fixed - r ELSE m - u = fixed - r
        /\ \A i \in r .. fixed : LevelMatch(fl[i], tl[u + (i - r)])
  BY Zenon DEF Rest
<1> HIDE DEF open, fixed
<1>4. (m - q >= fixed - p <=> m - u >= fixed - r) /\ (m - q = fixed - p <=> m - u = fixed - r)
  BY <1>1 DEF Follows
<1>5. /\ p \in p .. fixed /\ q + (p - p) = q
      /\ \A i \in r .. fixed : i \in p .. fixed /\ u + (i - r) = q + (i - p)
      /\ \A i \in p .. fixed : i = p \/ i \in r .. fixed
  BY <1>1 DEF Follows
<1>6. (\A i \in p .. fixed : LevelMatch(fl[i], tl[q + (i - p)])) <=>
        /\ LevelMatch(fl[p], tl[q])
        /\ \A i \in r .. fixed : LevelMatch(fl[i], tl[u + (i - r)])
  BY <1>5
<1>7. QED BY <1>2, <1>3, <1>4, <1>6

\* From a level of each on, the loop follows the rule.
Follow(f, n, fl, s, m, tl, t, p) ==
  \A q \in 1 .. m : f[s[p]][t[q]] <=> Rest(n, fl, m, tl, p, q)

\* The levels of a filter, of which no '#' is but the last, and those of a topic.
Levels(C, n, fl, m, tl) ==
  /\ fl \in [1 .. n -> Seq(C)] /\ tl \in [1 .. m -> Seq(C)]
  /\ \A p \in 1 .. n : FilterLevel(fl[p], p = n)
  /\ \A q \in 1 .. m : PlainChars(tl[q])

\* The loop is on a filter of levels fl and a topic of levels tl.
OnLevels(f, x, y, N, M, C, n, fl, s, e, z, m, tl, t, d, w) ==
  /\ Len(x) = N /\ Len(y) = M /\ IsLoop(f, x, y, N, M)
  /\ Written(x, N, n, fl, s, e, z) /\ Written(y, M, m, tl, t, d, w)
  /\ Levels(C, n, fl, m, tl)

LEMMA OnLevelsIs ==
  ASSUME NEW f, NEW x, NEW y, NEW N, NEW M, NEW C,
         NEW n, NEW fl, NEW s, NEW e, NEW z, NEW m, NEW tl, NEW t, NEW d, NEW w,
         OnLevels(f, x, y, N, M, C, n, fl, s, e, z, m, tl, t, d, w)
  PROVE  /\ Len(x) = N /\ Len(y) = M /\ N \in Nat /\ M \in Nat
         /\ IsLoop(f, x, y, N, M) /\ LoopOn(f, x, y, N, M)
         /\ Written(x, N, n, fl, s, e, z) /\ Written(y, M, m, tl, t, d, w)
         /\ n \in Nat \ {0} /\ m \in Nat \ {0} /\ n \in 1 .. n
<1>1. /\ Len(x) = N /\ Len(y) = M /\ IsLoop(f, x, y, N, M)
      /\ Written(x, N, n, fl, s, e, z) /\ Written(y, M, m, tl, t, d, w)
  BY Zenon DEF OnLevels
<1>2. N \in Nat /\ n \in Nat \ {0}
  BY Zenon, <1>1 DEF Written
<1>3. M \in Nat /\ m \in Nat \ {0}
  BY Zenon, <1>1 DEF Written
<1>4. n \in 1 .. n
  BY <1>2
<1>5. QED BY Zenon, <1>1, <1>2, <1>3, <1>4 DEF LoopOn

\* The last level of the filter, when it is '#'.
LEMMA FollowOpen ==
  ASSUME NEW f, NEW x, NEW y, NEW N, NEW M, NEW C,
         NEW n, NEW fl, NEW s, NEW e, NEW z, NEW m, NEW tl, NEW t, NEW d, NEW w,
         OnLevels(f, x, y, N, M, C, n, fl, s, e, z, m, tl, t, d, w),
         fl[n] = <<"#">>
  PROVE  Follow(f, n, fl, s, m, tl, t, n)
<1>1. /\ Len(x) = N /\ Len(y) = M /\ N \in Nat /\ M \in Nat
      /\ IsLoop(f, x, y, N, M) /\ LoopOn(f, x, y, N, M)
      /\ Written(x, N, n, fl, s, e, z) /\ Written(y, M, m, tl, t, d, w)
      /\ n \in Nat \ {0} /\ m \in Nat \ {0} /\ n \in 1 .. n
  BY Zenon, OnLevelsIs
<1>2. ASSUME NEW q \in 1 .. m PROVE f[s[n]][t[q]] <=> Rest(n, fl, m, tl, n, q)
  <2>1. LevelAt(x, N, fl[n], n = n, s[n], e[n], z[n])
    BY Zenon, <1>1, LevelPlace
  <2>2. t[q] \in 1 .. M + 1
    <3>1. LevelAt(y, M, tl[q], q = m, t[q], d[q], w[q])
      BY Zenon, <1>1, LevelPlace
    <3>2. QED BY <3>1 DEF LevelAt
  <2>3. f[s[n]][t[q]]
    BY Zenon, <1>1, <2>1, <2>2, OpenLevel
  <2>4. Rest(n, fl, m, tl, n, q)
    BY <1>1, RestOpen
  <2>5. QED BY <2>3, <2>4
<1>3. QED BY <1>2 DEF Follow

\* Level p of the filter against level q of the topic.
LEMMA LevelMatches ==
  ASSUME NEW f, NEW x, NEW y, NEW N, NEW M, NEW C,
         NEW n, NEW fl, NEW s, NEW e, NEW z, NEW m, NEW tl, NEW t, NEW d, NEW w,
         OnLevels(f, x, y, N, M, C, n, fl, s, e, z, m, tl, t, d, w),
         NEW p \in 1 .. n, fl[p] # <<"#">>, NEW q \in 1 .. m
  PROVE  f[s[p]][t[q]] <=> LevelMatch(fl[p], tl[q]) /\ f[e[p]][d[q]]
<1>1. /\ Len(x) = N /\ Len(y) = M /\ N \in Nat /\ M \in Nat
      /\ IsLoop(f, x, y, N, M) /\ LoopOn(f, x, y, N, M)
      /\ Written(x, N, n, fl, s, e, z) /\ Written(y, M, m, tl, t, d, w)
      /\ n \in Nat \ {0} /\ m \in Nat \ {0} /\ n \in 1 .. n
  BY Zenon, OnLevelsIs
<1>2. /\ fl[p] \in Seq(C) /\ tl[q] \in Seq(C) /\ PlainChars(tl[q])
      /\ OneLevelOnly(fl[p])
  BY DEF OnLevels, Levels, FilterLevel, OneLevelOnly
<1>3. LevelAt(x, N, fl[p], p = n, s[p], e[p], z[p])
  BY Zenon, <1>1, LevelPlace
<1>4. LevelAt(y, M, tl[q], q = m, t[q], d[q], w[q])
  BY Zenon, <1>1, LevelPlace
<1>5. QED BY SMTT(60), <1>1, <1>2, <1>3, <1>4, OneLevel

\* The last level of the filter, when it is another.
LEMMA FollowLast ==
  ASSUME NEW f, NEW x, NEW y, NEW N, NEW M, NEW C,
         NEW n, NEW fl, NEW s, NEW e, NEW z, NEW m, NEW tl, NEW t, NEW d, NEW w,
         OnLevels(f, x, y, N, M, C, n, fl, s, e, z, m, tl, t, d, w),
         fl[n] # <<"#">>
  PROVE  Follow(f, n, fl, s, m, tl, t, n)
<1>1. /\ Len(x) = N /\ Len(y) = M /\ N \in Nat /\ M \in Nat
      /\ IsLoop(f, x, y, N, M) /\ LoopOn(f, x, y, N, M)
      /\ Written(x, N, n, fl, s, e, z) /\ Written(y, M, m, tl, t, d, w)
      /\ n \in Nat \ {0} /\ m \in Nat \ {0} /\ n \in 1 .. n
  BY Zenon, OnLevelsIs
<1>2. ASSUME NEW q \in 1 .. m PROVE f[s[n]][t[q]] <=> Rest(n, fl, m, tl, n, q)
  <2>1. f[s[n]][t[q]] <=> LevelMatch(fl[n], tl[q]) /\ f[e[n]][d[q]]
    BY SMTT(60), <1>1, LevelMatches
  <2>2. e[n] = N + 1
    BY <1>1 DEF Written, Spells
  <2>3. d[q] \in 1 .. M + 1 /\ (q = m <=> d[q] = M + 1)
    <3>1. LevelAt(y, M, tl[q], q = m, t[q], d[q], w[q])
      BY Zenon, <1>1, LevelPlace
    <3>2. QED BY <3>1 DEF LevelAt
  <2>4. f[N + 1][d[q]] <=> d[q] = M + 1
    BY <1>1, <2>3 DEF IsLoop
  <2>5. Rest(n, fl, m, tl, n, q) <=> LevelMatch(fl[n], tl[q]) /\ q = m
    BY <1>1, RestLast
  <2>6. QED BY <2>1, <2>2, <2>3, <2>4, <2>5
<1>3. QED BY <1>2 DEF Follow

\* From a level of the filter to the one before it.
LEMMA FollowNext ==
  ASSUME NEW f, NEW x, NEW y, NEW N, NEW M, NEW C,
         NEW n, NEW fl, NEW s, NEW e, NEW z, NEW m, NEW tl, NEW t, NEW d, NEW w,
         OnLevels(f, x, y, N, M, C, n, fl, s, e, z, m, tl, t, d, w),
         NEW p \in 1 .. n, NEW r \in 1 .. n, Follows(r, p),
         Follow(f, n, fl, s, m, tl, t, r)
  PROVE  Follow(f, n, fl, s, m, tl, t, p)
<1>1. /\ Len(x) = N /\ Len(y) = M /\ N \in Nat /\ M \in Nat
      /\ IsLoop(f, x, y, N, M) /\ LoopOn(f, x, y, N, M)
      /\ Written(x, N, n, fl, s, e, z) /\ Written(y, M, m, tl, t, d, w)
      /\ n \in Nat \ {0} /\ m \in Nat \ {0} /\ n \in 1 .. n
  BY Zenon, OnLevelsIs
<1>2. p < n
  BY <1>1 DEF Follows
<1>3. OpenOnlyLast(n, fl) /\ fl[p] # <<"#">>
  <2>1. ASSUME NEW i \in 1 .. n, i < n, fl[i] = <<"#">> PROVE FALSE
    <3>1. FilterLevel(fl[i], i = n) /\ i # n
      <4>1. FilterLevel(fl[i], i = n)
        BY Zenon, <2>1 DEF OnLevels, Levels
      <4>2. i # n
        BY <1>1, <2>1
      <4>3. QED BY Zenon, <4>1, <4>2
    <3>2. fl[i] # <<"+">>
      BY <2>1
    <3>3. PlainChars(fl[i])
      BY Zenon, <3>1, <3>2 DEF FilterLevel
    <3>4. Len(fl[i]) = 1 /\ fl[i][0 + 1] = "#"
      BY <2>1
    <3>5. 0 < Len(fl[i])
      BY <3>4
    <3>6. QED BY <3>3, <3>4, <3>5 DEF PlainChars
  <2>2. QED BY <1>2, <2>1 DEF OpenOnlyLast
<1>4. e[p] \in 1 .. N /\ x[e[p]] = "/" /\ s[r] = e[p] + 1
  BY SMTT(60), <1>1, NextLevel
<1>5. ASSUME NEW q \in 1 .. m PROVE f[s[p]][t[q]] <=> Rest(n, fl, m, tl, p, q)
  <2>1. f[s[p]][t[q]] <=> LevelMatch(fl[p], tl[q]) /\ f[e[p]][d[q]]
    BY SMTT(60), <1>2, <1>3, LevelMatches
  <2>2. CASE q = m
    <3>1. d[m] = M + 1
      BY <1>1 DEF Written, Spells
    <3>2. LevelAt(x, N, fl[r], r = n, s[r], e[r], z[r])
      BY Zenon, <1>1, LevelPlace
    <3>3. FilterLevel(fl[r], r = n)
      BY DEF OnLevels, Levels
    <3>4. f[e[p]][M + 1] <=> IsOpen(fl[r])
      BY Zenon, <1>1, <1>4, <3>2, <3>3, TopicEnds
    <3>5. Rest(n, fl, m, tl, p, m) <=> LevelMatch(fl[p], tl[m]) /\ IsOpen(fl[r])
      BY Zenon, <1>1, <1>2, <1>3, RestTopicEnds
    <3>6. QED BY <2>1, <2>2, <3>1, <3>4, <3>5
  <2>3. CASE q # m
    <3>1. PICK u \in 1 .. m : Follows(u, q)
      <4>1. q + 1 \in 1 .. m
        BY <1>1, <2>3
      <4>2. Follows(q + 1, q)
        BY DEF Follows
      <4>3. QED BY <4>1, <4>2
    <3>2. d[q] \in 1 .. M /\ y[d[q]] = "/" /\ t[u] = d[q] + 1
      BY SMTT(60), <1>1, <3>1, NextLevel
    <3>3. f[e[p]][d[q]] <=> f[e[p] + 1][d[q] + 1]
      BY Zenon, <1>1, <1>4, <3>2, BothGoOn
    <3>4. f[s[r]][t[u]] <=> Rest(n, fl, m, tl, r, u)
      BY Zenon DEF Follow
    <3>5. Rest(n, fl, m, tl, p, q) <=>
            LevelMatch(fl[p], tl[q]) /\ Rest(n, fl, m, tl, r, u)
      BY <1>1, <1>2, <3>1, RestNext
    <3>6. QED BY <1>4, <2>1, <3>2, <3>3, <3>4, <3>5
  <2>4. QED BY <2>2, <2>3
<1>6. QED BY <1>5 DEF Follow

\* So does the whole filter: from its last level back to its first.
LEMMA FollowAll ==
  ASSUME NEW f, NEW x, NEW y, NEW N, NEW M, NEW C,
         NEW n, NEW fl, NEW s, NEW e, NEW z, NEW m, NEW tl, NEW t, NEW d, NEW w,
         OnLevels(f, x, y, N, M, C, n, fl, s, e, z, m, tl, t, d, w)
  PROVE  Follow(f, n, fl, s, m, tl, t, 1)
<1> DEFINE S == {k \in 0 .. n - 1 : Follow(f, n, fl, s, m, tl, t, n - k)}
<1>1. n \in Nat \ {0}
  BY Zenon, OnLevelsIs
<1>2. 0 \in S
  <2>1. Follow(f, n, fl, s, m, tl, t, n)
    BY Zenon, FollowOpen, FollowLast
  <2>2. n - 0 = n /\ 0 \in 0 .. n - 1
    BY <1>1
  <2>3. QED BY <2>1, <2>2
<1>3. ASSUME NEW k \in 0 .. (n - 1) - 1, k \in S PROVE k + 1 \in S
  <2>1. PICK p \in 1 .. n, r \in 1 .. n : p = n - (k + 1) /\ r = n - k /\ Follows(r, p)
    <3>1. n - (k + 1) \in 1 .. n /\ n - k \in 1 .. n
      BY <1>1
    <3>2. Follows(n - k, n - (k + 1))
      BY <1>1 DEF Follows
    <3>3. QED BY <3>1, <3>2
  <2>2. Follow(f, n, fl, s, m, tl, t, r)
    BY <1>3, <2>1
  <2>3. Follow(f, n, fl, s, m, tl, t, p)
    BY Zenon, <2>1, <2>2, FollowNext
  <2>4. k + 1 \in 0 .. n - 1
    BY <1>1
  <2>5. QED BY <2>1, <2>3, <2>4
<1>4. n - 1 \in S
  <2>1. n - 1 \in Nat /\ n - 1 \in 0 .. n - 1
    BY <1>1
  <2> HIDE DEF S
  <2>2. QED BY <1>2, <1>3, <2>1, Induction
<1>5. n - (n - 1) = 1
  BY <1>1
<1>6. QED BY <1>4, <1>5

\* From the first levels on, the rule is the one for the whole filter and topic.
LEMMA RestIsAll ==
  ASSUME NEW n \in Nat \ {0}, NEW m \in Nat \ {0}, NEW fl, NEW tl, Len(fl) = n, Len(tl) = m
  PROVE  Rest(n, fl, m, tl, 1, 1) <=> LevelsMatch(fl, tl)
<1> DEFINE open == fl[n] = <<"#">>
           fixed == IF open THEN n - 1 ELSE n
<1>1. fixed \in Nat
  OBVIOUS
<1>2. Rest(n, fl, m, tl, 1, 1) <=>
        /\ IF open THEN m - 1 >= fixed - 1 ELSE m - 1 = fixed - 1
        /\ \A i \in 1 .. fixed : LevelMatch(fl[i], tl[1 + (i - 1)])
  BY Zenon DEF Rest
<1>3. LevelsMatch(fl, tl) <=>
        /\ IF open THEN m >= fixed ELSE m = fixed
        /\ \A i \in 1 .. fixed : LevelMatch(fl[i], tl[i])
  BY Zenon DEF LevelsMatch, LevelMatch
<1> HIDE DEF open, fixed
<1>4. (m - 1 >= fixed - 1 <=> m >= fixed) /\ (m - 1 = fixed - 1 <=> m = fixed)
  BY <1>1
<1>5. \A i \in 1 .. fixed : 1 + (i - 1) = i
  BY <1>1
<1>6. (\A i \in 1 .. fixed : LevelMatch(fl[i], tl[1 + (i - 1)]))
      <=> \A i \in 1 .. fixed : LevelMatch(fl[i], tl[i])
  BY <1>5
<1>7. QED BY <1>2, <1>3, <1>4, <1>6

\* On the strings that spell the levels of a filter and a topic, the matcher decides as
\* the standard does.
LEMMA MatcherByLevels ==
  ASSUME NEW C, "/" \in C, NEW n \in Nat \ {0}, NEW m \in Nat \ {0}, NEW fl, NEW tl,
         Levels(C, n, fl, m, tl)
  PROVE  FilterMatches(Join(fl), Join(tl)) = LevelsMatch(fl, tl)
<1>1. fl \in [1 .. n -> Seq(C)] /\ tl \in [1 .. m -> Seq(C)]
  BY DEF Levels
<1>2. PICK x, y : x = Join(fl) /\ y = Join(tl)
  OBVIOUS
<1>3. PICK s \in [1 .. n -> Nat \ {0}], e \in [1 .. n -> Nat], z \in [1 .. n -> Nat] :
        x \in Seq(C) /\ Spells(x, n, fl, s, e, z)
  BY <1>1, <1>2, JoinSpells
<1>4. PICK t \in [1 .. m -> Nat \ {0}], d \in [1 .. m -> Nat], w \in [1 .. m -> Nat] :
        y \in Seq(C) /\ Spells(y, m, tl, t, d, w)
  BY <1>1, <1>2, JoinSpells
<1>5. PICK N \in Nat, M \in Nat : N = Len(x) /\ M = Len(y)
  BY <1>3, <1>4
<1>6. PICK f : IsLoop(f, x, y, N, M) /\ FilterMatches(x, y) = f[1][1]
  BY ZenonT(60), <1>5, MatcherLoop
<1>7. OnLevels(f, x, y, N, M, C, n, fl, s, e, z, m, tl, t, d, w)
  BY <1>3, <1>4, <1>5, <1>6 DEF OnLevels, Written
<1>8. Follow(f, n, fl, s, m, tl, t, 1)
  BY Zenon, <1>7, FollowAll
<1>9. 1 \in 1 .. m /\ s[1] = 1 /\ t[1] = 1
  BY <1>3, <1>4 DEF Spells, Layout
<1>10. f[1][1] <=> Rest(n, fl, m, tl, 1, 1)
  BY <1>8, <1>9 DEF Follow
<1>11. Len(fl) = n /\ Len(tl) = m
  BY <1>1, FunctionSeq
<1>12. f[1][1] <=> LevelsMatch(fl, tl)
  BY <1>10, <1>11, RestIsAll
<1>13. f[1][1] \in BOOLEAN
  BY SMTT(60), <1>6 DEF IsLoop
<1>14. LevelsMatch(fl, tl) \in BOOLEAN
  BY DEF LevelsMatch
<1>15. FilterMatches(x, y) = LevelsMatch(fl, tl)
  BY Zenon, <1>6, <1>12, <1>13, <1>14
<1>16. QED BY <1>2, <1>15

\* iotmer_topic_filter_matches decides as the standard does by levels, whatever the levels
\* and however many there are.
LEMMA MatcherIsRight == MatcherAgrees
<1> DEFINE C == LevelChar \cup {"/", "+", "#"}
<1>1. SUFFICES ASSUME NEW fl \in FilterLevels, NEW tl \in LevelSeqs(Level)
               PROVE  FilterMatches(Join(fl), Join(tl)) = LevelsMatch(fl, tl)
  BY Zenon DEF MatcherAgrees
<1>2. ASSUME NEW l \in Level PROVE l \in Seq(C) /\ PlainChars(l)
  <2>1. l \in Seq(LevelChar)
    BY LevelAssumption
  <2>2. \A c \in Nat : c < Len(l) => l[c + 1] \in LevelChar
    BY <2>1
  <2>3. l \in Seq(C)
    BY <2>1
  <2>4. QED BY <2>2, <2>3 DEF PlainChars, LevelChar
<1>3. <<"+">> \in Seq(C) /\ <<"#">> \in Seq(C)
  OBVIOUS
<1>4. PICK n \in 1 .. MaxLevels : fl \in [1 .. n -> Level \cup {<<"+">>, <<"#">>}]
  BY DEF FilterLevels, LevelSeqs
<1>5. PICK m \in 1 .. MaxLevels : tl \in [1 .. m -> Level]
  BY DEF LevelSeqs
<1>6. n \in Nat \ {0} /\ m \in Nat \ {0}
  BY LevelAssumption
<1>7. \A i \in 1 .. n : i # n => fl[i] # <<"#">>
  <2>1. Len(fl) = n
    BY <1>4, <1>6, FunctionSeq
  <2>2. \A i \in 1 .. n - 1 : fl[i] # <<"#">>
    BY <2>1 DEF FilterLevels
  <2>3. \A i \in 1 .. n : i # n => i \in 1 .. n - 1
    BY <1>6
  <2>4. QED BY <2>2, <2>3
<1>8. Levels(C, n, fl, m, tl)
  <2> HIDE DEF C
  <2>1. fl \in [1 .. n -> Seq(C)] /\ tl \in [1 .. m -> Seq(C)]
    BY <1>2, <1>3, <1>4, <1>5
  <2>2. ASSUME NEW p \in 1 .. n PROVE FilterLevel(fl[p], p = n)
    <3>1. fl[p] \in Level \/ fl[p] = <<"+">> \/ fl[p] = <<"#">>
      BY <1>4
    <3>2. QED BY Zenon, <1>2, <1>7, <3>1 DEF FilterLevel
  <2>3. \A q \in 1 .. m : PlainChars(tl[q])
    BY <1>2, <1>5
  <2>4. QED BY <2>1, <2>2, <2>3 DEF Levels
<1>9. "/" \in C
  OBVIOUS
<1> HIDE DEF C
<1>10. QED BY SMTT(60), <1>6, <1>8, <1>9, MatcherByLevels

\* A dispatch picks the callbacks whose filters match by the rule of the standard.
THEOREM MatcherFollowsTheStandard == Spec => []MatcherFollowsStandard
<1>1. MatcherFollowsStandard
  BY Zenon, MatcherIsRight DEF MatcherFollowsStandard
<1>2. QED BY <1>1, PTL
=============================================================================
