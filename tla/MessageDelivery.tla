-------------------------- MODULE MessageDelivery --------------------------
(***************************************************************************)
(* What the SDK promises to the callbacks of its subscriptions: a message  *)
(* is handed over whole, with its own topic, to a filter it matches, once  *)
(* per registration, and either nobody gets it or everybody does who was   *)
(* registered for it from beginning to end.                                *)
(***************************************************************************)
CONSTANTS Message,   \* the messages a broker may send
          Filter,    \* the filters an application may register
          Wanted(_), \* the filters a message matches
          Whole(_)   \* topic and payload of a message

VARIABLES
  registered,  \* filters that are registered
  current,     \* the message the broker is sending, {} between messages
  due,         \* filters that still have to get it
  served,      \* filters that have got it
  handed       \* topic and payload of the callback under way, {} between calls

vars == <<registered, current, due, served, handed>>

Init ==
  /\ registered = {}
  /\ current = {}
  /\ due = {}
  /\ served = {}
  /\ handed = {}

Register(f) ==
  /\ registered' = registered \cup {f}
  /\ UNCHANGED <<current, due, served, handed>>

\* A filter that is given up is owed nothing more, and starts anew when it comes back.
Unregister(f) ==
  /\ f \in registered
  /\ registered' = registered \ {f}
  /\ due' = due \ {f}
  /\ served' = served \ {f}
  /\ UNCHANGED <<current, handed>>

Begin(m) ==
  /\ current = {}
  /\ current' = {m}
  /\ due' = Wanted(m) \cap registered
  /\ served' = {}
  /\ UNCHANGED <<registered, handed>>

HandOver(m, f) ==
  /\ current = {m} /\ handed = {}
  /\ f \in (registered \cap Wanted(m)) \ served
  /\ handed' = {Whole(m)}
  /\ served' = served \cup {f}
  /\ due' = due \ {f}
  /\ UNCHANGED <<registered, current>>

Return ==
  /\ handed # {}
  /\ handed' = {}
  /\ UNCHANGED <<registered, current, due, served>>

\* All or nothing: a message ends when nobody has got it or nobody lacks it.
End ==
  /\ current # {} /\ handed = {}
  /\ due = {} \/ served = {}
  /\ current' = {}
  /\ due' = {}
  /\ served' = {}
  /\ UNCHANGED <<registered, handed>>

Next ==
  \/ \E f \in Filter : Register(f) \/ Unregister(f)
  \/ \E m \in Message : Begin(m) \/ \E f \in Filter : HandOver(m, f)
  \/ Return \/ End

Spec == Init /\ [][Next]_vars
=============================================================================
