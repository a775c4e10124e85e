--------------------------- MODULE EventDelivery ---------------------------
(***************************************************************************)
(* What the event bus promises to the modules that use it: an event whose  *)
(* transaction committed may be applied, and each consumer subscribed to   *)
(* it applies it at most once.  Order between events is not promised.      *)
(***************************************************************************)
EXTENDS Naturals, Sequences

CONSTANTS
  Events,     \* eventIds
  Consumers,  \* ProcessedEvent consumer keys
  Bindings    \* the dispatch map: each event's consumers, in order

VARIABLES committed, applied
vars == <<committed, applied>>

Subscribers(e) == {Bindings[e][i] : i \in DOMAIN Bindings[e]}

Init ==
  /\ committed = {}
  /\ applied = [d \in Events \X Consumers |-> 0]

\* A business transaction commits and its event with it.
Commit(e) ==
  /\ e \notin committed
  /\ committed' = committed \cup {e}
  /\ UNCHANGED applied

\* A subscribed consumer's handler commits its work for a committed event.
Apply(e, c) ==
  /\ e \in committed
  /\ c \in Subscribers(e)
  /\ applied[<<e, c>>] = 0
  /\ applied' = [applied EXCEPT ![<<e, c>>] = 1]
  /\ UNCHANGED committed

Next == \E e \in Events : Commit(e) \/ \E c \in Consumers : Apply(e, c)

Spec == Init /\ [][Next]_vars
============================================================================
