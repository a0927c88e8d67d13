--------------------------- MODULE EventDelivery ---------------------------
(***************************************************************************)
(* What the transactional outbox promises, with nothing said about how:    *)
(* an event is accepted together with the domain change it reports, is     *)
(* handed to the broker at least once after that, and is settled (never    *)
(* sent again on purpose) only when the broker has it.                     *)
(***************************************************************************)
CONSTANT Events

VARIABLES accepted,   \* events whose domain transaction committed
          delivered,  \* events the broker holds at least one copy of
          settled     \* events recorded as delivered

vars == <<accepted, delivered, settled>>

TypeOK == /\ accepted \subseteq Events
          /\ delivered \subseteq Events
          /\ settled \subseteq Events

Init == accepted = {} /\ delivered = {} /\ settled = {}

Accept(e) == /\ accepted' = accepted \cup {e}
             /\ UNCHANGED <<delivered, settled>>

(* A second delivery of an event is a stuttering step here.                *)
Deliver(e) == /\ e \in accepted
              /\ delivered' = delivered \cup {e}
              /\ UNCHANGED <<accepted, settled>>

Settle(S) == /\ S \subseteq delivered
             /\ settled' = settled \cup S
             /\ UNCHANGED <<accepted, delivered>>

Next == \/ \E e \in Events : Accept(e) \/ Deliver(e)
        \/ \E S \in SUBSET Events : Settle(S)

Spec == Init /\ [][Next]_vars
=============================================================================
