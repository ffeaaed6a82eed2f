---------------------------- MODULE Notification ----------------------------
(***************************************************************************)
(* What the outbox and the message queue promise together: an event that   *)
(* a transaction has recorded, and only such an event, is turned into one  *)
(* notification or handed to an operator, and stays so.                    *)
(***************************************************************************)
CONSTANTS Events

VARIABLES
    recorded,   \* events whose transaction has committed
    notified,   \* events with a notification row
    abandoned   \* events in the dead letter queue

vars == <<recorded, notified, abandoned>>

Init == recorded = {} /\ notified = {} /\ abandoned = {}

Record(e) ==
    /\ e \notin recorded
    /\ recorded' = recorded \cup {e}
    /\ UNCHANGED <<notified, abandoned>>

Notify(e) ==
    /\ e \in recorded \ notified
    /\ notified' = notified \cup {e}
    /\ UNCHANGED <<recorded, abandoned>>

Abandon(e) ==
    /\ e \in recorded \ abandoned
    /\ abandoned' = abandoned \cup {e}
    /\ UNCHANGED <<recorded, notified>>

Next == \E e \in Events : Record(e) \/ Notify(e) \/ Abandon(e)

\* A recorded event does not wait for ever.
Settle(e) == e \notin notified \cup abandoned /\ (Notify(e) \/ Abandon(e))

Spec == Init /\ [][Next]_vars /\ \A e \in Events : WF_vars(Settle(e))
=============================================================================
