------------------------------- MODULE Outbox -------------------------------
(***************************************************************************)
(* The MySQL outbox and its relays.  The transaction that saves a          *)
(* selection appends an event row; a resident relay in every instance of   *)
(* the service claims rows for a lease, publishes them to RabbitMQ on a    *)
(* channel with publisher confirms, and marks them published or failed.    *)
(* A relay that is slower than its lease, or dies, leaves a claim that     *)
(* another relay takes over; the first one may still publish and mark.     *)
(*                                                                         *)
(* Every claimed event is dispatched by a goroutine of its own, and the    *)
(* relay claims again once all of them have ended.                         *)
(***************************************************************************)
EXTENDS Integers, FiniteSets

CONSTANTS
    Events,       \* events the transactions append, as ids 1, 2, ... (bound)
    Relays,
    BatchSize,    \* events a relay claims at a time
    MaxFaults     \* lost calls and crashes before the infrastructure is stable

ASSUME OutboxAssumption ==
    /\ Events \subseteq Nat
    /\ BatchSize \in Nat \ {0}
    /\ MaxFaults \in Nat

VARIABLES
    state,     \* event |-> none, pending, publishing, published or failed
    due,       \* failed events whose next_retry_at has come
    expired,   \* publishing events whose lease has run out
    task,      \* relay |-> event |-> what its goroutine does next
    queued,    \* event |-> times the broker has put it in the queue
    faults

vars == <<state, due, expired, task, queued, faults>>

TypeOK ==
    /\ state \in [Events -> {"none", "pending", "publishing", "published", "failed"}]
    /\ due \subseteq {e \in Events : state[e] = "failed"}
    /\ expired \subseteq {e \in Events : state[e] = "publishing"}
    /\ task \in [Relays -> [Events -> {"idle", "publish", "mark", "fail"}]]
    /\ queued \in [Events -> Nat]
    /\ faults \in 0 .. MaxFaults

Init ==
    /\ state = [e \in Events |-> "none"]
    /\ due = {}
    /\ expired = {}
    /\ task = [r \in Relays |-> [e \in Events |-> "idle"]]
    /\ queued = [e \in Events |-> 0]
    /\ faults = MaxFaults

\* A call of the relay is lost, or the relay dies.
Fault == faults > 0 /\ faults' = faults - 1

-----------------------------------------------------------------------------
\* AppendBatch, in the transaction that saves the selection.
Append(e) ==
    /\ state[e] = "none"
    /\ state' = [state EXCEPT ![e] = "pending"]
    /\ UNCHANGED <<due, expired, task, queued, faults>>

\* The clock: a retry is due, a lease is over.
BecomeDue(e) ==
    /\ state[e] = "failed" /\ e \notin due
    /\ due' = due \cup {e}
    /\ UNCHANGED <<state, expired, task, queued, faults>>

ExpireLease(e) ==
    /\ state[e] = "publishing" /\ e \notin expired
    /\ expired' = expired \cup {e}
    /\ UNCHANGED <<state, due, task, queued, faults>>

\* Fault: a claim whose owner is gone is never taken over.
ClaimableFault == {e \in Events : state[e] = "pending"} \cup due

\* Rows a claim may take: pending, failed and due, or abandoned.
Claimable == {e \in Events : state[e] = "pending"} \cup due \cup expired

\* ORDER BY id LIMIT BatchSize.
Batch(S) == {e \in S : Cardinality({f \in S : f < e}) < BatchSize}

\* ClaimPending, once the goroutines of the last batch have ended.
ClaimPending(r) ==
    LET S == Batch(Claimable) IN
    /\ \A e \in Events : task[r][e] = "idle"
    /\ S # {}
    /\ state' = [e \in Events |-> IF e \in S THEN "publishing" ELSE state[e]]
    /\ due' = due \ S
    /\ expired' = expired \ S
    /\ task' = [task EXCEPT ![r] = [e \in Events |->
                                      IF e \in S THEN "publish" ELSE "idle"]]
    /\ UNCHANGED <<queued, faults>>

Goto(r, e, l) == task' = [task EXCEPT ![r][e] = l]

\* The broker routes the message and confirms it.
Publish(r, e) ==
    /\ task[r][e] = "publish"
    /\ queued' = [queued EXCEPT ![e] = @ + 1]
    /\ Goto(r, e, "mark")
    /\ UNCHANGED <<state, due, expired, faults>>

\* Nothing is routed: the channel fails, the broker refuses or returns it.
PublishFails(r, e) ==
    /\ task[r][e] = "publish"
    /\ Fault
    /\ Goto(r, e, "fail")
    /\ UNCHANGED <<state, due, expired, queued>>

\* The broker routes the message, but its confirm is lost.
ConfirmLost(r, e) ==
    /\ task[r][e] = "publish"
    /\ Fault
    /\ queued' = [queued EXCEPT ![e] = @ + 1]
    /\ Goto(r, e, "fail")
    /\ UNCHANGED <<state, due, expired>>

\* MarkPublished and MarkFailed change the row only while it is publishing,
\* whoever claimed it.
MarkPublished(r, e) ==
    /\ task[r][e] = "mark"
    /\ IF state[e] = "publishing"
         THEN /\ state' = [state EXCEPT ![e] = "published"]
              /\ expired' = expired \ {e}
         ELSE UNCHANGED <<state, expired>>
    /\ Goto(r, e, "idle")
    /\ UNCHANGED <<due, queued, faults>>

MarkFailed(r, e) ==
    /\ task[r][e] = "fail"
    /\ IF state[e] = "publishing"
         THEN /\ state' = [state EXCEPT ![e] = "failed"]
              /\ expired' = expired \ {e}
         ELSE UNCHANGED <<state, expired>>
    /\ Goto(r, e, "idle")
    /\ UNCHANGED <<due, queued, faults>>

\* The update is lost; the lease will bring the event back.
MarkLost(r, e) ==
    /\ task[r][e] \in {"mark", "fail"}
    /\ Fault
    /\ Goto(r, e, "idle")
    /\ UNCHANGED <<state, due, expired, queued>>

\* The process dies or the relay is stopped; another one starts.
Crash(r) ==
    /\ \E e \in Events : task[r][e] # "idle"
    /\ Fault
    /\ task' = [task EXCEPT ![r] = [e \in Events |-> "idle"]]
    /\ UNCHANGED <<state, due, expired, queued>>

-----------------------------------------------------------------------------
Dispatch(r, e) == Publish(r, e) \/ MarkPublished(r, e) \/ MarkFailed(r, e)

Next ==
    \/ \E e \in Events : Append(e) \/ BecomeDue(e) \/ ExpireLease(e)
    \/ \E r \in Relays : ClaimPending(r) \/ Crash(r)
    \/ \E r \in Relays, e \in Events :
         \/ Dispatch(r, e)
         \/ PublishFails(r, e) \/ ConfirmLost(r, e) \/ MarkLost(r, e)

Spec == Init /\ [][Next]_vars

-----------------------------------------------------------------------------
\* An event is marked published only after the broker has queued it, even
\* when the relay that marks it has lost its claim to another one whose own
\* attempt fails (dispatch, MarkPublished).
PublishedWasQueued == \A e \in Events : state[e] = "published" => queued[e] > 0

\* A late report of a relay that lost its claim never reopens an event.
PublishedIsFinal ==
    [][\A e \in Events : state[e] = "published" => state'[e] = "published"]_vars

\* Every event is published in the end.
EventuallyPublished ==
    \A e \in Events : (state[e] = "pending") ~> (state[e] = "published")
=============================================================================
