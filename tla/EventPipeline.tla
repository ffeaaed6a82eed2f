---------------------------- MODULE EventPipeline ----------------------------
(***************************************************************************)
(* The outbox and the message queue together: what a relay publishes is    *)
(* what the consumers receive.  The steps of both are the ones of Outbox   *)
(* and of Delivery; only publishing is a step of both.                     *)
(***************************************************************************)
EXTENDS Outbox

CONSTANTS
    Consumers, MaxRetries, MaxSent, QueueFaults, NoMessage

ASSUME PipelineAssumption ==
    /\ MaxRetries \in Nat
    /\ MaxSent \in Nat
    /\ QueueFaults \in Nat
    /\ NoMessage \notin Events \X (0 .. MaxRetries)

VARIABLES
    bad, main, delayed, dead, held, step, saved, failed, queueFaults

queueVars == <<bad, main, delayed, dead, held, step, saved, failed, queueFaults>>
outboxVars == <<state, due, expired, task, faults>>
pipelineVars == <<vars, queueVars>>

\* The count of publications is shared.
Delivery == INSTANCE Delivery WITH MaxFaults <- QueueFaults, faults <- queueFaults,
                                   sent <- queued

PipelineInit == Init /\ Delivery!Init

\* A relay publishes: the broker puts the message in the main queue.
RelayPublishes(r, e) == Publish(r, e) /\ Delivery!Send(e)
RelayUnsure(r, e)    == ConfirmLost(r, e) /\ Delivery!Send(e)

\* Every other step belongs to one side.
RelayStep == Next /\ UNCHANGED <<queued, queueVars>>
QueueStep == Delivery!Next /\ UNCHANGED <<queued, outboxVars>>

PipelineNext ==
    \/ \E r \in Relays, e \in Events : RelayPublishes(r, e) \/ RelayUnsure(r, e)
    \/ RelayStep
    \/ QueueStep

PipelineSpec == PipelineInit /\ [][PipelineNext]_pipelineVars

(***************************************************************************)
(* The relay loops, their goroutines and the clock run: a relay that is    *)
(* slow is one that takes no step for a while.  So do the consumers; a     *)
(* queue is first in first out, so a waiting message is taken in the end.  *)
(***************************************************************************)
RelayFairness ==
    /\ \A r \in Relays : WF_pipelineVars(RelayStep /\ ClaimPending(r))
    /\ \A r \in Relays, e \in Events :
        /\ WF_pipelineVars(RelayPublishes(r, e))
        /\ WF_pipelineVars(RelayStep /\ (MarkPublished(r, e) \/ MarkFailed(r, e)))
    /\ \A e \in Events : /\ WF_pipelineVars(RelayStep /\ BecomeDue(e))
                         /\ WF_pipelineVars(RelayStep /\ ExpireLease(e))

QueueFairness ==
    /\ \A w \in Consumers : WF_pipelineVars(QueueStep /\ Delivery!Consume(w))
    /\ \A m \in Delivery!Messages :
        /\ WF_pipelineVars(QueueStep /\ Delivery!Return(m))
        /\ SF_pipelineVars(QueueStep /\ \E w \in Consumers : Delivery!Receive(w, m))

PipelineFairSpec == PipelineSpec /\ RelayFairness /\ QueueFairness

-----------------------------------------------------------------------------
(***************************************************************************)
(* Refinement of Notification.                                             *)
(***************************************************************************)
Notification == INSTANCE Notification WITH
    recorded  <- {e \in Events : state[e] # "none"},
    notified  <- {e \in Events : saved[e] > 0},
    abandoned <- {e \in Events : dead[e] > 0}

\* Outbox, relays, queues and consumers implement Notification: every event
\* a transaction records is notified or dead-lettered in the end, and
\* nothing else ever is (AppendBatch to Save).
ImplementsNotification == Notification!Spec

\* The two ends agree: an event the outbox considers published is a
\* notification, a dead letter or a message under way, whatever fails between
\* copying and acknowledging it (MarkPublished, handleDeliveryOutcome,
\* amqpFailedMessageRouter.publish).
PublishedIsUnderWay ==
    \A e \in Events : state[e] = "published" =>
        saved[e] > 0 \/ dead[e] > 0 \/ Delivery!UnderWay(e)

\* A message that decodes is dead-lettered only after the first attempt and
\* every retry have failed (handleDeliveryOutcome).
DeadOnlyWhenExhausted ==
    \A e \in Events \ bad : dead[e] > 0 => failed[e] > MaxRetries
=============================================================================
