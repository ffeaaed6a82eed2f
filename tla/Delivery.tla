------------------------------ MODULE Delivery ------------------------------
(***************************************************************************)
(* The RabbitMQ side of the notifications: consumers that take messages    *)
(* from the main queue, hand them to the listener and acknowledge them by  *)
(* hand; delayed retry queues, one per attempt, whose messages return to   *)
(* the main queue when their TTL is over; and the dead letter queue.  A    *)
(* failed message is copied to its next queue first, with a confirm, and   *)
(* acknowledged afterwards.  The listener saves a notification, once per   *)
(* event id.                                                               *)
(*                                                                         *)
(* A message is a pair of an event and the retry count in its header.      *)
(* Prefetched messages that no goroutine has begun to handle count as      *)
(* still being in the main queue.                                          *)
(***************************************************************************)
EXTENDS Integers, FiniteSets

CONSTANTS
    Events,
    Consumers,
    MaxRetries,
    MaxSent,      \* times the outbox publishes an event (bound)
    MaxFaults,    \* lost calls and crashes before the infrastructure is stable
    NoMessage

Messages == Events \X (0 .. MaxRetries)

VARIABLES
    bad,       \* events whose message does not decode
    main,      \* message |-> copies in the main queue
    delayed,   \* message |-> copies in the retry queue of its retry count
    dead,      \* event |-> copies in the dead letter queue
    held,      \* consumer |-> message it handles
    step,      \* consumer |-> what it does next
    saved,     \* event |-> notification rows
    sent,      \* event |-> times it was published (history)
    failed,    \* event |-> times the listener failed on it (history)
    faults

vars == <<bad, main, delayed, dead, held, step, saved, sent, failed, faults>>

TypeOK ==
    /\ bad \subseteq Events
    /\ main \in [Messages -> Nat]
    /\ delayed \in [Messages -> Nat]
    /\ dead \in [Events -> Nat]
    /\ held \in [Consumers -> Messages \cup {NoMessage}]
    /\ step \in [Consumers -> {"idle", "handle", "ack", "retry", "dead"}]
    /\ \A w \in Consumers : step[w] = "idle" <=> held[w] = NoMessage
    /\ saved \in [Events -> Nat]
    /\ sent \in [Events -> 0 .. MaxSent]
    /\ failed \in [Events -> Nat]
    /\ faults \in 0 .. MaxFaults

Init ==
    /\ bad \in SUBSET Events
    /\ main = [m \in Messages |-> 0]
    /\ delayed = [m \in Messages |-> 0]
    /\ dead = [e \in Events |-> 0]
    /\ held = [w \in Consumers |-> NoMessage]
    /\ step = [w \in Consumers |-> "idle"]
    /\ saved = [e \in Events |-> 0]
    /\ sent = [e \in Events |-> 0]
    /\ failed = [e \in Events |-> 0]
    /\ faults = MaxFaults

Fault == faults > 0 /\ faults' = faults - 1

Event(w) == held[w][1]
Retries(w) == held[w][2]

Goto(w, l) == step' = [step EXCEPT ![w] = l]

\* The consumer is done with its message.
Drop(w) ==
    /\ Goto(w, "idle")
    /\ held' = [held EXCEPT ![w] = NoMessage]

-----------------------------------------------------------------------------
\* The outbox publishes to the fanout exchange, without a retry header.
Send(e) ==
    /\ sent[e] < MaxSent
    /\ sent' = [sent EXCEPT ![e] = @ + 1]
    /\ main' = [main EXCEPT ![<<e, 0>>] = @ + 1]
    /\ UNCHANGED <<bad, delayed, dead, held, step, saved, failed, faults>>

\* Fault: the retry queue has no dead letter exchange to return to.
ReturnFault(m) ==
    /\ delayed[m] > 0
    /\ delayed' = [delayed EXCEPT ![m] = @ - 1]
    /\ UNCHANGED <<bad, main, dead, held, step, saved, sent, failed, faults>>

\* The TTL of a retry queue sends a message back to the exchange.
Return(m) ==
    /\ delayed[m] > 0
    /\ delayed' = [delayed EXCEPT ![m] = @ - 1]
    /\ main' = [main EXCEPT ![m] = @ + 1]
    /\ UNCHANGED <<bad, dead, held, step, saved, sent, failed, faults>>

Receive(w, m) ==
    /\ step[w] = "idle"
    /\ main[m] > 0
    /\ main' = [main EXCEPT ![m] = @ - 1]
    /\ held' = [held EXCEPT ![w] = m]
    /\ Goto(w, "handle")
    /\ UNCHANGED <<bad, delayed, dead, saved, sent, failed, faults>>

\* INSERT IGNORE on the unique event id.
InsertIgnore(e) == saved' = [saved EXCEPT ![e] = IF @ = 0 THEN 1 ELSE @]

\* Handle: the notification is saved.
HandleSucceeds(w) ==
    /\ step[w] = "handle"
    /\ Event(w) \notin bad
    /\ InsertIgnore(Event(w))
    /\ Goto(w, "ack")
    /\ UNCHANGED <<bad, main, delayed, dead, held, sent, failed, faults>>

\* Handle: the message does not decode, for good.
HandleRejects(w) ==
    /\ step[w] = "handle"
    /\ Event(w) \in bad
    /\ Goto(w, "dead")
    /\ UNCHANGED <<bad, main, delayed, dead, held, saved, sent, failed, faults>>

\* Fault: one attempt fewer than the policy allows.
MayRetryFault(n) == n + 1 < MaxRetries

MayRetry(n) == n < MaxRetries

\* Handle: a panic, a timeout or a lost call, before or after the row is
\* there.
HandleFails(w) ==
    /\ step[w] = "handle"
    /\ Event(w) \notin bad
    /\ Fault
    /\ \/ InsertIgnore(Event(w))
       \/ UNCHANGED saved
    /\ failed' = [failed EXCEPT ![Event(w)] = @ + 1]
    /\ Goto(w, IF MayRetry(Retries(w)) THEN "retry" ELSE "dead")
    /\ UNCHANGED <<bad, main, delayed, dead, held, sent>>

\* The header of the copy counts one retry more.
NextTry(w) == <<Event(w), Retries(w) + 1>>

\* Retry and DeadLetter return once the broker has confirmed the copy.
RouteRetry(w) ==
    /\ step[w] = "retry"
    /\ delayed' = [delayed EXCEPT ![NextTry(w)] = @ + 1]
    /\ Goto(w, "ack")
    /\ UNCHANGED <<bad, main, dead, held, saved, sent, failed, faults>>

DeadLetter(w) ==
    /\ step[w] = "dead"
    /\ dead' = [dead EXCEPT ![Event(w)] = @ + 1]
    /\ Goto(w, "ack")
    /\ UNCHANGED <<bad, main, delayed, held, saved, sent, failed, faults>>

Requeue(w) == main' = [main EXCEPT ![held[w]] = @ + 1]

\* Fault: the message is dropped when it cannot be copied.
RouteFailsFault(w) ==
    /\ step[w] \in {"retry", "dead"}
    /\ Fault
    /\ Drop(w)
    /\ UNCHANGED <<bad, main, delayed, dead, saved, sent, failed>>

\* The confirm does not come in time, with or without the copy: the message
\* is put back with Nack.
RouteFails(w) ==
    /\ step[w] \in {"retry", "dead"}
    /\ Fault
    /\ \/ UNCHANGED <<delayed, dead>>
       \/ /\ step[w] = "retry"
          /\ delayed' = [delayed EXCEPT ![NextTry(w)] = @ + 1]
          /\ UNCHANGED dead
       \/ /\ step[w] = "dead"
          /\ dead' = [dead EXCEPT ![Event(w)] = @ + 1]
          /\ UNCHANGED delayed
    /\ Requeue(w)
    /\ Drop(w)
    /\ UNCHANGED <<bad, saved, sent, failed>>

Ack(w) ==
    /\ step[w] = "ack"
    /\ Drop(w)
    /\ UNCHANGED <<bad, main, delayed, dead, saved, sent, failed, faults>>

\* The consumer's process dies and is restarted: the broker delivers again.
Crash(w) ==
    /\ step[w] # "idle"
    /\ Fault
    /\ Requeue(w)
    /\ Drop(w)
    /\ UNCHANGED <<bad, delayed, dead, saved, sent, failed>>

-----------------------------------------------------------------------------
Consume(w) ==
    \/ \E m \in Messages : Receive(w, m)
    \/ HandleSucceeds(w) \/ HandleRejects(w)
    \/ RouteRetry(w) \/ DeadLetter(w)
    \/ Ack(w)

Next ==
    \/ \E e \in Events : Send(e)
    \/ \E m \in Messages : Return(m)
    \/ \E w \in Consumers : \/ Consume(w)
                            \/ HandleFails(w) \/ RouteFails(w) \/ Crash(w)

Spec == Init /\ [][Next]_vars

-----------------------------------------------------------------------------
\* Whether a copy of event e is still under way.
UnderWay(e) ==
    \/ \E n \in 0 .. MaxRetries : main[<<e, n>>] > 0 \/ delayed[<<e, n>>] > 0
    \/ \E w \in Consumers : held[w] # NoMessage /\ Event(w) = e
=============================================================================
