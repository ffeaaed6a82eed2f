------------------------- MODULE EventPipelineProofs -------------------------
(***************************************************************************)
(* Proofs about the outbox and about the whole path of an event, for every *)
(* number of events, relays, consumers, retries and faults.                *)
(*                                                                         *)
(* The outbox alone.  A relay acts on a claim it may have lost, so         *)
(* "published implies queued" is not inductive: MarkPublished writes       *)
(* whatever its goroutine believes.  What it believes is true because the  *)
(* goroutine reaches its marking step only by publishing, and the broker   *)
(* forgets nothing:                                                        *)
(*     ClaimInv == TypeOK /\ MarkAfterQueue /\ PublishedWasQueued          *)
(*                                                                         *)
(* The queue.  QueueInv follows the copies of an event: a consumer that is *)
(* about to acknowledge does not count as carrying it, so an               *)
(* acknowledgement loses nothing; and a copy that says n retries has seen  *)
(* n failures.                                                             *)
(*                                                                         *)
(* Both together take only the steps of Notification.                      *)
(***************************************************************************)
EXTENDS EventPipeline, TLAPS


\* A goroutine about to mark its event published has seen it confirmed.
MarkAfterQueue ==
    \A r \in Relays, e \in Events : task[r][e] = "mark" => queued[e] > 0

ClaimInv == TypeOK /\ MarkAfterQueue /\ PublishedWasQueued

\* The outbox starts empty (AppendBatch has written nothing yet).
LEMMA ClaimInit == Init => ClaimInv
  BY OutboxAssumption
     DEF Init, ClaimInv, TypeOK, MarkAfterQueue, PublishedWasQueued, OutboxAssumption

\* No step of a relay, the clock or a transaction breaks the types
\* (ClaimPending, dispatch, MarkPublished, MarkFailed, Stop).
LEMMA TypeStep ==
    ASSUME TypeOK, [Next]_vars
    PROVE  TypeOK'
  <1> USE OutboxAssumption DEF OutboxAssumption
  <1>1. ASSUME NEW e \in Events, Append(e) PROVE TypeOK'
    BY <1>1 DEF TypeOK, Append
  <1>2. ASSUME NEW e \in Events, BecomeDue(e) PROVE TypeOK'
    BY <1>2 DEF TypeOK, BecomeDue
  <1>3. ASSUME NEW e \in Events, ExpireLease(e) PROVE TypeOK'
    BY <1>3 DEF TypeOK, ExpireLease
  <1>4. ASSUME NEW r \in Relays, ClaimPending(r) PROVE TypeOK'
    BY <1>4 DEF TypeOK, ClaimPending
  <1>5. ASSUME NEW r \in Relays, Crash(r) PROVE TypeOK'
    BY <1>5 DEF TypeOK, Crash, Fault
  <1>6. ASSUME NEW r \in Relays, NEW e \in Events, Publish(r, e) PROVE TypeOK'
    BY <1>6 DEF TypeOK, Publish, Goto
  <1>7. ASSUME NEW r \in Relays, NEW e \in Events, MarkPublished(r, e) PROVE TypeOK'
    BY <1>7 DEF TypeOK, MarkPublished, Goto
  <1>8. ASSUME NEW r \in Relays, NEW e \in Events, MarkFailed(r, e) PROVE TypeOK'
    BY <1>8 DEF TypeOK, MarkFailed, Goto
  <1>9. ASSUME NEW r \in Relays, NEW e \in Events, PublishFails(r, e) PROVE TypeOK'
    BY <1>9 DEF TypeOK, PublishFails, Goto, Fault
  <1>10. ASSUME NEW r \in Relays, NEW e \in Events, ConfirmLost(r, e) PROVE TypeOK'
    BY <1>10 DEF TypeOK, ConfirmLost, Goto, Fault
  <1>11. ASSUME NEW r \in Relays, NEW e \in Events, MarkLost(r, e) PROVE TypeOK'
    BY <1>11 DEF TypeOK, MarkLost, Goto, Fault
  <1>12. CASE UNCHANGED vars
    BY <1>12 DEF TypeOK, vars
  <1> QED
    BY <1>1, <1>2, <1>3, <1>4, <1>5, <1>6, <1>7, <1>8, <1>9, <1>10, <1>11, <1>12
       DEF Next, Dispatch

\* Every step keeps the invariant; the steps that matter are publishing,
\* which makes a goroutine ready to mark, and marking itself.
LEMMA ClaimStep ==
    ASSUME ClaimInv, [Next]_vars
    PROVE  ClaimInv'
  <1> USE DEF ClaimInv
  <1>1. TypeOK'
    BY TypeStep
  <1>2. MarkAfterQueue' /\ PublishedWasQueued'
    <2> SUFFICES MarkAfterQueue' /\ PublishedWasQueued'
      OBVIOUS
    <2>1. ASSUME NEW e \in Events, Append(e)
          PROVE  MarkAfterQueue' /\ PublishedWasQueued'
      BY <2>1 DEF TypeOK, MarkAfterQueue, PublishedWasQueued, Append
    <2>2. ASSUME NEW e \in Events, BecomeDue(e) \/ ExpireLease(e)
          PROVE  MarkAfterQueue' /\ PublishedWasQueued'
      BY <2>2 DEF MarkAfterQueue, PublishedWasQueued, BecomeDue, ExpireLease
    <2>3. ASSUME NEW r \in Relays, ClaimPending(r)
          PROVE  MarkAfterQueue' /\ PublishedWasQueued'
      BY <2>3 DEF TypeOK, MarkAfterQueue, PublishedWasQueued, ClaimPending
    <2>4. ASSUME NEW r \in Relays, Crash(r)
          PROVE  MarkAfterQueue' /\ PublishedWasQueued'
      BY <2>4 DEF TypeOK, MarkAfterQueue, PublishedWasQueued, Crash
    <2>5. ASSUME NEW r \in Relays, NEW e \in Events, Publish(r, e)
          PROVE  MarkAfterQueue' /\ PublishedWasQueued'
      BY <2>5 DEF TypeOK, MarkAfterQueue, PublishedWasQueued, Publish, Goto
    <2>6. ASSUME NEW r \in Relays, NEW e \in Events, MarkPublished(r, e)
          PROVE  MarkAfterQueue' /\ PublishedWasQueued'
      BY <2>6 DEF TypeOK, MarkAfterQueue, PublishedWasQueued, MarkPublished, Goto
    <2>7. ASSUME NEW r \in Relays, NEW e \in Events, MarkFailed(r, e)
          PROVE  MarkAfterQueue' /\ PublishedWasQueued'
      BY <2>7 DEF TypeOK, MarkAfterQueue, PublishedWasQueued, MarkFailed, Goto
    <2>8. ASSUME NEW r \in Relays, NEW e \in Events, PublishFails(r, e)
          PROVE  MarkAfterQueue' /\ PublishedWasQueued'
      BY <2>8 DEF TypeOK, MarkAfterQueue, PublishedWasQueued, PublishFails, Goto
    <2>9. ASSUME NEW r \in Relays, NEW e \in Events, ConfirmLost(r, e)
          PROVE  MarkAfterQueue' /\ PublishedWasQueued'
      BY <2>9 DEF TypeOK, MarkAfterQueue, PublishedWasQueued, ConfirmLost, Goto
    <2>10. ASSUME NEW r \in Relays, NEW e \in Events, MarkLost(r, e)
           PROVE  MarkAfterQueue' /\ PublishedWasQueued'
      BY <2>10 DEF TypeOK, MarkAfterQueue, PublishedWasQueued, MarkLost, Goto
    <2>11. CASE UNCHANGED vars
      BY <2>11 DEF MarkAfterQueue, PublishedWasQueued, vars
    <2> QED
      BY <2>1, <2>2, <2>3, <2>4, <2>5, <2>6, <2>7, <2>8, <2>9, <2>10, <2>11
         DEF Next, Dispatch
  <1> QED
    BY <1>1, <1>2

\* The invariant holds in every reachable state, whatever the relays do with
\* claims they have lost (ClaimPending, dispatch).
THEOREM ClaimInvariant == Spec => []ClaimInv
  BY ClaimInit, ClaimStep, PTL DEF Spec

\* An event is marked published only after the broker has queued it, for
\* every number of relays and faults (dispatch, MarkPublished).
THEOREM PublishedIsQueued == Spec => []PublishedWasQueued
  <1>1. ClaimInv => PublishedWasQueued
    BY DEF ClaimInv
  <1> QED
    BY ClaimInvariant, <1>1, PTL

\* No step reopens a published event: a claim takes only rows that are not
\* published, and a report changes only rows that are publishing
\* (ClaimPending, MarkPublished, MarkFailed).
LEMMA PublishedStays ==
    ASSUME TypeOK, [Next]_vars, NEW e \in Events, state[e] = "published"
    PROVE  state'[e] = "published"
  <1>1. ASSUME NEW r \in Relays, ClaimPending(r) PROVE state'[e] = "published"
    <2>1. e \notin Batch(Claimable)
      BY DEF TypeOK, Batch, Claimable
    <2> QED
      BY <1>1, <2>1 DEF ClaimPending
  <1>2. ASSUME NEW f \in Events, Append(f) \/ BecomeDue(f) \/ ExpireLease(f)
        PROVE  state'[e] = "published"
    BY <1>2 DEF TypeOK, Append, BecomeDue, ExpireLease
  <1>3. ASSUME NEW r \in Relays, NEW f \in Events, Dispatch(r, f)
        PROVE  state'[e] = "published"
    BY <1>3 DEF TypeOK, Dispatch, Publish, MarkPublished, MarkFailed
  <1>4. ASSUME NEW r \in Relays, NEW f \in Events,
               PublishFails(r, f) \/ ConfirmLost(r, f) \/ MarkLost(r, f)
        PROVE  state'[e] = "published"
    BY <1>4 DEF PublishFails, ConfirmLost, MarkLost
  <1>5. ASSUME NEW r \in Relays, Crash(r) PROVE state'[e] = "published"
    BY <1>5 DEF Crash
  <1>6. CASE UNCHANGED vars
    BY <1>6 DEF vars
  <1> QED
    BY <1>1, <1>2, <1>3, <1>4, <1>5, <1>6 DEF Next

\* A published event stays published, for every number of relays and faults
\* (MarkPublished, MarkFailed and ClaimPending).
THEOREM PublishedForGood == Spec => PublishedIsFinal
  <1>1. ASSUME TypeOK, [Next]_vars
        PROVE  [\A e \in Events : state[e] = "published" => state'[e] = "published"]_vars
    BY <1>1, PublishedStays
  <1>2. ClaimInv => TypeOK
    BY DEF ClaimInv
  <1> QED
    BY <1>1, <1>2, ClaimInvariant, PTL DEF Spec, PublishedIsFinal

-----------------------------------------------------------------------------
(***************************************************************************)
(* The queue.                                                              *)
(***************************************************************************)

Messages == Delivery!Messages

\* A retry is for a message that decodes and has retries left.
RetryAllowed ==
    \A w \in Consumers : step[w] = "retry" => held[w][1] \notin bad /\ held[w][2] < MaxRetries

\* Copies, notifications and dead letters are of events that were published.
Genuine ==
    /\ \A m \in Messages : main[m] > 0 \/ delayed[m] > 0 => queued[m[1]] > 0
    /\ \A w \in Consumers : step[w] # "idle" => queued[held[w][1]] > 0
    /\ \A e \in Events : saved[e] > 0 \/ dead[e] > 0 => queued[e] > 0

\* A published event is a notification, a dead letter, a copy in a queue, or a
\* message that a consumer will not acknowledge before it is one of these.
InQueue(e) == \E m \in Messages : m[1] = e /\ (main[m] > 0 \/ delayed[m] > 0)
InHand(e) == \E w \in Consumers : step[w] \in {"handle", "retry", "dead"} /\ held[w][1] = e
Carried == \A e \in Events : queued[e] > 0 => saved[e] > 0 \/ dead[e] > 0 \/ InQueue(e) \/ InHand(e)

\* A copy that says n retries has failed n times, and a consumer gives a message
\* up when it does not decode or has failed once more than it may be retried.
Tried ==
    /\ \A m \in Messages : main[m] > 0 \/ delayed[m] > 0 => failed[m[1]] >= m[2]
    /\ \A w \in Consumers : step[w] # "idle" =>
         /\ failed[held[w][1]] >= held[w][2]
         /\ step[w] = "retry" => failed[held[w][1]] > held[w][2]
         /\ step[w] = "dead" => held[w][1] \in bad \/ failed[held[w][1]] > MaxRetries
    /\ DeadOnlyWhenExhausted

QueueInv == Delivery!TypeOK /\ RetryAllowed /\ Genuine /\ Carried /\ Tried

\* A message is an event with a retry count.
LEMMA MessageFields ==
    /\ \A m \in Messages : m[1] \in Events /\ m[2] \in 0 .. MaxRetries /\ m = <<m[1], m[2]>>
    /\ \A e \in Events, n \in 0 .. MaxRetries :
         <<e, n>> \in Messages /\ <<e, n>>[1] = e /\ <<e, n>>[2] = n
    /\ NoMessage \notin Messages
    /\ MaxRetries \in Nat /\ 0 \in 0 .. MaxRetries
  BY PipelineAssumption DEF PipelineAssumption, Messages, Delivery!Messages

\* The types of the queue, with its messages as an abbreviation.
LEMMA QueueTypes ==
    ASSUME Delivery!TypeOK
    PROVE  /\ main \in [Messages -> Nat] /\ delayed \in [Messages -> Nat]
           /\ dead \in [Events -> Nat] /\ saved \in [Events -> Nat] /\ failed \in [Events -> Nat]
           /\ queued \in [Events -> 0 .. MaxSent] /\ queued \in [Events -> Nat] /\ bad \subseteq Events
           /\ held \in [Consumers -> Messages \cup {NoMessage}]
           /\ step \in [Consumers -> {"idle", "handle", "ack", "retry", "dead"}]
           /\ \A w \in Consumers : /\ step[w] = "idle" <=> held[w] = NoMessage
                                   /\ step[w] # "idle" => held[w] \in Messages
           /\ queueFaults \in 0 .. QueueFaults
  BY PipelineAssumption DEF Delivery!TypeOK, Messages, PipelineAssumption

\* The types after a step, from the same facts.
LEMMA QueueTypesNext ==
    ASSUME main' \in [Messages -> Nat], delayed' \in [Messages -> Nat],
           dead' \in [Events -> Nat], saved' \in [Events -> Nat], failed' \in [Events -> Nat],
           queued' \in [Events -> 0 .. MaxSent], bad' \subseteq Events,
           held' \in [Consumers -> Messages \cup {NoMessage}],
           step' \in [Consumers -> {"idle", "handle", "ack", "retry", "dead"}],
           \A w \in Consumers : step'[w] = "idle" <=> held'[w] = NoMessage,
           queueFaults' \in 0 .. QueueFaults
    PROVE  Delivery!TypeOK'
  BY DEF Delivery!TypeOK, Messages

\* A publication puts a first copy into the main queue.
LEMMA SendInv ==
    ASSUME QueueInv, NEW e \in Events, Delivery!Send(e)
    PROVE  QueueInv'
  <1> DEFINE m == <<e, 0>>
  <1>1. m \in Messages /\ m[1] = e /\ m[2] = 0
    BY MessageFields
  <1>2. /\ queued'[e] > 0 /\ \A f \in Events \ {e} : queued'[f] = queued[f]
        /\ main'[m] > 0
        /\ \A o \in Messages \ {m} : main'[o] = main[o]
    BY <1>1, QueueTypes, MessageFields DEF QueueInv, Delivery!Send, Delivery!Messages
  <1>3. UNCHANGED <<bad, delayed, dead, held, step, saved, failed, queueFaults>>
    BY DEF Delivery!Send
  <1>4. Delivery!TypeOK'
    <2>1. queued' \in [Events -> 0 .. MaxSent]
      BY QueueTypes, PipelineAssumption DEF QueueInv, Delivery!Send, Delivery!Fault, PipelineAssumption
    <2> QED
      BY <1>1, <1>3, <2>1, QueueTypes, QueueTypesNext, MessageFields
         DEF QueueInv, Delivery!Send, Delivery!Messages
  <1>5. RetryAllowed'
    BY <1>1, <1>2, <1>3 DEF QueueInv, RetryAllowed
  <1>6. Genuine'
    BY <1>1, <1>2, <1>3, QueueTypes, MessageFields DEF QueueInv, Genuine
  <1>7. Carried'
    <2>1. InQueue(e)'
      BY <1>1, <1>2, <1>3 DEF InQueue, InHand
    <2>2. ASSUME NEW f \in Events \ {e}
          PROVE  (InQueue(f) => InQueue(f)') /\ (InHand(f) => InHand(f)')
      BY <1>1, <1>2, <1>3 DEF InQueue, InHand
    <2> QED
      BY <1>1, <1>2, <1>3, <2>1, <2>2 DEF QueueInv, Carried
  <1>8. Tried'
    BY <1>1, <1>2, <1>3, QueueTypes, MessageFields DEF QueueInv, Tried, DeadOnlyWhenExhausted, RetryAllowed
  <1> QED
    BY <1>4, <1>5, <1>6, <1>7, <1>8 DEF QueueInv

\* A delayed copy returns to the main queue.
LEMMA ReturnInv ==
    ASSUME QueueInv, NEW m \in Messages, Delivery!Return(m)
    PROVE  QueueInv'
  <1>1. m[1] \in Events
    BY MessageFields
  <1>2. /\ main'[m] > 0 /\ delayed[m] > 0 /\ delayed'[m] = delayed[m] - 1
        /\ \A o \in Messages \ {m} : main'[o] = main[o] /\ delayed'[o] = delayed[o]
    BY <1>1, QueueTypes, MessageFields DEF QueueInv, Delivery!Return, Delivery!Messages
  <1>3. UNCHANGED <<bad, dead, held, step, saved, queued, failed, queueFaults>>
    BY DEF Delivery!Return
  <1>4. Delivery!TypeOK'
    BY <1>1, <1>3, QueueTypes, QueueTypesNext, MessageFields
       DEF QueueInv, Delivery!Return, Delivery!Messages
  <1>5. RetryAllowed'
    BY <1>1, <1>2, <1>3 DEF QueueInv, RetryAllowed
  <1>6. Genuine'
    BY <1>1, <1>2, <1>3, QueueTypes, MessageFields DEF QueueInv, Genuine
  <1>7. Carried'
    <2>1. InQueue(m[1])'
      BY <1>1, <1>2, <1>3 DEF InQueue, InHand
    <2>2. ASSUME NEW f \in Events \ {m[1]}
          PROVE  (InQueue(f) => InQueue(f)') /\ (InHand(f) => InHand(f)')
      BY <1>1, <1>2, <1>3 DEF InQueue, InHand
    <2> QED
      BY <1>1, <1>2, <1>3, <2>1, <2>2 DEF QueueInv, Carried
  <1>8. Tried'
    BY <1>1, <1>2, <1>3, QueueTypes, MessageFields DEF QueueInv, Tried, DeadOnlyWhenExhausted, RetryAllowed
  <1> QED
    BY <1>4, <1>5, <1>6, <1>7, <1>8 DEF QueueInv

\* A consumer takes a copy.
LEMMA ReceiveInv ==
    ASSUME QueueInv, NEW w \in Consumers, NEW m \in Messages, Delivery!Receive(w, m)
    PROVE  QueueInv'
  <1>1. m[1] \in Events /\ m # NoMessage
    BY MessageFields
  <1>2. /\ main[m] > 0 /\ main'[m] = main[m] - 1 /\ step[w] = "idle"
        /\ \A o \in Messages \ {m} : main'[o] = main[o]
        /\ step'[w] = "handle" /\ held'[w] = m
        /\ \A v \in Consumers \ {w} : step'[v] = step[v] /\ held'[v] = held[v]
    BY <1>1, QueueTypes, MessageFields DEF QueueInv, Delivery!Receive, Delivery!Goto
  <1>3. UNCHANGED <<bad, delayed, dead, saved, queued, failed, queueFaults>>
    BY DEF Delivery!Receive
  <1>4. Delivery!TypeOK'
    BY <1>1, <1>3, QueueTypes, QueueTypesNext, MessageFields
       DEF QueueInv, Delivery!Receive, Delivery!Goto
  <1>5. RetryAllowed'
    BY <1>1, <1>2, <1>3 DEF QueueInv, RetryAllowed
  <1>6. Genuine'
    BY <1>1, <1>2, <1>3, QueueTypes, MessageFields DEF QueueInv, Genuine
  <1>7. Carried'
    <2>1. InHand(m[1])'
      BY <1>1, <1>2, <1>3 DEF InQueue, InHand
    <2>2. ASSUME NEW f \in Events \ {m[1]}
          PROVE  (InQueue(f) => InQueue(f)') /\ (InHand(f) => InHand(f)')
      BY <1>1, <1>2, <1>3 DEF InQueue, InHand
    <2> QED
      BY <1>1, <1>2, <1>3, <2>1, <2>2 DEF QueueInv, Carried
  <1>8. Tried'
    BY <1>1, <1>2, <1>3, QueueTypes, MessageFields DEF QueueInv, Tried, DeadOnlyWhenExhausted, RetryAllowed
  <1> QED
    BY <1>4, <1>5, <1>6, <1>7, <1>8 DEF QueueInv

\* The listener saves the notification.
LEMMA HandleSucceedsInv ==
    ASSUME QueueInv, NEW w \in Consumers, Delivery!HandleSucceeds(w)
    PROVE  QueueInv'
  <1> DEFINE m == held[w]
             e == held[w][1]
  <1>1. step[w] = "handle" /\ m \in Messages /\ e \in Events
    BY QueueTypes, MessageFields DEF QueueInv, RetryAllowed, Delivery!HandleSucceeds, Delivery!Event
  <1>2. /\ step'[w] = "ack"
        /\ \A v \in Consumers \ {w} : step'[v] = step[v]
        /\ saved'[e] > 0 /\ \A f \in Events \ {e} : saved'[f] = saved[f]
    BY <1>1, QueueTypes, MessageFields DEF QueueInv, Delivery!HandleSucceeds, Delivery!Goto, Delivery!InsertIgnore, Delivery!Event
  <1>3. UNCHANGED <<bad, main, delayed, dead, held, queued, failed, queueFaults>>
    BY DEF Delivery!HandleSucceeds
  <1>4. Delivery!TypeOK'
    BY <1>1, <1>3, QueueTypes, QueueTypesNext, MessageFields
       DEF QueueInv, Delivery!HandleSucceeds, Delivery!Goto, Delivery!InsertIgnore, Delivery!Event
  <1>5. RetryAllowed'
    BY <1>1, <1>2, <1>3 DEF QueueInv, RetryAllowed
  <1>6. Genuine'
    BY <1>1, <1>2, <1>3, QueueTypes, MessageFields DEF QueueInv, Genuine
  <1>7. Carried'
    <2>1. saved'[e] > 0
      BY <1>1, <1>2, <1>3 DEF InQueue, InHand
    <2>2. ASSUME NEW f \in Events \ {e}
          PROVE  (InQueue(f) => InQueue(f)') /\ (InHand(f) => InHand(f)')
      BY <1>1, <1>2, <1>3 DEF InQueue, InHand
    <2> QED
      BY <1>1, <1>2, <1>3, <2>1, <2>2 DEF QueueInv, Carried
  <1>8. Tried'
    BY <1>1, <1>2, <1>3, QueueTypes, MessageFields DEF QueueInv, Tried, DeadOnlyWhenExhausted, RetryAllowed
  <1> QED
    BY <1>4, <1>5, <1>6, <1>7, <1>8 DEF QueueInv

\* The listener gives up a message that does not decode.
LEMMA HandleRejectsInv ==
    ASSUME QueueInv, NEW w \in Consumers, Delivery!HandleRejects(w)
    PROVE  QueueInv'
  <1> DEFINE m == held[w]
             e == held[w][1]
  <1>1. step[w] = "handle" /\ e \in bad /\ m \in Messages /\ e \in Events
    BY QueueTypes, MessageFields DEF QueueInv, RetryAllowed, Delivery!HandleRejects, Delivery!Event
  <1>2. /\ step'[w] = "dead"
        /\ \A v \in Consumers \ {w} : step'[v] = step[v]
    BY <1>1, QueueTypes, MessageFields DEF QueueInv, Delivery!HandleRejects, Delivery!Goto
  <1>3. UNCHANGED <<bad, main, delayed, dead, held, saved, queued, failed, queueFaults>>
    BY DEF Delivery!HandleRejects
  <1>4. Delivery!TypeOK'
    BY <1>1, <1>3, QueueTypes, QueueTypesNext, MessageFields
       DEF QueueInv, Delivery!HandleRejects, Delivery!Goto
  <1>5. RetryAllowed'
    BY <1>1, <1>2, <1>3 DEF QueueInv, RetryAllowed
  <1>6. Genuine'
    BY <1>1, <1>2, <1>3, QueueTypes, MessageFields DEF QueueInv, Genuine
  <1>7. Carried'
    <2>1. InHand(e)'
      BY <1>1, <1>2, <1>3 DEF InQueue, InHand
    <2>2. ASSUME NEW f \in Events \ {e}
          PROVE  (InQueue(f) => InQueue(f)') /\ (InHand(f) => InHand(f)')
      BY <1>1, <1>2, <1>3 DEF InQueue, InHand
    <2> QED
      BY <1>1, <1>2, <1>3, <2>1, <2>2 DEF QueueInv, Carried
  <1>8. Tried'
    BY <1>1, <1>2, <1>3, QueueTypes, MessageFields DEF QueueInv, Tried, DeadOnlyWhenExhausted, RetryAllowed
  <1> QED
    BY <1>4, <1>5, <1>6, <1>7, <1>8 DEF QueueInv

\* The listener fails: there is a retry, or none is left.
LEMMA HandleFailsInv ==
    ASSUME QueueInv, NEW w \in Consumers, Delivery!HandleFails(w)
    PROVE  QueueInv'
  <1> DEFINE m == held[w]
             e == held[w][1]
  <1>1. step[w] = "handle" /\ e \notin bad /\ m \in Messages /\ e \in Events
    BY QueueTypes, MessageFields DEF QueueInv, RetryAllowed, Delivery!HandleFails, Delivery!Event
  <1>2. /\ step'[w] = IF m[2] < MaxRetries THEN "retry" ELSE "dead"
        /\ \A v \in Consumers \ {w} : step'[v] = step[v]
        /\ failed'[e] = failed[e] + 1 /\ \A f \in Events \ {e} : failed'[f] = failed[f]
        /\ saved'[e] >= saved[e] /\ saved'[e] \in Nat /\ \A f \in Events \ {e} : saved'[f] = saved[f]
    BY <1>1, QueueTypes, MessageFields DEF QueueInv, Delivery!HandleFails, Delivery!Goto, Delivery!InsertIgnore, Delivery!Event, Delivery!Retries, Delivery!MayRetry, Delivery!Fault
  <1>3. UNCHANGED <<bad, main, delayed, dead, held, queued>>
    BY DEF Delivery!HandleFails
  <1>4. Delivery!TypeOK'
    <2>1. queueFaults' \in 0 .. QueueFaults
      BY QueueTypes, PipelineAssumption DEF QueueInv, Delivery!HandleFails, Delivery!Fault, PipelineAssumption
    <2> QED
      BY <1>1, <1>3, <2>1, QueueTypes, QueueTypesNext, MessageFields
         DEF QueueInv, Delivery!HandleFails, Delivery!Goto, Delivery!InsertIgnore, Delivery!Event, Delivery!Retries, Delivery!MayRetry, Delivery!Fault
  <1>5. RetryAllowed'
    BY <1>1, <1>2, <1>3 DEF QueueInv, RetryAllowed
  <1>6. Genuine'
    BY <1>1, <1>2, <1>3, QueueTypes, MessageFields DEF QueueInv, Genuine
  <1>7. Carried'
    <2>1. InHand(e)'
      BY <1>1, <1>2, <1>3 DEF InQueue, InHand
    <2>2. ASSUME NEW f \in Events \ {e}
          PROVE  (InQueue(f) => InQueue(f)') /\ (InHand(f) => InHand(f)')
      BY <1>1, <1>2, <1>3 DEF InQueue, InHand
    <2> QED
      BY <1>1, <1>2, <1>3, <2>1, <2>2 DEF QueueInv, Carried
  <1>8. Tried'
    <2>1. \A f \in Events : failed[f] \in Nat /\ failed'[f] \in Nat /\ failed'[f] >= failed[f]
      BY <1>1, <1>2, QueueTypes DEF QueueInv
    <2>2. failed'[e] = failed[e] + 1 /\ failed[e] >= m[2] /\ m[2] \in Nat
      BY <1>1, <1>2, MessageFields DEF QueueInv, Tried
    <2>3. \A n \in Messages : main'[n] > 0 \/ delayed'[n] > 0 => failed'[n[1]] >= n[2]
      BY <1>3, <2>1, MessageFields DEF QueueInv, Tried
    <2>4. ASSUME NEW v \in Consumers, step'[v] # "idle"
          PROVE  /\ failed'[held'[v][1]] >= held'[v][2]
                 /\ step'[v] = "retry" => failed'[held'[v][1]] > held'[v][2]
                 /\ step'[v] = "dead" => held'[v][1] \in bad' \/ failed'[held'[v][1]] > MaxRetries
      <3>1. CASE v = w
        <4>1. MaxRetries \in Nat
          BY PipelineAssumption DEF PipelineAssumption
        <4>2. step'[v] = IF m[2] < MaxRetries THEN "retry" ELSE "dead"
          BY <1>2, <3>1
        <4> QED
          BY <1>1, <1>3, <2>1, <2>2, <3>1, <4>1, <4>2
      <3>2. CASE v # w
        <4>1. step'[v] = step[v] /\ held'[v] = held[v]
          BY <1>2, <1>3, <3>2
        <4>2. held[v][1] \in Events /\ held[v][2] \in Nat
          BY <2>4, <4>1, QueueTypes, MessageFields DEF QueueInv
        <4>3. MaxRetries \in Nat
          BY PipelineAssumption DEF PipelineAssumption
        <4> QED
          BY <1>3, <2>1, <2>4, <4>1, <4>2, <4>3 DEF QueueInv, Tried
      <3> QED
        BY <3>1, <3>2
    <2>5. DeadOnlyWhenExhausted'
      BY <1>3, <2>1, PipelineAssumption DEF QueueInv, Tried, DeadOnlyWhenExhausted, PipelineAssumption
    <2> QED
      BY <2>3, <2>4, <2>5 DEF Tried
  <1> QED
    BY <1>4, <1>5, <1>6, <1>7, <1>8 DEF QueueInv

\* The copy for the next attempt says one retry more.
LEMMA RouteRetryInv ==
    ASSUME QueueInv, NEW w \in Consumers, Delivery!RouteRetry(w)
    PROVE  QueueInv'
  <1> DEFINE m == held[w]
             e == held[w][1]
             n == <<e, m[2] + 1>>
  <1>1. /\ step[w] = "retry" /\ m[2] < MaxRetries /\ m \in Messages /\ e \in Events
        /\ n \in Messages /\ n[1] = e /\ n[2] = m[2] + 1
    <2>1. step[w] = "retry" /\ m[2] < MaxRetries /\ m \in Messages
      BY QueueTypes DEF QueueInv, RetryAllowed, Delivery!RouteRetry
    <2>2. e \in Events /\ m[2] + 1 \in 0 .. MaxRetries
      BY <2>1, MessageFields
    <2> QED
      BY <2>1, <2>2, MessageFields
  <1>2. /\ step'[w] = "ack"
        /\ \A v \in Consumers \ {w} : step'[v] = step[v]
        /\ delayed'[n] > 0 /\ \A o \in Messages \ {n} : delayed'[o] = delayed[o]
    BY <1>1, QueueTypes, MessageFields DEF QueueInv, Delivery!RouteRetry, Delivery!Goto, Delivery!NextTry, Delivery!Event, Delivery!Retries
  <1>3. UNCHANGED <<bad, main, dead, held, saved, queued, failed, queueFaults>>
    BY DEF Delivery!RouteRetry
  <1>4. Delivery!TypeOK'
    BY <1>1, <1>3, QueueTypes, QueueTypesNext, MessageFields
       DEF QueueInv, Delivery!RouteRetry, Delivery!Goto, Delivery!NextTry, Delivery!Event, Delivery!Retries
  <1>5. RetryAllowed'
    BY <1>1, <1>2, <1>3 DEF QueueInv, RetryAllowed
  <1>6. Genuine'
    BY <1>1, <1>2, <1>3, QueueTypes, MessageFields DEF QueueInv, Genuine
  <1>7. Carried'
    <2>1. InQueue(e)'
      BY <1>1, <1>2, <1>3 DEF InQueue, InHand
    <2>2. ASSUME NEW f \in Events \ {e}
          PROVE  (InQueue(f) => InQueue(f)') /\ (InHand(f) => InHand(f)')
      BY <1>1, <1>2, <1>3 DEF InQueue, InHand
    <2> QED
      BY <1>1, <1>2, <1>3, <2>1, <2>2 DEF QueueInv, Carried
  <1>8. Tried'
    BY <1>1, <1>2, <1>3, QueueTypes, MessageFields DEF QueueInv, Tried, DeadOnlyWhenExhausted, RetryAllowed
  <1> QED
    BY <1>4, <1>5, <1>6, <1>7, <1>8 DEF QueueInv

\* The message becomes a dead letter.
LEMMA DeadLetterInv ==
    ASSUME QueueInv, NEW w \in Consumers, Delivery!DeadLetter(w)
    PROVE  QueueInv'
  <1> DEFINE m == held[w]
             e == held[w][1]
  <1>1. step[w] = "dead" /\ m \in Messages /\ e \in Events
    BY QueueTypes, MessageFields DEF QueueInv, RetryAllowed, Delivery!DeadLetter, Delivery!Event
  <1>2. /\ step'[w] = "ack"
        /\ \A v \in Consumers \ {w} : step'[v] = step[v]
        /\ dead'[e] > 0 /\ \A f \in Events \ {e} : dead'[f] = dead[f]
    BY <1>1, QueueTypes, MessageFields DEF QueueInv, Delivery!DeadLetter, Delivery!Goto, Delivery!Event
  <1>3. UNCHANGED <<bad, main, delayed, held, saved, queued, failed, queueFaults>>
    BY DEF Delivery!DeadLetter
  <1>4. Delivery!TypeOK'
    BY <1>1, <1>3, QueueTypes, QueueTypesNext, MessageFields
       DEF QueueInv, Delivery!DeadLetter, Delivery!Goto, Delivery!Event
  <1>5. RetryAllowed'
    BY <1>1, <1>2, <1>3 DEF QueueInv, RetryAllowed
  <1>6. Genuine'
    BY <1>1, <1>2, <1>3, QueueTypes, MessageFields DEF QueueInv, Genuine
  <1>7. Carried'
    <2>1. dead'[e] > 0
      BY <1>1, <1>2, <1>3 DEF InQueue, InHand
    <2>2. ASSUME NEW f \in Events \ {e}
          PROVE  (InQueue(f) => InQueue(f)') /\ (InHand(f) => InHand(f)')
      BY <1>1, <1>2, <1>3 DEF InQueue, InHand
    <2> QED
      BY <1>1, <1>2, <1>3, <2>1, <2>2 DEF QueueInv, Carried
  <1>8. Tried'
    BY <1>1, <1>2, <1>3, QueueTypes, MessageFields DEF QueueInv, Tried, DeadOnlyWhenExhausted, RetryAllowed
  <1> QED
    BY <1>4, <1>5, <1>6, <1>7, <1>8 DEF QueueInv

\* An acknowledgement ends a copy that no longer counts.
LEMMA AckInv ==
    ASSUME QueueInv, NEW w \in Consumers, Delivery!Ack(w)
    PROVE  QueueInv'
  <1> DEFINE m == held[w]
             e == held[w][1]
  <1>1. step[w] = "ack" /\ m \in Messages /\ e \in Events
    BY QueueTypes, MessageFields DEF QueueInv, RetryAllowed, Delivery!Ack, Delivery!Event
  <1>2. /\ step'[w] = "idle" /\ held'[w] = NoMessage
        /\ \A v \in Consumers \ {w} : step'[v] = step[v] /\ held'[v] = held[v]
    BY <1>1, QueueTypes, MessageFields DEF QueueInv, Delivery!Ack, Delivery!Drop, Delivery!Goto
  <1>3. UNCHANGED <<bad, main, delayed, dead, saved, queued, failed, queueFaults>>
    BY DEF Delivery!Ack
  <1>4. Delivery!TypeOK'
    BY <1>1, <1>3, QueueTypes, QueueTypesNext, MessageFields
       DEF QueueInv, Delivery!Ack, Delivery!Drop, Delivery!Goto
  <1>5. RetryAllowed'
    BY <1>1, <1>2, <1>3 DEF QueueInv, RetryAllowed
  <1>6. Genuine'
    BY <1>1, <1>2, <1>3, QueueTypes, MessageFields DEF QueueInv, Genuine
  <1>7. Carried'
    BY <1>1, <1>2, <1>3, QueueTypes, MessageFields DEF QueueInv, Carried, InQueue, InHand
  <1>8. Tried'
    BY <1>1, <1>2, <1>3, QueueTypes, MessageFields DEF QueueInv, Tried, DeadOnlyWhenExhausted, RetryAllowed
  <1> QED
    BY <1>4, <1>5, <1>6, <1>7, <1>8 DEF QueueInv

\* The broker delivers again what a consumer held when it died.
LEMMA CrashInv ==
    ASSUME QueueInv, NEW w \in Consumers, Delivery!Crash(w)
    PROVE  QueueInv'
  <1>1. PICK m \in Messages, e \in Events : step[w] # "idle" /\ m = held[w] /\ e = m[1]
    BY QueueTypes, MessageFields DEF QueueInv, Delivery!Crash
  <1>2. /\ step'[w] = "idle" /\ held'[w] = NoMessage
        /\ \A v \in Consumers \ {w} : step'[v] = step[v] /\ held'[v] = held[v]
        /\ main'[m] > 0
        /\ \A o \in Messages \ {m} : main'[o] = main[o]
    BY <1>1, QueueTypes, MessageFields DEF QueueInv, Delivery!Crash, Delivery!Drop, Delivery!Goto, Delivery!Requeue, Delivery!Fault
  <1>3. UNCHANGED <<bad, delayed, dead, saved, queued, failed>>
    BY DEF Delivery!Crash
  <1>4. Delivery!TypeOK'
    <2>1. queueFaults' \in 0 .. QueueFaults
      BY QueueTypes, PipelineAssumption DEF QueueInv, Delivery!Crash, Delivery!Fault, PipelineAssumption
    <2> QED
      BY <1>1, <1>3, <2>1, QueueTypes, QueueTypesNext, MessageFields
         DEF QueueInv, Delivery!Crash, Delivery!Drop, Delivery!Goto, Delivery!Requeue, Delivery!Fault
  <1>5. RetryAllowed'
    BY <1>1, <1>2, <1>3 DEF QueueInv, RetryAllowed
  <1>6. Genuine'
    BY <1>1, <1>2, <1>3, QueueTypes, MessageFields DEF QueueInv, Genuine
  <1>7. Carried'
    <2>1. InQueue(e)'
      BY <1>1, <1>2, <1>3 DEF InQueue, InHand
    <2>2. ASSUME NEW f \in Events \ {e}
          PROVE  (InQueue(f) => InQueue(f)') /\ (InHand(f) => InHand(f)')
      BY <1>1, <1>2, <1>3 DEF InQueue, InHand
    <2> QED
      BY <1>1, <1>2, <1>3, <2>1, <2>2 DEF QueueInv, Carried
  <1>8. Tried'
    BY <1>1, <1>2, <1>3, QueueTypes, MessageFields DEF QueueInv, Tried, DeadOnlyWhenExhausted, RetryAllowed
  <1> QED
    BY <1>4, <1>5, <1>6, <1>7, <1>8 DEF QueueInv

\* A copy that is not confirmed goes back to the main queue, whether or not it
\* was made.
LEMMA RouteFailsInv ==
    ASSUME QueueInv, NEW w \in Consumers, Delivery!RouteFails(w)
    PROVE  QueueInv'
  <1>1. PICK m \in Messages, e \in Events :
          /\ m = held[w] /\ e = m[1] /\ step[w] \in {"retry", "dead"}
          /\ step[w] = "retry" => m[2] < MaxRetries
    BY QueueTypes, MessageFields DEF QueueInv, RetryAllowed, Delivery!RouteFails
  <1>2. PICK n : n = <<e, m[2] + 1>>
    OBVIOUS
  <1>3. step[w] = "retry" => n \in Messages /\ n[1] = e /\ n[2] = m[2] + 1
    <2>1. step[w] = "retry" => m[2] + 1 \in 0 .. MaxRetries
      BY <1>1, MessageFields
    <2> QED
      BY <1>2, <2>1, MessageFields
  <1>4. /\ step'[w] = "idle" /\ held'[w] = NoMessage
        /\ \A v \in Consumers \ {w} : step'[v] = step[v] /\ held'[v] = held[v]
        /\ main'[m] > 0 /\ \A o \in Messages \ {m} : main'[o] = main[o]
    BY <1>1, QueueTypes DEF QueueInv, Delivery!RouteFails, Delivery!Drop, Delivery!Goto, Delivery!Requeue
  <1>5. \/ delayed' = delayed /\ dead' = dead
        \/ step[w] = "retry" /\ delayed' = [delayed EXCEPT ![n] = @ + 1] /\ dead' = dead
        \/ step[w] = "dead" /\ dead' = [dead EXCEPT ![e] = @ + 1] /\ delayed' = delayed
    BY <1>1, <1>2 DEF Delivery!RouteFails, Delivery!NextTry, Delivery!Event, Delivery!Retries
  <1>6. /\ \A o \in Messages : /\ delayed[o] > 0 => delayed'[o] > 0
                               /\ delayed'[o] > 0 => delayed[o] > 0 \/ (o = n /\ step[w] = "retry")
        /\ \A f \in Events : /\ dead[f] > 0 => dead'[f] > 0
                             /\ dead'[f] > 0 => dead[f] > 0 \/ (f = e /\ step[w] = "dead")
    BY <1>3, <1>5, QueueTypes DEF QueueInv
  <1>7. UNCHANGED <<bad, saved, queued, failed>>
    BY DEF Delivery!RouteFails
  <1>8. Delivery!TypeOK'
    <2>1. queueFaults' \in 0 .. QueueFaults
      BY QueueTypes, PipelineAssumption DEF QueueInv, Delivery!RouteFails, Delivery!Fault, PipelineAssumption
    <2>2. delayed' \in [Messages -> Nat] /\ dead' \in [Events -> Nat]
      BY <1>3, <1>5, QueueTypes DEF QueueInv
    <2> QED
      BY <1>1, <1>7, <2>1, <2>2, QueueTypes, QueueTypesNext
         DEF QueueInv, Delivery!RouteFails, Delivery!Drop, Delivery!Goto, Delivery!Requeue
  <1>9. RetryAllowed'
    BY <1>4, <1>7 DEF QueueInv, RetryAllowed
  <1>10. Genuine'
    BY <1>1, <1>3, <1>4, <1>6, <1>7, MessageFields DEF QueueInv, Genuine
  <1>11. Carried'
    <2>1. InQueue(e)'
      BY <1>1, <1>4 DEF InQueue
    <2>2. ASSUME NEW f \in Events \ {e}
          PROVE  (InQueue(f) => InQueue(f)') /\ (InHand(f) => InHand(f)')
      BY <1>1, <1>4, <1>6 DEF InQueue, InHand
    <2> QED
      BY <1>1, <1>6, <1>7, <2>1, <2>2 DEF QueueInv, Carried
  <1>12. Tried'
    <2>1. \A o \in Messages : main'[o] > 0 \/ delayed'[o] > 0 => failed'[o[1]] >= o[2]
      BY <1>1, <1>3, <1>4, <1>6, <1>7, QueueTypes, MessageFields DEF QueueInv, Tried
    <2>2. ASSUME NEW v \in Consumers, step'[v] # "idle"
          PROVE  /\ failed'[held'[v][1]] >= held'[v][2]
                 /\ step'[v] = "retry" => failed'[held'[v][1]] > held'[v][2]
                 /\ step'[v] = "dead" => held'[v][1] \in bad' \/ failed'[held'[v][1]] > MaxRetries
      BY <1>4, <1>7, <2>2 DEF QueueInv, Tried
    <2>3. DeadOnlyWhenExhausted'
      BY <1>1, <1>6, <1>7 DEF QueueInv, Tried, DeadOnlyWhenExhausted
    <2> QED
      BY <2>1, <2>2, <2>3 DEF Tried
  <1> QED
    BY <1>8, <1>9, <1>10, <1>11, <1>12 DEF QueueInv

\* The queue starts empty.
LEMMA QueueInit == PipelineInit => QueueInv
  <1> SUFFICES ASSUME PipelineInit PROVE QueueInv
    OBVIOUS
  <1> USE DEF PipelineInit, Delivery!Init
  <1>1. Delivery!TypeOK
    BY PipelineAssumption DEF Delivery!TypeOK, PipelineAssumption, Init
  <1>2. RetryAllowed /\ Genuine /\ Carried /\ Tried
    BY MessageFields DEF RetryAllowed, Genuine, Carried, Tried, DeadOnlyWhenExhausted, Messages, Init
  <1> QED
    BY <1>1, <1>2 DEF QueueInv

\* A publication of a relay is a step of the queue, and so is every other step
\* that is not the outbox's own.
LEMMA PipelineSteps ==
    ASSUME [PipelineNext]_pipelineVars
    PROVE  \/ \E r \in Relays, e \in Events : (Publish(r, e) \/ ConfirmLost(r, e)) /\ Delivery!Send(e)
           \/ Next /\ UNCHANGED <<queued, queueVars>>
           \/ Delivery!Next /\ UNCHANGED <<queued, outboxVars>>
           \/ UNCHANGED pipelineVars
  BY DEF PipelineNext, RelayPublishes, RelayUnsure, RelayStep, QueueStep

\* Every step keeps the invariant of the queue.
LEMMA QueueStepInv ==
    ASSUME QueueInv, [PipelineNext]_pipelineVars
    PROVE  QueueInv'
  <1>1. ASSUME NEW e \in Events, Delivery!Send(e) PROVE QueueInv'
    BY <1>1, SendInv
  <1>2. CASE Delivery!Next
    <2>1. ASSUME NEW m \in Messages, Delivery!Return(m) PROVE QueueInv'
      BY <2>1, ReturnInv
    <2>2. ASSUME NEW w \in Consumers, Delivery!Consume(w) PROVE QueueInv'
      BY <2>2, ReceiveInv, HandleSucceedsInv, HandleRejectsInv, RouteRetryInv, DeadLetterInv, AckInv
         DEF Delivery!Consume, Messages
    <2>3. ASSUME NEW w \in Consumers, Delivery!HandleFails(w) \/ Delivery!RouteFails(w) \/ Delivery!Crash(w)
          PROVE  QueueInv'
      BY <2>3, HandleFailsInv, RouteFailsInv, CrashInv
    <2> QED
      BY <1>1, <1>2, <2>1, <2>2, <2>3 DEF Delivery!Next, Messages
  <1>3. CASE UNCHANGED <<queued, queueVars>>
    <2>1. UNCHANGED <<bad, main, delayed, dead, held, step, saved, failed, queueFaults, queued>>
      BY <1>3 DEF queueVars
    <2>2. Delivery!TypeOK'
      BY <2>1 DEF QueueInv, Delivery!TypeOK
    <2>3. RetryAllowed' /\ Genuine' /\ Tried'
      BY <2>1 DEF QueueInv, RetryAllowed, Genuine, Tried, DeadOnlyWhenExhausted
    <2>4. Carried'
      BY <2>1 DEF QueueInv, Carried, InQueue, InHand
    <2> QED
      BY <2>2, <2>3, <2>4 DEF QueueInv
  <1>4. CASE UNCHANGED pipelineVars
    BY <1>3, <1>4 DEF pipelineVars, vars
  <1> QED
    BY <1>1, <1>2, <1>3, <1>4, PipelineSteps

-----------------------------------------------------------------------------
(***************************************************************************)
(* The two sides together.                                                 *)
(***************************************************************************)

\* Every step of the pipeline is a step of the outbox or leaves it alone.
LEMMA PipelineIsOutbox ==
    ASSUME [PipelineNext]_pipelineVars
    PROVE  [Next]_vars
  <1>1. CASE \E r \in Relays, e \in Events : Publish(r, e) \/ ConfirmLost(r, e)
    BY <1>1 DEF Next, Dispatch
  <1>2. CASE UNCHANGED <<queued, outboxVars>> \/ UNCHANGED pipelineVars
    BY <1>2 DEF outboxVars, pipelineVars, vars
  <1> QED
    BY <1>1, <1>2, PipelineSteps

\* What relays work on and what they have published was recorded.
RecordedFirst ==
    /\ \A r \in Relays, e \in Events : task[r][e] # "idle" => state[e] # "none"
    /\ \A e \in Events : queued[e] > 0 => state[e] # "none"

\* Relays take up only rows that are there, and no row goes.
LEMMA RecordedStep ==
    ASSUME TypeOK, RecordedFirst, [Next]_vars
    PROVE  RecordedFirst'
  <1> USE DEF TypeOK, RecordedFirst
  <1>1. ASSUME NEW e \in Events, Append(e) PROVE RecordedFirst'
    BY <1>1 DEF Append
  <1>2. ASSUME NEW e \in Events, BecomeDue(e) \/ ExpireLease(e) PROVE RecordedFirst'
    BY <1>2 DEF BecomeDue, ExpireLease
  <1>3. ASSUME NEW r \in Relays, ClaimPending(r) PROVE RecordedFirst'
    BY <1>3 DEF ClaimPending
  <1>4. ASSUME NEW r \in Relays, Crash(r) PROVE RecordedFirst'
    BY <1>4 DEF Crash
  <1>5. ASSUME NEW r \in Relays, NEW e \in Events, Publish(r, e) \/ ConfirmLost(r, e) PROVE RecordedFirst'
    <2>1. state[e] # "none" /\ UNCHANGED state
      BY <1>5 DEF Publish, ConfirmLost
    <2>2. \A f \in Events \ {e} : queued'[f] = queued[f]
      BY <1>5 DEF Publish, ConfirmLost
    <2>3. \A q \in Relays, f \in Events : q # r \/ f # e => task'[q][f] = task[q][f]
      BY <1>5 DEF Publish, ConfirmLost, Goto
    <2> QED
      BY <2>1, <2>2, <2>3
  <1>6. ASSUME NEW r \in Relays, NEW e \in Events, MarkPublished(r, e) PROVE RecordedFirst'
    BY <1>6 DEF MarkPublished, Goto
  <1>7. ASSUME NEW r \in Relays, NEW e \in Events, MarkFailed(r, e) PROVE RecordedFirst'
    BY <1>7 DEF MarkFailed, Goto
  <1>8. ASSUME NEW r \in Relays, NEW e \in Events, PublishFails(r, e) \/ MarkLost(r, e) PROVE RecordedFirst'
    BY <1>8 DEF PublishFails, MarkLost, Goto
  <1>9. CASE UNCHANGED vars
    BY <1>9 DEF vars
  <1> QED
    BY <1>1, <1>2, <1>3, <1>4, <1>5, <1>6, <1>7, <1>8, <1>9 DEF Next, Dispatch

PipelineInv == ClaimInv /\ RecordedFirst /\ QueueInv

\* The inductive invariant of the pipeline.
THEOREM PipelineInvariant == PipelineSpec => []PipelineInv
  <1>1. PipelineInit => PipelineInv
    <2> SUFFICES ASSUME PipelineInit PROVE PipelineInv
      OBVIOUS
    <2>1. ClaimInv
      BY ClaimInit DEF PipelineInit
    <2>2. RecordedFirst
      BY DEF PipelineInit, Init, RecordedFirst
    <2> QED
      BY <2>1, <2>2, QueueInit DEF PipelineInv
  <1>2. PipelineInv /\ [PipelineNext]_pipelineVars => PipelineInv'
    <2> SUFFICES ASSUME PipelineInv, [PipelineNext]_pipelineVars PROVE PipelineInv'
      OBVIOUS
    <2>1. [Next]_vars
      BY PipelineIsOutbox
    <2>2. ClaimInv' /\ RecordedFirst'
      BY <2>1, ClaimStep, RecordedStep DEF PipelineInv, ClaimInv
    <2> QED
      BY <2>2, QueueStepInv DEF PipelineInv
  <1> QED
    BY <1>1, <1>2, PTL DEF PipelineSpec

\* Nothing is lost between the two sides: an event that the outbox considers
\* published is a notification, a dead letter or a message under way, for every
\* number of relays, consumers, retries and faults.
THEOREM PublishedNotLost == PipelineSpec => []PublishedIsUnderWay
  <1>1. PipelineInv => PublishedIsUnderWay
    <2> SUFFICES ASSUME PipelineInv, NEW e \in Events, state[e] = "published",
                        ~(saved[e] > 0), ~(dead[e] > 0)
                 PROVE  Delivery!UnderWay(e)
      BY DEF PublishedIsUnderWay
    <2>1. InQueue(e) \/ InHand(e)
      BY DEF PipelineInv, ClaimInv, PublishedWasQueued, QueueInv, Carried
    <2>2. CASE InQueue(e)
      <3>1. PICK m \in Messages : m[1] = e /\ (main[m] > 0 \/ delayed[m] > 0)
        BY <2>2 DEF InQueue
      <3>2. m[2] \in 0 .. MaxRetries /\ m = <<e, m[2]>>
        BY <3>1, MessageFields
      <3> QED
        BY <3>1, <3>2 DEF Delivery!UnderWay
    <2>3. CASE InHand(e)
      BY <2>3, QueueTypes DEF InHand, PipelineInv, QueueInv, Delivery!UnderWay, Delivery!Event
    <2> QED
      BY <2>1, <2>2, <2>3
  <1> QED
    BY <1>1, PipelineInvariant, PTL

\* A message that decodes is dead-lettered only when the first attempt and
\* every retry have failed, however often it is requeued or copied.
THEOREM DeadAfterRetries == PipelineSpec => []DeadOnlyWhenExhausted
  <1>1. PipelineInv => DeadOnlyWhenExhausted
    BY DEF PipelineInv, QueueInv, Tried
  <1> QED
    BY <1>1, PipelineInvariant, PTL

-----------------------------------------------------------------------------
(***************************************************************************)
(* Refinement of Notification, without its fairness.                       *)
(***************************************************************************)

\* Nothing is recorded, notified or abandoned at the start.
LEMMA NotificationStart ==
    ASSUME PipelineInit
    PROVE  Notification!Init
  BY DEF PipelineInit, Init, Delivery!Init, Notification!Init

\* What Notification sees of a state: a step that changes none of it stutters.
LEMMA Stutters ==
    ASSUME \A e \in Events : (state'[e] # "none") <=> (state[e] # "none"),
           \A e \in Events : (saved'[e] > 0) <=> (saved[e] > 0),
           \A e \in Events : (dead'[e] > 0) <=> (dead[e] > 0)
    PROVE  UNCHANGED Notification!vars
  BY DEF Notification!vars

\* A step of the outbox that the queue does not see records an event
\* (AppendBatch) or nothing: claims, leases and marks keep every row.
LEMMA OutboxRefines ==
    ASSUME PipelineInv, Next, UNCHANGED queueVars
    PROVE  [Notification!Next]_(Notification!vars)
  <1>1. UNCHANGED <<saved, dead>>
    BY DEF queueVars
  <1>2. ASSUME NEW e \in Events, Append(e)
        PROVE  Notification!Next
    <2>1. state[e] = "none" /\ state' = [state EXCEPT ![e] = "pending"]
      BY <1>2 DEF Append
    <2>2. {f \in Events : state'[f] # "none"} = {f \in Events : state[f] # "none"} \cup {e}
      BY <2>1 DEF PipelineInv, ClaimInv, TypeOK
    <2>3. Notification!Record(e)
      BY <1>1, <2>1, <2>2 DEF Notification!Record
    <2> QED
      BY <2>3 DEF Notification!Next
  <1>3. ASSUME ~ \E e \in Events : Append(e)
        PROVE  \A e \in Events : (state'[e] # "none") <=> (state[e] # "none")
    <2> USE DEF PipelineInv, ClaimInv, TypeOK
    <2>1. ASSUME NEW r \in Relays, ClaimPending(r)
          PROVE  \A e \in Events : (state'[e] # "none") <=> (state[e] # "none")
      BY <2>1 DEF ClaimPending, Batch, Claimable
    <2>2. ASSUME NEW r \in Relays, NEW f \in Events, MarkPublished(r, f) \/ MarkFailed(r, f)
          PROVE  \A e \in Events : (state'[e] # "none") <=> (state[e] # "none")
      BY <2>2 DEF MarkPublished, MarkFailed
    <2>3. CASE UNCHANGED state
      BY <2>3
    <2> QED
      BY <1>3, <2>1, <2>2, <2>3
         DEF Next, Dispatch, BecomeDue, ExpireLease, Crash, Publish, PublishFails, ConfirmLost, MarkLost
  <1> QED
    BY <1>1, <1>2, <1>3, Stutters

\* Saving the notification of a published event notifies it, the first time
\* (Save, INSERT IGNORE).
LEMMA SaveRefines ==
    ASSUME PipelineInv, UNCHANGED <<state, dead>>,
           NEW w \in Consumers, step[w] # "idle", Delivery!InsertIgnore(Delivery!Event(w))
    PROVE  [Notification!Next]_(Notification!vars)
  <1>1. PICK e \in Events : e = held[w][1]
    BY QueueTypes, MessageFields DEF PipelineInv, QueueInv
  <1>2. saved \in [Events -> Nat] /\ saved' = [saved EXCEPT ![e] = IF @ = 0 THEN 1 ELSE @]
    BY <1>1, QueueTypes DEF PipelineInv, QueueInv, Delivery!InsertIgnore, Delivery!Event
  <1>3. state[e] # "none"
    BY <1>1 DEF PipelineInv, QueueInv, Genuine, RecordedFirst
  <1>4. CASE saved[e] = 0
    <2>1. {f \in Events : saved'[f] > 0} = {f \in Events : saved[f] > 0} \cup {e}
      BY <1>2, <1>4
    <2>2. Notification!Notify(e)
      BY <1>3, <1>4, <2>1 DEF Notification!Notify
    <2> QED
      BY <2>2 DEF Notification!Next
  <1>5. CASE saved[e] # 0
    <2>1. \A f \in Events : (saved'[f] > 0) <=> (saved[f] > 0)
      BY <1>2, <1>5
    <2> QED
      BY <2>1, Stutters
  <1> QED
    BY <1>4, <1>5

\* A copy to the dead letter queue abandons a published event, the first time
\* (DeadLetter of the router, whether or not its confirm comes).
LEMMA DeadRefines ==
    ASSUME PipelineInv, UNCHANGED <<state, saved>>,
           NEW w \in Consumers, step[w] # "idle", dead' = [dead EXCEPT ![Delivery!Event(w)] = @ + 1]
    PROVE  [Notification!Next]_(Notification!vars)
  <1>1. PICK e \in Events : e = held[w][1]
    BY QueueTypes, MessageFields DEF PipelineInv, QueueInv
  <1>2. dead \in [Events -> Nat] /\ dead' = [dead EXCEPT ![e] = @ + 1]
    BY <1>1, QueueTypes DEF PipelineInv, QueueInv, Delivery!Event
  <1>3. state[e] # "none"
    BY <1>1 DEF PipelineInv, QueueInv, Genuine, RecordedFirst
  <1>4. CASE dead[e] = 0
    <2>1. {f \in Events : dead'[f] > 0} = {f \in Events : dead[f] > 0} \cup {e}
      BY <1>2, <1>4
    <2>2. Notification!Abandon(e)
      BY <1>3, <1>4, <2>1 DEF Notification!Abandon
    <2> QED
      BY <2>2 DEF Notification!Next
  <1>5. CASE dead[e] # 0
    <2>1. \A f \in Events : (dead'[f] > 0) <=> (dead[f] > 0)
      BY <1>2, <1>5
    <2> QED
      BY <2>1, Stutters
  <1> QED
    BY <1>4, <1>5

\* Every other step of a consumer or of the broker moves copies only.
LEMMA QueueRefines ==
    ASSUME PipelineInv, Delivery!Next, UNCHANGED state
    PROVE  [Notification!Next]_(Notification!vars)
  <1>1. CASE UNCHANGED <<saved, dead>>
    BY <1>1, Stutters
  <1>2. ASSUME NEW w \in Consumers, Delivery!HandleSucceeds(w) \/ Delivery!HandleFails(w)
        PROVE  [Notification!Next]_(Notification!vars)
    BY <1>1, <1>2, SaveRefines DEF Delivery!HandleSucceeds, Delivery!HandleFails
  <1>3. ASSUME NEW w \in Consumers, Delivery!DeadLetter(w) \/ Delivery!RouteFails(w)
        PROVE  [Notification!Next]_(Notification!vars)
    BY <1>1, <1>3, DeadRefines DEF Delivery!DeadLetter, Delivery!RouteFails
  <1>4. ASSUME NEW w \in Consumers,
               \/ \E m \in Messages : Delivery!Receive(w, m)
               \/ Delivery!HandleRejects(w) \/ Delivery!RouteRetry(w)
               \/ Delivery!Ack(w) \/ Delivery!Crash(w)
        PROVE  UNCHANGED <<saved, dead>>
    BY <1>4 DEF Delivery!Receive, Delivery!HandleRejects, Delivery!RouteRetry, Delivery!Ack, Delivery!Crash
  <1>5. ASSUME \/ \E e \in Events : Delivery!Send(e)
               \/ \E m \in Messages : Delivery!Return(m)
        PROVE  UNCHANGED <<saved, dead>>
    BY <1>5 DEF Delivery!Send, Delivery!Return
  <1> QED
    BY <1>1, <1>2, <1>3, <1>4, <1>5 DEF Delivery!Next, Delivery!Consume, Messages

\* The safety part of ImplementsNotification: outbox, relays, queues and
\* consumers start as Notification does, and every step of theirs is one of
\* its steps or changes nothing it sees.  An event is notified or
\* dead-lettered only after its transaction recorded it, once, and for good.
THEOREM RefinesNotification ==
    PipelineSpec => Notification!Init /\ [][Notification!Next]_(Notification!vars)
  <1>1. PipelineInit => Notification!Init
    BY NotificationStart
  <1>2. PipelineInv /\ [PipelineNext]_pipelineVars => [Notification!Next]_(Notification!vars)
    <2> SUFFICES ASSUME PipelineInv, [PipelineNext]_pipelineVars
                 PROVE  [Notification!Next]_(Notification!vars)
      OBVIOUS
    <2>1. CASE \E r \in Relays, e \in Events : (Publish(r, e) \/ ConfirmLost(r, e)) /\ Delivery!Send(e)
      BY <2>1, Stutters DEF Publish, ConfirmLost, Delivery!Send
    <2>2. CASE Next /\ UNCHANGED <<queued, queueVars>>
      BY <2>2, OutboxRefines
    <2>3. CASE Delivery!Next /\ UNCHANGED <<queued, outboxVars>>
      BY <2>3, QueueRefines DEF outboxVars
    <2>4. CASE UNCHANGED pipelineVars
      BY <2>4, Stutters DEF pipelineVars, vars, queueVars
    <2> QED
      BY <2>1, <2>2, <2>3, <2>4, PipelineSteps
  <1> QED
    BY <1>1, <1>2, PipelineInvariant, PTL DEF PipelineSpec

=============================================================================
