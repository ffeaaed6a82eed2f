--------------------------- MODULE SelectionStream ---------------------------
(***************************************************************************)
(* The workers that project the selection stream into MySQL: the consumer  *)
(* group with its pending entries list (PEL), batches that are read or     *)
(* claimed, the batch transaction and its per-message fallback, the dead   *)
(* letter stream, and workers that crash, lose a call or fall so far       *)
(* behind that another worker claims the messages they still process.      *)
(*                                                                         *)
(* What Selection abstracts to "some worker takes the next step" is spelt  *)
(* out here; what a message says is abstracted to how its projection ends. *)
(***************************************************************************)
EXTENDS Integers, FiniteSetsExt

CONSTANTS
    Workers,
    N,            \* number of messages the commit script appends (bound)
    Scenarios,    \* the possible values of kind
    BatchSize,
    MaxFaults     \* lost calls and crashes before the infrastructure is stable

(***************************************************************************)
(* plain     : saved by any attempt the infrastructure lets through        *)
(* garbled   : does not decode                                             *)
(* rejected  : refused with an error the service knows (quota, conflict)   *)
(* duplicate : violates a unique key, an error the service does not know   *)
(***************************************************************************)
Kinds == {"plain", "garbled", "rejected", "duplicate"}

Messages == 1 .. N   \* stream ids, in the order they were appended

ASSUME StreamAssumption ==
    /\ N \in Nat
    /\ Scenarios \subseteq [Messages -> Kinds]
    /\ BatchSize \in Nat \ {0}
    /\ MaxFaults \in Nat

VARIABLES
    kind,      \* message |-> how its projection ends, from the start
    state,     \* message |-> absent, new, pel (delivered), gone (acknowledged)
    idle,      \* messages of the PEL not touched for ClaimIdle
    pc,        \* worker |-> where it is
    batch,     \* worker |-> messages it holds, which it takes in stream order
    cursor,    \* worker |-> XAUTOCLAIM cursor, 0 at the start
    claimDue,  \* workers whose next claim scan is due
    rows,      \* message |-> rows its event inserted into MySQL
    dlq,       \* message |-> copies in the dead letter stream
    faults     \* faults left

workerVars == <<pc, batch, cursor, claimDue>>
vars == <<kind, state, idle, workerVars, rows, dlq, faults>>

TypeOK ==
    /\ kind \in Scenarios
    /\ state \in [Messages -> {"absent", "new", "pel", "gone"}]
    /\ idle \subseteq Messages
    /\ pc \in [Workers -> {"loop", "read", "reading", "decode", "save", "ack",
                           "items", "itemAck"}]
    /\ batch \in [Workers -> SUBSET Messages]
    /\ \A w \in Workers : Cardinality(batch[w]) <= BatchSize
    /\ cursor \in [Workers -> 0 .. N]
    /\ claimDue \subseteq Workers
    /\ rows \in [Messages -> Nat]
    /\ dlq \in [Messages -> Nat]
    /\ faults \in 0 .. MaxFaults

Init ==
    /\ kind \in Scenarios
    /\ state = [m \in Messages |-> "absent"]
    /\ idle = {}
    /\ pc = [w \in Workers |-> "loop"]
    /\ batch = [w \in Workers |-> {}]
    /\ cursor = [w \in Workers |-> 0]
    /\ claimDue = Workers
    /\ rows = [m \in Messages |-> 0]
    /\ dlq = [m \in Messages |-> 0]
    /\ faults = MaxFaults

-----------------------------------------------------------------------------
(***************************************************************************)
(* Redis: the stream and its consumer group.                               *)
(***************************************************************************)

\* The first n messages of S, in stream order.
First(S, n) == {m \in S : Cardinality({l \in S : l < m}) < n}

InState(x) == {m \in Messages : state[m] = x}

\* XADD by the commit script.
Publish(m) ==
    /\ state[m] = "absent"
    /\ \A l \in 1 .. m - 1 : state[l] # "absent"
    /\ state' = [state EXCEPT ![m] = "new"]
    /\ UNCHANGED <<idle, workerVars, rows, dlq, faults>>

\* A delivered message was not touched for ClaimIdle, whether its worker is
\* dead, has given up on it or is merely slow.
GrowIdle(m) ==
    /\ state[m] = "pel"
    /\ m \notin idle
    /\ idle' = idle \cup {m}
    /\ UNCHANGED <<state, workerVars, rows, dlq, faults>>

\* XACK and XDEL of a set of messages, in one script.
Settle(S) ==
    /\ state' = [m \in Messages |-> IF m \in S THEN "gone" ELSE state[m]]
    /\ idle' = idle \ S

\* XADD to the dead letter stream, XACK and XDEL, in one script.
DeadLetter(m) ==
    /\ dlq' = [dlq EXCEPT ![m] = @ + 1]
    /\ Settle({m})

-----------------------------------------------------------------------------
(***************************************************************************)
(* The worker loop: claim what others left, else read what is new.         *)
(***************************************************************************)

Goto(w, l) == pc' = [pc EXCEPT ![w] = l]

\* The messages are left in the PEL for a later claim.
GiveUp(w) ==
    /\ Goto(w, "loop")
    /\ batch' = [batch EXCEPT ![w] = {}]

\* Half of ClaimIdle (15 s) has passed since the last complete scan.  By
\* then a worker at the top of its loop has read what is new: a read comes
\* back within BlockTimeout (1 s).
ClaimTimer(w) ==
    /\ w \notin claimDue
    /\ ~(pc[w] = "loop" /\ InState("new") # {})
    /\ claimDue' = claimDue \cup {w}
    /\ UNCHANGED <<state, idle, pc, batch, cursor, rows, dlq, faults>>

\* What XAUTOCLAIM hands over: idle messages of the PEL from the cursor on.
Claimable(w) == {m \in idle : m >= cursor[w]}

\* XAUTOCLAIM; the returned cursor is 0 once the scan reached the end.
ClaimStale(w) ==
    LET got  == First(Claimable(w), BatchSize)
        rest == {m \in InState("pel") : \A l \in got : m > l}
        more == Cardinality(got) = BatchSize /\ rest # {}
    IN
    /\ pc[w] = "loop"
    /\ w \in claimDue
    /\ cursor' = [cursor EXCEPT ![w] = IF more THEN Min(rest) ELSE 0]
    /\ claimDue' = IF more THEN claimDue ELSE claimDue \ {w}
    /\ idle' = idle \ got
    /\ batch' = [batch EXCEPT ![w] = got]
    /\ Goto(w, IF got = {} THEN "read" ELSE "decode")
    /\ UNCHANGED <<state, rows, dlq, faults>>

\* XREADGROUP: the next new messages; a short batch waits for more.
ReadStreamGroup(w) ==
    LET got == First(InState("new"), BatchSize - Cardinality(batch[w]))
        all == batch[w] \cup got
    IN
    /\ \/ pc[w] = "loop" /\ w \notin claimDue
       \/ pc[w] \in {"read", "reading"}
    /\ got # {}
    /\ state' = [m \in Messages |-> IF m \in got THEN "pel" ELSE state[m]]
    /\ batch' = [batch EXCEPT ![w] = all]
    /\ Goto(w, IF Cardinality(all) = BatchSize THEN "decode" ELSE "reading")
    /\ UNCHANGED <<idle, cursor, claimDue, rows, dlq, faults>>

\* The read comes back empty after BlockTimeout.
ReadTimeout(w) ==
    /\ pc[w] = "read"
    /\ InState("new") = {}
    /\ Goto(w, "loop")
    /\ UNCHANGED <<state, idle, batch, cursor, claimDue, rows, dlq, faults>>

\* BatchWait is over, or the last read came back empty.
StopReading(w) ==
    /\ pc[w] = "reading"
    /\ Goto(w, "decode")
    /\ UNCHANGED <<state, idle, batch, cursor, claimDue, rows, dlq, faults>>

\* A further read of readNewBatch fails: runWorker drops what was read.
ReadFails(w) ==
    /\ pc[w] = "reading"
    /\ faults > 0
    /\ faults' = faults - 1
    /\ GiveUp(w)
    /\ UNCHANGED <<state, idle, cursor, claimDue, rows, dlq>>

-----------------------------------------------------------------------------
(***************************************************************************)
(* processBatch.                                                           *)
(***************************************************************************)

Garbled(S) == {m \in S : kind[m] = "garbled"}

\* Messages that do not decode go to the dead letter stream one by one (the
\* call may fail); the others go on.
Decode(w) ==
    LET bad == Garbled(batch[w]) IN
    /\ pc[w] = "decode"
    /\ IF bad = {}
         THEN /\ Goto(w, IF batch[w] = {} THEN "loop" ELSE "save")
              /\ UNCHANGED <<state, idle, batch, dlq, faults>>
         ELSE /\ batch' = [batch EXCEPT ![w] = @ \ {Min(bad)}]
              /\ \/ DeadLetter(Min(bad)) /\ UNCHANGED faults
                 \/ /\ faults > 0
                    /\ faults' = faults - 1
                    /\ UNCHANGED <<state, idle, dlq>>
              /\ UNCHANGED pc
    /\ UNCHANGED <<cursor, claimDue, rows>>

\* Events an earlier transaction inserted are only compared, not inserted.
Unclaimed(S) == {m \in S : rows[m] > 0}

Insert(S) ==
    rows' = [m \in Messages |-> IF m \in S \ Unclaimed(S) THEN rows[m] + 1 ELSE rows[m]]

\* How the transaction for a set of messages ends.  The quota and the stored
\* events are checked before any unique key can be violated.
Outcome(S) ==
    CASE \E m \in S : kind[m] = "rejected"  -> "rejected"
      [] \E m \in S : kind[m] = "duplicate" -> "unknown"
      [] OTHER                              -> "saved"

\* Fault: the errors the service knows are retried, the others are not.
RetryableFault(o) == o = "rejected"

\* isRetryableSelectionPersistenceError: only errors the service knows are
\* deterministic.
Retryable(o) == o = "unknown"

\* SaveSelectionResults on the whole batch.
SaveBatch(w) ==
    LET o == Outcome(batch[w]) IN
    /\ pc[w] = "save"
    /\ CASE o = "saved" -> Insert(batch[w]) /\ Goto(w, "ack") /\ UNCHANGED batch
         [] o # "saved" /\ Retryable(o)  -> GiveUp(w) /\ UNCHANGED rows
         [] o # "saved" /\ ~Retryable(o) -> Goto(w, "items") /\ UNCHANGED <<batch, rows>>
    /\ UNCHANGED <<state, idle, cursor, claimDue, dlq, faults>>

\* Everything in the batch is acknowledged at once.
AckBatch(w) ==
    /\ pc[w] = "ack"
    /\ Settle(batch[w])
    /\ GiveUp(w)
    /\ UNCHANGED <<cursor, claimDue, rows, dlq, faults>>

\* What the fallback does with the rest of the batch.
NextItem(w) ==
    /\ batch' = [batch EXCEPT ![w] = @ \ {Min(@)}]
    /\ Goto(w, IF batch[w] = {Min(batch[w])} THEN "loop" ELSE "items")

\* Fault: the fallback dead-letters every message of the batch.
SaveItemFault(w) ==
    /\ pc[w] = "items"
    /\ DeadLetter(Min(batch[w]))
    /\ NextItem(w)
    /\ UNCHANGED <<cursor, claimDue, rows, faults>>

\* SaveSelectionResult on the first message that is left.
SaveItem(w) ==
    LET m == Min(batch[w])
        o == Outcome({m})
    IN
    /\ pc[w] = "items"
    /\ \/ /\ o = "saved"
          /\ Insert({m})
          /\ Goto(w, "itemAck")
          /\ UNCHANGED <<state, idle, batch, dlq>>
       \/ /\ o # "saved" /\ Retryable(o)
          /\ NextItem(w)
          /\ UNCHANGED <<state, idle, rows, dlq>>
       \/ /\ o # "saved" /\ ~Retryable(o)
          /\ DeadLetter(m)
          /\ NextItem(w)
          /\ UNCHANGED rows
    /\ UNCHANGED <<cursor, claimDue, faults>>

\* Fault: saving one message acknowledges the whole batch.
AckItemFault(w) ==
    /\ pc[w] = "itemAck"
    /\ Settle(batch[w])
    /\ GiveUp(w)
    /\ UNCHANGED <<cursor, claimDue, rows, dlq, faults>>

AckItem(w) ==
    /\ pc[w] = "itemAck"
    /\ Settle({Min(batch[w])})
    /\ NextItem(w)
    /\ UNCHANGED <<cursor, claimDue, rows, dlq, faults>>

\* A call to MySQL or Redis is lost: before the transaction, after it (the
\* pending keys could not be cleared), or at the acknowledgement.
CallFails(w) ==
    /\ faults > 0
    /\ faults' = faults - 1
    /\ \/ /\ pc[w] = "save"
          /\ GiveUp(w)
          /\ \/ UNCHANGED rows
             \/ /\ Outcome(batch[w]) = "saved"
                /\ Insert(batch[w])
       \/ /\ pc[w] = "ack"
          /\ GiveUp(w)
          /\ UNCHANGED rows
       \/ /\ pc[w] = "items"
          /\ NextItem(w)
          /\ \/ UNCHANGED rows
             \/ /\ Outcome({Min(batch[w])}) = "saved"
                /\ Insert({Min(batch[w])})
       \/ /\ pc[w] = "itemAck"
          /\ NextItem(w)
          /\ UNCHANGED rows
    /\ UNCHANGED <<state, idle, cursor, claimDue, dlq>>

\* The process dies or is stopped, and a new worker takes its place.
Crash(w) ==
    /\ faults > 0
    /\ faults' = faults - 1
    /\ GiveUp(w)
    /\ cursor' = [cursor EXCEPT ![w] = 0]
    /\ claimDue' = claimDue \cup {w}
    /\ UNCHANGED <<state, idle, rows, dlq>>

-----------------------------------------------------------------------------
Work(w) ==
    \/ ClaimStale(w)
    \/ ReadStreamGroup(w)
    \/ ReadTimeout(w)
    \/ StopReading(w)
    \/ Decode(w)
    \/ SaveBatch(w)
    \/ AckBatch(w)
    \/ SaveItem(w)
    \/ AckItem(w)

Next ==
    /\ \/ \E m \in Messages : Publish(m) \/ GrowIdle(m)
       \/ \E w \in Workers : \/ Work(w)
                             \/ ClaimTimer(w)
                             \/ ReadFails(w)
                             \/ CallFails(w)
                             \/ Crash(w)
    /\ UNCHANGED kind

Spec == Init /\ [][Next]_vars

(***************************************************************************)
(* The worker goroutines and the clock run; the commit script promises     *)
(* nothing, and faults are not owed.                                       *)
(***************************************************************************)
Fairness ==
    /\ \A w \in Workers : /\ WF_vars(Work(w) /\ UNCHANGED kind)
                          /\ WF_vars(ClaimTimer(w) /\ UNCHANGED kind)
    /\ \A m \in Messages : WF_vars(GrowIdle(m) /\ UNCHANGED kind)

FairSpec == Spec /\ Fairness

-----------------------------------------------------------------------------
(***************************************************************************)
(* Properties.                                                             *)
(***************************************************************************)

\* A message leaves the stream only with its row in MySQL or a copy in the
\* dead letter stream, although any worker may acknowledge it at any time.
NothingLost == \A m \in InState("gone") : rows[m] > 0 \/ dlq[m] > 0

\* Only a message that can never be saved is dead-lettered: sharing a batch
\* with one, or being processed by two workers, is not enough.
OnlyFaultyDeadLettered ==
    \A m \in Messages : dlq[m] > 0 => kind[m] \in {"garbled", "rejected"} /\ rows[m] = 0

\* Every message is settled in the end, unless one in the stream violates a
\* unique key (what that does to the others: PlainEventuallySaved).
EventuallySettled ==
    \A m \in Messages : (state[m] = "new") ~>
        (state[m] = "gone" \/ \E l \in Messages : kind[l] = "duplicate")

\* A message that can be saved is saved, whatever else is in the stream.
PlainEventuallySaved ==
    \A m \in Messages : (state[m] = "new" /\ kind[m] = "plain") ~> (rows[m] > 0)
=============================================================================
