------------------------------ MODULE Waitlist ------------------------------
(***************************************************************************)
(* The waiting list of one full teaching class in one round.  Students     *)
(* join, cancel, and go on choosing and dropping courses; promotion jobs,  *)
(* which may overlap, claim entries in MySQL and choose the course for     *)
(* them through the same admission and commit script as a student would.   *)
(*                                                                         *)
(* An entry is claimed by its state "promoting".  The claim is a lease: an *)
(* entry that stays in that state for a minute goes back to the queue, so  *)
(* a slow job and the next one may work on the same entry.  The request    *)
(* identifier of the promotion is derived from the entry, which makes the  *)
(* choice idempotent.                                                      *)
(*                                                                         *)
(* Redis and MySQL see the seats at different times: the commit script     *)
(* decides on the Redis seats, the claim looks at selected_count.          *)
(***************************************************************************)
EXTENDS Integers, Sequences, FiniteSets, FiniteSetsExt

CONSTANTS
    Students, Enrolled,   \* all students, and those who hold the seats at the start
    Requests,             \* request identifiers of the students
    Workers, BatchSize, Capacity,
    MaxEntries,           \* bound on the rows of the waiting list
    MaxFailures           \* bound on crashes, errors, lost replies and slow jobs

ASSUME WaitlistConstants ==
    /\ Enrolled \subseteq Students /\ IsFiniteSet(Students)
    /\ Capacity \in Nat /\ Cardinality(Enrolled) <= Capacity
    /\ BatchSize \in Nat \ {0}
    /\ MaxEntries \in Nat /\ MaxFailures \in Nat

VARIABLES
    round,     \* "open" until the end of its window, then "closed"
    entry,     \* rows of selection_waitlist in the order of their ids
    holder,    \* Redis: students the class is selected for
    pending,   \* Redis: students whose last decision is not in MySQL yet
    decided,   \* entries whose promotion request has a stored result
    saved,     \* MySQL: students with an enrolled row for the class
    counted,   \* MySQL: selected_count
    worker,    \* worker |-> its step, what it read of the round, and its entries
    failures   \* crashes, errors, lost replies and slow jobs so far

vars == <<round, entry, holder, pending, decided, saved, counted,
          worker, failures>>
redis == <<holder, pending, decided>>
mysql == <<saved, counted>>

Ids == 1 .. Len(entry)
Active == {"waiting", "promoting"}
EntryStates == Active \cup {"promoted", "cancelled"}
Reasons == {"none", "student", "closed", "failed"}
Idle == [pc |-> "idle", sawOpen |-> FALSE, todo |-> {}]

TypeOK ==
    /\ round \in {"open", "closed"}
    /\ entry \in Seq([student : Students, request : Requests, state : EntryStates,
                      reason : Reasons, stale : BOOLEAN])
    /\ {holder, pending, saved} \subseteq SUBSET Students
    /\ decided \subseteq Ids
    /\ counted \in 0 .. Cardinality(Students)
    /\ worker \in [Workers -> [pc : {"idle", "expire", "claim", "query", "admit", "commit",
                                     "mark", "return", "cancel"},
                               sawOpen : BOOLEAN, todo : SUBSET Ids]]
    /\ failures \in 0 .. MaxFailures

Init ==
    /\ round = "open"
    /\ entry = << >>
    /\ holder = Enrolled /\ saved = Enrolled /\ counted = Cardinality(Enrolled)
    /\ pending = {} /\ decided = {}
    /\ worker = [w \in Workers |-> Idle]
    /\ failures = 0

-----------------------------------------------------------------------------
(* Students. *)

Full == Cardinality(holder) >= Capacity

\* The unique keys of the table: one active entry of a student for the class,
\* and one entry for a request.
KeysFree(s, r) ==
    \A i \in Ids : entry[i].student = s => entry[i].state \notin Active /\ entry[i].request # r

\* Join: AdmitWaitlist (the round accepts, the class is full, nothing else
\* speaks against the student), then the insert.  A duplicate key answers
\* with the entry that is there or with an error.  What happens in Redis
\* between the two might as well happen after them.
Join(s, r) ==
    /\ round = "open" /\ Full
    /\ s \notin holder
    /\ Len(entry) < MaxEntries
    /\ KeysFree(s, r)
    /\ entry' = Append(entry, [student |-> s, request |-> r, state |-> "waiting",
                              reason |-> "none", stale |-> FALSE])
    /\ UNCHANGED <<round, redis, mysql, worker, failures>>

\* CancelWaitlist changes an active entry only.
Cancelled(e, why) == IF e.state \in Active
                       THEN [e EXCEPT !.state = "cancelled", !.reason = why, !.stale = FALSE]
                       ELSE e

Cancel(i) ==
    /\ entry[i].state \in Active
    /\ entry' = [entry EXCEPT ![i] = Cancelled(@, "student")]
    /\ UNCHANGED <<round, redis, mysql, worker, failures>>

\* A student chooses the class directly.  (Other courses a student chooses
\* answer the promotion with the same errors: a decision under way, then a
\* clash or an exhausted quota.)
SelectCourse(s) ==
    /\ round = "open" /\ ~Full
    /\ s \notin holder
    /\ holder' = holder \cup {s} /\ pending' = pending \cup {s}
    /\ UNCHANGED <<round, entry, decided, mysql, worker, failures>>

DropEnrollment(s) ==
    /\ s \in saved
    /\ saved' = saved \ {s}
    /\ UNCHANGED <<round, entry, redis, counted, worker, failures>>

-----------------------------------------------------------------------------
(* The rest of the system: projection, release, count, clock. *)

PersistSelection(s) ==
    /\ s \in pending
    /\ pending' = pending \ {s}
    /\ saved' = saved \cup {s}
    /\ UNCHANGED <<round, entry, holder, decided, counted, worker,
                   failures>>

ReleaseDroppedEnrollment(s) ==
    /\ s \in holder \ (saved \cup pending)
    /\ holder' = holder \ {s}
    /\ UNCHANGED <<round, entry, pending, decided, mysql, worker,
                   failures>>

ProjectCounts ==
    /\ counted # Cardinality(saved)
    /\ counted' = Cardinality(saved)
    /\ UNCHANGED <<round, entry, redis, saved, worker, failures>>

CloseRound ==
    /\ round = "open" /\ round' = "closed"
    /\ UNCHANGED <<entry, redis, mysql, worker, failures>>

Failure == failures < MaxFailures /\ failures' = failures + 1

\* A minute has passed since the entry was claimed: the job is gone, or slow.
LeaseRunsOut(i) ==
    /\ entry[i].state = "promoting" /\ ~entry[i].stale
    /\ entry' = [entry EXCEPT ![i].stale = TRUE]
    /\ IF \E w \in Workers : i \in worker[w].todo THEN Failure ELSE UNCHANGED failures
    /\ UNCHANGED <<round, redis, mysql, worker>>

-----------------------------------------------------------------------------
(* The promotion job. *)

\* ORDER BY id LIMIT.
First(S) == {i \in S : Cardinality({j \in S : j < i}) < BatchSize}
Claim(S, table) == [i \in Ids |-> IF i \in S THEN [table[i] EXCEPT !.state = "promoting",
                                                                  !.stale = FALSE]
                                             ELSE table[i]]

\* ClaimExpiredEntries, with the time the job read when it began.
ClaimExpiredEntries(w) ==
    LET expired == {i \in Ids : round = "closed" /\ entry[i].state = "waiting"} IN
    /\ worker[w].pc = "idle"
    /\ entry' = Claim(First(expired), entry)
    /\ worker' = [worker EXCEPT ![w] = [pc |-> IF expired = {} THEN "claim" ELSE "expire",
                                        sawOpen |-> round = "open", todo |-> First(expired)]]
    /\ UNCHANGED <<round, redis, mysql, failures>>

Current(w) == Min(worker[w].todo)
Student(w) == entry[Current(w)].student

Goto(w, pc) == worker' = [worker EXCEPT ![w].pc = pc]

\* Go on with the next entry, or with the step that follows the batch.
Proceed(w, pc, after) ==
    worker' = [worker EXCEPT ![w].todo = @ \ {Current(w)},
                             ![w].pc = IF worker[w].todo = {Current(w)} THEN after ELSE pc]
End(w) == worker' = [worker EXCEPT ![w] = Idle]

\* CancelWaitlist for the current entry; an entry that is promoted ends the job.
CancelEntry(w, why, pc, after) ==
    /\ entry' = [entry EXCEPT ![Current(w)] = Cancelled(@, why)]
    /\ IF entry[Current(w)].state = "promoted" THEN End(w) ELSE Proceed(w, pc, after)
    /\ UNCHANGED <<round, redis, mysql, failures>>

CancelExpired(w) ==
    /\ worker[w].pc = "expire"
    /\ CancelEntry(w, "closed", "expire", "claim")

\* Fault: a claim that has run out stays.
ResetFault(table) == table

\* Claims older than a minute go back to the queue.
Reset(table) ==
    [i \in DOMAIN table |-> IF table[i].state = "promoting" /\ table[i].stale
                              THEN [table[i] EXCEPT !.state = "waiting", !.stale = FALSE]
                              ELSE table[i]]

\* Fault: an entry that another job has claimed is claimed again.
ClaimableFault(e) == e.state \in Active
\* Fault: the last seat is kept back.
SeatSeenFault == counted < Capacity - 1

Claimable(e) == e.state = "waiting"
SeatSeen == counted < Capacity

\* ClaimPromotableEntries.
ClaimPromotableEntries(w) ==
    LET table == Reset(entry)
        rows  == {i \in Ids : Claimable(table[i]) /\ worker[w].sawOpen /\ SeatSeen} IN
    /\ worker[w].pc = "claim"
    /\ entry' = Claim(First(rows), table)
    /\ IF rows = {} THEN End(w)
                    ELSE worker' = [worker EXCEPT ![w] = [pc |-> "query", sawOpen |-> FALSE,
                                                        todo |-> First(rows)]]
    /\ UNCHANGED <<round, redis, mysql, failures>>

\* SelectCourse for the current entry: first look for the stored result ...
QuerySelectionByRequest(w) ==
    /\ worker[w].pc = "query"
    /\ Goto(w, IF Current(w) \in decided THEN "mark" ELSE "admit")
    /\ UNCHANGED <<round, entry, redis, mysql, failures>>

\* DecidePromotionFailure: a full class and a decision under way are tried
\* again, everything else cancels the entry.
DecidePromotionFailure(error) ==
    IF error \in {"class_full", "in_progress"} THEN "return" ELSE "cancel"

\* ... then the admission ...
AdmitSelection(w) ==
    /\ worker[w].pc = "admit"
    /\ Goto(w, CASE round = "closed" -> DecidePromotionFailure("round_not_open")
                 [] round = "open" /\ Full -> DecidePromotionFailure("class_full")
                 [] round = "open" /\ ~Full /\ Student(w) \in holder ->
                        DecidePromotionFailure("duplicate")
                 [] OTHER -> "commit")
    /\ UNCHANGED <<round, entry, redis, mysql, failures>>

\* ... and the commit script, in the order of its checks.
CommitAnswer(w, late) ==
    CASE Current(w) \in decided -> "stored"
      [] Current(w) \notin decided /\ Student(w) \in pending -> "in_progress"
      [] Current(w) \notin decided /\ Student(w) \notin pending /\ late -> "round_not_open"
      [] OTHER -> CASE Student(w) \in holder -> "duplicate"
                    [] Student(w) \notin holder /\ Full -> "class_full"
                    [] OTHER -> "selected"

\* The time the script compares with the window (CompletedAt) is read before
\* the call: a round that has ended meanwhile may still accept.
CommitSelection(w) ==
    /\ worker[w].pc = "commit"
    /\ \E late \in {FALSE, round = "closed"} :
          LET answer == CommitAnswer(w, late) IN
          /\ IF answer = "selected"
               THEN /\ holder' = holder \cup {Student(w)}
                    /\ pending' = pending \cup {Student(w)}
                    /\ decided' = decided \cup {Current(w)}
               ELSE UNCHANGED <<holder, pending, decided>>
          /\ \/ /\ Goto(w, IF answer \in {"selected", "stored"} THEN "mark"
                             ELSE DecidePromotionFailure(answer))
                /\ UNCHANGED failures
             \/ Failure /\ Goto(w, DecidePromotionFailure("unknown"))   \* the answer is lost
    /\ UNCHANGED <<round, entry, mysql>>

MarkWaitlistPromoted(w) ==
    LET i == Current(w) IN
    /\ worker[w].pc = "mark"
    /\ IF entry[i].state = "promoting"
         THEN entry' = [entry EXCEPT ![i].state = "promoted", ![i].stale = FALSE]
              /\ Proceed(w, "query", "idle")
         ELSE UNCHANGED entry /\ End(w)
    /\ UNCHANGED <<round, redis, mysql, failures>>

\* Fault: the update does not look at the state.
ReturnedFault(e) == [e EXCEPT !.state = "waiting", !.stale = FALSE]

Returned(e) == IF e.state = "promoting" THEN [e EXCEPT !.state = "waiting", !.stale = FALSE]
                                        ELSE e

ReturnWaitlistToQueue(w) ==
    /\ worker[w].pc = "return"
    /\ entry' = [entry EXCEPT ![Current(w)] = Returned(@)]
    /\ Proceed(w, "query", "idle")
    /\ UNCHANGED <<round, redis, mysql, failures>>

CancelFailed(w) ==
    /\ worker[w].pc = "cancel"
    /\ CancelEntry(w, "failed", "query", "idle")

\* A call of SelectCourse fails without effect: the error is none of those
\* that are tried again, so the entry is cancelled.
SelectCourseFails(w) ==
    /\ worker[w].pc \in {"query", "admit", "commit"}
    /\ Failure
    /\ Goto(w, DecidePromotionFailure("unknown"))
    /\ UNCHANGED <<round, entry, redis, mysql>>

\* A call of the waiting list itself fails, or the process stops: the claims
\* stay behind.
Abort(w) ==
    /\ worker[w].pc # "idle"
    /\ Failure
    /\ End(w)
    /\ UNCHANGED <<round, entry, redis, mysql>>

PromoteBatch(w) ==
    \/ ClaimExpiredEntries(w) \/ CancelExpired(w) \/ ClaimPromotableEntries(w)
    \/ QuerySelectionByRequest(w) \/ AdmitSelection(w) \/ CommitSelection(w)
    \/ MarkWaitlistPromoted(w) \/ ReturnWaitlistToQueue(w) \/ CancelFailed(w)

Next ==
    \/ \E s \in Students, r \in Requests : Join(s, r)
    \/ \E i \in Ids : Cancel(i) \/ LeaseRunsOut(i)
    \/ \E s \in Students : SelectCourse(s) \/ DropEnrollment(s)
    \/ \E s \in Students : PersistSelection(s) \/ ReleaseDroppedEnrollment(s)
    \/ ProjectCounts \/ CloseRound
    \/ \E w \in Workers : PromoteBatch(w) \/ SelectCourseFails(w) \/ Abort(w)

Spec == Init /\ [][Next]_vars

(***************************************************************************)
(* The job is scheduled for ever, a claim that is not released grows old,  *)
(* and decisions, releases and counts are projected (the other modules     *)
(* show when).  Nothing makes a student act or a round end.                *)
(***************************************************************************)
FairSpec ==
    /\ Spec
    /\ \A w \in Workers : WF_vars(PromoteBatch(w))
    /\ WF_vars(\E i \in Ids : LeaseRunsOut(i))
    /\ WF_vars(\E s \in Students : PersistSelection(s))
    /\ WF_vars(ProjectCounts)

-----------------------------------------------------------------------------
(* Properties. *)

\* Unless a job was slow for more than a minute, crashed or lost an answer,
\* an entry that the system cancels is one whose course was not chosen: two
\* overlapping jobs never work on the same entry (SKIP LOCKED, the state in
\* the condition of the update).
CancelledWasNotChosen ==
    failures = 0 =>
        \A i \in Ids : entry[i].state = "cancelled" /\ entry[i].reason # "student" =>
            i \notin decided

\* A promoted or cancelled entry never comes back to the queue, whatever a
\* job that claimed it earlier still does with it.
SettledIsFinal ==
    [][\A i \in Ids : entry[i].state \notin Active => entry'[i] = entry[i]]_vars

Settled == \A i \in Ids : entry[i].state \notin Active

\* After the end of the round every entry is promoted or cancelled, also one
\* that a crashed job left in the state promoting.
EventuallySettled == round = "closed" ~> Settled

\* While the round is open, a seat that stays free in Redis is not withheld
\* from the waiting list: every entry is settled in the end.
FreeSeatIsOffered == (round = "open" /\ ~Full) ~> (round = "closed" \/ Full \/ Settled)

\* The comment on ClaimPromotableEntries: an entry left behind by a crash
\* goes back to the queue, and the next attempt reuses the original result
\* of the selection.  So none whose course was chosen is closed as expired.
CrashedPromotionReused ==
    \A i \in Ids : entry[i].reason = "closed" => i \notin decided

=============================================================================
