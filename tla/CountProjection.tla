--------------------------- MODULE CountProjection ---------------------------
(***************************************************************************)
(* The number of students of a class, teaching_class.selected_count, is    *)
(* not written by the transactions that enroll and drop.  They append +1   *)
(* and -1 rows to enrollment_count_delta; a periodic job locks a batch of  *)
(* them (FOR UPDATE SKIP LOCKED), adds them up per class, applies the sums *)
(* under the guard 0 <= selected_count <= capacity and marks them          *)
(* processed, in one transaction.  Several jobs may run at the same time.  *)
(*                                                                         *)
(* A row gets its id when it is inserted and becomes visible when its      *)
(* transaction commits, so rows become visible out of order.  Students are *)
(* counted per class: the ones Redis has decided but MySQL not recorded,   *)
(* the enrolled ones, and the dropped ones whose seat Redis has not got    *)
(* back (see Selection).                                                   *)
(***************************************************************************)
EXTENDS Integers, FiniteSets

CONSTANTS
    Classes,
    Capacity,     \* class |-> seats
    Projectors,   \* jobs that may run at the same time
    MaxRows,      \* rows ever inserted (bound)
    Limit,        \* rows a job locks at a time
    MaxFaults     \* transactions that fail before the database is stable

Rows == 1 .. MaxRows
Delta == [class : Classes, n : {1, -1}]

ASSUME ProjectionAssumption ==
    /\ Capacity \in [Classes -> Nat]
    /\ MaxRows \in Nat
    /\ Limit \in Nat \ {0}
    /\ MaxFaults \in Nat

VARIABLES
    decided,    \* class |-> selections decided by Redis, not yet in MySQL
    enrolled,   \* class |-> enrollments no open transaction is dropping
    dropped,    \* class |-> dropped enrollments that still hold a seat
    delta,      \* row |-> class and sign, for the rows inserted so far
    stage,      \* row |-> none, inserted, void, open, done or deleted
    batch,      \* job |-> rows it has locked
    selectedCount,  \* class |-> teaching_class.selected_count
    faults,
    overlapped  \* whether two jobs ever held rows at the same time (history)

vars == <<decided, enrolled, dropped, delta, stage, batch, selectedCount, faults,
          overlapped>>

InStage(x) == {i \in Rows : stage[i] = x}

TypeOK ==
    /\ decided \in [Classes -> Nat]
    /\ enrolled \in [Classes -> Nat]
    /\ dropped \in [Classes -> Nat]
    /\ stage \in [Rows -> {"none", "inserted", "void", "open", "done", "deleted"}]
    /\ DOMAIN delta = Rows \ InStage("none")
    /\ \A i \in DOMAIN delta : delta[i] \in Delta
    /\ batch \in [Projectors -> SUBSET InStage("open")]
    /\ \A p, q \in Projectors : p # q => batch[p] \cap batch[q] = {}
    /\ selectedCount \in [Classes -> Nat]
    /\ faults \in 0 .. MaxFaults
    /\ overlapped \in BOOLEAN

Init ==
    /\ decided = [c \in Classes |-> 0]
    /\ enrolled = [c \in Classes |-> 0]
    /\ dropped = [c \in Classes |-> 0]
    /\ delta = <<>>
    /\ stage = [i \in Rows |-> "none"]
    /\ batch = [p \in Projectors |-> {}]
    /\ selectedCount = [c \in Classes |-> 0]
    /\ faults = MaxFaults
    /\ overlapped = FALSE

-----------------------------------------------------------------------------
(***************************************************************************)
(* Enrolling and dropping.                                                 *)
(***************************************************************************)

Of(S, c, n) == {i \in S : delta[i] = [class |-> c, n |-> n]}

\* Seats of c that Redis has given away.
Taken(c) ==
    decided[c] + enrolled[c] + dropped[c]
      + Cardinality(Of(InStage("inserted"), c, 1) \cup Of(InStage("inserted"), c, -1))

\* The commit script takes a seat.
Decide(c) ==
    /\ Taken(c) < Capacity[c]
    /\ decided' = [decided EXCEPT ![c] = @ + 1]
    /\ UNCHANGED <<enrolled, dropped, delta, stage, batch, selectedCount,
                   faults, overlapped>>

\* A transaction inserts row i, whose id is the next one.
InsertRow(i, c, n) ==
    /\ stage[i] = "none"
    /\ \A j \in 1 .. i - 1 : stage[j] # "none"
    /\ stage' = [stage EXCEPT ![i] = "inserted"]
    /\ delta' = [j \in DOMAIN delta \cup {i} |->
                   IF j = i THEN [class |-> c, n |-> n] ELSE delta[j]]

\* persistClaimedSelectionResults inserts the enrollment and its +1 row.
InsertEnrollment(i, c) ==
    /\ decided[c] > 0
    /\ decided' = [decided EXCEPT ![c] = @ - 1]
    /\ InsertRow(i, c, 1)
    /\ UNCHANGED <<enrolled, dropped, batch, selectedCount, faults, overlapped>>

\* DropEnrollment locks a committed enrollment and inserts its -1 row.
InsertDrop(i, c) ==
    /\ enrolled[c] > 0
    /\ enrolled' = [enrolled EXCEPT ![c] = @ - 1]
    /\ InsertRow(i, c, -1)
    /\ UNCHANGED <<decided, dropped, batch, selectedCount, faults, overlapped>>

Counts(f, d, by) == [f EXCEPT ![d.class] = @ + by]

\* The transaction that inserted row i commits.
CommitRow(i) ==
    /\ stage[i] = "inserted"
    /\ stage' = [stage EXCEPT ![i] = "open"]
    /\ IF delta[i].n = 1
         THEN enrolled' = Counts(enrolled, delta[i], 1) /\ UNCHANGED dropped
         ELSE dropped' = Counts(dropped, delta[i], 1) /\ UNCHANGED enrolled
    /\ UNCHANGED <<decided, delta, batch, selectedCount, faults, overlapped>>

\* It fails; the id is lost and the worker or the student tries again.
RollBackRow(i) ==
    /\ stage[i] = "inserted"
    /\ faults > 0
    /\ faults' = faults - 1
    /\ stage' = [stage EXCEPT ![i] = "void"]
    /\ IF delta[i].n = 1
         THEN decided' = Counts(decided, delta[i], 1) /\ UNCHANGED enrolled
         ELSE enrolled' = Counts(enrolled, delta[i], 1) /\ UNCHANGED decided
    /\ UNCHANGED <<dropped, delta, batch, selectedCount, overlapped>>

\* The release script gives the seat of a dropped enrollment back.
Release(c) ==
    /\ dropped[c] > 0
    /\ dropped' = [dropped EXCEPT ![c] = @ - 1]
    /\ UNCHANGED <<decided, enrolled, delta, stage, batch, selectedCount,
                   faults, overlapped>>

-----------------------------------------------------------------------------
(***************************************************************************)
(* The job.                                                                *)
(***************************************************************************)

Locked == UNION {batch[p] : p \in Projectors}

\* Fault: the rows are taken newest first.
FirstRowsFault(S, n) == {i \in S : Cardinality({j \in S : j > i}) < n}

\* ORDER BY id LIMIT n.
FirstRows(S, n) == {i \in S : Cardinality({j \in S : j < i}) < n}

\* The locking read: unprocessed rows nobody else has locked.
LockRows(p) ==
    LET S == FirstRows(InStage("open") \ Locked, Limit) IN
    /\ batch[p] = {}
    /\ S # {}
    /\ batch' = [batch EXCEPT ![p] = S]
    /\ overlapped' = (overlapped \/ Locked # {})
    /\ UNCHANGED <<decided, enrolled, dropped, delta, stage, selectedCount, faults>>

Net(S, c) == Cardinality(Of(S, c, 1)) - Cardinality(Of(S, c, -1))

\* Fault: the guard keeps one seat free.
FitsFault(S) == \A c \in Classes : selectedCount[c] + Net(S, c) \in 0 .. Capacity[c] - 1

\* The guard of every update that changes a class.
Fits(S) ==
    \A c \in Classes : Net(S, c) # 0 =>
        selectedCount[c] + Net(S, c) \in 0 .. Capacity[c]

\* The updates and the marking succeed.  Class rows are locked in the order
\* of their ids until the end, so the transaction takes effect at once.
Project(p) ==
    /\ batch[p] # {}
    /\ Fits(batch[p])
    /\ selectedCount' = [c \in Classes |-> selectedCount[c] + Net(batch[p], c)]
    /\ stage' = [i \in Rows |-> IF i \in batch[p] THEN "done" ELSE stage[i]]
    /\ batch' = [batch EXCEPT ![p] = {}]
    /\ UNCHANGED <<decided, enrolled, dropped, delta, faults, overlapped>>

\* A guard fails: everything is rolled back.
RejectBatch(p) ==
    /\ batch[p] # {}
    /\ ~Fits(batch[p])
    /\ batch' = [batch EXCEPT ![p] = {}]
    /\ UNCHANGED <<decided, enrolled, dropped, delta, stage, selectedCount,
                   faults, overlapped>>

\* The database or the process fails before the commit.
LoseBatch(p) ==
    /\ batch[p] # {}
    /\ faults > 0
    /\ faults' = faults - 1
    /\ batch' = [batch EXCEPT ![p] = {}]
    /\ UNCHANGED <<decided, enrolled, dropped, delta, stage, selectedCount, overlapped>>

\* Fault: the clean-up does not ask whether a row was processed.
CleanUpFault(i) ==
    /\ stage[i] \in {"open", "done"}
    /\ i \notin Locked
    /\ stage' = [stage EXCEPT ![i] = "deleted"]
    /\ UNCHANGED <<decided, enrolled, dropped, delta, batch, selectedCount,
                   faults, overlapped>>

\* Cleanup deletes processed rows after their retention.
CleanUp(i) ==
    /\ stage[i] = "done"
    /\ stage' = [stage EXCEPT ![i] = "deleted"]
    /\ UNCHANGED <<decided, enrolled, dropped, delta, batch, selectedCount,
                   faults, overlapped>>

-----------------------------------------------------------------------------
Next ==
    \/ \E c \in Classes : Decide(c) \/ Release(c)
    \/ \E i \in Rows, c \in Classes : InsertEnrollment(i, c) \/ InsertDrop(i, c)
    \/ \E i \in Rows : CommitRow(i) \/ RollBackRow(i) \/ CleanUp(i)
    \/ \E p \in Projectors :
         LockRows(p) \/ Project(p) \/ RejectBatch(p) \/ LoseBatch(p)

Spec == Init /\ [][Next]_vars

(***************************************************************************)
(* The scheduler starts a job every few seconds, and a transaction ends.   *)
(***************************************************************************)
Fairness ==
    /\ \A p \in Projectors :
         WF_vars(LockRows(p)) /\ WF_vars(Project(p)) /\ WF_vars(RejectBatch(p))
    /\ \A i \in Rows : WF_vars(CommitRow(i))

FairSpec == Spec /\ Fairness

-----------------------------------------------------------------------------
\* Enrollments of c in committed rows of student_course_enrollment.
InForce(c) == enrolled[c] + Cardinality(Of(InStage("inserted"), c, -1))

\* The count and the rows not yet processed add up to the enrollments in
\* force, whatever is retried, rolled back or cleaned up
\* (ProjectPendingEnrollmentCounts, "in the same transaction").
CountConservation ==
    \A c \in Classes : selectedCount[c] + Net(InStage("open"), c) = InForce(c)

\* The capacity guard never poisons the queue: as long as jobs have not
\* overlapped the next batch fits, although rows commit out of order and
\* the guard sees only a part of them.
NextBatchFits ==
    ~overlapped => Fits(FirstRows(InStage("open"), Limit))

\* Every committed row is counted in the end, unless jobs overlap.
ProjectedUnlessOverlap ==
    \A i \in Rows : (stage[i] = "open") ~> (stage[i] = "done" \/ overlapped)

\* Every committed row is counted in the end.
EventuallyProjected == \A i \in Rows : (stage[i] = "open") ~> (stage[i] = "done")
=============================================================================
