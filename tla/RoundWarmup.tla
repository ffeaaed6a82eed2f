----------------------------- MODULE RoundWarmup -----------------------------
(***************************************************************************)
(* A selection round from its configuration to the moment students choose: *)
(* the administrator binds classes, asks for a warm-up and opens the       *)
(* round; asynchronous workers build a new version of the Redis index and  *)
(* activate it; students then choose against the active version.           *)
(*                                                                         *)
(* Three stores take part.  MySQL holds the round, its classes and what    *)
(* was projected of the selections.  Redis holds the warm-up lock (with a  *)
(* time to live), the status, the active and the open version, the index   *)
(* of every version, and the seats and accounts, which have no version.    *)
(* The task queue delivers a warm-up task again when its worker fails,     *)
(* crashes or stops renewing its lease, so two workers may run at once.    *)
(*                                                                         *)
(* Administrators are serialised by the row lock that GetRoundForUpdate    *)
(* takes; one of them is modelled.  Every call to Redis or MySQL is a step *)
(* of its own, and an error of such a call is a choice: the effect took    *)
(* place and the answer was lost, or it did not take place.                *)
(***************************************************************************)
EXTENDS Integers, FiniteSets, Eligibility

CONSTANTS
    Classes, Students,  \* students are numbers: the cursor of the pages is an id
    Workers,
    Versions,           \* identifiers in the order they are drawn (bound)
    NoVersion,
    Capacity,           \* class |-> seats
    Profile,            \* student |-> facts of Eligibility
    Rule,               \* class |-> rules of Eligibility
    PageSize,           \* students read at a time
    MaxFailures         \* bound on errors of calls, crashes, pauses and data losses

ASSUME WarmupConstants ==
    /\ Students \subseteq Nat \ {0} /\ IsFiniteSet(Students) /\ Students # {}
    /\ Versions \subseteq Nat /\ NoVersion \notin Versions
    /\ \A c \in Classes : Capacity[c] \in Nat
    /\ PageSize \in Nat \ {0}
    /\ MaxFailures \in Nat

VARIABLES
    (* MySQL *)
    round,     \* state of the round: "planned" or "open"
    bound,     \* classes bound to the round
    saved,     \* student |-> classes of the enrolled rows and of the quota row
    counted,   \* class |-> selected_count
    (* Redis *)
    status,    \* [state, version] of the warm-up, state "none" without a key
    lock, active, open,
    snapshot,  \* version |-> classes whose snapshot was written
    eligible,  \* version |-> student |-> eligible classes; {NoVersion} without a key
    seat,      \* class |-> remaining seats, -1 without a key
    held,      \* student |-> classes the account keys account for
    (* processes *)
    task,      \* the warm-up task: "none", "queued", "running", or "retry" (waiting)
    worker,    \* worker |-> its step and what it has read
    admin,     \* the administrator's step and what was read
    (* history *)
    chosen,    \* student |-> classes decided for the student
    failures,  \* number of failures so far
    orphaned   \* the task was never enqueued, or its attempts are used up

vars == <<round, bound, saved, counted, status, lock, active, open, snapshot,
          eligible, seat, held, task, worker, admin, chosen, failures, orphaned>>

mysql   == <<round, bound, saved, counted>>
index   == <<snapshot, eligible>>
ledger  == <<seat, held>>
history == <<chosen, orphaned>>

NotWritten == {NoVersion}
Idle == [pc |-> "idle", leased |-> FALSE, version |-> NoVersion, classes |-> {},
         counts |-> [c \in Classes |-> 0], wasOpen |-> FALSE, after |-> 0,
         rows |-> [s \in Students |-> {}]]
AdminIdle == [pc |-> "idle", op |-> "none", class |-> CHOOSE c \in Classes : TRUE,
              version |-> NoVersion]
States == {"none", "queued", "running", "ready", "failed"}

TypeOK ==
    /\ round \in {"planned", "open"}
    /\ bound \subseteq Classes
    /\ saved \in [Students -> SUBSET Classes]
    /\ counted \in [Classes -> Nat]
    /\ status \in [state : States, version : Versions \cup {NoVersion}]
    /\ {lock, active, open} \subseteq Versions \cup {NoVersion}
    /\ snapshot \in [Versions -> SUBSET Classes]
    /\ eligible \in [Versions -> [Students -> (SUBSET Classes) \cup {NotWritten}]]
    /\ seat \in [Classes -> Nat \cup {-1}]
    /\ held \in [Students -> SUBSET Classes]
    /\ task \in {"none", "queued", "running", "retry"}
    /\ chosen \in [Students -> SUBSET Classes]
    /\ failures \in 0 .. MaxFailures /\ orphaned \in BOOLEAN

Init ==
    /\ round = "planned" /\ bound = {}
    /\ saved = [s \in Students |-> {}]
    /\ counted = [c \in Classes |-> 0]
    /\ status = [state |-> "none", version |-> NoVersion]
    /\ lock = NoVersion /\ active = NoVersion /\ open = NoVersion
    /\ snapshot = [v \in Versions |-> {}]
    /\ eligible = [v \in Versions |-> [s \in Students |-> NotWritten]]
    /\ seat = [c \in Classes |-> -1]
    /\ held = [s \in Students |-> {}]
    /\ task = "none"
    /\ worker = [w \in Workers |-> Idle]
    /\ admin = AdminIdle
    /\ chosen = [s \in Students |-> {}]
    /\ failures = 0 /\ orphaned = FALSE

-----------------------------------------------------------------------------
(* What the stores answer. *)

\* Status: a ready status whose version is not the active one reads as failed.
Status ==
    IF status.state = "ready" /\ (active = NoVersion \/ active # status.version)
      THEN [status EXCEPT !.state = "failed"]
      ELSE status

\* Fault: a warm-up that runs does not block a change.
ConfigurationMutableFault == Status.state \notin {"ready", "queued"}

\* ensureConfigurationMutable.
ConfigurationMutable == Status.state \notin {"ready", "queued", "running"}

\* The gate of the commit and admission scripts.
Accepting == active # NoVersion /\ open = active

Taken(c) == Cardinality({s \in Students : c \in chosen[s]})

\* EnsureWarmupConfig: every student of the model has a quota row.
WarmupConfigured == round \in {"planned", "open"} /\ bound # {}

\* A call that fails takes one of the failures the model allows.
CallFails == failures < MaxFailures /\ failures' = failures + 1
CallWorks == failures' = failures

-----------------------------------------------------------------------------
(* The administrator. *)

\* The transaction of a configuration change begins: the row is locked and
\* the warm-up status permits the change.
BeginChange(op, c) ==
    /\ admin.pc = "idle"
    /\ ConfigurationMutable
    /\ op = "bind" => round = "planned" /\ c \notin bound
    /\ op = "unbind" => round = "planned" /\ c \in bound
    /\ op = "warmup" => WarmupConfigured
    /\ admin' = [admin EXCEPT !.pc = "locked", !.op = op, !.class = c]
    /\ UNCHANGED <<mysql, status, lock, active, open, index, ledger, task, worker,
                   failures, history>>

BindRoundClass ==
    /\ admin.pc = "locked" /\ admin.op = "bind"
    /\ bound' = bound \cup {admin.class}
    /\ admin' = AdminIdle
    /\ UNCHANGED <<round, saved, counted, status, lock, active, open, index, ledger,
                   task, worker, failures, history>>

UnbindRoundClass ==
    /\ admin.pc = "locked" /\ admin.op = "unbind"
    /\ bound' = bound \ {admin.class}
    /\ admin' = AdminIdle
    /\ UNCHANGED <<round, saved, counted, status, lock, active, open, index, ledger,
                   task, worker, failures, history>>

SetStatus(state, v) == status' = [state |-> state, version |-> v]

\* RequestWarmup marks the round as queued inside the transaction.
MarkQueued ==
    /\ admin.pc = "locked" /\ admin.op = "warmup"
    /\ SetStatus("queued", NoVersion)
    /\ admin' = [admin EXCEPT !.pc = "enqueue"]
    /\ UNCHANGED <<mysql, lock, active, open, index, ledger, task, worker, failures, history>>

\* After the commit the task is enqueued.  An error marks the round as
\* failed, whether or not the task reached the queue; a task that is there
\* already is such an error (asynq.Unique).
Enqueue ==
    /\ admin.pc = "enqueue"
    /\ \/ CallWorks /\ task = "none" /\ task' = "queued" /\ UNCHANGED status
       \/ CallWorks /\ task # "none" /\ UNCHANGED task /\ SetStatus("failed", NoVersion)
       \/ CallFails /\ task = "none" /\ task' \in {"queued", task}
                    /\ SetStatus("failed", NoVersion)
    /\ admin' = AdminIdle
    /\ UNCHANGED <<mysql, lock, active, open, index, ledger, worker, history>>

\* The server stops between the commit and the call of the queue.
CrashBeforeEnqueue ==
    /\ admin.pc = "enqueue"
    /\ CallFails
    /\ orphaned' = TRUE
    /\ admin' = AdminIdle
    /\ UNCHANGED <<mysql, status, lock, active, open, index, ledger, task, worker,
                   chosen>>

\* OpenRound reads the status before its transaction ...
ReadReady ==
    /\ admin.pc = "idle"
    /\ Status.state = "ready"
    /\ open # Status.version
    /\ admin' = [admin EXCEPT !.pc = "open", !.version = Status.version]
    /\ UNCHANGED <<mysql, status, lock, active, open, index, ledger, task, worker,
                   failures, history>>

\* ... opens the round and its classes in one transaction (an open round is
\* left alone) ...
OpenRound ==
    /\ admin.pc = "open"
    /\ round = "planned" => WarmupConfigured
    /\ round' = "open"
    /\ admin' = [admin EXCEPT !.pc = "gate"]
    /\ UNCHANGED <<bound, saved, counted, status, lock, active, open, index, ledger,
                   task, worker, failures, history>>

\* The open script: only the active version is opened.
MarkOpen(v) == open' = IF active = v THEN v ELSE open

\* ... and then opens the gate for the version it read.
OpenGate ==
    /\ admin.pc = "gate"
    /\ \/ CallWorks /\ MarkOpen(admin.version)
       \/ CallFails /\ UNCHANGED open
    /\ admin' = AdminIdle
    /\ UNCHANGED <<mysql, status, lock, active, index, ledger, task, worker, history>>

-----------------------------------------------------------------------------
(* The warm-up worker. *)

Step(w, pc) == worker' = [worker EXCEPT ![w].pc = pc]

\* ReleaseLock deletes the lock only while it holds the worker's token.
ReleaseLock(w) == lock' = IF lock = worker[w].version THEN NoVersion ELSE lock

\* What the worker reports counts only while its lease on the task lasts.
Report(w, state) == task' = IF worker[w].leased THEN state ELSE task

\* A worker that returns an error marks the status as failed, releases its
\* lock, and the queue keeps the task for another attempt.  (When marking
\* the status fails as well the worker is like one that crashed.)
Fail(w) ==
    /\ SetStatus("failed", worker[w].version)
    /\ ReleaseLock(w)
    /\ Report(w, "retry")
    /\ worker' = [worker EXCEPT ![w] = Idle]

\* SETNX succeeds.
LockFree == lock = NoVersion

\* NewID: a version nothing refers to, the first of them.  What is left under
\* the number of a version that was given up counts as gone.
Fresh(v) ==
    /\ v \notin {status.version, active, open, lock, admin.version}
    /\ \A x \in Workers : worker[x].version # v
NewVersion(v) == Fresh(v) /\ \A u \in Versions : Fresh(u) => v <= u

\* The worker takes the task, finds the round not ready and takes the lock.
TryLock(w, v) ==
    /\ worker[w].pc = "idle" /\ task = "queued"
    /\ Status.state # "ready"
    /\ LockFree
    /\ NewVersion(v)
    /\ lock' = v
    /\ task' = "running"
    /\ worker' = [worker EXCEPT ![w] = [Idle EXCEPT !.pc = "locked", !.leased = TRUE,
                                                         !.version = v]]
    /\ snapshot' = [snapshot EXCEPT ![v] = {}]
    /\ eligible' = [eligible EXCEPT ![v] = [s \in Students |-> NotWritten]]
    /\ UNCHANGED <<mysql, status, active, open, ledger, admin, failures, history>>

\* Fault: a lock that is held acknowledges the task.
AfterConflictFault == "none"

\* A lock that is held is an error like any other: the task is tried again.
AfterConflict == "retry"

LockConflict(w) ==
    /\ worker[w].pc = "idle" /\ task = "queued"
    /\ Status.state # "ready"
    /\ ~LockFree
    /\ task' = AfterConflict
    /\ UNCHANGED <<mysql, status, lock, active, open, index, ledger, worker, admin,
                   failures, history>>

\* A round that is ready already is a success: the task is done.
AlreadyWarmed(w) ==
    /\ worker[w].pc = "idle" /\ task = "queued"
    /\ Status.state = "ready"
    /\ task' = "none"
    /\ UNCHANGED <<mysql, status, lock, active, open, index, ledger, worker, admin,
                   failures, history>>

MarkRunning(w) ==
    /\ worker[w].pc = "locked"
    /\ \/ CallWorks /\ SetStatus("running", worker[w].version) /\ Step(w, "load")
                    /\ UNCHANGED <<lock, task>>
       \/ CallFails /\ Fail(w)
    /\ UNCHANGED <<mysql, active, open, index, ledger, admin, history>>

\* LoadRoundWarmupSnapshot reads the round, its classes and their counts.
LoadSnapshot(w) ==
    /\ worker[w].pc = "load"
    /\ \/ bound = {} /\ CallWorks /\ Fail(w)
       \/ CallFails /\ Fail(w)
       \/ /\ bound # {} /\ CallWorks
          /\ worker' = [worker EXCEPT ![w].pc = "write", ![w].classes = bound,
                            ![w].counts = counted, ![w].wasOpen = (round = "open")]
          /\ UNCHANGED <<status, lock, task>>
    /\ UNCHANGED <<mysql, active, open, index, ledger, admin, history>>

\* WriteSnapshot: the class snapshots belong to the version, the seat keys
\* do not: they are set to the capacity less the count that was read.
WriteSnapshot(w) ==
    LET v == worker[w].version IN
    /\ worker[w].pc = "write"
    /\ \/ /\ snapshot' = [snapshot EXCEPT ![v] = worker[w].classes]
          /\ seat' = [c \in Classes |-> IF c \in worker[w].classes
                                          THEN Capacity[c] - worker[w].counts[c] ELSE seat[c]]
          /\ \/ CallWorks /\ Step(w, "page") /\ UNCHANGED <<status, lock, task>>
             \/ CallFails /\ Fail(w)
       \/ CallFails /\ Fail(w) /\ UNCHANGED <<snapshot, seat>>
    /\ UNCHANGED <<mysql, active, open, eligible, held, admin, history>>

\* The next students in the order of their ids.
Rest(w) == {s \in Students : s > worker[w].after}
Page(w) == {s \in Rest(w) : Cardinality({t \in Rest(w) : t < s}) < PageSize}
Last(S) == CHOOSE s \in S : \A t \in S : t <= s

\* RenewLock succeeds only while the lock holds the worker's token.
OwnsLock(w) == lock = worker[w].version

\* The policy, student by student and class by class.
EligibleClasses(w, s) == {c \in worker[w].classes : Evaluate(Profile[s], Rule[c])}

\* Fault: the loop stops after the first page.
MorePagesFault(w) == FALSE

\* A full page may be followed by another one.
MorePages(w) == Cardinality(Page(w)) = PageSize

\* ListRoundWarmupStudents reads a page; RenewLock ends the run of a worker
\* that has lost its lock.
ReadPage(w) ==
    /\ worker[w].pc = "page" /\ Page(w) # {}
    /\ CallWorks
    /\ IF OwnsLock(w)
         THEN /\ worker' = [worker EXCEPT ![w].pc = "students", ![w].rows = saved]
              /\ UNCHANGED <<status, lock, task>>
         ELSE Fail(w)
    /\ UNCHANGED <<mysql, active, open, index, ledger, admin, history>>

\* WriteStudents writes the eligible classes of the version and replaces the
\* accounts, which have no version, by the rows that were read.
WriteStudents(w) ==
    LET v == worker[w].version IN
    /\ worker[w].pc = "students"
    /\ \/ /\ eligible' = [eligible EXCEPT ![v] = [s \in Students |->
                IF s \in Page(w) THEN EligibleClasses(w, s) ELSE @[s]]]
          /\ held' = [s \in Students |-> IF s \in Page(w) THEN worker[w].rows[s] ELSE held[s]]
          /\ \/ CallWorks /\ Step(w, "renew") /\ UNCHANGED <<status, lock, task>>
             \/ CallFails /\ Fail(w)
       \/ CallFails /\ Fail(w) /\ UNCHANGED <<eligible, held>>
    /\ UNCHANGED <<mysql, active, open, snapshot, seat, admin, history>>

\* The lock is renewed again; a short page is the last one.
NextPage(w) ==
    /\ worker[w].pc = "renew"
    /\ CallWorks
    /\ IF OwnsLock(w)
         THEN /\ worker' = [worker EXCEPT ![w].after = Last(Page(w)),
                             ![w].pc = IF MorePages(w) THEN "page" ELSE "activate"]
              /\ UNCHANGED <<status, lock, task>>
         ELSE Fail(w)
    /\ UNCHANGED <<mysql, active, open, index, ledger, admin, history>>

\* An empty page ends the loop.
NoMoreStudents(w) ==
    /\ worker[w].pc = "page" /\ Page(w) = {}
    /\ Step(w, "activate")
    /\ UNCHANGED <<mysql, status, lock, active, open, index, ledger, task, admin,
                   failures, history>>

\* Fault: the gate is opened after every warm-up.
AfterActivateFault(w) == "reopen"

\* Only a round that was open when it was read gets its gate back.
AfterActivate(w) == IF worker[w].wasOpen THEN "reopen" ELSE "done"

\* The activate script sets the active version and the ready status; it does
\* not look at the lock.  Its answer may be lost.
Activate(w) ==
    LET v == worker[w].version IN
    /\ worker[w].pc = "activate"
    /\ \/ /\ CallWorks /\ active' = v /\ SetStatus("ready", v)
          /\ Step(w, AfterActivate(w))
          /\ UNCHANGED <<lock, task>>
       \/ CallFails /\ active' \in {active, v} /\ Fail(w)
    /\ UNCHANGED <<mysql, open, index, ledger, admin, history>>

\* MarkOpen for the version just built; another active version is an error.
Reopen(w) ==
    /\ worker[w].pc = "reopen"
    /\ \/ /\ active = worker[w].version /\ CallWorks /\ MarkOpen(worker[w].version)
          /\ Step(w, "done") /\ UNCHANGED <<status, lock, task>>
       \/ active # worker[w].version /\ CallWorks /\ Fail(w) /\ UNCHANGED open
       \/ CallFails /\ Fail(w) /\ (MarkOpen(worker[w].version) \/ UNCHANGED open)
    /\ UNCHANGED <<mysql, active, index, ledger, admin, history>>

Finish(w) ==
    /\ worker[w].pc = "done"
    /\ ReleaseLock(w)
    /\ Report(w, "none")
    /\ worker' = [worker EXCEPT ![w] = Idle]
    /\ UNCHANGED <<mysql, status, active, open, index, ledger, admin, failures, history>>

\* The worker dies: it leaves its lock and its status behind.
Crash(w) ==
    /\ worker[w].pc # "idle"
    /\ CallFails
    /\ worker' = [worker EXCEPT ![w] = Idle]
    /\ Report(w, "retry")
    /\ UNCHANGED <<mysql, status, lock, active, open, index, ledger, admin, history>>

\* The queue gives a running task to another worker, because the lease of
\* the first one ran out; the first one goes on.
Redeliver ==
    /\ task = "running"
    /\ CallFails
    /\ task' = "queued"
    /\ worker' = [w \in Workers |-> [worker[w] EXCEPT !.leased = FALSE]]
    /\ UNCHANGED <<mysql, status, lock, active, open, index, ledger, admin, history>>

\* The delay of a retry is over, or the attempts (MaxRetry) are used up.
RetryDue ==
    /\ task = "retry"
    /\ task' = "queued"
    /\ UNCHANGED <<mysql, status, lock, active, open, index, ledger, worker, admin,
                   failures, history>>

Archive ==
    /\ task = "retry"
    /\ CallFails
    /\ task' = "none" /\ orphaned' = TRUE
    /\ UNCHANGED <<mysql, status, lock, active, open, index, ledger, worker, admin,
                   chosen>>

\* The two minutes of the lock run out: after a crash, or because its owner
\* did not come to renew it in time.
LockExpires ==
    /\ lock # NoVersion
    /\ IF \E w \in Workers : worker[w].version = lock THEN CallFails ELSE CallWorks
    /\ lock' = NoVersion
    /\ UNCHANGED <<mysql, status, active, open, index, ledger, task, worker, admin,
                   history>>

-----------------------------------------------------------------------------
(* Students, the projection, and a loss of the Redis data. *)

\* The commit script, for a student of the active index.
Choose(s, c) ==
    /\ Accepting
    /\ c \in snapshot[active] /\ c \in eligible[active][s]
    /\ c \notin held[s]
    /\ seat[c] > 0
    /\ seat' = [seat EXCEPT ![c] = @ - 1]
    /\ held' = [held EXCEPT ![s] = @ \cup {c}]
    /\ chosen' = [chosen EXCEPT ![s] = @ \cup {c}]
    /\ UNCHANGED <<mysql, status, lock, active, open, index, task, worker, admin, failures,
                   orphaned>>

\* The decision reaches the enrollment and quota rows, later the count, which
\* never exceeds the capacity.
Save(s, c) ==
    /\ c \in chosen[s] \ saved[s]
    /\ saved' = [saved EXCEPT ![s] = @ \cup {c}]
    /\ UNCHANGED <<round, bound, counted, status, lock, active, open, index, ledger,
                   task, worker, admin, failures, history>>

Count(c) ==
    /\ counted[c] < Cardinality({s \in Students : c \in saved[s]})
    /\ counted[c] < Capacity[c]
    /\ counted' = [counted EXCEPT ![c] = @ + 1]
    /\ UNCHANGED <<round, bound, saved, status, lock, active, open, index, ledger,
                   task, worker, admin, failures, history>>

\* Redis starts empty while no warm-up runs: undelivered decisions are gone
\* with its stream, and so is a task that waits for a retry.
LoseRedis ==
    /\ \A w \in Workers : worker[w] = Idle
    /\ CallFails
    /\ chosen' = saved
    /\ status' = [state |-> "none", version |-> NoVersion]
    /\ lock' = NoVersion /\ active' = NoVersion /\ open' = NoVersion
    /\ snapshot' = [v \in Versions |-> {}]
    /\ eligible' = [v \in Versions |-> [s \in Students |-> NotWritten]]
    /\ seat' = [c \in Classes |-> -1]
    /\ held' = [s \in Students |-> {}]
    /\ task' = "none"
    /\ UNCHANGED <<mysql, worker, admin, orphaned>>

AdminNext ==
    \/ \E op \in {"bind", "unbind"}, c \in Classes : BeginChange(op, c)
    \/ BeginChange("warmup", AdminIdle.class)
    \/ BindRoundClass \/ UnbindRoundClass
    \/ MarkQueued \/ Enqueue \/ CrashBeforeEnqueue
    \/ ReadReady \/ OpenRound \/ OpenGate

WorkerStep(w) ==
    \/ \E v \in Versions : TryLock(w, v)
    \/ LockConflict(w) \/ AlreadyWarmed(w) \/ MarkRunning(w) \/ LoadSnapshot(w)
    \/ WriteSnapshot(w) \/ ReadPage(w) \/ WriteStudents(w) \/ NextPage(w)
    \/ NoMoreStudents(w) \/ Activate(w) \/ Reopen(w) \/ Finish(w)

Environment ==
    \/ \E w \in Workers : Crash(w)
    \/ Redeliver \/ Archive \/ LoseRedis
    \/ \E s \in Students, c \in Classes : Choose(s, c) \/ Save(s, c)
    \/ \E c \in Classes : Count(c)

Next ==
    \/ AdminNext
    \/ \E w \in Workers : WorkerStep(w)
    \/ RetryDue \/ LockExpires
    \/ Environment

Spec == Init /\ [][Next]_vars

(***************************************************************************)
(* A handler that runs goes on, a retry becomes due, a lock runs out, and  *)
(* the administrator's request finishes.  Nothing makes the administrator  *)
(* ask for anything, and nothing makes a student choose.                   *)
(***************************************************************************)
FairSpec ==
    /\ Spec
    /\ \A w \in Workers : WF_vars(WorkerStep(w))
    /\ WF_vars(RetryDue) /\ WF_vars(LockExpires)
    /\ WF_vars(MarkQueued \/ Enqueue)

-----------------------------------------------------------------------------
(* Properties. *)

\* An active version is a whole one: the snapshot of its classes and, for
\* every student, exactly the classes the policy admits.  (Warmup switches
\* active_version only after everything was written; a worker that lost its
\* lock, or one that was overtaken, may still activate.)
ActiveIsComplete ==
    active # NoVersion =>
        /\ snapshot[active] # {}
        /\ \A s \in Students : eligible[active][s] =
               {c \in snapshot[active] : Evaluate(Profile[s], Rule[c])}

\* Students can choose only while the round is open in MySQL, whichever of
\* OpenRound and a rebuilding warm-up opened the gate, and in which order
\* their steps on the two stores met.
AcceptingRoundIsOpen == Accepting => round = "open"

\* As long as no call failed and no data was lost, students choose among the
\* classes that are bound, and every seat that was not taken is there: no
\* second warm-up overwrites what a version in use has decided.
ExactWithoutFailures ==
    failures = 0 /\ Accepting =>
        /\ snapshot[active] = bound
        /\ \A c \in bound : seat[c] = Capacity[c] - Taken(c)

\* A warm-up that was queued or is running comes to an end, unless its task
\* was lost between MySQL and the queue or its attempts are used up.
WarmupEnds ==
    status.state \in {"queued", "running"} ~> (status.state \in {"none", "ready", "failed"} \/ orphaned)

\* The comment on Warmup: the version in use is not overwritten by one that
\* is not finished.  The seats are part of what the version uses.
UsedVersionKept ==
    Accepting => \A c \in snapshot[active] : seat[c] = Capacity[c] - Taken(c)

=============================================================================
