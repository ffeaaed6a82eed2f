------------------------------ MODULE Selection ------------------------------
(***************************************************************************)
(* The course-selection ledger of CourseForge: the Redis hot path that     *)
(* decides a selection, the Redis Stream that carries the decision, its    *)
(* projection into MySQL, and dropping an enrollment with the release of   *)
(* the Redis resources it held.                                            *)
(*                                                                         *)
(* Redis runs each Lua script atomically and MySQL commits each            *)
(* transaction atomically, so a script or a transaction is one action.     *)
(* What happens between them (a lost reply, a crash, a slow worker that    *)
(* finishes long after another one took over its messages) is the          *)
(* interleaving of these actions: an operation that fails before its       *)
(* script or transaction is a step that is not taken, one that fails       *)
(* after it is a follow-up step that is not taken, or is taken later by    *)
(* another actor.  The workers themselves (batches, the pending entries    *)
(* list, XAUTOCLAIM, the dead letter stream) are modelled in               *)
(* SelectionStream; here a worker may carry out its next step at any time  *)
(* after the step it depends on, once or several times.                    *)
(*                                                                         *)
(* All rounds belong to one term and have been opened: the active and the  *)
(* open version of the index agree, and stay so while it is not rebuilt    *)
(* (RoundWarmup has the versions and the rebuild).  The end of the window  *)
(* is not read by the script: it compares a time that the service took     *)
(* before it called Redis.  The application id is the unit of bookkeeping: *)
(* a fresh one is generated for every decision.                            *)
(***************************************************************************)
EXTENDS Integers, FiniteSets

CONSTANTS
    Rounds,       \* selection rounds of the term
    Students,
    Classes,      \* teaching classes
    Courses,
    Slots,        \* cells of the weekly timetable (week:day:section)
    Requests,     \* idempotency keys a client may send
    Apps,         \* application ids the id generator can hand out (bound)
    NoApp,        \* absence of a Redis key or field
    CourseOf,     \* class |-> course
    CreditsOf,    \* class |-> credits
    SlotsOf,      \* class |-> cells of its schedule
    Capacity,     \* class |-> seats
    CreditLimit,  \* account |-> credits the student may take in the round
    CourseLimit,  \* account |-> courses the student may take in the round
    Eligible,     \* pairs <<account, class>> of the eligibility index
    MaxCredits,   \* upper bound of CreditsOf
    Delayed,      \* calls that may be under way between their stamp and the script
    LateRetry     \* TRUE: a client may repeat a request after the TTL of its result

(***************************************************************************)
(* Quotas, selected courses, timetable and the pending application are     *)
(* kept per round and student; seats are kept per class, across rounds.    *)
(***************************************************************************)
Accounts == Rounds \X Students

\* A call of SelectCourse: <<account, request, class>>.
Calls == Accounts \X Requests \X Classes

\* What is decided under an application id.
Decision == [acct : Accounts, request : Requests, class : Classes]

ASSUME ConstantsAssumption ==
    /\ IsFiniteSet(Apps)
    /\ NoApp \notin Apps
    /\ NoApp \notin Decision
    /\ MaxCredits \in Nat
    /\ CourseOf \in [Classes -> Courses]
    /\ CreditsOf \in [Classes -> 1 .. MaxCredits]
    /\ SlotsOf \in [Classes -> SUBSET Slots]
    /\ Capacity \in [Classes -> Nat]
    /\ CreditLimit \in [Accounts -> Nat]
    /\ CourseLimit \in [Accounts -> Nat]
    /\ Eligible \subseteq Accounts \X Classes
    /\ Delayed \subseteq Calls
    /\ LateRetry \in BOOLEAN

VARIABLES
    app,          \* application id |-> what was decided under it
    (* The service *)
    accepting,    \* rounds whose window has not ended
    stamped,      \* calls under way, with a time inside the window
    (* Redis *)
    seat,         \* class |-> remaining seats
    credit,       \* account |-> remaining credits
    course,       \* account |-> remaining number of courses
    selected,     \* account |-> course |-> application occupying it
    booked,       \* account |-> cell |-> number of classes in it
    pending,      \* account |-> application not yet projected (no TTL)
    result,       \* account |-> request |-> application decided for it
    persisted,    \* applications whose publication says mysql_persisted
    entry,        \* application |-> state of its stream message
    marker,       \* applications with a dropped:<enrollment> key
    (* MySQL *)
    row,          \* application |-> its enrollment row
    usedCredits,  \* account |-> student_selection_quota.selected_credits
    usedCourses,  \* account |-> student_selection_quota.selected_course_count
    repair,       \* application |-> its enrollment_projection_repair row
    (* History *)
    cleared,      \* applications a worker has run the clear script for
    releases      \* application |-> times its resources were given back

windowVars == <<accepting, stamped>>
redisVars == <<seat, credit, course, selected, booked, pending, result, persisted,
               entry, marker>>
mysqlVars == <<row, usedCredits, usedCourses, repair>>
vars == <<app, windowVars, redisVars, mysqlVars, cleared, releases>>

TypeOK ==
    /\ app \in [Apps -> Decision \cup {NoApp}]
    /\ accepting \subseteq Rounds
    /\ stamped \subseteq Delayed
    /\ seat \in [Classes -> Nat]
    /\ credit \in [Accounts -> Nat]
    /\ course \in [Accounts -> Nat]
    /\ selected \in [Accounts -> [Courses -> Apps \cup {NoApp}]]
    /\ booked \in [Accounts -> [Slots -> Nat]]
    /\ pending \in [Accounts -> Apps \cup {NoApp}]
    /\ result \in [Accounts -> [Requests -> Apps \cup {NoApp}]]
    /\ persisted \subseteq Apps
    /\ entry \in [Apps -> {"none", "new", "pel", "done"}]
    /\ marker \subseteq Apps
    /\ row \in [Apps -> {"none", "enrolled", "dropped"}]
    /\ usedCredits \in [Accounts -> Nat]
    /\ usedCourses \in [Accounts -> Nat]
    /\ repair \in [Apps -> {"none", "pending", "completed"}]
    /\ cleared \subseteq Apps
    /\ releases \in [Apps -> Nat]

(***************************************************************************)
(* The state a warm-up of rounds without earlier enrollments leaves.       *)
(***************************************************************************)
Init ==
    /\ app = [a \in Apps |-> NoApp]
    /\ accepting = Rounds
    /\ stamped = {}
    /\ seat = Capacity
    /\ credit = CreditLimit
    /\ course = CourseLimit
    /\ selected = [k \in Accounts |-> [x \in Courses |-> NoApp]]
    /\ booked = [k \in Accounts |-> [t \in Slots |-> 0]]
    /\ pending = [k \in Accounts |-> NoApp]
    /\ result = [k \in Accounts |-> [q \in Requests |-> NoApp]]
    /\ persisted = {}
    /\ entry = [a \in Apps |-> "none"]
    /\ marker = {}
    /\ row = [a \in Apps |-> "none"]
    /\ usedCredits = [k \in Accounts |-> 0]
    /\ usedCourses = [k \in Accounts |-> 0]
    /\ repair = [a \in Apps |-> "none"]
    /\ cleared = {}
    /\ releases = [a \in Apps |-> 0]

Decided(a) == app[a] # NoApp
Acct(a)    == app[a].acct
Class(a)   == app[a].class
Course(a)  == CourseOf[Class(a)]
Credits(a) == CreditsOf[Class(a)]

(***************************************************************************)
(* The sum of the credits of a set of applications, as the number of       *)
(* credit units they hold.                                                 *)
(***************************************************************************)
CreditUnits(S) == {u \in S \X (1 .. MaxCredits) : u[2] <= Credits(u[1])}
CreditSum(S)   == Cardinality(CreditUnits(S))

-----------------------------------------------------------------------------
(***************************************************************************)
(* Deciding a selection.                                                   *)
(***************************************************************************)

\* Fault: the stored publication is not looked up.
AlreadyDecidedFault(k, q) == FALSE

\* The commit script answers with the stored publication and changes
\* nothing when the request was decided before.
AlreadyDecided(k, q) == result[k][q] # NoApp

\* One application per round and student is in flight at a time.
InProgress(k) == pending[k] # NoApp

\* Fault: a cell that is taken once may be taken again.
SlotFreeFault(k, c) == \A t \in SlotsOf[c] : booked[k][t] <= 1

SlotFree(k, c) == \A t \in SlotsOf[c] : booked[k][t] = 0

Affordable(k, c) ==
    /\ credit[k] >= CreditsOf[c]
    /\ course[k] > 0

\* Fault: the script does not look at the time it is given.
InWindowFault(k, q, c) == TRUE

\* The script compares the time in the result with the window: the service
\* takes it when the selection is completed, and Redis may run the script
\* much later, after the round has ended.
InWindow(k, q, c) == k[1] \in accepting \/ <<k, q, c>> \in stamped

\* What the commit script checks once the request is new, nothing is in
\* flight and the time is right: the eligibility index and the remaining
\* resources.
CommitAllowed(k, c) ==
    /\ <<k, c>> \in Eligible
    /\ selected[k][CourseOf[c]] = NoApp
    /\ Affordable(k, c)
    /\ seat[c] > 0
    /\ SlotFree(k, c)

\* What the admission read and the domain checks on its snapshot accept.
AdmissionAllows(k, c) ==
    /\ k[1] \in accepting
    /\ seat[c] <= Capacity[c]
    /\ Capacity[c] - seat[c] < Capacity[c]
    /\ <<k, c>> \in Eligible
    /\ selected[k][CourseOf[c]] = NoApp
    /\ SlotFree(k, c)
    /\ credit[k] >= CreditsOf[c]
    /\ course[k] > 0

\* A client repeats a request while its result is kept (7 days), or later.
InTime(k, q) ==
    \/ LateRetry
    \/ result[k][q] # NoApp
    \/ \A a \in Apps : Decided(a) => Acct(a) # k \/ app[a].request # q

\* CompleteSelected: a call that found no result and was admitted takes the
\* time, and then reads the index version and calls the script, with retries.
\* Calls outside Delayed do all this at once.
CompleteSelected(k, q, c) ==
    /\ <<k, q, c>> \in Delayed \ stamped
    /\ InTime(k, q)
    /\ ~AlreadyDecided(k, q)
    /\ AdmissionAllows(k, c)
    /\ stamped' = stamped \cup {<<k, q, c>>}
    /\ UNCHANGED <<app, accepting, redisVars, mysqlVars, cleared, releases>>

\* SelectCourse: the idempotency lookup and the admission read only return
\* early; the commit script repeats every check and takes the resources.  The
\* other calls of the request under way will be given the stored publication.
CommitSelection(k, q, c, a) ==
    /\ ~Decided(a)
    /\ ~AlreadyDecided(k, q)
    /\ ~InProgress(k)
    /\ InWindow(k, q, c)
    /\ CommitAllowed(k, c)
    /\ stamped' = {call \in stamped : call[1] # k \/ call[2] # q}
    /\ app' = [app EXCEPT ![a] = [acct |-> k, request |-> q, class |-> c]]
    /\ credit' = [credit EXCEPT ![k] = @ - CreditsOf[c]]
    /\ course' = [course EXCEPT ![k] = @ - 1]
    /\ seat' = [seat EXCEPT ![c] = @ - 1]
    /\ selected' = [selected EXCEPT ![k][CourseOf[c]] = a]
    /\ booked' = [booked EXCEPT ![k] =
                    [t \in Slots |-> IF t \in SlotsOf[c] THEN @[t] + 1 ELSE @[t]]]
    /\ entry' = [entry EXCEPT ![a] = "new"]
    /\ pending' = [pending EXCEPT ![k] = a]
    /\ result' = [result EXCEPT ![k][q] = a]
    /\ UNCHANGED <<accepting, persisted, marker, mysqlVars, cleared, releases>>

SelectCourse(k, q, c) ==
    /\ InTime(k, q)
    /\ \E a \in Apps : CommitSelection(k, q, c, a)

\* The window of the round ends; calls may be under way.
CloseRound(r) ==
    /\ r \in accepting
    /\ accepting' = accepting \ {r}
    /\ UNCHANGED <<app, stamped, redisVars, mysqlVars, cleared, releases>>

\* The TTL of a result key runs out, and the publication in it is gone.
ExpireResult(k, q) ==
    /\ AlreadyDecided(k, q)
    /\ result' = [result EXCEPT ![k][q] = NoApp]
    /\ persisted' = persisted \ {result[k][q]}
    /\ UNCHANGED <<app, windowVars, seat, credit, course, selected, booked, pending,
                   entry, marker, mysqlVars, cleared, releases>>

-----------------------------------------------------------------------------
(***************************************************************************)
(* Projecting decisions into MySQL.                                        *)
(***************************************************************************)

\* XREADGROUP hands a new message to a worker; it is on the pending entries
\* list until acknowledged, and any worker may claim it from there.
Deliver(a) ==
    /\ entry[a] = "new"
    /\ entry' = [entry EXCEPT ![a] = "pel"]
    /\ UNCHANGED <<app, windowVars, seat, credit, course, selected, booked, pending,
                   result, persisted, marker, mysqlVars, cleared, releases>>

\* Fault: a redelivered event is persisted again.
ClaimedFault(B) == B

\* The events of a batch that no earlier transaction inserted.
Claimed(B) == {a \in B : row[a] = "none"}

Mine(S, k) == {a \in S : Acct(a) = k}

\* The guarded UPDATE of student_selection_quota touches every account of
\* the batch; otherwise the transaction fails with ErrCreditQuotaExceeded.
QuotaFits(S) ==
    \A k \in Accounts : Mine(S, k) # {} =>
        /\ usedCredits[k] + CreditSum(Mine(S, k)) <= CreditLimit[k]
        /\ usedCourses[k] + Cardinality(Mine(S, k)) <= CourseLimit[k]

\* Unique keys: one active enrollment per student and course of the term,
\* one application per round, student and request.
SameActiveKey(a, b) == Acct(a)[2] = Acct(b)[2] /\ Course(a) = Course(b)
SameRequest(a, b)   == Acct(a) = Acct(b) /\ app[a].request = app[b].request

KeysFree(S) ==
    \A a \in S : \A b \in Apps \ {a} :
        /\ (b \in S \/ row[b] = "enrolled") => ~SameActiveKey(a, b)
        /\ (b \in S \/ row[b] # "none") => ~SameRequest(a, b)

\* SaveSelectionResults: one transaction claims the events of the batch and
\* inserts their application, enrollment, count delta and outbox rows.  A
\* violated guard or key rolls everything back.
SaveSelectionResults(B) ==
    LET new == Claimed(B) IN
    /\ B # {}
    /\ \A a \in B : entry[a] = "pel"
    /\ QuotaFits(new)
    /\ KeysFree(new)
    /\ row' = [a \in Apps |-> IF a \in new THEN "enrolled" ELSE row[a]]
    /\ usedCredits' = [k \in Accounts |-> usedCredits[k] + CreditSum(Mine(new, k))]
    /\ usedCourses' = [k \in Accounts |-> usedCourses[k] + Cardinality(Mine(new, k))]
    /\ UNCHANGED <<app, windowVars, redisVars, repair, cleared, releases>>

\* Fault: the clear script deletes whatever application is pending.
HoldsPendingFault(k, a) == pending[k] # NoApp

\* Fault: the clear script keeps the pending key of a closed round.
HoldsPendingClosedFault(k, a) == pending[k] = a /\ k[1] \in accepting

\* The pending key is deleted only while it holds this application.
HoldsPending(k, a) == pending[k] = a

\* The publication stored for the request of a.
Publication(a) == result[Acct(a)][app[a].request]

\* clearPersistedSelections, run by any worker whose transaction covered a.
\* A publication of another application makes the script fail.
ClearPersisted(a) ==
    /\ row[a] # "none"
    /\ HoldsPending(Acct(a), a) => Publication(a) \in {NoApp, a}
    /\ cleared' = cleared \cup {a}
    /\ IF HoldsPending(Acct(a), a)
         THEN /\ pending' = [pending EXCEPT ![Acct(a)] = NoApp]
              /\ persisted' = persisted \cup ({a} \cap {Publication(a)})
         ELSE UNCHANGED <<pending, persisted>>
    /\ UNCHANGED <<app, windowVars, seat, credit, course, selected, booked, result,
                   entry, marker, mysqlVars, releases>>

\* XACK and XDEL, after the transaction and the clear script succeeded.
Acknowledge(a) ==
    /\ entry[a] = "pel"
    /\ a \in cleared
    /\ entry' = [entry EXCEPT ![a] = "done"]
    /\ UNCHANGED <<app, windowVars, seat, credit, course, selected, booked, pending,
                   result, persisted, marker, mysqlVars, cleared, releases>>

-----------------------------------------------------------------------------
(***************************************************************************)
(* Dropping an enrollment.                                                 *)
(***************************************************************************)

\* The quota row must be able to give the credits and the course back.
QuotaReturnable(a) ==
    /\ usedCredits[Acct(a)] >= Credits(a)
    /\ usedCourses[Acct(a)] > 0

\* Fault: the quota row is not given the credits back.
DropEnrollmentQuotaFault(a) ==
    /\ row[a] = "enrolled"
    /\ row' = [row EXCEPT ![a] = "dropped"]
    /\ repair' = [repair EXCEPT ![a] = "pending"]
    /\ UNCHANGED <<app, windowVars, redisVars, usedCredits, usedCourses, cleared, releases>>

\* Fault: no repair task is written.
DropEnrollmentRepairFault(a) ==
    /\ row[a] = "enrolled"
    /\ QuotaReturnable(a)
    /\ row' = [row EXCEPT ![a] = "dropped"]
    /\ usedCredits' = [usedCredits EXCEPT ![Acct(a)] = @ - Credits(a)]
    /\ usedCourses' = [usedCourses EXCEPT ![Acct(a)] = @ - 1]
    /\ UNCHANGED <<app, windowVars, redisVars, repair, cleared, releases>>

\* DropEnrollment: one transaction, with the repair task that guarantees
\* the release of the Redis resources.
DropEnrollment(a) ==
    /\ row[a] = "enrolled"
    /\ QuotaReturnable(a)
    /\ row' = [row EXCEPT ![a] = "dropped"]
    /\ usedCredits' = [usedCredits EXCEPT ![Acct(a)] = @ - Credits(a)]
    /\ usedCourses' = [usedCourses EXCEPT ![Acct(a)] = @ - 1]
    /\ repair' = [repair EXCEPT ![a] = "pending"]
    /\ UNCHANGED <<app, windowVars, redisVars, cleared, releases>>

\* selected_courses gives up the course only if it still names a.
Occupies(a) == selected[Acct(a)][Course(a)] = a

\* Fault: the release script does not look at the marker.
AlreadyReleasedFault(a) == FALSE

AlreadyReleased(a) == a \in marker

\* ReleaseDroppedEnrollment, run by the drop request, by a repeated drop
\* request or by the repair job; without effect once the marker exists.
ReleaseDroppedEnrollment(a) ==
    /\ row[a] = "dropped"
    /\ ~AlreadyReleased(a)
    /\ credit' = [credit EXCEPT ![Acct(a)] = @ + Credits(a)]
    /\ course' = [course EXCEPT ![Acct(a)] = @ + 1]
    /\ seat' = [seat EXCEPT ![Class(a)] = @ + 1]
    /\ selected' = IF Occupies(a)
                     THEN [selected EXCEPT ![Acct(a)][Course(a)] = NoApp]
                     ELSE selected
    /\ booked' = [booked EXCEPT ![Acct(a)] =
                    [t \in Slots |-> IF t \in SlotsOf[Class(a)]
                                       THEN IF @[t] > 0 THEN @[t] - 1 ELSE 0
                                       ELSE @[t]]]
    /\ marker' = marker \cup {a}
    /\ releases' = [releases EXCEPT ![a] = @ + 1]
    /\ UNCHANGED <<app, windowVars, pending, result, persisted, entry, mysqlVars,
                   cleared>>

\* MarkProjectionRepairCompleted, after a release script succeeded.
CompleteRepair(a) ==
    /\ repair[a] = "pending"
    /\ releases[a] > 0
    /\ repair' = [repair EXCEPT ![a] = "completed"]
    /\ UNCHANGED <<app, windowVars, redisVars, row, usedCredits, usedCourses, cleared, releases>>

\* The 30-day TTL of a dropped marker runs out (once per application: a
\* bound).  Only NextPastTTL takes this step.
ExpireMarker(a) ==
    /\ a \in marker
    /\ releases[a] = 1
    /\ marker' = marker \ {a}
    /\ UNCHANGED <<app, windowVars, seat, credit, course, selected, booked, pending,
                   result, persisted, entry, mysqlVars, cleared, releases>>

-----------------------------------------------------------------------------
Select == \E k \in Accounts, q \in Requests, c \in Classes : SelectCourse(k, q, c)
Stamp  == \E call \in Delayed : CompleteSelected(call[1], call[2], call[3])
Save   == \E B \in SUBSET {a \in Apps : entry[a] = "pel"} : SaveSelectionResults(B)

Next ==
    \/ Select
    \/ Stamp
    \/ \E r \in Rounds : CloseRound(r)
    \/ \E a \in Apps : Deliver(a)
    \/ Save
    \/ \E a \in Apps : ClearPersisted(a)
    \/ \E a \in Apps : Acknowledge(a)
    \/ \E a \in Apps : DropEnrollment(a)
    \/ \E a \in Apps : ReleaseDroppedEnrollment(a)
    \/ \E a \in Apps : CompleteRepair(a)
    \/ \E k \in Accounts, q \in Requests : ExpireResult(k, q)

Spec == Init /\ [][Next]_vars

\* The same system watched for longer than the markers live.
NextPastTTL == Next \/ \E a \in Apps : ExpireMarker(a)
SpecPastTTL == Init /\ [][NextPastTTL]_vars

(***************************************************************************)
(* The worker loops and the repair job run for as long as the service      *)
(* does, and every failed attempt is retried; students promise nothing.    *)
(***************************************************************************)
Fairness ==
    /\ \A a \in Apps :
        /\ WF_vars(Deliver(a))
        /\ WF_vars(\E B \in SUBSET Apps : a \in B /\ SaveSelectionResults(B))
        /\ WF_vars(ClearPersisted(a))
        /\ WF_vars(Acknowledge(a))
        /\ WF_vars(repair[a] = "pending" /\ ReleaseDroppedEnrollment(a))
        /\ WF_vars(CompleteRepair(a))

FairSpec == Spec /\ Fairness

-----------------------------------------------------------------------------
(***************************************************************************)
(* Properties.                                                             *)
(***************************************************************************)

\* Applications that hold Redis resources, and enrollments in force.
Held     == {a \in Apps : Decided(a) /\ releases[a] = 0}
HeldIn(c) == {a \in Held : Class(a) = c}
HeldBy(k) == {a \in Held : Acct(a) = k}
Enrolled  == {a \in Apps : row[a] = "enrolled"}
EnrolledIn(c) == {a \in Enrolled : Class(a) = c}
EnrolledBy(k) == {a \in Enrolled : Acct(a) = k}

\* The remaining seats in Redis and the applications holding one add up to
\* the capacity of the class, whatever was retried, redelivered, dropped or
\* repaired (commitSelectionScript, releaseDroppedEnrollmentScript).
SeatConservation ==
    \A c \in Classes : seat[c] + Cardinality(HeldIn(c)) = Capacity[c]

\* Where the bookkeeping comes from: messages and rows belong to decided
\* applications, and resources were given back exactly for the dropped
\* enrollments whose marker exists.  The induction step of SeatConservation.
Provenance ==
    \A a \in Apps :
        /\ entry[a] # "none" \/ row[a] # "none" => Decided(a)
        /\ releases[a] > 0 => row[a] = "dropped"
        /\ releases[a] > 0 <=> a \in marker

\* A class never has more enrollments in MySQL than seats: the promise of
\* the hot path, which MySQL itself does not check when it inserts them.
NoOversell ==
    \A c \in Classes : Cardinality(EnrolledIn(c)) <= Capacity[c]

\* The same balance for the quotas of a student in a round, in Redis and in
\* the student_selection_quota row.
QuotaConservation ==
    \A k \in Accounts :
        /\ course[k] + Cardinality(HeldBy(k)) = CourseLimit[k]
        /\ credit[k] + CreditSum(HeldBy(k)) = CreditLimit[k]
        /\ usedCourses[k] = Cardinality(EnrolledBy(k))
        /\ usedCredits[k] = CreditSum(EnrolledBy(k))

Unsaved == {a \in Apps : entry[a] \in {"new", "pel"} /\ row[a] = "none"}

\* A decision Redis took is never refused by the projection, neither by the
\* quota guard of the MySQL transaction nor by a unique key, so it never ends
\* in the dead letter stream (commitSelectionScript, SaveSelectionResults).
ProjectionNeverRejects == \A a \in Unsaved : QuotaFits({a}) /\ KeysFree({a})

\* What a student holds in a round never overlaps: one class per course, and
\* no two classes in one timetable cell.
NoClash ==
    \A a, b \in Held : a # b /\ Acct(a) = Acct(b) =>
        /\ Course(a) # Course(b)
        /\ SlotsOf[Class(a)] \cap SlotsOf[Class(b)] = {}

\* The pending key covers every decision that is not in MySQL yet: clearing
\* it for an old, redelivered message never uncovers a newer application.
PendingCoversUnsaved == \A a \in Unsaved : pending[Acct(a)] = a

\* No result is lost: a message leaves the stream only when its enrollment
\* row exists and its pending key is gone.
AcknowledgedIsSettled ==
    \A a \in Apps : entry[a] = "done" => row[a] # "none" /\ pending[Acct(a)] # a

\* What the clear script has run for is saved and not pending; only then is
\* its message acknowledged.  The induction step of AcknowledgedIsSettled.
ClearedIsSettled ==
    /\ \A a \in cleared : row[a] # "none" /\ pending[Acct(a)] # a
    /\ \A a \in Apps : entry[a] = "done" => a \in cleared

\* Dropping an enrollment gives its resources back at most once, and its
\* repair task is closed only when they were given back.
ReleasedAtMostOnce ==
    \A a \in Apps : releases[a] <= 1 /\ (repair[a] = "completed" => releases[a] = 1)

\* The admission read and the commit script accept the same classes ("the
\* commit script repeats equivalent checks", admission.go), when the script
\* is given the present time.
AdmissionAgrees ==
    \A k \in Accounts, c \in Classes :
        AdmissionAllows(k, c) <=> k[1] \in accepting /\ CommitAllowed(k, c)

(***************************************************************************)
(* Refinement of Registrar.                                                *)
(***************************************************************************)

\* How far each application has come, from the Redis keys and the MySQL row.
StageOf ==
    [a \in Apps |-> IF ~Decided(a) THEN "none"
                    ELSE IF releases[a] > 0 THEN "returned"
                    ELSE IF row[a] = "none" THEN "granted"
                    ELSE row[a]]

Registrar == INSTANCE Registrar WITH
    open <- accepting, asked <- stamped, choice <- app, stage <- StageOf

\* The counters, indexes, markers and messages of Redis and MySQL implement
\* Registrar: whatever is retried, redelivered, delayed or released late, a
\* class is granted only to who asked while the round was open and within
\* what the applications themselves leave free when it is granted, becomes
\* an enrollment once, and gives its resources back once and only after it
\* was dropped (CompleteSelected, commitSelectionScript,
\* SaveSelectionResults, DropEnrollment, releaseDroppedEnrollmentScript).
ImplementsRegistrar == Registrar!Spec

\* Every decision reaches MySQL.
EventuallyPersisted ==
    \A a \in Apps : (entry[a] = "new") ~> (row[a] # "none")

\* A student is never blocked for good by an application in flight.
PendingEventuallyCleared ==
    \A k \in Accounts, a \in Apps : (pending[k] = a) ~> (pending[k] # a)

\* A dropped enrollment gives its seat back and closes its repair task.
DropEventuallyReleased ==
    \A a \in Apps : (row[a] = "dropped") ~> (releases[a] > 0 /\ repair[a] = "completed")
=============================================================================
