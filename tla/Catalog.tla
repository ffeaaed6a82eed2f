------------------------------ MODULE Catalog ------------------------------
(***************************************************************************)
(* Courses, teaching classes, selection rounds and the bindings between    *)
(* rounds and classes, as administrators maintain them at the same time.   *)
(* The tables have no foreign keys: what one row says of another holds     *)
(* only because transactions lock the right rows (SELECT ... FOR UPDATE)   *)
(* before they look.                                                       *)
(*                                                                         *)
(* A transaction takes its locks in order, counts the rows that use the    *)
(* row it changes with reads that lock nothing, and then writes; other     *)
(* transactions run between these steps.  The counting reads see what was  *)
(* committed after the locks were taken, because the snapshot of a         *)
(* transaction begins with its first read that does not lock.              *)
(***************************************************************************)
EXTENDS Integers, Sequences, FiniteSets

CONSTANTS
    Courses, Classes, Rounds, Terms,
    NoRow,          \* no row
    Transactions,   \* at most so many at once
    MaxChanges      \* bound on the changes of code, name or credits of a course

ASSUME CatalogConstants == MaxChanges \in Nat /\ NoRow \notin Courses \cup Classes \cup Rounds \cup Terms

VARIABLES
    course,    \* course |-> [state, core, video]: core counts its core changes
    class,     \* class |-> [state, course, term]
    round,     \* round |-> [state, term]
    binding,   \* rows of selection_round_class, <<round, class>>
    tx         \* transaction |-> its step, its request and the rows it has locked

vars == <<course, class, round, binding, tx>>

Request(op, a, k, r, term) == [op |-> op, course |-> a, class |-> k, round |-> r, term |-> term]
NoRequest == Request("none", NoRow, NoRow, NoRow, NoRow)
NoTx == [pc |-> "idle", request |-> NoRequest, locks |-> << >>]

Ops == {"createClass", "updateClass", "deleteClass", "updateCourse", "deleteCourse", "startVideo",
        "bind", "unbind", "updateRound", "deleteRound", "openRound"}

TypeOK ==
    /\ course \in [Courses -> [state : {"absent", "present", "deleted"}, core : 0 .. MaxChanges,
                               video : BOOLEAN]]
    /\ class \in [Classes -> [state : {"absent", "planned", "open", "deleted"},
                              course : Courses \cup {NoRow}, term : Terms \cup {NoRow}]]
    /\ round \in [Rounds -> [state : {"absent", "planned", "open", "deleted"},
                             term : Terms \cup {NoRow}]]
    /\ binding \subseteq Rounds \X Classes
    /\ \A t \in Transactions :
         /\ tx[t].pc \in {"idle", "lock", "decide", "commit"}
         /\ tx[t].request.op \in Ops \cup {"none"}

Init ==
    /\ course = [a \in Courses |-> [state |-> "absent", core |-> 0, video |-> FALSE]]
    /\ class = [k \in Classes |-> [state |-> "absent", course |-> NoRow, term |-> NoRow]]
    /\ round = [r \in Rounds |-> [state |-> "absent", term |-> NoRow]]
    /\ binding = {}
    /\ tx = [t \in Transactions |-> NoTx]

CourseExists(a) == course[a].state = "present"
ClassExists(k) == class[k].state \in {"planned", "open"}
RoundExists(r) == round[r].state \in {"planned", "open"}
ClassesOf(a) == {k \in Classes : ClassExists(k) /\ class[k].course = a}
BoundClass(k) == \E r \in Rounds : <<r, k>> \in binding
BoundTo(r) == {k \in Classes : <<r, k>> \in binding}

-----------------------------------------------------------------------------
(* Inserts that depend on no other row. *)

CreateCourse(a) ==
    /\ course[a].state = "absent"
    /\ course' = [course EXCEPT ![a].state = "present"]
    /\ UNCHANGED <<class, round, binding, tx>>

CreateRound(r, term) ==
    /\ round[r].state = "absent"
    /\ round' = [round EXCEPT ![r] = [state |-> "planned", term |-> term]]
    /\ UNCHANGED <<course, class, binding, tx>>

-----------------------------------------------------------------------------
(* Requests, and the rows their transactions lock, in order. *)

\* Which rows each kind of request names; an update of a class may move it to
\* another course.
Requests ==
    {Request(op, a, NoRow, NoRow, NoRow) : op \in {"updateCourse", "deleteCourse", "startVideo"},
                                           a \in Courses}
    \cup {Request(op, a, k, NoRow, term) : op \in {"createClass", "updateClass"}, a \in Courses,
                                            k \in Classes, term \in Terms}
    \cup {Request("deleteClass", NoRow, k, NoRow, NoRow) : k \in Classes}
    \cup {Request(op, NoRow, k, r, NoRow) : op \in {"bind", "unbind"}, k \in Classes, r \in Rounds}
    \cup {Request("updateRound", NoRow, NoRow, r, term) : r \in Rounds, term \in Terms}
    \cup {Request(op, NoRow, NoRow, r, NoRow) : op \in {"deleteRound", "openRound"}, r \in Rounds}

CourseRow(x) == <<"course", x.course>>
ClassRow(x) == <<"class", x.class>>
RoundRow(x) == <<"round", x.round>>

\* Fault: a class is created without a lock on its course.
CourseLocksFault(x) == IF x.op = "createClass" THEN << >> ELSE <<CourseRow(x)>>

\* Requests about a course, also the ones that refer a class or a video to it.
CourseLocks(x) == <<CourseRow(x)>>

\* Fault: the class is read without a lock.
BindLocksFault(x) == <<RoundRow(x)>>

\* BindRoundClass locks the round, then the class; its course is not locked.
BindLocks(x) == <<RoundRow(x), ClassRow(x)>>

LockOrder(x) ==
    CASE x.op = "updateClass" -> <<CourseRow(x), ClassRow(x)>>
      [] x.op = "deleteClass" -> <<ClassRow(x)>>
      [] x.op = "bind" -> BindLocks(x)
      [] x.op \in {"unbind", "updateRound", "deleteRound", "openRound"} -> <<RoundRow(x)>>
      [] OTHER -> CourseLocks(x)

Holds(t, row) == \E i \in DOMAIN tx[t].locks : tx[t].locks[i] = row
FreeFor(t, row) == \A u \in Transactions \ {t} : ~Holds(u, row)

\* The rows of a request are there, and the row it inserts is not.
Present(x) ==
    /\ x.course # NoRow => CourseExists(x.course)
    /\ x.round # NoRow => RoundExists(x.round)
    /\ x.class # NoRow => IF x.op = "createClass" THEN class[x.class].state = "absent"
                                                 ELSE ClassExists(x.class)

\* A transaction that asks for a row that is not there ends at once.
Begin(t, x) ==
    /\ tx[t].pc = "idle"
    /\ Present(x)
    /\ tx' = [tx EXCEPT ![t] = [pc |-> "lock", request |-> x, locks |-> << >>]]
    /\ UNCHANGED <<course, class, round, binding>>

Lock(t) ==
    LET order == LockOrder(tx[t].request)
        held == Len(tx[t].locks)
    IN /\ tx[t].pc = "lock"
       /\ IF held < Len(order)
            THEN /\ FreeFor(t, order[held + 1])
                 /\ tx' = [tx EXCEPT ![t].locks = Append(@, order[held + 1])]
            ELSE tx' = [tx EXCEPT ![t].pc = "decide"]
       /\ UNCHANGED <<course, class, round, binding>>

-----------------------------------------------------------------------------
(* What the domain objects allow, given the counts of the rows in use. *)

\* Course.Change, for a change of code, name or credits.  (Introduction and
\* tags may always change and nothing here depends on them.)
CourseChangeable(a) ==
    /\ course[a].core < MaxChanges
    /\ \A k \in ClassesOf(a) : class[k].state = "planned" /\ ~BoundClass(k)

CourseDeletable(a) == ClassesOf(a) = {} /\ ~course[a].video

\* TeachingClass.ChangePlan
PlanChangeable(k) == class[k].state = "planned" /\ ~BoundClass(k)

\* TeachingClass.EnsureDeletable: a planned class has no applications yet.
ClassDeletable(k) == class[k].state = "planned" /\ ~BoundClass(k)

\* SelectionRound.EnsureCanBind, on the rows as they were locked.
CanBind(r, k) ==
    round[r].state = "planned" /\ class[k].state = "planned" /\ round[r].term = class[k].term

\* Fault: the round may have opened in the meantime.
BindingsMutableFault(r) == RoundExists(r)

BindingsMutable(r) == round[r].state = "planned"

\* SelectionRound.ChangePlan: the term is fixed once a class is bound.
RoundChangeable(r, term) ==
    round[r].state = "planned" /\ (round[r].term = term \/ BoundTo(r) = {})

RoundDeletable(r) == round[r].state = "planned" /\ BoundTo(r) = {}

\* SelectionRound.Open; that the warm-up is ready is the matter of RoundWarmup.
RoundOpenable(r) == round[r].state = "planned" /\ BoundTo(r) # {}

Allowed(x) ==
    /\ Present(x)
    /\ x.op = "updateCourse" => CourseChangeable(x.course)
    /\ x.op = "deleteCourse" => CourseDeletable(x.course)
    /\ x.op = "updateClass" => PlanChangeable(x.class)
    /\ x.op = "deleteClass" => ClassDeletable(x.class)
    /\ x.op = "bind" => CanBind(x.round, x.class) /\ <<x.round, x.class>> \notin binding
    /\ x.op = "unbind" => BindingsMutable(x.round) /\ <<x.round, x.class>> \in binding
    /\ x.op = "updateRound" => RoundChangeable(x.round, x.term)
    /\ x.op = "deleteRound" => RoundDeletable(x.round)
    /\ x.op = "openRound" => RoundOpenable(x.round)

Decide(t) ==
    /\ tx[t].pc = "decide"
    /\ Allowed(tx[t].request)
    /\ tx' = [tx EXCEPT ![t].pc = "commit"]
    /\ UNCHANGED <<course, class, round, binding>>

\* The domain refuses, a call fails, the process ends, or MySQL breaks a cycle
\* of waiting transactions.
Rollback(t) ==
    /\ tx[t].pc # "idle"
    /\ tx' = [tx EXCEPT ![t] = NoTx]
    /\ UNCHANGED <<course, class, round, binding>>

-----------------------------------------------------------------------------
(* The writes.  The locks are released with the commit. *)

Commits(t, op) ==
    /\ tx[t].pc = "commit" /\ tx[t].request.op = op
    /\ tx' = [tx EXCEPT ![t] = NoTx]

CreateTeachingClass(t) ==
    LET x == tx[t].request IN
    /\ Commits(t, "createClass")
    /\ class[x.class].state = "absent"
    /\ class' = [class EXCEPT ![x.class] =
                   [state |-> "planned", course |-> x.course, term |-> x.term]]
    /\ UNCHANGED <<course, round, binding>>

UpdateTeachingClass(t) ==
    LET x == tx[t].request IN
    /\ Commits(t, "updateClass")
    /\ class[x.class].state = "planned"
    /\ class' = [class EXCEPT ![x.class].course = x.course, ![x.class].term = x.term]
    /\ UNCHANGED <<course, round, binding>>

DeleteTeachingClass(t) ==
    /\ Commits(t, "deleteClass")
    /\ class[tx[t].request.class].state = "planned"
    /\ class' = [class EXCEPT ![tx[t].request.class].state = "deleted"]
    /\ UNCHANGED <<course, round, binding>>

UpdateCourse(t) ==
    /\ Commits(t, "updateCourse")
    /\ course' = [course EXCEPT ![tx[t].request.course].core = @ + 1]
    /\ UNCHANGED <<class, round, binding>>

DeleteCourse(t) ==
    /\ Commits(t, "deleteCourse")
    /\ course' = [course EXCEPT ![tx[t].request.course].state = "deleted"]
    /\ UNCHANGED <<class, round, binding>>

StartVideo(t) ==
    /\ Commits(t, "startVideo")
    /\ course' = [course EXCEPT ![tx[t].request.course].video = TRUE]
    /\ UNCHANGED <<class, round, binding>>

BindRoundClass(t) ==
    /\ Commits(t, "bind")
    /\ binding' = binding \cup {<<tx[t].request.round, tx[t].request.class>>}
    /\ UNCHANGED <<course, class, round>>

UnbindRoundClass(t) ==
    /\ Commits(t, "unbind")
    /\ binding' = binding \ {<<tx[t].request.round, tx[t].request.class>>}
    /\ UNCHANGED <<course, class, round>>

UpdateRound(t) ==
    /\ Commits(t, "updateRound")
    /\ round[tx[t].request.round].state = "planned"
    /\ round' = [round EXCEPT ![tx[t].request.round].term = tx[t].request.term]
    /\ UNCHANGED <<course, class, binding>>

DeleteRound(t) ==
    /\ Commits(t, "deleteRound")
    /\ round[tx[t].request.round].state = "planned"
    /\ round' = [round EXCEPT ![tx[t].request.round].state = "deleted"]
    /\ UNCHANGED <<course, class, binding>>

\* The update of the classes waits for whoever has locked one of them.
OpenRound(t) ==
    LET r == tx[t].request.round IN
    /\ Commits(t, "openRound")
    /\ \A k \in BoundTo(r) : FreeFor(t, <<"class", k>>)
    /\ class' = [k \in Classes |-> IF k \in BoundTo(r) /\ class[k].state = "planned"
                                     THEN [class[k] EXCEPT !.state = "open"]
                                     ELSE class[k]]
    /\ round' = [round EXCEPT ![r].state = "open"]
    /\ UNCHANGED <<course, binding>>

-----------------------------------------------------------------------------
Commit(t) ==
    \/ CreateTeachingClass(t) \/ UpdateTeachingClass(t) \/ DeleteTeachingClass(t)
    \/ UpdateCourse(t) \/ DeleteCourse(t) \/ StartVideo(t)
    \/ BindRoundClass(t) \/ UnbindRoundClass(t)
    \/ UpdateRound(t) \/ DeleteRound(t) \/ OpenRound(t)

Next ==
    \/ \E a \in Courses : CreateCourse(a)
    \/ \E r \in Rounds, term \in Terms : CreateRound(r, term)
    \/ \E t \in Transactions :
         \/ \E x \in Requests : Begin(t, x)
         \/ Lock(t) \/ Decide(t) \/ Rollback(t) \/ Commit(t)

Spec == Init /\ [][Next]_vars

-----------------------------------------------------------------------------
\* No row refers to a row that is gone: a class has its course, a binding its
\* round and its class, a video its course, though deletions run concurrently
\* with the transactions that refer to what they delete.
NoDangling ==
    /\ \A k \in Classes : ClassExists(k) => CourseExists(class[k].course)
    /\ \A b \in binding : RoundExists(b[1]) /\ ClassExists(b[2])
    /\ \A a \in Courses : course[a].video => CourseExists(a)

\* A class is bound only to rounds of its own term, while the terms of both are
\* being edited.
TermsAgree == \A b \in binding : round[b[1]].term = class[b[2]].term

\* An open round has classes, and all of them are open.
OpenRoundIsOffered ==
    \A r \in Rounds : round[r].state = "open" =>
      BoundTo(r) # {} /\ \A k \in BoundTo(r) : class[k].state = "open"

\* Code, name and credits of a course do not change once one of its classes is
\* bound to a round or has left the planned state: the comment of Course.Change
\* says that the core of a course is frozen from then on.
CoreFrozen ==
    [][\A a \in Courses : course'[a].core # course[a].core =>
         \A k \in ClassesOf(a) : class[k].state = "planned" /\ ~BoundClass(k)]_vars
=============================================================================
