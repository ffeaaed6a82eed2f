----------------------------- MODULE Eligibility -----------------------------
(***************************************************************************)
(* The rules that decide who may take a class: the static policy, which    *)
(* the warm-up evaluates for every student and class of a round, and the   *)
(* timetable, which the code keeps in two forms: as slots (a range of      *)
(* weeks and a range of sections on one day) in the domain, and as cells   *)
(* (week, day, section) in Redis, where the commit script looks for a      *)
(* cell that is already taken.                                             *)
(*                                                                         *)
(* Facts are records:                                                      *)
(*   slot         day, startWeek, endWeek, startSection, endSection        *)
(*   student      state, grade, major, achievements                        *)
(*   achievement  course, passed, score (NoScore when there is none)       *)
(*   rule         minGrade, maxGrade (NoGrade when open), scopes, prereqs  *)
(*   scope        major, type ("allow" or "deny")                          *)
(*   prereq       course, minScore (NoScore when any pass will do)         *)
(***************************************************************************)
EXTENDS Integers

NoGrade == -1
NoScore == -1

-----------------------------------------------------------------------------
(* Timetable. *)

ValidSlot(s) ==
    /\ s.day \in 1 .. 7
    /\ s.startWeek >= 1 /\ s.endWeek >= s.startWeek
    /\ s.startSection >= 1 /\ s.endSection >= s.startSection

\* The domain's test: same day, overlapping weeks, overlapping sections.
Conflicts(s, t) ==
    /\ ValidSlot(s) /\ ValidSlot(t)
    /\ s.day = t.day
    /\ s.startWeek <= t.endWeek /\ t.startWeek <= s.endWeek
    /\ s.startSection <= t.endSection /\ t.startSection <= s.endSection

\* The cells that the Redis index keeps for one slot.
SlotCells(s) == (s.startWeek .. s.endWeek) \X {s.day} \X (s.startSection .. s.endSection)

\* The cells of a schedule; an invalid slot makes the warm-up fail.
ScheduleCells(slots) == UNION {SlotCells(s) : s \in slots}

\* DynamicEligibilityPolicy: some slot of one schedule meets one of the other.
SchedulesConflict(target, enrolled) == \E s \in target, t \in enrolled : Conflicts(s, t)

-----------------------------------------------------------------------------
(* Static policy. *)

\* A denied major is out; with an allow list only its majors are in.
MajorAllowed(major, scopes) ==
    /\ ~\E x \in scopes : x.type = "deny" /\ x.major = major
    /\ (\E x \in scopes : x.type = "allow") =>
           \E x \in scopes : x.type = "allow" /\ x.major = major

\* One passed attempt at the course, good enough when a score is asked for.
\* A passed attempt without a score (an exemption) does not reach any score.
Meets(req, ach) ==
    /\ ach.course = req.course
    /\ ach.passed
    /\ req.minScore # NoScore => ach.score # NoScore /\ ach.score >= req.minScore

PrerequisitesSatisfied(reqs, achs) == \A r \in reqs : \E x \in achs : Meets(r, x)

GradeAllowed(grade, rule) ==
    /\ rule.minGrade # NoGrade => grade >= rule.minGrade
    /\ rule.maxGrade # NoGrade => grade <= rule.maxGrade

Evaluate(student, rule) ==
    /\ student.state = "active"
    /\ GradeAllowed(student.grade, rule)
    /\ MajorAllowed(student.major, rule.scopes)
    /\ PrerequisitesSatisfied(rule.prereqs, student.achievements)

=============================================================================
