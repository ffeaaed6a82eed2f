---------------------------- MODULE MCSelection ----------------------------
(***************************************************************************)
(* Small instances of Selection.  Class c1 and c2 teach the same course,   *)
(* c3 another one whose timetable cell clashes with c2.                    *)
(***************************************************************************)
EXTENDS Selection, TLC

CONSTANTS c1, c2, c3, x1, x2, t1, t2, s1, s2, s3

MCCourseOf  == [c \in Classes |-> IF c = c3 THEN x2 ELSE x1]
MCCreditsOf == [c \in Classes |-> IF c = c3 THEN 2 ELSE 1]
MCSlotsOf   == [c \in Classes |-> IF c = c1 THEN {t1} ELSE {t2}]
MCCapacity  == [c \in Classes |-> 1]

\* Student s2 may not choose c2.
MCEligible  == {e \in Accounts \X Classes : e[1][2] # s2 \/ e[2] # c2}

\* Student s1 can hold two classes and afford a clashing pair; s2 is bound by
\* the number of courses, s3 by the credits.
MCCreditLimit == [k \in Accounts |-> IF k[2] = s3 THEN 2 ELSE 3]
MCCourseLimit == [k \in Accounts |-> IF k[2] = s2 THEN 1 ELSE 2]

\* A selection of c3 by s1 may reach Redis late: s1 may meanwhile have chosen
\* c2, which clashes with it, or c1, which does not, and s2 may have the seat.
MCDelayed == {call \in Calls : call[1][2] = s1 /\ call[3] = c3}

\* Application ids are interchangeable, and so are request ids.
MCSymmetry == Permutations(Apps) \cup Permutations(Requests)
=============================================================================
