---------------------------- MODULE MCRoundWarmup ----------------------------
EXTENDS RoundWarmup, TLC

CONSTANTS c1, c2

\* Seats and rules: the second class asks for a passed first course.
MCCapacity == (c1 :> 1) @@ (c2 :> 1)
MCRule ==
    (c1 :> [minGrade |-> 2, maxGrade |-> NoGrade, scopes |-> {}, prereqs |-> {}]) @@
    (c2 :> [minGrade |-> NoGrade, maxGrade |-> NoGrade,
            scopes |-> {[major |-> 1, type |-> "deny"]},
            prereqs |-> {[course |-> 9, minScore |-> 60]}])
MCProfile ==
    (1 :> [state |-> "active", grade |-> 2, major |-> 1, achievements |-> {}]) @@
    (2 :> [state |-> "active", grade |-> 3, major |-> 2,
           achievements |-> {[course |-> 9, passed |-> TRUE, score |-> 60]}])
MCStudents == DOMAIN MCProfile
=============================================================================
