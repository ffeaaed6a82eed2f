------------------------------ MODULE Registrar ------------------------------
(***************************************************************************)
(* What course selection promises, seen from outside: one clerk with one   *)
(* book of applications, who grants a class only to a student who asked    *)
(* while the round was open, and only while what the student and the class *)
(* already hold leaves room for it.  Who has asked may be served after the *)
(* round has closed.                                                       *)
(*                                                                         *)
(* The clerk keeps no counter and no index.  Every condition is about the  *)
(* applications themselves; the remaining seats, the quotas, the course    *)
(* and cell indexes, the markers, messages and repair tasks with which     *)
(* Redis and MySQL decide the same thing are what implements it.           *)
(***************************************************************************)
EXTENDS Integers, FiniteSets

CONSTANTS
    Rounds, Students, Classes, Requests, Apps, NoApp,
    CourseOf, CreditsOf, SlotsOf, Capacity, CreditLimit, CourseLimit,
    Eligible, MaxCredits, Delayed

VARIABLES
    open,    \* rounds whose window has not ended
    asked,   \* selections made in an open round that have not been served
    choice,  \* application |-> the student, round, request and class it is for
    stage    \* application |-> "none", "granted", "enrolled", "dropped", "returned"

vars == <<open, asked, choice, stage>>

Init ==
    /\ open = Rounds
    /\ asked = {}
    /\ choice = [a \in Apps |-> NoApp]
    /\ stage = [a \in Apps |-> "none"]

\* A dropped enrollment holds its seat and quota until they are returned.
Holders    == {a \in Apps : stage[a] \in {"granted", "enrolled", "dropped"}}
InClass(c) == {a \in Holders : choice[a].class = c}
ByAcct(k)  == {a \in Holders : choice[a].acct = k}

\* The credits of a set of applications, counted unit by unit.
CreditsHeld(S) ==
    Cardinality({u \in S \X (1 .. MaxCredits) : u[2] <= CreditsOf[choice[u[1]].class]})

RoomFor(k, c) ==
    /\ Cardinality(InClass(c)) < Capacity[c]
    /\ Cardinality(ByAcct(k)) < CourseLimit[k]
    /\ CreditsHeld(ByAcct(k)) + CreditsOf[c] <= CreditLimit[k]

Compatible(k, c) ==
    \A b \in ByAcct(k) :
        /\ CourseOf[choice[b].class] # CourseOf[c]
        /\ SlotsOf[choice[b].class] \cap SlotsOf[c] = {}

\* A student asks, and waits to be served.
Ask(k, q, c) ==
    /\ k[1] \in open
    /\ asked' = asked \cup {<<k, q, c>>}
    /\ UNCHANGED <<open, choice, stage>>

\* Application a is granted class c, for request q of account k; the request
\* is served with this.
Grant(a) ==
    /\ stage[a] = "none"
    /\ stage' = [stage EXCEPT ![a] = "granted"]
    /\ \E k \in Rounds \X Students, q \in Requests, c \in Classes :
        /\ choice' = [choice EXCEPT ![a] = [acct |-> k, request |-> q, class |-> c]]
        /\ asked' = {call \in asked : call[1] # k \/ call[2] # q}
        /\ k[1] \in open \/ <<k, q, c>> \in asked
        /\ <<k, c>> \in Eligible
        /\ RoomFor(k, c)
        /\ Compatible(k, c)
    /\ UNCHANGED open

\* Whether two applications are for one course of one student, or one request.
SameCourse(a, b) ==
    /\ choice[a].acct[2] = choice[b].acct[2]
    /\ CourseOf[choice[a].class] = CourseOf[choice[b].class]
SameRequest(a, b) ==
    /\ choice[a].acct = choice[b].acct
    /\ choice[a].request = choice[b].request

\* Grants become enrollments together: a student is enrolled in a course once
\* and no request ever leads to two enrollments.
Enroll(S) ==
    /\ S # {}
    /\ \A a \in S : \A b \in Apps \ {a} :
        /\ b \in S \/ stage[b] = "enrolled" => ~SameCourse(a, b)
        /\ b \in S \/ stage[b] \in {"enrolled", "dropped", "returned"} => ~SameRequest(a, b)
    /\ stage' = [a \in Apps |-> IF a \in S THEN "enrolled" ELSE stage[a]]
    /\ UNCHANGED <<open, asked, choice>>

Drop(a) ==
    /\ stage[a] = "enrolled"
    /\ stage' = [stage EXCEPT ![a] = "dropped"]
    /\ UNCHANGED <<open, asked, choice>>

Return(a) ==
    /\ stage[a] = "dropped"
    /\ stage' = [stage EXCEPT ![a] = "returned"]
    /\ UNCHANGED <<open, asked, choice>>

Close(r) ==
    /\ r \in open
    /\ open' = open \ {r}
    /\ UNCHANGED <<asked, choice, stage>>

Next ==
    \/ \E a \in Apps : Grant(a) \/ Drop(a) \/ Return(a)
    \/ \E S \in SUBSET {a \in Apps : stage[a] = "granted"} : Enroll(S)
    \/ \E call \in Delayed : Ask(call[1], call[2], call[3])
    \/ \E r \in Rounds : Close(r)

Spec == Init /\ [][Next]_vars
=============================================================================
