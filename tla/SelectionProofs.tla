--------------------------- MODULE SelectionProofs ---------------------------
(***************************************************************************)
(* Proofs about Selection, for every set of rounds, students, classes and  *)
(* applications and every capacity, quota and timetable.                   *)
(*                                                                         *)
(* The inductive invariant is                                              *)
(*     LedgerInv == TypeOK /\ Provenance /\ SeatConservation               *)
(* A commit takes a seat for a fresh application, a release gives a seat   *)
(* back for one that still held it; Provenance is what tells the release   *)
(* step that the application was decided and had not been released.        *)
(*                                                                         *)
(* Three more build on it: FlightInv (what MySQL lacks is pending),        *)
(* HoldInv (the selected course and the booked cells of a student are      *)
(* those of the applications that hold them) and DecisionInv (what was     *)
(* decided was eligible, once per request).                                *)
(***************************************************************************)
EXTENDS Selection, FiniteSetTheorems, TLAPS

LedgerInv == TypeOK /\ Provenance /\ SeatConservation

(***************************************************************************)
(* Facts about the constants and about sums of credits.                    *)
(***************************************************************************)

\* An application id has the type the variables expect of a decision.
LEMMA DecidedType ==
    ASSUME TypeOK, NEW a \in Apps, Decided(a)
    PROVE  /\ Acct(a) \in Accounts
           /\ Class(a) \in Classes
           /\ app[a].request \in Requests
           /\ Course(a) \in Courses
           /\ Credits(a) \in 1 .. MaxCredits
           /\ Credits(a) \in Nat
  BY ConstantsAssumption
     DEF TypeOK, Decided, Acct, Class, Course, Credits, Decision, ConstantsAssumption

\* What a commit records is a decision, not the absence of one.
LEMMA CommitDecides ==
    ASSUME TypeOK, NEW k \in Accounts, NEW q \in Requests, NEW c \in Classes,
           NEW a \in Apps, CommitSelection(k, q, c, a)
    PROVE  app'[a] # NoApp
  <1>1. app'[a] = [acct |-> k, request |-> q, class |-> c]
    BY DEF TypeOK, CommitSelection
  <1>2. [acct |-> k, request |-> q, class |-> c] \in Decision
    BY DEF Decision
  <1> QED
    BY <1>1, <1>2, ConstantsAssumption DEF ConstantsAssumption

\* A set of applications is finite, and so is its set of credit units.
LEMMA SumType ==
    ASSUME NEW S \in SUBSET Apps
    PROVE  /\ IsFiniteSet(S)
           /\ Cardinality(S) \in Nat
           /\ IsFiniteSet(CreditUnits(S))
           /\ CreditSum(S) \in Nat
  <1>1. IsFiniteSet(S) /\ Cardinality(S) \in Nat
    BY ConstantsAssumption, FS_Subset, FS_CardinalityType DEF ConstantsAssumption
  <1>2. IsFiniteSet(1 .. MaxCredits)
    BY ConstantsAssumption, FS_Interval DEF ConstantsAssumption
  <1>3. IsFiniteSet(S \X (1 .. MaxCredits))
    BY <1>1, <1>2, FS_Product
  <1>4. CreditUnits(S) \in SUBSET (S \X (1 .. MaxCredits))
    BY DEF CreditUnits
  <1>5. IsFiniteSet(CreditUnits(S))
    BY <1>3, <1>4, FS_Subset
  <1> QED
    BY <1>1, <1>5, FS_CardinalityType DEF CreditSum

\* A call that takes its time, and the end of the window, touch no store.
LEMMA WindowSteps ==
    ASSUME Stamp \/ \E r \in Rounds : CloseRound(r)
    PROVE  UNCHANGED <<app, redisVars, mysqlVars, cleared, releases>>
  BY DEF Stamp, CompleteSelected, CloseRound

-----------------------------------------------------------------------------
(***************************************************************************)
(* Type correctness.                                                       *)
(***************************************************************************)

\* The state a warm-up leaves (WriteSnapshot, WriteStudents) is well typed.
LEMMA InitTypeOK == Init => TypeOK
  BY ConstantsAssumption DEF Init, TypeOK, ConstantsAssumption

\* The commit script keeps the types: its quota and seat checks are what keeps
\* the counters it decrements natural numbers.
LEMMA CommitTypeOK ==
    ASSUME TypeOK, NEW k \in Accounts, NEW q \in Requests, NEW c \in Classes,
           NEW a \in Apps, CommitSelection(k, q, c, a)
    PROVE  TypeOK'
  <1> USE ConstantsAssumption DEF ConstantsAssumption
  <1>a. /\ credit[k] >= CreditsOf[c]
        /\ course[k] > 0
        /\ seat[c] > 0
    BY DEF CommitSelection, CommitAllowed, Affordable
  <1>b. /\ credit[k] \in Nat /\ course[k] \in Nat /\ seat[c] \in Nat
        /\ CreditsOf[c] \in Nat
    BY DEF TypeOK
  <1>1. /\ credit[k] - CreditsOf[c] \in Nat
        /\ course[k] - 1 \in Nat
        /\ seat[c] - 1 \in Nat
    BY <1>a, <1>b
  <1>2. [acct |-> k, request |-> q, class |-> c] \in Decision
    BY DEF Decision
  <1>3. /\ app' \in [Apps -> Decision \cup {NoApp}]
        /\ credit' \in [Accounts -> Nat]
        /\ course' \in [Accounts -> Nat]
        /\ seat' \in [Classes -> Nat]
    BY <1>1, <1>2 DEF TypeOK, CommitSelection
  <1>4. /\ selected' \in [Accounts -> [Courses -> Apps \cup {NoApp}]]
        /\ pending' \in [Accounts -> Apps \cup {NoApp}]
        /\ result' \in [Accounts -> [Requests -> Apps \cup {NoApp}]]
        /\ entry' \in [Apps -> {"none", "new", "pel", "done"}]
    BY DEF TypeOK, CommitSelection
  <1>5. booked' \in [Accounts -> [Slots -> Nat]]
    BY DEF TypeOK, CommitSelection
  <1> QED
    BY <1>3, <1>4, <1>5 DEF TypeOK, CommitSelection, mysqlVars

\* The batch transaction keeps the types: it adds finite sums to the quotas.
LEMMA SaveTypeOK ==
    ASSUME TypeOK, NEW B \in SUBSET Apps, SaveSelectionResults(B)
    PROVE  TypeOK'
  <1> DEFINE new == Claimed(B)
  <1>1. new \in SUBSET Apps
    BY DEF Claimed
  <1>2. \A k \in Accounts : /\ CreditSum(Mine(new, k)) \in Nat
                            /\ Cardinality(Mine(new, k)) \in Nat
    BY <1>1, SumType DEF Mine
  <1>3. /\ row' = [a \in Apps |-> IF a \in new THEN "enrolled" ELSE row[a]]
        /\ usedCredits' = [k \in Accounts |-> usedCredits[k] + CreditSum(Mine(new, k))]
        /\ usedCourses' = [k \in Accounts |-> usedCourses[k] + Cardinality(Mine(new, k))]
    BY DEF SaveSelectionResults
  <1> HIDE DEF new
  <1>4. /\ row' \in [Apps -> {"none", "enrolled", "dropped"}]
        /\ usedCredits' \in [Accounts -> Nat]
        /\ usedCourses' \in [Accounts -> Nat]
    BY <1>2, <1>3 DEF TypeOK
  <1> QED
    BY <1>4 DEF TypeOK, SaveSelectionResults, windowVars, redisVars

\* The clear script keeps the types: the application it clears was decided.
LEMMA ClearTypeOK ==
    ASSUME TypeOK, Provenance, NEW a \in Apps, ClearPersisted(a)
    PROVE  TypeOK'
  <1>1. Decided(a)
    BY DEF ClearPersisted, Provenance
  <1>2. pending' \in [Accounts -> Apps \cup {NoApp}] /\ persisted' \subseteq Apps
    BY <1>1, DecidedType DEF TypeOK, ClearPersisted
  <1> QED
    BY <1>2 DEF TypeOK, ClearPersisted, windowVars, mysqlVars

\* The drop transaction keeps the types: its guard on the quota row keeps the
\* columns it decrements natural numbers.
LEMMA DropTypeOK ==
    ASSUME TypeOK, Provenance, NEW a \in Apps, DropEnrollment(a)
    PROVE  TypeOK'
  <1>1. Decided(a)
    BY DEF DropEnrollment, Provenance
  <1>2. Acct(a) \in Accounts /\ Credits(a) \in Nat
    BY <1>1, DecidedType
  <1>3. usedCredits[Acct(a)] >= Credits(a) /\ usedCourses[Acct(a)] > 0
    BY DEF DropEnrollment, QuotaReturnable
  <1>4. /\ usedCredits[Acct(a)] - Credits(a) \in Nat
        /\ usedCourses[Acct(a)] - 1 \in Nat
    BY <1>2, <1>3 DEF TypeOK
  <1>5. /\ usedCredits' \in [Accounts -> Nat]
        /\ usedCourses' \in [Accounts -> Nat]
    BY <1>2, <1>4 DEF TypeOK, DropEnrollment
  <1> QED
    BY <1>5 DEF TypeOK, DropEnrollment, windowVars, redisVars

\* The release script keeps the types, the timetable counters included.
LEMMA ReleaseTypeOK ==
    ASSUME TypeOK, Provenance, NEW a \in Apps, ReleaseDroppedEnrollment(a)
    PROVE  TypeOK'
  <1>1. Decided(a)
    BY DEF ReleaseDroppedEnrollment, Provenance
  <1>2. /\ Acct(a) \in Accounts
        /\ Credits(a) \in Nat
        /\ Class(a) \in Classes
        /\ Course(a) \in Courses
    BY <1>1, DecidedType
  <1>3. /\ credit[Acct(a)] + Credits(a) \in Nat
        /\ course[Acct(a)] + 1 \in Nat
        /\ seat[Class(a)] + 1 \in Nat
    BY <1>2 DEF TypeOK
  <1>4. /\ credit' \in [Accounts -> Nat]
        /\ course' \in [Accounts -> Nat]
        /\ seat' \in [Classes -> Nat]
        /\ releases' \in [Apps -> Nat]
        /\ marker' \subseteq Apps
    BY <1>2, <1>3 DEF TypeOK, ReleaseDroppedEnrollment
  <1>5. selected' \in [Accounts -> [Courses -> Apps \cup {NoApp}]]
    BY <1>2 DEF TypeOK, ReleaseDroppedEnrollment
  <1>6. booked' \in [Accounts -> [Slots -> Nat]]
    BY <1>2 DEF TypeOK, ReleaseDroppedEnrollment
  <1> QED
    BY <1>4, <1>5, <1>6 DEF TypeOK, ReleaseDroppedEnrollment, windowVars, mysqlVars

\* Every step keeps the types.
LEMMA NextTypeOK ==
    ASSUME TypeOK, Provenance, [Next]_vars
    PROVE  TypeOK'
  <1>1. CASE Select
    BY <1>1, CommitTypeOK DEF Select, SelectCourse
  <1>2. CASE Stamp \/ \E r \in Rounds : CloseRound(r)
    <2>1. UNCHANGED <<app, redisVars, mysqlVars, cleared, releases>>
      BY <1>2, WindowSteps
    <2>2. accepting' \subseteq Rounds /\ stamped' \subseteq Delayed
      BY <1>2 DEF TypeOK, Stamp, CompleteSelected, CloseRound
    <2> QED
      BY <2>1, <2>2 DEF TypeOK, redisVars, mysqlVars
  <1>3. ASSUME NEW a \in Apps, Deliver(a) PROVE TypeOK'
    BY <1>3 DEF TypeOK, Deliver, windowVars, mysqlVars
  <1>4. CASE Save
    BY <1>4, SaveTypeOK DEF Save
  <1>5. ASSUME NEW a \in Apps, ClearPersisted(a) PROVE TypeOK'
    BY <1>5, ClearTypeOK
  <1>6. ASSUME NEW a \in Apps, Acknowledge(a) PROVE TypeOK'
    BY <1>6 DEF TypeOK, Acknowledge, windowVars, mysqlVars
  <1>7. ASSUME NEW a \in Apps, DropEnrollment(a) PROVE TypeOK'
    BY <1>7, DropTypeOK
  <1>8. ASSUME NEW a \in Apps, ReleaseDroppedEnrollment(a) PROVE TypeOK'
    BY <1>8, ReleaseTypeOK
  <1>9. ASSUME NEW a \in Apps, CompleteRepair(a) PROVE TypeOK'
    BY <1>9 DEF TypeOK, CompleteRepair, windowVars, redisVars
  <1>10. ASSUME NEW k \in Accounts, NEW q \in Requests, ExpireResult(k, q)
         PROVE  TypeOK'
    BY <1>10 DEF TypeOK, ExpireResult, windowVars, mysqlVars
  <1>11. CASE UNCHANGED vars
    BY <1>11 DEF TypeOK, vars, windowVars, redisVars, mysqlVars
  <1> QED
    BY <1>1, <1>2, <1>3, <1>4, <1>5, <1>6, <1>7, <1>8, <1>9, <1>10, <1>11 DEF Next

-----------------------------------------------------------------------------
(***************************************************************************)
(* Provenance and the balance of seats.                                    *)
(***************************************************************************)

\* Every step keeps the provenance of messages, rows and releases.
LEMMA NextProvenance ==
    ASSUME TypeOK, Provenance, [Next]_vars
    PROVE  Provenance'
  <1> USE DEF Provenance, Decided
  <1>1. ASSUME NEW k \in Accounts, NEW q \in Requests, NEW c \in Classes,
               NEW a \in Apps, CommitSelection(k, q, c, a)
        PROVE  Provenance'
    <2>1. /\ app' = [app EXCEPT ![a] = [acct |-> k, request |-> q, class |-> c]]
          /\ entry' = [entry EXCEPT ![a] = "new"]
          /\ UNCHANGED <<row, releases, marker>>
      BY <1>1 DEF CommitSelection, mysqlVars
    <2>2. [acct |-> k, request |-> q, class |-> c] # NoApp
      <3>1. app'[a] = [acct |-> k, request |-> q, class |-> c]
        BY <2>1 DEF TypeOK
      <3> QED
        BY <1>1, <3>1, CommitDecides
    <2> QED
      BY <2>1, <2>2 DEF TypeOK
  <1>2. CASE Stamp \/ \E r \in Rounds : CloseRound(r)
    BY <1>2, WindowSteps DEF redisVars, mysqlVars
  <1>3. ASSUME NEW a \in Apps, Deliver(a) PROVE Provenance'
    BY <1>3 DEF TypeOK, Deliver, windowVars, mysqlVars
  <1>4. ASSUME NEW B \in SUBSET Apps, SaveSelectionResults(B) PROVE Provenance'
    <2>1. /\ \A a \in B : entry[a] = "pel"
          /\ row' = [a \in Apps |-> IF a \in Claimed(B) THEN "enrolled" ELSE row[a]]
          /\ UNCHANGED <<app, entry, releases, marker>>
      BY <1>4 DEF SaveSelectionResults, redisVars
    <2>2. \A a \in Claimed(B) : a \in B /\ row[a] = "none"
      BY DEF Claimed
    <2> QED
      BY <2>1, <2>2 DEF TypeOK
  <1>5. ASSUME NEW a \in Apps, ClearPersisted(a) PROVE Provenance'
    BY <1>5 DEF ClearPersisted, mysqlVars
  <1>6. ASSUME NEW a \in Apps, Acknowledge(a) PROVE Provenance'
    BY <1>6 DEF TypeOK, Acknowledge, windowVars, mysqlVars
  <1>7. ASSUME NEW a \in Apps, DropEnrollment(a) PROVE Provenance'
    BY <1>7 DEF TypeOK, DropEnrollment, windowVars, redisVars
  <1>8. ASSUME NEW a \in Apps, ReleaseDroppedEnrollment(a) PROVE Provenance'
    BY <1>8 DEF TypeOK, ReleaseDroppedEnrollment, windowVars, mysqlVars
  <1>9. ASSUME NEW a \in Apps, CompleteRepair(a) PROVE Provenance'
    BY <1>9 DEF CompleteRepair, redisVars
  <1>10. ASSUME NEW k \in Accounts, NEW q \in Requests, ExpireResult(k, q)
         PROVE  Provenance'
    BY <1>10 DEF ExpireResult, mysqlVars
  <1>11. CASE UNCHANGED vars
    BY <1>11 DEF vars, redisVars, mysqlVars
  <1> QED
    BY <1>1, <1>2, <1>3, <1>4, <1>5, <1>6, <1>7, <1>8, <1>9, <1>10, <1>11
       DEF Next, Select, SelectCourse, Save

\* The applications holding a seat of a class are a finite set.
LEMMA HeldFinite ==
    ASSUME NEW c \in Classes
    PROVE  IsFiniteSet(HeldIn(c)) /\ Cardinality(HeldIn(c)) \in Nat
  BY SumType DEF HeldIn, Held

\* A commit adds its application to the holders of its class.
LEMMA CommitSeats ==
    ASSUME LedgerInv, NEW k \in Accounts, NEW q \in Requests, NEW c \in Classes,
           NEW a \in Apps, CommitSelection(k, q, c, a)
    PROVE  SeatConservation'
  <1>1. /\ app' = [app EXCEPT ![a] = [acct |-> k, request |-> q, class |-> c]]
        /\ seat' = [seat EXCEPT ![c] = @ - 1]
        /\ releases' = releases
    BY DEF CommitSelection
  <1>2. app[a] = NoApp
    BY DEF CommitSelection, Decided
  <1>3. /\ app'[a].class = c
        /\ \A b \in Apps \ {a} : app'[b] = app[b]
    BY <1>1 DEF LedgerInv, TypeOK
  <1>4. app'[a] # NoApp
    BY CommitDecides DEF LedgerInv
  <1>5. releases[a] = 0
    <2>1. row[a] # "dropped" /\ releases[a] \in Nat
      BY <1>2 DEF LedgerInv, TypeOK, Provenance, Decided
    <2>2. ~(releases[a] > 0)
      BY <2>1 DEF LedgerInv, Provenance
    <2> QED
      BY <2>1, <2>2
  <1>6. HeldIn(c)' = HeldIn(c) \cup {a}
    BY <1>1, <1>3, <1>4, <1>5 DEF HeldIn, Held, Decided, Class
  <1>7. a \notin HeldIn(c)
    BY <1>2 DEF HeldIn, Held, Decided
  <1>8. \A d \in Classes \ {c} : HeldIn(d)' = HeldIn(d)
    BY <1>1, <1>2, <1>3 DEF HeldIn, Held, Decided, Class
  <1>9. Cardinality(HeldIn(c)') = Cardinality(HeldIn(c)) + 1
    BY <1>6, <1>7, HeldFinite, FS_AddElement
  <1>10. seat[c] \in Nat /\ Cardinality(HeldIn(c)) \in Nat /\ seat'[c] = seat[c] - 1
    BY <1>1, HeldFinite DEF LedgerInv, TypeOK
  <1>11. seat'[c] + Cardinality(HeldIn(c)') = Capacity[c]
    BY <1>9, <1>10 DEF LedgerInv, SeatConservation
  <1>12. \A d \in Classes \ {c} : seat'[d] + Cardinality(HeldIn(d)') = Capacity[d]
    BY <1>1, <1>8 DEF LedgerInv, TypeOK, SeatConservation
  <1> QED
    BY <1>11, <1>12 DEF SeatConservation

\* A release removes its application from the holders of its class.
LEMMA ReleaseSeats ==
    ASSUME LedgerInv, NEW a \in Apps, ReleaseDroppedEnrollment(a)
    PROVE  SeatConservation'
  <1>1. Decided(a) /\ releases[a] = 0
    BY DEF LedgerInv, TypeOK, Provenance, ReleaseDroppedEnrollment, AlreadyReleased
  <1>2. PICK c \in Classes : c = Class(a)
    BY <1>1, DecidedType DEF LedgerInv
  <1>3. /\ seat' = [seat EXCEPT ![c] = @ + 1]
        /\ releases' = [releases EXCEPT ![a] = @ + 1]
        /\ app' = app
    BY <1>2 DEF ReleaseDroppedEnrollment
  <1>4. /\ releases'[a] = 1
        /\ \A b \in Apps \ {a} : releases'[b] = releases[b]
    BY <1>3, <1>1 DEF LedgerInv, TypeOK
  <1>5. a \in HeldIn(c)
    BY <1>1, <1>2 DEF HeldIn, Held
  <1>6. HeldIn(c)' = HeldIn(c) \ {a}
    BY <1>3, <1>2, <1>4 DEF HeldIn, Held, Decided, Class
  <1>7. \A d \in Classes \ {c} : HeldIn(d)' = HeldIn(d)
    BY <1>3, <1>2, <1>4 DEF HeldIn, Held, Decided, Class
  <1>8. Cardinality(HeldIn(c)') = Cardinality(HeldIn(c)) - 1
    BY <1>2, <1>5, <1>6, HeldFinite, FS_RemoveElement
  <1>9. seat[c] \in Nat /\ Cardinality(HeldIn(c)) \in Nat /\ seat'[c] = seat[c] + 1
    BY <1>3, <1>2, HeldFinite DEF LedgerInv, TypeOK
  <1>10. seat'[c] + Cardinality(HeldIn(c)') = Capacity[c]
    BY <1>2, <1>8, <1>9 DEF LedgerInv, SeatConservation
  <1>11. \A d \in Classes \ {c} : seat'[d] + Cardinality(HeldIn(d)') = Capacity[d]
    BY <1>3, <1>7 DEF LedgerInv, TypeOK, SeatConservation
  <1> QED
    BY <1>10, <1>11 DEF SeatConservation

\* Every other step leaves seats, decisions and releases alone.
LEMMA OtherSeats ==
    ASSUME SeatConservation, UNCHANGED <<app, seat, releases>>
    PROVE  SeatConservation'
  BY DEF SeatConservation, HeldIn, Held, Decided, Class

\* Every step keeps the balance of seats: only a commit and a release move it.
LEMMA NextSeats ==
    ASSUME LedgerInv, [Next]_vars
    PROVE  SeatConservation'
  <1>1. CASE Select
    BY <1>1, CommitSeats DEF Select, SelectCourse
  <1>2. CASE \E a \in Apps : ReleaseDroppedEnrollment(a)
    BY <1>2, ReleaseSeats
  <1>3. CASE \/ Stamp \/ \E r \in Rounds : CloseRound(r)
             \/ \E a \in Apps : \/ Deliver(a)
                                \/ ClearPersisted(a)
                                \/ Acknowledge(a)
                                \/ DropEnrollment(a)
                                \/ CompleteRepair(a)
             \/ Save
             \/ \E k \in Accounts, q \in Requests : ExpireResult(k, q)
             \/ UNCHANGED vars
    <2>1. UNCHANGED <<app, seat, releases>>
      BY <1>3, WindowSteps DEF Deliver, ClearPersisted, Acknowledge, DropEnrollment,
                  CompleteRepair, Save, SaveSelectionResults, ExpireResult,
                  vars, redisVars
    <2> QED
      BY <2>1, OtherSeats DEF LedgerInv
  <1> QED
    BY <1>1, <1>2, <1>3 DEF Next

\* After a warm-up nothing is held, and the inductive invariant holds.
LEMMA InitLedger == Init => LedgerInv
  <1> SUFFICES ASSUME Init PROVE LedgerInv
    OBVIOUS
  <1>1. TypeOK
    BY InitTypeOK
  <1>2. Provenance
    BY DEF Init, Provenance, Decided
  <1>3. \A c \in Classes : HeldIn(c) = {}
    BY DEF Init, HeldIn, Held, Decided
  <1>4. ASSUME NEW c \in Classes
        PROVE  seat[c] + Cardinality(HeldIn(c)) = Capacity[c]
    <2>1. Cardinality(HeldIn(c)) = 0
      BY <1>3, FS_EmptySet
    <2>2. seat[c] = Capacity[c] /\ seat[c] \in Nat
      BY <1>1 DEF Init, TypeOK
    <2> QED
      BY <2>1, <2>2
  <1> QED
    BY <1>1, <1>2, <1>4 DEF LedgerInv, SeatConservation

\* LedgerInv is inductive.
THEOREM LedgerInvariant == Spec => []LedgerInv
  <1>1. LedgerInv /\ [Next]_vars => LedgerInv'
    BY NextTypeOK, NextProvenance, NextSeats DEF LedgerInv
  <1> QED
    BY InitLedger, <1>1, PTL DEF Spec

\* The variables keep their types: no Redis counter and no quota column of
\* MySQL ever becomes negative.
THEOREM TypeCorrectness == Spec => []TypeOK
  BY LedgerInvariant, PTL DEF LedgerInv

\* Remaining seats and held seats add up to the capacity of every class.
THEOREM SeatsBalance == Spec => []SeatConservation
  BY LedgerInvariant, PTL DEF LedgerInv

\* No class is ever oversold, although the MySQL transaction that inserts
\* the enrollments does not look at the capacity.
THEOREM NeverOversold == Spec => []NoOversell
  <1>1. LedgerInv => NoOversell
    <2> SUFFICES ASSUME LedgerInv, NEW c \in Classes
                 PROVE  Cardinality(EnrolledIn(c)) <= Capacity[c]
      BY DEF NoOversell
    <2>1. EnrolledIn(c) \in SUBSET HeldIn(c)
      BY DEF LedgerInv, TypeOK, Provenance, EnrolledIn, Enrolled, HeldIn, Held
    <2>2. /\ Cardinality(EnrolledIn(c)) <= Cardinality(HeldIn(c))
          /\ IsFiniteSet(EnrolledIn(c))
      BY <2>1, HeldFinite, FS_Subset
    <2>3. /\ Cardinality(HeldIn(c)) \in Nat
          /\ Cardinality(EnrolledIn(c)) \in Nat
      BY <2>2, HeldFinite, FS_CardinalityType
    <2>4. seat[c] \in Nat /\ seat[c] + Cardinality(HeldIn(c)) = Capacity[c]
      BY DEF LedgerInv, TypeOK, SeatConservation
    <2> QED
      BY <2>2, <2>3, <2>4
  <1> QED
    BY LedgerInvariant, <1>1, PTL
-----------------------------------------------------------------------------
(***************************************************************************)
(* Applications in flight.                                                 *)
(***************************************************************************)

\* The pending key covers what is not saved, and what was cleared is saved.
FlightInv == PendingCoversUnsaved /\ ClearedIsSettled

\* Every step keeps FlightInv: a commit finds no application in flight, and
\* the clear script touches the pending key only for a saved application.
LEMMA NextFlight ==
    ASSUME TypeOK, Provenance, FlightInv, [Next]_vars
    PROVE  FlightInv'
  <1> USE DEF FlightInv, PendingCoversUnsaved, ClearedIsSettled, Unsaved, Acct
  <1>1. ASSUME NEW k \in Accounts, NEW q \in Requests, NEW c \in Classes,
               NEW a \in Apps, CommitSelection(k, q, c, a)
        PROVE  FlightInv'
    <2>1. /\ app[a] = NoApp
          /\ pending[k] = NoApp
          /\ app' = [app EXCEPT ![a] = [acct |-> k, request |-> q, class |-> c]]
          /\ entry' = [entry EXCEPT ![a] = "new"]
          /\ pending' = [pending EXCEPT ![k] = a]
          /\ UNCHANGED <<row, cleared>>
      BY <1>1 DEF CommitSelection, Decided, InProgress, mysqlVars
    <2>2. /\ app'[a].acct = k
          /\ \A b \in Apps \ {a} : app'[b] = app[b] /\ entry'[b] = entry[b]
          /\ pending'[k] = a
          /\ entry'[a] = "new"
          /\ \A l \in Accounts \ {k} : pending'[l] = pending[l]
      BY <2>1 DEF TypeOK
    <2>3. a \notin cleared
      BY <2>1 DEF Provenance, Decided, TypeOK
    <2>4. ASSUME NEW b \in Apps, b \in Unsaved' PROVE pending'[Acct(b)'] = b
      <3>1. CASE b = a
        BY <2>2, <3>1
      <3>2. CASE b # a
        <4>1. b \in Unsaved /\ pending[app[b].acct] = b
          BY <2>1, <2>2, <2>4, <3>2
        <4>2. app[b].acct \in Accounts
          BY <4>1, DecidedType DEF Provenance
        <4>3. app[b].acct # k
          BY <2>1, <4>1, ConstantsAssumption DEF ConstantsAssumption
        <4> QED
          BY <2>2, <3>2, <4>1, <4>2, <4>3
      <3> QED
        BY <3>1, <3>2
    <2>5. ASSUME NEW b \in cleared' PROVE row'[b] # "none" /\ pending'[Acct(b)'] # b
      <3>1. b \in cleared /\ b # a /\ b \in Apps
        BY <2>1, <2>3, <2>5 DEF TypeOK
      <3>2. Decided(b)
        BY <3>1 DEF Provenance
      <3>3. app[b].acct \in Accounts
        BY <3>1, <3>2, DecidedType
      <3> QED
        BY <2>1, <2>2, <3>1, <3>3
    <2>6. \A b \in Apps : entry'[b] = "done" => b \in cleared'
      BY <2>1, <2>2
    <2> QED
      BY <2>4, <2>5, <2>6
  <1>2. CASE Stamp \/ \E r \in Rounds : CloseRound(r)
    BY <1>2, WindowSteps DEF redisVars, mysqlVars
  <1>3. ASSUME NEW a \in Apps, Deliver(a) PROVE FlightInv'
    BY <1>3 DEF TypeOK, Deliver, windowVars, mysqlVars
  <1>4. ASSUME NEW B \in SUBSET Apps, SaveSelectionResults(B) PROVE FlightInv'
    <2>1. /\ row' = [a \in Apps |-> IF a \in Claimed(B) THEN "enrolled" ELSE row[a]]
          /\ UNCHANGED <<app, entry, pending, cleared>>
      BY <1>4 DEF SaveSelectionResults, redisVars
    <2>2. \A a \in Apps : row'[a] = "none" <=> row[a] = "none" /\ a \notin Claimed(B)
      BY <2>1
    <2>3. cleared \subseteq Apps
      BY DEF TypeOK
    <2> QED
      BY <2>1, <2>2, <2>3
  <1>5. ASSUME NEW a \in Apps, ClearPersisted(a) PROVE FlightInv'
    <2>1. /\ row[a] # "none"
          /\ cleared' = cleared \cup {a}
          /\ pending' = IF pending[app[a].acct] = a
                          THEN [pending EXCEPT ![app[a].acct] = NoApp] ELSE pending
          /\ UNCHANGED <<app, entry, row>>
      BY <1>5 DEF ClearPersisted, HoldsPending, mysqlVars
    <2>2. app[a].acct \in Accounts
      BY <2>1, DecidedType DEF Provenance
    <2>3. /\ \A l \in Accounts : pending'[l] = IF l = app[a].acct /\ pending[l] = a
                                                 THEN NoApp ELSE pending[l]
          /\ a # NoApp
      BY <2>1, <2>2, ConstantsAssumption DEF TypeOK, ConstantsAssumption
    <2>4. ASSUME NEW b \in Apps, b \in Unsaved' PROVE pending'[Acct(b)'] = b
      <3>1. b \in Unsaved /\ b # a /\ pending[app[b].acct] = b
        BY <2>1, <2>4
      <3>2. app[b].acct \in Accounts
        BY <3>1, DecidedType DEF Provenance
      <3> QED
        BY <2>1, <2>3, <3>1, <3>2
    <2>5. ASSUME NEW b \in cleared' PROVE row'[b] # "none" /\ pending'[Acct(b)'] # b
      <3>1. b \in Apps /\ row[b] # "none"
        BY <2>1, <2>5 DEF TypeOK
      <3>2. app[b].acct \in Accounts /\ b # NoApp
        BY <3>1, DecidedType, ConstantsAssumption DEF Provenance, ConstantsAssumption
      <3> QED
        BY <2>1, <2>3, <2>5, <3>1, <3>2
    <2> QED
      BY <2>1, <2>4, <2>5
  <1>6. ASSUME NEW a \in Apps, Acknowledge(a) PROVE FlightInv'
    BY <1>6 DEF TypeOK, Acknowledge, windowVars, mysqlVars
  <1>7. ASSUME NEW a \in Apps, DropEnrollment(a) PROVE FlightInv'
    BY <1>7 DEF TypeOK, DropEnrollment, windowVars, redisVars
  <1>8. ASSUME NEW a \in Apps, ReleaseDroppedEnrollment(a) PROVE FlightInv'
    BY <1>8 DEF ReleaseDroppedEnrollment, mysqlVars
  <1>9. ASSUME NEW a \in Apps, CompleteRepair(a) PROVE FlightInv'
    BY <1>9 DEF CompleteRepair, redisVars
  <1>10. ASSUME NEW k \in Accounts, NEW q \in Requests, ExpireResult(k, q)
         PROVE  FlightInv'
    BY <1>10 DEF ExpireResult, mysqlVars
  <1>11. CASE UNCHANGED vars
    BY <1>11 DEF vars, redisVars, mysqlVars
  <1> QED
    BY <1>1, <1>2, <1>3, <1>4, <1>5, <1>6, <1>7, <1>8, <1>9, <1>10, <1>11
       DEF Next, Select, SelectCourse, Save

\* FlightInv is an invariant.
LEMMA FlightInvariant == Spec => []FlightInv
  <1>1. Init => FlightInv
    BY DEF Init, FlightInv, PendingCoversUnsaved, ClearedIsSettled, Unsaved
  <1>2. LedgerInv /\ FlightInv /\ [Next]_vars => FlightInv'
    BY NextFlight DEF LedgerInv
  <1> QED
    BY <1>1, <1>2, LedgerInvariant, PTL DEF Spec

\* The pending key covers every decision that is not in MySQL yet, whatever is
\* redelivered and whichever worker clears first.
THEOREM PendingCovers == Spec => []PendingCoversUnsaved
  BY FlightInvariant, PTL DEF FlightInv

\* A message leaves the stream only with its enrollment saved and its pending
\* key gone.
THEOREM AcknowledgedSettled == Spec => []AcknowledgedIsSettled
  <1>1. FlightInv => AcknowledgedIsSettled
    BY DEF FlightInv, ClearedIsSettled, AcknowledgedIsSettled
  <1> QED
    BY FlightInvariant, <1>1, PTL

\* The admission read and the commit script accept the same classes in every
\* reachable state: a seat counter above the capacity, which would make them
\* differ, never happens.
THEOREM AdmissionAgreement == Spec => []AdmissionAgrees
  <1>1. LedgerInv => AdmissionAgrees
    <2> SUFFICES ASSUME LedgerInv, NEW k \in Accounts, NEW c \in Classes
                 PROVE  AdmissionAllows(k, c) <=> k[1] \in accepting /\ CommitAllowed(k, c)
      BY DEF AdmissionAgrees
    <2>1. /\ seat[c] \in Nat /\ Cardinality(HeldIn(c)) \in Nat
          /\ Capacity[c] \in Nat
          /\ seat[c] + Cardinality(HeldIn(c)) = Capacity[c]
      BY HeldFinite, ConstantsAssumption
         DEF LedgerInv, TypeOK, SeatConservation, ConstantsAssumption
    <2>2. /\ seat[c] <= Capacity[c]
          /\ Capacity[c] - seat[c] < Capacity[c] <=> seat[c] > 0
      BY <2>1
    <2> QED
      BY <2>2 DEF AdmissionAllows, CommitAllowed, Affordable
  <1> QED
    BY LedgerInvariant, <1>1, PTL

-----------------------------------------------------------------------------
(***************************************************************************)
(* Quotas.                                                                 *)
(***************************************************************************)

\* The credit units of a set of applications under given weights.
Units(S, w) == {u \in S \X (1 .. MaxCredits) : u[2] <= w[u[1]]}

\* The units of disjoint sets add up.
LEMMA UnitsAdd ==
    ASSUME NEW S \in SUBSET Apps, NEW T \in SUBSET Apps, NEW w, S \cap T = {}
    PROVE  /\ Cardinality(Units(S, w)) \in Nat
           /\ Cardinality(Units(T, w)) \in Nat
           /\ Cardinality(Units(S \cup T, w)) = Cardinality(Units(S, w)) + Cardinality(Units(T, w))
  <1>1. ASSUME NEW R \in SUBSET Apps PROVE IsFiniteSet(Units(R, w))
    <2>1. IsFiniteSet(R)
      BY SumType
    <2>2. IsFiniteSet(1 .. MaxCredits)
      BY FS_Interval, ConstantsAssumption DEF ConstantsAssumption
    <2>3. IsFiniteSet(R \X (1 .. MaxCredits))
      BY <2>1, <2>2, FS_Product
    <2> QED
      BY <2>3, FS_Subset DEF Units
  <1>2. IsFiniteSet(Units(S, w)) /\ IsFiniteSet(Units(T, w))
    BY <1>1
  <1>3. Units(S \cup T, w) = Units(S, w) \cup Units(T, w)
    BY DEF Units
  <1>4. Units(S, w) \cap Units(T, w) = {}
    BY DEF Units
  <1>5. Cardinality(Units(S, w) \cap Units(T, w)) = 0
    BY <1>4, FS_EmptySet
  <1>6. Cardinality(Units(S, w)) \in Nat /\ Cardinality(Units(T, w)) \in Nat
    BY <1>2, FS_CardinalityType
  <1>7. Cardinality(Units(S, w) \cup Units(T, w)) =
          Cardinality(Units(S, w)) + Cardinality(Units(T, w)) - Cardinality(Units(S, w) \cap Units(T, w))
    BY <1>2, FS_Union
  <1>8. Cardinality(Units(S \cup T, w)) =
          Cardinality(Units(S, w)) + Cardinality(Units(T, w)) - Cardinality(Units(S, w) \cap Units(T, w))
    BY <1>3, <1>7
  <1> QED
    BY <1>5, <1>6, <1>8

\* One application has as many units as its weight says.
LEMMA UnitsOne ==
    ASSUME NEW a \in Apps, NEW w, w[a] \in 1 .. MaxCredits
    PROVE  Cardinality(Units({a}, w)) = w[a]
  <1>1. MaxCredits \in Nat /\ w[a] \in Nat
    BY ConstantsAssumption DEF ConstantsAssumption
  <1>2. Units({a}, w) = {a} \X (1 .. w[a])
    BY <1>1 DEF Units
  <1>3. IsFiniteSet({a}) /\ Cardinality({a}) = 1
    BY FS_Singleton
  <1>4. IsFiniteSet(1 .. w[a]) /\ Cardinality(1 .. w[a]) = w[a]
    <2>1. PICK n \in Nat : n = w[a] /\ n >= 1
      BY <1>1
    <2>2. IsFiniteSet(1 .. n) /\ Cardinality(1 .. n) = IF 1 > n THEN 0 ELSE n - 1 + 1
      BY FS_Interval
    <2>3. Cardinality(1 .. n) = n
      BY <2>1, <2>2
    <2> QED
      BY <2>1, <2>2, <2>3
  <1>5. Cardinality({a} \X (1 .. w[a])) = Cardinality({a}) * Cardinality(1 .. w[a])
    BY <1>3, <1>4, FS_Product
  <1>6. Cardinality({a} \X (1 .. w[a])) = w[a]
    BY <1>1, <1>3, <1>4, <1>5
  <1> QED
    BY <1>2, <1>6

\* A credit sum is the number of units under the credits of the classes.
LEMMA SumUnits ==
    ASSUME NEW S \in SUBSET Apps, NEW w, \A a \in S : w[a] = Credits(a)
    PROVE  CreditSum(S) = Cardinality(Units(S, w))
  <1>1. CreditUnits(S) = Units(S, w)
    BY DEF CreditUnits, Units
  <1> QED
    BY <1>1 DEF CreditSum

\* The same after a step.
LEMMA SumUnitsNext ==
    ASSUME NEW S \in SUBSET Apps, NEW w, \A a \in S : w[a] = Credits(a)'
    PROVE  CreditSum(S)' = Cardinality(Units(S, w))
  <1>1. CreditUnits(S)' = Units(S, w)
    BY DEF CreditUnits, Units
  <1> QED
    BY <1>1 DEF CreditSum

\* A step that leaves the decisions of a set alone leaves its credit sum alone.
LEMMA SumUnchanged ==
    ASSUME NEW S \in SUBSET Apps, \A a \in S : app'[a] = app[a]
    PROVE  CreditSum(S)' = CreditSum(S)
  <1>1. CreditUnits(S)' = CreditUnits(S)
    BY DEF CreditUnits, Credits, Class
  <1> QED
    BY <1>1 DEF CreditSum

\* The credit sums of disjoint sets add up.
LEMMA SumAdd ==
    ASSUME NEW S \in SUBSET Apps, NEW T \in SUBSET Apps, S \cap T = {}
    PROVE  CreditSum(S \cup T) = CreditSum(S) + CreditSum(T)
  <1> DEFINE w == [a \in Apps |-> Credits(a)]
  <1>1. \A a \in Apps : w[a] = Credits(a)
    OBVIOUS
  <1> HIDE DEF w
  <1>2. /\ CreditSum(S) = Cardinality(Units(S, w)) /\ CreditSum(T) = Cardinality(Units(T, w))
        /\ CreditSum(S \cup T) = Cardinality(Units(S \cup T, w))
    BY <1>1, SumUnits
  <1> QED
    BY <1>2, UnitsAdd

\* One decided application counts the credits of its class.
LEMMA SumOne ==
    ASSUME TypeOK, NEW a \in Apps, Decided(a)
    PROVE  CreditSum({a}) = Credits(a)
  <1> DEFINE w == [b \in Apps |-> Credits(b)]
  <1>1. w[a] = Credits(a) /\ Credits(a) \in 1 .. MaxCredits
    BY DecidedType
  <1> HIDE DEF w
  <1> QED
    BY <1>1, SumUnits, UnitsOne

\* What an account holds and what it is enrolled in are sets of applications.
LEMMA AccountSets ==
    ASSUME NEW k \in Accounts
    PROVE  /\ HeldBy(k) \in SUBSET Apps /\ EnrolledBy(k) \in SUBSET Apps
           /\ Cardinality(HeldBy(k)) \in Nat /\ Cardinality(EnrolledBy(k)) \in Nat
           /\ IsFiniteSet(HeldBy(k)) /\ IsFiniteSet(EnrolledBy(k))
           /\ CreditSum(HeldBy(k)) \in Nat /\ CreditSum(EnrolledBy(k)) \in Nat
  <1>1. HeldBy(k) \in SUBSET Apps /\ EnrolledBy(k) \in SUBSET Apps
    BY DEF HeldBy, Held, EnrolledBy, Enrolled
  <1> QED
    BY <1>1, SumType

\* A commit takes a course and the credits of its class from its account.
LEMMA CommitQuota ==
    ASSUME LedgerInv, QuotaConservation, NEW k \in Accounts, NEW q \in Requests, NEW c \in Classes,
           NEW a \in Apps, CommitSelection(k, q, c, a)
    PROVE  QuotaConservation'
  <1>1. /\ app' = [app EXCEPT ![a] = [acct |-> k, request |-> q, class |-> c]]
        /\ credit' = [credit EXCEPT ![k] = @ - CreditsOf[c]]
        /\ course' = [course EXCEPT ![k] = @ - 1]
        /\ UNCHANGED <<releases, row, usedCredits, usedCourses>>
        /\ app[a] = NoApp
    BY DEF CommitSelection, Decided, mysqlVars
  <1>2. /\ app'[a].class = c /\ app'[a].acct = k
        /\ \A b \in Apps \ {a} : app'[b] = app[b]
    BY <1>1 DEF LedgerInv, TypeOK
  <1>3. app'[a] # NoApp
    BY CommitDecides DEF LedgerInv
  <1>4. releases[a] = 0 /\ row[a] = "none"
    <2>1. row[a] = "none" /\ releases[a] \in Nat
      BY <1>1 DEF LedgerInv, TypeOK, Provenance, Decided
    <2>2. ~(releases[a] > 0)
      BY <2>1 DEF LedgerInv, Provenance
    <2> QED
      BY <2>1, <2>2
  <1>5. HeldBy(k)' = HeldBy(k) \cup {a} /\ a \notin HeldBy(k)
    BY <1>1, <1>2, <1>3, <1>4 DEF HeldBy, Held, Decided, Acct
  <1>6. \A l \in Accounts \ {k} : HeldBy(l)' = HeldBy(l) /\ a \notin HeldBy(l)
    BY <1>1, <1>2, <1>3 DEF HeldBy, Held, Decided, Acct
  <1>7. \A l \in Accounts : EnrolledBy(l)' = EnrolledBy(l) /\ a \notin EnrolledBy(l)
    BY <1>1, <1>2, <1>4 DEF EnrolledBy, Enrolled, Acct
  <1>8. ASSUME NEW l \in Accounts
        PROVE  usedCourses'[l] = Cardinality(EnrolledBy(l))' /\ usedCredits'[l] = CreditSum(EnrolledBy(l))'
    <2>1. PICK S \in SUBSET Apps : S = EnrolledBy(l)
      BY AccountSets
    <2>2. S = EnrolledBy(l)' /\ \A b \in S : app'[b] = app[b]
      BY <1>2, <1>7, <2>1
    <2>3. CreditSum(S)' = CreditSum(S)
      BY <2>2, SumUnchanged
    <2>4. CreditSum(EnrolledBy(l))' = CreditSum(S)'
      BY <2>2 DEF CreditSum, CreditUnits, Credits, Class
    <2> QED
      BY <1>1, <2>1, <2>2, <2>3, <2>4 DEF QuotaConservation
  <1>9. ASSUME NEW l \in Accounts \ {k}
        PROVE  /\ course'[l] + Cardinality(HeldBy(l))' = CourseLimit[l]
               /\ credit'[l] + CreditSum(HeldBy(l))' = CreditLimit[l]
    <2>1. PICK S \in SUBSET Apps : S = HeldBy(l)
      BY AccountSets
    <2>2. S = HeldBy(l)' /\ \A b \in S : app'[b] = app[b]
      BY <1>2, <1>6, <2>1
    <2>3. CreditSum(S)' = CreditSum(S)
      BY <2>2, SumUnchanged
    <2>4. CreditSum(HeldBy(l))' = CreditSum(S)'
      BY <2>2 DEF CreditSum, CreditUnits, Credits, Class
    <2>5. course'[l] = course[l] /\ credit'[l] = credit[l]
      BY <1>1 DEF LedgerInv, TypeOK
    <2> QED
      BY <2>1, <2>2, <2>3, <2>4, <2>5 DEF QuotaConservation
  <1>10. course'[k] + Cardinality(HeldBy(k))' = CourseLimit[k]
    <2>1. Cardinality(HeldBy(k)') = Cardinality(HeldBy(k)) + 1
      BY <1>5, AccountSets, FS_AddElement
    <2>2. course'[k] = course[k] - 1 /\ course[k] \in Nat /\ Cardinality(HeldBy(k)) \in Nat
      BY <1>1, AccountSets DEF LedgerInv, TypeOK
    <2> QED
      BY <2>1, <2>2 DEF QuotaConservation
  <1>11. credit'[k] + CreditSum(HeldBy(k))' = CreditLimit[k]
    <2> DEFINE w == [b \in Apps |-> Credits(b)']
    <2>1. PICK S \in SUBSET Apps : S = HeldBy(k)
      BY AccountSets
    <2>2. a \notin S /\ S \cup {a} = HeldBy(k)' /\ \A b \in S : Credits(b)' = Credits(b)
      BY <1>2, <1>5, <2>1 DEF Credits, Class
    <2>3. CreditsOf[c] \in 1 .. MaxCredits /\ w[a] = CreditsOf[c]
      BY <1>2, ConstantsAssumption DEF ConstantsAssumption, Credits, Class
    <2>4. \A b \in Apps : w[b] = Credits(b)'
      OBVIOUS
    <2> HIDE DEF w
    <2>5. CreditSum(S) = Cardinality(Units(S, w))
      BY <2>2, <2>4, SumUnits
    <2>6. CreditSum(S \cup {a})' = Cardinality(Units(S \cup {a}, w))
      BY <2>4, SumUnitsNext
    <2>7. CreditSum(HeldBy(k))' = CreditSum(S \cup {a})'
      BY <2>2 DEF CreditSum, CreditUnits, Credits, Class
    <2>8. Cardinality(Units(S \cup {a}, w)) = Cardinality(Units(S, w)) + CreditsOf[c]
      <3>1. S \cap {a} = {} /\ {a} \in SUBSET Apps
        BY <2>2
      <3>2. Cardinality(Units(S \cup {a}, w)) = Cardinality(Units(S, w)) + Cardinality(Units({a}, w))
        BY <3>1, UnitsAdd
      <3> QED
        BY <2>3, <3>2, UnitsOne
    <2>9. CreditSum(S) \in Nat /\ credit[k] \in Nat /\ credit'[k] = credit[k] - CreditsOf[c] /\ CreditsOf[c] \in Nat
      BY <1>1, <2>3, SumType DEF LedgerInv, TypeOK
    <2>10. credit[k] + CreditSum(S) = CreditLimit[k]
      BY <2>1 DEF QuotaConservation
    <2> QED
      BY <2>5, <2>6, <2>7, <2>8, <2>9, <2>10
  <1> QED
    BY <1>8, <1>9, <1>10, <1>11 DEF QuotaConservation

\* A step that leaves the decisions alone changes a balance only through the
\* sets of applications and the counters.
LEMMA QuotaStep ==
    ASSUME LedgerInv, app' = app, NEW k \in Accounts,
           NEW H \in SUBSET Apps, H = HeldBy(k)', NEW E \in SUBSET Apps, E = EnrolledBy(k)',
           course'[k] + Cardinality(H) = CourseLimit[k], credit'[k] + CreditSum(H) = CreditLimit[k],
           usedCourses'[k] = Cardinality(E), usedCredits'[k] = CreditSum(E)
    PROVE  (/\ course[k] + Cardinality(HeldBy(k)) = CourseLimit[k]
            /\ credit[k] + CreditSum(HeldBy(k)) = CreditLimit[k]
            /\ usedCourses[k] = Cardinality(EnrolledBy(k))
            /\ usedCredits[k] = CreditSum(EnrolledBy(k)))'
  <1>1. CreditSum(H)' = CreditSum(H) /\ CreditSum(E)' = CreditSum(E)
    BY SumUnchanged
  <1>2. CreditSum(HeldBy(k))' = CreditSum(H)' /\ CreditSum(EnrolledBy(k))' = CreditSum(E)'
    BY DEF CreditSum, CreditUnits, Credits, Class
  <1> QED
    BY <1>1, <1>2

\* A release gives the course and the credits back to the account.
LEMMA ReleaseQuota ==
    ASSUME LedgerInv, QuotaConservation, NEW a \in Apps, ReleaseDroppedEnrollment(a)
    PROVE  QuotaConservation'
  <1>1. Decided(a) /\ releases[a] = 0
    BY DEF LedgerInv, TypeOK, Provenance, ReleaseDroppedEnrollment, AlreadyReleased
  <1>2. PICK k \in Accounts : k = Acct(a)
    BY <1>1, DecidedType DEF LedgerInv
  <1>3. /\ credit' = [credit EXCEPT ![k] = @ + Credits(a)]
        /\ course' = [course EXCEPT ![k] = @ + 1]
        /\ releases' = [releases EXCEPT ![a] = @ + 1]
        /\ UNCHANGED <<app, row, usedCredits, usedCourses>>
    BY <1>2 DEF ReleaseDroppedEnrollment, mysqlVars
  <1>4. releases'[a] = 1 /\ \A b \in Apps \ {a} : releases'[b] = releases[b]
    BY <1>1, <1>3 DEF LedgerInv, TypeOK
  <1>5. \A l \in Accounts : EnrolledBy(l)' = EnrolledBy(l)
    BY <1>3 DEF EnrolledBy, Enrolled, Acct
  <1>6. HeldBy(k)' = HeldBy(k) \ {a} /\ a \in HeldBy(k)
    BY <1>1, <1>2, <1>3, <1>4 DEF HeldBy, Held, Decided, Acct
  <1>7. \A l \in Accounts \ {k} : HeldBy(l)' = HeldBy(l)
    BY <1>2, <1>3, <1>4 DEF HeldBy, Held, Decided, Acct
  <1>8. ASSUME NEW l \in Accounts
        PROVE  (/\ course[l] + Cardinality(HeldBy(l)) = CourseLimit[l]
                /\ credit[l] + CreditSum(HeldBy(l)) = CreditLimit[l]
                /\ usedCourses[l] = Cardinality(EnrolledBy(l))
                /\ usedCredits[l] = CreditSum(EnrolledBy(l)))'
    <2>1. PICK E \in SUBSET Apps : E = EnrolledBy(l)
      BY AccountSets
    <2>2. E = EnrolledBy(l)' /\ usedCourses'[l] = Cardinality(E) /\ usedCredits'[l] = CreditSum(E)
      BY <1>3, <1>5, <2>1 DEF QuotaConservation
    <2>3. CASE l # k
      <3>1. PICK H \in SUBSET Apps : H = HeldBy(l)
        BY AccountSets
      <3>2. H = HeldBy(l)' /\ course'[l] = course[l] /\ credit'[l] = credit[l]
        BY <1>3, <1>7, <2>3, <3>1 DEF LedgerInv, TypeOK
      <3>3. course'[l] + Cardinality(H) = CourseLimit[l] /\ credit'[l] + CreditSum(H) = CreditLimit[l]
        BY <3>1, <3>2 DEF QuotaConservation
      <3> QED
        BY <1>3, <2>2, <3>2, <3>3, QuotaStep
    <2>4. CASE l = k
      <3>1. PICK H \in SUBSET Apps : H = HeldBy(k) \ {a}
        BY AccountSets
      <3>2. H = HeldBy(k)' /\ HeldBy(k) = H \cup {a} /\ a \notin H
        BY <1>6, <3>1
      <3>3. Cardinality(HeldBy(k)) = Cardinality(H) + 1
        BY <3>2, SumType, FS_AddElement
      <3>4. CreditSum(HeldBy(k)) = CreditSum(H) + Credits(a)
        BY <1>1, <3>2, SumAdd, SumOne DEF LedgerInv
      <3>5. /\ course'[k] = course[k] + 1 /\ credit'[k] = credit[k] + Credits(a)
            /\ course[k] \in Nat /\ credit[k] \in Nat /\ Credits(a) \in Nat
            /\ Cardinality(H) \in Nat /\ CreditSum(H) \in Nat
        BY <1>1, <1>3, SumType, DecidedType DEF LedgerInv, TypeOK
      <3>6. /\ course[k] + Cardinality(HeldBy(k)) = CourseLimit[k]
            /\ credit[k] + CreditSum(HeldBy(k)) = CreditLimit[k]
        BY DEF QuotaConservation
      <3>7. course'[k] + Cardinality(H) = CourseLimit[k] /\ credit'[k] + CreditSum(H) = CreditLimit[k]
        BY <3>3, <3>4, <3>5, <3>6
      <3> QED
        BY <1>3, <2>2, <2>4, <3>2, <3>7, QuotaStep
    <2> QED
      BY <2>3, <2>4
  <1> QED
    BY <1>8 DEF QuotaConservation

\* The batch transaction adds the events that it claims to the quota rows.
LEMMA SaveQuota ==
    ASSUME LedgerInv, QuotaConservation, NEW B \in SUBSET Apps, SaveSelectionResults(B)
    PROVE  QuotaConservation'
  <1> DEFINE new == Claimed(B)
  <1>1. /\ row' = [a \in Apps |-> IF a \in new THEN "enrolled" ELSE row[a]]
        /\ usedCredits' = [k \in Accounts |-> usedCredits[k] + CreditSum(Mine(new, k))]
        /\ usedCourses' = [k \in Accounts |-> usedCourses[k] + Cardinality(Mine(new, k))]
        /\ UNCHANGED <<app, credit, course, releases>>
    BY DEF SaveSelectionResults, redisVars
  <1>2. new \subseteq Apps /\ \A a \in new : row[a] = "none"
    BY DEF Claimed
  <1> HIDE DEF new
  <1>3. ASSUME NEW k \in Accounts
        PROVE  (/\ course[k] + Cardinality(HeldBy(k)) = CourseLimit[k]
                /\ credit[k] + CreditSum(HeldBy(k)) = CreditLimit[k]
                /\ usedCourses[k] = Cardinality(EnrolledBy(k))
                /\ usedCredits[k] = CreditSum(EnrolledBy(k)))'
    <2>1. PICK H \in SUBSET Apps : H = HeldBy(k)
      BY AccountSets
    <2>2. H = HeldBy(k)' /\ course'[k] + Cardinality(H) = CourseLimit[k] /\ credit'[k] + CreditSum(H) = CreditLimit[k]
      BY <1>1, <2>1 DEF QuotaConservation, HeldBy, Held, Decided, Acct
    <2>3. PICK N \in SUBSET Apps : N = Mine(new, k)
      BY <1>2 DEF Mine
    <2>4. PICK O \in SUBSET Apps : O = EnrolledBy(k)
      BY AccountSets
    <2>5. EnrolledBy(k)' = O \cup N /\ O \cap N = {}
      BY <1>1, <1>2, <2>3, <2>4 DEF EnrolledBy, Enrolled, Mine, Acct
    <2>6. usedCredits'[k] = CreditSum(O \cup N)
      BY <1>1, <2>3, <2>4, <2>5, SumAdd DEF QuotaConservation
    <2>7. usedCourses'[k] = Cardinality(O \cup N)
      <3>1. Cardinality(O \cup N) = Cardinality(O) + Cardinality(N) - Cardinality(O \cap N)
        BY SumType, FS_Union
      <3>2. Cardinality(O \cap N) = 0 /\ Cardinality(O) \in Nat /\ Cardinality(N) \in Nat
        BY <2>5, SumType, FS_EmptySet
      <3>3. Cardinality(O \cup N) = Cardinality(O) + Cardinality(N)
        BY <3>1, <3>2
      <3> QED
        BY <1>1, <2>3, <2>4, <3>3 DEF QuotaConservation
    <2> QED
      BY <1>1, <2>2, <2>5, <2>6, <2>7, QuotaStep
  <1> QED
    BY <1>3 DEF QuotaConservation

\* The drop transaction takes the enrollment out of the quota row.
LEMMA DropQuota ==
    ASSUME LedgerInv, QuotaConservation, NEW a \in Apps, DropEnrollment(a)
    PROVE  QuotaConservation'
  <1>1. row[a] = "enrolled" /\ Decided(a)
    BY DEF LedgerInv, Provenance, DropEnrollment
  <1>2. PICK k \in Accounts : k = Acct(a)
    BY <1>1, DecidedType DEF LedgerInv
  <1>3. /\ row' = [row EXCEPT ![a] = "dropped"]
        /\ usedCredits' = [usedCredits EXCEPT ![k] = @ - Credits(a)]
        /\ usedCourses' = [usedCourses EXCEPT ![k] = @ - 1]
        /\ UNCHANGED <<app, credit, course, releases>>
    BY <1>2 DEF DropEnrollment, redisVars
  <1>4. row'[a] = "dropped" /\ \A b \in Apps \ {a} : row'[b] = row[b]
    BY <1>3 DEF LedgerInv, TypeOK
  <1>5. EnrolledBy(k)' = EnrolledBy(k) \ {a} /\ a \in EnrolledBy(k)
    BY <1>1, <1>2, <1>3, <1>4 DEF EnrolledBy, Enrolled, Acct
  <1>6. \A l \in Accounts \ {k} : EnrolledBy(l)' = EnrolledBy(l)
    BY <1>2, <1>3, <1>4 DEF EnrolledBy, Enrolled, Acct
  <1>7. ASSUME NEW l \in Accounts
        PROVE  (/\ course[l] + Cardinality(HeldBy(l)) = CourseLimit[l]
                /\ credit[l] + CreditSum(HeldBy(l)) = CreditLimit[l]
                /\ usedCourses[l] = Cardinality(EnrolledBy(l))
                /\ usedCredits[l] = CreditSum(EnrolledBy(l)))'
    <2>1. PICK H \in SUBSET Apps : H = HeldBy(l)
      BY AccountSets
    <2>2. H = HeldBy(l)' /\ course'[l] + Cardinality(H) = CourseLimit[l] /\ credit'[l] + CreditSum(H) = CreditLimit[l]
      BY <1>3, <2>1 DEF QuotaConservation, HeldBy, Held, Decided, Acct
    <2>3. CASE l # k
      <3>1. PICK E \in SUBSET Apps : E = EnrolledBy(l)
        BY AccountSets
      <3>2. E = EnrolledBy(l)' /\ usedCourses'[l] = usedCourses[l] /\ usedCredits'[l] = usedCredits[l]
        BY <1>3, <1>6, <2>3, <3>1 DEF LedgerInv, TypeOK
      <3>3. usedCourses'[l] = Cardinality(E) /\ usedCredits'[l] = CreditSum(E)
        BY <3>1, <3>2 DEF QuotaConservation
      <3> QED
        BY <1>3, <2>2, <3>2, <3>3, QuotaStep
    <2>4. CASE l = k
      <3>1. PICK E \in SUBSET Apps : E = EnrolledBy(k) \ {a}
        BY AccountSets
      <3>2. E = EnrolledBy(k)' /\ EnrolledBy(k) = E \cup {a} /\ a \notin E
        BY <1>5, <3>1
      <3>3. Cardinality(EnrolledBy(k)) = Cardinality(E) + 1
        BY <3>2, SumType, FS_AddElement
      <3>4. CreditSum(EnrolledBy(k)) = CreditSum(E) + Credits(a)
        BY <1>1, <3>2, SumAdd, SumOne DEF LedgerInv
      <3>5. /\ usedCourses'[k] = usedCourses[k] - 1 /\ usedCredits'[k] = usedCredits[k] - Credits(a)
            /\ Credits(a) \in Nat /\ Cardinality(E) \in Nat /\ CreditSum(E) \in Nat
        BY <1>1, <1>3, SumType, DecidedType DEF LedgerInv, TypeOK
      <3>6. usedCourses[k] = Cardinality(EnrolledBy(k)) /\ usedCredits[k] = CreditSum(EnrolledBy(k))
        BY DEF QuotaConservation
      <3>7. usedCourses'[k] = Cardinality(E) /\ usedCredits'[k] = CreditSum(E)
        BY <3>3, <3>4, <3>5, <3>6
      <3> QED
        BY <1>3, <2>2, <2>4, <3>2, <3>7, QuotaStep
    <2> QED
      BY <2>3, <2>4
  <1> QED
    BY <1>7 DEF QuotaConservation

\* Every other step leaves quotas, decisions, releases and rows alone.
LEMMA OtherQuota ==
    ASSUME QuotaConservation, UNCHANGED <<app, credit, course, releases, row, usedCredits, usedCourses>>
    PROVE  QuotaConservation'
  <1>1. \A k \in Accounts : HeldBy(k)' = HeldBy(k) /\ EnrolledBy(k)' = EnrolledBy(k)
    BY DEF HeldBy, Held, EnrolledBy, Enrolled, Decided, Acct
  <1>2. \A k \in Accounts : /\ CreditSum(HeldBy(k))' = CreditSum(HeldBy(k))
                            /\ CreditSum(EnrolledBy(k))' = CreditSum(EnrolledBy(k))
    BY <1>1 DEF CreditSum, CreditUnits, Credits, Class
  <1> QED
    BY <1>1, <1>2 DEF QuotaConservation

\* After a warm-up the quotas are the limits.
LEMMA InitQuota == Init => QuotaConservation
  <1> SUFFICES ASSUME Init, NEW k \in Accounts
               PROVE  /\ course[k] + Cardinality(HeldBy(k)) = CourseLimit[k]
                      /\ credit[k] + CreditSum(HeldBy(k)) = CreditLimit[k]
                      /\ usedCourses[k] = Cardinality(EnrolledBy(k))
                      /\ usedCredits[k] = CreditSum(EnrolledBy(k))
    BY DEF QuotaConservation
  <1>1. HeldBy(k) = {} /\ EnrolledBy(k) = {}
    BY DEF Init, HeldBy, Held, Decided, EnrolledBy, Enrolled
  <1>2. CreditUnits({}) = {}
    BY DEF CreditUnits
  <1>3. Cardinality({}) = 0 /\ CreditSum({}) = 0
    BY <1>2, FS_EmptySet DEF CreditSum
  <1>4. /\ course[k] = CourseLimit[k] /\ credit[k] = CreditLimit[k]
        /\ usedCourses[k] = 0 /\ usedCredits[k] = 0
        /\ CourseLimit[k] \in Nat /\ CreditLimit[k] \in Nat
    BY ConstantsAssumption DEF Init, ConstantsAssumption
  <1> QED
    BY <1>1, <1>3, <1>4

\* Every step keeps the balance of the quotas.
LEMMA NextQuota ==
    ASSUME LedgerInv, QuotaConservation, [Next]_vars
    PROVE  QuotaConservation'
  <1>1. CASE Select
    BY <1>1, CommitQuota DEF Select, SelectCourse
  <1>2. CASE \E a \in Apps : ReleaseDroppedEnrollment(a)
    BY <1>2, ReleaseQuota
  <1>3. CASE Save
    BY <1>3, SaveQuota DEF Save
  <1>4. CASE \E a \in Apps : DropEnrollment(a)
    BY <1>4, DropQuota
  <1>5. CASE \/ Stamp \/ \E r \in Rounds : CloseRound(r)
             \/ \E a \in Apps : Deliver(a) \/ ClearPersisted(a) \/ Acknowledge(a) \/ CompleteRepair(a)
             \/ \E k \in Accounts, q \in Requests : ExpireResult(k, q)
             \/ UNCHANGED vars
    <2>1. UNCHANGED <<app, credit, course, releases, row, usedCredits, usedCourses>>
      BY <1>5, WindowSteps DEF Deliver, ClearPersisted, Acknowledge, CompleteRepair, ExpireResult,
                  vars, redisVars, mysqlVars
    <2> QED
      BY <2>1, OtherQuota
  <1> QED
    BY <1>1, <1>2, <1>3, <1>4, <1>5 DEF Next

\* The quotas in Redis and what a student holds, and the quota row in MySQL and
\* the enrollments in force, balance in every reachable state.
THEOREM QuotasBalance == Spec => []QuotaConservation
  <1>1. LedgerInv /\ QuotaConservation /\ [Next]_vars => QuotaConservation'
    BY NextQuota
  <1> QED
    BY <1>1, InitQuota, LedgerInvariant, PTL DEF Spec

-----------------------------------------------------------------------------
(***************************************************************************)
(* What a student holds.                                                   *)
(***************************************************************************)

\* The cells of the timetable that an account holds a class in.
Occupied(k, t) == \E a \in Held : Acct(a) = k /\ t \in SlotsOf[Class(a)]

\* selected_courses names the application that holds the course, and a cell is
\* counted once, exactly while a held class is in it.
HoldInv ==
    /\ \A a \in Held : selected[Acct(a)][Course(a)] = a
    /\ \A k \in Accounts, t \in Slots : booked[k][t] = IF Occupied(k, t) THEN 1 ELSE 0
    /\ NoClash

\* A commit takes a course that nothing names and cells that nothing is in.
LEMMA CommitHolds ==
    ASSUME LedgerInv, HoldInv, NEW k \in Accounts, NEW q \in Requests, NEW c \in Classes,
           NEW a \in Apps, CommitSelection(k, q, c, a)
    PROVE  HoldInv'
  <1>1. /\ app' = [app EXCEPT ![a] = [acct |-> k, request |-> q, class |-> c]]
        /\ selected' = [selected EXCEPT ![k][CourseOf[c]] = a]
        /\ booked' = [booked EXCEPT ![k] =
                        [t \in Slots |-> IF t \in SlotsOf[c] THEN @[t] + 1 ELSE @[t]]]
        /\ releases' = releases
        /\ app[a] = NoApp /\ selected[k][CourseOf[c]] = NoApp
        /\ \A t \in SlotsOf[c] : booked[k][t] = 0
    BY DEF CommitSelection, CommitAllowed, SlotFree, Decided
  <1>2. app'[a].class = c /\ app'[a].acct = k /\ \A b \in Apps \ {a} : app'[b] = app[b]
    BY <1>1 DEF LedgerInv, TypeOK
  <1>3. app'[a] # NoApp /\ NoApp \notin Apps /\ CourseOf[c] \in Courses /\ SlotsOf[c] \subseteq Slots
    BY CommitDecides, ConstantsAssumption DEF LedgerInv, ConstantsAssumption
  <1>4. releases[a] = 0
    <2>1. row[a] # "dropped" /\ releases[a] \in Nat
      BY <1>1 DEF LedgerInv, TypeOK, Provenance, Decided
    <2>2. ~(releases[a] > 0)
      BY <2>1 DEF LedgerInv, Provenance
    <2> QED
      BY <2>1, <2>2
  <1>5. /\ Held' = Held \cup {a} /\ a \notin Held
        /\ \A b \in Held : Acct(b)' = Acct(b) /\ Class(b)' = Class(b) /\ Course(b)' = Course(b)
        /\ Acct(a)' = k /\ Class(a)' = c /\ Course(a)' = CourseOf[c]
    BY <1>1, <1>2, <1>3, <1>4 DEF Held, Decided, Acct, Class, Course
  <1>6. \A b \in Held : Acct(b) \in Accounts /\ Course(b) \in Courses /\ Class(b) \in Classes /\ b \in Apps
    BY DecidedType DEF LedgerInv, Held
  <1>7. /\ selected'[k][CourseOf[c]] = a
        /\ \A l \in Accounts, x \in Courses : l # k \/ x # CourseOf[c] => selected'[l][x] = selected[l][x]
    BY <1>1, <1>3 DEF LedgerInv, TypeOK
  <1>8. /\ \A t \in Slots : booked'[k][t] = IF t \in SlotsOf[c] THEN booked[k][t] + 1 ELSE booked[k][t]
        /\ \A l \in Accounts \ {k} : booked'[l] = booked[l]
    BY <1>1 DEF LedgerInv, TypeOK
  <1>9. \A b \in Held : Acct(b) = k => Course(b) # CourseOf[c]
    BY <1>1, <1>3, <1>6 DEF HoldInv
  <1>10. \A t \in SlotsOf[c] : ~Occupied(k, t)
    BY <1>1, <1>3 DEF HoldInv
  <1>11. \A b \in Held : Acct(b) = k => SlotsOf[Class(b)] \cap SlotsOf[c] = {}
    BY <1>10 DEF Occupied
  <1>12. \A b \in Held' : selected'[Acct(b)'][Course(b)'] = b
    BY <1>5, <1>6, <1>7, <1>9 DEF HoldInv
  <1>13. ASSUME NEW l \in Accounts, NEW t \in Slots
         PROVE  booked'[l][t] = IF Occupied(l, t)' THEN 1 ELSE 0
    <2>1. Occupied(l, t)' <=> Occupied(l, t) \/ (l = k /\ t \in SlotsOf[c])
      BY <1>5 DEF Occupied
    <2> QED
      BY <1>8, <1>10, <2>1 DEF HoldInv
  <1>14. NoClash'
    BY <1>5, <1>9, <1>11 DEF HoldInv, NoClash
  <1> QED
    BY <1>12, <1>13, <1>14 DEF HoldInv

\* A release gives up the course and the cells of one application, in which no
\* other one of the account is.
LEMMA ReleaseHolds ==
    ASSUME LedgerInv, HoldInv, NEW a \in Apps, ReleaseDroppedEnrollment(a)
    PROVE  HoldInv'
  <1>1. Decided(a) /\ releases[a] = 0
    BY DEF LedgerInv, TypeOK, Provenance, ReleaseDroppedEnrollment, AlreadyReleased
  <1>2. a \in Held
    BY <1>1 DEF Held
  <1>3. PICK k \in Accounts, c \in Classes, x \in Courses : k = Acct(a) /\ c = Class(a) /\ x = Course(a)
    BY <1>1, DecidedType DEF LedgerInv
  <1>4. /\ selected' = IF selected[k][x] = a THEN [selected EXCEPT ![k][x] = NoApp] ELSE selected
        /\ booked' = [booked EXCEPT ![k] =
                        [t \in Slots |-> IF t \in SlotsOf[c]
                                           THEN IF @[t] > 0 THEN @[t] - 1 ELSE 0
                                           ELSE @[t]]]
        /\ releases' = [releases EXCEPT ![a] = @ + 1]
        /\ app' = app
    BY <1>3 DEF ReleaseDroppedEnrollment, Occupies
  <1>5. releases'[a] = 1 /\ \A b \in Apps \ {a} : releases'[b] = releases[b]
    BY <1>1, <1>4 DEF LedgerInv, TypeOK
  <1>6. /\ Held' = Held \ {a}
        /\ \A b \in Apps : Acct(b)' = Acct(b) /\ Class(b)' = Class(b) /\ Course(b)' = Course(b)
    BY <1>4, <1>5 DEF Held, Decided, Acct, Class, Course
  <1>7. \A b \in Held : Acct(b) \in Accounts /\ Course(b) \in Courses /\ b \in Apps
    BY DecidedType DEF LedgerInv, Held
  <1>8. selected[k][x] = a /\
        \A l \in Accounts, y \in Courses : l # k \/ y # x => selected'[l][y] = selected[l][y]
    BY <1>2, <1>3, <1>4 DEF LedgerInv, TypeOK, HoldInv
  <1>9. /\ \A t \in Slots : booked'[k][t] = IF t \in SlotsOf[c]
                                              THEN IF booked[k][t] > 0 THEN booked[k][t] - 1 ELSE 0
                                              ELSE booked[k][t]
        /\ \A l \in Accounts \ {k} : booked'[l] = booked[l]
    BY <1>4 DEF LedgerInv, TypeOK
  <1>10. \A b \in Held \ {a} : Acct(b) = k => Course(b) # x /\ SlotsOf[Class(b)] \cap SlotsOf[c] = {}
    BY <1>2, <1>3 DEF HoldInv, NoClash
  <1>11. \A b \in Held' : selected'[Acct(b)'][Course(b)'] = b
    BY <1>6, <1>7, <1>8, <1>10 DEF HoldInv
  <1>12. ASSUME NEW l \in Accounts, NEW t \in Slots
         PROVE  booked'[l][t] = IF Occupied(l, t)' THEN 1 ELSE 0
    <2>1. CASE l = k /\ t \in SlotsOf[c]
      <3>1. Occupied(k, t) /\ ~Occupied(k, t)'
        BY <1>2, <1>3, <1>6, <1>7, <1>10, <2>1 DEF Occupied
      <3>2. booked[k][t] = 1
        BY <3>1 DEF HoldInv
      <3> QED
        BY <1>9, <2>1, <3>1, <3>2
    <2>2. CASE l # k \/ t \notin SlotsOf[c]
      <3>1. Occupied(l, t)' <=> Occupied(l, t)
        BY <1>3, <1>6, <1>7, <2>2 DEF Occupied
      <3>2. booked'[l][t] = booked[l][t]
        BY <1>9, <2>2
      <3> QED
        BY <3>1, <3>2 DEF HoldInv
    <2> QED
      BY <2>1, <2>2
  <1>13. NoClash'
    BY <1>6, <1>7 DEF HoldInv, NoClash
  <1> QED
    BY <1>11, <1>12, <1>13 DEF HoldInv

\* Every other step leaves courses, cells, decisions and releases alone.
LEMMA OtherHolds ==
    ASSUME HoldInv, UNCHANGED <<app, selected, booked, releases>>
    PROVE  HoldInv'
  <1>1. /\ Held' = Held
        /\ \A a \in Apps : Acct(a)' = Acct(a) /\ Class(a)' = Class(a) /\ Course(a)' = Course(a)
        /\ Held \subseteq Apps
    BY DEF Held, Decided, Acct, Class, Course
  <1>2. \A k \in Accounts, t \in Slots : Occupied(k, t)' <=> Occupied(k, t)
    BY <1>1 DEF Occupied
  <1>3. NoClash'
    BY <1>1 DEF HoldInv, NoClash
  <1> QED
    BY <1>1, <1>2, <1>3 DEF HoldInv

\* Every step keeps HoldInv: only a commit and a release touch it.
LEMMA NextHolds ==
    ASSUME LedgerInv, HoldInv, [Next]_vars
    PROVE  HoldInv'
  <1>1. CASE Select
    BY <1>1, CommitHolds DEF Select, SelectCourse
  <1>2. CASE \E a \in Apps : ReleaseDroppedEnrollment(a)
    BY <1>2, ReleaseHolds
  <1>3. CASE \/ Stamp \/ \E r \in Rounds : CloseRound(r)
             \/ \E a \in Apps : \/ Deliver(a)
                                \/ ClearPersisted(a)
                                \/ Acknowledge(a)
                                \/ DropEnrollment(a)
                                \/ CompleteRepair(a)
             \/ Save
             \/ \E k \in Accounts, q \in Requests : ExpireResult(k, q)
             \/ UNCHANGED vars
    <2>1. UNCHANGED <<app, selected, booked, releases>>
      BY <1>3, WindowSteps DEF Deliver, ClearPersisted, Acknowledge, DropEnrollment,
                  CompleteRepair, Save, SaveSelectionResults, ExpireResult,
                  vars, redisVars
    <2> QED
      BY <2>1, OtherHolds
  <1> QED
    BY <1>1, <1>2, <1>3 DEF Next

\* HoldInv is an invariant.
LEMMA HoldInvariant == Spec => []HoldInv
  <1>1. Init => HoldInv
    <2> SUFFICES ASSUME Init PROVE HoldInv
      OBVIOUS
    <2>1. Held = {}
      BY DEF Init, Held, Decided
    <2> QED
      BY <2>1 DEF Init, HoldInv, Occupied, NoClash
  <1>2. LedgerInv /\ HoldInv /\ [Next]_vars => HoldInv'
    BY NextHolds
  <1> QED
    BY <1>1, <1>2, LedgerInvariant, PTL DEF Spec

\* What a student holds in a round never overlaps: one class per course and no
\* two classes in one cell of the timetable, though the release script looks at
\* counters and not at the other classes.
THEOREM NeverClashes == Spec => []NoClash
  BY HoldInvariant, PTL DEF HoldInv

-----------------------------------------------------------------------------
(***************************************************************************)
(* The projection accepts what Redis decided.  This needs two conditions   *)
(* that the code does not enforce: a student can take a course in one      *)
(* round only, and a client does not repeat a request after its result     *)
(* has expired.  Without the first, the run selection_two_rounds shows a   *)
(* decision that MySQL refuses for ever.                                   *)
(***************************************************************************)

\* No student is eligible for one course in two rounds.
OneRoundPerCourse ==
    \A k, l \in Accounts, c, d \in Classes :
      <<k, c>> \in Eligible /\ <<l, d>> \in Eligible /\ k[2] = l[2] /\ CourseOf[c] = CourseOf[d] => k = l

\* A decision was eligible, and no request is decided twice.
DecisionInv ==
    \A a \in Apps : Decided(a) =>
      /\ <<Acct(a), Class(a)>> \in Eligible
      /\ \A b \in Apps \ {a} : Decided(b) => ~SameRequest(a, b)

\* A commit decides an eligible class for a request that is new.
LEMMA CommitDecision ==
    ASSUME ~LateRetry, LedgerInv, DecisionInv, NEW k \in Accounts, NEW q \in Requests, NEW c \in Classes,
           NEW a \in Apps, InTime(k, q), CommitSelection(k, q, c, a)
    PROVE  DecisionInv'
  <1>1. /\ app' = [app EXCEPT ![a] = [acct |-> k, request |-> q, class |-> c]]
        /\ app[a] = NoApp /\ <<k, c>> \in Eligible /\ result[k][q] = NoApp
    BY DEF CommitSelection, CommitAllowed, Decided, AlreadyDecided
  <1>2. \A b \in Apps : Decided(b) => Acct(b) # k \/ app[b].request # q
    BY <1>1 DEF InTime
  <1>3. /\ app'[a].class = c /\ app'[a].acct = k /\ app'[a].request = q
        /\ \A b \in Apps \ {a} : app'[b] = app[b]
    BY <1>1 DEF LedgerInv, TypeOK
  <1> QED
    BY <1>1, <1>2, <1>3 DEF DecisionInv, Decided, Acct, Class, SameRequest

\* DecisionInv is an invariant when results are not outlived.
LEMMA DecisionInvariant ==
    ASSUME ~LateRetry
    PROVE  Spec => []DecisionInv
  <1>1. Init => DecisionInv
    BY DEF Init, DecisionInv, Decided
  <1>2. LedgerInv /\ DecisionInv /\ [Next]_vars => DecisionInv'
    <2> SUFFICES ASSUME LedgerInv, DecisionInv, [Next]_vars PROVE DecisionInv'
      OBVIOUS
    <2>1. CASE Select
      BY <2>1, CommitDecision DEF Select, SelectCourse
    <2>2. CASE ~Select
      <3>1. app' = app
        BY <2>2, WindowSteps DEF Next, Deliver, ClearPersisted, Acknowledge, DropEnrollment, ReleaseDroppedEnrollment,
                    CompleteRepair, Save, SaveSelectionResults, ExpireResult, vars
      <3> QED
        BY <3>1 DEF DecisionInv, Decided, Acct, Class, SameRequest
    <2> QED
      BY <2>1, <2>2
  <1> QED
    BY <1>1, <1>2, LedgerInvariant, PTL DEF Spec

\* A decision that was not dropped holds its resources.
LEMMA NotDroppedIsHeld ==
    ASSUME LedgerInv, NEW a \in Apps, Decided(a), row[a] # "dropped"
    PROVE  releases[a] = 0 /\ a \in Held
  <1>1. releases[a] \in Nat /\ ~(releases[a] > 0)
    BY DEF LedgerInv, TypeOK, Provenance
  <1>2. releases[a] = 0
    BY <1>1
  <1> QED
    BY <1>2 DEF Held

\* What is in flight is decided and holds its resources.
LEMMA UnsavedIsHeld ==
    ASSUME LedgerInv, NEW a \in Unsaved
    PROVE  a \in Apps /\ row[a] = "none" /\ Decided(a) /\ a \in Held
  <1>1. a \in Apps /\ row[a] = "none" /\ Decided(a)
    BY DEF Unsaved, LedgerInv, Provenance
  <1> QED
    BY <1>1, NotDroppedIsHeld

\* One more decision of an account fits into its quota row.
LEMMA QuotaSuffices ==
    ASSUME LedgerInv, QuotaConservation, NEW a \in Unsaved
    PROVE  QuotaFits({a})
  <1>1. a \in Apps /\ row[a] = "none" /\ Decided(a) /\ a \in Held
    BY UnsavedIsHeld
  <1>2. PICK k \in Accounts : k = Acct(a)
    BY <1>1, DecidedType DEF LedgerInv
  <1>3. Mine({a}, k) = {a} /\ \A l \in Accounts \ {k} : Mine({a}, l) = {}
    BY <1>2 DEF Mine
  <1>4. PICK E \in SUBSET Apps, H \in SUBSET Apps : E = EnrolledBy(k) /\ H = HeldBy(k)
    BY AccountSets
  <1>5. a \notin E /\ E \cup {a} \subseteq H
    <2>1. \A b \in Enrolled : b \in Apps /\ Decided(b) /\ row[b] # "dropped"
      BY DEF LedgerInv, Provenance, Enrolled
    <2>2. Enrolled \subseteq Held
      BY <2>1, NotDroppedIsHeld
    <2> QED
      BY <1>1, <1>2, <1>4, <2>2 DEF EnrolledBy, Enrolled, HeldBy
  <1>6. PICK R \in SUBSET Apps : R = H \ (E \cup {a})
    OBVIOUS
  <1>7. H = (E \cup {a}) \cup R /\ (E \cup {a}) \cap R = {} /\ E \cap {a} = {} /\ {a} \in SUBSET Apps
    BY <1>1, <1>5, <1>6
  <1>8. CreditSum(H) = CreditSum(E \cup {a}) + CreditSum(R) /\ CreditSum(E \cup {a}) = CreditSum(E) + CreditSum({a})
    BY <1>7, SumAdd
  <1>9. Cardinality(E \cup {a}) = Cardinality(E) + 1 /\ Cardinality(E \cup {a}) <= Cardinality(H)
    BY <1>1, <1>5, SumType, FS_AddElement, FS_Subset
  <1>10. Cardinality({a}) = 1
    BY FS_Singleton
  <1>11. /\ CreditSum(E) \in Nat /\ CreditSum({a}) \in Nat /\ CreditSum(R) \in Nat /\ CreditSum(H) \in Nat
         /\ Cardinality(E) \in Nat /\ Cardinality(H) \in Nat
         /\ credit[k] \in Nat /\ course[k] \in Nat
    BY <1>7, SumType DEF LedgerInv, TypeOK
  <1>12. /\ usedCredits[k] = CreditSum(E) /\ usedCourses[k] = Cardinality(E)
         /\ credit[k] + CreditSum(H) = CreditLimit[k] /\ course[k] + Cardinality(H) = CourseLimit[k]
    BY <1>4 DEF QuotaConservation
  <1>13. usedCredits[k] + CreditSum({a}) <= CreditLimit[k]
    BY <1>8, <1>11, <1>12
  <1>14. usedCourses[k] + Cardinality({a}) <= CourseLimit[k]
    BY <1>9, <1>10, <1>11, <1>12
  <1> QED
    BY <1>3, <1>13, <1>14 DEF QuotaFits

\* Its keys are free.
LEMMA KeysSuffice ==
    ASSUME OneRoundPerCourse, LedgerInv, HoldInv, DecisionInv, NEW a \in Unsaved
    PROVE  KeysFree({a})
  <1>1. a \in Apps /\ row[a] = "none" /\ Decided(a) /\ a \in Held
    BY UnsavedIsHeld
  <1>2. ASSUME NEW b \in Apps \ {a}, row[b] # "none"
        PROVE  ~SameRequest(a, b)
    BY <1>1, <1>2 DEF DecisionInv, LedgerInv, Provenance
  <1>3. ASSUME NEW b \in Apps \ {a}, row[b] = "enrolled"
        PROVE  ~SameActiveKey(a, b)
    <2>1. Decided(b) /\ b \in Held
      BY <1>3 DEF LedgerInv, Provenance, TypeOK, Held
    <2>2. /\ Acct(a) \in Accounts /\ Acct(b) \in Accounts /\ Class(a) \in Classes /\ Class(b) \in Classes
          /\ <<Acct(a), Class(a)>> \in Eligible /\ <<Acct(b), Class(b)>> \in Eligible
      BY <1>1, <2>1, DecidedType DEF LedgerInv, DecisionInv
    <2>3. Acct(a) = Acct(b) => Course(a) # Course(b)
      BY <1>1, <2>1 DEF HoldInv, NoClash
    <2> QED
      BY <2>2, <2>3 DEF OneRoundPerCourse, SameActiveKey, Course
  <1> QED
    BY <1>2, <1>3 DEF KeysFree

\* Neither the quota guard nor a unique key of MySQL ever refuses a decision
\* that Redis took, when no student is eligible for a course in two rounds and
\* no request is repeated after its result has expired.
THEOREM NeverRejected ==
    ASSUME OneRoundPerCourse, ~LateRetry
    PROVE  Spec => []ProjectionNeverRejects
  <1>1. LedgerInv /\ QuotaConservation /\ HoldInv /\ DecisionInv => ProjectionNeverRejects
    BY QuotaSuffices, KeysSuffice DEF ProjectionNeverRejects
  <1> QED
    BY <1>1, LedgerInvariant, QuotasBalance, HoldInvariant, DecisionInvariant, PTL

-----------------------------------------------------------------------------
\* Until its marker expires, a dropped enrollment gives its resources back at
\* most once, and its repair task is closed only after that.
THEOREM ReleasedOnce == Spec => []ReleasedAtMostOnce
  <1>1. Init => ReleasedAtMostOnce
    BY DEF Init, ReleasedAtMostOnce
  <1>2. LedgerInv /\ ReleasedAtMostOnce /\ [Next]_vars => ReleasedAtMostOnce'
    <2> SUFFICES ASSUME LedgerInv, ReleasedAtMostOnce, [Next]_vars PROVE ReleasedAtMostOnce'
      OBVIOUS
    <2>1. ASSUME NEW a \in Apps, ReleaseDroppedEnrollment(a) PROVE ReleasedAtMostOnce'
      <3>1. releases[a] = 0 /\ releases' = [releases EXCEPT ![a] = @ + 1] /\ repair' = repair
        BY <2>1 DEF LedgerInv, TypeOK, Provenance, ReleaseDroppedEnrollment, AlreadyReleased, mysqlVars
      <3> QED
        BY <3>1 DEF LedgerInv, TypeOK, ReleasedAtMostOnce
    <2>2. ASSUME NEW a \in Apps, DropEnrollment(a) PROVE ReleasedAtMostOnce'
      BY <2>2 DEF LedgerInv, TypeOK, DropEnrollment, ReleasedAtMostOnce
    <2>3. ASSUME NEW a \in Apps, CompleteRepair(a) PROVE ReleasedAtMostOnce'
      BY <2>3 DEF LedgerInv, TypeOK, CompleteRepair, ReleasedAtMostOnce
    <2>4. CASE \/ Stamp \/ \E r \in Rounds : CloseRound(r)
               \/ \E a \in Apps : Deliver(a) \/ ClearPersisted(a) \/ Acknowledge(a)
               \/ Select \/ Save
               \/ \E k \in Accounts, q \in Requests : ExpireResult(k, q)
               \/ UNCHANGED vars
      <3>1. UNCHANGED <<releases, repair>>
        BY <2>4, WindowSteps DEF Deliver, ClearPersisted, Acknowledge, Select, SelectCourse, CommitSelection,
                    Save, SaveSelectionResults, ExpireResult, vars, mysqlVars
      <3> QED
        BY <3>1 DEF ReleasedAtMostOnce
    <2> QED
      BY <2>1, <2>2, <2>3, <2>4 DEF Next
  <1> QED
    BY <1>1, <1>2, LedgerInvariant, PTL DEF Spec

-----------------------------------------------------------------------------
(***************************************************************************)
(* Selection implements Registrar.  The counters of Redis are, by the      *)
(* balances, what the holders leave free, and its indexes, by HoldInv, say *)
(* which courses and cells the holders occupy: what the commit script      *)
(* reads from them is the condition the registrar states about holders.    *)
(***************************************************************************)

\* The stage of an application in each of the cases the keys and rows tell apart.
LEMMA StageCases ==
    ASSUME LedgerInv, NEW a \in Apps
    PROVE  /\ StageOf[a] = "none" <=> ~Decided(a)
           /\ StageOf[a] = "returned" <=> releases[a] > 0
           /\ StageOf[a] = "granted" <=> Decided(a) /\ row[a] = "none"
           /\ StageOf[a] = "enrolled" <=> row[a] = "enrolled"
           /\ StageOf[a] = "dropped" <=> row[a] = "dropped" /\ ~(releases[a] > 0)
           /\ StageOf[a] \in {"none", "granted", "enrolled", "dropped", "returned"}
  <1>1. /\ row[a] \in {"none", "enrolled", "dropped"}
        /\ row[a] # "none" => Decided(a)
        /\ releases[a] > 0 => row[a] = "dropped"
    BY DEF LedgerInv, TypeOK, Provenance
  <1>2. StageOf[a] = IF ~Decided(a) THEN "none"
                     ELSE IF releases[a] > 0 THEN "returned"
                     ELSE IF row[a] = "none" THEN "granted"
                     ELSE row[a]
    BY DEF StageOf
  <1> QED
    BY <1>1, <1>2

\* The registrar's holders are the applications that hold Redis resources.
LEMMA HoldersAreHeld ==
    ASSUME LedgerInv
    PROVE  /\ Registrar!Holders = Held
           /\ \A c \in Classes : Registrar!InClass(c) = HeldIn(c)
           /\ \A k \in Accounts : Registrar!ByAcct(k) = HeldBy(k)
  <1>1. ASSUME NEW a \in Apps
        PROVE  StageOf[a] \in {"granted", "enrolled", "dropped"} <=> a \in Held
    <2>1. releases[a] \in Nat /\ (row[a] # "none" => Decided(a)) /\ (releases[a] > 0 => row[a] = "dropped")
      BY DEF LedgerInv, TypeOK, Provenance
    <2>2. a \in Held <=> Decided(a) /\ ~(releases[a] > 0)
      BY <2>1 DEF Held
    <2> QED
      BY <2>1, <2>2, StageCases
  <1>2. Registrar!Holders = Held
    BY <1>1 DEF Registrar!Holders, Held
  <1> QED
    BY <1>2 DEF Registrar!InClass, Registrar!ByAcct, HeldIn, HeldBy, Class, Acct

\* Cardinality means the same in both modules.
LEMMA CardinalityIsCardinality ==
    ASSUME NEW S
    PROVE  Registrar!Cardinality(S) = Cardinality(S)
  BY DEF Registrar!Cardinality, Cardinality

\* Both count credits in the same way.
LEMMA CreditsAreSums ==
    ASSUME NEW S
    PROVE  Registrar!CreditsHeld(S) = CreditSum(S)
  <1>1. Registrar!CreditsHeld(S) = Registrar!Cardinality(CreditUnits(S))
    BY DEF Registrar!CreditsHeld, CreditUnits, Credits, Class
  <1> QED
    BY <1>1, CardinalityIsCardinality DEF CreditSum

\* Counters above zero leave room among the holders.
LEMMA CommitHasRoom ==
    ASSUME LedgerInv, QuotaConservation, NEW k \in Accounts, NEW c \in Classes, CommitAllowed(k, c)
    PROVE  Registrar!RoomFor(k, c)
  <1>1. seat[c] > 0 /\ credit[k] >= CreditsOf[c] /\ course[k] > 0
    BY DEF CommitAllowed, Affordable
  <1>2. /\ seat[c] \in Nat /\ credit[k] \in Nat /\ course[k] \in Nat
        /\ Capacity[c] \in Nat /\ CreditsOf[c] \in Nat /\ CreditLimit[k] \in Nat /\ CourseLimit[k] \in Nat
    BY ConstantsAssumption DEF LedgerInv, TypeOK, ConstantsAssumption
  <1>3. Cardinality(Registrar!InClass(c)) < Capacity[c]
    <2>1. seat[c] + Cardinality(HeldIn(c)) = Capacity[c] /\ Cardinality(HeldIn(c)) \in Nat
      BY HeldFinite DEF LedgerInv, SeatConservation
    <2>2. Cardinality(HeldIn(c)) < Capacity[c]
      BY <1>1, <1>2, <2>1
    <2> QED
      BY <2>2, HoldersAreHeld
  <1>4. /\ course[k] + Cardinality(HeldBy(k)) = CourseLimit[k] /\ Cardinality(HeldBy(k)) \in Nat
        /\ credit[k] + CreditSum(HeldBy(k)) = CreditLimit[k] /\ CreditSum(HeldBy(k)) \in Nat
    BY AccountSets DEF QuotaConservation
  <1>5. Cardinality(HeldBy(k)) < CourseLimit[k] /\ CreditSum(HeldBy(k)) + CreditsOf[c] <= CreditLimit[k]
    BY <1>1, <1>2, <1>4
  <1>6. Registrar!ByAcct(k) = HeldBy(k)
    BY HoldersAreHeld
  <1>7. /\ Registrar!Cardinality(Registrar!InClass(c)) = Cardinality(Registrar!InClass(c))
        /\ Registrar!Cardinality(HeldBy(k)) = Cardinality(HeldBy(k))
        /\ Registrar!CreditsHeld(HeldBy(k)) = CreditSum(HeldBy(k))
    BY CardinalityIsCardinality, CreditsAreSums
  <1> QED
    BY <1>3, <1>5, <1>6, <1>7 DEF Registrar!RoomFor

\* A free course and free cells clash with no holder.
LEMMA CommitIsCompatible ==
    ASSUME LedgerInv, HoldInv, NEW k \in Accounts, NEW c \in Classes, CommitAllowed(k, c)
    PROVE  Registrar!Compatible(k, c)
  <1>1. /\ selected[k][CourseOf[c]] = NoApp /\ \A t \in SlotsOf[c] : booked[k][t] = 0
        /\ NoApp \notin Apps /\ SlotsOf[c] \subseteq Slots
    BY ConstantsAssumption DEF CommitAllowed, SlotFree, ConstantsAssumption
  <1>2. ASSUME NEW b \in HeldBy(k)
        PROVE  CourseOf[app[b].class] # CourseOf[c] /\ SlotsOf[app[b].class] \cap SlotsOf[c] = {}
    <2>1. b \in Held /\ b \in Apps /\ Acct(b) = k
      BY DEF HeldBy, Held
    <2>2. selected[k][CourseOf[Class(b)]] = b
      BY <2>1 DEF HoldInv, Course
    <2>3. ASSUME NEW t \in SlotsOf[Class(b)], t \in SlotsOf[c] PROVE FALSE
      <3>1. t \in Slots /\ Occupied(k, t)
        BY <1>1, <2>1, <2>3 DEF Occupied
      <3>2. booked[k][t] = 1
        BY <3>1 DEF HoldInv
      <3> QED
        BY <1>1, <2>3, <3>2
    <2> QED
      BY <1>1, <2>1, <2>2, <2>3 DEF Class
  <1> QED
    BY <1>2, HoldersAreHeld DEF Registrar!Compatible

\* The commit script grants the application.
LEMMA CommitGrants ==
    ASSUME LedgerInv, QuotaConservation, HoldInv, NEW k \in Accounts, NEW q \in Requests, NEW c \in Classes,
           NEW a \in Apps, CommitSelection(k, q, c, a)
    PROVE  Registrar!Grant(a)
  <1>1. /\ ~Decided(a) /\ InWindow(k, q, c) /\ CommitAllowed(k, c)
        /\ app' = [app EXCEPT ![a] = [acct |-> k, request |-> q, class |-> c]]
        /\ stamped' = {call \in stamped : call[1] # k \/ call[2] # q}
        /\ UNCHANGED <<accepting, row, releases>>
    BY DEF CommitSelection, mysqlVars
  <1>2. StageOf[a] = "none"
    BY <1>1, StageCases
  <1>3. StageOf' = [StageOf EXCEPT ![a] = "granted"]
    <2>1. ~(releases[a] > 0) /\ row[a] = "none"
      BY <1>1 DEF LedgerInv, TypeOK, Provenance
    <2>2. app'[a] # NoApp /\ \A b \in Apps \ {a} : app'[b] = app[b]
      BY <1>1, CommitDecides DEF LedgerInv, TypeOK
    <2> QED
      BY <1>1, <2>1, <2>2 DEF StageOf, Decided
  <1>4. (k[1] \in accepting \/ <<k, q, c>> \in stamped) /\ <<k, c>> \in Eligible
    BY <1>1 DEF InWindow, CommitAllowed
  <1>5. Registrar!RoomFor(k, c) /\ Registrar!Compatible(k, c)
    BY <1>1, CommitHasRoom, CommitIsCompatible
  <1> QED
    BY <1>1, <1>2, <1>3, <1>4, <1>5 DEF Registrar!Grant, Accounts

\* The batch transaction enrolls what no earlier one has inserted, if anything.
LEMMA SaveEnrolls ==
    ASSUME LedgerInv, NEW B \in SUBSET Apps, SaveSelectionResults(B)
    PROVE  \/ \E S \in SUBSET {a \in Apps : StageOf[a] = "granted"} : Registrar!Enroll(S)
           \/ UNCHANGED <<accepting, stamped, app, StageOf>>
  <1> DEFINE S == Claimed(B)
  <1>1. /\ KeysFree(S)
        /\ row' = [a \in Apps |-> IF a \in S THEN "enrolled" ELSE row[a]]
        /\ UNCHANGED <<accepting, stamped, app, releases>>
        /\ \A a \in B : entry[a] = "pel"
    BY DEF SaveSelectionResults, windowVars, redisVars
  <1>2. S \in SUBSET Apps /\ \A a \in S : Decided(a) /\ row[a] = "none" /\ ~(releases[a] > 0)
    BY <1>1 DEF Claimed, LedgerInv, Provenance
  <1> HIDE DEF S
  <1>3. S \in SUBSET {a \in Apps : StageOf[a] = "granted"}
    BY <1>2, StageCases
  <1>4. StageOf' = [a \in Apps |-> IF a \in S THEN "enrolled" ELSE StageOf[a]]
    BY <1>1, <1>2 DEF StageOf, Decided
  <1>5. CASE S = {}
    <2>1. StageOf' = StageOf
      BY <1>4, <1>5 DEF StageOf
    <2> QED
      BY <1>1, <2>1
  <1>6. CASE S # {}
    <2>1. ASSUME NEW a \in S, NEW b \in Apps \ {a}
          PROVE  /\ b \in S \/ StageOf[b] = "enrolled" => ~SameActiveKey(a, b)
                 /\ b \in S \/ StageOf[b] \in {"enrolled", "dropped", "returned"} => ~SameRequest(a, b)
      <3>1. /\ StageOf[b] = "enrolled" => row[b] = "enrolled"
            /\ StageOf[b] \in {"enrolled", "dropped", "returned"} => row[b] # "none"
        BY StageCases DEF LedgerInv, Provenance
      <3> QED
        BY <1>1, <3>1 DEF KeysFree
    <2>2. Registrar!Enroll(S)
      BY <1>1, <1>4, <1>6, <2>1
         DEF Registrar!Enroll, Registrar!SameCourse, Registrar!SameRequest, SameActiveKey, SameRequest,
             Acct, Course, Class
    <2> QED
      BY <1>3, <2>2
  <1> QED
    BY <1>5, <1>6

\* The drop transaction drops, and the release script returns, the application.
LEMMA DropAndReturn ==
    ASSUME LedgerInv, NEW a \in Apps
    PROVE  /\ DropEnrollment(a) => Registrar!Drop(a)
           /\ ReleaseDroppedEnrollment(a) => Registrar!Return(a)
  <1>1. releases[a] \in Nat /\ (releases[a] > 0 <=> a \in marker)
        /\ (row[a] # "none" => Decided(a)) /\ (releases[a] > 0 => row[a] = "dropped")
    BY DEF LedgerInv, TypeOK, Provenance
  <1>2. ASSUME DropEnrollment(a) PROVE Registrar!Drop(a)
    <2>1. row[a] = "enrolled" /\ row' = [row EXCEPT ![a] = "dropped"] /\ UNCHANGED <<accepting, stamped, app, releases>>
      BY <1>2 DEF DropEnrollment, windowVars, redisVars
    <2>2. row'[a] = "dropped" /\ \A b \in Apps \ {a} : row'[b] = row[b]
      BY <2>1 DEF LedgerInv, TypeOK
    <2>3. StageOf' = [StageOf EXCEPT ![a] = "dropped"]
      BY <1>1, <2>1, <2>2 DEF StageOf, Decided
    <2> QED
      BY <2>1, <2>3, StageCases DEF Registrar!Drop
  <1>3. ASSUME ReleaseDroppedEnrollment(a) PROVE Registrar!Return(a)
    <2>1. /\ row[a] = "dropped" /\ a \notin marker /\ releases' = [releases EXCEPT ![a] = @ + 1]
          /\ UNCHANGED <<accepting, stamped, app, row>>
      BY <1>3 DEF ReleaseDroppedEnrollment, AlreadyReleased, windowVars, mysqlVars
    <2>2. releases'[a] > 0 /\ \A b \in Apps \ {a} : releases'[b] = releases[b]
      BY <1>1, <2>1 DEF LedgerInv, TypeOK
    <2>3. StageOf' = [StageOf EXCEPT ![a] = "returned"]
      BY <1>1, <2>1, <2>2 DEF StageOf, Decided
    <2> QED
      BY <1>1, <2>1, <2>3, StageCases DEF Registrar!Return
  <1> QED
    BY <1>2, <1>3

\* Selection is the registrar, for every number of rounds, students, classes
\* and applications and every timetable: no order of delayed calls, commits,
\* redeliveries, drops, releases and repairs shows a grant to who had not asked
\* while the round was open, or beyond what the holders leave free when it is
\* given, an enrollment without a grant, or resources returned twice.
THEOREM RefinesRegistrar == Spec => ImplementsRegistrar
  <1>1. Init => Registrar!Init
    <2>1. Init => StageOf = [a \in Apps |-> "none"]
      BY DEF Init, StageOf, Decided
    <2> QED
      BY <2>1 DEF Init, Registrar!Init
  <1>2. LedgerInv /\ QuotaConservation /\ HoldInv /\ [Next]_vars => [Registrar!Next]_(Registrar!vars)
    <2> SUFFICES ASSUME LedgerInv, QuotaConservation, HoldInv, [Next]_vars
                 PROVE  [Registrar!Next]_(Registrar!vars)
      OBVIOUS
    <2>1. CASE Select
      BY <2>1, CommitGrants DEF Select, SelectCourse, Registrar!Next
    <2>2. CASE Save
      BY <2>2, SaveEnrolls DEF Save, Registrar!Next, Registrar!vars
    <2>3. CASE \E a \in Apps : DropEnrollment(a) \/ ReleaseDroppedEnrollment(a)
      BY <2>3, DropAndReturn DEF Registrar!Next
    <2>4. ASSUME NEW r \in Rounds, CloseRound(r) PROVE Registrar!Next
      <3>1. r \in accepting /\ accepting' = accepting \ {r} /\ UNCHANGED <<stamped, app, row, releases>>
        BY <2>4 DEF CloseRound, mysqlVars
      <3>2. StageOf' = StageOf
        BY <3>1 DEF StageOf, Decided
      <3> QED
        BY <3>1, <3>2 DEF Registrar!Next, Registrar!Close
    <2>5. CASE \/ \E a \in Apps : Deliver(a) \/ ClearPersisted(a) \/ Acknowledge(a) \/ CompleteRepair(a)
               \/ \E k \in Accounts, q \in Requests : ExpireResult(k, q)
               \/ UNCHANGED vars
      <3>1. UNCHANGED <<accepting, stamped, app, row, releases>>
        BY <2>5 DEF Deliver, ClearPersisted, Acknowledge, CompleteRepair, ExpireResult,
                    vars, windowVars, redisVars, mysqlVars
      <3>2. StageOf' = StageOf
        BY <3>1 DEF StageOf, Decided
      <3> QED
        BY <3>1, <3>2 DEF Registrar!vars
    <2>6. ASSUME NEW call \in Delayed, CompleteSelected(call[1], call[2], call[3]) PROVE Registrar!Next
      <3>1. /\ call[1][1] \in accepting
            /\ stamped' = stamped \cup {<<call[1], call[2], call[3]>>}
            /\ UNCHANGED <<accepting, app, row, releases>>
        BY <2>6 DEF CompleteSelected, AdmissionAllows, mysqlVars
      <3>2. StageOf' = StageOf
        BY <3>1 DEF StageOf, Decided
      <3>3. Registrar!Ask(call[1], call[2], call[3])
        BY <3>1, <3>2 DEF Registrar!Ask
      <3> QED
        BY <3>3 DEF Registrar!Next
    <2> QED
      BY <2>1, <2>2, <2>3, <2>4, <2>5, <2>6 DEF Next, Stamp
  <1> QED
    BY <1>1, <1>2, LedgerInvariant, QuotasBalance, HoldInvariant, PTL DEF Spec, ImplementsRegistrar, Registrar!Spec

=============================================================================
