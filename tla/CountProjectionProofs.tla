----------------------- MODULE CountProjectionProofs -----------------------
(***************************************************************************)
(* Proofs about CountProjection, for every number of classes, seats, rows, *)
(* jobs, batch sizes and faults, overlapping jobs included.                *)
(*                                                                         *)
(* The inductive invariant is TypeOK /\ CountConservation.  TypeOK says    *)
(* that the rows a job has locked are open and that no two jobs lock the   *)
(* same row, so that a batch, when it is projected, moves from the open    *)
(* rows into the count and nowhere else.                                   *)
(*                                                                         *)
(* That the next batch fits needs FitInv on top of it; see there.          *)
(***************************************************************************)
EXTENDS CountProjection, FiniteSetTheorems, NaturalsInduction, WellFoundedInduction, TLAPS

CountInv == TypeOK /\ CountConservation

-----------------------------------------------------------------------------
(***************************************************************************)
(* Facts about sets of rows.                                               *)
(***************************************************************************)

\* A set of rows is finite, and so is every selection from it.
LEMMA RowsFinite ==
    ASSUME NEW S \in SUBSET Rows, NEW c, NEW n
    PROVE  /\ IsFiniteSet(Of(S, c, n))
           /\ Cardinality(Of(S, c, n)) \in Nat
           /\ Net(S, c) \in Int
  <1>1. IsFiniteSet(Rows)
    BY ProjectionAssumption, FS_Interval DEF ProjectionAssumption, Rows
  <1>2. \A k : Of(S, c, k) \in SUBSET Rows
    BY DEF Of
  <1>3. \A k : IsFiniteSet(Of(S, c, k)) /\ Cardinality(Of(S, c, k)) \in Nat
    BY <1>1, <1>2, FS_Subset, FS_CardinalityType
  <1> QED
    BY <1>3 DEF Net

\* A selection from a smaller set of rows is a smaller selection.
LEMMA OfDifference ==
    ASSUME NEW S \in SUBSET Rows, NEW T \in SUBSET S, NEW c, NEW n
    PROVE  Cardinality(Of(S \ T, c, n)) = Cardinality(Of(S, c, n)) - Cardinality(Of(T, c, n))
  <1>1. Of(S \ T, c, n) = Of(S, c, n) \ Of(T, c, n)
    BY DEF Of
  <1>2. Of(S, c, n) \cap Of(T, c, n) = Of(T, c, n)
    BY DEF Of
  <1>3. IsFiniteSet(Of(S, c, n))
    BY RowsFinite
  <1>4. Cardinality(Of(S, c, n) \ Of(T, c, n))
          = Cardinality(Of(S, c, n)) - Cardinality(Of(S, c, n) \cap Of(T, c, n))
    BY <1>3, FS_Difference
  <1> QED
    BY <1>1, <1>2, <1>4

\* What a batch takes from the open rows it takes from their sum
\* (ProjectPendingEnrollmentCounts).
LEMMA NetDifference ==
    ASSUME NEW S \in SUBSET Rows, NEW T \in SUBSET S, NEW c
    PROVE  Net(S \ T, c) = Net(S, c) - Net(T, c)
  <1> DEFINE s1 == Cardinality(Of(S, c, 1))
             s2 == Cardinality(Of(S, c, -1))
             t1 == Cardinality(Of(T, c, 1))
             t2 == Cardinality(Of(T, c, -1))
             d1 == Cardinality(Of(S \ T, c, 1))
             d2 == Cardinality(Of(S \ T, c, -1))
  <1>1. d1 = s1 - t1
    BY OfDifference
  <1>2. d2 = s2 - t2
    BY OfDifference
  <1>3. s1 \in Int /\ s2 \in Int
    BY RowsFinite
  <1>4. t1 \in Int /\ t2 \in Int
    <2>1. T \in SUBSET Rows
      OBVIOUS
    <2> QED
      BY <2>1, RowsFinite
  <1>5. Net(S \ T, c) = d1 - d2 /\ Net(S, c) = s1 - s2 /\ Net(T, c) = t1 - t2
    BY DEF Net
  <1> HIDE DEF s1, s2, t1, t2, d1, d2
  <1> QED
    BY <1>1, <1>2, <1>3, <1>4, <1>5

\* A set that gains one row grows by one.
LEMMA OneMore ==
    ASSUME NEW S, IsFiniteSet(S), NEW i, i \notin S
    PROVE  Cardinality(S \cup {i}) = Cardinality(S) + 1
  BY FS_AddElement

\* A set that loses one row shrinks by one.
LEMMA OneLess ==
    ASSUME NEW S, IsFiniteSet(S), NEW i \in S
    PROVE  Cardinality(S \ {i}) = Cardinality(S) - 1
  BY FS_RemoveElement

-----------------------------------------------------------------------------
(***************************************************************************)
(* The three sizes that CountConservation compares.                        *)
(***************************************************************************)

Opened(c) == Cardinality(Of(InStage("open"), c, 1))
Closed(c) == Cardinality(Of(InStage("open"), c, -1))
Dropping(c) == Cardinality(Of(InStage("inserted"), c, -1))

\* They are numbers, now and after a step.
LEMMA SizesAreNumbers ==
    ASSUME NEW c
    PROVE  /\ Opened(c) \in Nat /\ Closed(c) \in Nat /\ Dropping(c) \in Nat
           /\ \A x, n : IsFiniteSet(Of(InStage(x), c, n))
  <1>1. \A x : InStage(x) \in SUBSET Rows
    BY DEF InStage
  <1> QED
    BY <1>1, RowsFinite DEF Opened, Closed, Dropping

\* CountConservation in these terms.
LEMMA ConservationSizes ==
    CountConservation <=>
      \A c \in Classes :
        selectedCount[c] + (Opened(c) - Closed(c)) = enrolled[c] + Dropping(c)
  BY DEF CountConservation, Net, InForce, Opened, Closed, Dropping

\* A step that leaves enrolled, the count and the three sizes of every class
\* alone keeps the sum.
LEMMA SameSizes ==
    ASSUME CountConservation,
           UNCHANGED <<enrolled, selectedCount>>,
           \A c \in Classes :
             /\ Opened(c)' = Opened(c)
             /\ Closed(c)' = Closed(c)
             /\ Dropping(c)' = Dropping(c)
    PROVE  CountConservation'
  <1>1. CountConservation' <=>
          \A c \in Classes :
            selectedCount'[c] + (Opened(c)' - Closed(c)') = enrolled'[c] + Dropping(c)'
    BY DEF CountConservation, Net, InForce, Opened, Closed, Dropping
  <1> QED
    BY <1>1, ConservationSizes

-----------------------------------------------------------------------------
(***************************************************************************)
(* Types.                                                                  *)
(***************************************************************************)

\* The tables start empty.
LEMMA CountInit == Init => CountInv
  <1> SUFFICES ASSUME Init PROVE CountInv
    OBVIOUS
  <1>1. InStage("none") = Rows /\ InStage("open") = {} /\ InStage("inserted") = {}
    BY DEF Init, InStage
  <1>2. TypeOK
    <2>1. DOMAIN delta = {}
      BY DEF Init
    <2>2. DOMAIN delta = Rows \ InStage("none") /\ \A i \in DOMAIN delta : delta[i] \in Delta
      BY <1>1, <2>1
    <2>3. faults \in 0 .. MaxFaults
      BY ProjectionAssumption DEF Init, ProjectionAssumption
    <2>4. /\ batch \in [Projectors -> SUBSET InStage("open")]
          /\ \A p, q \in Projectors : p # q => batch[p] \cap batch[q] = {}
      BY DEF Init
    <2> QED
      BY <2>2, <2>3, <2>4 DEF Init, TypeOK
  <1>3. ASSUME NEW c \in Classes
        PROVE  selectedCount[c] + Net(InStage("open"), c) = InForce(c)
    <2>1. \A n : Of({}, c, n) = {}
      BY DEF Of
    <2>2. Cardinality({}) = 0
      BY FS_EmptySet
    <2>3. /\ Cardinality(Of(InStage("open"), c, 1)) = 0
          /\ Cardinality(Of(InStage("open"), c, -1)) = 0
          /\ Cardinality(Of(InStage("inserted"), c, -1)) = 0
      BY <1>1, <2>1, <2>2
    <2>4. selectedCount[c] = 0 /\ enrolled[c] = 0
      BY DEF Init
    <2> QED
      BY <2>3, <2>4 DEF Net, InForce
  <1> QED
    BY <1>2, <1>3 DEF CountInv, CountConservation

\* A row that is inserted has a delta, and is in nobody's batch.
LEMMA InsertTypes ==
    ASSUME TypeOK, NEW i \in Rows, NEW c \in Classes, NEW n \in {1, -1},
           InsertRow(i, c, n), UNCHANGED batch
    PROVE  /\ stage' \in [Rows -> {"none", "inserted", "void", "open", "done", "deleted"}]
           /\ DOMAIN delta' = Rows \ InStage("none")'
           /\ \A j \in DOMAIN delta' : delta'[j] \in Delta
           /\ batch' \in [Projectors -> SUBSET InStage("open")']
           /\ InStage("open")' = InStage("open")
           /\ InStage("inserted")' = InStage("inserted") \cup {i}
           /\ i \notin InStage("inserted") \cup InStage("open")
           /\ delta'[i] = [class |-> c, n |-> n]
           /\ \A j \in InStage("inserted") \cup InStage("open") : delta'[j] = delta[j]
  <1>1. stage' = [stage EXCEPT ![i] = "inserted"] /\ stage[i] = "none"
    BY DEF InsertRow
  <1>2. /\ InStage("open")' = InStage("open")
        /\ InStage("inserted")' = InStage("inserted") \cup {i}
        /\ InStage("none")' = InStage("none") \ {i}
        /\ i \in InStage("none")
        /\ i \notin InStage("inserted") \cup InStage("open")
        /\ InStage("inserted") \cup InStage("open") \subseteq Rows \ InStage("none")
    BY <1>1 DEF TypeOK, InStage
  <1>3. /\ DOMAIN delta' = DOMAIN delta \cup {i}
        /\ delta'[i] = [class |-> c, n |-> n]
        /\ \A j \in DOMAIN delta : j # i => delta'[j] = delta[j]
    BY DEF InsertRow
  <1>4. DOMAIN delta = Rows \ InStage("none")
    BY DEF TypeOK
  <1>5. DOMAIN delta' = Rows \ InStage("none")'
    BY <1>2, <1>3, <1>4
  <1>6. \A j \in DOMAIN delta' : delta'[j] \in Delta
    BY <1>3 DEF TypeOK, Delta
  <1>7. \A j \in InStage("inserted") \cup InStage("open") : delta'[j] = delta[j]
    BY <1>2, <1>3, <1>4
  <1>8. batch' \in [Projectors -> SUBSET InStage("open")']
    BY <1>2 DEF TypeOK
  <1>9. stage' \in [Rows -> {"none", "inserted", "void", "open", "done", "deleted"}]
    BY <1>1 DEF TypeOK
  <1> QED
    BY <1>2, <1>3, <1>5, <1>6, <1>7, <1>8, <1>9

-----------------------------------------------------------------------------
(***************************************************************************)
(* One lemma per kind of step.                                             *)
(***************************************************************************)

\* persistClaimedSelectionResults: the +1 row is not yet visible.
LEMMA InsertEnrollmentStep ==
    ASSUME CountInv, NEW i \in Rows, NEW c \in Classes, InsertEnrollment(i, c)
    PROVE  CountInv'
  <1> USE DEF CountInv
  <1>1. InsertRow(i, c, 1) /\ UNCHANGED <<enrolled, dropped, batch, selectedCount, faults, overlapped>>
    BY DEF InsertEnrollment
  <1>2. decided' \in [Classes -> Nat]
    BY DEF InsertEnrollment, TypeOK
  <1>3. TypeOK'
    BY <1>1, <1>2, InsertTypes DEF TypeOK
  <1>4. ASSUME NEW d \in Classes
        PROVE  Opened(d)' = Opened(d) /\ Closed(d)' = Closed(d) /\ Dropping(d)' = Dropping(d)
    <2>1. \A n : Of(InStage("open"), d, n)' = Of(InStage("open"), d, n)
      BY <1>1, InsertTypes DEF Of
    <2>2. delta'[i] # [class |-> d, n |-> -1]
      <3>1. delta'[i] = [class |-> c, n |-> 1]
        BY <1>1, InsertTypes
      <3> QED
        BY <3>1
    <2>3. /\ InStage("inserted")' = InStage("inserted") \cup {i}
          /\ i \notin InStage("inserted")
          /\ \A j \in InStage("inserted") : delta'[j] = delta[j]
      BY <1>1, InsertTypes
    <2>4. Of(InStage("inserted"), d, -1)' = Of(InStage("inserted"), d, -1)
      BY <2>2, <2>3 DEF Of
    <2> QED
      BY <2>1, <2>4 DEF Opened, Closed, Dropping
  <1>5. CountConservation'
    BY <1>1, <1>4, SameSizes
  <1> QED
    BY <1>3, <1>5

\* DropEnrollment: the enrollment stays in force until the commit.
LEMMA InsertDropStep ==
    ASSUME CountInv, NEW i \in Rows, NEW c \in Classes, InsertDrop(i, c)
    PROVE  CountInv'
  <1> USE DEF CountInv
  <1>1. InsertRow(i, c, -1) /\ UNCHANGED <<decided, dropped, batch, selectedCount, faults, overlapped>>
    BY DEF InsertDrop
  <1>2. enrolled' \in [Classes -> Nat]
    BY DEF InsertDrop, TypeOK
  <1>3. TypeOK'
    BY <1>1, <1>2, InsertTypes DEF TypeOK
  <1>4. ASSUME NEW d \in Classes
        PROVE  selectedCount'[d] + (Opened(d)' - Closed(d)') = enrolled'[d] + Dropping(d)'
    <2>1. \A n : Of(InStage("open"), d, n)' = Of(InStage("open"), d, n)
      BY <1>1, InsertTypes DEF Of
    <2>2. Opened(d)' = Opened(d) /\ Closed(d)' = Closed(d)
      BY <2>1 DEF Opened, Closed
    <2>3. selectedCount[d] + (Opened(d) - Closed(d)) = enrolled[d] + Dropping(d)
      BY ConservationSizes
    <2>4. enrolled[d] \in Nat /\ Opened(d) \in Nat /\ Closed(d) \in Nat /\ Dropping(d) \in Nat
      BY SizesAreNumbers DEF TypeOK
    <2>5. CASE d = c
      <3>1. Of(InStage("inserted"), d, -1)' = Of(InStage("inserted"), d, -1) \cup {i}
        BY <1>1, <2>5, InsertTypes DEF Of
      <3>2. i \notin Of(InStage("inserted"), d, -1)
        BY <1>1, InsertTypes DEF Of
      <3>3. Dropping(d)' = Dropping(d) + 1
        BY <3>1, <3>2, OneMore, SizesAreNumbers DEF Dropping
      <3>4. enrolled'[d] = enrolled[d] - 1
        BY <2>5 DEF InsertDrop, TypeOK
      <3> QED
        BY <1>1, <2>2, <2>3, <2>4, <3>3, <3>4
    <2>6. CASE d # c
      <3>1. Of(InStage("inserted"), d, -1)' = Of(InStage("inserted"), d, -1)
        <4>1. delta'[i] # [class |-> d, n |-> -1]
          <5>1. delta'[i] = [class |-> c, n |-> -1]
            BY <1>1, InsertTypes
          <5> QED
            BY <2>6, <5>1
        <4>2. /\ InStage("inserted")' = InStage("inserted") \cup {i}
              /\ i \notin InStage("inserted")
              /\ \A j \in InStage("inserted") : delta'[j] = delta[j]
          BY <1>1, InsertTypes
        <4> QED
          BY <4>1, <4>2 DEF Of
      <3>2. Dropping(d)' = Dropping(d)
        BY <3>1 DEF Dropping
      <3>3. enrolled'[d] = enrolled[d]
        BY <2>6 DEF InsertDrop, TypeOK
      <3> QED
        BY <1>1, <2>2, <2>3, <3>2, <3>3
    <2> QED
      BY <2>5, <2>6
  <1>5. CountConservation'
    BY <1>4 DEF CountConservation, Net, InForce, Opened, Closed, Dropping
  <1> QED
    BY <1>3, <1>5

\* What a row is when its transaction ends, and what the end changes.
LEMMA EndTypes ==
    ASSUME TypeOK, NEW i \in InStage("inserted"), NEW x \in {"open", "void"},
           stage' = [stage EXCEPT ![i] = x], UNCHANGED <<delta, batch>>
    PROVE  /\ stage' \in [Rows -> {"none", "inserted", "void", "open", "done", "deleted"}]
           /\ DOMAIN delta' = Rows \ InStage("none")'
           /\ \A j \in DOMAIN delta' : delta'[j] \in Delta
           /\ batch' \in [Projectors -> SUBSET InStage("open")']
           /\ InStage("inserted")' = InStage("inserted") \ {i}
           /\ x = "open" => InStage("open")' = InStage("open") \cup {i}
           /\ x = "void" => InStage("open")' = InStage("open")
           /\ i \notin InStage("open")
           /\ delta[i].class \in Classes /\ delta[i].n \in {1, -1}
           /\ delta[i] = [class |-> delta[i].class, n |-> delta[i].n]
  <1>1. stage' \in [Rows -> {"none", "inserted", "void", "open", "done", "deleted"}]
    BY DEF TypeOK, InStage
  <1>2. /\ i \in Rows /\ stage[i] = "inserted"
        /\ InStage("inserted")' = InStage("inserted") \ {i}
        /\ InStage("none")' = InStage("none")
        /\ i \notin InStage("none")
        /\ x = "open" => InStage("open")' = InStage("open") \cup {i}
        /\ x = "void" => InStage("open")' = InStage("open")
        /\ i \notin InStage("open")
    BY DEF TypeOK, InStage
  <1>3. i \in DOMAIN delta
    BY <1>2 DEF TypeOK
  <1>4. delta[i] \in Delta
    BY <1>3 DEF TypeOK
  <1>5. batch' \in [Projectors -> SUBSET InStage("open")']
    BY <1>2 DEF TypeOK
  <1>6. DOMAIN delta' = Rows \ InStage("none")' /\ \A j \in DOMAIN delta' : delta'[j] \in Delta
    BY <1>2 DEF TypeOK
  <1> QED
    BY <1>1, <1>2, <1>4, <1>5, <1>6 DEF Delta

\* How the three sizes change when row i leaves "inserted": only those of its
\* class and sign do.
LEMMA EndSizes ==
    ASSUME TypeOK, NEW i \in InStage("inserted"), NEW x \in {"open", "void"},
           stage' = [stage EXCEPT ![i] = x], UNCHANGED <<delta, batch>>,
           NEW d \in Classes
    PROVE  /\ Opened(d)' = IF x = "open" /\ delta[i] = [class |-> d, n |-> 1]
                             THEN Opened(d) + 1 ELSE Opened(d)
           /\ Closed(d)' = IF x = "open" /\ delta[i] = [class |-> d, n |-> -1]
                             THEN Closed(d) + 1 ELSE Closed(d)
           /\ Dropping(d)' = IF delta[i] = [class |-> d, n |-> -1]
                               THEN Dropping(d) - 1 ELSE Dropping(d)
  <1>1. /\ InStage("inserted")' = InStage("inserted") \ {i}
        /\ x = "open" => InStage("open")' = InStage("open") \cup {i}
        /\ x = "void" => InStage("open")' = InStage("open")
        /\ i \notin InStage("open")
    BY EndTypes
  <1>2. ASSUME NEW n
        PROVE  Cardinality(Of(InStage("open"), d, n)') =
                 IF x = "open" /\ delta[i] = [class |-> d, n |-> n]
                   THEN Cardinality(Of(InStage("open"), d, n)) + 1
                   ELSE Cardinality(Of(InStage("open"), d, n))
    <2>1. CASE x = "open" /\ delta[i] = [class |-> d, n |-> n]
      <3>1. Of(InStage("open"), d, n)' = Of(InStage("open"), d, n) \cup {i}
        BY <1>1, <2>1 DEF Of
      <3>2. i \notin Of(InStage("open"), d, n)
        BY <1>1 DEF Of
      <3> QED
        BY <2>1, <3>1, <3>2, OneMore, SizesAreNumbers
    <2>2. CASE ~(x = "open" /\ delta[i] = [class |-> d, n |-> n])
      <3>1. Of(InStage("open"), d, n)' = Of(InStage("open"), d, n)
        BY <1>1, <2>2 DEF Of
      <3> QED
        BY <2>2, <3>1
    <2> QED
      BY <2>1, <2>2
  <1>3. Dropping(d)' = IF delta[i] = [class |-> d, n |-> -1]
                         THEN Dropping(d) - 1 ELSE Dropping(d)
    <2>1. CASE delta[i] = [class |-> d, n |-> -1]
      <3>1. Of(InStage("inserted"), d, -1)' = Of(InStage("inserted"), d, -1) \ {i}
        BY <1>1 DEF Of
      <3>2. i \in Of(InStage("inserted"), d, -1)
        BY <2>1 DEF Of
      <3> QED
        BY <2>1, <3>1, <3>2, OneLess, SizesAreNumbers DEF Dropping
    <2>2. CASE delta[i] # [class |-> d, n |-> -1]
      <3>1. Of(InStage("inserted"), d, -1)' = Of(InStage("inserted"), d, -1)
        BY <1>1, <2>2 DEF Of
      <3> QED
        BY <2>2, <3>1 DEF Dropping
    <2> QED
      BY <2>1, <2>2
  <1>4. Opened(d)' = IF x = "open" /\ delta[i] = [class |-> d, n |-> 1]
                       THEN Opened(d) + 1 ELSE Opened(d)
    BY <1>2 DEF Opened
  <1>5. Closed(d)' = IF x = "open" /\ delta[i] = [class |-> d, n |-> -1]
                       THEN Closed(d) + 1 ELSE Closed(d)
    BY <1>2 DEF Closed
  <1> QED
    BY <1>3, <1>4, <1>5

\* The transaction of a row commits: the enrollment enters or leaves force
\* and its row becomes visible at the same time.
LEMMA CommitRowStep ==
    ASSUME CountInv, NEW i \in Rows, CommitRow(i)
    PROVE  CountInv'
  <1> USE DEF CountInv
  <1>1. /\ i \in InStage("inserted")
        /\ stage' = [stage EXCEPT ![i] = "open"]
        /\ UNCHANGED <<decided, delta, batch, selectedCount, faults, overlapped>>
    BY DEF CommitRow, InStage
  <1> DEFINE k == delta[i].class
  <1>2. k \in Classes /\ delta[i].n \in {1, -1} /\ delta[i] = [class |-> k, n |-> delta[i].n]
    BY <1>1, EndTypes
  <1>3. /\ enrolled' = IF delta[i].n = 1 THEN [enrolled EXCEPT ![k] = @ + 1] ELSE enrolled
        /\ dropped' = IF delta[i].n = 1 THEN dropped ELSE [dropped EXCEPT ![k] = @ + 1]
    BY DEF CommitRow, Counts
  <1>4. enrolled' \in [Classes -> Nat] /\ dropped' \in [Classes -> Nat]
    BY <1>2, <1>3 DEF TypeOK
  <1>5. TypeOK'
    BY <1>1, <1>4, EndTypes DEF TypeOK
  <1>6. ASSUME NEW d \in Classes
        PROVE  selectedCount'[d] + (Opened(d)' - Closed(d)') = enrolled'[d] + Dropping(d)'
    <2>1. /\ Opened(d)' = IF delta[i] = [class |-> d, n |-> 1] THEN Opened(d) + 1 ELSE Opened(d)
          /\ Closed(d)' = IF delta[i] = [class |-> d, n |-> -1] THEN Closed(d) + 1 ELSE Closed(d)
          /\ Dropping(d)' = IF delta[i] = [class |-> d, n |-> -1] THEN Dropping(d) - 1 ELSE Dropping(d)
      BY <1>1, EndSizes
    <2>2. selectedCount[d] + (Opened(d) - Closed(d)) = enrolled[d] + Dropping(d)
      BY ConservationSizes
    <2>3. /\ enrolled[d] \in Nat /\ Opened(d) \in Nat /\ Closed(d) \in Nat /\ Dropping(d) \in Nat
          /\ selectedCount[d] \in Nat
      BY SizesAreNumbers DEF TypeOK
    <2>4. selectedCount'[d] = selectedCount[d]
      BY <1>1
    <2>5. CASE k # d
      <3>1. delta[i] # [class |-> d, n |-> 1] /\ delta[i] # [class |-> d, n |-> -1]
        BY <2>5
      <3>2. enrolled'[d] = enrolled[d]
        BY <1>3, <2>5 DEF TypeOK
      <3> QED
        BY <2>1, <2>2, <2>4, <3>1, <3>2
    <2>6. CASE k = d /\ delta[i].n = 1
      <3>1. delta[i] = [class |-> d, n |-> 1] /\ delta[i] # [class |-> d, n |-> -1]
        BY <1>2, <2>6
      <3>2. enrolled'[d] = enrolled[d] + 1
        BY <1>3, <2>6 DEF TypeOK
      <3>3. Opened(d)' = Opened(d) + 1 /\ Closed(d)' = Closed(d) /\ Dropping(d)' = Dropping(d)
        BY <2>1, <3>1
      <3> QED
        BY <2>2, <2>3, <2>4, <3>2, <3>3
    <2>7. CASE k = d /\ delta[i].n = -1
      <3>1. delta[i] = [class |-> d, n |-> -1] /\ delta[i] # [class |-> d, n |-> 1]
        BY <1>2, <2>7
      <3>2. enrolled'[d] = enrolled[d]
        BY <1>3, <2>7
      <3>3. Opened(d)' = Opened(d) /\ Closed(d)' = Closed(d) + 1 /\ Dropping(d)' = Dropping(d) - 1
        BY <2>1, <3>1
      <3> QED
        BY <2>2, <2>3, <2>4, <3>2, <3>3
    <2> QED
      BY <1>2, <2>5, <2>6, <2>7
  <1>7. CountConservation'
    BY <1>6 DEF CountConservation, Net, InForce, Opened, Closed, Dropping
  <1> QED
    BY <1>5, <1>7

\* The transaction of a row fails: the enrollment is as it was.
LEMMA RollBackRowStep ==
    ASSUME CountInv, NEW i \in Rows, RollBackRow(i)
    PROVE  CountInv'
  <1> USE DEF CountInv
  <1>1. /\ i \in InStage("inserted")
        /\ stage' = [stage EXCEPT ![i] = "void"]
        /\ UNCHANGED <<dropped, delta, batch, selectedCount, overlapped>>
    BY DEF RollBackRow, InStage
  <1> DEFINE k == delta[i].class
  <1>2. k \in Classes /\ delta[i].n \in {1, -1} /\ delta[i] = [class |-> k, n |-> delta[i].n]
    BY <1>1, EndTypes
  <1>3. /\ enrolled' = IF delta[i].n = 1 THEN enrolled ELSE [enrolled EXCEPT ![k] = @ + 1]
        /\ decided' = IF delta[i].n = 1 THEN [decided EXCEPT ![k] = @ + 1] ELSE decided
    BY DEF RollBackRow, Counts
  <1>4. /\ enrolled' \in [Classes -> Nat] /\ decided' \in [Classes -> Nat]
        /\ faults' \in 0 .. MaxFaults
    BY <1>2, <1>3, ProjectionAssumption DEF TypeOK, RollBackRow, ProjectionAssumption
  <1>5. TypeOK'
    BY <1>1, <1>4, EndTypes DEF TypeOK
  <1>6. ASSUME NEW d \in Classes
        PROVE  selectedCount'[d] + (Opened(d)' - Closed(d)') = enrolled'[d] + Dropping(d)'
    <2>1. /\ Opened(d)' = Opened(d) /\ Closed(d)' = Closed(d)
          /\ Dropping(d)' = IF delta[i] = [class |-> d, n |-> -1] THEN Dropping(d) - 1 ELSE Dropping(d)
      BY <1>1, EndSizes
    <2>2. selectedCount[d] + (Opened(d) - Closed(d)) = enrolled[d] + Dropping(d)
      BY ConservationSizes
    <2>3. /\ enrolled[d] \in Nat /\ Opened(d) \in Nat /\ Closed(d) \in Nat /\ Dropping(d) \in Nat
          /\ selectedCount[d] \in Nat
      BY SizesAreNumbers DEF TypeOK
    <2>4. selectedCount'[d] = selectedCount[d]
      BY <1>1
    <2>5. CASE delta[i].n = 1 \/ k # d
      <3>1. delta[i] # [class |-> d, n |-> -1]
        BY <2>5
      <3>2. enrolled'[d] = enrolled[d]
        BY <1>3, <2>5 DEF TypeOK
      <3> QED
        BY <2>1, <2>2, <2>4, <3>1, <3>2
    <2>6. CASE k = d /\ delta[i].n = -1
      <3>1. delta[i] = [class |-> d, n |-> -1]
        BY <1>2, <2>6
      <3>2. enrolled'[d] = enrolled[d] + 1
        BY <1>3, <2>6 DEF TypeOK
      <3>3. Dropping(d)' = Dropping(d) - 1
        BY <2>1, <3>1
      <3> QED
        BY <2>1, <2>2, <2>3, <2>4, <3>2, <3>3
    <2> QED
      BY <1>2, <2>5, <2>6
  <1>7. CountConservation'
    BY <1>6 DEF CountConservation, Net, InForce, Opened, Closed, Dropping
  <1> QED
    BY <1>5, <1>7

\* Cleanup touches neither open nor inserted rows.
LEMMA CleanUpStep ==
    ASSUME CountInv, NEW i \in Rows, CleanUp(i)
    PROVE  CountInv'
  <1> USE DEF CountInv
  <1>1. /\ InStage("open")' = InStage("open") /\ InStage("inserted")' = InStage("inserted")
        /\ InStage("none")' = InStage("none")
        /\ stage' \in [Rows -> {"none", "inserted", "void", "open", "done", "deleted"}]
    BY DEF TypeOK, InStage, CleanUp
  <1>2. UNCHANGED <<decided, enrolled, dropped, delta, batch, selectedCount, faults, overlapped>>
    BY DEF CleanUp
  <1>3. TypeOK'
    BY <1>1, <1>2 DEF TypeOK
  <1>4. ASSUME NEW d \in Classes
        PROVE  Opened(d)' = Opened(d) /\ Closed(d)' = Closed(d) /\ Dropping(d)' = Dropping(d)
    BY <1>1, <1>2 DEF Opened, Closed, Dropping, Of
  <1>5. CountConservation'
    BY <1>2, <1>4, SameSizes
  <1> QED
    BY <1>3, <1>5

\* ProjectPendingEnrollmentCounts: what leaves the open rows enters the count,
\* and the guard keeps the count a natural number.
LEMMA ProjectStep ==
    ASSUME CountInv, NEW p \in Projectors, Project(p)
    PROVE  CountInv'
  <1> USE DEF CountInv
  <1> DEFINE B == batch[p]
  <1>1. /\ UNCHANGED <<decided, enrolled, dropped, delta, faults, overlapped>>
        /\ selectedCount' = [c \in Classes |-> selectedCount[c] + Net(B, c)]
        /\ stage' = [i \in Rows |-> IF i \in B THEN "done" ELSE stage[i]]
        /\ batch' = [batch EXCEPT ![p] = {}]
        /\ Fits(B)
    BY DEF Project
  <1>2. B \in SUBSET InStage("open") /\ InStage("open") \in SUBSET Rows
    BY DEF TypeOK, InStage
  <1>3. /\ InStage("open")' = InStage("open") \ B
        /\ InStage("inserted")' = InStage("inserted")
        /\ InStage("none")' = InStage("none")
    BY <1>1, <1>2 DEF TypeOK, InStage
  <1>4. \A c \in Classes : Net(B, c) \in Int /\ selectedCount[c] \in Nat
    <2>1. B \in SUBSET Rows
      BY <1>2
    <2> QED
      BY <2>1, RowsFinite DEF TypeOK
  <1>5. selectedCount' \in [Classes -> Nat]
    <2>1. ASSUME NEW c \in Classes PROVE selectedCount[c] + Net(B, c) \in Nat
      <3>1. Net(B, c) # 0 => selectedCount[c] + Net(B, c) \in 0 .. Capacity[c]
        BY <1>1 DEF Fits
      <3>2. Capacity[c] \in Nat
        BY ProjectionAssumption DEF ProjectionAssumption
      <3> HIDE DEF B
      <3> QED
        BY <1>4, <3>1, <3>2
    <2> QED
      BY <1>1, <2>1
  <1>6. /\ batch' \in [Projectors -> SUBSET InStage("open")']
        /\ \A q, r \in Projectors : q # r => batch'[q] \cap batch'[r] = {}
    <2>1. \A q \in Projectors : q # p => batch[q] \subseteq InStage("open") \ B
      BY DEF TypeOK
    <2>2. \A q \in Projectors : batch'[q] = IF q = p THEN {} ELSE batch[q]
      BY <1>1 DEF TypeOK
    <2>3. DOMAIN batch' = Projectors /\ batch' = [q \in Projectors |-> batch'[q]]
      BY <1>1 DEF TypeOK
    <2>4. \A q \in Projectors : batch'[q] \in SUBSET InStage("open")'
      BY <1>3, <2>1, <2>2
    <2>5. \A q, r \in Projectors : q # r => batch'[q] \cap batch'[r] = {}
      BY <2>2 DEF TypeOK
    <2> QED
      BY <2>3, <2>4, <2>5
  <1>7. stage' \in [Rows -> {"none", "inserted", "void", "open", "done", "deleted"}]
    BY <1>1 DEF TypeOK
  <1>8. TypeOK'
    BY <1>1, <1>3, <1>5, <1>6, <1>7 DEF TypeOK
  <1>9. ASSUME NEW c \in Classes
        PROVE  (selectedCount[c] + Net(InStage("open"), c) = InForce(c))'
    <2>1. Net(InStage("open"), c)' = Net(InStage("open") \ B, c)
      BY <1>1, <1>3 DEF Net, Of
    <2>2. Net(InStage("open") \ B, c) = Net(InStage("open"), c) - Net(B, c)
      BY <1>2, NetDifference
    <2>3. selectedCount'[c] = selectedCount[c] + Net(B, c)
      BY <1>1
    <2>4. InForce(c)' = InForce(c)
      BY <1>1, <1>3 DEF InForce, Of
    <2>5. Net(InStage("open"), c) \in Int
      BY <1>2, RowsFinite
    <2>6. selectedCount[c] + Net(InStage("open"), c) = InForce(c)
      BY DEF CountConservation
    <2> HIDE DEF B
    <2> QED
      BY <1>4, <2>1, <2>2, <2>3, <2>4, <2>5, <2>6
  <1>10. CountConservation'
    BY <1>9 DEF CountConservation
  <1> QED
    BY <1>8, <1>10

\* Decisions, releases, locking reads and failed jobs change neither rows nor
\* enrollments nor counts.
LEMMA OtherSteps ==
    ASSUME CountInv,
           \/ \E c \in Classes : Decide(c) \/ Release(c)
           \/ \E p \in Projectors : LockRows(p) \/ RejectBatch(p) \/ LoseBatch(p)
           \/ UNCHANGED vars
    PROVE  CountInv'
  <1> USE DEF CountInv
  <1>1. UNCHANGED <<enrolled, delta, stage, selectedCount>>
    BY DEF Decide, Release, LockRows, RejectBatch, LoseBatch, vars
  <1>2. \A x : InStage(x)' = InStage(x)
    BY <1>1 DEF InStage
  <1>3. CountConservation'
    <2>1. ASSUME NEW d \in Classes
          PROVE  Opened(d)' = Opened(d) /\ Closed(d)' = Closed(d) /\ Dropping(d)' = Dropping(d)
      BY <1>1, <1>2 DEF Opened, Closed, Dropping, Of
    <2> QED
      BY <1>1, <2>1, SameSizes
  <1>4. ASSUME NEW c \in Classes, Decide(c) \/ Release(c)
        PROVE  TypeOK'
    <2>1. decided' \in [Classes -> Nat] /\ dropped' \in [Classes -> Nat]
      BY <1>4 DEF TypeOK, Decide, Release
    <2>2. UNCHANGED <<batch, faults, overlapped>>
      BY <1>4 DEF Decide, Release
    <2> QED
      BY <1>1, <1>2, <2>1, <2>2 DEF TypeOK
  <1>5. ASSUME NEW p \in Projectors, LockRows(p) \/ RejectBatch(p) \/ LoseBatch(p)
        PROVE  TypeOK'
    <2>1. /\ UNCHANGED <<decided, dropped>>
          /\ faults' \in 0 .. MaxFaults /\ overlapped' \in BOOLEAN
      <3>1. UNCHANGED <<decided, dropped>>
        BY <1>5 DEF LockRows, RejectBatch, LoseBatch
      <3>2. faults' = faults \/ (faults > 0 /\ faults' = faults - 1)
        BY <1>5 DEF LockRows, RejectBatch, LoseBatch
      <3>3. faults' \in 0 .. MaxFaults
        BY <3>2, ProjectionAssumption DEF TypeOK, ProjectionAssumption
      <3>4. overlapped' = overlapped \/ overlapped' = (overlapped \/ Locked # {})
        BY <1>5, Zenon DEF LockRows, RejectBatch, LoseBatch
      <3>5. overlapped' \in BOOLEAN
        BY <3>4, Zenon DEF TypeOK
      <3> QED
        BY <3>1, <3>3, <3>5
    <2>2. PICK S \in SUBSET (InStage("open") \ Locked) : batch' = [batch EXCEPT ![p] = S]
      <3>1. CASE LockRows(p)
        <4>1. batch' = [batch EXCEPT ![p] = FirstRows(InStage("open") \ Locked, Limit)]
          BY <3>1 DEF LockRows
        <4>2. FirstRows(InStage("open") \ Locked, Limit) \in SUBSET (InStage("open") \ Locked)
          BY DEF FirstRows
        <4> QED
          BY <4>1, <4>2
      <3>2. CASE RejectBatch(p) \/ LoseBatch(p)
        <4>1. batch' = [batch EXCEPT ![p] = {}]
          BY <3>2 DEF RejectBatch, LoseBatch
        <4> QED
          BY <4>1
      <3> QED
        BY <1>5, <3>1, <3>2
    <2>3. \A q \in Projectors : batch'[q] = IF q = p THEN S ELSE batch[q]
      BY <2>2 DEF TypeOK
    <2>4. \A q \in Projectors : S \cap batch[q] = {}
      BY DEF Locked
    <2>5. \A q, r \in Projectors : q # r => batch'[q] \cap batch'[r] = {}
      BY <2>3, <2>4 DEF TypeOK
    <2>6. batch' \in [Projectors -> SUBSET InStage("open")']
      BY <1>2, <2>2 DEF TypeOK
    <2> QED
      BY <1>1, <1>2, <2>1, <2>5, <2>6 DEF TypeOK
  <1>6. ASSUME UNCHANGED vars PROVE TypeOK'
    BY <1>2, <1>6 DEF TypeOK, vars
  <1> QED
    BY <1>3, <1>4, <1>5, <1>6

-----------------------------------------------------------------------------
\* Every step keeps types and sum.
LEMMA CountStep == CountInv /\ [Next]_vars => CountInv'
  <1> SUFFICES ASSUME CountInv, [Next]_vars PROVE CountInv'
    OBVIOUS
  <1>1. ASSUME NEW i \in Rows, NEW c \in Classes, InsertEnrollment(i, c) PROVE CountInv'
    BY <1>1, InsertEnrollmentStep
  <1>2. ASSUME NEW i \in Rows, NEW c \in Classes, InsertDrop(i, c) PROVE CountInv'
    BY <1>2, InsertDropStep
  <1>3. ASSUME NEW i \in Rows, CommitRow(i) PROVE CountInv'
    BY <1>3, CommitRowStep
  <1>4. ASSUME NEW i \in Rows, RollBackRow(i) PROVE CountInv'
    BY <1>4, RollBackRowStep
  <1>5. ASSUME NEW i \in Rows, CleanUp(i) PROVE CountInv'
    BY <1>5, CleanUpStep
  <1>6. ASSUME NEW p \in Projectors, Project(p) PROVE CountInv'
    BY <1>6, ProjectStep
  <1>7. CASE \/ \E c \in Classes : Decide(c) \/ Release(c)
             \/ \E p \in Projectors : LockRows(p) \/ RejectBatch(p) \/ LoseBatch(p)
             \/ UNCHANGED vars
    BY <1>7, OtherSteps
  <1> QED
    BY <1>1, <1>2, <1>3, <1>4, <1>5, <1>6, <1>7 DEF Next

\* The count and the open rows always add up to the enrollments in force, for
\* any number of overlapping jobs, rolled back transactions and lost batches
\* (ProjectPendingEnrollmentCounts, DropEnrollment,
\* persistClaimedSelectionResults).
THEOREM CountsBalance == Spec => []CountConservation
  <1>1. CountInv => CountConservation
    BY DEF CountInv
  <1> QED
    BY CountInit, CountStep, <1>1, PTL DEF Spec

\* No two jobs lock the same row, a job holds open rows only, and the count
\* never goes below zero (FOR UPDATE SKIP LOCKED, the guard of the update).
THEOREM CountTypes == Spec => []TypeOK
  <1>1. CountInv => TypeOK
    BY DEF CountInv
  <1> QED
    BY CountInit, CountStep, <1>1, PTL DEF Spec

-----------------------------------------------------------------------------
(***************************************************************************)
(* The next batch fits.                                                    *)
(*                                                                         *)
(* The guard sees the rows of one batch and not the ones that are locked,  *)
(* or inserted and not visible.  That it holds nevertheless is because     *)
(* rows are taken in the order of their ids: a drop gets its id after the  *)
(* commit of an enrollment it may undo, and an enrollment gets its id      *)
(* after the commit of the drop whose seat it takes.  FitInv says so for   *)
(* every k: the count, the open rows up to k, with or without the rows     *)
(* that are locked, and the worst that inserted rows up to k may bring,    *)
(* stay between zero and the capacity.                                     *)
(***************************************************************************)

Plus(d, S, c) == Cardinality({i \in S : d[i] = [class |-> c, n |-> 1]})
Minus(d, S, c) == Cardinality({i \in S : d[i] = [class |-> c, n |-> -1]})
Upto(S, k) == {i \in S : i <= k}

\* The count s and the rows X fit, whichever of the rows J commit.
Sits(d, s, X, J, c) ==
    /\ s + (Plus(d, X, c) - Minus(d, X, c)) - Minus(d, J, c) >= 0
    /\ s + (Plus(d, X, c) - Minus(d, X, c)) + Plus(d, J, c) <= Capacity[c]

SitsUpto(c, k, L) ==
    Sits(delta, selectedCount[c], Upto(InStage("open"), k) \cup L, Upto(InStage("inserted"), k), c)

\* Ids are given in order.
InOrder == \A i, j \in Rows : i < j /\ stage[i] = "none" => stage[j] = "none"

SeatsFit == \A c \in Classes : Taken(c) <= Capacity[c]

OneJob == \A p, q \in Projectors : batch[p] # {} /\ batch[q] # {} => p = q

PrefixesFit ==
    ~overlapped => \A c \in Classes, k \in 0 .. MaxRows : SitsUpto(c, k, {}) /\ SitsUpto(c, k, Locked)

FitInv == InOrder /\ SeatsFit /\ (~overlapped => OneJob) /\ PrefixesFit

\* Sums over rows are numbers, and grow with the rows.
LEMMA SumsGrow ==
    ASSUME NEW d, NEW T \in SUBSET Rows, NEW S \in SUBSET T, NEW c
    PROVE  /\ Plus(d, S, c) \in Nat /\ Minus(d, S, c) \in Nat
           /\ Plus(d, T, c) \in Nat /\ Minus(d, T, c) \in Nat
           /\ Plus(d, S, c) <= Plus(d, T, c) /\ Minus(d, S, c) <= Minus(d, T, c)
  <1>1. IsFiniteSet(Rows)
    BY ProjectionAssumption, FS_Interval DEF ProjectionAssumption, Rows
  <1>2. ASSUME NEW n
        PROVE  /\ Cardinality({i \in S : d[i] = [class |-> c, n |-> n]}) \in Nat
               /\ Cardinality({i \in T : d[i] = [class |-> c, n |-> n]}) \in Nat
               /\ Cardinality({i \in S : d[i] = [class |-> c, n |-> n]})
                    <= Cardinality({i \in T : d[i] = [class |-> c, n |-> n]})
    <2> DEFINE A == {i \in S : d[i] = [class |-> c, n |-> n]}
               B == {i \in T : d[i] = [class |-> c, n |-> n]}
    <2>1. A \in SUBSET B /\ B \in SUBSET Rows
      OBVIOUS
    <2>2. IsFiniteSet(B)
      BY <1>1, <2>1, FS_Subset
    <2> QED
      BY <2>1, <2>2, FS_Subset, FS_CardinalityType
  <1> QED
    BY <1>2 DEF Plus, Minus

\* The sum of two sets of rows that have none in common.
LEMMA SumsAdd ==
    ASSUME NEW d, NEW S \in SUBSET Rows, NEW T \in SUBSET Rows, S \cap T = {}, NEW c
    PROVE  /\ Plus(d, S \cup T, c) = Plus(d, S, c) + Plus(d, T, c)
           /\ Minus(d, S \cup T, c) = Minus(d, S, c) + Minus(d, T, c)
  <1>1. IsFiniteSet(Rows)
    BY ProjectionAssumption, FS_Interval DEF ProjectionAssumption, Rows
  <1>2. ASSUME NEW n
        PROVE  Cardinality({i \in S \cup T : d[i] = [class |-> c, n |-> n]})
                 = Cardinality({i \in S : d[i] = [class |-> c, n |-> n]})
                   + Cardinality({i \in T : d[i] = [class |-> c, n |-> n]})
    <2> DEFINE A == {i \in S : d[i] = [class |-> c, n |-> n]}
               B == {i \in T : d[i] = [class |-> c, n |-> n]}
    <2>1. A \in SUBSET Rows /\ B \in SUBSET Rows /\ A \cap B = {}
      OBVIOUS
    <2>2. {i \in S \cup T : d[i] = [class |-> c, n |-> n]} = A \cup B
      OBVIOUS
    <2>3. IsFiniteSet(A) /\ IsFiniteSet(B)
      BY <1>1, <2>1, FS_Subset
    <2>4. Cardinality(A \cup B) = Cardinality(A) + Cardinality(B) - Cardinality(A \cap B)
      BY <2>3, FS_Union
    <2>5. Cardinality(A) \in Nat /\ Cardinality(B) \in Nat /\ Cardinality(A \cap B) = 0
      BY <2>1, <2>3, FS_CardinalityType, FS_EmptySet
    <2> HIDE DEF A, B
    <2>6. Cardinality(A \cup B) = Cardinality(A) + Cardinality(B)
      BY <2>4, <2>5
    <2> QED
      BY <2>2, <2>6 DEF A, B
  <1> QED
    BY <1>2 DEF Plus, Minus

\* One row more or less.
LEMMA SumsOne ==
    ASSUME NEW d, NEW i \in Rows, NEW c
    PROVE  /\ Plus(d, {i}, c) = IF d[i] = [class |-> c, n |-> 1] THEN 1 ELSE 0
           /\ Minus(d, {i}, c) = IF d[i] = [class |-> c, n |-> -1] THEN 1 ELSE 0
  <1>1. ASSUME NEW n
        PROVE  Cardinality({j \in {i} : d[j] = [class |-> c, n |-> n]})
                 = IF d[i] = [class |-> c, n |-> n] THEN 1 ELSE 0
    <2>1. CASE d[i] = [class |-> c, n |-> n]
      <3>1. {j \in {i} : d[j] = [class |-> c, n |-> n]} = {i}
        BY <2>1
      <3> QED
        BY <2>1, <3>1, FS_Singleton
    <2>2. CASE d[i] # [class |-> c, n |-> n]
      <3>1. {j \in {i} : d[j] = [class |-> c, n |-> n]} = {}
        BY <2>2
      <3> QED
        BY <2>2, <3>1, FS_EmptySet
    <2> QED
      BY <2>1, <2>2
  <1> QED
    BY <1>1 DEF Plus, Minus

\* The sums depend on the deltas of their rows only.
LEMMA SumsSame ==
    ASSUME NEW d, NEW e, NEW S, \A i \in S : d[i] = e[i], NEW c
    PROVE  Plus(d, S, c) = Plus(e, S, c) /\ Minus(d, S, c) = Minus(e, S, c)
  <1>1. \A n : {i \in S : d[i] = [class |-> c, n |-> n]} = {i \in S : e[i] = [class |-> c, n |-> n]}
    OBVIOUS
  <1> QED
    BY <1>1 DEF Plus, Minus

\* With fewer rows under way a fit stays a fit.
LEMMA SitsFewer ==
    ASSUME NEW d, NEW s \in Nat, NEW X \in SUBSET Rows, NEW J \in SUBSET Rows, NEW K \in SUBSET J,
           NEW c \in Classes, Sits(d, s, X, J, c)
    PROVE  Sits(d, s, X, K, c)
  <1>1. /\ Plus(d, X, c) \in Nat /\ Minus(d, X, c) \in Nat
        /\ Plus(d, K, c) \in Nat /\ Minus(d, K, c) \in Nat
        /\ Plus(d, J, c) \in Nat /\ Minus(d, J, c) \in Nat
        /\ Plus(d, K, c) <= Plus(d, J, c) /\ Minus(d, K, c) <= Minus(d, J, c)
    BY SumsGrow
  <1>2. Capacity[c] \in Nat
    BY ProjectionAssumption DEF ProjectionAssumption
  <1> QED
    BY <1>1, <1>2 DEF Sits

\* A row that commits moves from the rows under way to the open ones.
LEMMA SitsCommit ==
    ASSUME NEW d, NEW s \in Nat, NEW X \in SUBSET Rows, NEW J \in SUBSET Rows, NEW i \in J, i \notin X,
           NEW c \in Classes, Sits(d, s, X, J, c)
    PROVE  Sits(d, s, X \cup {i}, J \ {i}, c)
  <1> DEFINE K == J \ {i}
  <1>1. i \in Rows /\ K \in SUBSET Rows /\ {i} \in SUBSET Rows /\ K \cap {i} = {} /\ X \cap {i} = {}
        /\ J = K \cup {i}
    OBVIOUS
  <1>2. /\ Plus(d, J, c) = Plus(d, K, c) + Plus(d, {i}, c)
        /\ Minus(d, J, c) = Minus(d, K, c) + Minus(d, {i}, c)
        /\ Plus(d, X \cup {i}, c) = Plus(d, X, c) + Plus(d, {i}, c)
        /\ Minus(d, X \cup {i}, c) = Minus(d, X, c) + Minus(d, {i}, c)
    BY <1>1, SumsAdd
  <1>3. /\ Plus(d, X, c) \in Nat /\ Minus(d, X, c) \in Nat
        /\ Plus(d, K, c) \in Nat /\ Minus(d, K, c) \in Nat
        /\ Plus(d, {i}, c) \in Nat /\ Minus(d, {i}, c) \in Nat
    BY <1>1, SumsGrow
  <1>4. Capacity[c] \in Nat
    BY ProjectionAssumption DEF ProjectionAssumption
  <1> HIDE DEF K
  <1>5. Sits(d, s, X \cup {i}, K, c)
    BY <1>2, <1>3, <1>4 DEF Sits
  <1> QED
    BY <1>5 DEF K

\* A batch that is projected moves from the rows into the count.
LEMMA SitsProject ==
    ASSUME NEW d, NEW s \in Nat, NEW X \in SUBSET Rows, NEW B \in SUBSET Rows, X \cap B = {},
           NEW J \in SUBSET Rows, NEW c \in Classes, Sits(d, s, X \cup B, J, c)
    PROVE  Sits(d, s + (Plus(d, B, c) - Minus(d, B, c)), X, J, c)
  <1>1. /\ Plus(d, X \cup B, c) = Plus(d, X, c) + Plus(d, B, c)
        /\ Minus(d, X \cup B, c) = Minus(d, X, c) + Minus(d, B, c)
    BY SumsAdd
  <1>2. /\ Plus(d, X, c) \in Nat /\ Minus(d, X, c) \in Nat
        /\ Plus(d, B, c) \in Nat /\ Minus(d, B, c) \in Nat
        /\ Plus(d, J, c) \in Nat /\ Minus(d, J, c) \in Nat
    BY SumsGrow
  <1>3. Capacity[c] \in Nat
    BY ProjectionAssumption DEF ProjectionAssumption
  <1> QED
    BY <1>1, <1>2, <1>3 DEF Sits

\* The first rows in the order of their ids are the rows up to one of them.
LEMMA FirstRowsUpto ==
    ASSUME NEW S \in SUBSET Rows, NEW n \in Nat
    PROVE  \E k \in 0 .. MaxRows : FirstRows(S, n) = Upto(S, k)
  <1>0. MaxRows \in Nat /\ IsFiniteSet(Rows) /\ \A i \in Rows : i \in Nat /\ 1 <= i /\ i <= MaxRows
    BY ProjectionAssumption, FS_Interval DEF ProjectionAssumption, Rows
  <1>1. \A i, j \in S : i \in FirstRows(S, n) /\ j < i => j \in FirstRows(S, n)
    <2> SUFFICES ASSUME NEW i \in S, NEW j \in S, i \in FirstRows(S, n), j < i
                 PROVE  j \in FirstRows(S, n)
      OBVIOUS
    <2> DEFINE A == {x \in S : x < j}
               B == {x \in S : x < i}
    <2>1. A \in SUBSET B /\ B \in SUBSET Rows
      BY <1>0
    <2>2. IsFiniteSet(B)
      BY <1>0, <2>1, FS_Subset
    <2>3. Cardinality(A) \in Nat /\ Cardinality(B) \in Nat /\ Cardinality(A) <= Cardinality(B)
      BY <2>1, <2>2, FS_Subset, FS_CardinalityType
    <2>4. Cardinality(B) < n
      BY DEF FirstRows
    <2> HIDE DEF A, B
    <2>5. Cardinality(A) < n
      BY <2>3, <2>4
    <2> QED
      BY <2>5 DEF A, FirstRows
  <1>2. FirstRows(S, n) \in SUBSET S
    BY DEF FirstRows
  <1> DEFINE R == S \ FirstRows(S, n)
  <1>3. CASE R = {}
    <2>1. FirstRows(S, n) = Upto(S, MaxRows)
      BY <1>0, <1>2, <1>3 DEF Upto
    <2> QED
      BY <1>0, <2>1
  <1>4. CASE R # {}
    <2>1. R \in SUBSET Nat
      BY <1>0
    <2>2. PICK x \in R : \A y \in R : ~ (<<y, x>> \in OpToRel(<, Nat))
      BY <1>4, <2>1, NatLessThanWellFounded, WFMin
    <2>3. \A y \in R : x \in Nat /\ y \in Nat /\ ~(y < x)
      BY <2>1, <2>2 DEF OpToRel
    <2>4. \A y \in S : y \in FirstRows(S, n) <=> y <= x - 1
      <3> SUFFICES ASSUME NEW y \in S PROVE y \in FirstRows(S, n) <=> y <= x - 1
        OBVIOUS
      <3>1. x \in S /\ x \notin FirstRows(S, n) /\ x \in Nat /\ y \in Nat
        BY <1>0, <2>2
      <3>2. CASE y \in FirstRows(S, n)
        <4>1. ~(x < y) /\ x # y
          BY <1>1, <3>1, <3>2
        <4> QED
          BY <3>1, <3>2, <4>1
      <3>3. CASE y \notin FirstRows(S, n)
        <4>1. ~(y < x)
          BY <2>3, <3>3
        <4> QED
          BY <3>1, <3>3, <4>1
      <3> QED
        BY <3>2, <3>3
    <2>5. x - 1 \in 0 .. MaxRows
      <3>1. x \in Rows
        BY <2>2
      <3>2. x \in Nat /\ 1 <= x /\ x <= MaxRows
        BY <1>0, <3>1
      <3> QED
        BY <1>0, <3>2
    <2>6. FirstRows(S, n) = Upto(S, x - 1)
      BY <1>2, <2>4 DEF Upto
    <2> QED
      BY <2>5, <2>6
  <1> QED
    BY <1>3, <1>4

\* Seats of rows under way.
LEMMA UnderWay ==
    ASSUME NEW d, NEW J \in SUBSET Rows, NEW c
    PROVE  Cardinality({i \in J : d[i] = [class |-> c, n |-> 1]} \cup {i \in J : d[i] = [class |-> c, n |-> -1]})
             = Plus(d, J, c) + Minus(d, J, c)
  <1> DEFINE A == {i \in J : d[i] = [class |-> c, n |-> 1]}
             B == {i \in J : d[i] = [class |-> c, n |-> -1]}
  <1>1. A \in SUBSET Rows /\ B \in SUBSET Rows /\ A \cap B = {}
    <2>1. [class |-> c, n |-> 1] # [class |-> c, n |-> -1]
      OBVIOUS
    <2> QED
      BY <2>1
  <1>2. IsFiniteSet(Rows)
    BY ProjectionAssumption, FS_Interval DEF ProjectionAssumption, Rows
  <1>3. IsFiniteSet(A) /\ IsFiniteSet(B)
    BY <1>1, <1>2, FS_Subset
  <1>4. Cardinality(A) \in Nat /\ Cardinality(B) \in Nat /\ Cardinality(A \cap B) = 0
    BY <1>1, <1>3, FS_CardinalityType, FS_EmptySet
  <1>5. Cardinality(A \cup B) = Cardinality(A) + Cardinality(B) - Cardinality(A \cap B)
    BY <1>3, FS_Union
  <1> HIDE DEF A, B
  <1>6. Cardinality(A \cup B) = Cardinality(A) + Cardinality(B)
    BY <1>4, <1>5
  <1> QED
    BY <1>6 DEF A, B, Plus, Minus

\* What the invariants say of one class.
LEMMA ClassFacts ==
    ASSUME CountInv, NEW c \in Classes
    PROVE  LET O == InStage("open")
               I == InStage("inserted") IN
           /\ O \in SUBSET Rows /\ I \in SUBSET Rows /\ Locked \in SUBSET O
           /\ selectedCount[c] \in Nat /\ decided[c] \in Nat /\ enrolled[c] \in Nat /\ dropped[c] \in Nat
           /\ Capacity[c] \in Nat /\ Plus(delta, I, c) \in Nat /\ Minus(delta, I, c) \in Nat
           /\ Plus(delta, O, c) \in Nat /\ Minus(delta, O, c) \in Nat
           /\ selectedCount[c] + (Plus(delta, O, c) - Minus(delta, O, c)) = enrolled[c] + Minus(delta, I, c)
           /\ Taken(c) = decided[c] + enrolled[c] + dropped[c] + (Plus(delta, I, c) + Minus(delta, I, c))
  <1> DEFINE O == InStage("open")
             I == InStage("inserted")
  <1>1. O \in SUBSET Rows /\ I \in SUBSET Rows
    BY DEF InStage
  <1>2. Locked \in SUBSET O
    BY DEF Locked, CountInv, TypeOK
  <1>3. /\ selectedCount[c] \in Nat /\ decided[c] \in Nat /\ enrolled[c] \in Nat /\ dropped[c] \in Nat
        /\ Capacity[c] \in Nat
    BY ProjectionAssumption DEF CountInv, TypeOK, ProjectionAssumption
  <1>4. /\ Plus(delta, I, c) \in Nat /\ Minus(delta, I, c) \in Nat
        /\ Plus(delta, O, c) \in Nat /\ Minus(delta, O, c) \in Nat
    BY <1>1, SumsGrow
  <1>5. selectedCount[c] + (Plus(delta, O, c) - Minus(delta, O, c)) = enrolled[c] + Minus(delta, I, c)
    BY DEF CountInv, CountConservation, Net, InForce, Of, Plus, Minus
  <1>6. Taken(c) = decided[c] + enrolled[c] + dropped[c] + (Plus(delta, I, c) + Minus(delta, I, c))
    BY <1>1, UnderWay DEF Taken, Of
  <1> QED
    BY <1>1, <1>2, <1>3, <1>4, <1>5, <1>6

\* A row that is inserted gets the highest id: whatever is open is below it.
LEMMA InsertFits ==
    ASSUME CountInv, FitInv, NEW i \in Rows, NEW c \in Classes, NEW n \in {1, -1},
           InsertRow(i, c, n), UNCHANGED <<batch, selectedCount, overlapped, dropped>>,
           n = -1 => enrolled[c] > 0 /\ enrolled' = [enrolled EXCEPT ![c] = @ - 1] /\ UNCHANGED decided,
           n = 1 => decided[c] > 0 /\ decided' = [decided EXCEPT ![c] = @ - 1] /\ UNCHANGED enrolled
    PROVE  FitInv'
  <1> DEFINE O == InStage("open")
             I == InStage("inserted")
  <1>1. /\ TypeOK /\ i \notin I \cup O /\ delta'[i] = [class |-> c, n |-> n]
        /\ O' = O /\ I' = I \cup {i} /\ \A j \in I \cup O : delta'[j] = delta[j]
    <2>1. TypeOK /\ UNCHANGED batch
      BY DEF CountInv
    <2>2. CASE n = 1
      BY <2>1, <2>2, InsertTypes
    <2>3. CASE n = -1
      BY <2>1, <2>3, InsertTypes
    <2> QED
      BY <2>2, <2>3
  <1>2. O \in SUBSET Rows /\ I \in SUBSET Rows /\ I \cup {i} \in SUBSET Rows /\ I \cap {i} = {} /\ {i} \in SUBSET Rows
    BY <1>1 DEF InStage
  <1>3. stage[i] = "none" /\ stage' = [stage EXCEPT ![i] = "inserted"]
        /\ \A j \in 1 .. i - 1 : stage[j] # "none"
    BY DEF InsertRow
  <1>4. \A j \in I \cup O : j < i
    <2> SUFFICES ASSUME NEW j \in I \cup O PROVE j < i
      OBVIOUS
    <2>1. j \in Rows /\ stage[j] # "none" /\ j # i
      BY <1>3 DEF InStage
    <2>2. ~(i < j)
      BY <1>3, <2>1 DEF FitInv, InOrder
    <2> QED
      BY <2>1, <2>2 DEF Rows
  <1>5. InOrder'
    <2> SUFFICES ASSUME NEW a \in Rows, NEW b \in Rows, a < b, stage'[a] = "none" PROVE stage'[b] = "none"
      BY DEF InOrder
    <2>1. a # i /\ stage[a] = "none"
      BY <1>1, <1>3 DEF TypeOK
    <2>2. stage[b] = "none"
      BY <2>1 DEF FitInv, InOrder
    <2>3. b # i
      BY <1>3, <2>1 DEF Rows
    <2> QED
      BY <1>1, <1>3, <2>2, <2>3 DEF TypeOK
  <1>6. Locked' = Locked
    BY DEF Locked
  <1>7. ASSUME NEW d \in Classes
        PROVE  /\ Plus(delta', O, d) = Plus(delta, O, d) /\ Minus(delta', O, d) = Minus(delta, O, d)
               /\ ~(d = c /\ n = 1) => Plus(delta', I \cup {i}, d) = Plus(delta, I, d)
               /\ d = c /\ n = 1 => Plus(delta', I \cup {i}, d) = Plus(delta, I, d) + 1
               /\ ~(d = c /\ n = -1) => Minus(delta', I \cup {i}, d) = Minus(delta, I, d)
               /\ d = c /\ n = -1 => Minus(delta', I \cup {i}, d) = Minus(delta, I, d) + 1
    <2>1. /\ Plus(delta', O, d) = Plus(delta, O, d) /\ Minus(delta', O, d) = Minus(delta, O, d)
          /\ Plus(delta', I, d) = Plus(delta, I, d) /\ Minus(delta', I, d) = Minus(delta, I, d)
      BY <1>1, SumsSame
    <2>2. /\ Plus(delta', I \cup {i}, d) = Plus(delta', I, d) + Plus(delta', {i}, d)
          /\ Minus(delta', I \cup {i}, d) = Minus(delta', I, d) + Minus(delta', {i}, d)
      BY <1>2, SumsAdd
    <2>3. /\ delta'[i] = [class |-> d, n |-> 1] <=> d = c /\ n = 1
          /\ delta'[i] = [class |-> d, n |-> -1] <=> d = c /\ n = -1
      BY <1>1
    <2>4. /\ d = c /\ n = 1 => Plus(delta', {i}, d) = 1
          /\ ~(d = c /\ n = 1) => Plus(delta', {i}, d) = 0
          /\ d = c /\ n = -1 => Minus(delta', {i}, d) = 1
          /\ ~(d = c /\ n = -1) => Minus(delta', {i}, d) = 0
      <3>1. /\ Plus(delta', {i}, d) = IF delta'[i] = [class |-> d, n |-> 1] THEN 1 ELSE 0
            /\ Minus(delta', {i}, d) = IF delta'[i] = [class |-> d, n |-> -1] THEN 1 ELSE 0
        BY SumsOne
      <3> QED
        BY <2>3, <3>1
    <2>5. Plus(delta, I, d) \in Nat /\ Minus(delta, I, d) \in Nat
      BY <1>2, SumsGrow
    <2> QED
      BY <2>1, <2>2, <2>4, <2>5
  <1>8. ASSUME NEW d \in Classes
        PROVE  /\ selectedCount[d] \in Nat /\ decided[d] \in Nat /\ enrolled[d] \in Nat /\ dropped[d] \in Nat
               /\ Capacity[d] \in Nat /\ Plus(delta, I, d) \in Nat /\ Minus(delta, I, d) \in Nat
               /\ Plus(delta, O, d) \in Nat /\ Minus(delta, O, d) \in Nat
               /\ selectedCount[d] + (Plus(delta, O, d) - Minus(delta, O, d)) = enrolled[d] + Minus(delta, I, d)
               /\ Taken(d) = decided[d] + enrolled[d] + dropped[d] + (Plus(delta, I, d) + Minus(delta, I, d))
               /\ Taken(d) <= Capacity[d]
    BY ClassFacts DEF FitInv, SeatsFit
  <1> HIDE DEF O, I
  <1>9. ASSUME NEW d \in Classes PROVE Taken(d)' <= Capacity[d]
    <2>1. Taken(d)' = decided'[d] + enrolled'[d] + dropped'[d]
                        + (Plus(delta', I \cup {i}, d) + Minus(delta', I \cup {i}, d))
      BY <1>1, <1>2, UnderWay DEF Taken, Of, I
    <2>2. decided \in [Classes -> Nat] /\ enrolled \in [Classes -> Nat] /\ dropped'[d] = dropped[d]
      BY <1>1 DEF TypeOK
    <2>3. CASE d # c
      <3>1. decided'[d] = decided[d] /\ enrolled'[d] = enrolled[d]
        BY <2>2, <2>3
      <3>2. Plus(delta', I \cup {i}, d) = Plus(delta, I, d) /\ Minus(delta', I \cup {i}, d) = Minus(delta, I, d)
        BY <1>7, <2>3
      <3> QED
        BY <1>8, <2>1, <2>2, <3>1, <3>2
    <2>4. CASE d = c /\ n = 1
      <3>1. decided'[d] = decided[d] - 1 /\ enrolled'[d] = enrolled[d]
        BY <2>2, <2>4
      <3>2. Plus(delta', I \cup {i}, d) = Plus(delta, I, d) + 1 /\ Minus(delta', I \cup {i}, d) = Minus(delta, I, d)
        <4>1. ~(d = c /\ n = -1)
          BY <2>4
        <4> QED
          BY <1>7, <2>4, <4>1
      <3> QED
        BY <1>8, <2>1, <2>2, <3>1, <3>2
    <2>5. CASE d = c /\ n = -1
      <3>1. decided'[d] = decided[d] /\ enrolled'[d] = enrolled[d] - 1
        BY <2>2, <2>5
      <3>2. Plus(delta', I \cup {i}, d) = Plus(delta, I, d) /\ Minus(delta', I \cup {i}, d) = Minus(delta, I, d) + 1
        <4>1. ~(d = c /\ n = 1)
          BY <2>5
        <4> QED
          BY <1>7, <2>5, <4>1
      <3> QED
        BY <1>8, <2>1, <2>2, <3>1, <3>2
    <2> QED
      BY <2>3, <2>4, <2>5
  <1>10. ASSUME ~overlapped, NEW d \in Classes, NEW k \in 0 .. MaxRows, NEW L \in {{}, Locked}
        PROVE  Sits(delta', selectedCount[d], Upto(O, k) \cup L, Upto(I \cup {i}, k), d)
    <2>0. L \in SUBSET O
      BY ClassFacts DEF O
    <2>1. CASE k < i
      <3>1. Upto(I \cup {i}, k) = Upto(I, k)
        BY <1>2, <2>1 DEF Upto, Rows
      <3>2. Sits(delta, selectedCount[d], Upto(O, k) \cup L, Upto(I, k), d)
        BY <1>10 DEF FitInv, PrefixesFit, SitsUpto, O, I
      <3>3. /\ \A j \in Upto(O, k) \cup L : delta'[j] = delta[j]
            /\ \A j \in Upto(I, k) : delta'[j] = delta[j]
        BY <1>1, <2>0 DEF Upto
      <3>4. /\ Plus(delta', Upto(O, k) \cup L, d) = Plus(delta, Upto(O, k) \cup L, d)
            /\ Minus(delta', Upto(O, k) \cup L, d) = Minus(delta, Upto(O, k) \cup L, d)
            /\ Plus(delta', Upto(I, k), d) = Plus(delta, Upto(I, k), d)
            /\ Minus(delta', Upto(I, k), d) = Minus(delta, Upto(I, k), d)
        BY <3>3, SumsSame
      <3> QED
        BY <3>1, <3>2, <3>4 DEF Sits
    <2>2. CASE i <= k
      <3>1. Upto(O, k) \cup L = O /\ Upto(I \cup {i}, k) = I \cup {i}
        <4>1. \A j \in I \cup O : j <= k
          BY <1>2, <1>4, <2>2 DEF Rows
        <4> QED
          BY <2>0, <2>2, <4>1 DEF Upto
      <3>3. /\ d = c /\ n = 1 => decided[d] > 0
            /\ d = c /\ n = -1 => enrolled[d] > 0
        OBVIOUS
      <3>4. Sits(delta', selectedCount[d], O, I \cup {i}, d)
        <4>1. CASE d # c
          <5>1. Plus(delta', I \cup {i}, d) = Plus(delta, I, d) /\ Minus(delta', I \cup {i}, d) = Minus(delta, I, d)
            BY <1>7, <4>1
          <5> QED
            BY <1>7, <1>8, <5>1 DEF Sits
        <4>2. CASE d = c /\ n = 1
          <5>1. Plus(delta', I \cup {i}, d) = Plus(delta, I, d) + 1 /\ Minus(delta', I \cup {i}, d) = Minus(delta, I, d)
            <6>1. ~(d = c /\ n = -1)
              BY <4>2
            <6> QED
              BY <1>7, <4>2, <6>1
          <5> QED
            BY <1>7, <1>8, <3>3, <4>2, <5>1 DEF Sits
        <4>3. CASE d = c /\ n = -1
          <5>1. Plus(delta', I \cup {i}, d) = Plus(delta, I, d) /\ Minus(delta', I \cup {i}, d) = Minus(delta, I, d) + 1
            <6>1. ~(d = c /\ n = 1)
              BY <4>3
            <6> QED
              BY <1>7, <4>3, <6>1
          <5> QED
            BY <1>7, <1>8, <3>3, <4>3, <5>1 DEF Sits
        <4> QED
          BY <4>1, <4>2, <4>3
      <3> QED
        BY <3>1, <3>4
    <2> QED
      BY <2>1, <2>2 DEF Rows
  <1>11. PrefixesFit'
    BY <1>1, <1>6, <1>10 DEF PrefixesFit, SitsUpto, O, I
  <1>12. ~overlapped' => OneJob'
    BY DEF FitInv, OneJob
  <1> QED
    BY <1>5, <1>9, <1>11, <1>12 DEF FitInv, SeatsFit

\* The transaction of a row ends: it is open, or gone.
LEMMA EndFits ==
    ASSUME CountInv, FitInv, NEW i \in InStage("inserted"), NEW x \in {"open", "void"},
           stage' = [stage EXCEPT ![i] = x], UNCHANGED <<delta, batch, selectedCount, overlapped>>,
           \A d \in Classes : decided'[d] + enrolled'[d] + dropped'[d] \in Nat,
           \A d \in Classes : d # delta[i].class =>
               decided'[d] + enrolled'[d] + dropped'[d] = decided[d] + enrolled[d] + dropped[d],
           \A d \in Classes : d = delta[i].class =>
               decided'[d] + enrolled'[d] + dropped'[d] = decided[d] + enrolled[d] + dropped[d] + 1
    PROVE  FitInv'
  <1> DEFINE O == InStage("open")
             I == InStage("inserted")
  <1>1. /\ I' = I \ {i} /\ i \notin O /\ O' = IF x = "open" THEN O \cup {i} ELSE O
        /\ delta[i] = [class |-> delta[i].class, n |-> delta[i].n] /\ delta[i].n \in {1, -1}
    BY EndTypes DEF CountInv
  <1>2. /\ O \in SUBSET Rows /\ I \in SUBSET Rows /\ I \ {i} \in SUBSET Rows /\ (I \ {i}) \cap {i} = {}
        /\ {i} \in SUBSET Rows /\ i \in Rows /\ I = (I \ {i}) \cup {i} /\ MaxRows \in Nat
    BY ProjectionAssumption DEF InStage, ProjectionAssumption
  <1>3. InOrder'
    BY DEF InOrder, FitInv, CountInv, TypeOK, InStage
  <1>4. Locked' = Locked
    BY DEF Locked
  <1>5. ASSUME NEW d \in Classes PROVE Taken(d)' <= Capacity[d]
    <2>1. Taken(d)' = decided'[d] + enrolled'[d] + dropped'[d]
                        + (Plus(delta, I \ {i}, d) + Minus(delta, I \ {i}, d))
      BY <1>1, <1>2, UnderWay DEF Taken, Of
    <2>2. /\ Plus(delta, I, d) = Plus(delta, I \ {i}, d) + Plus(delta, {i}, d)
          /\ Minus(delta, I, d) = Minus(delta, I \ {i}, d) + Minus(delta, {i}, d)
      <3> DEFINE K == I \ {i}
      <3>1. K \in SUBSET Rows /\ {i} \in SUBSET Rows /\ K \cap {i} = {} /\ I = K \cup {i}
        BY <1>2
      <3> HIDE DEF K
      <3>2. /\ Plus(delta, K \cup {i}, d) = Plus(delta, K, d) + Plus(delta, {i}, d)
            /\ Minus(delta, K \cup {i}, d) = Minus(delta, K, d) + Minus(delta, {i}, d)
        BY <3>1, SumsAdd
      <3> QED
        BY <3>1, <3>2 DEF K
    <2>3. /\ Plus(delta, I \ {i}, d) \in Nat /\ Minus(delta, I \ {i}, d) \in Nat
          /\ Plus(delta, {i}, d) \in Nat /\ Minus(delta, {i}, d) \in Nat
      BY <1>2, SumsGrow
    <2>4. d = delta[i].class => Plus(delta, {i}, d) + Minus(delta, {i}, d) = 1
      <3>1. delta[i].n = 1 => delta[i] # [class |-> d, n |-> -1]
        OBVIOUS
      <3>2. delta[i].n = -1 => delta[i] # [class |-> d, n |-> 1]
        OBVIOUS
      <3>3. CASE d = delta[i].class /\ delta[i].n = 1
        <4>1. Plus(delta, {i}, d) = 1 /\ Minus(delta, {i}, d) = 0
          BY <1>1, <1>2, <3>1, <3>3, SumsOne
        <4> QED
          BY <4>1
      <3>4. CASE d = delta[i].class /\ delta[i].n = -1
        <4>1. Plus(delta, {i}, d) = 0 /\ Minus(delta, {i}, d) = 1
          BY <1>1, <1>2, <3>2, <3>4, SumsOne
        <4> QED
          BY <4>1
      <3> QED
        BY <1>1, <3>3, <3>4
    <2>5. /\ decided[d] \in Nat /\ enrolled[d] \in Nat /\ dropped[d] \in Nat /\ Capacity[d] \in Nat
          /\ Taken(d) = decided[d] + enrolled[d] + dropped[d] + (Plus(delta, I, d) + Minus(delta, I, d))
          /\ Taken(d) <= Capacity[d]
      BY ClassFacts DEF FitInv, SeatsFit
    <2> HIDE DEF I
    <2>6. CASE d # delta[i].class
      BY <2>1, <2>2, <2>3, <2>5, <2>6
    <2>7. CASE d = delta[i].class
      BY <2>1, <2>2, <2>3, <2>4, <2>5, <2>7
    <2> QED
      BY <2>6, <2>7
  <1>6. ASSUME ~overlapped, NEW d \in Classes, NEW k \in 0 .. MaxRows, NEW L \in {{}, Locked}
        PROVE  Sits(delta, selectedCount[d], Upto(O', k) \cup L, Upto(I', k), d)
    <2> DEFINE X == Upto(O, k) \cup L
               J == Upto(I, k)
    <2>1. L \in SUBSET O /\ selectedCount[d] \in Nat
      BY ClassFacts
    <2>2. Sits(delta, selectedCount[d], X, J, d)
      BY <1>6 DEF FitInv, PrefixesFit, SitsUpto
    <2>3. X \in SUBSET Rows /\ J \in SUBSET Rows /\ i \notin X
      BY <1>1, <1>2, <2>1 DEF Upto
    <2>4. Upto(I', k) = J \ {i}
      BY <1>1 DEF Upto
    <2>5. CASE Upto(O', k) \cup L = X
      <3>1. J \ {i} \in SUBSET J
        OBVIOUS
      <3> HIDE DEF X, J
      <3> QED
        BY <2>1, <2>2, <2>3, <2>4, <2>5, <3>1, SitsFewer
    <2>6. CASE Upto(O', k) \cup L # X
      <3>1. x = "open" /\ i <= k
        BY <1>1, <2>6 DEF Upto
      <3>2. Upto(O', k) \cup L = X \cup {i} /\ i \in J
        BY <1>1, <3>1 DEF Upto
      <3> HIDE DEF X, J
      <3> QED
        BY <2>1, <2>2, <2>3, <2>4, <3>2, SitsCommit
    <2> QED
      BY <2>5, <2>6
  <1>7. PrefixesFit'
    BY <1>4, <1>6 DEF PrefixesFit, SitsUpto
  <1>8. ~overlapped' => OneJob'
    BY DEF FitInv, OneJob
  <1> QED
    BY <1>3, <1>5, <1>7, <1>8 DEF FitInv, SeatsFit

\* A job locks the first rows: they are the open rows up to one of them.
LEMMA LockFits ==
    ASSUME CountInv, FitInv, NEW p \in Projectors, LockRows(p)
    PROVE  FitInv'
  <1> DEFINE O == InStage("open")
             I == InStage("inserted")
             F == FirstRows(O \ Locked, Limit)
  <1>1. /\ UNCHANGED <<decided, enrolled, dropped, delta, stage, selectedCount>>
        /\ batch' = [batch EXCEPT ![p] = F] /\ batch[p] = {}
        /\ overlapped' = (overlapped \/ Locked # {})
    BY DEF LockRows
  <1>2. O' = O /\ I' = I
    BY <1>1 DEF InStage
  <1>3. InOrder' /\ SeatsFit'
    BY <1>1, <1>2 DEF FitInv, InOrder, SeatsFit, Taken, Of
  <1>4. ASSUME ~overlapped'
        PROVE  OneJob' /\ Locked' = F /\ F = FirstRows(O, Limit) /\ ~overlapped
    <2>1. ~overlapped /\ Locked = {}
      BY <1>1, <1>4, Zenon
    <2>2. \A q \in Projectors : batch[q] = {} /\ batch'[q] = IF q = p THEN F ELSE {}
      BY <1>1, <2>1 DEF Locked, CountInv, TypeOK
    <2>3. OneJob' /\ Locked' = F
      BY <2>2 DEF OneJob, Locked
    <2> QED
      BY <2>1, <2>3
  <1>5. ASSUME ~overlapped', NEW d \in Classes, NEW k \in 0 .. MaxRows
        PROVE  Sits(delta, selectedCount[d], Upto(O, k) \cup F, Upto(I, k), d)
    <2>1. O \in SUBSET Rows /\ I \in SUBSET Rows /\ selectedCount[d] \in Nat /\ Limit \in Nat
      BY ClassFacts, ProjectionAssumption DEF ProjectionAssumption
    <2>2. PICK j \in 0 .. MaxRows : F = Upto(O, j)
      BY <1>4, <1>5, <2>1, FirstRowsUpto
    <2>3. \A l \in 0 .. MaxRows : Sits(delta, selectedCount[d], Upto(O, l) \cup {}, Upto(I, l), d)
      BY <1>4, <1>5 DEF FitInv, PrefixesFit, SitsUpto
    <2>4. \A l : Upto(O, l) \cup {} = Upto(O, l) /\ Upto(O, l) \in SUBSET Rows /\ Upto(I, l) \in SUBSET Rows
      BY <2>1 DEF Upto
    <2>5. k \in Int /\ j \in Int /\ \A m \in O \cup I : m \in Int
      BY <2>1 DEF Rows
    <2> HIDE DEF O, I, F
    <2>6. CASE j <= k
      <3>1. Upto(O, k) \cup F = Upto(O, k)
        BY <2>2, <2>5, <2>6 DEF Upto
      <3> QED
        BY <2>3, <2>4, <3>1
    <2>7. CASE k < j
      <3>1. Upto(O, k) \cup F = Upto(O, j) /\ Upto(I, k) \in SUBSET Upto(I, j)
        BY <2>2, <2>5, <2>7 DEF Upto
      <3>2. Sits(delta, selectedCount[d], Upto(O, j), Upto(I, j), d)
        BY <2>3, <2>4
      <3> QED
        BY <2>1, <2>4, <3>1, <3>2, SitsFewer
    <2> QED
      BY <2>5, <2>6, <2>7
  <1>6. PrefixesFit'
    <2> SUFFICES ASSUME ~overlapped', NEW d \in Classes, NEW k \in 0 .. MaxRows
                 PROVE  SitsUpto(d, k, {})' /\ SitsUpto(d, k, Locked)'
      BY DEF PrefixesFit
    <2>1. Sits(delta, selectedCount[d], Upto(O, k) \cup {}, Upto(I, k), d)
      BY <1>4 DEF FitInv, PrefixesFit, SitsUpto
    <2>2. Sits(delta, selectedCount[d], Upto(O, k) \cup F, Upto(I, k), d)
      BY <1>5
    <2> HIDE DEF F
    <2> QED
      BY <1>1, <1>2, <1>4, <2>1, <2>2 DEF SitsUpto
  <1> QED
    BY <1>3, <1>4, <1>6 DEF FitInv

\* The batch of the only job is projected, rejected or lost.
LEMMA BatchFits ==
    ASSUME CountInv, FitInv, NEW p \in Projectors, Project(p) \/ RejectBatch(p) \/ LoseBatch(p)
    PROVE  FitInv'
  <1> DEFINE O == InStage("open")
             I == InStage("inserted")
             B == batch[p]
  <1>1. /\ UNCHANGED <<decided, enrolled, dropped, delta, overlapped>>
        /\ batch' = [batch EXCEPT ![p] = {}] /\ B # {} /\ B \in SUBSET O /\ O \in SUBSET Rows /\ I \in SUBSET Rows
    BY DEF Project, RejectBatch, LoseBatch, CountInv, TypeOK, InStage
  <1>2. I' = I /\ InOrder'
    BY <1>1 DEF Project, RejectBatch, LoseBatch, CountInv, TypeOK, FitInv, InOrder, InStage
  <1>3. SeatsFit'
    BY <1>1, <1>2 DEF FitInv, SeatsFit, Taken, Of
  <1>4. ASSUME ~overlapped PROVE Locked = B /\ Locked' = {} /\ OneJob'
    <2>1. \A q \in Projectors : q # p => batch[q] = {}
      BY <1>1, <1>4 DEF FitInv, OneJob
    <2>2. \A q \in Projectors : batch'[q] = {}
      BY <1>1, <2>1 DEF CountInv, TypeOK
    <2> QED
      BY <2>1, <2>2 DEF Locked, OneJob
  <1>5. ASSUME ~overlapped, NEW d \in Classes, NEW k \in 0 .. MaxRows
        PROVE  Sits(delta, selectedCount'[d], Upto(O', k), Upto(I, k), d)
    <2>1. /\ Sits(delta, selectedCount[d], Upto(O, k) \cup {}, Upto(I, k), d)
          /\ Sits(delta, selectedCount[d], Upto(O, k) \cup B, Upto(I, k), d)
      BY <1>4, <1>5 DEF FitInv, PrefixesFit, SitsUpto
    <2>2. selectedCount[d] \in Nat
      BY ClassFacts
    <2>3. CASE Project(p)
      <3>1. /\ O' = O \ B
            /\ selectedCount'[d] = selectedCount[d] + (Plus(delta, B, d) - Minus(delta, B, d))
        BY <1>1, <2>3 DEF Project, InStage, Net, Of, Plus, Minus, CountInv, TypeOK
      <3> DEFINE X == Upto(O \ B, k)
      <3>2. Upto(O, k) \cup B = X \cup B /\ X \in SUBSET Rows /\ X \cap B = {} /\ B \in SUBSET Rows
            /\ Upto(I, k) \in SUBSET Rows
        BY <1>1 DEF Upto
      <3>3. Upto(O', k) = X
        BY <3>1
      <3> HIDE DEF X, B, O, I
      <3> QED
        BY <2>1, <2>2, <3>1, <3>2, <3>3, SitsProject
    <2>4. CASE RejectBatch(p) \/ LoseBatch(p)
      <3>1. O' = O /\ selectedCount'[d] = selectedCount[d]
        BY <2>4 DEF RejectBatch, LoseBatch, InStage
      <3>2. Upto(O, k) \cup {} = Upto(O, k)
        OBVIOUS
      <3> QED
        BY <2>1, <3>1, <3>2
    <2> QED
      BY <2>3, <2>4
  <1>6. PrefixesFit'
    <2> SUFFICES ASSUME ~overlapped', NEW d \in Classes, NEW k \in 0 .. MaxRows
                 PROVE  SitsUpto(d, k, {})' /\ SitsUpto(d, k, Locked)'
      BY DEF PrefixesFit
    <2>1. Sits(delta, selectedCount'[d], Upto(O', k), Upto(I, k), d) /\ Locked' = {}
      BY <1>1, <1>4, <1>5
    <2>2. Upto(O', k) \cup {} = Upto(O', k)
      OBVIOUS
    <2> QED
      BY <1>1, <1>2, <2>1, <2>2 DEF SitsUpto
  <1> QED
    BY <1>1, <1>2, <1>3, <1>4, <1>6 DEF FitInv

\* Seats are decided within the capacity and given back; processed rows are
\* deleted.
LEMMA OtherFits ==
    ASSUME CountInv, FitInv,
           \/ \E c \in Classes : Decide(c) \/ Release(c)
           \/ \E i \in Rows : CleanUp(i)
           \/ UNCHANGED vars
    PROVE  FitInv'
  <1>1. UNCHANGED <<enrolled, delta, batch, selectedCount, overlapped>>
    BY DEF Decide, Release, CleanUp, vars
  <1>2. InStage("open")' = InStage("open") /\ InStage("inserted")' = InStage("inserted") /\ InOrder'
    BY DEF Decide, Release, CleanUp, vars, InStage, CountInv, TypeOK, FitInv, InOrder
  <1>3. Locked' = Locked /\ (~overlapped' => OneJob')
    BY <1>1 DEF Locked, OneJob, FitInv
  <1>4. PrefixesFit'
    BY <1>1, <1>2, <1>3 DEF PrefixesFit, SitsUpto, FitInv
  <1>5. ASSUME NEW d \in Classes PROVE Taken(d)' <= Capacity[d]
    <2> DEFINE u == Cardinality(Of(InStage("inserted"), d, 1) \cup Of(InStage("inserted"), d, -1))
    <2>1. Taken(d)' = decided'[d] + enrolled[d] + dropped'[d] + u
      BY <1>1, <1>2 DEF Taken, Of
    <2>2. u \in Nat
      <3>1. u = Plus(delta, InStage("inserted"), d) + Minus(delta, InStage("inserted"), d)
        BY UnderWay, ClassFacts DEF Of
      <3> QED
        BY <3>1, ClassFacts
    <2>3. Taken(d) = decided[d] + enrolled[d] + dropped[d] + u /\ Taken(d) <= Capacity[d]
      BY DEF Taken, FitInv, SeatsFit
    <2>4. /\ decided \in [Classes -> Nat] /\ enrolled[d] \in Nat /\ dropped \in [Classes -> Nat]
          /\ Capacity[d] \in Nat
      BY ProjectionAssumption DEF CountInv, TypeOK, ProjectionAssumption
    <2> HIDE DEF u
    <2>5. ASSUME NEW c \in Classes, Decide(c) PROVE Taken(d)' <= Capacity[d]
      <3>1. Taken(c) < Capacity[c] /\ decided' = [decided EXCEPT ![c] = @ + 1] /\ UNCHANGED dropped
        BY <2>5 DEF Decide
      <3> QED
        BY <2>1, <2>2, <2>3, <2>4, <3>1
    <2>6. ASSUME NEW c \in Classes, Release(c) PROVE Taken(d)' <= Capacity[d]
      <3>1. UNCHANGED decided /\ dropped' = [dropped EXCEPT ![c] = @ - 1]
        BY <2>6 DEF Release
      <3> QED
        BY <2>1, <2>2, <2>3, <2>4, <3>1
    <2>7. CASE (\E i \in Rows : CleanUp(i)) \/ UNCHANGED vars
      BY <2>1, <2>3, <2>7 DEF CleanUp, vars
    <2> QED
      BY <2>5, <2>6, <2>7
  <1> QED
    BY <1>2, <1>3, <1>4, <1>5 DEF FitInv, SeatsFit

\* Nothing is decided, inserted or counted at the start.
LEMMA FitInit == Init => FitInv
  <1> SUFFICES ASSUME Init PROVE FitInv
    OBVIOUS
  <1>1. InStage("open") = {} /\ InStage("inserted") = {} /\ Locked = {} /\ CountInv
    BY CountInit DEF Init, InStage, Locked
  <1>2. InOrder /\ OneJob
    BY DEF Init, InOrder, OneJob
  <1>3. ASSUME NEW c \in Classes
        PROVE  /\ Capacity[c] \in Nat /\ Plus(delta, {}, c) = 0 /\ Minus(delta, {}, c) = 0
               /\ selectedCount[c] = 0 /\ decided[c] = 0 /\ enrolled[c] = 0 /\ dropped[c] = 0
    BY ProjectionAssumption, FS_EmptySet DEF ProjectionAssumption, Plus, Minus, Init
  <1>4. SeatsFit
    <2> SUFFICES ASSUME NEW c \in Classes PROVE Taken(c) <= Capacity[c]
      BY DEF SeatsFit
    <2>1. Taken(c) = decided[c] + enrolled[c] + dropped[c] + (Plus(delta, {}, c) + Minus(delta, {}, c))
      BY <1>1, ClassFacts
    <2> QED
      BY <1>3, <2>1
  <1>5. PrefixesFit
    <2> SUFFICES ASSUME NEW c \in Classes, NEW k \in 0 .. MaxRows
                 PROVE  SitsUpto(c, k, {}) /\ SitsUpto(c, k, Locked)
      BY DEF PrefixesFit
    <2>1. Upto({}, k) = {} /\ {} \cup {} = {}
      BY DEF Upto
    <2>2. Sits(delta, selectedCount[c], {}, {}, c)
      BY <1>3 DEF Sits
    <2> QED
      BY <1>1, <2>1, <2>2 DEF SitsUpto
  <1> QED
    BY <1>2, <1>4, <1>5 DEF FitInv

\* Committing and rolling back give the seat of the row back to one of the
\* three counts of its class.
LEMMA EndCounts ==
    ASSUME CountInv, NEW i \in Rows, CommitRow(i) \/ RollBackRow(i), NEW d \in Classes
    PROVE  /\ decided'[d] + enrolled'[d] + dropped'[d] \in Nat
           /\ d # delta[i].class =>
                decided'[d] + enrolled'[d] + dropped'[d] = decided[d] + enrolled[d] + dropped[d]
           /\ d = delta[i].class =>
                decided'[d] + enrolled'[d] + dropped'[d] = decided[d] + enrolled[d] + dropped[d] + 1
  <1>1. decided \in [Classes -> Nat] /\ enrolled \in [Classes -> Nat] /\ dropped \in [Classes -> Nat]
    BY DEF CountInv, TypeOK
  <1>2. \/ enrolled' = Counts(enrolled, delta[i], 1) /\ UNCHANGED <<decided, dropped>>
        \/ dropped' = Counts(dropped, delta[i], 1) /\ UNCHANGED <<decided, enrolled>>
        \/ decided' = Counts(decided, delta[i], 1) /\ UNCHANGED <<enrolled, dropped>>
    BY DEF CommitRow, RollBackRow
  <1>3. decided[d] \in Nat /\ enrolled[d] \in Nat /\ dropped[d] \in Nat
    BY <1>1
  <1> QED
    BY <1>1, <1>2, <1>3 DEF Counts

\* Every step keeps the fit.
LEMMA FitStep == CountInv /\ FitInv /\ [Next]_vars => FitInv'
  <1> SUFFICES ASSUME CountInv, FitInv, [Next]_vars PROVE FitInv'
    OBVIOUS
  <1>1. ASSUME NEW i \in Rows, NEW c \in Classes, InsertEnrollment(i, c) PROVE FitInv'
    <2>1. /\ InsertRow(i, c, 1) /\ UNCHANGED <<batch, selectedCount, overlapped, dropped>>
          /\ decided[c] > 0 /\ decided' = [decided EXCEPT ![c] = @ - 1] /\ UNCHANGED enrolled
      BY <1>1 DEF InsertEnrollment
    <2>2. 1 \in {1, -1} /\ 1 # -1
      OBVIOUS
    <2> QED
      BY <2>1, <2>2, InsertFits, Zenon
  <1>2. ASSUME NEW i \in Rows, NEW c \in Classes, InsertDrop(i, c) PROVE FitInv'
    <2>1. /\ InsertRow(i, c, -1) /\ UNCHANGED <<batch, selectedCount, overlapped, dropped>>
          /\ enrolled[c] > 0 /\ enrolled' = [enrolled EXCEPT ![c] = @ - 1] /\ UNCHANGED decided
      BY <1>2 DEF InsertDrop
    <2>2. -1 \in {1, -1} /\ -1 # 1
      OBVIOUS
    <2> QED
      BY <2>1, <2>2, InsertFits, Zenon
  <1>3. ASSUME NEW i \in Rows, CommitRow(i) PROVE FitInv'
    <2>1. /\ i \in InStage("inserted") /\ stage' = [stage EXCEPT ![i] = "open"]
          /\ UNCHANGED <<delta, batch, selectedCount, overlapped>>
      BY <1>3 DEF CommitRow, InStage
    <2> QED
      BY <1>3, <2>1, EndCounts, EndFits
  <1>4. ASSUME NEW i \in Rows, RollBackRow(i) PROVE FitInv'
    <2>1. /\ i \in InStage("inserted") /\ stage' = [stage EXCEPT ![i] = "void"]
          /\ UNCHANGED <<delta, batch, selectedCount, overlapped>>
      BY <1>4 DEF RollBackRow, InStage
    <2> QED
      BY <1>4, <2>1, EndCounts, EndFits
  <1>5. ASSUME NEW p \in Projectors, LockRows(p) PROVE FitInv'
    BY <1>5, LockFits
  <1>6. ASSUME NEW p \in Projectors, Project(p) \/ RejectBatch(p) \/ LoseBatch(p) PROVE FitInv'
    BY <1>6, BatchFits
  <1>7. CASE \/ \E c \in Classes : Decide(c) \/ Release(c)
             \/ \E i \in Rows : CleanUp(i)
             \/ UNCHANGED vars
    BY <1>7, OtherFits
  <1> QED
    BY <1>1, <1>2, <1>3, <1>4, <1>5, <1>6, <1>7 DEF Next

\* As long as jobs have not overlapped, the guard 0 <= selected_count <=
\* capacity holds for the next batch, whatever part of the rows it sees and in
\* whatever order they have committed (ProjectPendingEnrollmentCounts).
THEOREM BatchesFit == Spec => []NextBatchFits
  <1>1. CountInv /\ FitInv => NextBatchFits
    <2> SUFFICES ASSUME CountInv, FitInv, ~overlapped, NEW c \in Classes
                 PROVE  selectedCount[c] + Net(FirstRows(InStage("open"), Limit), c) \in 0 .. Capacity[c]
      BY DEF NextBatchFits, Fits
    <2> DEFINE O == InStage("open")
               I == InStage("inserted")
    <2>1. O \in SUBSET Rows /\ I \in SUBSET Rows /\ selectedCount[c] \in Nat /\ Capacity[c] \in Nat /\ Limit \in Nat
      BY ClassFacts, ProjectionAssumption DEF ProjectionAssumption
    <2>2. PICK k \in 0 .. MaxRows : FirstRows(O, Limit) = Upto(O, k)
      BY <2>1, FirstRowsUpto
    <2> DEFINE F == FirstRows(O, Limit)
               J == Upto(I, k)
    <2>3. Upto(O, k) \cup {} = F /\ F \in SUBSET Rows /\ J \in SUBSET Rows
      BY <2>1, <2>2 DEF Upto
    <2>4. Sits(delta, selectedCount[c], F, J, c)
      BY <2>3 DEF FitInv, PrefixesFit, SitsUpto
    <2>5. /\ Plus(delta, F, c) \in Nat /\ Minus(delta, F, c) \in Nat
          /\ Plus(delta, J, c) \in Nat /\ Minus(delta, J, c) \in Nat
      BY <2>3, SumsGrow
    <2>6. Net(F, c) = Plus(delta, F, c) - Minus(delta, F, c)
      BY DEF Net, Of, Plus, Minus
    <2> HIDE DEF F, J
    <2>7. selectedCount[c] + Net(F, c) \in 0 .. Capacity[c]
      BY <2>1, <2>4, <2>5, <2>6 DEF Sits
    <2> QED
      BY <2>7 DEF F
  <1> QED
    BY CountInit, CountStep, FitInit, FitStep, <1>1, PTL DEF Spec
=============================================================================
