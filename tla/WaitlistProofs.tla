---------------------------- MODULE WaitlistProofs ----------------------------
(***************************************************************************)
(* Proofs about the waiting list, for every number of students, entries,   *)
(* seats, promotion jobs and failures, and every batch size.               *)
(*                                                                         *)
(* Two jobs may work on the same entry once one of them was slow, so what  *)
(* holds in every state is weak: an entry is marked as promoted only after *)
(* its course was chosen (MarkDecided), and a settled entry is never       *)
(* touched again.  As long as nothing has failed, Calm says more: a row on *)
(* the list of a job is claimed and its claim is fresh, unless the student *)
(* has cancelled it; no other job has it; and a row whose course was       *)
(* chosen is the one its job is about to mark, or is settled.  So what a   *)
(* job cancels is a row whose course was not chosen.                       *)
(***************************************************************************)
EXTENDS Waitlist, FiniteSetTheorems, SequenceTheorems, NaturalsInduction, WellFoundedInduction, TLAPS

EntryType == [student : Students, request : Requests, state : EntryStates, reason : Reasons,
              stale : BOOLEAN]
Busy == {"expire", "query", "admit", "commit", "mark", "return", "cancel"}
JobType == [pc : Busy \cup {"idle", "claim"}, sawOpen : BOOLEAN, todo : SUBSET Nat]

ListTypes ==
    /\ entry \in Seq(EntryType)
    /\ decided \subseteq Ids
    /\ worker \in [Workers -> JobType] /\ \A w \in Workers : worker[w].todo \subseteq Ids
    /\ failures \in 0 .. MaxFailures

\* A job has entries to work on exactly while it works on them.
Jobs == \A w \in Workers : worker[w].todo = {} <=> worker[w].pc \in {"idle", "claim"}

\* What a job is about to mark was chosen, and so was what is marked.
MarkDecided == \A w \in Workers : worker[w].pc = "mark" => Current(w) \in decided
PromotedWasChosen == \A i \in Ids : entry[i].state = "promoted" => i \in decided

InHand(e) == e.state = "promoting" /\ e.stale = FALSE
ByStudent(e) == e.state = "cancelled" /\ e.reason = "student"

\* What is on the list of a job was claimed by it and is still claimed.
Claims == \A w \in Workers : \A i \in worker[w].todo : InHand(entry[i]) \/ ByStudent(entry[i])
Apart == \A v, w \in Workers : v # w => worker[v].todo \cap worker[w].todo = {}

\* What was chosen is settled or on the list of a job, and then the job marks
\* it next.
DecidedRows == \A i \in decided : \/ entry[i].state = "promoted" \/ ByStudent(entry[i])
                                  \/ \E w \in Workers : i \in worker[w].todo
DecidedLast == \A w \in Workers : \A i \in worker[w].todo :
                  i \in decided => worker[w].pc = "mark" /\ i = Current(w)

Calm == failures = 0 => Claims /\ Apart /\ DecidedRows /\ DecidedLast

ListInv == ListTypes /\ Jobs /\ MarkDecided /\ PromotedWasChosen /\ Calm

-----------------------------------------------------------------------------
(***************************************************************************)
(* Rows and batches.                                                       *)
(***************************************************************************)

\* A set of ids that is not empty has a first one.
LEMMA FirstId ==
    ASSUME NEW S \in SUBSET Nat, S # {}
    PROVE  Min(S) \in S /\ \A y \in S : Min(S) <= y
  <1>1. PICK x \in S : \A y \in S : ~ (<<y, x>> \in OpToRel(<, Nat))
    BY NatLessThanWellFounded, WFMin
  <1>2. \A y \in S : x \in Nat /\ y \in Nat /\ ~(y < x)
    BY <1>1 DEF OpToRel
  <1>3. \A y \in S : x <= y
    BY <1>2
  <1> QED
    BY <1>1, <1>3 DEF Min

\* The ids of the table are numbers.
LEMMA IdsAreNumbers ==
    ASSUME ListTypes
    PROVE  Len(entry) \in Nat /\ Ids \in SUBSET Nat /\ DOMAIN entry = Ids /\ entry \in [Ids -> EntryType]
  BY LenProperties DEF ListTypes, Ids

\* The entry a job works on is on its list.
LEMMA CurrentIsListed ==
    ASSUME ListTypes, Jobs, NEW w \in Workers, worker[w].pc \in Busy
    PROVE  Current(w) \in worker[w].todo /\ Current(w) \in Ids
  <1>1. worker[w].todo \in SUBSET Nat /\ worker[w].todo # {} /\ worker[w].todo \subseteq Ids
    BY DEF ListTypes, Jobs, JobType, Busy
  <1> QED
    BY <1>1, FirstId DEF Current

\* LIMIT takes rows of the result, and some if there are any.
LEMMA BatchTaken ==
    ASSUME NEW S \in SUBSET Nat
    PROVE  First(S) \subseteq S /\ (First(S) = {} <=> S = {})
  <1>1. First(S) \subseteq S
    BY DEF First
  <1>2. ASSUME S # {} PROVE First(S) # {}
    <2>1. PICK m \in S : \A y \in S : m <= y
      BY <1>2, FirstId
    <2>2. {j \in S : j < m} = {}
      <3>1. ASSUME NEW y \in S PROVE ~(y < m)
        <4>1. y \in Nat /\ m \in Nat /\ m <= y
          BY <2>1
        <4> QED
          BY <4>1
      <3> QED
        BY <3>1, Zenon
    <2>3. Cardinality({j \in S : j < m}) = 0
      BY <2>2, FS_EmptySet
    <2>4. 0 < BatchSize
      BY WaitlistConstants DEF WaitlistConstants
    <2> QED
      BY <2>1, <2>3, <2>4 DEF First
  <1> QED
    BY <1>1, <1>2

\* A table with the same ids is a table.
LEMMA SameIds ==
    ASSUME ListTypes, entry' \in [Ids -> EntryType]
    PROVE  entry' \in Seq(EntryType) /\ Len(entry') = Len(entry) /\ Ids' = Ids
  <1>1. Len(entry) \in Nat /\ DOMAIN entry' = 1 .. Len(entry)
    BY LenProperties DEF ListTypes, Ids
  <1>2. entry' \in Seq(EntryType)
    BY <1>1 DEF Ids
  <1>3. Len(entry') = Len(entry)
    BY <1>1, <1>2, LenProperties
  <1> QED
    BY <1>2, <1>3 DEF Ids

\* An update of one row leaves the others alone.
LEMMA OneRow ==
    ASSUME ListTypes, NEW i \in Ids, NEW new \in EntryType, entry' = [entry EXCEPT ![i] = new]
    PROVE  /\ entry' \in Seq(EntryType) /\ Ids' = Ids
           /\ entry'[i] = new /\ \A j \in Ids \ {i} : entry'[j] = entry[j]
  <1>1. entry \in [Ids -> EntryType]
    BY IdsAreNumbers
  <1>2. entry' \in [Ids -> EntryType]
    BY <1>1
  <1> QED
    BY <1>1, <1>2, SameIds

\* A job that goes to its next step keeps its list.
LEMMA GotoEffect ==
    ASSUME ListTypes, NEW w \in Workers, NEW pc \in Busy, Goto(w, pc)
    PROVE  /\ worker' \in [Workers -> JobType]
           /\ worker'[w].pc = pc /\ worker'[w].todo = worker[w].todo
           /\ \A v \in Workers \ {w} : worker'[v] = worker[v]
  BY DEF ListTypes, Goto, JobType

\* A job that ends has no list.
LEMMA EndEffect ==
    ASSUME ListTypes, NEW w \in Workers, End(w)
    PROVE  /\ worker' \in [Workers -> JobType]
           /\ worker'[w].pc = "idle" /\ worker'[w].todo = {}
           /\ \A v \in Workers \ {w} : worker'[v] = worker[v]
  <1>1. Idle \in JobType /\ Idle.pc = "idle" /\ Idle.todo = {}
    BY DEF Idle, JobType
  <1> HIDE DEF Idle
  <1> QED
    BY <1>1 DEF ListTypes, End

\* A job that is done with an entry takes it from its list.
LEMMA ProceedEffect ==
    ASSUME ListTypes, NEW w \in Workers, NEW pc \in Busy, NEW after \in {"idle", "claim"},
           Proceed(w, pc, after), Current(w) \in worker[w].todo
    PROVE  /\ worker' \in [Workers -> JobType]
           /\ worker'[w].todo = worker[w].todo \ {Current(w)}
           /\ worker'[w].pc = IF worker'[w].todo = {} THEN after ELSE pc
           /\ \A v \in Workers \ {w} : worker'[v] = worker[v]
  <1> DEFINE i == Current(w)
             one == [worker EXCEPT ![w].todo = @ \ {i}]
             next == IF worker[w].todo = {i} THEN after ELSE pc
  <1>1. worker' = [one EXCEPT ![w].pc = next]
    BY DEF Proceed
  <1>2. next \in Busy \cup {"idle", "claim"} /\ next = IF worker[w].todo \ {i} = {} THEN after ELSE pc
    OBVIOUS
  <1> HIDE DEF i, next
  <1>3. /\ one \in [Workers -> JobType] /\ one[w].todo = worker[w].todo \ {i}
        /\ \A v \in Workers \ {w} : one[v] = worker[v]
    BY DEF ListTypes, JobType
  <1> HIDE DEF one
  <1>4. /\ worker' \in [Workers -> JobType] /\ worker'[w].todo = one[w].todo /\ worker'[w].pc = next
        /\ \A v \in Workers \ {w} : worker'[v] = one[v]
    BY <1>1, <1>2, <1>3 DEF JobType
  <1> QED
    BY <1>2, <1>3, <1>4 DEF i

-----------------------------------------------------------------------------
(***************************************************************************)
(* The four ways in which a step changes lists and rows.                   *)
(***************************************************************************)

\* A job goes on, and may have chosen the course of its entry.
LEMMA GoOn ==
    ASSUME ListInv, NEW w \in Workers, worker[w].pc \in Busy, NEW pc \in Busy, Goto(w, pc),
           UNCHANGED entry,
           decided' = decided \/ decided' = decided \cup {Current(w)},
           pc = "mark" => Current(w) \in decided',
           failures' \in 0 .. MaxFailures, failures' = 0 => failures = 0,
           failures' = 0 /\ Current(w) \in decided' => pc = "mark"
    PROVE  ListInv'
  <1> DEFINE i == Current(w)
  <1>1. i \in worker[w].todo /\ i \in Ids
    BY CurrentIsListed DEF ListInv
  <1>2. /\ worker' \in [Workers -> JobType] /\ worker'[w].pc = pc /\ worker'[w].todo = worker[w].todo
        /\ \A v \in Workers \ {w} : worker'[v] = worker[v]
    BY GotoEffect DEF ListInv
  <1>3. \A v \in Workers : worker'[v].todo = worker[v].todo /\ Current(v)' = Current(v)
    BY <1>2 DEF Current
  <1>4. Ids' = Ids
    BY DEF Ids
  <1>5. decided' = decided \/ decided' = decided \cup {i}
    OBVIOUS
  <1>6. (pc = "mark" => i \in decided') /\ (failures' = 0 /\ i \in decided' => pc = "mark")
    OBVIOUS
  <1> HIDE DEF i
  <1>7. ListTypes'
    BY <1>1, <1>2, <1>3, <1>4, <1>5 DEF ListInv, ListTypes
  <1>8. Jobs'
    BY <1>2, <1>3 DEF ListInv, Jobs, Busy
  <1>9. MarkDecided'
    <2>1. ASSUME NEW v \in Workers, worker'[v].pc = "mark" PROVE Current(v) \in decided'
      <3>1. CASE v = w
        BY <1>2, <1>6, <2>1, <3>1 DEF i
      <3>2. CASE v # w
        BY <1>2, <1>5, <2>1, <3>2 DEF ListInv, MarkDecided
      <3> QED
        BY <3>1, <3>2
    <2> QED
      BY <1>3, <2>1 DEF MarkDecided
  <1>10. PromotedWasChosen'
    BY <1>4, <1>5 DEF ListInv, PromotedWasChosen
  <1>11. Calm'
    <2> SUFFICES ASSUME failures' = 0 PROVE (Claims /\ Apart /\ DecidedRows /\ DecidedLast)'
      BY DEF Calm
    <2>1. Claims /\ Apart /\ DecidedRows /\ DecidedLast
      BY DEF ListInv, Calm
    <2>2. Claims'
      BY <1>3, <2>1 DEF Claims
    <2>3. Apart'
      BY <1>3, <2>1 DEF Apart
    <2>4. DecidedRows'
      BY <1>1, <1>3, <1>5, <2>1 DEF DecidedRows
    <2>5. DecidedLast'
      <3>1. ASSUME NEW v \in Workers, NEW j \in worker[v].todo, j \in decided'
            PROVE  worker'[v].pc = "mark" /\ j = Current(v)
        <4>1. CASE v = w /\ j = i
          BY <1>2, <1>6, <3>1, <4>1 DEF i
        <4>2. CASE v = w /\ j # i
          BY <1>5, <2>1, <3>1, <4>2 DEF DecidedLast, i
        <4>3. CASE v # w
          <5>1. j # i
            BY <1>1, <2>1, <4>3 DEF Apart
          <5> QED
            BY <1>2, <1>5, <2>1, <3>1, <4>3, <5>1 DEF DecidedLast
        <4> QED
          BY <4>1, <4>2, <4>3
      <3> QED
        BY <1>3, <3>1 DEF DecidedLast
    <2> QED
      BY <2>2, <2>3, <2>4, <2>5
  <1> QED
    BY <1>7, <1>8, <1>9, <1>10, <1>11 DEF ListInv

\* A job settles its entry, or gives it back, and takes it from its list.
LEMMA DoneWithCurrent ==
    ASSUME ListInv, NEW w \in Workers, worker[w].pc \in Busy, NEW new \in EntryType,
           entry' = [entry EXCEPT ![Current(w)] = new],
           worker' \in [Workers -> JobType], worker'[w].todo \subseteq worker[w].todo \ {Current(w)},
           worker'[w].todo = {} <=> worker'[w].pc \in {"idle", "claim"}, worker'[w].pc # "mark",
           \A v \in Workers \ {w} : worker'[v] = worker[v],
           UNCHANGED <<decided, failures>>,
           new.state = "promoted" => Current(w) \in decided,
           failures = 0 /\ Current(w) \in decided => new.state = "promoted" \/ ByStudent(new)
    PROVE  ListInv'
  <1> DEFINE i == Current(w)
  <1>1. i \in worker[w].todo /\ i \in Ids
    BY CurrentIsListed DEF ListInv
  <1>2. /\ entry' \in Seq(EntryType) /\ Ids' = Ids
        /\ entry'[i] = new /\ \A j \in Ids \ {i} : entry'[j] = entry[j]
    BY <1>1, OneRow DEF ListInv
  <1>3. worker'[w].todo \subseteq worker[w].todo \ {i}
    OBVIOUS
  <1>4. /\ new.state = "promoted" => i \in decided
        /\ failures = 0 /\ i \in decided => new.state = "promoted" \/ ByStudent(new)
    OBVIOUS
  <1>5. \A v \in Workers \ {w} : Current(v)' = Current(v)
    BY DEF Current
  <1>6. \A v \in Workers : worker[v].todo \subseteq Ids /\ worker'[v].todo \subseteq worker[v].todo
    BY <1>3 DEF ListInv, ListTypes
  <1> HIDE DEF i
  <1>7. ListTypes'
    BY <1>2, <1>6 DEF ListInv, ListTypes
  <1>8. Jobs'
    BY DEF ListInv, Jobs
  <1>9. MarkDecided'
    BY <1>5 DEF ListInv, MarkDecided
  <1>10. PromotedWasChosen'
    BY <1>1, <1>2, <1>4 DEF ListInv, PromotedWasChosen
  <1>11. Calm'
    <2> SUFFICES ASSUME failures' = 0 PROVE (Claims /\ Apart /\ DecidedRows /\ DecidedLast)'
      BY DEF Calm
    <2>1. failures = 0 /\ Claims /\ Apart /\ DecidedRows /\ DecidedLast
      BY DEF ListInv, Calm
    <2>2. \A v \in Workers : i \notin worker'[v].todo
      BY <1>1, <1>3, <2>1 DEF Apart
    <2>3. Claims'
      BY <1>2, <1>6, <2>1, <2>2 DEF Claims
    <2>4. Apart'
      BY <1>6, <2>1 DEF Apart
    <2>5. ASSUME NEW j \in worker[w].todo \ {i} PROVE j \notin decided
      BY <2>1, <2>5 DEF DecidedLast, i
    <2>6. DecidedRows'
      <3>1. ASSUME NEW j \in decided
            PROVE  entry'[j].state = "promoted" \/ ByStudent(entry'[j]) \/ \E v \in Workers : j \in worker'[v].todo
        <4>1. CASE j = i
          BY <1>2, <1>4, <2>1, <3>1, <4>1
        <4>2. CASE j # i
          <5>1. j \in Ids /\ entry'[j] = entry[j]
            BY <1>2, <4>2 DEF ListInv, ListTypes
          <5>2. \A v \in Workers : j \in worker[v].todo => j \in worker'[v].todo
            BY <2>5, <4>2
          <5> QED
            BY <2>1, <5>1, <5>2 DEF DecidedRows
        <4> QED
          BY <4>1, <4>2
      <3> QED
        BY <3>1 DEF DecidedRows, ByStudent
    <2>7. DecidedLast'
      BY <1>3, <1>5, <2>1, <2>5 DEF DecidedLast
    <2> QED
      BY <2>3, <2>4, <2>6, <2>7
  <1> QED
    BY <1>7, <1>8, <1>9, <1>10, <1>11 DEF ListInv

\* A claim can be made on a row that is waiting or whose claim is old.
Free(e) == e.state = "waiting" \/ (e.state = "promoting" /\ e.stale = TRUE)

\* A job without a list claims rows; old claims may go back to the queue.
LEMMA ClaimRows ==
    ASSUME ListInv, NEW w \in Workers, worker[w].todo = {}, NEW S \in SUBSET Ids,
           entry' \in [Ids -> EntryType],
           \A i \in S : Free(entry[i]) /\ InHand(entry'[i]),
           \A i \in Ids \ S : entry'[i] = entry[i] \/ (Free(entry[i]) /\ entry'[i].state = "waiting"),
           worker' \in [Workers -> JobType], worker'[w].todo = S,
           S = {} <=> worker'[w].pc \in {"idle", "claim"}, worker'[w].pc # "mark",
           \A v \in Workers \ {w} : worker'[v] = worker[v],
           UNCHANGED <<decided, failures>>
    PROVE  ListInv'
  <1>1. entry' \in Seq(EntryType) /\ Ids' = Ids
    BY SameIds DEF ListInv
  <1>2. \A v \in Workers \ {w} : Current(v)' = Current(v)
    BY DEF Current
  <1>3. ListTypes'
    BY <1>1 DEF ListInv, ListTypes
  <1>4. Jobs'
    BY DEF ListInv, Jobs
  <1>5. MarkDecided'
    BY <1>2 DEF ListInv, MarkDecided
  <1>6. PromotedWasChosen'
    BY <1>1 DEF ListInv, PromotedWasChosen, InHand
  <1>7. Calm'
    <2> SUFFICES ASSUME failures' = 0 PROVE (Claims /\ Apart /\ DecidedRows /\ DecidedLast)'
      BY DEF Calm
    <2>1. failures = 0 /\ Claims /\ Apart /\ DecidedRows /\ DecidedLast
      BY DEF ListInv, Calm
    <2>2. ASSUME NEW i \in Ids, Free(entry[i])
          PROVE  (\A v \in Workers : i \notin worker[v].todo) /\ i \notin decided
      BY <2>1, <2>2 DEF Claims, DecidedRows, Free, InHand, ByStudent
    <2>3. ASSUME NEW i \in Ids, \/ i \in decided \/ \E v \in Workers : i \in worker[v].todo
          PROVE  i \notin S /\ entry'[i] = entry[i]
      BY <2>2, <2>3
    <2>4. \A v \in Workers : worker[v].todo \subseteq Ids
      BY DEF ListInv, ListTypes
    <2>5. Claims'
      BY <2>1, <2>3, <2>4 DEF Claims, InHand, ByStudent
    <2>6. Apart'
      BY <2>1, <2>3, <2>4 DEF Apart
    <2>7. DecidedRows'
      <3>1. \A i \in decided : i \in Ids /\ entry'[i] = entry[i]
        BY <2>3 DEF ListInv, ListTypes
      <3>2. \A v \in Workers : worker[v].todo \subseteq worker'[v].todo
        OBVIOUS
      <3> QED
        BY <2>1, <3>1, <3>2 DEF DecidedRows, ByStudent
    <2>8. DecidedLast'
      <3>1. \A i \in S : i \notin decided
        BY <2>3
      <3> QED
        BY <1>2, <2>1, <3>1 DEF DecidedLast
    <2> QED
      BY <2>5, <2>6, <2>7, <2>8
  <1> QED
    BY <1>3, <1>4, <1>5, <1>6, <1>7 DEF ListInv

\* A row changes by itself: the student cancels it or its claim grows old.
LEMMA RowChanges ==
    ASSUME ListInv, NEW i \in Ids, NEW new \in EntryType, entry' = [entry EXCEPT ![i] = new],
           UNCHANGED <<decided, worker>>, failures' \in 0 .. MaxFailures, failures' = 0 => failures = 0,
           entry[i].state \in Active, new.state # "promoted",
           failures' = 0 => ByStudent(new) \/ \A w \in Workers : i \notin worker[w].todo
    PROVE  ListInv'
  <1>1. /\ entry' \in Seq(EntryType) /\ Ids' = Ids
        /\ entry'[i] = new /\ \A j \in Ids \ {i} : entry'[j] = entry[j]
    BY OneRow DEF ListInv
  <1>2. ListTypes'
    BY <1>1 DEF ListInv, ListTypes
  <1>3. Jobs'
    BY DEF ListInv, Jobs
  <1>4. MarkDecided'
    BY DEF ListInv, MarkDecided, Current
  <1>5. PromotedWasChosen'
    BY <1>1 DEF ListInv, PromotedWasChosen
  <1>6. Calm'
    <2> SUFFICES ASSUME failures' = 0 PROVE (Claims /\ Apart /\ DecidedRows /\ DecidedLast)'
      BY DEF Calm
    <2>1. failures = 0 /\ Claims /\ Apart /\ DecidedRows /\ DecidedLast
      BY DEF ListInv, Calm
    <2>2. Apart' /\ DecidedLast'
      BY <2>1 DEF Apart, DecidedLast, Current
    <2>3. \A v \in Workers : worker[v].todo \subseteq Ids
      BY DEF ListInv, ListTypes
    <2>4. Claims'
      BY <1>1, <2>1, <2>3 DEF Claims
    <2>5. i \in decided => ByStudent(new)
      <3>1. i \in decided => \E w \in Workers : i \in worker[w].todo
        BY <2>1 DEF DecidedRows, ByStudent, Active
      <3> QED
        BY <3>1
    <2>6. DecidedRows'
      <3>1. \A j \in decided : j \in Ids
        BY DEF ListInv, ListTypes
      <3> QED
        BY <1>1, <2>1, <2>5, <3>1 DEF DecidedRows
    <2> QED
      BY <2>2, <2>4, <2>6
  <1> QED
    BY <1>2, <1>3, <1>4, <1>5, <1>6 DEF ListInv

-----------------------------------------------------------------------------
(***************************************************************************)
(* The steps.                                                              *)
(***************************************************************************)

\* A further failure stays within the bound, and then something has failed.
LEMMA FailureCounts ==
    ASSUME failures \in 0 .. MaxFailures, Failure
    PROVE  failures' \in 0 .. MaxFailures /\ failures' # 0
  BY WaitlistConstants DEF Failure, WaitlistConstants

\* A new row is waiting, and its id is new.
LEMMA JoinList ==
    ASSUME ListInv, NEW s \in Students, NEW r \in Requests, Join(s, r)
    PROVE  ListInv'
  <1> DEFINE new == [student |-> s, request |-> r, state |-> "waiting", reason |-> "none", stale |-> FALSE]
             n == Len(entry)
  <1>1. new \in EntryType /\ new.state = "waiting"
    BY DEF EntryType, EntryStates, Active, Reasons
  <1>2. entry' = Append(entry, new) /\ UNCHANGED <<decided, worker, failures>>
    BY DEF Join, redis
  <1>3. entry \in Seq(EntryType) /\ n \in Nat
    BY IdsAreNumbers DEF ListInv, ListTypes
  <1> HIDE DEF new
  <1>4. entry' \in Seq(EntryType) /\ Len(entry') = n + 1 /\ entry'[n + 1] = new
        /\ \A i \in 1 .. n : entry'[i] = entry[i]
    BY <1>1, <1>2, <1>3
  <1>5. Ids \subseteq Ids' /\ Ids' = Ids \cup {n + 1} /\ \A i \in Ids : entry'[i] = entry[i]
    BY <1>3, <1>4 DEF Ids
  <1>6. ListTypes'
    BY <1>2, <1>4, <1>5 DEF ListInv, ListTypes
  <1>7. Jobs' /\ MarkDecided'
    BY <1>2 DEF ListInv, Jobs, MarkDecided, Current
  <1> HIDE DEF n
  <1>8. PromotedWasChosen'
    BY <1>1, <1>2, <1>4, <1>5 DEF ListInv, PromotedWasChosen
  <1>9. Calm'
    <2> SUFFICES ASSUME failures' = 0 PROVE (Claims /\ Apart /\ DecidedRows /\ DecidedLast)'
      BY DEF Calm
    <2>1. Claims /\ Apart /\ DecidedRows /\ DecidedLast
      BY <1>2 DEF ListInv, Calm
    <2>2. decided \subseteq Ids /\ \A v \in Workers : worker[v].todo \subseteq Ids
      BY DEF ListInv, ListTypes
    <2>3. Apart' /\ DecidedLast'
      BY <1>2, <2>1 DEF Apart, DecidedLast, Current
    <2>4. Claims'
      <3>1. ASSUME NEW v \in Workers, NEW i \in worker[v].todo PROVE InHand(entry'[i]) \/ ByStudent(entry'[i])
        <4>1. entry'[i] = entry[i]
          BY <1>5, <2>2
        <4> QED
          BY <2>1, <4>1 DEF Claims
      <3> QED
        BY <1>2, <3>1 DEF Claims, InHand, ByStudent
    <2>5. DecidedRows'
      BY <1>2, <1>5, <2>1, <2>2 DEF DecidedRows, ByStudent
    <2> QED
      BY <2>3, <2>4, <2>5
  <1> QED
    BY <1>6, <1>7, <1>8, <1>9 DEF ListInv

\* The row of a cancelled entry.
LEMMA CancelledRow ==
    ASSUME NEW e \in EntryType, NEW why \in Reasons
    PROVE  /\ Cancelled(e, why) \in EntryType
           /\ e.state \notin Active => Cancelled(e, why) = e
           /\ e.state \in Active => Cancelled(e, why).state = "cancelled" /\ Cancelled(e, why).reason = why
  BY DEF Cancelled, EntryType, EntryStates, Active

\* The student cancels.
LEMMA CancelList ==
    ASSUME ListInv, NEW i \in Ids, Cancel(i)
    PROVE  ListInv'
  <1> DEFINE new == Cancelled(entry[i], "student")
  <1>1. entry[i] \in EntryType /\ entry[i].state \in Active
    BY IdsAreNumbers DEF ListInv, Cancel
  <1>2. entry' = [entry EXCEPT ![i] = new] /\ UNCHANGED <<decided, worker, failures>>
    BY DEF Cancel, redis
  <1>3. new \in EntryType /\ ByStudent(new) /\ new.state # "promoted"
    BY <1>1, CancelledRow DEF ByStudent, Reasons
  <1>4. failures' \in 0 .. MaxFailures
    BY <1>2 DEF ListInv, ListTypes
  <1> HIDE DEF new
  <1> QED
    BY <1>1, <1>2, <1>3, <1>4, RowChanges

\* A claim grows old.
LEMMA LeaseList ==
    ASSUME ListInv, NEW i \in Ids, LeaseRunsOut(i)
    PROVE  ListInv'
  <1> DEFINE new == [entry[i] EXCEPT !.stale = TRUE]
  <1>1. entry[i] \in EntryType /\ entry[i].state = "promoting"
    BY IdsAreNumbers DEF ListInv, LeaseRunsOut
  <1>2. entry' = [entry EXCEPT ![i] = new] /\ UNCHANGED <<decided, worker>>
    BY DEF LeaseRunsOut, redis
  <1>3. new \in EntryType /\ new.state = "promoting"
    BY <1>1 DEF EntryType
  <1>4. failures \in 0 .. MaxFailures
    BY DEF ListInv, ListTypes
  <1>5. \/ failures' \in 0 .. MaxFailures /\ failures' # 0
        \/ failures' = failures /\ \A w \in Workers : i \notin worker[w].todo
    BY <1>4, FailureCounts DEF LeaseRunsOut
  <1> HIDE DEF new
  <1> QED
    BY <1>1, <1>2, <1>3, <1>4, <1>5, RowChanges DEF Active

\* The rows a claim makes.
LEMMA ClaimTable ==
    ASSUME ListTypes, NEW S \in SUBSET Ids, NEW table \in [Ids -> EntryType]
    PROVE  /\ Claim(S, table) \in [Ids -> EntryType]
           /\ \A i \in S : InHand(Claim(S, table)[i])
           /\ \A i \in Ids \ S : Claim(S, table)[i] = table[i]
  <1> DEFINE made(i) == [table[i] EXCEPT !.state = "promoting", !.stale = FALSE]
  <1>1. ASSUME NEW i \in Ids PROVE made(i) \in EntryType /\ InHand(made(i))
    <2>1. table[i] \in EntryType
      OBVIOUS
    <2> QED
      BY <2>1 DEF EntryType, EntryStates, Active, InHand
  <1>2. Claim(S, table) = [i \in Ids |-> IF i \in S THEN made(i) ELSE table[i]]
    BY DEF Claim
  <1> HIDE DEF made
  <1> QED
    BY <1>1, <1>2

\* A job that begins claims entries of a closed round.
LEMMA ClaimExpiredList ==
    ASSUME ListInv, NEW w \in Workers, ClaimExpiredEntries(w)
    PROVE  ListInv'
  <1> DEFINE expired == {i \in Ids : round = "closed" /\ entry[i].state = "waiting"}
             S == First(expired)
             new == [pc |-> IF expired = {} THEN "claim" ELSE "expire",
                     sawOpen |-> round = "open", todo |-> S]
  <1>1. ListTypes /\ Jobs /\ Ids \in SUBSET Nat /\ entry \in [Ids -> EntryType]
    BY IdsAreNumbers DEF ListInv
  <1>2. S \in SUBSET expired /\ (S = {} <=> expired = {})
    BY <1>1, BatchTaken
  <1>3. /\ worker[w].pc = "idle" /\ entry' = Claim(S, entry)
        /\ worker' = [worker EXCEPT ![w] = new] /\ UNCHANGED <<decided, failures>>
    BY DEF ClaimExpiredEntries, redis
  <1>4. S \in SUBSET Ids /\ \A i \in S : Free(entry[i])
    BY <1>2 DEF Free
  <1>5. new.todo = S /\ new.pc # "mark" /\ (S = {} <=> new.pc \in {"idle", "claim"}) /\ new.pc \in Busy \cup {"claim"}
    BY <1>2 DEF Busy
  <1> HIDE DEF S, expired
  <1>6. new \in JobType
    BY <1>1, <1>4, <1>5 DEF JobType
  <1> HIDE DEF new
  <1>7. worker[w].todo = {}
    BY <1>1, <1>3 DEF Jobs
  <1>8. /\ entry' \in [Ids -> EntryType] /\ \A i \in S : InHand(entry'[i])
        /\ \A i \in Ids \ S : entry'[i] = entry[i]
    BY <1>1, <1>3, <1>4, ClaimTable
  <1>9. /\ worker' \in [Workers -> JobType] /\ worker'[w] = new
        /\ \A v \in Workers \ {w} : worker'[v] = worker[v]
    BY <1>1, <1>3, <1>6 DEF ListTypes
  <1> QED
    BY <1>3, <1>4, <1>5, <1>7, <1>8, <1>9, ClaimRows

\* Then it claims entries for the seats it sees.
LEMMA ClaimPromotableList ==
    ASSUME ListInv, NEW w \in Workers, ClaimPromotableEntries(w)
    PROVE  ListInv'
  <1> DEFINE table == Reset(entry)
             rows == {i \in Ids : Claimable(table[i]) /\ worker[w].sawOpen /\ SeatSeen}
             S == First(rows)
             new == IF rows = {} THEN Idle ELSE [pc |-> "query", sawOpen |-> FALSE, todo |-> S]
  <1>1. ListTypes /\ Jobs /\ Ids \in SUBSET Nat /\ DOMAIN entry = Ids /\ entry \in [Ids -> EntryType]
    BY IdsAreNumbers DEF ListInv
  <1>2. ASSUME NEW i \in Ids
        PROVE  /\ table[i] \in EntryType
               /\ table[i] = entry[i] \/ (Free(entry[i]) /\ table[i].state = "waiting")
    <2>1. entry[i] \in EntryType
      BY <1>1
    <2>2. table[i] = IF entry[i].state = "promoting" /\ entry[i].stale
                       THEN [entry[i] EXCEPT !.state = "waiting", !.stale = FALSE] ELSE entry[i]
      BY <1>1 DEF Reset
    <2>3. entry[i].stale \in BOOLEAN
      BY <2>1 DEF EntryType
    <2>4. [entry[i] EXCEPT !.state = "waiting", !.stale = FALSE] \in EntryType
          /\ [entry[i] EXCEPT !.state = "waiting", !.stale = FALSE].state = "waiting"
      BY <2>1 DEF EntryType, EntryStates, Active
    <2> QED
      BY <2>1, <2>2, <2>3, <2>4 DEF Free
  <1>3. table \in [Ids -> EntryType]
    <2>1. DOMAIN table = Ids
      BY <1>1 DEF Reset
    <2>2. table = [i \in Ids |-> table[i]]
      BY <1>1 DEF Reset
    <2> QED
      BY <1>2, <2>1, <2>2
  <1>4. S \in SUBSET rows /\ (S = {} <=> rows = {})
    BY <1>1, BatchTaken
  <1>5. /\ worker[w].pc = "claim" /\ entry' = Claim(S, table)
        /\ worker' = [worker EXCEPT ![w] = new] /\ UNCHANGED <<decided, failures>>
    BY DEF ClaimPromotableEntries, End, redis
  <1> HIDE DEF table
  <1>6. S \in SUBSET Ids /\ \A i \in S : Free(entry[i])
    BY <1>2, <1>4 DEF Claimable, Free
  <1> HIDE DEF S, rows
  <1>7. new.todo = S /\ new.pc # "mark" /\ (S = {} <=> new.pc \in {"idle", "claim"}) /\ new \in JobType
    BY <1>1, <1>4, <1>6 DEF Idle, JobType, Busy
  <1> HIDE DEF new
  <1>8. worker[w].todo = {}
    BY <1>1, <1>5 DEF Jobs
  <1>9. /\ entry' \in [Ids -> EntryType] /\ \A i \in S : InHand(entry'[i])
        /\ \A i \in Ids \ S : entry'[i] = table[i]
    BY <1>1, <1>3, <1>5, <1>6, ClaimTable
  <1>10. /\ worker' \in [Workers -> JobType] /\ worker'[w] = new
         /\ \A v \in Workers \ {w} : worker'[v] = worker[v]
    BY <1>1, <1>5, <1>7 DEF ListTypes
  <1>11. \A i \in Ids \ S : entry'[i] = entry[i] \/ (Free(entry[i]) /\ entry'[i].state = "waiting")
    BY <1>2, <1>9
  <1> QED
    BY <1>5, <1>6, <1>7, <1>8, <1>9, <1>10, <1>11, ClaimRows

\* A job cancels its entry.
LEMMA CancelEntryList ==
    ASSUME ListInv, NEW w \in Workers, NEW why \in Reasons, NEW pc \in Busy \ {"mark"},
           NEW after \in {"idle", "claim"}, worker[w].pc \in Busy \ {"mark"}, CancelEntry(w, why, pc, after)
    PROVE  ListInv'
  <1> DEFINE i == Current(w)
             new == Cancelled(entry[i], why)
  <1>1. i \in worker[w].todo /\ i \in Ids
    BY CurrentIsListed DEF ListInv
  <1>2. entry[i] \in EntryType
    BY <1>1, IdsAreNumbers DEF ListInv
  <1>3. entry' = [entry EXCEPT ![i] = new] /\ UNCHANGED <<decided, failures>>
    BY DEF CancelEntry, redis
  <1>4. /\ worker' \in [Workers -> JobType] /\ worker'[w].todo \subseteq worker[w].todo \ {i}
        /\ worker'[w].todo = {} <=> worker'[w].pc \in {"idle", "claim"}
        /\ worker'[w].pc # "mark" /\ \A v \in Workers \ {w} : worker'[v] = worker[v]
    <2>1. CASE entry[i].state = "promoted"
      BY <2>1, EndEffect DEF CancelEntry, ListInv
    <2>2. CASE entry[i].state # "promoted"
      <3>1. Proceed(w, pc, after)
        BY <2>2 DEF CancelEntry
      <3>2. /\ worker' \in [Workers -> JobType] /\ worker'[w].todo = worker[w].todo \ {i}
            /\ worker'[w].pc = IF worker'[w].todo = {} THEN after ELSE pc
            /\ \A v \in Workers \ {w} : worker'[v] = worker[v]
        BY <1>1, <3>1, ProceedEffect DEF ListInv
      <3> HIDE DEF i
      <3> QED
        BY <3>2 DEF Busy
    <2> QED
      BY <2>1, <2>2
  <1>5. new \in EntryType /\ (new.state = "promoted" => entry[i].state = "promoted")
    BY <1>2, CancelledRow
  <1>6. new.state = "promoted" => i \in decided
    BY <1>1, <1>5 DEF ListInv, PromotedWasChosen
  <1>7. failures = 0 => i \notin decided
    BY <1>1 DEF ListInv, Calm, DecidedLast
  <1> HIDE DEF new
  <1> QED
    BY <1>3, <1>4, <1>5, <1>6, <1>7, DoneWithCurrent

\* What a failed choice leads to.
LEMMA AfterFailure == \A error : DecidePromotionFailure(error) \in {"return", "cancel"}
  BY DEF DecidePromotionFailure

\* The stored result is looked up.
LEMMA QueryList ==
    ASSUME ListInv, NEW w \in Workers, QuerySelectionByRequest(w)
    PROVE  ListInv'
  <1> DEFINE i == Current(w)
             pc == IF i \in decided THEN "mark" ELSE "admit"
  <1>1. worker[w].pc = "query" /\ Goto(w, pc) /\ UNCHANGED <<entry, decided, failures>>
    BY DEF QuerySelectionByRequest, redis
  <1>2. pc \in Busy /\ (pc = "mark" <=> i \in decided)
    BY DEF Busy
  <1>3. worker[w].pc \in Busy /\ failures' \in 0 .. MaxFailures
    BY <1>1 DEF Busy, ListInv, ListTypes
  <1> HIDE DEF pc
  <1> QED
    BY <1>1, <1>2, <1>3, GoOn

\* While nothing has failed, the entry of a job that does not mark it was not
\* chosen.
LEMMA NotChosenYet ==
    ASSUME ListInv, NEW w \in Workers, worker[w].pc \in Busy \ {"mark"}
    PROVE  failures = 0 => Current(w) \notin decided
  <1>1. Current(w) \in worker[w].todo
    BY CurrentIsListed DEF ListInv
  <1> QED
    BY <1>1 DEF ListInv, Calm, DecidedLast

\* The admission answers.
LEMMA AdmitList ==
    ASSUME ListInv, NEW w \in Workers, AdmitSelection(w)
    PROVE  ListInv'
  <1>1. worker[w].pc = "admit" /\ UNCHANGED <<entry, decided, failures>>
    BY DEF AdmitSelection, redis
  <1>2. PICK pc \in {"return", "cancel", "commit"} : Goto(w, pc)
    <2>1. Goto(w, DecidePromotionFailure("round_not_open")) \/ Goto(w, DecidePromotionFailure("class_full"))
          \/ Goto(w, DecidePromotionFailure("duplicate")) \/ Goto(w, "commit")
      BY DEF AdmitSelection
    <2> QED
      BY <2>1, AfterFailure
  <1>3. worker[w].pc \in Busy \ {"mark"} /\ pc \in Busy /\ pc # "mark" /\ failures' \in 0 .. MaxFailures
    BY <1>1 DEF Busy, ListInv, ListTypes
  <1> QED
    BY <1>1, <1>2, <1>3, NotChosenYet, GoOn

\* The commit script answers, or its answer is lost.
LEMMA CommitList ==
    ASSUME ListInv, NEW w \in Workers, CommitSelection(w)
    PROVE  ListInv'
  <1> DEFINE i == Current(w)
  <1>1. PICK late \in {FALSE, round = "closed"} :
          LET answer == CommitAnswer(w, late) IN
          /\ IF answer = "selected" THEN decided' = decided \cup {i} ELSE UNCHANGED decided
          /\ \/ /\ Goto(w, IF answer \in {"selected", "stored"} THEN "mark"
                             ELSE DecidePromotionFailure(answer))
                /\ UNCHANGED failures
             \/ Failure /\ Goto(w, DecidePromotionFailure("unknown"))
    BY DEF CommitSelection
  <1> DEFINE answer == CommitAnswer(w, late)
  <1>2. worker[w].pc = "commit" /\ UNCHANGED entry
    BY DEF CommitSelection
  <1>3. worker[w].pc \in Busy \ {"mark"} /\ failures \in 0 .. MaxFailures
    BY <1>2 DEF Busy, ListInv, ListTypes
  <1>4. answer = "stored" => i \in decided
    BY DEF CommitAnswer
  <1>5. decided' = decided \/ decided' = decided \cup {i}
    BY <1>1
  <1>6. CASE Failure /\ Goto(w, DecidePromotionFailure("unknown"))
    <2>1. failures' \in 0 .. MaxFailures /\ failures' # 0
      BY <1>3, <1>6, FailureCounts
    <2>2. PICK pc \in {"return", "cancel"} : Goto(w, pc)
      BY <1>6, AfterFailure
    <2>3. pc \in Busy /\ pc # "mark"
      BY DEF Busy
    <2> QED
      BY <1>2, <1>3, <1>5, <2>1, <2>2, <2>3, GoOn
  <1>7. CASE answer \in {"selected", "stored"} /\ Goto(w, "mark") /\ UNCHANGED failures
    <2>1. i \in decided' /\ "mark" \in Busy /\ failures' \in 0 .. MaxFailures
      BY <1>1, <1>3, <1>4, <1>7 DEF Busy
    <2> QED
      BY <1>2, <1>3, <1>5, <1>7, <2>1, GoOn
  <1>8. CASE answer \notin {"selected", "stored"} /\ Goto(w, DecidePromotionFailure(answer)) /\ UNCHANGED failures
    <2>1. PICK pc \in {"return", "cancel"} : Goto(w, pc)
      BY <1>8, AfterFailure
    <2>2. pc \in Busy /\ pc # "mark" /\ failures' \in 0 .. MaxFailures
      BY <1>3, <1>8 DEF Busy
    <2>3. UNCHANGED decided
      BY <1>1, <1>8
    <2> QED
      BY <1>2, <1>3, <1>8, <2>1, <2>2, <2>3, NotChosenYet, GoOn
  <1> HIDE DEF answer
  <1>9. \/ /\ Goto(w, IF answer \in {"selected", "stored"} THEN "mark" ELSE DecidePromotionFailure(answer))
           /\ UNCHANGED failures
        \/ Failure /\ Goto(w, DecidePromotionFailure("unknown"))
    BY <1>1 DEF answer
  <1> QED
    BY <1>6, <1>7, <1>8, <1>9

\* A job marks its entry; when somebody settled it meanwhile, the job ends.
LEMMA MarkList ==
    ASSUME ListInv, NEW w \in Workers, MarkWaitlistPromoted(w)
    PROVE  ListInv'
  <1> DEFINE i == Current(w)
  <1>1. worker[w].pc = "mark" /\ UNCHANGED <<decided, failures>>
    BY DEF MarkWaitlistPromoted, redis
  <1>2. worker[w].pc \in Busy
    BY <1>1 DEF Busy
  <1>3. i \in worker[w].todo /\ i \in Ids /\ i \in decided
    BY <1>1, <1>2, CurrentIsListed DEF ListInv, MarkDecided
  <1>4. entry[i] \in EntryType /\ entry \in [Ids -> EntryType]
    BY <1>3, IdsAreNumbers DEF ListInv
  <1>5. CASE entry[i].state = "promoting"
    <2> DEFINE new == [entry[i] EXCEPT !.state = "promoted", !.stale = FALSE]
    <2>1. Proceed(w, "query", "idle")
      BY <1>5 DEF MarkWaitlistPromoted
    <2>2. entry' = [entry EXCEPT ![i] = new]
      <3>1. entry' = [entry EXCEPT ![i].state = "promoted", ![i].stale = FALSE]
        BY <1>5 DEF MarkWaitlistPromoted
      <3> QED
        BY <1>3, <1>4, <3>1
    <2>3. new \in EntryType /\ new.state = "promoted"
      BY <1>4 DEF EntryType, EntryStates
    <2>4. /\ worker' \in [Workers -> JobType] /\ worker'[w].todo = worker[w].todo \ {i}
          /\ worker'[w].pc = IF worker'[w].todo = {} THEN "idle" ELSE "query"
          /\ \A v \in Workers \ {w} : worker'[v] = worker[v]
      BY <1>3, <2>1, ProceedEffect DEF ListInv, Busy
    <2> HIDE DEF new
    <2> QED
      BY <1>1, <1>2, <1>3, <2>2, <2>3, <2>4, DoneWithCurrent
  <1>6. CASE entry[i].state # "promoting"
    <2>1. End(w) /\ entry' = [entry EXCEPT ![i] = entry[i]]
      BY <1>4, <1>6 DEF MarkWaitlistPromoted
    <2>2. failures = 0 => entry[i].state = "promoted" \/ ByStudent(entry[i])
      BY <1>3, <1>6 DEF ListInv, Calm, Claims, InHand
    <2>3. /\ worker' \in [Workers -> JobType] /\ worker'[w].pc = "idle" /\ worker'[w].todo = {}
          /\ \A v \in Workers \ {w} : worker'[v] = worker[v]
      BY <2>1, EndEffect DEF ListInv
    <2> QED
      BY <1>1, <1>2, <1>3, <1>4, <2>1, <2>2, <2>3, DoneWithCurrent
  <1> QED
    BY <1>5, <1>6

\* A job gives its entry back.
LEMMA ReturnList ==
    ASSUME ListInv, NEW w \in Workers, ReturnWaitlistToQueue(w)
    PROVE  ListInv'
  <1> DEFINE i == Current(w)
             new == Returned(entry[i])
  <1>1. /\ worker[w].pc = "return" /\ UNCHANGED <<decided, failures>> /\ Proceed(w, "query", "idle")
        /\ entry' = [entry EXCEPT ![i] = new]
    BY DEF ReturnWaitlistToQueue, redis
  <1>2. worker[w].pc \in Busy \ {"mark"}
    BY <1>1 DEF Busy
  <1>3. i \in worker[w].todo /\ i \in Ids
    BY <1>2, CurrentIsListed DEF ListInv
  <1>4. entry[i] \in EntryType
    BY <1>3, IdsAreNumbers DEF ListInv
  <1>5. new \in EntryType /\ (new.state = "promoted" => entry[i].state = "promoted")
    BY <1>4 DEF Returned, EntryType, EntryStates, Active
  <1>6. new.state = "promoted" => i \in decided
    BY <1>3, <1>5 DEF ListInv, PromotedWasChosen
  <1>7. /\ worker' \in [Workers -> JobType] /\ worker'[w].todo = worker[w].todo \ {i}
        /\ worker'[w].pc = IF worker'[w].todo = {} THEN "idle" ELSE "query"
        /\ \A v \in Workers \ {w} : worker'[v] = worker[v]
    BY <1>1, <1>3, ProceedEffect DEF ListInv, Busy
  <1>8. failures = 0 => i \notin decided
    BY <1>2, NotChosenYet
  <1> HIDE DEF new
  <1> QED
    BY <1>1, <1>2, <1>5, <1>6, <1>7, <1>8, DoneWithCurrent

\* A call fails, or the job stops and leaves its claims behind.
LEMMA FailList ==
    ASSUME ListInv, NEW w \in Workers, SelectCourseFails(w) \/ Abort(w)
    PROVE  ListInv'
  <1>1. failures \in 0 .. MaxFailures /\ UNCHANGED <<entry, decided>> /\ Failure
    BY DEF ListInv, ListTypes, SelectCourseFails, Abort, redis
  <1>2. failures' \in 0 .. MaxFailures /\ failures' # 0
    BY <1>1, FailureCounts
  <1>3. CASE SelectCourseFails(w)
    <2>1. PICK pc \in {"return", "cancel"} : Goto(w, pc)
      BY <1>3, AfterFailure DEF SelectCourseFails
    <2>2. pc \in Busy /\ pc # "mark" /\ worker[w].pc \in Busy
      BY <1>3 DEF Busy, SelectCourseFails
    <2> QED
      BY <1>1, <1>2, <2>1, <2>2, GoOn
  <1>4. CASE Abort(w)
    <2>1. /\ worker' \in [Workers -> JobType] /\ worker'[w].pc = "idle" /\ worker'[w].todo = {}
          /\ \A v \in Workers \ {w} : worker'[v] = worker[v]
      BY <1>4, EndEffect DEF ListInv, Abort
    <2>2. Ids' = Ids /\ \A v \in Workers \ {w} : Current(v)' = Current(v)
      BY <1>1, <2>1 DEF Ids, Current
    <2>3. ListTypes' /\ Jobs' /\ MarkDecided' /\ PromotedWasChosen'
      BY <1>1, <1>2, <2>1, <2>2 DEF ListInv, ListTypes, Jobs, MarkDecided, PromotedWasChosen
    <2> QED
      BY <1>2, <2>3 DEF ListInv, Calm
  <1> QED
    BY <1>3, <1>4

\* The rest of the system does not touch the list.
LEMMA OutsideList ==
    ASSUME ListInv, UNCHANGED <<entry, decided, worker, failures>>
    PROVE  ListInv'
  <1>1. Ids' = Ids /\ \A w \in Workers : Current(w)' = Current(w)
    BY DEF Ids, Current
  <1> QED
    BY <1>1 DEF ListInv, ListTypes, Jobs, MarkDecided, PromotedWasChosen, Calm, Claims, Apart, DecidedRows,
                DecidedLast, InHand, ByStudent

\* Every step keeps the invariant of the list.
LEMMA ListStep == ListInv /\ [Next]_vars => ListInv'
  <1> SUFFICES ASSUME ListInv, [Next]_vars PROVE ListInv'
    OBVIOUS
  <1>1. ASSUME NEW s \in Students, SelectCourse(s) \/ DropEnrollment(s) \/ PersistSelection(s)
                                   \/ ReleaseDroppedEnrollment(s)
        PROVE  ListInv'
    BY <1>1, OutsideList
       DEF SelectCourse, DropEnrollment, PersistSelection, ReleaseDroppedEnrollment, redis
  <1>2. CASE ProjectCounts \/ CloseRound \/ UNCHANGED vars
    BY <1>2, OutsideList DEF ProjectCounts, CloseRound, vars, redis
  <1>3. ASSUME NEW w \in Workers, CancelExpired(w) PROVE ListInv'
    BY <1>3, CancelEntryList DEF CancelExpired, Busy, Reasons
  <1>4. ASSUME NEW w \in Workers, CancelFailed(w) PROVE ListInv'
    BY <1>4, CancelEntryList DEF CancelFailed, Busy, Reasons
  <1>5. ASSUME NEW w \in Workers, PromoteBatch(w) PROVE ListInv'
    BY <1>3, <1>4, <1>5, ClaimExpiredList, ClaimPromotableList, QueryList, AdmitList, CommitList, MarkList,
       ReturnList DEF PromoteBatch
  <1> QED
    BY <1>1, <1>2, <1>5, JoinList, CancelList, LeaseList, FailList DEF Next

-----------------------------------------------------------------------------
(***************************************************************************)
(* Seats.                                                                  *)
(***************************************************************************)

SeatTypes ==
    /\ round \in {"open", "closed"}
    /\ {holder, pending, saved} \subseteq SUBSET Students
    /\ counted \in 0 .. Cardinality(Students)

\* A class never has more holders than seats, whoever takes the last one: a
\* student or the waiting list (the commit script).
NeverOverfull == Cardinality(holder) <= Capacity

SeatInv == SeatTypes /\ NeverOverfull

\* Sets of students are finite.
LEMMA StudentSets ==
    ASSUME NEW S \in SUBSET Students
    PROVE  /\ IsFiniteSet(S) /\ Cardinality(S) \in 0 .. Cardinality(Students)
           /\ Cardinality(Students) \in Nat /\ Capacity \in Nat
           /\ \A s \in S : Cardinality(S \ {s}) <= Cardinality(S)
  <1>1. IsFiniteSet(Students) /\ Capacity \in Nat
    BY WaitlistConstants DEF WaitlistConstants
  <1>2. IsFiniteSet(S) /\ Cardinality(S) <= Cardinality(Students)
    BY <1>1, FS_Subset
  <1>3. Cardinality(S) \in Nat /\ Cardinality(Students) \in Nat
    BY <1>1, <1>2, FS_CardinalityType
  <1>4. \A s \in S : Cardinality(S \ {s}) <= Cardinality(S)
    BY <1>2, FS_Subset
  <1> QED
    BY <1>1, <1>2, <1>3, <1>4

\* Whoever gets a seat gets one that was free.
LEMMA SeatTaken ==
    ASSUME SeatInv, ~Full, NEW s \in Students
    PROVE  Cardinality(holder \cup {s}) <= Capacity
  <1>1. IsFiniteSet(holder) /\ Cardinality(holder) \in Nat /\ Capacity \in Nat
    BY StudentSets DEF SeatInv, SeatTypes
  <1>2. Cardinality(holder) < Capacity
    BY <1>1 DEF Full
  <1>3. Cardinality(holder \cup {s}) = IF s \in holder THEN Cardinality(holder) ELSE Cardinality(holder) + 1
    BY <1>1, FS_AddElement, Zenon
  <1> QED
    BY <1>1, <1>2, <1>3

\* The commit script takes a seat only when one is free.
LEMMA CommitSeats ==
    ASSUME SeatInv, ListInv, NEW w \in Workers, CommitSelection(w)
    PROVE  SeatInv'
  <1> DEFINE s == Student(w)
  <1>1. worker[w].pc \in Busy /\ UNCHANGED <<round, saved, counted>>
    BY DEF CommitSelection, Busy, mysql
  <1>2. s \in Students
    <2>1. Current(w) \in Ids
      BY <1>1, CurrentIsListed DEF ListInv
    <2>2. entry[Current(w)] \in EntryType
      BY <2>1, IdsAreNumbers DEF ListInv
    <2> QED
      BY <2>2 DEF Student, EntryType
  <1>3. PICK late \in {FALSE, round = "closed"} :
          IF CommitAnswer(w, late) = "selected"
            THEN holder' = holder \cup {s} /\ pending' = pending \cup {s}
            ELSE UNCHANGED <<holder, pending>>
    BY DEF CommitSelection
  <1>4. CommitAnswer(w, late) = "selected" => ~Full
    BY DEF CommitAnswer
  <1> HIDE DEF s
  <1>5. CASE CommitAnswer(w, late) = "selected"
    BY <1>1, <1>2, <1>3, <1>4, <1>5, SeatTaken DEF SeatInv, SeatTypes, NeverOverfull
  <1>6. CASE CommitAnswer(w, late) # "selected"
    BY <1>1, <1>3, <1>6 DEF SeatInv, SeatTypes, NeverOverfull
  <1> QED
    BY <1>5, <1>6

\* Every step keeps the seats.
LEMMA SeatStep == SeatInv /\ ListInv /\ [Next]_vars => SeatInv'
  <1> SUFFICES ASSUME SeatInv, ListInv, [Next]_vars PROVE SeatInv'
    OBVIOUS
  <1>1. CASE UNCHANGED <<round, holder, pending, saved, counted>>
    BY <1>1 DEF SeatInv, SeatTypes, NeverOverfull
  <1>2. ASSUME NEW s \in Students, SelectCourse(s) PROVE SeatInv'
    BY <1>2, SeatTaken DEF SelectCourse, mysql, SeatInv, SeatTypes, NeverOverfull
  <1>3. ASSUME NEW s \in Students, DropEnrollment(s) \/ PersistSelection(s) PROVE SeatInv'
    BY <1>3 DEF DropEnrollment, PersistSelection, redis, SeatInv, SeatTypes, NeverOverfull
  <1>4. ASSUME NEW s \in Students, ReleaseDroppedEnrollment(s) PROVE SeatInv'
    <2>1. s \in holder /\ holder' = holder \ {s} /\ UNCHANGED <<round, pending, saved, counted>>
      BY <1>4 DEF ReleaseDroppedEnrollment, mysql
    <2>2. holder \in SUBSET Students
      BY DEF SeatInv, SeatTypes
    <2>3. /\ Cardinality(holder') <= Cardinality(holder) /\ holder' \in SUBSET Students
          /\ Cardinality(holder) \in Nat /\ Cardinality(holder') \in Nat /\ Capacity \in Nat
      BY <2>1, <2>2, StudentSets
    <2> QED
      BY <2>1, <2>3 DEF SeatInv, SeatTypes, NeverOverfull
  <1>5. CASE ProjectCounts
    <2>1. counted' = Cardinality(saved) /\ UNCHANGED <<round, holder, pending, saved>>
      BY <1>5 DEF ProjectCounts, redis
    <2>2. Cardinality(saved) \in 0 .. Cardinality(Students)
      BY StudentSets DEF SeatInv, SeatTypes
    <2> QED
      BY <2>1, <2>2 DEF SeatInv, SeatTypes, NeverOverfull
  <1>6. CASE CloseRound
    BY <1>6 DEF CloseRound, redis, mysql, SeatInv, SeatTypes, NeverOverfull
  <1>7. ASSUME NEW s \in Students, NEW r \in Requests, Join(s, r) PROVE SeatInv'
    BY <1>1, <1>7 DEF Join, redis, mysql
  <1>8. ASSUME NEW i \in Ids, Cancel(i) \/ LeaseRunsOut(i) PROVE SeatInv'
    BY <1>1, <1>8 DEF Cancel, LeaseRunsOut, redis, mysql
  <1>9. ASSUME NEW w \in Workers, PromoteBatch(w) \/ SelectCourseFails(w) \/ Abort(w) PROVE SeatInv'
    <2>1. CASE CommitSelection(w)
      BY <2>1, CommitSeats
    <2>2. CASE ~CommitSelection(w)
      BY <1>1, <1>9, <2>2
         DEF PromoteBatch, ClaimExpiredEntries, CancelExpired, ClaimPromotableEntries,
             QuerySelectionByRequest, AdmitSelection, MarkWaitlistPromoted, ReturnWaitlistToQueue,
             CancelFailed, CancelEntry, SelectCourseFails, Abort, redis, mysql
    <2> QED
      BY <2>1, <2>2
  <1>10. CASE UNCHANGED vars
    BY <1>1, <1>10 DEF vars
  <1> QED
    BY <1>2, <1>3, <1>4, <1>5, <1>6, <1>7, <1>8, <1>9, <1>10 DEF Next

-----------------------------------------------------------------------------
(***************************************************************************)
(* The theorems.                                                           *)
(***************************************************************************)

\* At the start nobody waits.
LEMMA WaitlistInit == Init => ListInv /\ SeatInv
  <1> SUFFICES ASSUME Init PROVE ListInv /\ SeatInv
    OBVIOUS
  <1>1. entry = << >> /\ Len(entry) = 0 /\ entry \in Seq(EntryType) /\ Ids = {}
    BY EmptySeq DEF Init, Ids
  <1>2. Idle \in JobType /\ Idle.pc = "idle" /\ Idle.todo = {}
    BY DEF Idle, JobType
  <1>3. worker \in [Workers -> JobType] /\ \A w \in Workers : worker[w].pc = "idle" /\ worker[w].todo = {}
    BY <1>2 DEF Init
  <1>4. failures = 0 /\ failures \in 0 .. MaxFailures /\ decided = {}
    BY WaitlistConstants DEF Init, WaitlistConstants
  <1>5. ListInv
    BY <1>1, <1>3, <1>4 DEF ListInv, ListTypes, Jobs, MarkDecided, PromotedWasChosen, Calm, Claims, Apart,
                             DecidedRows, DecidedLast
  <1>6. Enrolled \in SUBSET Students /\ Cardinality(Enrolled) <= Capacity
    BY WaitlistConstants DEF WaitlistConstants
  <1>7. SeatInv
    BY <1>6, StudentSets DEF Init, SeatInv, SeatTypes, NeverOverfull
  <1> QED
    BY <1>5, <1>7

\* The inductive invariant of the waiting list.
THEOREM WaitlistInvariant == Spec => [](ListInv /\ SeatInv)
  <1>1. ListInv /\ SeatInv /\ [Next]_vars => (ListInv /\ SeatInv)'
    BY ListStep, SeatStep
  <1> QED
    BY WaitlistInit, <1>1, PTL DEF Spec

\* Types.
THEOREM WaitlistTypes == Spec => []TypeOK
  <1>1. ListInv /\ SeatInv => TypeOK
    <2> SUFFICES ASSUME ListInv, SeatInv PROVE TypeOK
      OBVIOUS
    <2>1. worker \in [Workers -> [pc : {"idle", "expire", "claim", "query", "admit", "commit",
                                        "mark", "return", "cancel"},
                                  sawOpen : BOOLEAN, todo : SUBSET Ids]]
      <3>1. worker \in [Workers -> JobType] /\ \A w \in Workers : worker[w].todo \subseteq Ids
        BY DEF ListInv, ListTypes
      <3>2. ASSUME NEW w \in Workers
            PROVE  worker[w] \in [pc : {"idle", "expire", "claim", "query", "admit", "commit",
                                        "mark", "return", "cancel"},
                                  sawOpen : BOOLEAN, todo : SUBSET Ids]
        BY <3>1 DEF JobType, Busy
      <3> QED
        BY <3>1, <3>2
    <2> QED
      BY <2>1 DEF ListInv, ListTypes, SeatInv, SeatTypes, TypeOK, EntryType
  <1> QED
    BY WaitlistInvariant, <1>1, PTL

\* Overlapping promotion jobs never cancel an entry whose course one of them
\* has chosen, as long as none was slow for a minute, crashed or lost an answer
\* (FOR UPDATE SKIP LOCKED, the state in the condition of each update).
THEOREM NoPromotionCancelled == Spec => []CancelledWasNotChosen
  <1>1. ListInv => CancelledWasNotChosen
    <2> SUFFICES ASSUME ListInv, failures = 0, NEW i \in Ids, entry[i].state = "cancelled",
                        entry[i].reason # "student", i \in decided
                 PROVE  FALSE
      BY DEF CancelledWasNotChosen
    <2> QED
      BY DEF ListInv, Calm, Claims, DecidedRows, InHand, ByStudent
  <1> QED
    BY WaitlistInvariant, <1>1, PTL

\* An entry is marked as promoted only when its course was chosen for the
\* student, also after crashes, slow jobs and lost answers (MarkWaitlistPromoted
\* follows a stored result or the answer of the commit script).
THEOREM PromotionsAreChosen == Spec => []PromotedWasChosen
  BY WaitlistInvariant, PTL DEF ListInv

\* The waiting list and the students together never take more seats than the
\* class has.
THEOREM SeatsSuffice == Spec => []NeverOverfull
  BY WaitlistInvariant, PTL DEF SeatInv

\* What a step does to a settled row: nothing, whatever a job still holds it.
LEMMA SettledStep ==
    ASSUME ListInv, [Next]_vars, NEW i \in Ids, entry[i].state \notin Active
    PROVE  entry'[i] = entry[i]
  <1>1. /\ entry \in [Ids -> EntryType] /\ Len(entry) \in Nat /\ DOMAIN entry = Ids
        /\ entry[i].state \notin {"waiting", "promoting"}
    BY IdsAreNumbers DEF ListInv, Active
  <1>2. CASE UNCHANGED entry
    BY <1>2
  <1>3. ASSUME NEW s \in Students, NEW r \in Requests, Join(s, r) PROVE entry'[i] = entry[i]
    BY <1>3 DEF Join, Ids, ListInv, ListTypes
  <1>4. ASSUME NEW j \in Ids, Cancel(j) \/ LeaseRunsOut(j) PROVE entry'[i] = entry[i]
    <2>1. j # i
      BY <1>1, <1>4 DEF Cancel, LeaseRunsOut, Active
    <2> QED
      BY <1>1, <1>4, <2>1 DEF Cancel, LeaseRunsOut
  <1>5. ASSUME NEW w \in Workers, ClaimExpiredEntries(w) PROVE entry'[i] = entry[i]
    <2> DEFINE expired == {j \in Ids : round = "closed" /\ entry[j].state = "waiting"}
    <2>1. i \notin expired /\ First(expired) \subseteq expired /\ entry' = Claim(First(expired), entry)
      BY <1>1, <1>5 DEF ClaimExpiredEntries, First
    <2> HIDE DEF expired
    <2> QED
      BY <2>1 DEF Claim
  <1>6. ASSUME NEW w \in Workers, ClaimPromotableEntries(w) PROVE entry'[i] = entry[i]
    <2> DEFINE table == Reset(entry)
               rows == {j \in Ids : Claimable(table[j]) /\ worker[w].sawOpen /\ SeatSeen}
    <2>1. table[i] = entry[i]
      BY <1>1 DEF Reset
    <2>2. entry' = Claim(First(rows), table) /\ First(rows) \subseteq rows
      BY <1>6 DEF ClaimPromotableEntries, First
    <2> HIDE DEF table
    <2>3. i \notin rows
      BY <1>1, <2>1 DEF Claimable
    <2> HIDE DEF rows
    <2> QED
      BY <2>1, <2>2, <2>3 DEF Claim
  <1>7. ASSUME NEW w \in Workers, NEW new, entry' = [entry EXCEPT ![Current(w)] = new],
               Current(w) = i => new = entry[i]
        PROVE  entry'[i] = entry[i]
    BY <1>1, <1>7
  <1>8. ASSUME NEW w \in Workers, CancelExpired(w) \/ CancelFailed(w) PROVE entry'[i] = entry[i]
    <2>1. PICK why : entry' = [entry EXCEPT ![Current(w)] = Cancelled(entry[Current(w)], why)]
      BY <1>8 DEF CancelExpired, CancelFailed, CancelEntry
    <2>2. Current(w) = i => Cancelled(entry[Current(w)], why) = entry[i]
      BY DEF Cancelled
    <2> QED
      BY <1>7, <2>1, <2>2
  <1>9. ASSUME NEW w \in Workers, ReturnWaitlistToQueue(w) PROVE entry'[i] = entry[i]
    <2>1. entry' = [entry EXCEPT ![Current(w)] = Returned(entry[Current(w)])]
      BY <1>9 DEF ReturnWaitlistToQueue
    <2>2. Current(w) = i => Returned(entry[Current(w)]) = entry[i]
      BY <1>1 DEF Returned
    <2> QED
      BY <1>7, <2>1, <2>2
  <1>10. ASSUME NEW w \in Workers, MarkWaitlistPromoted(w) PROVE entry'[i] = entry[i]
    <2>1. CASE entry[Current(w)].state = "promoting"
      BY <1>1, <1>10, <2>1 DEF MarkWaitlistPromoted
    <2>2. CASE entry[Current(w)].state # "promoting"
      BY <1>10, <2>2 DEF MarkWaitlistPromoted
    <2> QED
      BY <2>1, <2>2
  <1>11. ASSUME NEW w \in Workers, PromoteBatch(w) \/ SelectCourseFails(w) \/ Abort(w)
         PROVE  entry'[i] = entry[i]
    BY <1>2, <1>5, <1>6, <1>8, <1>9, <1>10, <1>11
       DEF PromoteBatch, QuerySelectionByRequest, AdmitSelection, CommitSelection, SelectCourseFails, Abort
  <1>12. ASSUME NEW s \in Students, SelectCourse(s) \/ DropEnrollment(s) \/ PersistSelection(s)
                                    \/ ReleaseDroppedEnrollment(s)
         PROVE  entry'[i] = entry[i]
    BY <1>2, <1>12 DEF SelectCourse, DropEnrollment, PersistSelection, ReleaseDroppedEnrollment
  <1> QED
    BY <1>2, <1>3, <1>4, <1>11, <1>12 DEF Next, ProjectCounts, CloseRound, vars

\* A promoted or cancelled entry never comes back, also when a job that was
\* slow still works on it (the state in the condition of each update).
THEOREM SettledForGood == Spec => SettledIsFinal
  <1>1. ListInv /\ [Next]_vars => [\A i \in Ids : entry[i].state \notin Active => entry'[i] = entry[i]]_vars
    BY SettledStep
  <1> QED
    BY WaitlistInvariant, <1>1, PTL DEF Spec, SettledIsFinal
=============================================================================
