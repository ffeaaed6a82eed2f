------------------------ MODULE SelectionStreamProofs ------------------------
(***************************************************************************)
(* Proofs about the workers of the selection stream, for every number of   *)
(* workers, messages, faults and every batch size.                         *)
(*                                                                         *)
(* Any worker may acknowledge a message that any other one still holds, so *)
(* that nothing is lost does not follow from who owns what.  It follows    *)
(* from what a worker has done before it acknowledges: SavedFirst says     *)
(* that a worker about to acknowledge has seen the rows of its messages,   *)
(* and rows are never removed.  Decoded and RowsPlain separate the         *)
(* messages that are saved from those that are dead-lettered.              *)
(***************************************************************************)
EXTENDS SelectionStream, FiniteSetTheorems, NaturalsInduction, WellFoundedInduction, TLAPS

Processing == {"save", "ack", "items", "itemAck"}

\* After decode a batch has messages left, and all of them decode.
Decoded ==
    \A w \in Workers : pc[w] \in Processing =>
        batch[w] # {} /\ \A m \in batch[w] : kind[m] # "garbled"

\* What a worker is about to acknowledge has its rows.
SavedFirst ==
    \A w \in Workers :
        /\ pc[w] = "ack" => \A m \in batch[w] : rows[m] > 0
        /\ pc[w] = "itemAck" => rows[Min(batch[w])] > 0

\* Only plain messages have rows, only faulty ones are dead-lettered.
RowsPlain == \A m \in Messages : rows[m] > 0 => kind[m] = "plain"
DeadFaulty == \A m \in Messages : dlq[m] > 0 => kind[m] \in {"garbled", "rejected"}

StreamInv == TypeOK /\ Decoded /\ SavedFirst /\ RowsPlain /\ DeadFaulty /\ NothingLost

-----------------------------------------------------------------------------
(***************************************************************************)
(* Sets of messages.                                                       *)
(***************************************************************************)

\* A set of messages that is not empty has a first and a last one.
LEMMA Ends ==
    ASSUME NEW S \in SUBSET Messages, S # {}
    PROVE  /\ \E x \in S : \A y \in S : x <= y
           /\ \E x \in S : \A y \in S : y <= x
  <1>1. \A T \in SUBSET Nat : T # {} => \E x \in T : \A y \in T : x <= y
    <2> SUFFICES ASSUME NEW T \in SUBSET Nat, T # {}
                 PROVE  \E x \in T : \A y \in T : x <= y
      OBVIOUS
    <2>1. PICK x \in T : \A y \in T : ~ (<<y, x>> \in OpToRel(<, Nat))
      BY NatLessThanWellFounded, WFMin
    <2>2. \A y \in T : x \in Nat /\ y \in Nat /\ ~(y < x)
      BY <2>1 DEF OpToRel
    <2>3. \A y \in T : x <= y
      BY <2>2
    <2> QED
      BY <2>3
  <1>2. N \in Nat /\ \A m \in S : m \in Nat /\ m <= N /\ N - m \in Nat
    BY StreamAssumption DEF StreamAssumption, Messages
  <1>3. S \in SUBSET Nat
    BY <1>2
  <1> DEFINE T == {N - m : m \in S}
  <1>4. T \in SUBSET Nat /\ T # {}
    BY <1>2
  <1>5. PICK t \in T : \A u \in T : t <= u
    BY <1>1, <1>4
  <1>6. PICK x \in S : t = N - x
    BY <1>5
  <1>7. \A y \in S : N - x <= N - y
    BY <1>5, <1>6
  <1>8. \A y \in S : y <= x
    BY <1>2, <1>7
  <1> QED
    BY <1>1, <1>3, <1>8

\* Sets of messages are finite, and removing from one does not make it larger.
LEMMA Sizes ==
    ASSUME NEW S \in SUBSET Messages
    PROVE  /\ IsFiniteSet(S) /\ Cardinality(S) \in Nat
           /\ \A T \in SUBSET S : Cardinality(T) \in Nat /\ Cardinality(T) <= Cardinality(S)
  <1>1. IsFiniteSet(Messages)
    BY FS_Interval, StreamAssumption DEF StreamAssumption, Messages
  <1> QED
    BY <1>1, FS_Subset, FS_CardinalityType

\* Min is the first message.
LEMMA MinIsFirst ==
    ASSUME NEW S \in SUBSET Messages, S # {}
    PROVE  Min(S) \in S /\ Min(S) \in Messages /\ \A m \in S : Min(S) <= m
  BY Ends DEF Min

\* XREADGROUP and XAUTOCLAIM hand over at most as many messages as asked for.
LEMMA FirstSize ==
    ASSUME NEW S \in SUBSET Messages, NEW n \in Nat
    PROVE  /\ First(S, n) \in SUBSET S
           /\ Cardinality(First(S, n)) \in Nat /\ Cardinality(First(S, n)) <= n
  <1>1. First(S, n) \in SUBSET S
    BY DEF First
  <1>2. CASE First(S, n) = {}
    BY <1>1, <1>2, FS_EmptySet
  <1>3. CASE First(S, n) # {}
    <2>1. First(S, n) \in SUBSET Messages
      BY <1>1
    <2>2. PICK x \in First(S, n) : \A y \in First(S, n) : y <= x
      BY <1>3, <2>1, Ends
    <2> DEFINE B == {l \in S : l < x}
    <2>3. Cardinality(B) < n /\ x \in Messages /\ x \notin B /\ B \in SUBSET Messages
      <3>1. x \in Messages
        BY <1>1
      <3>2. x \in Int
        BY <3>1 DEF Messages
      <3>3. Cardinality(B) < n
        BY DEF First
      <3>4. x \notin B
        BY <3>2
      <3>5. B \in SUBSET Messages
        OBVIOUS
      <3> QED
        BY <3>1, <3>3, <3>4, <3>5
    <2>4. First(S, n) \in SUBSET (B \cup {x})
      <3>1. \A y \in First(S, n) : y \in S /\ y \in Int /\ x \in Int /\ y <= x
        BY <1>1, <2>2, <2>3 DEF Messages
      <3> QED
        BY <3>1
    <2>5. IsFiniteSet(B) /\ Cardinality(B) \in Nat
      BY <2>3, Sizes
    <2>6. Cardinality(B \cup {x}) = Cardinality(B) + 1 /\ B \cup {x} \in SUBSET Messages
      BY <2>3, <2>5, FS_AddElement
    <2>7. Cardinality(First(S, n)) \in Nat /\ Cardinality(First(S, n)) <= Cardinality(B \cup {x})
      BY <2>4, <2>6, Sizes
    <2> HIDE DEF B
    <2> QED
      BY <1>1, <2>3, <2>5, <2>6, <2>7
  <1> QED
    BY <1>2, <1>3

\* A batch that is filled up stays within the batch size.
LEMMA UnionSize ==
    ASSUME NEW S \in SUBSET Messages, NEW T \in SUBSET Messages
    PROVE  Cardinality(S \cup T) <= Cardinality(S) + Cardinality(T)
  <1>1. IsFiniteSet(S) /\ IsFiniteSet(T) /\ Cardinality(S) \in Nat /\ Cardinality(T) \in Nat
    BY Sizes
  <1>2. Cardinality(S \cup T) = Cardinality(S) + Cardinality(T) - Cardinality(S \cap T)
    BY <1>1, FS_Union
  <1>3. Cardinality(S \cap T) \in Nat
    BY Sizes
  <1> QED
    BY <1>1, <1>2, <1>3

-----------------------------------------------------------------------------
(***************************************************************************)
(* Steps.                                                                  *)
(***************************************************************************)

\* Initially.
LEMMA StreamInit == Init => StreamInv
  <1> SUFFICES ASSUME Init PROVE StreamInv
    OBVIOUS
  <1>1. Cardinality({}) = 0
    BY FS_EmptySet
  <1> QED
    BY <1>1, StreamAssumption
       DEF Init, StreamInv, TypeOK, Decoded, SavedFirst, RowsPlain, DeadFaulty, NothingLost,
           Processing, InState, StreamAssumption

\* The stream alone: a message is appended, or grows old.
LEMMA StreamStep ==
    ASSUME StreamInv, NEW m \in Messages, Publish(m) \/ GrowIdle(m), UNCHANGED kind
    PROVE  StreamInv'
  <1>1. UNCHANGED <<kind, pc, batch, cursor, claimDue, rows, dlq, faults>>
    BY DEF Publish, GrowIdle, workerVars
  <1>2. /\ state' \in [Messages -> {"absent", "new", "pel", "gone"}] /\ idle' \subseteq Messages
        /\ InState("gone")' = InState("gone")
    BY DEF Publish, GrowIdle, InState, StreamInv, TypeOK
  <1> QED
    BY <1>1, <1>2 DEF StreamInv, TypeOK, Decoded, SavedFirst, RowsPlain, DeadFaulty, NothingLost

\* A worker outside of processBatch: nothing is settled, saved or dead-lettered.
LEMMA ReadingStep ==
    ASSUME StreamInv, NEW w \in Workers, UNCHANGED <<kind, rows, dlq>>,
           InState("gone")' = InState("gone"),
           state' \in [Messages -> {"absent", "new", "pel", "gone"}],
           idle' \subseteq Messages, cursor' \in [Workers -> 0 .. N], claimDue' \subseteq Workers,
           faults' \in 0 .. MaxFaults,
           NEW l \in {"loop", "read", "reading", "decode"}, pc' = [pc EXCEPT ![w] = l],
           NEW S \in SUBSET Messages, batch' = [batch EXCEPT ![w] = S], Cardinality(S) <= BatchSize
    PROVE  StreamInv'
  <1>1. /\ pc'[w] = l /\ batch'[w] = S
        /\ \A x \in Workers \ {w} : pc'[x] = pc[x] /\ batch'[x] = batch[x]
    BY DEF StreamInv, TypeOK
  <1>2. TypeOK'
    BY <1>1 DEF StreamInv, TypeOK
  <1> QED
    BY <1>1, <1>2 DEF StreamInv, Decoded, SavedFirst, RowsPlain, DeadFaulty, NothingLost, Processing

\* The loop around processBatch: claiming, reading, giving up, dying.
LEMMA LoopSteps ==
    ASSUME StreamInv, NEW w \in Workers, UNCHANGED kind,
           \/ ClaimStale(w) \/ ReadStreamGroup(w) \/ ReadTimeout(w) \/ StopReading(w)
           \/ ClaimTimer(w) \/ ReadFails(w) \/ Crash(w)
    PROVE  StreamInv'
  <1>0. /\ TypeOK /\ BatchSize \in Nat \ {0} /\ MaxFaults \in Nat /\ N \in Nat
        /\ batch[w] \in SUBSET Messages /\ Cardinality(batch[w]) \in Nat
        /\ Cardinality(batch[w]) <= BatchSize /\ Cardinality({}) = 0
        /\ idle \in SUBSET Messages /\ InState("new") \in SUBSET Messages
        /\ InState("pel") \in SUBSET Messages
    <2>1. TypeOK /\ batch[w] \in SUBSET Messages
      BY DEF StreamInv, TypeOK
    <2> QED
      BY <2>1, Sizes, FS_EmptySet, StreamAssumption DEF TypeOK, StreamAssumption, InState
  <1>1. CASE ClaimTimer(w)
    BY <1>1 DEF ClaimTimer, StreamInv, TypeOK, Decoded, SavedFirst, RowsPlain, DeadFaulty, NothingLost,
                InState
  <1>2. CASE ClaimStale(w)
    <2> DEFINE got  == First(Claimable(w), BatchSize)
               rest == {m \in InState("pel") : \A l \in got : m > l}
               more == Cardinality(got) = BatchSize /\ rest # {}
    <2>1. got \in SUBSET Messages /\ Cardinality(got) <= BatchSize
      <3>1. Claimable(w) \in SUBSET Messages
        BY <1>0 DEF Claimable
      <3> QED
        BY <1>0, <3>1, FirstSize
    <2>2. more => Min(rest) \in 0 .. N
      <3> SUFFICES ASSUME more PROVE Min(rest) \in 0 .. N
        OBVIOUS
      <3>1. Min(rest) \in Messages
        BY <1>0, MinIsFirst
      <3> QED
        BY <1>0, <3>1 DEF Messages
    <2>3. /\ cursor' = [cursor EXCEPT ![w] = IF more THEN Min(rest) ELSE 0]
          /\ claimDue' = IF more THEN claimDue ELSE claimDue \ {w}
          /\ idle' = idle \ got /\ batch' = [batch EXCEPT ![w] = got]
          /\ pc' = [pc EXCEPT ![w] = IF got = {} THEN "read" ELSE "decode"]
          /\ UNCHANGED <<state, rows, dlq, faults>>
      BY <1>2 DEF ClaimStale, Goto
    <2> HIDE DEF got, rest, more
    <2>4. /\ cursor' \in [Workers -> 0 .. N] /\ claimDue' \subseteq Workers /\ idle' \subseteq Messages
          /\ InState("gone")' = InState("gone")
      BY <1>0, <2>2, <2>3 DEF TypeOK, InState
    <2>5. (IF got = {} THEN "read" ELSE "decode") \in {"loop", "read", "reading", "decode"}
      OBVIOUS
    <2> QED
      BY <1>0, <2>1, <2>3, <2>4, <2>5, ReadingStep DEF TypeOK
  <1>3. CASE ReadStreamGroup(w)
    <2> DEFINE got == First(InState("new"), BatchSize - Cardinality(batch[w]))
               all == batch[w] \cup got
    <2>1. /\ got \in SUBSET InState("new") /\ got \in SUBSET Messages
          /\ Cardinality(got) \in Nat /\ Cardinality(got) <= BatchSize - Cardinality(batch[w])
      <3>1. BatchSize - Cardinality(batch[w]) \in Nat
        BY <1>0
      <3> QED
        BY <1>0, <3>1, FirstSize
    <2>2. /\ state' = [m \in Messages |-> IF m \in got THEN "pel" ELSE state[m]]
          /\ batch' = [batch EXCEPT ![w] = all]
          /\ pc' = [pc EXCEPT ![w] = IF Cardinality(all) = BatchSize THEN "decode" ELSE "reading"]
          /\ UNCHANGED <<idle, cursor, claimDue, rows, dlq, faults>>
      BY <1>3 DEF ReadStreamGroup, Goto
    <2> HIDE DEF got
    <2>3. all \in SUBSET Messages /\ Cardinality(all) <= BatchSize
      <3>1. all \in SUBSET Messages
        BY <1>0, <2>1
      <3>2. Cardinality(all) <= Cardinality(batch[w]) + Cardinality(got) /\ Cardinality(all) \in Nat
        BY <1>0, <2>1, <3>1, UnionSize, Sizes
      <3> HIDE DEF all
      <3> QED
        BY <1>0, <2>1, <3>1, <3>2
    <2> HIDE DEF all
    <2>4. /\ state' \in [Messages -> {"absent", "new", "pel", "gone"}]
          /\ InState("gone")' = InState("gone")
      BY <1>0, <2>1, <2>2 DEF TypeOK, InState
    <2>5. (IF Cardinality(all) = BatchSize THEN "decode" ELSE "reading")
             \in {"loop", "read", "reading", "decode"}
      OBVIOUS
    <2> QED
      BY <1>0, <2>2, <2>3, <2>4, <2>5, ReadingStep DEF TypeOK
  <1>4. CASE ReadTimeout(w) \/ StopReading(w)
    <2>1. /\ UNCHANGED <<state, idle, batch, cursor, claimDue, rows, dlq, faults>>
          /\ pc' = [pc EXCEPT ![w] = "loop"] \/ pc' = [pc EXCEPT ![w] = "decode"]
      BY <1>4 DEF ReadTimeout, StopReading, Goto
    <2>2. batch' = [batch EXCEPT ![w] = batch[w]] /\ InState("gone")' = InState("gone")
      BY <1>0, <2>1 DEF TypeOK, InState
    <2>3. CASE pc' = [pc EXCEPT ![w] = "loop"]
      BY <1>0, <2>1, <2>2, <2>3, ReadingStep DEF TypeOK
    <2>4. CASE pc' = [pc EXCEPT ![w] = "decode"]
      BY <1>0, <2>1, <2>2, <2>4, ReadingStep DEF TypeOK
    <2> QED
      BY <2>1, <2>3, <2>4
  <1>5. CASE ReadFails(w) \/ Crash(w)
    <2>1. /\ UNCHANGED <<state, idle, rows, dlq>>
          /\ pc' = [pc EXCEPT ![w] = "loop"] /\ batch' = [batch EXCEPT ![w] = {}]
          /\ faults > 0 /\ faults' = faults - 1
      BY <1>5 DEF ReadFails, Crash, GiveUp, Goto
    <2>2. /\ cursor' \in [Workers -> 0 .. N] /\ claimDue' \subseteq Workers
          /\ faults' \in 0 .. MaxFaults /\ InState("gone")' = InState("gone")
      BY <1>0, <1>5, <2>1 DEF ReadFails, Crash, TypeOK, InState
    <2>3. /\ {} \in SUBSET Messages /\ Cardinality({}) <= BatchSize
          /\ state' \in [Messages -> {"absent", "new", "pel", "gone"}] /\ idle' \subseteq Messages
      BY <1>0, <2>1 DEF TypeOK
    <2> QED
      BY <2>1, <2>2, <2>3, ReadingStep
  <1> QED
    BY <1>1, <1>2, <1>3, <1>4, <1>5

-----------------------------------------------------------------------------
(***************************************************************************)
(* processBatch.                                                           *)
(***************************************************************************)

\* The worker goes on to l with S, a part of its batch.
GoesOn(w, l, S) ==
    /\ pc' = [pc EXCEPT ![w] = l] /\ l \in {"loop", "decode"} \cup Processing
    /\ batch' = [batch EXCEPT ![w] = S] /\ S \in SUBSET batch[w]
    /\ l \in Processing => S # {} /\ \A m \in S : kind[m] # "garbled"
    /\ l = "ack" => \A m \in S : rows'[m] > 0
    /\ l = "itemAck" => rows'[Min(S)] > 0

\* Rows and dead letters are only added, each for its own kind of message.
RowsGrow ==
    /\ rows' \in [Messages -> Nat] /\ RowsPlain'
    /\ \A m \in Messages : rows'[m] >= rows[m]
DeadGrow ==
    /\ dlq' \in [Messages -> Nat] /\ DeadFaulty'
    /\ \A m \in Messages : dlq'[m] >= dlq[m]

\* What is settled has its row or its dead letter.
Covered ==
    \/ UNCHANGED <<state, idle>>
    \/ \E G \in SUBSET Messages : Settle(G) /\ \A m \in G : rows'[m] > 0 \/ dlq'[m] > 0

\* Nothing is added.
LEMMA NothingAdded ==
    ASSUME TypeOK, RowsPlain, DeadFaulty, UNCHANGED kind
    PROVE  (UNCHANGED rows => RowsGrow) /\ (UNCHANGED dlq => DeadGrow)
  <1>1. \A m \in Messages : rows[m] \in Nat /\ dlq[m] \in Nat
    BY DEF TypeOK
  <1> QED
    BY <1>1 DEF TypeOK, RowsPlain, DeadFaulty, RowsGrow, DeadGrow

\* Rows are only added, and only for messages that are saved.
LEMMA InsertEffect ==
    ASSUME TypeOK, RowsPlain, NEW S \in SUBSET Messages, Insert(S), UNCHANGED kind,
           \A m \in S : kind[m] # "garbled", Outcome(S) = "saved"
    PROVE  RowsGrow /\ \A m \in S : rows'[m] > 0
  <1>1. \A m \in Messages : rows[m] \in Nat /\ kind[m] \in Kinds
    BY StreamAssumption DEF TypeOK, StreamAssumption
  <1>2. \A m \in S : kind[m] = "plain"
    BY <1>1 DEF Outcome, Kinds
  <1>3. \A m \in Messages : rows'[m] = IF m \in S \ Unclaimed(S) THEN rows[m] + 1 ELSE rows[m]
    BY DEF Insert
  <1>4. rows' \in [Messages -> Nat] /\ \A m \in S : rows'[m] > 0
    BY <1>1, <1>3 DEF Insert, Unclaimed
  <1>5. \A m \in Messages : rows'[m] >= rows[m]
    BY <1>1, <1>3
  <1>6. RowsPlain'
    BY <1>2, <1>3 DEF RowsPlain
  <1> QED
    BY <1>4, <1>5, <1>6 DEF RowsGrow

\* A step of processBatch.
LEMMA ProcessStep ==
    ASSUME StreamInv, NEW w \in Workers, UNCHANGED <<kind, cursor, claimDue>>,
           NEW l, NEW S, GoesOn(w, l, S), RowsGrow, DeadGrow, Covered, faults' \in 0 .. MaxFaults
    PROVE  StreamInv'
  <1> USE DEF GoesOn, RowsGrow, DeadGrow
  <1> PICK G \in SUBSET Messages : /\ \A m \in G : rows'[m] > 0 \/ dlq'[m] > 0
                                   /\ UNCHANGED <<state, idle>> \/ Settle(G)
    <2>1. CASE UNCHANGED <<state, idle>>
      <3>1. {} \in SUBSET Messages /\ \A m \in {} : rows'[m] > 0 \/ dlq'[m] > 0
        OBVIOUS
      <3> QED
        BY <2>1, <3>1
    <2> QED
      BY <2>1 DEF Covered
  <1>0. /\ batch[w] \in SUBSET Messages /\ Cardinality(batch[w]) <= BatchSize /\ BatchSize \in Nat
        /\ \A m \in Messages : rows[m] \in Nat /\ dlq[m] \in Nat /\ rows'[m] \in Nat /\ dlq'[m] \in Nat
    BY StreamAssumption DEF StreamInv, TypeOK, StreamAssumption
  <1>1. Cardinality(S) <= BatchSize /\ S \in SUBSET Messages
    BY <1>0, Sizes
  <1>2. /\ pc'[w] = l /\ batch'[w] = S
        /\ \A x \in Workers \ {w} : pc'[x] = pc[x] /\ batch'[x] = batch[x]
    BY DEF StreamInv, TypeOK
  <1>3. /\ state' \in [Messages -> {"absent", "new", "pel", "gone"}] /\ idle' \subseteq Messages
        /\ InState("gone")' \subseteq InState("gone") \cup G
    BY DEF Settle, StreamInv, TypeOK, InState
  <1>4. TypeOK'
    BY <1>1, <1>2, <1>3 DEF StreamInv, TypeOK, Processing
  <1>5. Decoded'
    BY <1>2 DEF StreamInv, Decoded
  <1>6. SavedFirst'
    <2>1. \A x \in Workers \ {w} : pc[x] = "itemAck" => Min(batch[x]) \in Messages
      BY MinIsFirst DEF StreamInv, Decoded, TypeOK, Processing
    <2>2. ASSUME NEW x \in Workers \ {w}, pc[x] = "ack", NEW m \in batch[x] PROVE rows'[m] > 0
      <3>1. m \in Messages /\ rows[m] > 0
        BY <2>2 DEF StreamInv, TypeOK, SavedFirst
      <3> QED
        BY <1>0, <3>1
    <2>3. ASSUME NEW x \in Workers \ {w}, pc[x] = "itemAck" PROVE rows'[Min(batch[x])] > 0
      <3>1. Min(batch[x]) \in Messages /\ rows[Min(batch[x])] > 0
        BY <2>1, <2>3 DEF StreamInv, SavedFirst
      <3> QED
        BY <1>0, <3>1
    <2> QED
      BY <1>2, <2>2, <2>3 DEF SavedFirst
  <1>7. NothingLost'
    <2> SUFFICES ASSUME NEW m \in InState("gone")' PROVE rows'[m] > 0 \/ dlq'[m] > 0
      BY DEF NothingLost
    <2>1. CASE m \in G
      BY <2>1
    <2>2. CASE m \in InState("gone")
      <3>1. m \in Messages /\ (rows[m] > 0 \/ dlq[m] > 0)
        BY <2>2 DEF StreamInv, NothingLost, InState
      <3> QED
        BY <1>0, <3>1
    <2> QED
      BY <1>3, <2>1, <2>2
  <1> QED
    BY <1>4, <1>5, <1>6, <1>7 DEF StreamInv

\* DeadLetter of a message that can never be saved.
LEMMA DeadLetterEffect ==
    ASSUME TypeOK, DeadFaulty, NEW m \in Messages, DeadLetter(m), UNCHANGED kind,
           kind[m] \in {"garbled", "rejected"}
    PROVE  DeadGrow /\ Covered
  <1>1. \A l \in Messages : dlq[l] \in Nat /\ dlq'[l] = IF l = m THEN dlq[l] + 1 ELSE dlq[l]
    BY DEF DeadLetter, TypeOK
  <1>2. dlq' \in [Messages -> Nat] /\ Settle({m})
    BY <1>1 DEF DeadLetter, TypeOK
  <1>3. {m} \in SUBSET Messages /\ \A l \in {m} : dlq'[l] > 0
    BY <1>1
  <1>4. Covered
    BY <1>2, <1>3 DEF Covered
  <1>5. DeadGrow
    BY <1>1, <1>2 DEF DeadFaulty, DeadGrow
  <1> QED
    BY <1>4, <1>5

\* The batch without its first message.
LEMMA NextItemEffect ==
    ASSUME TypeOK, NEW w \in Workers, batch[w] # {}, \A m \in batch[w] : kind[m] # "garbled", NextItem(w)
    PROVE  \E S, l : GoesOn(w, l, S)
  <1> DEFINE S == batch[w] \ {Min(batch[w])}
             l == IF batch[w] = {Min(batch[w])} THEN "loop" ELSE "items"
  <1>1. /\ batch' = [batch EXCEPT ![w] = S] /\ pc' = [pc EXCEPT ![w] = l]
    BY DEF NextItem, Goto, TypeOK
  <1>2. Min(batch[w]) \in batch[w]
    BY MinIsFirst DEF TypeOK
  <1>3. S \in SUBSET batch[w] /\ l \in {"loop", "items"}
    OBVIOUS
  <1>4. l = "items" => S # {} /\ \A m \in S : kind[m] # "garbled"
    BY <1>2
  <1> HIDE DEF S, l
  <1>5. GoesOn(w, l, S)
    BY <1>1, <1>3, <1>4 DEF GoesOn, Processing
  <1> QED
    BY <1>5

\* Every step of processBatch keeps the invariant.
LEMMA ProcessSteps ==
    ASSUME StreamInv, NEW w \in Workers, UNCHANGED kind,
           Decode(w) \/ SaveBatch(w) \/ AckBatch(w) \/ SaveItem(w) \/ AckItem(w) \/ CallFails(w)
    PROVE  StreamInv'
  <1>0. /\ TypeOK /\ RowsPlain /\ DeadFaulty /\ batch[w] \in SUBSET Messages
        /\ batch = [batch EXCEPT ![w] = batch[w]] /\ pc = [pc EXCEPT ![w] = pc[w]]
        /\ faults \in 0 .. MaxFaults /\ (faults > 0 => faults - 1 \in 0 .. MaxFaults)
    BY StreamAssumption DEF StreamInv, TypeOK, StreamAssumption
  <1>1. ASSUME pc[w] \in Processing
        PROVE  /\ batch[w] # {} /\ \A m \in batch[w] : kind[m] # "garbled"
               /\ Min(batch[w]) \in batch[w] /\ {Min(batch[w])} \in SUBSET Messages
               /\ kind[Min(batch[w])] # "garbled"
    <2>1. batch[w] # {} /\ \A m \in batch[w] : kind[m] # "garbled"
      BY <1>1 DEF StreamInv, Decoded
    <2> QED
      BY <1>0, <2>1, MinIsFirst
  <1>2. (UNCHANGED rows => RowsGrow) /\ (UNCHANGED dlq => DeadGrow) /\ (UNCHANGED <<state, idle>> => Covered)
    BY <1>0, NothingAdded DEF Covered
  <1>3. CASE Decode(w) /\ Garbled(batch[w]) = {}
    <2> DEFINE l == IF batch[w] = {} THEN "loop" ELSE "save"
    <2>1. /\ pc' = [pc EXCEPT ![w] = l]
          /\ UNCHANGED <<state, idle, batch, dlq, faults, cursor, claimDue, rows>>
      BY <1>3 DEF Decode, Goto
    <2>2. GoesOn(w, l, batch[w])
      BY <1>0, <1>3, <2>1 DEF Processing, Garbled, GoesOn
    <2> QED
      BY <1>0, <1>2, <2>1, <2>2, ProcessStep
  <1>4. CASE Decode(w) /\ Garbled(batch[w]) # {}
    <2> DEFINE m == Min(Garbled(batch[w]))
    <2>1. m \in Messages /\ kind[m] = "garbled"
      <3>1. Garbled(batch[w]) \in SUBSET Messages
        BY <1>0 DEF Garbled
      <3>2. m \in Garbled(batch[w])
        BY <1>4, <3>1, MinIsFirst
      <3> QED
        BY <1>0, <3>2 DEF Garbled
    <2>2. /\ pc[w] = "decode" /\ pc' = pc /\ batch' = [batch EXCEPT ![w] = batch[w] \ {m}]
          /\ UNCHANGED <<cursor, claimDue, rows>>
          /\ \/ DeadLetter(m) /\ UNCHANGED faults
             \/ faults > 0 /\ faults' = faults - 1 /\ UNCHANGED <<state, idle, dlq>>
      BY <1>0, <1>4 DEF Decode, TypeOK
    <2> HIDE DEF m
    <2>3. GoesOn(w, "decode", batch[w] \ {m})
      BY <1>0, <2>2 DEF Processing, GoesOn
    <2>4. DeadGrow /\ Covered /\ faults' \in 0 .. MaxFaults
      BY <1>0, <1>2, <2>1, <2>2, DeadLetterEffect
    <2> QED
      BY <1>2, <2>2, <2>3, <2>4, ProcessStep
  <1>5. CASE SaveBatch(w)
    <2>1. pc[w] = "save" /\ UNCHANGED <<state, idle, cursor, claimDue, dlq, faults>>
      BY <1>5 DEF SaveBatch
    <2>2. batch[w] # {} /\ \A m \in batch[w] : kind[m] # "garbled"
      BY <1>1, <2>1 DEF Processing
    <2>3. CASE Outcome(batch[w]) = "saved"
      <3>1. Insert(batch[w]) /\ pc' = [pc EXCEPT ![w] = "ack"] /\ UNCHANGED batch
        BY <1>5, <2>3 DEF SaveBatch, Goto
      <3>2. RowsGrow /\ \A m \in batch[w] : rows'[m] > 0
        BY <1>0, <2>2, <2>3, <3>1, InsertEffect
      <3>3. GoesOn(w, "ack", batch[w])
        BY <1>0, <2>2, <3>1, <3>2 DEF GoesOn, Processing
      <3> QED
        BY <1>0, <1>2, <2>1, <3>2, <3>3, ProcessStep
    <2>4. CASE Outcome(batch[w]) # "saved"
      <3>1. /\ UNCHANGED rows
            /\ \/ pc' = [pc EXCEPT ![w] = "loop"] /\ batch' = [batch EXCEPT ![w] = {}]
               \/ pc' = [pc EXCEPT ![w] = "items"] /\ UNCHANGED batch
        BY <1>5, <2>4 DEF SaveBatch, GiveUp, Goto
      <3>2. GoesOn(w, "loop", {}) \/ GoesOn(w, "items", batch[w])
        BY <1>0, <2>2, <3>1 DEF GoesOn, Processing
      <3> QED
        BY <1>0, <1>2, <2>1, <3>1, <3>2, ProcessStep
    <2> QED
      BY <2>3, <2>4
  <1>6. CASE AckBatch(w)
    <2>1. /\ pc[w] = "ack" /\ Settle(batch[w]) /\ UNCHANGED <<cursor, claimDue, rows, dlq, faults>>
          /\ pc' = [pc EXCEPT ![w] = "loop"] /\ batch' = [batch EXCEPT ![w] = {}]
      BY <1>6 DEF AckBatch, GiveUp, Goto
    <2>2. \A m \in batch[w] : rows'[m] > 0
      BY <2>1 DEF StreamInv, SavedFirst
    <2>3. GoesOn(w, "loop", {}) /\ Covered
      BY <1>0, <2>1, <2>2 DEF GoesOn, Covered, Processing
    <2> QED
      BY <1>0, <1>2, <2>1, <2>3, ProcessStep
  <1>7. CASE SaveItem(w)
    <2> DEFINE m == Min(batch[w])
    <2>1. pc[w] = "items" /\ UNCHANGED <<cursor, claimDue, faults>>
      BY <1>7 DEF SaveItem
    <2>2. /\ m \in batch[w] /\ {m} \in SUBSET Messages /\ kind[m] # "garbled"
          /\ batch[w] # {} /\ \A l \in batch[w] : kind[l] # "garbled"
      BY <1>1, <2>1 DEF Processing
    <2>3. CASE Outcome({m}) = "saved"
      <3>1. /\ Insert({m}) /\ pc' = [pc EXCEPT ![w] = "itemAck"]
            /\ UNCHANGED <<state, idle, batch, dlq>>
        BY <1>7, <2>3 DEF SaveItem, Goto
      <3>2. RowsGrow /\ rows'[m] > 0
        BY <1>0, <2>2, <2>3, <3>1, InsertEffect
      <3>3. GoesOn(w, "itemAck", batch[w])
        BY <1>0, <2>2, <3>1, <3>2 DEF GoesOn, Processing
      <3> QED
        BY <1>0, <1>2, <2>1, <3>1, <3>2, <3>3, ProcessStep
    <2>4. CASE Outcome({m}) # "saved"
      <3>1. /\ NextItem(w) /\ UNCHANGED rows
            /\ \/ UNCHANGED <<state, idle, dlq>>
               \/ ~Retryable(Outcome({m})) /\ DeadLetter(m)
        BY <1>7, <2>4 DEF SaveItem
      <3>2. PICK S, l : GoesOn(w, l, S)
        BY <1>0, <2>2, <3>1, NextItemEffect
      <3>3. DeadGrow /\ Covered
        <4>1. CASE UNCHANGED <<state, idle, dlq>>
          BY <1>2, <4>1
        <4>2. CASE ~Retryable(Outcome({m})) /\ DeadLetter(m)
          <5>1. kind[m] = "rejected"
            BY <2>4, <4>2 DEF Outcome, Retryable
          <5> QED
            BY <1>0, <2>2, <4>2, <5>1, DeadLetterEffect
        <4> QED
          BY <3>1, <4>1, <4>2
      <3> QED
        BY <1>0, <1>2, <2>1, <3>1, <3>2, <3>3, ProcessStep
    <2> QED
      BY <2>3, <2>4
  <1>8. CASE AckItem(w)
    <2> DEFINE m == Min(batch[w])
    <2>1. /\ pc[w] = "itemAck" /\ Settle({m}) /\ NextItem(w)
          /\ UNCHANGED <<cursor, claimDue, rows, dlq, faults>>
      BY <1>8 DEF AckItem
    <2>2. /\ {m} \in SUBSET Messages /\ batch[w] # {} /\ \A l \in batch[w] : kind[l] # "garbled"
          /\ rows[m] > 0
      BY <1>1, <2>1 DEF Processing, StreamInv, SavedFirst
    <2>3. PICK S, l : GoesOn(w, l, S)
      BY <1>0, <2>1, <2>2, NextItemEffect
    <2>4. Covered
      <3>1. \A k \in {m} : rows'[k] > 0
        BY <2>1, <2>2
      <3> QED
        BY <2>1, <2>2, <3>1 DEF Covered
    <2> QED
      BY <1>0, <1>2, <2>1, <2>3, <2>4, ProcessStep
  <1>9. CASE CallFails(w)
    <2>1. /\ faults' \in 0 .. MaxFaults /\ UNCHANGED <<state, idle, cursor, claimDue, dlq>>
          /\ pc[w] \in Processing
          /\ GiveUp(w) \/ NextItem(w)
          /\ \/ UNCHANGED rows
             \/ \E T \in {batch[w], {Min(batch[w])}} : Outcome(T) = "saved" /\ Insert(T)
      BY <1>0, <1>9 DEF CallFails, Processing
    <2>2. /\ batch[w] # {} /\ \A m \in batch[w] : kind[m] # "garbled"
          /\ {Min(batch[w])} \in SUBSET Messages /\ kind[Min(batch[w])] # "garbled"
      BY <1>1, <2>1
    <2>3. RowsGrow
      BY <1>0, <1>2, <2>1, <2>2, InsertEffect
    <2>4. PICK S, l : GoesOn(w, l, S)
      <3>1. CASE GiveUp(w)
        <4>1. GoesOn(w, "loop", {})
          BY <3>1 DEF GiveUp, Goto, GoesOn, Processing
        <4> QED
          BY <4>1
      <3>2. CASE NextItem(w)
        BY <1>0, <2>2, <3>2, NextItemEffect
      <3> QED
        BY <2>1, <3>1, <3>2
    <2> QED
      BY <1>2, <2>1, <2>3, <2>4, ProcessStep
  <1> QED
    BY <1>3, <1>4, <1>5, <1>6, <1>7, <1>8, <1>9

\* Every step keeps the invariant.
LEMMA StreamNext == StreamInv /\ [Next]_vars => StreamInv'
  <1> SUFFICES ASSUME StreamInv, [Next]_vars PROVE StreamInv'
    OBVIOUS
  <1>1. CASE UNCHANGED vars
    BY <1>1 DEF vars, workerVars, StreamInv, TypeOK, Decoded, SavedFirst, RowsPlain, DeadFaulty,
                NothingLost, InState
  <1>2. ASSUME NEW m \in Messages, Publish(m) \/ GrowIdle(m), UNCHANGED kind PROVE StreamInv'
    BY <1>2, StreamStep
  <1>3. ASSUME NEW w \in Workers, UNCHANGED kind,
               Work(w) \/ ClaimTimer(w) \/ ReadFails(w) \/ CallFails(w) \/ Crash(w)
        PROVE  StreamInv'
    BY <1>3, LoopSteps, ProcessSteps DEF Work
  <1> QED
    BY <1>1, <1>2, <1>3 DEF Next

\* The invariant of the workers.
LEMMA StreamInvariant == Spec => []StreamInv
  BY StreamInit, StreamNext, PTL DEF Spec

\* The types of the worker loop; no batch is larger than it may be.
THEOREM StreamTypes == Spec => []TypeOK
  <1>1. StreamInv => TypeOK
    BY DEF StreamInv
  <1> QED
    BY <1>1, StreamInvariant, PTL

\* No message leaves the stream without its row or its dead letter, whoever
\* acknowledges it and however often it is claimed (processBatch,
\* AckAndDelete, AddDeadLetterAndAck).
THEOREM NothingIsLost == Spec => []NothingLost
  <1>1. StreamInv => NothingLost
    BY DEF StreamInv
  <1> QED
    BY <1>1, StreamInvariant, PTL

\* A message that can be saved is never dead-lettered, and one that was
\* dead-lettered never has a row, whatever shares its batch (processBatch,
\* isRetryableSelectionPersistenceError).
THEOREM DeadLettersAreFaulty == Spec => []OnlyFaultyDeadLettered
  <1>1. StreamInv => OnlyFaultyDeadLettered
    <2> SUFFICES ASSUME StreamInv, NEW m \in Messages, dlq[m] > 0
                 PROVE  kind[m] \in {"garbled", "rejected"} /\ rows[m] = 0
      BY DEF OnlyFaultyDeadLettered
    <2>1. kind[m] \in {"garbled", "rejected"} /\ rows[m] \in Nat
      BY DEF StreamInv, DeadFaulty, TypeOK
    <2> QED
      BY <2>1 DEF StreamInv, RowsPlain
  <1> QED
    BY <1>1, StreamInvariant, PTL
=============================================================================
