---------------------------- MODULE CatalogProofs ----------------------------
(***************************************************************************)
(* Proofs about the catalogue of courses (Catalog) and the uploads of      *)
(* their videos (VideoUpload), for every number of courses, classes,       *)
(* rounds, terms and concurrent transactions, and of attempts, parts,      *)
(* requests, cleanup jobs and failures.                                    *)
(*                                                                         *)
(* Catalog.  The argument has two parts.  LockInv is about locks alone:    *)
(* what a transaction has locked is a prefix of its lock order, all of it  *)
(* once it decides, and no row is locked twice.  StillAllowed says that    *)
(* what a transaction decided holds until it writes, because everybody who *)
(* could change it needs a row that the transaction has locked.            *)
(*                                                                         *)
(* VideoUpload.  The inductive invariant is                                *)
(*     UploadInv == UploadTypeOK /\ ReadyHasObject /\ CleanedHasNothing    *)
(*                  /\ UploadingIsUnderWay /\ Verified /\ GivenUp          *)
(* Two requests act on what they saw earlier.  Verified says what remains  *)
(* true of the object a completion has looked at, GivenUp what a cleanup   *)
(* job may rely on between its calls to the object store.                  *)
(***************************************************************************)
EXTENDS Catalog, VideoUpload, TLAPS

\* The rows that can be locked.
LockRows == {"course", "class", "round"} \X (Courses \cup Classes \cup Rounds)

TxType == [pc : {"idle", "lock", "decide", "commit"}, request : Requests \cup {NoRequest},
           locks : Seq(LockRows)]

\* The kinds of rows that a request locks.
LocksCourse(x) == x.op \in {"createClass", "updateClass", "updateCourse", "deleteCourse", "startVideo"}
LocksClass(x) == x.op \in {"updateClass", "deleteClass", "bind"}
LocksRound(x) == x.op \in {"bind", "unbind", "updateRound", "deleteRound", "openRound"}

\* A transaction has locked the first rows of its order, all of them once it
\* has looked at the rows.
Ordered ==
    \A t \in Transactions : LET order == LockOrder(tx[t].request) IN
      /\ tx[t].pc # "idle" => tx[t].request \in Requests
      /\ tx[t].pc = "idle" => tx[t].locks = << >>
      /\ tx[t].pc # "idle" =>
           /\ Len(tx[t].locks) <= Len(order)
           /\ \A i \in 1 .. Len(tx[t].locks) : tx[t].locks[i] = order[i]
      /\ tx[t].pc \in {"decide", "commit"} => Len(tx[t].locks) = Len(order)

\* No row is locked by two transactions.
Exclusive ==
    \A t, u \in Transactions : t # u =>
      \A i \in DOMAIN tx[t].locks, j \in DOMAIN tx[u].locks : tx[t].locks[i] # tx[u].locks[j]

LockInv == tx \in [Transactions -> TxType] /\ Ordered /\ Exclusive

\* What a transaction relies on when it writes.
RemainsAllowed(x) ==
    /\ LocksCourse(x) => CourseExists(x.course)
    /\ x.op = "updateCourse" => course[x.course].core < MaxChanges
    /\ x.op = "deleteCourse" =>
         /\ \A k \in Classes : ClassExists(k) => class[k].course # x.course
         /\ course[x.course].video = FALSE
    /\ x.op \in {"updateClass", "deleteClass"} => \A r \in Rounds : <<r, x.class>> \notin binding
    /\ x.op = "bind" =>
         /\ class[x.class].state = "planned"
         /\ class[x.class].term = round[x.round].term
    /\ LocksRound(x) => round[x.round].state = "planned"
    /\ x.op = "updateRound" /\ round[x.round].term # x.term =>
         \A k \in Classes : <<x.round, k>> \notin binding
    /\ x.op = "deleteRound" => \A k \in Classes : <<x.round, k>> \notin binding
    /\ x.op = "openRound" => \E k \in Classes : <<x.round, k>> \in binding

\* What a transaction decided on still holds when it writes.
StillAllowed == \A t \in Transactions : tx[t].pc = "commit" => RemainsAllowed(tx[t].request)

\* Two requests that need no lock in common.
Separate(x, y) ==
    /\ LocksCourse(x) /\ LocksCourse(y) => x.course # y.course
    /\ LocksClass(x) /\ LocksClass(y) => x.class # y.class
    /\ LocksRound(x) /\ LocksRound(y) => x.round # y.round

Tables ==
    /\ course \in [Courses -> [state : {"absent", "present", "deleted"}, core : 0 .. MaxChanges,
                               video : BOOLEAN]]
    /\ class \in [Classes -> [state : {"absent", "planned", "open", "deleted"},
                              course : Courses \cup {NoRow}, term : Terms \cup {NoRow}]]
    /\ round \in [Rounds -> [state : {"absent", "planned", "open", "deleted"},
                             term : Terms \cup {NoRow}]]
    /\ binding \subseteq Rounds \X Classes

\* The course of a class is a row of the table, not NoRow.
HasCourse == \A k \in Classes : ClassExists(k) => class[k].course \in Courses

CatalogInv ==
    LockInv /\ Tables /\ HasCourse /\ StillAllowed /\ NoDangling /\ TermsAgree /\ OpenRoundIsOffered

\* A request names the rows of the tables that its operation is about.
LEMMA RequestFields ==
    ASSUME NEW x \in Requests
    PROVE  /\ x.op \in Ops
           /\ LocksCourse(x) => x.course \in Courses
           /\ x.op \in {"createClass", "updateClass", "deleteClass", "bind", "unbind"} => x.class \in Classes
           /\ LocksRound(x) => x.round \in Rounds
           /\ x.op \in {"createClass", "updateClass", "updateRound"} => x.term \in Terms
  <1> USE DEF Request, Ops, LocksCourse, LocksRound
  <1>1. CASE \E op \in {"updateCourse", "deleteCourse", "startVideo"}, a \in Courses :
               x = Request(op, a, NoRow, NoRow, NoRow)
    BY <1>1
  <1>2. CASE \E op \in {"createClass", "updateClass"}, a \in Courses, k \in Classes, term \in Terms :
               x = Request(op, a, k, NoRow, term)
    BY <1>2
  <1>3. CASE \E k \in Classes : x = Request("deleteClass", NoRow, k, NoRow, NoRow)
    BY <1>3
  <1>4. CASE \E op \in {"bind", "unbind"}, k \in Classes, r \in Rounds :
               x = Request(op, NoRow, k, r, NoRow)
    BY <1>4
  <1>5. CASE \E r \in Rounds, term \in Terms : x = Request("updateRound", NoRow, NoRow, r, term)
    BY <1>5
  <1>6. CASE \E op \in {"deleteRound", "openRound"}, r \in Rounds :
               x = Request(op, NoRow, NoRow, r, NoRow)
    BY <1>6
  <1> QED
    BY <1>1, <1>2, <1>3, <1>4, <1>5, <1>6 DEF Requests

\* One row, or two, make a sequence of rows.
LEMMA SequenceOfRows ==
    ASSUME NEW a \in LockRows, NEW b \in LockRows
    PROVE  /\ <<a>> \in Seq(LockRows) /\ Len(<<a>>) = 1 /\ <<a>>[1] = a
           /\ <<a, b>> \in Seq(LockRows) /\ Len(<<a, b>>) = 2 /\ <<a, b>>[1] = a /\ <<a, b>>[2] = b
  OBVIOUS

\* The order of the locks has the rows that the operation is about.
LEMMA OrderRows ==
    ASSUME NEW x \in Requests
    PROVE  LET order == LockOrder(x) IN
           /\ order \in Seq(LockRows)
           /\ LocksCourse(x) => \E i \in 1 .. Len(order) : order[i] = <<"course", x.course>>
           /\ LocksClass(x) => \E i \in 1 .. Len(order) : order[i] = <<"class", x.class>>
           /\ LocksRound(x) => \E i \in 1 .. Len(order) : order[i] = <<"round", x.round>>
  <1> DEFINE order == LockOrder(x)
  <1>1. /\ x.op = "updateClass" => order = <<CourseRow(x), ClassRow(x)>>
        /\ x.op = "deleteClass" => order = <<ClassRow(x)>>
        /\ x.op = "bind" => order = <<RoundRow(x), ClassRow(x)>>
    BY DEF LockOrder, BindLocks
  <1>2. /\ x.op \in {"unbind", "updateRound", "deleteRound", "openRound"} => order = <<RoundRow(x)>>
        /\ x.op \in {"createClass", "updateCourse", "deleteCourse", "startVideo"} =>
             order = <<CourseRow(x)>>
    BY DEF LockOrder, CourseLocks
  <1>3. /\ LocksCourse(x) => CourseRow(x) \in LockRows
        /\ LocksClass(x) => ClassRow(x) \in LockRows
        /\ LocksRound(x) => RoundRow(x) \in LockRows
    BY RequestFields DEF LocksClass, CourseRow, ClassRow, RoundRow, LockRows
  <1> HIDE DEF order
  <1>4. \/ LocksCourse(x) /\ LocksClass(x) /\ ~LocksRound(x) /\ order = <<CourseRow(x), ClassRow(x)>>
        \/ LocksRound(x) /\ LocksClass(x) /\ ~LocksCourse(x) /\ order = <<RoundRow(x), ClassRow(x)>>
        \/ LocksCourse(x) /\ ~LocksClass(x) /\ ~LocksRound(x) /\ order = <<CourseRow(x)>>
        \/ ~LocksCourse(x) /\ LocksClass(x) /\ ~LocksRound(x) /\ order = <<ClassRow(x)>>
        \/ ~LocksCourse(x) /\ ~LocksClass(x) /\ LocksRound(x) /\ order = <<RoundRow(x)>>
    BY <1>1, <1>2, RequestFields DEF LocksCourse, LocksClass, LocksRound, Ops
  <1>5. order \in Seq(LockRows) /\ Len(order) \in Nat
    BY <1>3, <1>4, SequenceOfRows
  <1>6. /\ LocksCourse(x) => \E i \in 1 .. Len(order) : order[i] = CourseRow(x)
        /\ LocksClass(x) => \E i \in 1 .. Len(order) : order[i] = ClassRow(x)
        /\ LocksRound(x) => \E i \in 1 .. Len(order) : order[i] = RoundRow(x)
    BY <1>3, <1>4, SequenceOfRows
  <1> QED
    BY <1>5, <1>6 DEF order, CourseRow, ClassRow, RoundRow

-----------------------------------------------------------------------------
(***************************************************************************)
(* Locks.                                                                  *)
(***************************************************************************)

\* A transaction begins with an order of locks and has none of them.
LEMMA BeginLocks ==
    ASSUME LockInv, NEW t \in Transactions, NEW x \in Requests, Begin(t, x)
    PROVE  LockInv'
  <1> DEFINE new == [pc |-> "lock", request |-> x, locks |-> << >>]
  <1>1. tx' = [tx EXCEPT ![t] = new]
    BY DEF Begin
  <1>2. new \in TxType
    BY DEF TxType
  <1>3. tx' \in [Transactions -> TxType]
    BY <1>1, <1>2 DEF LockInv
  <1>4. tx'[t] = new /\ \A u \in Transactions \ {t} : tx'[u] = tx[u]
    BY <1>1 DEF LockInv
  <1>5. Len(LockOrder(x)) \in Nat
    BY OrderRows
  <1>6. Ordered'
    BY <1>3, <1>4, <1>5 DEF LockInv, Ordered
  <1>7. Exclusive'
    BY <1>3, <1>4 DEF LockInv, Exclusive
  <1> QED
    BY <1>3, <1>6, <1>7 DEF LockInv

\* A transaction locks the next row of its order when nobody else has it, or
\* has locked them all and decides.
LEMMA LockLocks ==
    ASSUME LockInv, NEW t \in Transactions, Lock(t)
    PROVE  LockInv'
  <1> DEFINE order == LockOrder(tx[t].request)
             held == Len(tx[t].locks)
             row == order[held + 1]
  <1>1. /\ tx[t] \in TxType /\ tx[t].pc = "lock" /\ tx[t].request \in Requests
        /\ held \in Nat /\ held <= Len(order)
        /\ \A i \in 1 .. held : tx[t].locks[i] = order[i]
    BY DEF LockInv, Ordered, Lock, TxType
  <1>2. order \in Seq(LockRows)
    BY <1>1, OrderRows
  <1>3. CASE held < Len(order)
    <2>1. row \in LockRows
      BY <1>1, <1>2, <1>3
    <2> DEFINE new == [tx[t] EXCEPT !.locks = Append(tx[t].locks, row)]
    <2>2. tx' = [tx EXCEPT ![t] = new] /\ FreeFor(t, row)
      BY <1>3 DEF Lock, LockInv
    <2>3. new \in TxType /\ new.pc = "lock" /\ new.request = tx[t].request
          /\ new.locks = Append(tx[t].locks, row)
      <3>1. tx[t].locks \in Seq(LockRows)
        BY <1>1 DEF TxType
      <3>2. Append(tx[t].locks, row) \in Seq(LockRows)
        BY <2>1, <3>1
      <3> HIDE DEF row
      <3> QED
        BY <1>1, <3>2 DEF TxType
    <2>4. Len(new.locks) = held + 1 /\ \A i \in 1 .. held + 1 : new.locks[i] = order[i]
      BY <1>1, <2>3 DEF TxType
    <2> HIDE DEF new
    <2>5. tx' \in [Transactions -> TxType] /\ tx'[t] = new
          /\ \A u \in Transactions \ {t} : tx'[u] = tx[u]
      BY <2>2, <2>3 DEF LockInv
    <2>6. Ordered'
      <3>1. held + 1 <= Len(order)
        BY <1>1, <1>2, <1>3
      <3> HIDE DEF row, held
      <3>2. tx'[t].pc = "lock" /\ tx'[t].request = tx[t].request
            /\ Len(tx'[t].locks) = held + 1 /\ \A i \in 1 .. held + 1 : tx'[t].locks[i] = order[i]
        BY <1>1, <2>3, <2>4, <2>5
      <3>3. SUFFICES ASSUME NEW u \in Transactions
                     PROVE  LET its == LockOrder(tx'[u].request) IN
                            /\ tx'[u].pc # "idle" => tx'[u].request \in Requests
                            /\ tx'[u].pc = "idle" => tx'[u].locks = << >>
                            /\ tx'[u].pc # "idle" =>
                                 /\ Len(tx'[u].locks) <= Len(its)
                                 /\ \A i \in 1 .. Len(tx'[u].locks) : tx'[u].locks[i] = its[i]
                            /\ tx'[u].pc \in {"decide", "commit"} => Len(tx'[u].locks) = Len(its)
        BY Zenon DEF Ordered
      <3>4. CASE u = t
        BY <1>1, <3>1, <3>2, <3>4
      <3>5. CASE u # t
        <4>1. tx'[u] = tx[u]
          BY <2>5, <3>5
        <4> QED
          BY <4>1, Zenon DEF LockInv, Ordered
      <3> QED
        BY <3>4, <3>5
    <2>7. Exclusive'
      <3>1. \A i \in DOMAIN new.locks : new.locks[i] = row \/ \E h \in DOMAIN tx[t].locks : new.locks[i] = tx[t].locks[h]
        BY <1>1, <2>3, <2>4 DEF TxType
      <3>2. \A u \in Transactions \ {t} : \A j \in DOMAIN tx[u].locks : tx[u].locks[j] # row
        BY <2>2 DEF FreeFor, Holds
      <3> HIDE DEF row, held
      <3> QED
        BY <3>1, <3>2, <2>5 DEF LockInv, Exclusive
    <2> QED
      BY <2>5, <2>6, <2>7 DEF LockInv
  <1>4. CASE ~(held < Len(order))
    <2> DEFINE new == [tx[t] EXCEPT !.pc = "decide"]
    <2>1. tx' = [tx EXCEPT ![t] = new]
      BY <1>4 DEF Lock, LockInv
    <2>2. new \in TxType /\ new.pc = "decide" /\ new.request = tx[t].request
          /\ new.locks = tx[t].locks
      BY <1>1 DEF TxType
    <2> HIDE DEF new
    <2>3. tx' \in [Transactions -> TxType] /\ tx'[t] = new
          /\ \A u \in Transactions \ {t} : tx'[u] = tx[u]
      BY <2>1, <2>2 DEF LockInv
    <2>4. Len(new.locks) = Len(order)
      BY <1>1, <1>2, <1>4, <2>2
    <2>5. Ordered'
      <3>1. SUFFICES ASSUME NEW u \in Transactions
                     PROVE  LET its == LockOrder(tx'[u].request) IN
                            /\ tx'[u].pc # "idle" => tx'[u].request \in Requests
                            /\ tx'[u].pc = "idle" => tx'[u].locks = << >>
                            /\ tx'[u].pc # "idle" =>
                                 /\ Len(tx'[u].locks) <= Len(its)
                                 /\ \A i \in 1 .. Len(tx'[u].locks) : tx'[u].locks[i] = its[i]
                            /\ tx'[u].pc \in {"decide", "commit"} => Len(tx'[u].locks) = Len(its)
        BY Zenon DEF Ordered
      <3>2. CASE u = t
        BY <1>1, <2>2, <2>3, <2>4, <3>2
      <3>3. CASE u # t
        <4>1. tx'[u] = tx[u]
          BY <2>3, <3>3
        <4> QED
          BY <4>1, Zenon DEF LockInv, Ordered
      <3> QED
        BY <3>2, <3>3
    <2>6. Exclusive'
      BY <2>2, <2>3 DEF LockInv, Exclusive
    <2> QED
      BY <2>3, <2>5, <2>6 DEF LockInv
  <1> QED
    BY <1>3, <1>4

\* A decision keeps the locks.
LEMMA DecideLocks ==
    ASSUME LockInv, NEW t \in Transactions, Decide(t)
    PROVE  LockInv'
  <1> DEFINE new == [tx[t] EXCEPT !.pc = "commit"]
  <1>1. tx' = [tx EXCEPT ![t] = new] /\ tx[t].pc = "decide"
    BY DEF Decide, LockInv
  <1>2. new \in TxType /\ new.pc = "commit" /\ new.request = tx[t].request
        /\ new.locks = tx[t].locks
    BY DEF TxType, LockInv
  <1> HIDE DEF new
  <1>3. tx' \in [Transactions -> TxType] /\ tx'[t] = new
        /\ \A u \in Transactions \ {t} : tx'[u] = tx[u]
    BY <1>1, <1>2 DEF LockInv
  <1>4. Ordered'
    BY <1>1, <1>2, <1>3 DEF LockInv, Ordered
  <1>5. Exclusive'
    BY <1>2, <1>3 DEF LockInv, Exclusive
  <1> QED
    BY <1>3, <1>4, <1>5 DEF LockInv

\* The end of a transaction releases all its locks.
LEMMA EndLocks ==
    ASSUME LockInv, NEW t \in Transactions, tx' = [tx EXCEPT ![t] = NoTx]
    PROVE  LockInv'
  <1>1. NoTx \in TxType /\ NoTx.pc = "idle" /\ NoTx.locks = << >>
    BY DEF NoTx, TxType
  <1>2. tx' \in [Transactions -> TxType] /\ tx'[t] = NoTx
        /\ \A u \in Transactions \ {t} : tx'[u] = tx[u]
    BY <1>1 DEF LockInv
  <1>3. Ordered'
    BY <1>1, <1>2 DEF LockInv, Ordered
  <1>4. Exclusive'
    BY <1>1, <1>2 DEF LockInv, Exclusive
  <1> QED
    BY <1>2, <1>3, <1>4 DEF LockInv
-----------------------------------------------------------------------------
(***************************************************************************)
(* Rows.                                                                   *)
(***************************************************************************)

\* Two transactions that have all their locks have none in common.
LEMMA Apart ==
    ASSUME LockInv, NEW t \in Transactions, NEW u \in Transactions, t # u,
           tx[t].pc \in {"decide", "commit"}, tx[u].pc \in {"decide", "commit"}
    PROVE  Separate(tx[t].request, tx[u].request)
  <1> DEFINE x == tx[t].request
             y == tx[u].request
  <1>1. x \in Requests /\ y \in Requests
    BY DEF LockInv, Ordered
  <1>2. /\ DOMAIN tx[t].locks = 1 .. Len(LockOrder(x))
        /\ DOMAIN tx[u].locks = 1 .. Len(LockOrder(y))
        /\ \A i \in 1 .. Len(LockOrder(x)) : tx[t].locks[i] = LockOrder(x)[i]
        /\ \A i \in 1 .. Len(LockOrder(y)) : tx[u].locks[i] = LockOrder(y)[i]
    BY DEF LockInv, Ordered, TxType
  <1>3. \A i \in 1 .. Len(LockOrder(x)), j \in 1 .. Len(LockOrder(y)) : LockOrder(x)[i] # LockOrder(y)[j]
    BY <1>2 DEF LockInv, Exclusive
  <1>4. ASSUME NEW z \in {x, y}
        PROVE  /\ LocksCourse(z) => \E i \in 1 .. Len(LockOrder(z)) : LockOrder(z)[i] = <<"course", z.course>>
               /\ LocksClass(z) => \E i \in 1 .. Len(LockOrder(z)) : LockOrder(z)[i] = <<"class", z.class>>
               /\ LocksRound(z) => \E i \in 1 .. Len(LockOrder(z)) : LockOrder(z)[i] = <<"round", z.round>>
    BY <1>1, OrderRows
  <1> HIDE DEF x, y
  <1>5. Separate(x, y)
    BY <1>3, <1>4 DEF Separate
  <1> QED
    BY <1>5 DEF x, y

\* A class that is free for one transaction is not what another has locked.
LEMMA FreeClass ==
    ASSUME LockInv, NEW t \in Transactions, NEW u \in Transactions, t # u,
           tx[u].pc = "commit", NEW k, FreeFor(t, <<"class", k>>), LocksClass(tx[u].request)
    PROVE  tx[u].request.class # k
  <1> DEFINE y == tx[u].request
  <1>1. y \in Requests
    BY DEF LockInv, Ordered
  <1>2. /\ DOMAIN tx[u].locks = 1 .. Len(LockOrder(y))
        /\ \A i \in 1 .. Len(LockOrder(y)) : tx[u].locks[i] = LockOrder(y)[i]
    BY DEF LockInv, Ordered, TxType
  <1>3. \E i \in 1 .. Len(LockOrder(y)) : LockOrder(y)[i] = <<"class", y.class>>
    BY <1>1, OrderRows
  <1>4. \A i \in DOMAIN tx[u].locks : tx[u].locks[i] # <<"class", k>>
    BY DEF FreeFor, Holds
  <1> QED
    BY <1>2, <1>3, <1>4

\* A commit ends its transaction.  What the others rely on remains if it remains
\* for every request that has no lock in common with the one that commits.
LEMMA Committing ==
    ASSUME CatalogInv, NEW t \in Transactions, tx[t].pc = "commit", tx' = [tx EXCEPT ![t] = NoTx]
    PROVE  /\ LockInv'
           /\ tx[t].request \in Requests
           /\ RemainsAllowed(tx[t].request)
           /\ (\A y \in Requests : RemainsAllowed(y) /\ Separate(tx[t].request, y) => RemainsAllowed(y)')
                => StillAllowed'
  <1>1. LockInv' /\ tx[t].request \in Requests /\ RemainsAllowed(tx[t].request)
    BY EndLocks DEF CatalogInv, LockInv, Ordered, StillAllowed
  <1>2. ASSUME NEW u \in Transactions, tx'[u].pc = "commit"
        PROVE  u # t /\ tx[u].pc = "commit" /\ tx'[u] = tx[u] /\ tx[u].request \in Requests
    BY <1>2 DEF CatalogInv, LockInv, NoTx, Ordered
  <1>3. ASSUME \A y \in Requests : RemainsAllowed(y) /\ Separate(tx[t].request, y) => RemainsAllowed(y)',
               NEW u \in Transactions, tx'[u].pc = "commit"
        PROVE  RemainsAllowed(tx[u].request)'
    <2>1. /\ tx[u].request \in Requests /\ RemainsAllowed(tx[u].request)
          /\ Separate(tx[t].request, tx[u].request) /\ tx'[u] = tx[u]
      BY <1>2, <1>3, Apart DEF CatalogInv, StillAllowed
    <2>2. PICK y \in Requests : y = tx[u].request
      BY <2>1
    <2>3. RemainsAllowed(y)'
      BY <1>3, <2>1, <2>2
    <2>4. y = tx'[u].request
      BY <2>1, <2>2
    <2> QED
      BY <2>3, <2>4 DEF RemainsAllowed, LocksCourse, LocksRound, CourseExists, ClassExists
  <1> QED
    BY <1>1, <1>3 DEF StillAllowed

\* What the properties say, row by row.
LEMMA RowByRow ==
    ASSUME CatalogInv
    PROVE  /\ \A k \in Classes : ClassExists(k) =>
                class[k].course \in Courses /\ CourseExists(class[k].course)
           /\ \A r \in Rounds, k \in Classes : <<r, k>> \in binding =>
                RoundExists(r) /\ ClassExists(k) /\ round[r].term = class[k].term
           /\ \A a \in Courses : course[a].video = TRUE => CourseExists(a)
           /\ \A r \in Rounds : round[r].state = "open" =>
                /\ \E k \in Classes : <<r, k>> \in binding
                /\ \A k \in Classes : <<r, k>> \in binding => class[k].state = "open"
  <1>1. \A k \in Classes : ClassExists(k) => class[k].course \in Courses /\ CourseExists(class[k].course)
    BY DEF CatalogInv, NoDangling, HasCourse
  <1>2. ASSUME NEW r \in Rounds, NEW k \in Classes, <<r, k>> \in binding
        PROVE  RoundExists(r) /\ ClassExists(k) /\ round[r].term = class[k].term
    <2> DEFINE b == <<r, k>>
    <2>1. b[1] = r /\ b[2] = k /\ b \in binding
      BY <1>2
    <2> HIDE DEF b
    <2> QED
      BY <2>1 DEF CatalogInv, NoDangling, TermsAgree
  <1>3. \A a \in Courses : course[a].video = TRUE => CourseExists(a)
    BY DEF CatalogInv, NoDangling
  <1>4. \A r \in Rounds : round[r].state = "open" =>
          /\ \E k \in Classes : <<r, k>> \in binding
          /\ \A k \in Classes : <<r, k>> \in binding => class[k].state = "open"
    BY DEF CatalogInv, OpenRoundIsOffered, BoundTo
  <1> QED
    BY <1>1, <1>2, <1>3, <1>4

\* The properties follow from what they say row by row.
LEMMA RowByRowNext ==
    ASSUME Tables',
           \A k \in Classes : ClassExists(k)' => class'[k].course \in Courses /\ CourseExists(class[k].course)',
           \A r \in Rounds, k \in Classes : <<r, k>> \in binding' =>
             RoundExists(r)' /\ ClassExists(k)' /\ round'[r].term = class'[k].term,
           \A a \in Courses : course'[a].video = TRUE => CourseExists(a)',
           \A r \in Rounds : round'[r].state = "open" =>
             /\ \E k \in Classes : <<r, k>> \in binding'
             /\ \A k \in Classes : <<r, k>> \in binding' => class'[k].state = "open"
    PROVE  HasCourse' /\ NoDangling' /\ TermsAgree' /\ OpenRoundIsOffered'
  <1>1. ASSUME NEW b \in binding'
        PROVE  RoundExists(b[1])' /\ ClassExists(b[2])' /\ round'[b[1]].term = class'[b[2]].term
    <2>1. PICK r \in Rounds, k \in Classes : b = <<r, k>>
      BY DEF Tables
    <2> QED
      BY <2>1
  <1>2. ASSUME NEW a \in Courses, course'[a].video
        PROVE  CourseExists(a)'
    <2>1. course'[a].video \in BOOLEAN
      BY DEF Tables
    <2> QED
      BY <1>2, <2>1
  <1>3. NoDangling'
    BY <1>1, <1>2 DEF NoDangling
  <1>4. TermsAgree'
    BY <1>1 DEF TermsAgree
  <1>5. OpenRoundIsOffered'
    BY DEF OpenRoundIsOffered, BoundTo
  <1> QED
    BY <1>3, <1>4, <1>5 DEF HasCourse

-----------------------------------------------------------------------------
(***************************************************************************)
(* The writes.                                                             *)
(***************************************************************************)

\* A new class has its course, which is locked, and is in no binding.
LEMMA CreateTeachingClassInv ==
    ASSUME CatalogInv, NEW t \in Transactions, CreateTeachingClass(t)
    PROVE  CatalogInv'
  <1> DEFINE x == tx[t].request
  <1>1. /\ LockInv' /\ x \in Requests /\ x.op = "createClass" /\ RemainsAllowed(x)
        /\ (\A y \in Requests : RemainsAllowed(y) /\ Separate(x, y) => RemainsAllowed(y)') => StillAllowed'
    BY Committing DEF CreateTeachingClass, Commits
  <1>2. x.class \in Classes /\ x.course \in Courses /\ x.term \in Terms /\ CourseExists(x.course)
    BY <1>1, RequestFields DEF LocksCourse, LocksRound, RemainsAllowed
  <1>3. UNCHANGED <<course, round, binding>>
    BY DEF CreateTeachingClass
  <1>4. /\ class[x.class].state = "absent" /\ class'[x.class].state = "planned"
        /\ class'[x.class].course = x.course /\ class'[x.class].term = x.term
        /\ \A k \in Classes \ {x.class} : class'[k] = class[k]
    BY <1>2 DEF CreateTeachingClass, CatalogInv, Tables
  <1>5. Tables'
    BY <1>2, <1>3 DEF CreateTeachingClass, CatalogInv, Tables
  <1> HIDE DEF x
  <1>6. \A k \in Classes : ClassExists(k)' => class'[k].course \in Courses /\ CourseExists(class[k].course)'
    BY <1>2, <1>3, <1>4, RowByRow DEF ClassExists, CourseExists
  <1>7. \A a \in Courses : course'[a].video = TRUE => CourseExists(a)'
    BY <1>2, <1>3, <1>4, RowByRow DEF CourseExists
  <1>8. \A r \in Rounds, k \in Classes : <<r, k>> \in binding' =>
          RoundExists(r)' /\ ClassExists(k)' /\ round'[r].term = class'[k].term
    BY <1>2, <1>3, <1>4, RowByRow DEF ClassExists, RoundExists
  <1>9. \A r \in Rounds : round'[r].state = "open" =>
          /\ \E k \in Classes : <<r, k>> \in binding'
          /\ \A k \in Classes : <<r, k>> \in binding' => class'[k].state = "open"
    BY <1>2, <1>3, <1>4, RowByRow DEF ClassExists, RoundExists
  <1>10. HasCourse' /\ NoDangling' /\ TermsAgree' /\ OpenRoundIsOffered'
    BY <1>5, <1>6, <1>7, <1>8, <1>9, RowByRowNext
  <1>11. ASSUME NEW y \in Requests, RemainsAllowed(y), Separate(x, y)
         PROVE  RemainsAllowed(y)'
    BY <1>1, <1>2, <1>3, <1>4, <1>11, RequestFields
       DEF RemainsAllowed, Separate, LocksCourse, LocksClass, LocksRound, CourseExists, ClassExists
  <1> QED
    BY <1>1, <1>5, <1>10, <1>11 DEF CatalogInv

\* A class that changes is in no binding, and its new course is locked.
LEMMA UpdateTeachingClassInv ==
    ASSUME CatalogInv, NEW t \in Transactions, UpdateTeachingClass(t)
    PROVE  CatalogInv'
  <1> DEFINE x == tx[t].request
  <1>1. /\ LockInv' /\ x \in Requests /\ x.op = "updateClass" /\ RemainsAllowed(x)
        /\ (\A y \in Requests : RemainsAllowed(y) /\ Separate(x, y) => RemainsAllowed(y)') => StillAllowed'
    BY Committing DEF UpdateTeachingClass, Commits
  <1>2. /\ x.class \in Classes /\ x.course \in Courses /\ x.term \in Terms /\ CourseExists(x.course)
        /\ \A r \in Rounds : <<r, x.class>> \notin binding
    BY <1>1, RequestFields DEF LocksCourse, LocksRound, RemainsAllowed
  <1>3. UNCHANGED <<course, round, binding>>
    BY DEF UpdateTeachingClass
  <1>4. /\ class[x.class].state = "planned" /\ class'[x.class].state = "planned"
        /\ class'[x.class].course = x.course /\ class'[x.class].term = x.term
        /\ \A k \in Classes \ {x.class} : class'[k] = class[k]
    <2> DEFINE one == [class EXCEPT ![x.class].course = x.course]
    <2>1. /\ one \in [Classes -> [state : {"absent", "planned", "open", "deleted"},
                                  course : Courses \cup {NoRow}, term : Terms \cup {NoRow}]]
          /\ one[x.class].state = class[x.class].state /\ one[x.class].course = x.course
          /\ \A k \in Classes \ {x.class} : one[k] = class[k]
      BY <1>2 DEF CatalogInv, Tables
    <2>2. class' = [one EXCEPT ![x.class].term = x.term] /\ class[x.class].state = "planned"
      BY DEF UpdateTeachingClass
    <2> HIDE DEF one
    <2> QED
      BY <1>2, <2>1, <2>2
  <1>5. Tables'
    <2> DEFINE Row == [state : {"absent", "planned", "open", "deleted"}, course : Courses \cup {NoRow}, term : Terms \cup {NoRow}]
               one == [class EXCEPT ![x.class].course = x.course]
    <2>1. class \in [Classes -> Row] /\ class' = [one EXCEPT ![x.class].term = x.term]
      BY DEF UpdateTeachingClass, CatalogInv, Tables
    <2>2. one \in [Classes -> Row]
      BY <1>2, <2>1
    <2> HIDE DEF one
    <2>3. class' \in [Classes -> Row]
      BY <1>2, <2>1, <2>2
    <2> QED
      BY <1>3, <2>3 DEF CatalogInv, Tables
  <1> HIDE DEF x
  <1>6. \A k \in Classes : ClassExists(k)' => class'[k].course \in Courses /\ CourseExists(class[k].course)'
    BY <1>2, <1>3, <1>4, RowByRow DEF ClassExists, CourseExists
  <1>7. \A a \in Courses : course'[a].video = TRUE => CourseExists(a)'
    BY <1>2, <1>3, <1>4, RowByRow DEF CourseExists
  <1>8. \A r \in Rounds, k \in Classes : <<r, k>> \in binding' =>
          RoundExists(r)' /\ ClassExists(k)' /\ round'[r].term = class'[k].term
    BY <1>2, <1>3, <1>4, RowByRow DEF ClassExists, RoundExists
  <1>9. \A r \in Rounds : round'[r].state = "open" =>
          /\ \E k \in Classes : <<r, k>> \in binding'
          /\ \A k \in Classes : <<r, k>> \in binding' => class'[k].state = "open"
    BY <1>2, <1>3, <1>4, RowByRow DEF ClassExists, RoundExists
  <1>10. HasCourse' /\ NoDangling' /\ TermsAgree' /\ OpenRoundIsOffered'
    BY <1>5, <1>6, <1>7, <1>8, <1>9, RowByRowNext
  <1>11. ASSUME NEW y \in Requests, RemainsAllowed(y), Separate(x, y)
         PROVE  RemainsAllowed(y)'
    BY <1>1, <1>2, <1>3, <1>4, <1>11, RequestFields
       DEF RemainsAllowed, Separate, LocksCourse, LocksClass, LocksRound, CourseExists, ClassExists
  <1> QED
    BY <1>1, <1>5, <1>10, <1>11 DEF CatalogInv

\* A class that goes is in no binding.
LEMMA DeleteTeachingClassInv ==
    ASSUME CatalogInv, NEW t \in Transactions, DeleteTeachingClass(t)
    PROVE  CatalogInv'
  <1> DEFINE x == tx[t].request
  <1>1. /\ LockInv' /\ x \in Requests /\ x.op = "deleteClass" /\ RemainsAllowed(x)
        /\ (\A y \in Requests : RemainsAllowed(y) /\ Separate(x, y) => RemainsAllowed(y)') => StillAllowed'
    BY Committing DEF DeleteTeachingClass, Commits
  <1>2. x.class \in Classes /\ \A r \in Rounds : <<r, x.class>> \notin binding
    BY <1>1, RequestFields DEF LocksCourse, LocksRound, RemainsAllowed
  <1>3. UNCHANGED <<course, round, binding>>
    BY DEF DeleteTeachingClass
  <1>4. /\ class[x.class].state = "planned" /\ class'[x.class].state = "deleted"
        /\ class'[x.class].course = class[x.class].course /\ class'[x.class].term = class[x.class].term
        /\ \A k \in Classes \ {x.class} : class'[k] = class[k]
    BY <1>2 DEF DeleteTeachingClass, CatalogInv, Tables
  <1>5. Tables'
    <2>1. class' \in [Classes -> [state : {"absent", "planned", "open", "deleted"},
                                  course : Courses \cup {NoRow}, term : Terms \cup {NoRow}]]
      <3>1. class' = [class EXCEPT ![x.class].state = "deleted"]
        BY DEF DeleteTeachingClass
      <3>2. class \in [Classes -> [state : {"absent", "planned", "open", "deleted"},
                                   course : Courses \cup {NoRow}, term : Terms \cup {NoRow}]]
        BY DEF CatalogInv, Tables
      <3> HIDE DEF x
      <3> QED
        BY <1>2, <3>1, <3>2
    <2> QED
      BY <1>3, <2>1 DEF CatalogInv, Tables
  <1> HIDE DEF x
  <1>6. \A k \in Classes : ClassExists(k)' => class'[k].course \in Courses /\ CourseExists(class[k].course)'
    BY <1>2, <1>3, <1>4, RowByRow DEF ClassExists, CourseExists
  <1>7. \A a \in Courses : course'[a].video = TRUE => CourseExists(a)'
    BY <1>2, <1>3, <1>4, RowByRow DEF CourseExists
  <1>8. \A r \in Rounds, k \in Classes : <<r, k>> \in binding' =>
          RoundExists(r)' /\ ClassExists(k)' /\ round'[r].term = class'[k].term
    BY <1>2, <1>3, <1>4, RowByRow DEF ClassExists, RoundExists
  <1>9. \A r \in Rounds : round'[r].state = "open" =>
          /\ \E k \in Classes : <<r, k>> \in binding'
          /\ \A k \in Classes : <<r, k>> \in binding' => class'[k].state = "open"
    BY <1>2, <1>3, <1>4, RowByRow DEF ClassExists, RoundExists
  <1>10. HasCourse' /\ NoDangling' /\ TermsAgree' /\ OpenRoundIsOffered'
    BY <1>5, <1>6, <1>7, <1>8, <1>9, RowByRowNext
  <1>11. ASSUME NEW y \in Requests, RemainsAllowed(y), Separate(x, y)
         PROVE  RemainsAllowed(y)'
    BY <1>1, <1>2, <1>3, <1>4, <1>11, RequestFields
       DEF RemainsAllowed, Separate, LocksCourse, LocksClass, LocksRound, CourseExists, ClassExists
  <1> QED
    BY <1>1, <1>5, <1>10, <1>11 DEF CatalogInv

\* A change of the core of a course leaves its state alone.
LEMMA UpdateCourseInv ==
    ASSUME CatalogInv, NEW t \in Transactions, UpdateCourse(t)
    PROVE  CatalogInv'
  <1> DEFINE x == tx[t].request
  <1>1. /\ LockInv' /\ x \in Requests /\ x.op = "updateCourse" /\ RemainsAllowed(x)
        /\ (\A y \in Requests : RemainsAllowed(y) /\ Separate(x, y) => RemainsAllowed(y)') => StillAllowed'
    BY Committing DEF UpdateCourse, Commits
  <1>2. x.course \in Courses /\ CourseExists(x.course) /\ course[x.course].core < MaxChanges
    BY <1>1, RequestFields DEF LocksCourse, LocksRound, RemainsAllowed
  <1>3. UNCHANGED <<class, round, binding>>
    BY DEF UpdateCourse
  <1>4. /\ course'[x.course].state = "present" /\ course'[x.course].video = course[x.course].video
        /\ \A a \in Courses \ {x.course} : course'[a] = course[a]
    BY <1>2, CatalogConstants DEF UpdateCourse, CatalogInv, Tables, CourseExists
  <1>5. Tables'
    BY <1>2, <1>3, CatalogConstants DEF UpdateCourse, CatalogInv, Tables
  <1> HIDE DEF x
  <1>6. \A k \in Classes : ClassExists(k)' => class'[k].course \in Courses /\ CourseExists(class[k].course)'
    BY <1>2, <1>3, <1>4, RowByRow DEF ClassExists, CourseExists
  <1>7. \A a \in Courses : course'[a].video = TRUE => CourseExists(a)'
    BY <1>2, <1>3, <1>4, RowByRow DEF CourseExists
  <1>8. \A r \in Rounds, k \in Classes : <<r, k>> \in binding' =>
          RoundExists(r)' /\ ClassExists(k)' /\ round'[r].term = class'[k].term
    BY <1>2, <1>3, <1>4, RowByRow DEF ClassExists, RoundExists
  <1>9. \A r \in Rounds : round'[r].state = "open" =>
          /\ \E k \in Classes : <<r, k>> \in binding'
          /\ \A k \in Classes : <<r, k>> \in binding' => class'[k].state = "open"
    BY <1>2, <1>3, <1>4, RowByRow DEF ClassExists, RoundExists
  <1>10. HasCourse' /\ NoDangling' /\ TermsAgree' /\ OpenRoundIsOffered'
    BY <1>5, <1>6, <1>7, <1>8, <1>9, RowByRowNext
  <1>11. ASSUME NEW y \in Requests, RemainsAllowed(y), Separate(x, y)
         PROVE  RemainsAllowed(y)'
    BY <1>1, <1>2, <1>3, <1>4, <1>11, RequestFields
       DEF RemainsAllowed, Separate, LocksCourse, LocksClass, LocksRound, CourseExists, ClassExists
  <1> QED
    BY <1>1, <1>5, <1>10, <1>11 DEF CatalogInv

\* A course that goes has no class and no video.
LEMMA DeleteCourseInv ==
    ASSUME CatalogInv, NEW t \in Transactions, DeleteCourse(t)
    PROVE  CatalogInv'
  <1> DEFINE x == tx[t].request
  <1>1. /\ LockInv' /\ x \in Requests /\ x.op = "deleteCourse" /\ RemainsAllowed(x)
        /\ (\A y \in Requests : RemainsAllowed(y) /\ Separate(x, y) => RemainsAllowed(y)') => StillAllowed'
    BY Committing DEF DeleteCourse, Commits
  <1>2. /\ x.course \in Courses /\ course[x.course].video = FALSE
        /\ \A k \in Classes : ClassExists(k) => class[k].course # x.course
    BY <1>1, RequestFields DEF LocksCourse, LocksRound, RemainsAllowed
  <1>3. UNCHANGED <<class, round, binding>>
    BY DEF DeleteCourse
  <1>4. /\ course'[x.course].video = FALSE
        /\ \A a \in Courses \ {x.course} : course'[a] = course[a]
    BY <1>2 DEF DeleteCourse, CatalogInv, Tables, CourseExists
  <1>5. Tables'
    BY <1>2, <1>3 DEF DeleteCourse, CatalogInv, Tables
  <1> HIDE DEF x
  <1>6. \A k \in Classes : ClassExists(k)' => class'[k].course \in Courses /\ CourseExists(class[k].course)'
    BY <1>2, <1>3, <1>4, RowByRow DEF ClassExists, CourseExists
  <1>7. \A a \in Courses : course'[a].video = TRUE => CourseExists(a)'
    BY <1>2, <1>3, <1>4, RowByRow DEF CourseExists
  <1>8. \A r \in Rounds, k \in Classes : <<r, k>> \in binding' =>
          RoundExists(r)' /\ ClassExists(k)' /\ round'[r].term = class'[k].term
    BY <1>2, <1>3, <1>4, RowByRow DEF ClassExists, RoundExists
  <1>9. \A r \in Rounds : round'[r].state = "open" =>
          /\ \E k \in Classes : <<r, k>> \in binding'
          /\ \A k \in Classes : <<r, k>> \in binding' => class'[k].state = "open"
    BY <1>2, <1>3, <1>4, RowByRow DEF ClassExists, RoundExists
  <1>10. HasCourse' /\ NoDangling' /\ TermsAgree' /\ OpenRoundIsOffered'
    BY <1>5, <1>6, <1>7, <1>8, <1>9, RowByRowNext
  <1>11. ASSUME NEW y \in Requests, RemainsAllowed(y), Separate(x, y)
         PROVE  RemainsAllowed(y)'
    BY <1>1, <1>2, <1>3, <1>4, <1>11, RequestFields
       DEF RemainsAllowed, Separate, LocksCourse, LocksClass, LocksRound, CourseExists, ClassExists
  <1> QED
    BY <1>1, <1>5, <1>10, <1>11 DEF CatalogInv

\* A video is of a course that is there.
LEMMA StartVideoInv ==
    ASSUME CatalogInv, NEW t \in Transactions, StartVideo(t)
    PROVE  CatalogInv'
  <1> DEFINE x == tx[t].request
  <1>1. /\ LockInv' /\ x \in Requests /\ x.op = "startVideo" /\ RemainsAllowed(x)
        /\ (\A y \in Requests : RemainsAllowed(y) /\ Separate(x, y) => RemainsAllowed(y)') => StillAllowed'
    BY Committing DEF StartVideo, Commits
  <1>2. x.course \in Courses /\ CourseExists(x.course)
    BY <1>1, RequestFields DEF LocksCourse, LocksRound, RemainsAllowed
  <1>3. UNCHANGED <<class, round, binding>>
    BY DEF StartVideo
  <1>4. /\ course'[x.course].state = "present" /\ course'[x.course].core = course[x.course].core
        /\ \A a \in Courses \ {x.course} : course'[a] = course[a]
    BY <1>2 DEF StartVideo, CatalogInv, Tables, CourseExists
  <1>5. Tables'
    <2>1. course' \in [Courses -> [state : {"absent", "present", "deleted"}, core : 0 .. MaxChanges,
                                   video : BOOLEAN]]
      <3>1. course' = [course EXCEPT ![x.course].video = TRUE]
        BY DEF StartVideo
      <3>2. course \in [Courses -> [state : {"absent", "present", "deleted"}, core : 0 .. MaxChanges,
                                    video : BOOLEAN]]
        BY DEF CatalogInv, Tables
      <3> HIDE DEF x
      <3> QED
        BY <1>2, <3>1, <3>2
    <2> QED
      BY <1>3, <2>1 DEF CatalogInv, Tables
  <1> HIDE DEF x
  <1>6. \A k \in Classes : ClassExists(k)' => class'[k].course \in Courses /\ CourseExists(class[k].course)'
    BY <1>2, <1>3, <1>4, RowByRow DEF ClassExists, CourseExists
  <1>7. \A a \in Courses : course'[a].video = TRUE => CourseExists(a)'
    BY <1>2, <1>3, <1>4, RowByRow DEF CourseExists
  <1>8. \A r \in Rounds, k \in Classes : <<r, k>> \in binding' =>
          RoundExists(r)' /\ ClassExists(k)' /\ round'[r].term = class'[k].term
    BY <1>2, <1>3, <1>4, RowByRow DEF ClassExists, RoundExists
  <1>9. \A r \in Rounds : round'[r].state = "open" =>
          /\ \E k \in Classes : <<r, k>> \in binding'
          /\ \A k \in Classes : <<r, k>> \in binding' => class'[k].state = "open"
    BY <1>2, <1>3, <1>4, RowByRow DEF ClassExists, RoundExists
  <1>10. HasCourse' /\ NoDangling' /\ TermsAgree' /\ OpenRoundIsOffered'
    BY <1>5, <1>6, <1>7, <1>8, <1>9, RowByRowNext
  <1>11. ASSUME NEW y \in Requests, RemainsAllowed(y), Separate(x, y)
         PROVE  RemainsAllowed(y)'
    BY <1>1, <1>2, <1>3, <1>4, <1>11, RequestFields
       DEF RemainsAllowed, Separate, LocksCourse, LocksClass, LocksRound, CourseExists, ClassExists
  <1> QED
    BY <1>1, <1>5, <1>10, <1>11 DEF CatalogInv

\* The round and the class of a new binding are planned and of one term.
LEMMA BindRoundClassInv ==
    ASSUME CatalogInv, NEW t \in Transactions, BindRoundClass(t)
    PROVE  CatalogInv'
  <1> DEFINE x == tx[t].request
  <1>1. /\ LockInv' /\ x \in Requests /\ x.op = "bind" /\ RemainsAllowed(x)
        /\ (\A y \in Requests : RemainsAllowed(y) /\ Separate(x, y) => RemainsAllowed(y)') => StillAllowed'
    BY Committing DEF BindRoundClass, Commits
  <1>2. /\ x.class \in Classes /\ x.round \in Rounds
        /\ round[x.round].state = "planned" /\ class[x.class].state = "planned"
        /\ class[x.class].term = round[x.round].term
    BY <1>1, RequestFields DEF LocksCourse, LocksRound, RemainsAllowed
  <1>3. UNCHANGED <<course, class, round>>
    BY DEF BindRoundClass
  <1>4. binding' = binding \cup {<<x.round, x.class>>}
    BY DEF BindRoundClass
  <1>5. Tables'
    BY <1>2, <1>3 DEF BindRoundClass, CatalogInv, Tables
  <1> HIDE DEF x
  <1>6. \A k \in Classes : ClassExists(k)' => class'[k].course \in Courses /\ CourseExists(class[k].course)'
    BY <1>2, <1>3, <1>4, RowByRow DEF ClassExists, CourseExists
  <1>7. \A a \in Courses : course'[a].video = TRUE => CourseExists(a)'
    BY <1>2, <1>3, <1>4, RowByRow DEF CourseExists
  <1>8. \A r \in Rounds, k \in Classes : <<r, k>> \in binding' =>
          RoundExists(r)' /\ ClassExists(k)' /\ round'[r].term = class'[k].term
    BY <1>2, <1>3, <1>4, RowByRow DEF ClassExists, RoundExists
  <1>9. \A r \in Rounds : round'[r].state = "open" =>
          /\ \E k \in Classes : <<r, k>> \in binding'
          /\ \A k \in Classes : <<r, k>> \in binding' => class'[k].state = "open"
    BY <1>2, <1>3, <1>4, RowByRow DEF ClassExists, RoundExists
  <1>10. HasCourse' /\ NoDangling' /\ TermsAgree' /\ OpenRoundIsOffered'
    BY <1>5, <1>6, <1>7, <1>8, <1>9, RowByRowNext
  <1>11. ASSUME NEW y \in Requests, RemainsAllowed(y), Separate(x, y)
         PROVE  RemainsAllowed(y)'
    BY <1>1, <1>2, <1>3, <1>4, <1>11, RequestFields
       DEF RemainsAllowed, Separate, LocksCourse, LocksClass, LocksRound, CourseExists, ClassExists
  <1> QED
    BY <1>1, <1>5, <1>10, <1>11 DEF CatalogInv

\* A binding goes only while its round is planned.
LEMMA UnbindRoundClassInv ==
    ASSUME CatalogInv, NEW t \in Transactions, UnbindRoundClass(t)
    PROVE  CatalogInv'
  <1> DEFINE x == tx[t].request
  <1>1. /\ LockInv' /\ x \in Requests /\ x.op = "unbind" /\ RemainsAllowed(x)
        /\ (\A y \in Requests : RemainsAllowed(y) /\ Separate(x, y) => RemainsAllowed(y)') => StillAllowed'
    BY Committing DEF UnbindRoundClass, Commits
  <1>2. x.class \in Classes /\ x.round \in Rounds /\ round[x.round].state = "planned"
    BY <1>1, RequestFields DEF LocksCourse, LocksRound, RemainsAllowed
  <1>3. UNCHANGED <<course, class, round>>
    BY DEF UnbindRoundClass
  <1>4. binding' = binding \ {<<x.round, x.class>>}
    BY DEF UnbindRoundClass
  <1>5. Tables'
    BY <1>2, <1>3 DEF UnbindRoundClass, CatalogInv, Tables
  <1> HIDE DEF x
  <1>6. \A k \in Classes : ClassExists(k)' => class'[k].course \in Courses /\ CourseExists(class[k].course)'
    BY <1>2, <1>3, <1>4, RowByRow DEF ClassExists, CourseExists
  <1>7. \A a \in Courses : course'[a].video = TRUE => CourseExists(a)'
    BY <1>2, <1>3, <1>4, RowByRow DEF CourseExists
  <1>8. \A r \in Rounds, k \in Classes : <<r, k>> \in binding' =>
          RoundExists(r)' /\ ClassExists(k)' /\ round'[r].term = class'[k].term
    BY <1>2, <1>3, <1>4, RowByRow DEF ClassExists, RoundExists
  <1>9. \A r \in Rounds : round'[r].state = "open" =>
          /\ \E k \in Classes : <<r, k>> \in binding'
          /\ \A k \in Classes : <<r, k>> \in binding' => class'[k].state = "open"
    BY <1>2, <1>3, <1>4, RowByRow DEF ClassExists, RoundExists
  <1>10. HasCourse' /\ NoDangling' /\ TermsAgree' /\ OpenRoundIsOffered'
    BY <1>5, <1>6, <1>7, <1>8, <1>9, RowByRowNext
  <1>11. ASSUME NEW y \in Requests, RemainsAllowed(y), Separate(x, y)
         PROVE  RemainsAllowed(y)'
    BY <1>1, <1>2, <1>3, <1>4, <1>11, RequestFields
       DEF RemainsAllowed, Separate, LocksCourse, LocksClass, LocksRound, CourseExists, ClassExists
  <1> QED
    BY <1>1, <1>5, <1>10, <1>11 DEF CatalogInv

\* A round changes its term only without bindings.
LEMMA UpdateRoundInv ==
    ASSUME CatalogInv, NEW t \in Transactions, UpdateRound(t)
    PROVE  CatalogInv'
  <1> DEFINE x == tx[t].request
  <1>1. /\ LockInv' /\ x \in Requests /\ x.op = "updateRound" /\ RemainsAllowed(x)
        /\ (\A y \in Requests : RemainsAllowed(y) /\ Separate(x, y) => RemainsAllowed(y)') => StillAllowed'
    BY Committing DEF UpdateRound, Commits
  <1>2. /\ x.round \in Rounds /\ x.term \in Terms
        /\ round[x.round].term # x.term => \A k \in Classes : <<x.round, k>> \notin binding
    BY <1>1, RequestFields DEF LocksCourse, LocksRound, RemainsAllowed
  <1>3. UNCHANGED <<course, class, binding>>
    BY DEF UpdateRound
  <1>4. /\ round[x.round].state = "planned"
        /\ round'[x.round].state = "planned" /\ round'[x.round].term = x.term
        /\ \A r \in Rounds \ {x.round} : round'[r] = round[r]
    BY <1>2 DEF UpdateRound, CatalogInv, Tables
  <1>5. Tables'
    BY <1>2, <1>3 DEF UpdateRound, CatalogInv, Tables
  <1> HIDE DEF x
  <1>6. \A k \in Classes : ClassExists(k)' => class'[k].course \in Courses /\ CourseExists(class[k].course)'
    BY <1>2, <1>3, <1>4, RowByRow DEF ClassExists, CourseExists
  <1>7. \A a \in Courses : course'[a].video = TRUE => CourseExists(a)'
    BY <1>2, <1>3, <1>4, RowByRow DEF CourseExists
  <1>8. \A r \in Rounds, k \in Classes : <<r, k>> \in binding' =>
          RoundExists(r)' /\ ClassExists(k)' /\ round'[r].term = class'[k].term
    BY <1>2, <1>3, <1>4, RowByRow DEF ClassExists, RoundExists
  <1>9. \A r \in Rounds : round'[r].state = "open" =>
          /\ \E k \in Classes : <<r, k>> \in binding'
          /\ \A k \in Classes : <<r, k>> \in binding' => class'[k].state = "open"
    BY <1>2, <1>3, <1>4, RowByRow DEF ClassExists, RoundExists
  <1>10. HasCourse' /\ NoDangling' /\ TermsAgree' /\ OpenRoundIsOffered'
    BY <1>5, <1>6, <1>7, <1>8, <1>9, RowByRowNext
  <1>11. ASSUME NEW y \in Requests, RemainsAllowed(y), Separate(x, y)
         PROVE  RemainsAllowed(y)'
    BY <1>1, <1>2, <1>3, <1>4, <1>11, RequestFields
       DEF RemainsAllowed, Separate, LocksCourse, LocksClass, LocksRound, CourseExists, ClassExists
  <1> QED
    BY <1>1, <1>5, <1>10, <1>11 DEF CatalogInv

\* A round that goes has no bindings.
LEMMA DeleteRoundInv ==
    ASSUME CatalogInv, NEW t \in Transactions, DeleteRound(t)
    PROVE  CatalogInv'
  <1> DEFINE x == tx[t].request
  <1>1. /\ LockInv' /\ x \in Requests /\ x.op = "deleteRound" /\ RemainsAllowed(x)
        /\ (\A y \in Requests : RemainsAllowed(y) /\ Separate(x, y) => RemainsAllowed(y)') => StillAllowed'
    BY Committing DEF DeleteRound, Commits
  <1>2. x.round \in Rounds /\ \A k \in Classes : <<x.round, k>> \notin binding
    BY <1>1, RequestFields DEF LocksCourse, LocksRound, RemainsAllowed
  <1>3. UNCHANGED <<course, class, binding>>
    BY DEF DeleteRound
  <1>4. /\ round[x.round].state = "planned"
        /\ round'[x.round].state = "deleted" /\ round'[x.round].term = round[x.round].term
        /\ \A r \in Rounds \ {x.round} : round'[r] = round[r]
    BY <1>2 DEF DeleteRound, CatalogInv, Tables
  <1>5. Tables'
    BY <1>2, <1>3 DEF DeleteRound, CatalogInv, Tables
  <1> HIDE DEF x
  <1>6. \A k \in Classes : ClassExists(k)' => class'[k].course \in Courses /\ CourseExists(class[k].course)'
    BY <1>2, <1>3, <1>4, RowByRow DEF ClassExists, CourseExists
  <1>7. \A a \in Courses : course'[a].video = TRUE => CourseExists(a)'
    BY <1>2, <1>3, <1>4, RowByRow DEF CourseExists
  <1>8. \A r \in Rounds, k \in Classes : <<r, k>> \in binding' =>
          RoundExists(r)' /\ ClassExists(k)' /\ round'[r].term = class'[k].term
    BY <1>2, <1>3, <1>4, RowByRow DEF ClassExists, RoundExists
  <1>9. \A r \in Rounds : round'[r].state = "open" =>
          /\ \E k \in Classes : <<r, k>> \in binding'
          /\ \A k \in Classes : <<r, k>> \in binding' => class'[k].state = "open"
    BY <1>2, <1>3, <1>4, RowByRow DEF ClassExists, RoundExists
  <1>10. HasCourse' /\ NoDangling' /\ TermsAgree' /\ OpenRoundIsOffered'
    BY <1>5, <1>6, <1>7, <1>8, <1>9, RowByRowNext
  <1>11. ASSUME NEW y \in Requests, RemainsAllowed(y), Separate(x, y)
         PROVE  RemainsAllowed(y)'
    BY <1>1, <1>2, <1>3, <1>4, <1>11, RequestFields
       DEF RemainsAllowed, Separate, LocksCourse, LocksClass, LocksRound, CourseExists, ClassExists
  <1> QED
    BY <1>1, <1>5, <1>10, <1>11 DEF CatalogInv

\* Opening a round opens its classes, which nobody else has locked; nobody who
\* relies on a planned class has that class unlocked.
LEMMA OpenRoundInv ==
    ASSUME CatalogInv, NEW t \in Transactions, OpenRound(t)
    PROVE  CatalogInv'
  <1> DEFINE x == tx[t].request
             bound(k) == <<x.round, k>> \in binding
  <1>1. LockInv' /\ x \in Requests /\ x.op = "openRound" /\ RemainsAllowed(x)
    BY Committing DEF OpenRound, Commits
  <1>2. /\ x.round \in Rounds /\ round[x.round].state = "planned"
        /\ \E k \in Classes : bound(k)
    BY <1>1, RequestFields DEF LocksRound, RemainsAllowed
  <1>3. /\ UNCHANGED <<course, binding>>
        /\ \A k \in Classes : bound(k) => FreeFor(t, <<"class", k>>)
    BY DEF OpenRound, BoundTo
  <1>4. /\ \A k \in Classes : bound(k) => class'[k].state = "open"
        /\ \A k \in Classes : ~bound(k) => class'[k] = class[k]
        /\ \A k \in Classes : class'[k].course = class[k].course /\ class'[k].term = class[k].term
    <2>1. \A k \in Classes : bound(k) => class[k].state \in {"planned", "open"}
      BY <1>2, RowByRow DEF ClassExists
    <2>2. class' = [k \in Classes |-> IF bound(k) /\ class[k].state = "planned"
                                        THEN [class[k] EXCEPT !.state = "open"] ELSE class[k]]
      BY DEF OpenRound, BoundTo
    <2> HIDE DEF bound
    <2> QED
      BY <2>1, <2>2 DEF CatalogInv, Tables
  <1>5. /\ round'[x.round].state = "open" /\ round'[x.round].term = round[x.round].term
        /\ \A r \in Rounds \ {x.round} : round'[r] = round[r]
    BY <1>2 DEF OpenRound, CatalogInv, Tables
  <1>6. Tables'
    <2>1. ASSUME NEW k \in Classes
          PROVE  LET row == IF k \in BoundTo(x.round) /\ class[k].state = "planned"
                              THEN [class[k] EXCEPT !.state = "open"] ELSE class[k]
                 IN  row \in [state : {"absent", "planned", "open", "deleted"},
                              course : Courses \cup {NoRow}, term : Terms \cup {NoRow}]
      BY DEF CatalogInv, Tables
    <2>2. class' \in [Classes -> [state : {"absent", "planned", "open", "deleted"},
                                  course : Courses \cup {NoRow}, term : Terms \cup {NoRow}]]
      BY <2>1 DEF OpenRound
    <2>3. round' \in [Rounds -> [state : {"absent", "planned", "open", "deleted"},
                                 term : Terms \cup {NoRow}]]
      BY <1>2 DEF OpenRound, CatalogInv, Tables
    <2> QED
      BY <1>3, <2>2, <2>3 DEF CatalogInv, Tables
  <1>7. ASSUME NEW k \in Classes
        PROVE  /\ class[k].state = "open" => class'[k].state = "open"
               /\ ClassExists(k)' <=> ClassExists(k)
    BY <1>2, <1>4, RowByRow DEF ClassExists
  <1> HIDE DEF x
  <1>8. \A k \in Classes : ClassExists(k)' => class'[k].course \in Courses /\ CourseExists(class[k].course)'
    BY <1>3, <1>4, <1>7, RowByRow DEF CourseExists
  <1>9. \A a \in Courses : course'[a].video = TRUE => CourseExists(a)'
    BY <1>3, RowByRow DEF CourseExists
  <1>10. \A r \in Rounds, k \in Classes : <<r, k>> \in binding' =>
           RoundExists(r)' /\ ClassExists(k)' /\ round'[r].term = class'[k].term
    BY <1>2, <1>3, <1>4, <1>5, <1>7, RowByRow DEF RoundExists
  <1>11. \A r \in Rounds : round'[r].state = "open" =>
           /\ \E k \in Classes : <<r, k>> \in binding'
           /\ \A k \in Classes : <<r, k>> \in binding' => class'[k].state = "open"
    BY <1>2, <1>3, <1>4, <1>5, <1>7, RowByRow
  <1>12. HasCourse' /\ NoDangling' /\ TermsAgree' /\ OpenRoundIsOffered'
    BY <1>6, <1>8, <1>9, <1>10, <1>11, RowByRowNext
  <1>13. ASSUME NEW y \in Requests, RemainsAllowed(y), Separate(x, y),
                \A k \in Classes : bound(k) /\ LocksClass(y) => y.class # k
         PROVE  RemainsAllowed(y)'
    <2>1. LocksRound(y) => /\ y.round \in Rounds \ {x.round} /\ round'[y.round] = round[y.round]
                           /\ round[y.round].state = "planned"
      BY <1>1, <1>5, <1>13, RequestFields DEF RemainsAllowed, Separate, LocksRound
    <2>2. y.op = "bind" => y.class \in Classes /\ class'[y.class] = class[y.class]
      BY <1>4, <1>13, RequestFields DEF LocksClass
    <2>3. \A k \in Classes : (ClassExists(k)' <=> ClassExists(k)) /\ class'[k].course = class[k].course
      BY <1>4, <1>7
    <2>4. /\ LocksRound(y) => round'[y.round].state = "planned"
          /\ y.op = "bind" => class'[y.class].state = "planned" /\ class'[y.class].term = round'[y.round].term
      BY <1>13, <2>1, <2>2 DEF RemainsAllowed, LocksRound
    <2>5. y.op = "deleteCourse" => \A k \in Classes : ClassExists(k)' => class'[k].course # y.course
      BY <1>13, <2>3 DEF RemainsAllowed
    <2>6. y.op = "updateRound" => round'[y.round] = round[y.round]
      BY <2>1 DEF LocksRound
    <2> HIDE DEF ClassExists
    <2> QED
      BY <1>3, <1>13, <2>4, <2>5, <2>6 DEF RemainsAllowed, CourseExists
  <1>14. ASSUME NEW u \in Transactions, tx'[u].pc = "commit"
         PROVE  RemainsAllowed(tx[u].request)'
    <2>1. u # t /\ tx[u].pc = "commit" /\ tx'[u] = tx[u] /\ tx[u].request \in Requests
      BY <1>14 DEF OpenRound, Commits, CatalogInv, LockInv, NoTx, Ordered
    <2>2. tx[t].pc = "commit"
      BY DEF OpenRound, Commits
    <2>3. PICK y \in Requests : y = tx[u].request
      BY <2>1
    <2>4. RemainsAllowed(y) /\ Separate(x, y)
      BY <2>1, <2>2, <2>3, Apart DEF CatalogInv, StillAllowed, x
    <2>5. \A k \in Classes : bound(k) /\ LocksClass(y) => y.class # k
      BY <1>3, <2>1, <2>3, FreeClass DEF CatalogInv
    <2>6. RemainsAllowed(y)'
      BY <1>13, <2>4, <2>5
    <2>7. y = tx'[u].request
      BY <2>1, <2>3
    <2> QED
      BY <2>6, <2>7 DEF RemainsAllowed, LocksCourse, LocksRound, CourseExists, ClassExists
  <1> QED
    BY <1>1, <1>6, <1>12, <1>14 DEF CatalogInv, StillAllowed

-----------------------------------------------------------------------------
(***************************************************************************)
(* The other steps.                                                        *)
(***************************************************************************)

\* When the transactions stay as they are, the locks do, and what was decided
\* holds if it holds for every request.
LEMMA SameTransactions ==
    ASSUME CatalogInv, UNCHANGED tx, \A y \in Requests : RemainsAllowed(y) => RemainsAllowed(y)'
    PROVE  LockInv' /\ StillAllowed'
  <1>1. LockInv'
    BY DEF CatalogInv, LockInv, Ordered, Exclusive
  <1>2. ASSUME NEW t \in Transactions, tx[t].pc = "commit"
        PROVE  RemainsAllowed(tx[t].request)'
    <2>1. PICK y \in Requests : y = tx[t].request
      BY <1>2 DEF CatalogInv, LockInv, Ordered
    <2>2. RemainsAllowed(y)' /\ y = tx'[t].request
      BY <1>2, <2>1 DEF CatalogInv, StillAllowed
    <2> QED
      BY <2>2 DEF RemainsAllowed, LocksCourse, LocksRound, CourseExists, ClassExists
  <1> QED
    BY <1>1, <1>2 DEF StillAllowed

\* A new course is one that nobody refers to or has asked for.
LEMMA CreateCourseInv ==
    ASSUME CatalogInv, NEW c \in Courses, CreateCourse(c)
    PROVE  CatalogInv'
  <1>1. /\ course[c].state = "absent" /\ UNCHANGED <<class, round, binding, tx>>
        /\ course'[c].state = "present" /\ course'[c].video = course[c].video
        /\ \A a \in Courses \ {c} : course'[a] = course[a]
    BY DEF CreateCourse, CatalogInv, Tables
  <1>2. Tables'
    BY DEF CreateCourse, CatalogInv, Tables
  <1>3. \A k \in Classes : ClassExists(k)' => class'[k].course \in Courses /\ CourseExists(class[k].course)'
    BY <1>1, RowByRow DEF ClassExists, CourseExists
  <1>4. \A a \in Courses : course'[a].video = TRUE => CourseExists(a)'
    BY <1>1, RowByRow DEF CourseExists
  <1>5. \A r \in Rounds, k \in Classes : <<r, k>> \in binding' =>
          RoundExists(r)' /\ ClassExists(k)' /\ round'[r].term = class'[k].term
    BY <1>1, RowByRow DEF ClassExists, RoundExists
  <1>6. \A r \in Rounds : round'[r].state = "open" =>
          /\ \E k \in Classes : <<r, k>> \in binding'
          /\ \A k \in Classes : <<r, k>> \in binding' => class'[k].state = "open"
    BY <1>1, RowByRow
  <1>7. HasCourse' /\ NoDangling' /\ TermsAgree' /\ OpenRoundIsOffered'
    BY <1>2, <1>3, <1>4, <1>5, <1>6, RowByRowNext
  <1>8. ASSUME NEW y \in Requests, RemainsAllowed(y)
        PROVE  RemainsAllowed(y)'
    BY <1>1, <1>8, RequestFields DEF RemainsAllowed, LocksCourse, LocksRound, CourseExists, ClassExists
  <1>9. LockInv' /\ StillAllowed'
    BY <1>1, <1>8, SameTransactions
  <1> QED
    BY <1>2, <1>7, <1>9 DEF CatalogInv

\* A new round is one that nobody refers to or has asked for.
LEMMA CreateRoundInv ==
    ASSUME CatalogInv, NEW q \in Rounds, NEW term \in Terms, CreateRound(q, term)
    PROVE  CatalogInv'
  <1>1. /\ round[q].state = "absent" /\ UNCHANGED <<course, class, binding, tx>>
        /\ round'[q].state = "planned"
        /\ \A r \in Rounds \ {q} : round'[r] = round[r]
    BY DEF CreateRound, CatalogInv, Tables
  <1>2. Tables'
    BY DEF CreateRound, CatalogInv, Tables
  <1>3. \A k \in Classes : ClassExists(k)' => class'[k].course \in Courses /\ CourseExists(class[k].course)'
    BY <1>1, RowByRow DEF ClassExists, CourseExists
  <1>4. \A a \in Courses : course'[a].video = TRUE => CourseExists(a)'
    BY <1>1, RowByRow DEF CourseExists
  <1>5. \A r \in Rounds, k \in Classes : <<r, k>> \in binding' =>
          RoundExists(r)' /\ ClassExists(k)' /\ round'[r].term = class'[k].term
    BY <1>1, RowByRow DEF ClassExists, RoundExists
  <1>6. \A r \in Rounds : round'[r].state = "open" =>
          /\ \E k \in Classes : <<r, k>> \in binding'
          /\ \A k \in Classes : <<r, k>> \in binding' => class'[k].state = "open"
    BY <1>1, RowByRow
  <1>7. HasCourse' /\ NoDangling' /\ TermsAgree' /\ OpenRoundIsOffered'
    BY <1>2, <1>3, <1>4, <1>5, <1>6, RowByRowNext
  <1>8. ASSUME NEW y \in Requests, RemainsAllowed(y)
        PROVE  RemainsAllowed(y)'
    BY <1>1, <1>8, RequestFields DEF RemainsAllowed, LocksCourse, LocksRound, CourseExists, ClassExists
  <1>9. LockInv' /\ StillAllowed'
    BY <1>1, <1>8, SameTransactions
  <1> QED
    BY <1>2, <1>7, <1>9 DEF CatalogInv

\* Steps that change no row keep what the rows say, and what a request relies on.
LEMMA SameRows ==
    ASSUME CatalogInv, UNCHANGED <<course, class, round, binding>>
    PROVE  /\ Tables' /\ HasCourse' /\ NoDangling' /\ TermsAgree' /\ OpenRoundIsOffered'
           /\ \A y \in Requests : RemainsAllowed(y) => RemainsAllowed(y)'
  <1>1. Tables' /\ HasCourse' /\ TermsAgree'
    BY DEF CatalogInv, Tables, HasCourse, TermsAgree, ClassExists
  <1>2. NoDangling'
    BY DEF CatalogInv, NoDangling, ClassExists, CourseExists, RoundExists
  <1>3. OpenRoundIsOffered'
    BY DEF CatalogInv, OpenRoundIsOffered, BoundTo
  <1>4. \A y \in Requests : RemainsAllowed(y) => RemainsAllowed(y)'
    BY DEF RemainsAllowed, LocksCourse, LocksRound, CourseExists, ClassExists
  <1> QED
    BY <1>1, <1>2, <1>3, <1>4

\* What the domain objects check is what the transaction relies on.
LEMMA AllowedRemains ==
    ASSUME Tables, NEW x \in Requests, Allowed(x)
    PROVE  RemainsAllowed(x)
  <1> USE DEF Allowed
  <1>1. /\ LocksCourse(x) => x.course \in Courses /\ x.course # NoRow
        /\ LocksRound(x) => x.round \in Rounds /\ x.round # NoRow
    BY RequestFields, CatalogConstants
  <1>2. LocksCourse(x) => CourseExists(x.course)
    BY <1>1 DEF Present
  <1>3. x.op = "updateCourse" => course[x.course].core < MaxChanges
    BY DEF CourseChangeable
  <1>4. x.op = "deleteCourse" => /\ \A k \in Classes : ClassExists(k) => class[k].course # x.course
                                 /\ course[x.course].video = FALSE
    <2>1. x.op = "deleteCourse" => course[x.course].video \in BOOLEAN
      BY <1>1 DEF Tables, LocksCourse
    <2>2. x.op = "deleteCourse" => ~course[x.course].video
      BY DEF CourseDeletable
    <2>3. x.op = "deleteCourse" => \A k \in Classes : ClassExists(k) => class[k].course # x.course
      BY DEF CourseDeletable, ClassesOf
    <2> QED
      BY <2>1, <2>2, <2>3
  <1>5. x.op \in {"updateClass", "deleteClass"} => \A r \in Rounds : <<r, x.class>> \notin binding
    BY DEF PlanChangeable, ClassDeletable, BoundClass
  <1>6. x.op = "bind" => /\ class[x.class].state = "planned"
                         /\ class[x.class].term = round[x.round].term
    BY DEF CanBind
  <1>7. LocksRound(x) => round[x.round].state = "planned"
    BY DEF LocksRound, CanBind, BindingsMutable, RoundChangeable, RoundDeletable, RoundOpenable
  <1>8. /\ x.op = "updateRound" /\ round[x.round].term # x.term =>
             \A k \in Classes : <<x.round, k>> \notin binding
        /\ x.op = "deleteRound" => \A k \in Classes : <<x.round, k>> \notin binding
        /\ x.op = "openRound" => \E k \in Classes : <<x.round, k>> \in binding
    BY DEF RoundChangeable, RoundDeletable, RoundOpenable, BoundTo
  <1> QED
    BY <1>2, <1>3, <1>4, <1>5, <1>6, <1>7, <1>8 DEF RemainsAllowed

\* A step that changes no row keeps the invariant when those about to commit
\* rely on what holds.
LEMMA QuietInv ==
    ASSUME CatalogInv, LockInv', UNCHANGED <<course, class, round, binding>>,
           \A u \in Transactions : tx'[u].pc = "commit" => RemainsAllowed(tx'[u].request)
    PROVE  CatalogInv'
  <1>1. ASSUME NEW u \in Transactions, tx'[u].pc = "commit"
        PROVE  RemainsAllowed(tx[u].request)'
    <2>1. PICK y \in Requests : y = tx'[u].request
      BY <1>1 DEF LockInv, Ordered
    <2>2. RemainsAllowed(y)
      BY <1>1, <2>1
    <2>3. RemainsAllowed(y)'
      BY <2>2, SameRows
    <2> QED
      BY <2>1, <2>3 DEF RemainsAllowed, LocksCourse, LocksRound, CourseExists, ClassExists
  <1> QED
    BY <1>1, SameRows DEF CatalogInv, StillAllowed

\* A transaction begins, takes a lock, decides or ends.
LEMMA TransactionInv ==
    ASSUME CatalogInv, NEW t \in Transactions,
           (\E x \in Requests : Begin(t, x)) \/ Lock(t) \/ Decide(t) \/ Rollback(t)
    PROVE  CatalogInv'
  <1>1. CASE \E x \in Requests : Begin(t, x)
    <2>1. PICK x \in Requests : Begin(t, x)
      BY <1>1
    <2>2. \A u \in Transactions : tx'[u].pc = "commit" => tx'[u] = tx[u]
      BY <2>1 DEF Begin, CatalogInv, LockInv
    <2>3. UNCHANGED <<course, class, round, binding>> /\ LockInv'
      BY <2>1, BeginLocks DEF Begin, CatalogInv
    <2> QED
      BY <2>2, <2>3, QuietInv DEF CatalogInv, StillAllowed
  <1>2. CASE Lock(t)
    <2>1. \A u \in Transactions : tx'[u].pc = "commit" => tx'[u] = tx[u]
      <3>1. tx[t] \in TxType /\ tx[t].pc = "lock"
        BY <1>2 DEF Lock, CatalogInv, LockInv
      <3>2. tx'[t].pc \in {"lock", "decide"}
        BY <1>2, <3>1 DEF Lock, CatalogInv, LockInv, TxType
      <3>3. \A u \in Transactions \ {t} : tx'[u] = tx[u]
        BY <1>2 DEF Lock, CatalogInv, LockInv
      <3> QED
        BY <3>2, <3>3
    <2>2. UNCHANGED <<course, class, round, binding>> /\ LockInv'
      BY <1>2, LockLocks DEF Lock, CatalogInv
    <2> QED
      BY <2>1, <2>2, QuietInv DEF CatalogInv, StillAllowed
  <1>3. CASE Decide(t)
    <2>1. tx[t].request \in Requests /\ Allowed(tx[t].request)
      BY <1>3 DEF Decide, CatalogInv, LockInv, Ordered
    <2>2. RemainsAllowed(tx[t].request)
      BY <2>1, AllowedRemains DEF CatalogInv
    <2>3. tx'[t].request = tx[t].request /\ \A u \in Transactions \ {t} : tx'[u] = tx[u]
      BY <1>3 DEF Decide, CatalogInv, LockInv, TxType
    <2>4. UNCHANGED <<course, class, round, binding>> /\ LockInv'
      BY <1>3, DecideLocks DEF Decide, CatalogInv
    <2>5. \A u \in Transactions : tx'[u].pc = "commit" => RemainsAllowed(tx'[u].request)
      BY <2>2, <2>3 DEF CatalogInv, StillAllowed
    <2> QED
      BY <2>4, <2>5, QuietInv
  <1>4. CASE Rollback(t)
    <2>1. \A u \in Transactions : tx'[u].pc = "commit" => tx'[u] = tx[u]
      BY <1>4 DEF Rollback, CatalogInv, LockInv, NoTx
    <2>2. UNCHANGED <<course, class, round, binding>> /\ LockInv'
      BY <1>4, EndLocks DEF Rollback, CatalogInv
    <2> QED
      BY <2>1, <2>2, QuietInv DEF CatalogInv, StillAllowed
  <1> QED
    BY <1>1, <1>2, <1>3, <1>4

-----------------------------------------------------------------------------
\* There are no rows and no transactions at first.
LEMMA InitInv == Init => CatalogInv
  <1> SUFFICES ASSUME Init PROVE CatalogInv
    OBVIOUS
  <1> USE DEF Init
  <1>1. NoTx \in TxType /\ NoTx.pc = "idle" /\ NoTx.locks = << >>
    BY DEF NoTx, TxType
  <1>2. LockInv
    BY <1>1 DEF LockInv, Ordered, Exclusive
  <1>3. StillAllowed
    BY <1>1 DEF StillAllowed
  <1>4. Tables
    BY CatalogConstants DEF Tables
  <1>5. HasCourse /\ TermsAgree /\ OpenRoundIsOffered
    BY DEF HasCourse, ClassExists, TermsAgree, OpenRoundIsOffered
  <1>6. NoDangling
    <2>1. \A a \in Courses : course[a].video = FALSE
      OBVIOUS
    <2> QED
      BY <2>1 DEF NoDangling, ClassExists
  <1> QED
    BY <1>2, <1>3, <1>4, <1>5, <1>6 DEF CatalogInv

\* Every step keeps the invariant.
LEMMA NextInv == CatalogInv /\ [Next]_vars => CatalogInv'
  <1> SUFFICES ASSUME CatalogInv, [Next]_vars PROVE CatalogInv'
    OBVIOUS
  <1>1. CASE \E a \in Courses : CreateCourse(a)
    BY <1>1, CreateCourseInv
  <1>2. CASE \E r \in Rounds, term \in Terms : CreateRound(r, term)
    BY <1>2, CreateRoundInv
  <1>3. ASSUME NEW t \in Transactions,
               (\E x \in Requests : Begin(t, x)) \/ Lock(t) \/ Decide(t) \/ Rollback(t)
        PROVE  CatalogInv'
    BY <1>3, TransactionInv
  <1>4. ASSUME NEW t \in Transactions, Commit(t)
        PROVE  CatalogInv'
    BY <1>4, CreateTeachingClassInv, UpdateTeachingClassInv, DeleteTeachingClassInv, UpdateCourseInv,
       DeleteCourseInv, StartVideoInv, BindRoundClassInv, UnbindRoundClassInv, UpdateRoundInv, DeleteRoundInv,
       OpenRoundInv DEF Commit
  <1>5. CASE UNCHANGED vars
    <2>1. UNCHANGED <<course, class, round, binding>> /\ UNCHANGED tx
      BY <1>5 DEF vars
    <2> QED
      BY <2>1, SameRows, SameTransactions DEF CatalogInv
  <1> QED
    BY <1>1, <1>2, <1>3, <1>4, <1>5 DEF Next

\* The inductive invariant: locks are exclusive, what was decided under them
\* holds until the commit, and the tables are consistent.
THEOREM CatalogInvariant == Spec => []CatalogInv
  BY InitInv, NextInv, PTL DEF Spec

\* The tables have their types, and a transaction is at a step of its request.
THEOREM CatalogTypes == Spec => []TypeOK
  <1>1. CatalogInv => TypeOK
    <2> SUFFICES ASSUME CatalogInv PROVE TypeOK
      OBVIOUS
    <2>1. ASSUME NEW t \in Transactions
          PROVE  tx[t].pc \in {"idle", "lock", "decide", "commit"} /\ tx[t].request.op \in Ops \cup {"none"}
      <3>1. tx[t] \in TxType
        BY DEF CatalogInv, LockInv
      <3>2. NoRequest.op = "none"
        BY DEF NoRequest, Request
      <3> QED
        BY <3>1, <3>2, RequestFields DEF TxType
    <2> QED
      BY <2>1 DEF TypeOK, CatalogInv, Tables
  <1> QED
    BY <1>1, CatalogInvariant, PTL

\* No class, binding or video refers to a row that was deleted, whatever
\* deletions run beside the transactions that refer to it.
THEOREM NoneDangles == Spec => []NoDangling
  <1>1. CatalogInv => NoDangling
    BY DEF CatalogInv
  <1> QED
    BY <1>1, CatalogInvariant, PTL

\* A round and the classes bound to it have one term, though both are edited
\* at the same time.
THEOREM OneTerm == Spec => []TermsAgree
  <1>1. CatalogInv => TermsAgree
    BY DEF CatalogInv
  <1> QED
    BY <1>1, CatalogInvariant, PTL

\* An open round has classes and all of them are open: no binding is added,
\* removed or emptied behind the transaction that opens it.
THEOREM OpenIsOffered == Spec => []OpenRoundIsOffered
  <1>1. CatalogInv => OpenRoundIsOffered
    BY DEF CatalogInv
  <1> QED
    BY <1>1, CatalogInvariant, PTL

-----------------------------------------------------------------------------
(***************************************************************************)
(* Uploads of course videos.                                               *)
(***************************************************************************)

\* A completion that has seen the object finds it there as long as its
\* attempt is pending (StatObject to the transaction).
Verified ==
    \A c \in Completers : LET u == completer[c].upload IN
      /\ completer[c].pc # "idle" =>
           u \in Uploads /\ upload[u] \in {"pending", "promoted", "failed", "cleaned"}
      /\ completer[c].pc = "promote" /\ upload[u] = "pending" => u \in object

\* What a job is cleaning has lost the right to be completed, and what the job
\* has removed stays removed: a session that is gone cannot be merged.
GivenUp ==
    \A k \in Cleaners : LET u == cleaner[k].upload IN
      /\ cleaner[k].pc \notin {"idle", "pick"} => u \in Uploads
      /\ cleaner[k].pc \in {"abort", "delete", "finalize"} => upload[u] \in {"failed", "cleaned"}
      /\ cleaner[k].pc \in {"delete", "finalize"} => session[u] # "open"
      /\ cleaner[k].pc = "finalize" => u \notin object

UploadInv ==
    UploadTypeOK /\ ReadyHasObject /\ CleanedHasNothing /\ UploadingIsUnderWay /\ Verified /\ GivenUp

\* The attempts are numbered from one, so zero stands for none of them.
LEMMA NoUploadIsNone == NoUpload \notin Uploads
  BY DEF NoUpload, Uploads

-----------------------------------------------------------------------------
(***************************************************************************)
(* Type correctness.                                                       *)
(***************************************************************************)

CompleterType == [pc : {"idle", "list", "merge", "stat", "promote"}, upload : Uploads \cup {NoUpload}]
CleanerType == [pc : {"idle", "pick", "prepare", "abort", "delete", "finalize"},
                todo : SUBSET Uploads, upload : Uploads \cup {NoUpload}]

\* A further failure stays within the bound.
LEMMA FailureType == ASSUME failures \in 0 .. MaxFailures, Failure
                     PROVE  failures' \in 0 .. MaxFailures
  BY VideoConstants DEF Failure, VideoConstants

\* The rows of a start are statuses.
LEMMA StartedType == ASSUME UploadTypeOK, NEW u \in Uploads
                     PROVE  Started(u) \in [Uploads -> UploadStatuses]
  BY DEF Started, UploadTypeOK, UploadStatuses

\* A request that goes on changes its step and nothing else.
LEMMA StepCEffect ==
    ASSUME UploadTypeOK, NEW c \in Completers, NEW pc \in {"list", "merge", "stat", "promote"}, StepC(c, pc)
    PROVE  /\ completer' \in [Completers -> CompleterType]
           /\ completer'[c].pc = pc /\ completer'[c].upload = completer[c].upload
           /\ \A d \in Completers \ {c} : completer'[d] = completer[d]
  BY DEF UploadTypeOK, StepC, CompleterType

\* A request that ends is idle again.
LEMMA EndCEffect ==
    ASSUME UploadTypeOK, NEW c \in Completers, EndC(c)
    PROVE  /\ completer' \in [Completers -> CompleterType]
           /\ completer'[c].pc = "idle"
           /\ \A d \in Completers \ {c} : completer'[d] = completer[d]
  BY DEF UploadTypeOK, EndC, Idle, CompleterType

\* A job that goes on with its attempt changes its step and nothing else.
LEMMA StepKEffect ==
    ASSUME UploadTypeOK, NEW k \in Cleaners, NEW pc \in {"abort", "delete", "finalize"}, StepK(k, pc)
    PROVE  /\ cleaner' \in [Cleaners -> CleanerType]
           /\ cleaner'[k].pc = pc /\ cleaner'[k].upload = cleaner[k].upload
           /\ \A j \in Cleaners \ {k} : cleaner'[j] = cleaner[j]
  BY DEF UploadTypeOK, StepK, CleanerType

\* A job that leaves its attempt has none until it picks the next one.
LEMMA NextKEffect ==
    ASSUME UploadTypeOK, NEW k \in Cleaners, NextK(k)
    PROVE  /\ cleaner' \in [Cleaners -> CleanerType]
           /\ cleaner'[k].pc = "pick"
           /\ \A j \in Cleaners \ {k} : cleaner'[j] = cleaner[j]
  <1> DEFINE one == [cleaner EXCEPT ![k].pc = "pick"]
  <1>1. /\ one \in [Cleaners -> CleanerType] /\ one[k].pc = "pick"
        /\ \A j \in Cleaners \ {k} : one[j] = cleaner[j]
    BY DEF UploadTypeOK, CleanerType
  <1>2. cleaner' = [one EXCEPT ![k].upload = NoUpload]
    BY DEF NextK
  <1> HIDE DEF one
  <1> QED
    BY <1>1, <1>2 DEF CleanerType
\* The job picks an attempt that is eligible, or none.
LEMMA PickEffect ==
    ASSUME UploadTypeOK, NEW k \in Cleaners, PickExpired(k)
    PROVE  /\ UNCHANGED <<rows, store, expired, completer, failures>>
           /\ cleaner' \in [Cleaners -> CleanerType]
           /\ cleaner'[k].pc \in {"idle", "pick", "prepare"}
           /\ cleaner'[k].pc = "prepare" => cleaner'[k].upload \in Uploads
           /\ \A j \in Cleaners \ {k} : cleaner'[j] = cleaner[j]
  <1> DEFINE u == CHOOSE v \in cleaner[k].todo : \A w \in cleaner[k].todo : v <= w
             new == [pc |-> IF EligibleForCleanup(u) THEN "prepare" ELSE "pick",
                     todo |-> cleaner[k].todo \ {u},
                     upload |-> IF EligibleForCleanup(u) THEN u ELSE NoUpload]
  <1>1. EligibleForCleanup(u) => u \in Uploads
    BY DEF EligibleForCleanup, UploadTypeOK
  <1>2. cleaner[k].todo \in SUBSET Uploads
    BY DEF UploadTypeOK
  <1> HIDE DEF u
  <1>3. /\ new \in CleanerType
        /\ new.pc \in {"pick", "prepare"}
        /\ new.pc = "prepare" => new.upload \in Uploads
    BY <1>1, <1>2 DEF CleanerType
  <1>4. Resting \in CleanerType /\ Resting.pc = "idle"
    BY DEF Resting, CleanerType
  <1>5. \/ cleaner' = [cleaner EXCEPT ![k] = Resting]
        \/ cleaner' = [cleaner EXCEPT ![k] = new]
    BY DEF PickExpired, u
  <1>6. UNCHANGED <<rows, store, expired, completer, failures>>
    BY DEF PickExpired
  <1> HIDE DEF new
  <1> QED
    BY <1>3, <1>4, <1>5, <1>6 DEF UploadTypeOK, CleanerType

-----------------------------------------------------------------------------
(***************************************************************************)
(* The invariant.                                                          *)
(***************************************************************************)

\* Nothing was uploaded at the start.
LEMMA UploadInitInv == UploadInit => UploadInv
  BY VideoConstants, NoUploadIsNone
     DEF UploadInit, UploadInv, UploadTypeOK, ReadyHasObject, CleanedHasNothing, UploadingIsUnderWay, Verified,
         GivenUp, UploadStatuses, NoVideo, Idle, Resting, VideoConstants

\* A new session has no row yet.
LEMMA CreateInv ==
    ASSUME UploadInv, NEW u \in Uploads, CreateMultipartUpload(u)
    PROVE  UploadInv'
  <1> USE DEF CreateMultipartUpload
  <1>1. UploadTypeOK'
    BY DEF UploadInv, UploadTypeOK, UploadStatuses, CompleterType, CleanerType, Verified, GivenUp
  <1>2. ReadyHasObject'
    BY DEF UploadInv, ReadyHasObject, UploadTypeOK, Verified, GivenUp, UploadingIsUnderWay
  <1>3. CleanedHasNothing'
    BY DEF UploadInv, CleanedHasNothing, UploadTypeOK, Verified, GivenUp
  <1>4. UploadingIsUnderWay'
    BY DEF UploadInv, UploadingIsUnderWay, UploadTypeOK, Verified, GivenUp
  <1>5. Verified'
    BY DEF UploadInv, Verified, UploadTypeOK, CompleterType, GivenUp
  <1>6. GivenUp'
    BY DEF UploadInv, GivenUp, UploadTypeOK, CleanerType, Verified
  <1> QED
    BY <1>1, <1>2, <1>3, <1>4, <1>5, <1>6 DEF UploadInv

\* The transaction that starts an attempt supersedes the pending one.
LEMMA StartInv ==
    ASSUME UploadInv, NEW u \in Uploads, StartCourseVideoUpload(u)
    PROVE  UploadInv'
  <1> USE StartedType DEF StartCourseVideoUpload, store, RestartUpload, Started
  <1>1. UploadTypeOK'
    BY DEF UploadInv, UploadTypeOK, UploadStatuses, CompleterType, CleanerType, Verified, GivenUp
  <1>2. ReadyHasObject'
    BY DEF UploadInv, ReadyHasObject, UploadTypeOK, Verified, GivenUp, UploadingIsUnderWay
  <1>3. CleanedHasNothing'
    BY DEF UploadInv, CleanedHasNothing, UploadTypeOK, Verified, GivenUp
  <1>4. UploadingIsUnderWay'
    BY DEF UploadInv, UploadingIsUnderWay, UploadTypeOK, Verified, GivenUp
  <1>5. Verified'
    BY DEF UploadInv, Verified, UploadTypeOK, CompleterType, GivenUp
  <1>6. GivenUp'
    BY DEF UploadInv, GivenUp, UploadTypeOK, CleanerType, Verified
  <1> QED
    BY <1>1, <1>2, <1>3, <1>4, <1>5, <1>6 DEF UploadInv

\* A refused attempt leaves no row.
LEMMA RejectInv ==
    ASSUME UploadInv, NEW u \in Uploads, StartRejected(u)
    PROVE  UploadInv'
  <1> USE FailureType DEF StartRejected, Aborted
  <1>1. UploadTypeOK'
    BY DEF UploadInv, UploadTypeOK, UploadStatuses, CompleterType, CleanerType, Verified, GivenUp
  <1>2. ReadyHasObject'
    BY DEF UploadInv, ReadyHasObject, UploadTypeOK, Verified, GivenUp, UploadingIsUnderWay
  <1>3. CleanedHasNothing'
    BY DEF UploadInv, CleanedHasNothing, UploadTypeOK, Verified, GivenUp
  <1>4. UploadingIsUnderWay'
    BY DEF UploadInv, UploadingIsUnderWay, UploadTypeOK, Verified, GivenUp
  <1>5. Verified'
    BY DEF UploadInv, Verified, UploadTypeOK, CompleterType, GivenUp
  <1>6. GivenUp'
    BY DEF UploadInv, GivenUp, UploadTypeOK, CleanerType, Verified
  <1> QED
    BY <1>1, <1>2, <1>3, <1>4, <1>5, <1>6 DEF UploadInv

\* An attempt whose session is aborted may be pending; it cannot be merged.
LEMMA ReplyLostInv ==
    ASSUME UploadInv, NEW u \in Uploads, StartReplyLost(u)
    PROVE  UploadInv'
  <1> USE StartedType, FailureType DEF StartReplyLost, RestartUpload, Started, Aborted
  <1>1. UploadTypeOK'
    BY DEF UploadInv, UploadTypeOK, UploadStatuses, CompleterType, CleanerType, Verified, GivenUp
  <1>2. ReadyHasObject'
    BY DEF UploadInv, ReadyHasObject, UploadTypeOK, Verified, GivenUp, UploadingIsUnderWay
  <1>3. CleanedHasNothing'
    BY DEF UploadInv, CleanedHasNothing, UploadTypeOK, Verified, GivenUp
  <1>4. UploadingIsUnderWay'
    BY DEF UploadInv, UploadingIsUnderWay, UploadTypeOK, Verified, GivenUp
  <1>5. Verified'
    BY DEF UploadInv, Verified, UploadTypeOK, CompleterType, GivenUp
  <1>6. GivenUp'
    BY DEF UploadInv, GivenUp, UploadTypeOK, CleanerType, Verified
  <1> QED
    BY <1>1, <1>2, <1>3, <1>4, <1>5, <1>6 DEF UploadInv

\* A session without a row is in nobody's way.
LEMMA AbandonInv ==
    ASSUME UploadInv, NEW u \in Uploads, StartAbandoned(u)
    PROVE  UploadInv'
  <1> USE FailureType DEF StartAbandoned, store
  <1>1. UploadTypeOK'
    BY DEF UploadInv, UploadTypeOK, UploadStatuses, CompleterType, CleanerType, Verified, GivenUp
  <1>2. ReadyHasObject'
    BY DEF UploadInv, ReadyHasObject, UploadTypeOK, Verified, GivenUp, UploadingIsUnderWay
  <1>3. CleanedHasNothing'
    BY DEF UploadInv, CleanedHasNothing, UploadTypeOK, Verified, GivenUp
  <1>4. UploadingIsUnderWay'
    BY DEF UploadInv, UploadingIsUnderWay, UploadTypeOK, Verified, GivenUp
  <1>5. Verified'
    BY DEF UploadInv, Verified, UploadTypeOK, CompleterType, GivenUp
  <1>6. GivenUp'
    BY DEF UploadInv, GivenUp, UploadTypeOK, CleanerType, Verified
  <1> QED
    BY <1>1, <1>2, <1>3, <1>4, <1>5, <1>6 DEF UploadInv

\* The clock changes nothing but what is eligible.
LEMMA ExpireInv ==
    ASSUME UploadInv, NEW u \in Uploads, Expire(u)
    PROVE  UploadInv'
  <1> USE DEF Expire, rows, store
  <1>1. UploadTypeOK'
    BY DEF UploadInv, UploadTypeOK, UploadStatuses, CompleterType, CleanerType, Verified, GivenUp
  <1>2. ReadyHasObject'
    BY DEF UploadInv, ReadyHasObject, UploadTypeOK, Verified, GivenUp, UploadingIsUnderWay
  <1>3. CleanedHasNothing'
    BY DEF UploadInv, CleanedHasNothing, UploadTypeOK, Verified, GivenUp
  <1>4. UploadingIsUnderWay'
    BY DEF UploadInv, UploadingIsUnderWay, UploadTypeOK, Verified, GivenUp
  <1>5. Verified'
    BY DEF UploadInv, Verified, UploadTypeOK, CompleterType, GivenUp
  <1>6. GivenUp'
    BY DEF UploadInv, GivenUp, UploadTypeOK, CleanerType, Verified
  <1> QED
    BY <1>1, <1>2, <1>3, <1>4, <1>5, <1>6 DEF UploadInv

\* Parts matter to the merge only.
LEMMA PartInv ==
    ASSUME UploadInv, NEW u \in Uploads, NEW p \in Parts, UploadPart(u, p)
    PROVE  UploadInv'
  <1> USE DEF UploadPart, rows
  <1>1. UploadTypeOK'
    BY DEF UploadInv, UploadTypeOK, UploadStatuses, CompleterType, CleanerType, Verified, GivenUp
  <1>2. ReadyHasObject'
    BY DEF UploadInv, ReadyHasObject, UploadTypeOK, Verified, GivenUp, UploadingIsUnderWay
  <1>3. CleanedHasNothing'
    BY DEF UploadInv, CleanedHasNothing, UploadTypeOK, Verified, GivenUp
  <1>4. UploadingIsUnderWay'
    BY DEF UploadInv, UploadingIsUnderWay, UploadTypeOK, Verified, GivenUp
  <1>5. Verified'
    BY DEF UploadInv, Verified, UploadTypeOK, CompleterType, GivenUp
  <1>6. GivenUp'
    BY DEF UploadInv, GivenUp, UploadTypeOK, CleanerType, Verified
  <1> QED
    BY <1>1, <1>2, <1>3, <1>4, <1>5, <1>6 DEF UploadInv

\* A completion begins with a pending attempt.
LEMMA BeginInv ==
    ASSUME UploadInv, NEW c \in Completers, NEW u \in Uploads, BeginComplete(c, u)
    PROVE  UploadInv'
  <1> USE DEF BeginComplete, AtC, rows, store
  <1>1. UploadTypeOK'
    BY DEF UploadInv, UploadTypeOK, UploadStatuses, CompleterType, CleanerType, Verified, GivenUp
  <1>2. ReadyHasObject'
    BY DEF UploadInv, ReadyHasObject, UploadTypeOK, Verified, GivenUp, UploadingIsUnderWay
  <1>3. CleanedHasNothing'
    BY DEF UploadInv, CleanedHasNothing, UploadTypeOK, Verified, GivenUp
  <1>4. UploadingIsUnderWay'
    BY DEF UploadInv, UploadingIsUnderWay, UploadTypeOK, Verified, GivenUp
  <1>5. Verified'
    BY DEF UploadInv, Verified, UploadTypeOK, CompleterType, GivenUp
  <1>6. GivenUp'
    BY DEF UploadInv, GivenUp, UploadTypeOK, CleanerType, Verified
  <1> QED
    BY <1>1, <1>2, <1>3, <1>4, <1>5, <1>6 DEF UploadInv

\* The parts decide whether the request merges, looks at the object or ends.
LEMMA ListInv ==
    ASSUME UploadInv, NEW c \in Completers, ListUploadedParts(c)
    PROVE  UploadInv'
  <1> USE StepCEffect, EndCEffect DEF ListUploadedParts, AtC, rows, store
  <1>1. UploadTypeOK'
    BY DEF UploadInv, UploadTypeOK, UploadStatuses, CompleterType, CleanerType, Verified, GivenUp
  <1>2. ReadyHasObject'
    BY DEF UploadInv, ReadyHasObject, UploadTypeOK, Verified, GivenUp, UploadingIsUnderWay
  <1>3. CleanedHasNothing'
    BY DEF UploadInv, CleanedHasNothing, UploadTypeOK, Verified, GivenUp
  <1>4. UploadingIsUnderWay'
    BY DEF UploadInv, UploadingIsUnderWay, UploadTypeOK, Verified, GivenUp
  <1>5. Verified'
    BY DEF UploadInv, Verified, UploadTypeOK, CompleterType, GivenUp
  <1>6. GivenUp'
    BY DEF UploadInv, GivenUp, UploadTypeOK, CleanerType, Verified
  <1> QED
    BY <1>1, <1>2, <1>3, <1>4, <1>5, <1>6 DEF UploadInv

\* A merge needs the session, so it brings back no object that was removed.
LEMMA MergeInv ==
    ASSUME UploadInv, NEW c \in Completers, CompleteMultipartUpload(c)
    PROVE  UploadInv'
  <1> USE StepCEffect DEF CompleteMultipartUpload, AtC, rows
  <1>a. completer[c].upload \in Uploads
    BY DEF UploadInv, Verified
  <1>b. session' \in [Uploads -> {"none", "open", "merged", "aborted"}] /\ object' \subseteq Uploads
    BY <1>a DEF UploadInv, UploadTypeOK
  <1>c. completer' \in [Completers -> CompleterType]
    BY DEF UploadInv
  <1>1. UploadTypeOK'
    BY <1>b, <1>c DEF UploadInv, UploadTypeOK, CompleterType
  <1>2. ReadyHasObject'
    BY DEF UploadInv, ReadyHasObject, UploadTypeOK, Verified, GivenUp, UploadingIsUnderWay
  <1>3. CleanedHasNothing'
    BY DEF UploadInv, CleanedHasNothing, UploadTypeOK, Verified, GivenUp
  <1>4. UploadingIsUnderWay'
    BY DEF UploadInv, UploadingIsUnderWay, UploadTypeOK, Verified, GivenUp
  <1>5. Verified'
    BY DEF UploadInv, Verified, UploadTypeOK, CompleterType, GivenUp
  <1>6. GivenUp'
    BY DEF UploadInv, GivenUp, UploadTypeOK, CleanerType, Verified
  <1> QED
    BY <1>1, <1>2, <1>3, <1>4, <1>5, <1>6 DEF UploadInv

\* Only a request that found the object goes on.
LEMMA StatInv ==
    ASSUME UploadInv, NEW c \in Completers, StatObject(c)
    PROVE  UploadInv'
  <1> USE StepCEffect, EndCEffect DEF StatObject, AtC, rows, store
  <1>1. UploadTypeOK'
    BY DEF UploadInv, UploadTypeOK, UploadStatuses, CompleterType, CleanerType, Verified, GivenUp
  <1>2. ReadyHasObject'
    BY DEF UploadInv, ReadyHasObject, UploadTypeOK, Verified, GivenUp, UploadingIsUnderWay
  <1>3. CleanedHasNothing'
    BY DEF UploadInv, CleanedHasNothing, UploadTypeOK, Verified, GivenUp
  <1>4. UploadingIsUnderWay'
    BY DEF UploadInv, UploadingIsUnderWay, UploadTypeOK, Verified, GivenUp
  <1>5. Verified'
    <2>1. UNCHANGED <<upload, object>> /\ \A d \in Completers \ {c} : completer'[d] = completer[d]
      BY DEF UploadInv
    <2>2. \/ completer'[c].pc = "idle"
          \/ /\ completer'[c].pc = "promote" /\ completer'[c].upload = completer[c].upload
             /\ completer[c].pc = "stat" /\ completer[c].upload \in object
      BY DEF UploadInv
    <2> QED
      BY <2>1, <2>2 DEF UploadInv, Verified
  <1>6. GivenUp'
    BY DEF UploadInv, GivenUp, UploadTypeOK, CleanerType, Verified
  <1> QED
    BY <1>1, <1>2, <1>3, <1>4, <1>5, <1>6 DEF UploadInv

\* The transaction looks at the rows again.
LEMMA PromoteInv ==
    ASSUME UploadInv, NEW c \in Completers, Promote(c)
    PROVE  UploadInv'
  <1> USE EndCEffect DEF Promote, AtC, EnsureCompletes, rows, store
  <1>a. /\ video' \in [status : {"none", "uploading", "ready", "failed"}, key : Uploads \cup {NoUpload}]
        /\ upload' \in [Uploads -> UploadStatuses]
    BY DEF UploadInv, UploadTypeOK, UploadStatuses
  <1>b. completer' \in [Completers -> CompleterType]
    BY DEF UploadInv
  <1>1. UploadTypeOK'
    BY <1>a, <1>b DEF UploadInv, UploadTypeOK, CompleterType
  <1>2. ReadyHasObject'
    BY DEF UploadInv, ReadyHasObject, UploadTypeOK, Verified, GivenUp, UploadingIsUnderWay
  <1>3. CleanedHasNothing'
    BY DEF UploadInv, CleanedHasNothing, UploadTypeOK, Verified, GivenUp
  <1>4. UploadingIsUnderWay'
    BY DEF UploadInv, UploadingIsUnderWay, UploadTypeOK, Verified, GivenUp
  <1>5. Verified'
    BY DEF UploadInv, Verified, UploadTypeOK, CompleterType, GivenUp
  <1>6. GivenUp'
    BY DEF UploadInv, GivenUp, UploadTypeOK, CleanerType, Verified
  <1> QED
    BY <1>1, <1>2, <1>3, <1>4, <1>5, <1>6 DEF UploadInv

\* A request that fails leaves everything as it is.
LEMMA CompleteFailsInv ==
    ASSUME UploadInv, NEW c \in Completers, CompleteFails(c)
    PROVE  UploadInv'
  <1> USE EndCEffect, FailureType DEF CompleteFails, AtC, rows, store
  <1>1. UploadTypeOK'
    BY DEF UploadInv, UploadTypeOK, UploadStatuses, CompleterType, CleanerType, Verified, GivenUp
  <1>2. ReadyHasObject'
    BY DEF UploadInv, ReadyHasObject, UploadTypeOK, Verified, GivenUp, UploadingIsUnderWay
  <1>3. CleanedHasNothing'
    BY DEF UploadInv, CleanedHasNothing, UploadTypeOK, Verified, GivenUp
  <1>4. UploadingIsUnderWay'
    BY DEF UploadInv, UploadingIsUnderWay, UploadTypeOK, Verified, GivenUp
  <1>5. Verified'
    BY DEF UploadInv, Verified, UploadTypeOK, CompleterType, GivenUp
  <1>6. GivenUp'
    BY DEF UploadInv, GivenUp, UploadTypeOK, CleanerType, Verified
  <1> QED
    BY <1>1, <1>2, <1>3, <1>4, <1>5, <1>6 DEF UploadInv

\* A job takes a batch.
LEMMA ListExpiredInv ==
    ASSUME UploadInv, NEW k \in Cleaners, ListExpired(k)
    PROVE  UploadInv'
  <1> USE DEF ListExpired, AtK, rows, store
  <1>1. UploadTypeOK'
    BY DEF UploadInv, UploadTypeOK, UploadStatuses, CompleterType, CleanerType, Verified, GivenUp
  <1>2. ReadyHasObject'
    BY DEF UploadInv, ReadyHasObject, UploadTypeOK, Verified, GivenUp, UploadingIsUnderWay
  <1>3. CleanedHasNothing'
    BY DEF UploadInv, CleanedHasNothing, UploadTypeOK, Verified, GivenUp
  <1>4. UploadingIsUnderWay'
    BY DEF UploadInv, UploadingIsUnderWay, UploadTypeOK, Verified, GivenUp
  <1>5. Verified'
    BY DEF UploadInv, Verified, UploadTypeOK, CompleterType, GivenUp
  <1>6. GivenUp'
    BY DEF UploadInv, GivenUp, UploadTypeOK, CleanerType, Verified
  <1> QED
    BY <1>1, <1>2, <1>3, <1>4, <1>5, <1>6 DEF UploadInv

\* A job picks an attempt.
LEMMA PickInv ==
    ASSUME UploadInv, NEW k \in Cleaners, PickExpired(k)
    PROVE  UploadInv'
  <1> USE PickEffect DEF rows, store
  <1>1. UploadTypeOK'
    BY DEF UploadInv, UploadTypeOK, UploadStatuses, CompleterType, CleanerType, Verified, GivenUp
  <1>2. ReadyHasObject'
    BY DEF UploadInv, ReadyHasObject, UploadTypeOK, Verified, GivenUp, UploadingIsUnderWay
  <1>3. CleanedHasNothing'
    BY DEF UploadInv, CleanedHasNothing, UploadTypeOK, Verified, GivenUp
  <1>4. UploadingIsUnderWay'
    BY DEF UploadInv, UploadingIsUnderWay, UploadTypeOK, Verified, GivenUp
  <1>5. Verified'
    BY DEF UploadInv, Verified, UploadTypeOK, CompleterType, GivenUp
  <1>6. GivenUp'
    BY DEF UploadInv, GivenUp, UploadTypeOK, CleanerType, Verified
  <1> QED
    BY <1>1, <1>2, <1>3, <1>4, <1>5, <1>6 DEF UploadInv

\* The right to complete is taken away before anything is removed.
LEMMA PrepareInv ==
    ASSUME UploadInv, NEW k \in Cleaners, PrepareCleanup(k)
    PROVE  UploadInv'
  <1> USE StepKEffect, NextKEffect DEF PrepareCleanup, AtK, EligibleForCleanup, FailedVideo, rows, store
  <1>a. /\ video' \in [status : {"none", "uploading", "ready", "failed"}, key : Uploads \cup {NoUpload}]
        /\ upload' \in [Uploads -> UploadStatuses]
    <2>1. cleaner[k].upload \in Uploads
      BY DEF UploadInv, GivenUp
    <2>2. FailedVideo(cleaner[k].upload) \in
            [status : {"none", "uploading", "ready", "failed"}, key : Uploads \cup {NoUpload}]
      BY DEF UploadInv, UploadTypeOK
    <2>3. [upload EXCEPT ![cleaner[k].upload] = "failed"] \in [Uploads -> UploadStatuses]
      BY <2>1 DEF UploadInv, UploadTypeOK, UploadStatuses
    <2> HIDE DEF FailedVideo
    <2> QED
      BY <2>2, <2>3 DEF UploadInv, UploadTypeOK
  <1>b. cleaner' \in [Cleaners -> CleanerType]
    BY DEF UploadInv
  <1>1. UploadTypeOK'
    BY <1>a, <1>b DEF UploadInv, UploadTypeOK, CleanerType
  <1>2. ReadyHasObject'
    BY DEF UploadInv, ReadyHasObject, UploadTypeOK, Verified, GivenUp, UploadingIsUnderWay
  <1>3. CleanedHasNothing'
    BY DEF UploadInv, CleanedHasNothing, UploadTypeOK, Verified, GivenUp
  <1>4. UploadingIsUnderWay'
    BY DEF UploadInv, UploadingIsUnderWay, UploadTypeOK, Verified, GivenUp
  <1>5. Verified'
    BY DEF UploadInv, Verified, UploadTypeOK, CompleterType, GivenUp
  <1>6. GivenUp'
    BY DEF UploadInv, GivenUp, UploadTypeOK, CleanerType, Verified
  <1> QED
    BY <1>1, <1>2, <1>3, <1>4, <1>5, <1>6 DEF UploadInv

\* First the session goes, then the object.
LEMMA RemoveInv ==
    ASSUME UploadInv, NEW k \in Cleaners, RemoveFromStore(k)
    PROVE  UploadInv'
  <1> USE StepKEffect DEF RemoveFromStore, AbortFirst, AtK, Aborted, rows
  <1>1. UploadTypeOK'
    BY DEF UploadInv, UploadTypeOK, UploadStatuses, CompleterType, CleanerType, Verified, GivenUp
  <1>2. ReadyHasObject'
    BY DEF UploadInv, ReadyHasObject, UploadTypeOK, Verified, GivenUp, UploadingIsUnderWay
  <1>3. CleanedHasNothing'
    BY DEF UploadInv, CleanedHasNothing, UploadTypeOK, Verified, GivenUp
  <1>4. UploadingIsUnderWay'
    BY DEF UploadInv, UploadingIsUnderWay, UploadTypeOK, Verified, GivenUp
  <1>5. Verified'
    BY DEF UploadInv, Verified, UploadTypeOK, CompleterType, GivenUp
  <1>6. GivenUp'
    BY DEF UploadInv, GivenUp, UploadTypeOK, CleanerType, Verified
  <1> QED
    BY <1>1, <1>2, <1>3, <1>4, <1>5, <1>6 DEF UploadInv

\* What is marked as cleaned was removed.
LEMMA FinalizeInv ==
    ASSUME UploadInv, NEW k \in Cleaners, Finalize(k)
    PROVE  UploadInv'
  <1> USE NextKEffect DEF Finalize, AtK, store
  <1>1. UploadTypeOK'
    BY DEF UploadInv, UploadTypeOK, UploadStatuses, CompleterType, CleanerType, Verified, GivenUp
  <1>2. ReadyHasObject'
    BY DEF UploadInv, ReadyHasObject, UploadTypeOK, Verified, GivenUp, UploadingIsUnderWay
  <1>3. CleanedHasNothing'
    BY DEF UploadInv, CleanedHasNothing, UploadTypeOK, Verified, GivenUp
  <1>4. UploadingIsUnderWay'
    BY DEF UploadInv, UploadingIsUnderWay, UploadTypeOK, Verified, GivenUp
  <1>5. Verified'
    BY DEF UploadInv, Verified, UploadTypeOK, CompleterType, GivenUp
  <1>6. GivenUp'
    BY DEF UploadInv, GivenUp, UploadTypeOK, CleanerType, Verified
  <1> QED
    BY <1>1, <1>2, <1>3, <1>4, <1>5, <1>6 DEF UploadInv

\* A job that fails leaves everything as it is.
LEMMA CleanupFailsInv ==
    ASSUME UploadInv, NEW k \in Cleaners, CleanupFails(k)
    PROVE  UploadInv'
  <1> USE NextKEffect, FailureType DEF CleanupFails, AtK, Resting, rows, store
  <1>1. UploadTypeOK'
    BY DEF UploadInv, UploadTypeOK, UploadStatuses, CompleterType, CleanerType, Verified, GivenUp
  <1>2. ReadyHasObject'
    BY DEF UploadInv, ReadyHasObject, UploadTypeOK, Verified, GivenUp, UploadingIsUnderWay
  <1>3. CleanedHasNothing'
    BY DEF UploadInv, CleanedHasNothing, UploadTypeOK, Verified, GivenUp
  <1>4. UploadingIsUnderWay'
    BY DEF UploadInv, UploadingIsUnderWay, UploadTypeOK, Verified, GivenUp
  <1>5. Verified'
    BY DEF UploadInv, Verified, UploadTypeOK, CompleterType, GivenUp
  <1>6. GivenUp'
    BY DEF UploadInv, GivenUp, UploadTypeOK, CleanerType, Verified
  <1> QED
    BY <1>1, <1>2, <1>3, <1>4, <1>5, <1>6 DEF UploadInv

-----------------------------------------------------------------------------
\* Every step keeps the invariant.
LEMMA UploadNextInv == UploadInv /\ [UploadNext]_uploadVars => UploadInv'
  <1> SUFFICES ASSUME UploadInv, [UploadNext]_uploadVars
               PROVE  UploadInv'
    OBVIOUS
  <1>1. CASE UNCHANGED uploadVars
    BY <1>1 DEF uploadVars, UploadInv, UploadTypeOK, ReadyHasObject, CleanedHasNothing, UploadingIsUnderWay,
                Verified, GivenUp, EligibleForCleanup
  <1>2. ASSUME NEW c \in Completers, CompleteStep(c)
        PROVE  UploadInv'
    BY <1>2, ListInv, MergeInv, StatInv, PromoteInv, CompleteFailsInv DEF CompleteStep
  <1>3. ASSUME NEW k \in Cleaners, CleanerStep(k) \/ CleanupFails(k)
        PROVE  UploadInv'
    BY <1>3, ListExpiredInv, PickInv, PrepareInv, RemoveInv, FinalizeInv, CleanupFailsInv
       DEF CleanerStep
  <1> QED
    BY <1>1, <1>2, <1>3, CreateInv, StartInv, RejectInv, ReplyLostInv, AbandonInv, ExpireInv, PartInv,
       BeginInv DEF UploadNext

\* The invariant holds in every reachable state.
THEOREM UploadInvariant == UploadSpec => []UploadInv
  BY UploadInitInv, UploadNextInv, PTL DEF UploadSpec

\* A video that students can play has its object, for every number of attempts,
\* completions and cleanup jobs that overlap (Promote, PrepareCleanup).
THEOREM ReadyIsPlayable == UploadSpec => []ReadyHasObject
  BY UploadInvariant, PTL DEF UploadInv

\* What is marked as cleaned has left neither session nor object, although
\* completions may be under way when the job removes them.
THEOREM CleanedIsEmpty == UploadSpec => []CleanedHasNothing
  BY UploadInvariant, PTL DEF UploadInv

\* A video that is being uploaded points at the one pending attempt.
THEOREM UploadingIsPending == UploadSpec => []UploadingIsUnderWay
  BY UploadInvariant, PTL DEF UploadInv

\* A video that is ready stays ready with the same object key: no start, no
\* completion of another attempt and no cleanup changes its row.
THEOREM ReadyForGood == UploadSpec => [][video.status = "ready" => video' = video]_uploadVars
  <1>1. UploadTypeOK /\ [UploadNext]_uploadVars => [video.status = "ready" => video' = video]_uploadVars
    BY DEF UploadTypeOK, UploadNext, uploadVars, rows, store, CompleteStep, CleanerStep, CreateMultipartUpload,
           StartCourseVideoUpload, StartRejected, StartReplyLost, StartAbandoned, RestartUpload, Expire,
           UploadPart, BeginComplete, ListUploadedParts, CompleteMultipartUpload, StatObject, Promote,
           CompleteFails, ListExpired, PickExpired, PrepareCleanup, FailedVideo, RemoveFromStore,
           Finalize, CleanupFails
  <1> QED
    BY UploadInvariant, <1>1, PTL DEF UploadSpec, UploadInv
=============================================================================
