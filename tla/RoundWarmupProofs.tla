-------------------------- MODULE RoundWarmupProofs --------------------------
(***************************************************************************)
(* Proofs about the warm-up of a round, for every number of classes,       *)
(* students, workers, versions, pages and failures.                        *)
(*                                                                         *)
(* WarmupInv shows that what is activated is whole.  Two workers may build *)
(* at once, but never the same version, and a version that is being built  *)
(* is not the active one; the index of a version holds the students up to  *)
(* the worker's cursor, and the page that ends the loop is the last one.   *)
(*                                                                         *)
(* GateInv shows that the gate follows the round: whoever opens it has     *)
(* seen, or made, the round open.                                          *)
(*                                                                         *)
(* CalmInv is about behaviours without a failure: there the lock, the task *)
(* and the status follow each other, and only one warm-up ever runs.       *)
(*                                                                         *)
(* The last part is about the eligibility rules the warm-up evaluates.     *)
(***************************************************************************)
EXTENDS RoundWarmup, TLAPS, FiniteSetTheorems, NaturalsInduction, WellFoundedInduction

WorkerSteps == {"idle", "locked", "load", "write", "page", "students", "renew", "activate",
                "reopen", "done"}

WorkerRecord == [pc : WorkerSteps, leased : BOOLEAN, version : Versions \cup {NoVersion},
                 classes : SUBSET Classes, counts : [Classes -> Nat], wasOpen : BOOLEAN,
                 after : Nat, rows : [Students -> SUBSET Classes]]

WorkerType == worker \in [Workers -> WorkerRecord]

AdminType ==
    /\ admin \in [pc : {"idle", "locked", "enqueue", "open", "gate"},
                  op : {"none", "bind", "unbind", "warmup"},
                  class : Classes \cup {AdminIdle.class}, version : Versions \cup {NoVersion}]
    /\ admin.op = "bind" => admin.class \in Classes

\* No count exceeds the capacity, so a snapshot never has fewer seats than none.
CountsFit ==
    /\ \A c \in Classes : counted[c] <= Capacity[c]
    /\ \A w \in Workers, c \in Classes : worker[w].counts[c] <= Capacity[c]

Types == TypeOK /\ WorkerType /\ AdminType /\ CountsFit

\* A version belongs to one worker, and is not active before it is activated.
Building == {"locked", "load", "write", "page", "students", "renew", "activate"}
VersionsApart ==
    /\ \A w \in Workers : worker[w].pc # "idle" => worker[w].version \in Versions
    /\ \A w, x \in Workers : w # x /\ worker[w].version = worker[x].version =>
                                 worker[w].version = NoVersion
    /\ \A w \in Workers : worker[w].pc \in Building => worker[w].version # active

\* The students after a cursor and the first page of them.
After(a) == {s \in Students : s > a}
PageAfter(a) == {s \in After(a) : Cardinality({t \in After(a) : t < s}) < PageSize}

\* What the index of a version must hold, given what its worker r has read and
\* how far it has come.
Indexed(r) ==
    CASE r.pc = "activate" -> Students
      [] r.pc = "renew"    -> {s \in Students : s <= r.after} \cup PageAfter(r.after)
      [] OTHER             -> {s \in Students : s <= r.after}
Filling == {"page", "students", "renew", "activate"}
Whole(r, classes, admitted) ==
    /\ r.pc \in {"locked", "load", "write"} => r.after = 0
    /\ r.pc \in Filling \cup {"write"} => r.classes # {}
    /\ r.pc \in {"students", "renew"} => PageAfter(r.after) # {}
    /\ r.pc \in Filling =>
         /\ classes = r.classes
         /\ \A s \in Indexed(r) : admitted[s] = {c \in r.classes : Evaluate(Profile[s], Rule[c])}
Filled ==
    \A w \in Workers : Whole(worker[w], snapshot[worker[w].version], eligible[worker[w].version])

WarmupInv == Types /\ VersionsApart /\ Filled /\ ActiveIsComplete

GateInv ==
    /\ open # NoVersion => round = "open"
    /\ admin.pc = "gate" => round = "open"
    /\ \A w \in Workers : /\ worker[w].wasOpen => round = "open"
                          /\ worker[w].pc = "reopen" => worker[w].wasOpen

\* Without a failure: who holds the lock, the task and the status.
CalmControl ==
    /\ \A w, x \in Workers : worker[w].pc # "idle" /\ worker[x].pc # "idle" => w = x
    /\ \A w \in Workers :
         /\ worker[w].pc # "idle" => task = "running" /\ worker[w].leased /\ lock = worker[w].version
         /\ worker[w].pc = "locked" => status.state = "queued"
         /\ worker[w].pc \in Building \ {"locked"} => status.state = "running"
         /\ worker[w].pc \in {"reopen", "done"} => status.state = "ready" /\ active = worker[w].version
    /\ task # "running" => task # "retry" /\ lock = NoVersion
    /\ task = "queued" => status.state = "queued"
    /\ status.state = "none" => task = "none"
    /\ status.state # "failed"
    /\ status.state = "ready" <=> active # NoVersion
    /\ status.state = "ready" => active = status.version
    /\ admin.pc = "locked" => status.state = "none"
    /\ admin.pc = "enqueue" => status.state = "queued" /\ task = "none"
    /\ admin.pc \in {"open", "gate"} => status.state = "ready"

\* Without a failure: nothing is decided before the first activation, and what
\* the worker has read and written stays true.
CalmData ==
    /\ held = chosen
    /\ open # NoVersion => active # NoVersion
    /\ active = NoVersion =>
         /\ \A s \in Students : chosen[s] = {} /\ saved[s] = {}
         /\ \A c \in Classes : counted[c] = 0
    /\ admin.pc = "locked" /\ admin.op = "warmup" => bound # {}
    /\ status.state \in {"queued", "running"} => bound # {}
    /\ \A w \in Workers :
         /\ worker[w].pc \in Filling \cup {"write"} => worker[w].classes = bound
         /\ worker[w].pc = "write" => \A c \in Classes : worker[w].counts[c] = 0
         /\ worker[w].pc \in Filling => \A c \in bound : seat[c] = Capacity[c]
         /\ worker[w].pc = "students" => \A s \in Students : worker[w].rows[s] = {}
    /\ active # NoVersion => /\ snapshot[active] = bound
                             /\ \A c \in bound : seat[c] = Capacity[c] - Taken(c)

CalmInv == failures = 0 => CalmControl /\ CalmData

-----------------------------------------------------------------------------
(***************************************************************************)
(* Pages.                                                                  *)
(***************************************************************************)

\* A set of ids that is not empty has a least one.
LEMMA LeastNatural ==
    ASSUME NEW T \in SUBSET Nat, T # {}
    PROVE  \E x \in T : \A y \in T : x <= y
  <1>1. \E x \in T : \A y \in T : ~ (<<y, x>> \in OpToRel(<, Nat))
    BY NatLessThanWellFounded, WFMin
  <1>2. \A x, y \in Nat : y < x => <<y, x>> \in OpToRel(<, Nat)
    BY DEF OpToRel
  <1>3. PICK x \in T : \A y \in T : ~ (<<y, x>> \in OpToRel(<, Nat))
    BY <1>1
  <1>4. \A y \in T : x \in Nat /\ y \in Nat /\ ~(y < x)
    BY <1>2, <1>3
  <1>5. \A y \in T : x <= y
    BY <1>4
  <1> QED
    BY <1>5

\* The students before another one, among those after a cursor, are finitely
\* many, and more of them come before a later student.
LEMMA Ranks ==
    ASSUME NEW a \in Nat, NEW s \in After(a), NEW t \in After(a), s < t
    PROVE  /\ Cardinality({u \in After(a) : u < s}) \in Nat
           /\ Cardinality({u \in After(a) : u < s}) < Cardinality({u \in After(a) : u < t})
  <1> DEFINE S == {u \in After(a) : u < s}
             T == {u \in After(a) : u < t}
  <1>1. After(a) \subseteq Nat
    BY WarmupConstants DEF WarmupConstants, After
  <1>2. IsFiniteSet(T) /\ IsFiniteSet(S) /\ IsFiniteSet(S \cup {s})
    BY WarmupConstants, FS_Subset, FS_AddElement DEF WarmupConstants, After
  <1>3. s \notin S /\ S \cup {s} \subseteq T
    BY <1>1
  <1>4. Cardinality(S \cup {s}) = Cardinality(S) + 1
    BY <1>2, <1>3, FS_AddElement
  <1>5. Cardinality(S \cup {s}) <= Cardinality(T)
    BY <1>2, <1>3, FS_Subset
  <1>6. Cardinality(S) \in Nat /\ Cardinality(T) \in Nat
    BY <1>2, FS_CardinalityType
  <1> HIDE DEF S, T
  <1> QED
    BY <1>4, <1>5, <1>6 DEF S, T

\* A page leaves no student out between the cursor and its last student.
LEMMA PageIsPrefix ==
    ASSUME NEW a \in Nat, NEW s \in After(a), NEW t \in PageAfter(a), s <= t
    PROVE  s \in PageAfter(a)
  <1>1. t \in After(a) /\ Cardinality({u \in After(a) : u < t}) < PageSize /\ PageSize \in Nat
    BY WarmupConstants DEF PageAfter, WarmupConstants
  <1>2. s \in Nat /\ t \in Nat
    BY <1>1, WarmupConstants DEF After, WarmupConstants
  <1>3. CASE s = t
    BY <1>3
  <1>4. CASE s < t
    <2>1. /\ Cardinality({u \in After(a) : u < s}) \in Nat
          /\ Cardinality({u \in After(a) : u < s}) < Cardinality({u \in After(a) : u < t})
      BY <1>1, <1>4, Ranks
    <2>2. IsFiniteSet({u \in After(a) : u < t})
      BY WarmupConstants, FS_Subset DEF WarmupConstants, After
    <2>3. Cardinality({u \in After(a) : u < t}) \in Nat
      BY <2>2, FS_CardinalityType
    <2>4. Cardinality({u \in After(a) : u < s}) < PageSize
      BY <1>1, <2>1, <2>3
    <2> QED
      BY <2>4 DEF PageAfter
  <1> QED
    BY <1>2, <1>3, <1>4

\* An empty page: no student is left.
LEMMA EmptyPage ==
    ASSUME NEW a \in Nat, PageAfter(a) = {}
    PROVE  After(a) = {}
  <1> SUFFICES ASSUME After(a) # {} PROVE FALSE
    OBVIOUS
  <1>1. After(a) \in SUBSET Nat
    BY WarmupConstants DEF WarmupConstants, After
  <1>2. PICK s \in After(a) : \A t \in After(a) : s <= t
    BY <1>1, LeastNatural
  <1>3. {t \in After(a) : t < s} = {}
    BY <1>1, <1>2
  <1>4. s \in PageAfter(a)
    BY <1>2, <1>3, FS_EmptySet, WarmupConstants DEF PageAfter, WarmupConstants
  <1> QED
    BY <1>4

\* A page has a last student, the one with the most students before it.
LEMMA LastOfPage ==
    ASSUME NEW a \in Nat, PageAfter(a) # {}
    PROVE  /\ Last(PageAfter(a)) \in PageAfter(a)
           /\ \A t \in PageAfter(a) : t <= Last(PageAfter(a))
  <1> DEFINE rank(s) == Cardinality({u \in After(a) : u < s})
             T == {PageSize - rank(s) : s \in PageAfter(a)}
  <1>1. \A s \in PageAfter(a) : s \in After(a) /\ s \in Nat
    BY WarmupConstants DEF WarmupConstants, After, PageAfter
  <1>2. \A s \in PageAfter(a) : rank(s) \in Nat /\ rank(s) < PageSize
    <2> TAKE s \in PageAfter(a)
    <2>1. IsFiniteSet({u \in After(a) : u < s})
      BY WarmupConstants, FS_Subset DEF WarmupConstants, After
    <2> QED
      BY <2>1, FS_CardinalityType DEF PageAfter
  <1>7. \A t, s \in PageAfter(a) : s < t => rank(s) < rank(t)
    BY <1>1, Ranks
  <1> HIDE DEF rank
  <1>3. T \in SUBSET Nat /\ T # {}
    BY <1>2, WarmupConstants DEF WarmupConstants
  <1>4. PICK n \in T : \A k \in T : n <= k
    BY <1>3, LeastNatural
  <1>5. PICK s \in PageAfter(a) : n = PageSize - rank(s)
    BY <1>4
  <1>6. \A t \in PageAfter(a) : rank(t) <= rank(s)
    BY <1>2, <1>4, <1>5, WarmupConstants DEF WarmupConstants
  <1>8. \A t \in PageAfter(a) : t <= s
    BY <1>1, <1>2, <1>6, <1>7
  <1> QED
    BY <1>5, <1>8 DEF Last

\* A page that is not full is the last one.
LEMMA ShortPageIsLast ==
    ASSUME NEW a \in Nat, PageAfter(a) # {}, Cardinality(PageAfter(a)) # PageSize
    PROVE  After(a) = PageAfter(a)
  <1> SUFFICES ASSUME After(a) \ PageAfter(a) # {} PROVE FALSE
    BY DEF PageAfter
  <1>1. After(a) \in SUBSET Nat /\ PageSize \in Nat
    BY WarmupConstants DEF WarmupConstants, After
  <1>2. PICK s \in After(a) \ PageAfter(a) : \A t \in After(a) \ PageAfter(a) : s <= t
    <2>1. After(a) \ PageAfter(a) \in SUBSET Nat
      BY <1>1
    <2> QED
      BY <2>1, LeastNatural
  <1>3. {t \in After(a) : t < s} \subseteq PageAfter(a)
    BY <1>1, <1>2
  <1>4. PageAfter(a) \subseteq {t \in After(a) : t < s}
    <2> SUFFICES ASSUME NEW t \in PageAfter(a), ~(t < s) PROVE FALSE
      BY DEF PageAfter
    <2>1. t \in Nat /\ s \in Nat /\ s <= t
      BY <1>1 DEF PageAfter
    <2> QED
      BY <1>2, <2>1, PageIsPrefix
  <1>5. Cardinality(PageAfter(a)) >= PageSize
    <2>1. PageAfter(a) = {t \in After(a) : t < s}
      BY <1>3, <1>4
    <2>2. IsFiniteSet(PageAfter(a))
      BY WarmupConstants, FS_Subset DEF WarmupConstants, After, PageAfter
    <2>3. Cardinality(PageAfter(a)) \in Nat
      BY <2>2, FS_CardinalityType
    <2>4. ~(Cardinality({t \in After(a) : t < s}) < PageSize)
      BY <1>2 DEF PageAfter
    <2> QED
      BY <1>1, <2>1, <2>3, <2>4
  <1>6. Cardinality(PageAfter(a)) <= PageSize
    <2> DEFINE m == Last(PageAfter(a))
    <2>1. m \in PageAfter(a) /\ \A t \in PageAfter(a) : t <= m
      BY LastOfPage
    <2> HIDE DEF m
    <2>2. PageAfter(a) = {t \in After(a) : t < m} \cup {m}
      <3>1. PageAfter(a) \subseteq {t \in After(a) : t < m} \cup {m}
        <4> SUFFICES ASSUME NEW t \in PageAfter(a) PROVE t \in {u \in After(a) : u < m} \cup {m}
          OBVIOUS
        <4>1. t \in After(a) /\ t \in Nat /\ m \in Nat /\ t <= m
          BY <1>1, <2>1 DEF PageAfter
        <4> QED
          BY <4>1
      <3>2. \A t \in After(a) : t < m => t \in PageAfter(a)
        <4> TAKE t \in After(a)
        <4> HAVE t < m
        <4>1. t \in Nat /\ m \in Nat
          BY <1>1, <2>1 DEF PageAfter
        <4> QED
          BY <1>1, <2>1, <4>1, PageIsPrefix
      <3> QED
        BY <2>1, <3>1, <3>2
    <2>3. IsFiniteSet({t \in After(a) : t < m})
      BY WarmupConstants, FS_Subset DEF WarmupConstants, After
    <2>4. Cardinality({t \in After(a) : t < m}) \in Nat
      BY <2>3, FS_CardinalityType
    <2>5. Cardinality({t \in After(a) : t < m} \cup {m}) <= Cardinality({t \in After(a) : t < m}) + 1
      <3> DEFINE below == {t \in After(a) : t < m}
      <3> HIDE DEF below
      <3>1. IsFiniteSet(below) /\ Cardinality(below) \in Nat
        BY <2>3, <2>4, Zenon DEF below
      <3>2. Cardinality(below \cup {m}) = IF m \in below THEN Cardinality(below) ELSE Cardinality(below) + 1
        BY <3>1, FS_AddElement, Zenon
      <3>3. Cardinality(below \cup {m}) <= Cardinality(below) + 1
        BY <3>1, <3>2
      <3> QED
        BY <3>3, Zenon DEF below
    <2>6. Cardinality({t \in After(a) : t < m}) < PageSize
      BY <2>1 DEF PageAfter
    <2>7. Cardinality({t \in After(a) : t < m} \cup {m}) \in Nat
      BY <2>3, FS_AddElement, FS_CardinalityType
    <2> QED
      BY <1>1, <2>2, <2>4, <2>5, <2>6, <2>7
  <1>7. Cardinality(PageAfter(a)) \in Nat
    <2>1. IsFiniteSet(PageAfter(a))
      BY WarmupConstants, FS_Subset DEF WarmupConstants, After, PageAfter
    <2> QED
      BY <2>1, FS_CardinalityType
  <1> QED
    BY <1>1, <1>5, <1>6, <1>7

-----------------------------------------------------------------------------
(***************************************************************************)
(* Types.                                                                  *)
(***************************************************************************)

WorkerCounts == \A w \in Workers, c \in Classes : worker[w].counts[c] <= Capacity[c]

\* A worker and an administrator who do nothing.
LEMMA IdleTypes ==
    /\ Idle \in WorkerRecord
    /\ \A c \in Classes : Idle.counts[c] <= Capacity[c]
    /\ AdminIdle \in [pc : {"idle", "locked", "enqueue", "open", "gate"},
                      op : {"none", "bind", "unbind", "warmup"},
                      class : Classes \cup {AdminIdle.class}, version : Versions \cup {NoVersion}]
    /\ AdminIdle.op = "none" /\ AdminIdle.pc = "idle"
    /\ Idle.pc = "idle" /\ Idle.version = NoVersion /\ Idle.wasOpen = FALSE /\ Idle.leased = FALSE
    /\ Idle.after = 0 /\ Idle.classes = {}
  BY WarmupConstants DEF Idle, WorkerRecord, WorkerSteps, AdminIdle, WarmupConstants

\* A worker that changes keeps the types of all workers.
LEMMA WorkerChanges ==
    ASSUME WorkerType, WorkerCounts, NEW w \in Workers, NEW r \in WorkerRecord,
           \A c \in Classes : r.counts[c] <= Capacity[c],
           worker' = [worker EXCEPT ![w] = r]
    PROVE  WorkerType' /\ WorkerCounts' /\ worker'[w] = r /\ \A x \in Workers \ {w} : worker'[x] = worker[x]
  BY DEF WorkerType, WorkerCounts

\* A worker that moves on to another step.
LEMMA WorkerMoves ==
    ASSUME WorkerType, WorkerCounts, NEW w \in Workers, NEW pc \in WorkerSteps, Step(w, pc)
    PROVE  WorkerType' /\ WorkerCounts'
  <1>1. worker[w] \in WorkerRecord
    BY DEF WorkerType
  <1>2. [worker[w] EXCEPT !.pc = pc] \in WorkerRecord
    BY <1>1 DEF WorkerRecord
  <1>3. \A c \in Classes : [worker[w] EXCEPT !.pc = pc].counts[c] <= Capacity[c]
    BY <1>1 DEF WorkerCounts, WorkerRecord
  <1>4. worker' = [worker EXCEPT ![w] = [worker[w] EXCEPT !.pc = pc]]
    BY DEF Step, WorkerType
  <1> QED
    BY <1>2, <1>3, <1>4, WorkerChanges

\* A worker that gives up (Fail: failed status, lock, task).
LEMMA FailTypes ==
    ASSUME Types, NEW w \in Workers, Fail(w)
    PROVE  /\ status' \in [state : States, version : Versions \cup {NoVersion}]
           /\ lock' \in Versions \cup {NoVersion}
           /\ task' \in {"none", "queued", "running", "retry"}
           /\ WorkerType' /\ WorkerCounts'
  <1>1. worker[w].version \in Versions \cup {NoVersion}
    BY DEF Types, WorkerType, WorkerRecord
  <1>2. WorkerType' /\ WorkerCounts'
    BY IdleTypes, WorkerChanges DEF Types, CountsFit, WorkerCounts, Fail
  <1> QED
    BY <1>1, <1>2 DEF Types, TypeOK, Fail, SetStatus, ReleaseLock, Report, States

\* An index without an entry.
LEMMA NothingWritten ==
    [s \in Students |-> NotWritten] \in [Students -> (SUBSET Classes) \cup {NotWritten}]
  <1> DEFINE E == (SUBSET Classes) \cup {NotWritten}
  <1>1. NotWritten \in E
    OBVIOUS
  <1> HIDE DEF E
  <1>2. [s \in Students |-> NotWritten] \in [Students -> E]
    BY <1>1
  <1> QED
    BY <1>2 DEF E

\* The page a worker reads is the one after its cursor.
LEMMA PageIs == \A w \in Workers : Page(w) = PageAfter(worker[w].after)
  BY DEF Page, Rest, PageAfter, After

\* Steps of the administrator.
LEMMA AdminTypes ==
    ASSUME Types, AdminNext
    PROVE  Types'
  <1> USE DEF Types, TypeOK, AdminType, CountsFit, mysql, index, ledger, history
  <1>1. ASSUME NEW op \in {"bind", "unbind", "warmup"}, NEW c \in Classes \cup {AdminIdle.class},
               op = "bind" => c \in Classes, BeginChange(op, c)
        PROVE  Types'
    BY <1>1 DEF BeginChange, WorkerType
  <1>2. CASE BindRoundClass \/ UnbindRoundClass
    BY <1>2, IdleTypes DEF BindRoundClass, UnbindRoundClass, WorkerType
  <1>3. CASE MarkQueued
    BY <1>3 DEF MarkQueued, SetStatus, States, WorkerType
  <1>4. CASE Enqueue
    BY <1>4, IdleTypes, WarmupConstants DEF Enqueue, SetStatus, States, WorkerType, CallWorks, CallFails, WarmupConstants
  <1>5. CASE CrashBeforeEnqueue
    BY <1>5, IdleTypes, WarmupConstants DEF CrashBeforeEnqueue, WorkerType, CallFails, WarmupConstants
  <1>6. CASE ReadReady
    BY <1>6 DEF ReadReady, Status, WorkerType
  <1>7. CASE OpenRound
    BY <1>7 DEF OpenRound, WorkerType
  <1>8. CASE OpenGate
    BY <1>8, IdleTypes, WarmupConstants DEF OpenGate, MarkOpen, WorkerType, CallWorks, CallFails, WarmupConstants
  <1> QED
    BY <1>1, <1>2, <1>3, <1>4, <1>5, <1>6, <1>7, <1>8 DEF AdminNext

\* A step that changes neither the round's data nor the administrator.
LEMMA TypesFrom ==
    ASSUME Types, WorkerType', WorkerCounts', UNCHANGED <<mysql, admin, history>>,
           status' \in [state : States, version : Versions \cup {NoVersion}],
           lock' \in Versions \cup {NoVersion}, active' \in Versions \cup {NoVersion},
           open' \in Versions \cup {NoVersion},
           task' \in {"none", "queued", "running", "retry"},
           snapshot' \in [Versions -> SUBSET Classes],
           eligible' \in [Versions -> [Students -> (SUBSET Classes) \cup {NotWritten}]],
           seat' \in [Classes -> Nat \cup {-1}], held' \in [Students -> SUBSET Classes],
           CallWorks \/ CallFails
    PROVE  Types'
  <1>1. failures' \in 0 .. MaxFailures
    BY WarmupConstants DEF Types, TypeOK, CallWorks, CallFails, WarmupConstants
  <1>2. TypeOK'
    BY <1>1 DEF Types, TypeOK, mysql, history
  <1>3. AdminType' /\ CountsFit'
    BY DEF Types, AdminType, CountsFit, WorkerCounts, mysql
  <1> QED
    BY <1>2, <1>3 DEF Types

\* Steps of a worker.
LEMMA WorkerTypes ==
    ASSUME WarmupInv, NEW w \in Workers, WorkerStep(w) \/ Crash(w)
    PROVE  Types'
  <1> USE DEF mysql, index, ledger, history
  <1>0. Types
    BY DEF WarmupInv
  <1> USE <1>0
  <1>1. worker[w] \in WorkerRecord /\ WorkerType /\ WorkerCounts
    BY DEF Types, WorkerType, CountsFit, WorkerCounts
  <1>2. worker[w].version \in Versions \cup {NoVersion} /\ worker[w].classes \subseteq Classes
        /\ worker[w].counts \in [Classes -> Nat] /\ worker[w].rows \in [Students -> SUBSET Classes]
        /\ worker[w].after \in Nat
    BY <1>1 DEF WorkerRecord
  <1>3. /\ status \in [state : States, version : Versions \cup {NoVersion}]
        /\ lock \in Versions \cup {NoVersion} /\ active \in Versions \cup {NoVersion}
        /\ open \in Versions \cup {NoVersion}
        /\ task \in {"none", "queued", "running", "retry"}
        /\ snapshot \in [Versions -> SUBSET Classes]
        /\ eligible \in [Versions -> [Students -> (SUBSET Classes) \cup {NotWritten}]]
        /\ seat \in [Classes -> Nat \cup {-1}] /\ held \in [Students -> SUBSET Classes]
        /\ counted \in [Classes -> Nat] /\ bound \subseteq Classes /\ saved \in [Students -> SUBSET Classes]
        /\ \A c \in Classes : counted[c] <= Capacity[c]
    BY DEF Types, TypeOK, CountsFit
  <1>4. ASSUME NEW v \in Versions, TryLock(w, v) PROVE Types'
    <2> DEFINE r == [Idle EXCEPT !.pc = "locked", !.leased = TRUE, !.version = v]
    <2>1. r \in WorkerRecord /\ \A c \in Classes : r.counts[c] <= Capacity[c]
      BY IdleTypes DEF WorkerRecord, WorkerSteps
    <2>2. worker' = [worker EXCEPT ![w] = r]
      BY <1>4 DEF TryLock
    <2> HIDE DEF r
    <2>3. WorkerType' /\ WorkerCounts'
      BY <1>1, <2>1, <2>2, WorkerChanges
    <2>4. snapshot' \in [Versions -> SUBSET Classes]
      BY <1>3, <1>4 DEF TryLock
    <2>5. eligible' \in [Versions -> [Students -> (SUBSET Classes) \cup {NotWritten}]]
      <3> DEFINE E == [Students -> (SUBSET Classes) \cup {NotWritten}]
                 e == [s \in Students |-> NotWritten]
      <3>1. e \in E /\ eligible \in [Versions -> E]
        BY <1>3, NothingWritten
      <3>2. eligible' = [eligible EXCEPT ![v] = e]
        BY <1>4 DEF TryLock
      <3> HIDE DEF E, e
      <3>3. eligible' \in [Versions -> E]
        BY <3>1, <3>2
      <3> QED
        BY <3>3 DEF E
    <2> QED
      BY <1>3, <1>4, <2>3, <2>4, <2>5, TypesFrom DEF TryLock, CallWorks
  <1>5. CASE LockConflict(w) \/ AlreadyWarmed(w)
    BY <1>1, <1>3, <1>5, TypesFrom DEF LockConflict, AlreadyWarmed, AfterConflict, CallWorks, WorkerType, WorkerCounts
  <1>6. CASE MarkRunning(w)
    <2>1. CASE Fail(w)
      BY <1>3, <1>6, <2>1, FailTypes, TypesFrom DEF MarkRunning
    <2>2. CASE CallWorks /\ SetStatus("running", worker[w].version) /\ Step(w, "load") /\ UNCHANGED <<lock, task>>
      <3>1. WorkerType' /\ WorkerCounts'
        BY <1>1, <2>2, WorkerMoves DEF WorkerSteps
      <3> QED
        BY <1>2, <1>3, <1>6, <2>2, <3>1, TypesFrom DEF MarkRunning, SetStatus, States
    <2> QED
      BY <1>6, <2>1, <2>2 DEF MarkRunning
  <1>7. CASE LoadSnapshot(w)
    <2>1. CASE Fail(w)
      BY <1>3, <1>7, <2>1, FailTypes, TypesFrom DEF LoadSnapshot
    <2>2. CASE /\ CallWorks
               /\ worker' = [worker EXCEPT ![w].pc = "write", ![w].classes = bound,
                               ![w].counts = counted, ![w].wasOpen = (round = "open")]
               /\ UNCHANGED <<status, lock, task>>
      <3> DEFINE r == [worker[w] EXCEPT !.pc = "write", !.classes = bound,
                                        !.counts = counted, !.wasOpen = (round = "open")]
      <3>1. r \in WorkerRecord /\ \A c \in Classes : r.counts[c] <= Capacity[c]
        BY <1>1, <1>3 DEF WorkerRecord, WorkerSteps
      <3>2. worker' = [worker EXCEPT ![w] = r]
        BY <1>1, <2>2 DEF WorkerType
      <3> HIDE DEF r
      <3>3. WorkerType' /\ WorkerCounts'
        BY <1>1, <3>1, <3>2, WorkerChanges
      <3> QED
        BY <1>3, <1>7, <2>2, <3>3, TypesFrom DEF LoadSnapshot
    <2> QED
      BY <1>7, <2>1, <2>2 DEF LoadSnapshot
  <1>8. CASE WriteSnapshot(w)
    <2>1. snapshot' \in [Versions -> SUBSET Classes] /\ seat' \in [Classes -> Nat \cup {-1}]
      BY <1>1, <1>2, <1>3, <1>8, WarmupConstants DEF WriteSnapshot, WorkerCounts, WarmupConstants
    <2>2. CASE Fail(w)
      BY <1>3, <1>8, <2>1, <2>2, FailTypes, TypesFrom DEF WriteSnapshot
    <2>3. CASE CallWorks /\ Step(w, "page") /\ UNCHANGED <<status, lock, task>>
      <3>1. WorkerType' /\ WorkerCounts'
        BY <1>1, <2>3, WorkerMoves DEF WorkerSteps
      <3> QED
        BY <1>3, <1>8, <2>1, <2>3, <3>1, TypesFrom DEF WriteSnapshot
    <2> QED
      BY <1>8, <2>2, <2>3 DEF WriteSnapshot
  <1>9. CASE ReadPage(w)
    <2>1. CASE Fail(w)
      BY <1>3, <1>9, <2>1, FailTypes, TypesFrom DEF ReadPage
    <2>2. CASE /\ worker' = [worker EXCEPT ![w].pc = "students", ![w].rows = saved]
               /\ UNCHANGED <<status, lock, task>>
      <3> DEFINE r == [worker[w] EXCEPT !.pc = "students", !.rows = saved]
      <3>1. r \in WorkerRecord /\ \A c \in Classes : r.counts[c] <= Capacity[c]
        BY <1>1, <1>3 DEF WorkerRecord, WorkerSteps, WorkerCounts
      <3>2. worker' = [worker EXCEPT ![w] = r]
        BY <1>1, <2>2 DEF WorkerType
      <3> HIDE DEF r
      <3>3. WorkerType' /\ WorkerCounts'
        BY <1>1, <3>1, <3>2, WorkerChanges
      <3> QED
        BY <1>3, <1>9, <2>2, <3>3, TypesFrom DEF ReadPage
    <2> QED
      BY <1>9, <2>1, <2>2 DEF ReadPage
  <1>10. CASE WriteStudents(w)
    <2>1. /\ eligible' \in [Versions -> [Students -> (SUBSET Classes) \cup {NotWritten}]]
          /\ held' \in [Students -> SUBSET Classes]
      <3> DEFINE E == [Students -> (SUBSET Classes) \cup {NotWritten}]
                 v == worker[w].version
                 e == [s \in Students |-> IF s \in Page(w) THEN EligibleClasses(w, s) ELSE eligible[v][s]]
      <3>1. \A s \in Students : EligibleClasses(w, s) \in SUBSET Classes
        BY <1>2 DEF EligibleClasses
      <3>2. v \in Versions
        BY <1>10 DEF WriteStudents, WarmupInv, VersionsApart
      <3>3. e \in E /\ eligible \in [Versions -> E]
        BY <1>3, <3>1, <3>2
      <3>4. eligible' = [eligible EXCEPT ![v] = e] \/ eligible' = eligible
        BY <1>3, <1>10, <3>2 DEF WriteStudents
      <3>5. held' \in [Students -> SUBSET Classes]
        BY <1>2, <1>3, <1>10 DEF WriteStudents
      <3> HIDE DEF E, e, v
      <3>6. eligible' \in [Versions -> E]
        BY <3>2, <3>3, <3>4
      <3> QED
        BY <3>5, <3>6 DEF E
    <2>2. CASE Fail(w)
      BY <1>3, <1>10, <2>1, <2>2, FailTypes, TypesFrom DEF WriteStudents
    <2>3. CASE CallWorks /\ Step(w, "renew") /\ UNCHANGED <<status, lock, task>>
      <3>1. WorkerType' /\ WorkerCounts'
        BY <1>1, <2>3, WorkerMoves DEF WorkerSteps
      <3> QED
        BY <1>3, <1>10, <2>1, <2>3, <3>1, TypesFrom DEF WriteStudents
    <2> QED
      BY <1>10, <2>2, <2>3 DEF WriteStudents
  <1>11. CASE NextPage(w)
    <2>1. CASE Fail(w)
      BY <1>3, <1>11, <2>1, FailTypes, TypesFrom DEF NextPage
    <2>2. CASE /\ worker' = [worker EXCEPT ![w].after = Last(Page(w)),
                               ![w].pc = IF MorePages(w) THEN "page" ELSE "activate"]
               /\ UNCHANGED <<status, lock, task>>
      <3> DEFINE r == [worker[w] EXCEPT !.after = Last(Page(w)),
                                        !.pc = IF MorePages(w) THEN "page" ELSE "activate"]
      <3>1. Last(Page(w)) \in Nat
        <4>1. PageAfter(worker[w].after) # {}
          BY <1>11 DEF NextPage, WarmupInv, Filled, Whole
        <4>2. Last(PageAfter(worker[w].after)) \in Students
          BY <1>2, <4>1, LastOfPage DEF PageAfter, After
        <4> QED
          BY <4>2, PageIs, WarmupConstants DEF WarmupConstants
      <3>2. r \in WorkerRecord /\ \A c \in Classes : r.counts[c] <= Capacity[c]
        BY <1>1, <3>1 DEF WorkerRecord, WorkerSteps, WorkerCounts
      <3>3. worker' = [worker EXCEPT ![w] = r]
        BY <1>1, <2>2 DEF WorkerType
      <3> HIDE DEF r
      <3>4. WorkerType' /\ WorkerCounts'
        BY <1>1, <3>2, <3>3, WorkerChanges
      <3> QED
        BY <1>3, <1>11, <2>2, <3>4, TypesFrom DEF NextPage
    <2> QED
      BY <1>11, <2>1, <2>2 DEF NextPage
  <1>12. CASE NoMoreStudents(w)
    <2>1. WorkerType' /\ WorkerCounts'
      BY <1>1, <1>12, WorkerMoves DEF NoMoreStudents, WorkerSteps
    <2> QED
      BY <1>3, <1>12, <2>1, TypesFrom DEF NoMoreStudents, CallWorks
  <1>13. CASE Activate(w)
    <2>1. CASE CallFails /\ active' \in {active, worker[w].version} /\ Fail(w)
      BY <1>2, <1>3, <1>13, <2>1, FailTypes, TypesFrom DEF Activate
    <2>2. CASE /\ CallWorks /\ active' = worker[w].version /\ SetStatus("ready", worker[w].version)
               /\ Step(w, AfterActivate(w)) /\ UNCHANGED <<lock, task>>
      <3>1. WorkerType' /\ WorkerCounts'
        BY <1>1, <2>2, WorkerMoves DEF WorkerSteps, AfterActivate
      <3> QED
        BY <1>2, <1>3, <1>13, <2>2, <3>1, TypesFrom DEF Activate, SetStatus, States
    <2> QED
      BY <1>13, <2>1, <2>2 DEF Activate
  <1>14. CASE Reopen(w)
    <2>1. open' \in Versions \cup {NoVersion}
      BY <1>2, <1>3, <1>14 DEF Reopen, MarkOpen
    <2>2. CASE Fail(w)
      BY <1>3, <1>14, <2>1, <2>2, FailTypes, TypesFrom DEF Reopen
    <2>3. CASE CallWorks /\ Step(w, "done") /\ UNCHANGED <<status, lock, task>>
      <3>1. WorkerType' /\ WorkerCounts'
        BY <1>1, <2>3, WorkerMoves DEF WorkerSteps
      <3> QED
        BY <1>3, <1>14, <2>1, <2>3, <3>1, TypesFrom DEF Reopen
    <2> QED
      BY <1>14, <2>2, <2>3 DEF Reopen
  <1>15. CASE Finish(w) \/ Crash(w)
    <2>1. WorkerType' /\ WorkerCounts'
      BY <1>1, <1>15, IdleTypes, WorkerChanges DEF Finish, Crash
    <2>2. lock' \in Versions \cup {NoVersion} /\ task' \in {"none", "queued", "running", "retry"}
      BY <1>3, <1>15 DEF Finish, Crash, ReleaseLock, Report
    <2> QED
      BY <1>3, <1>15, <2>1, <2>2, TypesFrom DEF Finish, Crash, CallWorks
  <1> QED
    BY <1>4, <1>5, <1>6, <1>7, <1>8, <1>9, <1>10, <1>11, <1>12, <1>13, <1>14, <1>15 DEF WorkerStep

\* Steps of the queue, the clock, the students and the projection, and a loss
\* of the Redis data.
LEMMA OtherTypes ==
    ASSUME Types,
           \/ RetryDue \/ LockExpires \/ Redeliver \/ Archive \/ LoseRedis
           \/ \E s \in Students, c \in Classes : Choose(s, c) \/ Save(s, c)
           \/ \E c \in Classes : Count(c)
    PROVE  Types'
  <1> USE DEF Types, TypeOK, AdminType, CountsFit, mysql, index, ledger, history
  <1>1. CASE RetryDue
    BY <1>1 DEF RetryDue, WorkerType
  <1>2. CASE LockExpires
    BY <1>2, WarmupConstants DEF LockExpires, WorkerType, CallWorks, CallFails, WarmupConstants
  <1>3. CASE Redeliver
    <2>1. ASSUME NEW w \in Workers
          PROVE  /\ worker'[w] \in WorkerRecord
                 /\ \A c \in Classes : worker'[w].counts[c] <= Capacity[c]
      <3>1. worker[w] \in WorkerRecord /\ worker'[w] = [worker[w] EXCEPT !.leased = FALSE]
        BY <1>3 DEF Redeliver, WorkerType
      <3> QED
        BY <3>1 DEF WorkerRecord
    <2>2. WorkerType'
      BY <1>3, <2>1 DEF Redeliver, WorkerType
    <2> QED
      BY <1>3, <2>1, <2>2, WarmupConstants DEF Redeliver, CallFails, WarmupConstants
  <1>4. CASE Archive
    BY <1>4, WarmupConstants DEF Archive, WorkerType, CallFails, WarmupConstants
  <1>5. CASE LoseRedis
    <2>1. /\ snapshot' \in [Versions -> SUBSET Classes] /\ seat' \in [Classes -> Nat \cup {-1}]
          /\ held' \in [Students -> SUBSET Classes] /\ chosen' \in [Students -> SUBSET Classes]
          /\ status' \in [state : States, version : Versions \cup {NoVersion}]
      BY <1>5 DEF LoseRedis, States
    <2>2. eligible' \in [Versions -> [Students -> (SUBSET Classes) \cup {NotWritten}]]
      <3> DEFINE E == [Students -> (SUBSET Classes) \cup {NotWritten}]
                 e == [s \in Students |-> NotWritten]
      <3>1. e \in E /\ eligible' = [v \in Versions |-> e]
        BY <1>5, NothingWritten DEF LoseRedis
      <3> HIDE DEF E, e
      <3>2. eligible' \in [Versions -> E]
        BY <3>1
      <3> QED
        BY <3>2 DEF E
    <2> QED
      BY <1>5, <2>1, <2>2, WarmupConstants DEF LoseRedis, WorkerType, CallFails, WarmupConstants
  <1>6. ASSUME NEW s \in Students, NEW c \in Classes, Choose(s, c) PROVE Types'
    <2>1. seat' \in [Classes -> Nat \cup {-1}]
      BY <1>6 DEF Choose
    <2>2. held' \in [Students -> SUBSET Classes] /\ chosen' \in [Students -> SUBSET Classes]
      BY <1>6 DEF Choose
    <2>3. TypeOK'
      BY <1>6, <2>1, <2>2 DEF Choose
    <2> QED
      BY <1>6, <2>3 DEF Choose, WorkerType
  <1>7. ASSUME NEW s \in Students, NEW c \in Classes, Save(s, c) PROVE Types'
    BY <1>7 DEF Save, WorkerType
  <1>8. ASSUME NEW c \in Classes, Count(c) PROVE Types'
    BY <1>8, WarmupConstants DEF Count, WorkerType, WarmupConstants
  <1> QED
    BY <1>1, <1>2, <1>3, <1>4, <1>5, <1>6, <1>7, <1>8

-----------------------------------------------------------------------------
(***************************************************************************)
(* What is activated is whole.                                             *)
(***************************************************************************)

IndexInv == VersionsApart /\ Filled /\ ActiveIsComplete

\* A step that no worker takes and that leaves the index alone.
LEMMA IndexUnchanged ==
    ASSUME IndexInv, UNCHANGED <<worker, active, snapshot, eligible>>
    PROVE  IndexInv'
  BY DEF IndexInv, VersionsApart, Filled, ActiveIsComplete

\* A step of a worker that writes its own version only and keeps the others
\* whole.  It may activate its version, or stop (and forget it).
LEMMA OwnVersion ==
    ASSUME Types, VersionsApart, Filled, NEW w \in Workers, worker[w].pc # "idle",
           \A x \in Workers \ {w} : worker'[x] = worker[x],
           worker'[w].version \in {worker[w].version, NoVersion},
           worker'[w].pc # "idle" => worker'[w].version = worker[w].version,
           \A v \in Versions \ {worker[w].version} : snapshot'[v] = snapshot[v] /\ eligible'[v] = eligible[v],
           active' \in {active, worker[w].version},
           worker'[w].pc \in Building => active' = active /\ worker[w].pc \in Building,
           Whole(worker'[w], snapshot'[worker'[w].version], eligible'[worker'[w].version])
    PROVE  VersionsApart' /\ Filled'
  <1>1. worker[w].version \in Versions /\ NoVersion \notin Versions
    BY WarmupConstants DEF VersionsApart, WarmupConstants
  <1>2. VersionsApart'
    <2>1. \A x \in Workers : worker'[x].pc # "idle" => worker'[x].version \in Versions
      BY <1>1 DEF VersionsApart
    <2>2. ASSUME NEW x \in Workers, NEW y \in Workers, x # y, worker'[x].version = worker'[y].version
          PROVE  worker'[x].version = NoVersion
      <3>1. CASE x # w /\ y # w
        BY <2>2, <3>1 DEF VersionsApart
      <3>2. CASE x = w \/ y = w
        BY <1>1, <2>2, <3>2 DEF VersionsApart
      <3> QED
        BY <3>1, <3>2
    <2>3. ASSUME NEW x \in Workers, worker'[x].pc \in Building PROVE worker'[x].version # active'
      <3>1. CASE x = w
        BY <2>3, <3>1 DEF VersionsApart, Building
      <3>2. CASE x # w
        BY <1>1, <2>3, <3>2 DEF VersionsApart, Building
      <3> QED
        BY <3>1, <3>2
    <2> QED
      BY <2>1, <2>2, <2>3 DEF VersionsApart
  <1>3. ASSUME NEW x \in Workers \ {w}
        PROVE  Whole(worker[x], snapshot'[worker[x].version], eligible'[worker[x].version])
    <2>1. CASE worker[x].pc = "idle"
      BY <2>1 DEF Whole, Filling
    <2>2. CASE worker[x].pc # "idle"
      <3>1. worker[x].version \in Versions \ {worker[w].version}
        BY <1>1, <2>2 DEF VersionsApart
      <3> QED
        BY <3>1 DEF Filled
    <2> QED
      BY <2>1, <2>2
  <1>4. Filled'
    BY <1>3 DEF Filled
  <1> QED
    BY <1>2, <1>4

\* The active version keeps what it has while another one is written.
LEMMA ActiveKept ==
    ASSUME Types, VersionsApart, ActiveIsComplete, NEW w \in Workers, worker[w].pc \in Building,
           active' = active,
           \A v \in Versions \ {worker[w].version} : snapshot'[v] = snapshot[v] /\ eligible'[v] = eligible[v]
    PROVE  ActiveIsComplete'
  <1>1. active \in Versions \cup {NoVersion} /\ active # worker[w].version
    BY DEF Types, TypeOK, VersionsApart
  <1> QED
    BY <1>1 DEF ActiveIsComplete

\* A worker that stops forgets its version and leaves the index as it is.
LEMMA StopKeepsIndex ==
    ASSUME WarmupInv, NEW w \in Workers, worker[w].pc # "idle", worker' = [worker EXCEPT ![w] = Idle],
           UNCHANGED <<active, snapshot, eligible>>
    PROVE  IndexInv'
  <1>1. worker'[w] = Idle /\ \A x \in Workers \ {w} : worker'[x] = worker[x]
    BY DEF WarmupInv, Types, WorkerType
  <1>2. Whole(Idle, snapshot'[NoVersion], eligible'[NoVersion])
    BY IdleTypes DEF Whole, Filling
  <1>3. VersionsApart' /\ Filled'
    BY <1>1, <1>2, IdleTypes, OwnVersion DEF WarmupInv, Building
  <1> QED
    BY <1>3 DEF IndexInv, WarmupInv, ActiveIsComplete

\* A worker that moves on without touching the index.
LEMMA MoveKeepsIndex ==
    ASSUME WarmupInv, NEW w \in Workers, worker[w].pc # "idle",
           \A x \in Workers \ {w} : worker'[x] = worker[x],
           worker'[w].version = worker[w].version,
           worker'[w].pc \in Building => worker[w].pc \in Building,
           Whole(worker'[w], snapshot[worker[w].version], eligible[worker[w].version]),
           UNCHANGED <<active, snapshot, eligible>>
    PROVE  IndexInv'
  <1>1. VersionsApart' /\ Filled'
    BY OwnVersion DEF WarmupInv
  <1> QED
    BY <1>1 DEF IndexInv, WarmupInv, ActiveIsComplete

\* A new version is nobody else's.
LEMMA TryLockIndex ==
    ASSUME WarmupInv, NEW w \in Workers, NEW v \in Versions, TryLock(w, v)
    PROVE  IndexInv'
  <1> DEFINE r == [Idle EXCEPT !.pc = "locked", !.leased = TRUE, !.version = v]
  <1>1. r.pc = "locked" /\ r.version = v /\ r.after = 0
    BY IdleTypes DEF WorkerRecord
  <1>2. worker'[w] = r /\ \A x \in Workers \ {w} : worker'[x] = worker[x]
    BY DEF WarmupInv, Types, WorkerType, TryLock
  <1> HIDE DEF r
  <1>3. /\ active' = active /\ active # v
        /\ \A x \in Workers : worker[x].version # v
        /\ \A u \in Versions \ {v} : snapshot'[u] = snapshot[u] /\ eligible'[u] = eligible[u]
    BY DEF TryLock, NewVersion, Fresh, WarmupInv, Types, TypeOK
  <1>4. VersionsApart'
    BY <1>1, <1>2, <1>3, WarmupConstants DEF WarmupInv, VersionsApart, Building, WarmupConstants
  <1>5. ASSUME NEW x \in Workers
        PROVE  Whole(worker'[x], snapshot'[worker'[x].version], eligible'[worker'[x].version])
    <2>1. CASE x = w
      BY <1>1, <1>2, <2>1 DEF Whole, Filling
    <2>2. CASE x # w /\ worker[x].pc = "idle"
      BY <1>2, <2>2 DEF Whole, Filling
    <2>3. CASE x # w /\ worker[x].pc # "idle"
      <3>1. worker[x].version \in Versions \ {v}
        BY <1>3, <2>3 DEF WarmupInv, VersionsApart
      <3> QED
        BY <1>2, <1>3, <2>3, <3>1 DEF WarmupInv, Filled
    <2> QED
      BY <2>1, <2>2, <2>3
  <1>6. ActiveIsComplete'
    <2>1. active \in Versions \cup {NoVersion}
      BY DEF WarmupInv, Types, TypeOK
    <2> QED
      BY <1>3, <2>1 DEF WarmupInv, ActiveIsComplete
  <1> QED
    BY <1>4, <1>5, <1>6 DEF IndexInv, Filled

\* Every step of a worker keeps the versions apart and the active one whole.
LEMMA WorkerIndex ==
    ASSUME WarmupInv, NEW w \in Workers, WorkerStep(w) \/ Crash(w)
    PROVE  IndexInv'
  <1> USE DEF index
  <1> DEFINE r == worker[w]
             v == worker[w].version
  <1>1. /\ r \in WorkerRecord /\ r.after \in Nat /\ r.classes \subseteq Classes
        /\ v \in Versions \cup {NoVersion}
        /\ \A q \in WorkerRecord : worker' = [worker EXCEPT ![w] = q] =>
             worker'[w] = q /\ \A x \in Workers \ {w} : worker'[x] = worker[x]
    BY DEF WarmupInv, Types, WorkerType, WorkerRecord
  <1>2. /\ worker[w].pc # "idle" => v \in Versions
        /\ Whole(worker[w], snapshot[v], eligible[v])
    BY DEF WarmupInv, VersionsApart, Filled
  <1>3. ASSUME NEW u \in Versions, TryLock(w, u) PROVE IndexInv'
    BY <1>3, TryLockIndex
  <1>4. CASE LockConflict(w) \/ AlreadyWarmed(w)
    BY <1>4, IndexUnchanged DEF LockConflict, AlreadyWarmed, WarmupInv, IndexInv
  <1>5. ASSUME Fail(w), worker[w].pc # "idle", UNCHANGED <<active, snapshot, eligible>> PROVE IndexInv'
    BY <1>5, StopKeepsIndex DEF Fail
  <1>6. CASE Finish(w) \/ Crash(w)
    BY <1>6, StopKeepsIndex DEF Finish, Crash
  <1>7. ASSUME NEW l \in WorkerSteps, Step(w, l)
        PROVE  /\ worker'[w] = [worker[w] EXCEPT !.pc = l]
               /\ worker'[w].pc = l /\ worker'[w].version = v /\ worker'[w].after = r.after
               /\ worker'[w].classes = r.classes
               /\ \A x \in Workers \ {w} : worker'[x] = worker[x]
    BY <1>1, <1>7 DEF Step, WarmupInv, Types, WorkerType, WorkerRecord
  <1>8. CASE MarkRunning(w)
    <2>1. CASE Step(w, "load")
      <3>1. Whole(worker'[w], snapshot[v], eligible[v])
        BY <1>2, <1>7, <1>8, <2>1 DEF Whole, Filling, MarkRunning, WorkerSteps
      <3> QED
        BY <1>7, <1>8, <2>1, <3>1, MoveKeepsIndex DEF MarkRunning, Building, WorkerSteps
    <2> QED
      BY <1>5, <1>8, <2>1 DEF MarkRunning
  <1>9. CASE LoadSnapshot(w)
    <2>1. CASE /\ bound # {}
               /\ worker' = [worker EXCEPT ![w].pc = "write", ![w].classes = bound,
                               ![w].counts = counted, ![w].wasOpen = (round = "open")]
      <3>1. /\ worker'[w].pc = "write" /\ worker'[w].version = v /\ worker'[w].classes = bound
            /\ worker'[w].after = r.after
            /\ \A x \in Workers \ {w} : worker'[x] = worker[x]
        BY <1>1, <2>1 DEF WarmupInv, Types, WorkerType, WorkerRecord
      <3>2. Whole(worker'[w], snapshot[v], eligible[v])
        BY <1>2, <1>9, <2>1, <3>1 DEF Whole, Filling, LoadSnapshot
      <3> QED
        BY <1>9, <3>1, <3>2, MoveKeepsIndex DEF LoadSnapshot, Building
    <2> QED
      BY <1>5, <1>9, <2>1 DEF LoadSnapshot
  <1>10. CASE WriteSnapshot(w)
    <2>1. CASE UNCHANGED snapshot /\ Fail(w)
      BY <1>5, <1>10, <2>1 DEF WriteSnapshot
    <2>2. CASE snapshot' = [snapshot EXCEPT ![v] = worker[w].classes]
      <3>1. /\ v \in Versions /\ r.pc = "write" /\ active' = active /\ eligible' = eligible
            /\ snapshot'[v] = r.classes
            /\ \A u \in Versions \ {v} : snapshot'[u] = snapshot[u] /\ eligible'[u] = eligible[u]
        BY <1>2, <1>10, <2>2 DEF WriteSnapshot, WarmupInv, Types, TypeOK
      <3>2. ActiveIsComplete'
        BY <3>1, ActiveKept DEF WarmupInv, Building
      <3>3. CASE Step(w, "page")
        <4>1. \A s \in Students : ~(s <= 0)
          BY WarmupConstants DEF WarmupConstants
        <4>2. worker'[w].pc = "page" /\ worker'[w].after = 0 /\ worker'[w].classes = r.classes /\ r.classes # {}
          BY <1>2, <1>7, <3>1, <3>3 DEF Whole, WorkerSteps, Filling
        <4>3. Indexed(worker'[w]) = {}
          BY <4>1, <4>2 DEF Indexed
        <4>4. Whole(worker'[w], snapshot'[v], eligible'[v])
          BY <3>1, <4>2, <4>3 DEF Whole, Filling
        <4>5. VersionsApart' /\ Filled'
          BY <1>7, <3>1, <3>3, <4>2, <4>4, OwnVersion DEF WarmupInv, Building, WorkerSteps
        <4> QED
          BY <3>2, <4>5 DEF IndexInv
      <3>4. CASE Fail(w)
        <4>1. worker'[w] = Idle /\ \A x \in Workers \ {w} : worker'[x] = worker[x]
          BY <1>1, <3>4, IdleTypes DEF Fail
        <4>2. Whole(Idle, snapshot'[NoVersion], eligible'[NoVersion])
          BY IdleTypes DEF Whole, Filling
        <4>3. VersionsApart' /\ Filled'
          BY <3>1, <4>1, <4>2, IdleTypes, OwnVersion DEF WarmupInv, Building
        <4> QED
          BY <3>2, <4>3 DEF IndexInv
      <3> QED
        BY <1>10, <3>3, <3>4 DEF WriteSnapshot
    <2> QED
      BY <1>10, <2>1, <2>2 DEF WriteSnapshot
  <1>11. CASE ReadPage(w)
    <2>1. CASE worker' = [worker EXCEPT ![w].pc = "students", ![w].rows = saved]
      <3>1. /\ worker'[w].pc = "students" /\ worker'[w].version = v /\ worker'[w].classes = r.classes
            /\ worker'[w].after = r.after
            /\ \A x \in Workers \ {w} : worker'[x] = worker[x]
        BY <1>1, <2>1 DEF WarmupInv, Types, WorkerType, WorkerRecord
      <3>2. PageAfter(r.after) # {} /\ r.pc = "page"
        BY <1>11, PageIs DEF ReadPage
      <3>3. Whole(worker'[w], snapshot[v], eligible[v])
        BY <1>2, <3>1, <3>2 DEF Whole, Filling, Indexed
      <3> QED
        BY <1>11, <3>1, <3>3, MoveKeepsIndex DEF ReadPage, Building
    <2> QED
      BY <1>5, <1>11, <2>1 DEF ReadPage
  <1>12. CASE WriteStudents(w)
    <2>1. CASE UNCHANGED eligible /\ Fail(w)
      BY <1>5, <1>12, <2>1 DEF WriteStudents
    <2>2. CASE eligible' = [eligible EXCEPT ![v] = [s \in Students |->
                              IF s \in Page(w) THEN EligibleClasses(w, s) ELSE @[s]]]
      <3>1. /\ v \in Versions /\ r.pc = "students" /\ active' = active /\ snapshot' = snapshot
            /\ \A s \in PageAfter(r.after) :
                 eligible'[v][s] = {c \in r.classes : Evaluate(Profile[s], Rule[c])}
            /\ \A s \in Students \ PageAfter(r.after) : eligible'[v][s] = eligible[v][s]
            /\ \A u \in Versions \ {v} : snapshot'[u] = snapshot[u] /\ eligible'[u] = eligible[u]
        <4>1. v \in Versions /\ r.pc = "students" /\ active' = active /\ snapshot' = snapshot
          BY <1>2, <1>12 DEF WriteStudents
        <4>2. \A s \in PageAfter(r.after) : s \in Students
          BY DEF PageAfter, After
        <4>3. eligible'[v] = [s \in Students |-> IF s \in Page(w) THEN EligibleClasses(w, s) ELSE eligible[v][s]]
          BY <2>2, <4>1 DEF WarmupInv, Types, TypeOK
        <4>4. \A u \in Versions \ {v} : eligible'[u] = eligible[u]
          BY <2>2, <4>1 DEF WarmupInv, Types, TypeOK
        <4> QED
          BY <4>1, <4>2, <4>3, <4>4, PageIs DEF EligibleClasses
      <3>2. ActiveIsComplete'
        BY <3>1, ActiveKept DEF WarmupInv, Building
      <3>3. CASE Step(w, "renew")
        <4>1. worker'[w].pc = "renew" /\ worker'[w].after = r.after /\ worker'[w].classes = r.classes
          BY <1>7, <3>3 DEF WorkerSteps
        <4>2. Indexed(worker'[w]) = Indexed(r) \cup PageAfter(r.after)
          BY <3>1, <4>1 DEF Indexed
        <4>3. \A s \in Indexed(r) : s \in Students /\ eligible[v][s] = {c \in r.classes : Evaluate(Profile[s], Rule[c])}
          BY <1>2, <3>1 DEF Whole, Filling, Indexed
        <4>4. Whole(worker'[w], snapshot'[v], eligible'[v])
          BY <1>2, <3>1, <4>1, <4>2, <4>3 DEF Whole, Filling
        <4>5. VersionsApart' /\ Filled'
          BY <1>7, <3>1, <3>3, <4>4, OwnVersion DEF WarmupInv, Building, WorkerSteps
        <4> QED
          BY <3>2, <4>5 DEF IndexInv
      <3>4. CASE Fail(w)
        <4>1. worker'[w] = Idle /\ \A x \in Workers \ {w} : worker'[x] = worker[x]
          BY <1>1, <3>4, IdleTypes DEF Fail
        <4>2. Whole(Idle, snapshot'[NoVersion], eligible'[NoVersion])
          BY IdleTypes DEF Whole, Filling
        <4>3. VersionsApart' /\ Filled'
          BY <3>1, <4>1, <4>2, IdleTypes, OwnVersion DEF WarmupInv, Building
        <4> QED
          BY <3>2, <4>3 DEF IndexInv
      <3> QED
        BY <1>12, <3>3, <3>4 DEF WriteStudents
    <2> QED
      BY <1>12, <2>1, <2>2 DEF WriteStudents
  <1>13. CASE NextPage(w)
    <2>1. CASE worker' = [worker EXCEPT ![w].after = Last(Page(w)),
                            ![w].pc = IF MorePages(w) THEN "page" ELSE "activate"]
      <3> DEFINE m == Last(PageAfter(r.after))
      <3>1. /\ worker'[w].pc = IF MorePages(w) THEN "page" ELSE "activate"
            /\ worker'[w].version = v /\ worker'[w].classes = r.classes
            /\ worker'[w].after = m
            /\ \A x \in Workers \ {w} : worker'[x] = worker[x]
        BY <1>1, <2>1, PageIs DEF WarmupInv, Types, WorkerType, WorkerRecord
      <3>2. r.pc = "renew" /\ PageAfter(r.after) # {}
        BY <1>2, <1>13 DEF NextPage, Whole
      <3>3. m \in PageAfter(r.after) /\ m \in Nat
        BY <1>1, <3>2, LastOfPage, WarmupConstants DEF WarmupConstants, PageAfter, After
      <3> HIDE DEF m
      <3>4. \A s \in Students : s <= m => s <= r.after \/ s \in PageAfter(r.after)
        <4> SUFFICES ASSUME NEW s \in Students, s <= m, ~(s <= r.after) PROVE s \in PageAfter(r.after)
          OBVIOUS
        <4>1. s \in After(r.after)
          BY <1>1, WarmupConstants DEF After, WarmupConstants
        <4> QED
          BY <1>1, <3>3, <4>1, PageIsPrefix
      <3>5. ~MorePages(w) => \A s \in Students : s <= r.after \/ s \in PageAfter(r.after)
        <4> SUFFICES ASSUME ~MorePages(w), NEW s \in Students, ~(s <= r.after)
                     PROVE  s \in PageAfter(r.after)
          OBVIOUS
        <4>1. After(r.after) = PageAfter(r.after)
          BY <1>1, <3>2, ShortPageIsLast, PageIs DEF MorePages
        <4> QED
          BY <1>1, <4>1, WarmupConstants DEF After, WarmupConstants
      <3>6. Indexed(worker'[w]) \subseteq Indexed(r)
        BY <3>1, <3>2, <3>4, <3>5 DEF Indexed
      <3>7. Whole(worker'[w], snapshot[v], eligible[v])
        BY <1>2, <3>1, <3>2, <3>6 DEF Whole, Filling
      <3> QED
        BY <1>13, <3>1, <3>7, MoveKeepsIndex DEF NextPage, Building
    <2> QED
      BY <1>5, <1>13, <2>1 DEF NextPage
  <1>14. CASE NoMoreStudents(w)
    <2>1. After(r.after) = {} /\ r.pc = "page"
      BY <1>1, <1>14, PageIs, EmptyPage DEF NoMoreStudents
    <2>2. \A s \in Students : s <= r.after
      BY <1>1, <2>1, WarmupConstants DEF After, WarmupConstants
    <2>3. Step(w, "activate") /\ "activate" \in WorkerSteps
      BY <1>14 DEF NoMoreStudents, WorkerSteps
    <2>4. Indexed(worker'[w]) = Indexed(r)
      BY <1>7, <2>1, <2>2, <2>3 DEF Indexed
    <2>5. Whole(worker'[w], snapshot[v], eligible[v])
      BY <1>2, <1>7, <2>1, <2>3, <2>4 DEF Whole, Filling
    <2> QED
      BY <1>7, <1>14, <2>3, <2>5, MoveKeepsIndex DEF NoMoreStudents, Building
  <1>15. CASE Activate(w)
    <2>1. r.pc = "activate" /\ v \in Versions /\ UNCHANGED <<snapshot, eligible>>
      BY <1>2, <1>15 DEF Activate
    <2>2. active' = v => ActiveIsComplete'
      BY <1>2, <2>1 DEF ActiveIsComplete, Whole, Filling, Indexed
    <2>3. ASSUME \A x \in Workers \ {w} : worker'[x] = worker[x],
                 worker'[w].pc \in {"idle", "reopen", "done"},
                 worker'[w].version \in {v, NoVersion}, worker'[w].pc # "idle" => worker'[w].version = v,
                 active' = v
          PROVE  IndexInv'
      <3>1. Whole(worker'[w], snapshot'[worker'[w].version], eligible'[worker'[w].version])
        BY <2>3 DEF Whole, Filling
      <3>2. VersionsApart' /\ Filled'
        BY <2>1, <2>3, <3>1, OwnVersion DEF WarmupInv, Building
      <3> QED
        BY <2>2, <2>3, <3>2 DEF IndexInv
    <2>4. CASE Step(w, AfterActivate(w)) /\ active' = v
      BY <1>7, <2>3, <2>4 DEF AfterActivate, WorkerSteps
    <2>5. CASE Fail(w) /\ active' = v
      <3>1. worker'[w] = Idle /\ \A x \in Workers \ {w} : worker'[x] = worker[x]
        BY <1>1, <2>5, IdleTypes DEF Fail
      <3> QED
        BY <2>3, <2>5, <3>1, IdleTypes
    <2>6. CASE Fail(w) /\ active' = active
      BY <1>5, <2>1, <2>6
    <2> QED
      BY <1>15, <2>4, <2>5, <2>6 DEF Activate
  <1>16. CASE Reopen(w)
    <2>1. CASE Step(w, "done")
      <3>1. Whole(worker'[w], snapshot[v], eligible[v])
        BY <1>7, <2>1 DEF Whole, Filling, WorkerSteps
      <3> QED
        BY <1>7, <1>16, <2>1, <3>1, MoveKeepsIndex DEF Reopen, Building, WorkerSteps
    <2> QED
      BY <1>5, <1>16, <2>1 DEF Reopen
  <1> QED
    BY <1>3, <1>4, <1>6, <1>8, <1>9, <1>10, <1>11, <1>12, <1>13, <1>14, <1>15, <1>16 DEF WorkerStep

\* The other steps leave the index alone or take it all away.
LEMMA OtherIndex ==
    ASSUME WarmupInv,
           \/ AdminNext \/ RetryDue \/ LockExpires \/ Redeliver \/ Archive \/ LoseRedis
           \/ \E s \in Students, c \in Classes : Choose(s, c) \/ Save(s, c)
           \/ \E c \in Classes : Count(c)
    PROVE  IndexInv'
  <1> USE DEF index
  <1>1. IndexInv
    BY DEF WarmupInv, IndexInv
  <1>2. CASE AdminNext
    BY <1>1, <1>2, IndexUnchanged
       DEF AdminNext, BeginChange, BindRoundClass, UnbindRoundClass, MarkQueued, Enqueue,
           CrashBeforeEnqueue, ReadReady, OpenRound, OpenGate
  <1>3. CASE RetryDue \/ LockExpires \/ Archive
    BY <1>1, <1>3, IndexUnchanged DEF RetryDue, LockExpires, Archive
  <1>4. CASE \/ \E s \in Students, c \in Classes : Choose(s, c) \/ Save(s, c)
             \/ \E c \in Classes : Count(c)
    BY <1>1, <1>4, IndexUnchanged DEF Choose, Save, Count
  <1>5. CASE Redeliver
    <2>1. UNCHANGED <<active, snapshot, eligible>>
      BY <1>5 DEF Redeliver
    <2>2. ASSUME NEW w \in Workers
          PROVE  /\ worker'[w].pc = worker[w].pc /\ worker'[w].version = worker[w].version
                 /\ worker'[w].after = worker[w].after /\ worker'[w].classes = worker[w].classes
      BY <1>5 DEF Redeliver, WarmupInv, Types, WorkerType, WorkerRecord
    <2>3. VersionsApart'
      BY <1>1, <2>1, <2>2 DEF IndexInv, VersionsApart
    <2>4. Filled'
      BY <1>1, <2>1, <2>2 DEF IndexInv, Filled, Whole, Indexed
    <2> QED
      BY <1>1, <2>1, <2>3, <2>4 DEF IndexInv, ActiveIsComplete
  <1>6. CASE LoseRedis
    <2>1. /\ active' = NoVersion
          /\ \A w \in Workers : worker'[w].pc = "idle" /\ worker'[w].version = NoVersion
      BY <1>6, IdleTypes DEF LoseRedis
    <2> QED
      BY <2>1 DEF IndexInv, VersionsApart, Filled, Whole, Filling, Building, ActiveIsComplete
  <1> QED
    BY <1>2, <1>3, <1>4, <1>5, <1>6

\* Every step keeps the invariant.
LEMMA WarmupStep ==
    ASSUME WarmupInv, [Next]_vars
    PROVE  WarmupInv'
  <1>1. ASSUME Types', IndexInv' PROVE WarmupInv'
    BY <1>1 DEF WarmupInv, IndexInv
  <1>2. ASSUME NEW w \in Workers, WorkerStep(w) \/ Crash(w) PROVE WarmupInv'
    BY <1>1, <1>2, WorkerTypes, WorkerIndex
  <1>3. CASE AdminNext
    BY <1>1, <1>3, AdminTypes, OtherIndex DEF WarmupInv
  <1>4. CASE \/ RetryDue \/ LockExpires \/ Redeliver \/ Archive \/ LoseRedis
             \/ \E s \in Students, c \in Classes : Choose(s, c) \/ Save(s, c)
             \/ \E c \in Classes : Count(c)
    BY <1>1, <1>4, OtherTypes, OtherIndex DEF WarmupInv
  <1>5. CASE UNCHANGED vars
    <2>1. Types'
      BY <1>5 DEF WarmupInv, vars, Types, TypeOK, WorkerType, AdminType, CountsFit
    <2> QED
      BY <1>1, <1>5, <2>1, IndexUnchanged DEF vars, WarmupInv, IndexInv
  <1> QED
    BY <1>2, <1>3, <1>4, <1>5 DEF Next, Environment

\* Nothing is written at the start.
LEMMA WarmupInit == Init => WarmupInv
  <1> SUFFICES ASSUME Init PROVE WarmupInv
    OBVIOUS
  <1>1. /\ \A w \in Workers : worker[w] = Idle
        /\ worker \in [Workers -> WorkerRecord]
    BY IdleTypes DEF Init
  <1>2. eligible \in [Versions -> [Students -> (SUBSET Classes) \cup {NotWritten}]]
    <2> DEFINE E == [Students -> (SUBSET Classes) \cup {NotWritten}]
               e == [s \in Students |-> NotWritten]
    <2>1. e \in E /\ eligible = [v \in Versions |-> e]
      BY NothingWritten DEF Init
    <2> HIDE DEF E, e
    <2>2. eligible \in [Versions -> E]
      BY <2>1
    <2> QED
      BY <2>2 DEF E
  <1>3. TypeOK
    <2>1. /\ snapshot \in [Versions -> SUBSET Classes] /\ seat \in [Classes -> Nat \cup {-1}]
          /\ counted \in [Classes -> Nat] /\ bound \subseteq Classes
      BY DEF Init
    <2>2. /\ saved \in [Students -> SUBSET Classes] /\ held \in [Students -> SUBSET Classes]
          /\ chosen \in [Students -> SUBSET Classes]
      BY DEF Init
    <2>3. /\ status \in [state : States, version : Versions \cup {NoVersion}]
          /\ {lock, active, open} \subseteq Versions \cup {NoVersion}
          /\ round \in {"planned", "open"} /\ task \in {"none", "queued", "running", "retry"}
          /\ failures \in 0 .. MaxFailures
      BY WarmupConstants DEF Init, States, WarmupConstants
    <2>4. orphaned \in BOOLEAN
      BY DEF Init
    <2> QED
      BY <1>2, <2>1, <2>2, <2>3, <2>4 DEF TypeOK
  <1>4. WorkerType /\ AdminType /\ CountsFit
    BY <1>1, IdleTypes, WarmupConstants DEF Init, WorkerType, AdminType, CountsFit, WarmupConstants
  <1>5. VersionsApart /\ Filled /\ ActiveIsComplete
    BY <1>1, IdleTypes
       DEF Init, VersionsApart, Building, Filled, Whole, Filling, ActiveIsComplete
  <1> QED
    BY <1>3, <1>4, <1>5 DEF WarmupInv, Types

\* The invariant holds in every reachable state, with any number of workers
\* that build at once, lose their lock or their lease, or die.
THEOREM WarmupInvariant == Spec => []WarmupInv
  BY WarmupInit, WarmupStep, PTL DEF Spec

\* What is active is whole: every worker that activates a version, also one
\* that has lost its lock or was overtaken, has written the snapshot and the
\* eligible classes of every student (Warmup, Activate).
THEOREM ActiveWhole == Spec => []ActiveIsComplete
  <1>1. WarmupInv => ActiveIsComplete
    BY DEF WarmupInv
  <1> QED
    BY <1>1, WarmupInvariant, PTL

-----------------------------------------------------------------------------
(***************************************************************************)
(* The gate.                                                               *)
(***************************************************************************)

\* The round never closes again here, so every step keeps the invariant.
LEMMA GateStep ==
    ASSUME WarmupInv, GateInv, [Next]_vars
    PROVE  GateInv'
  <1> USE DEF GateInv, mysql, index, ledger, history
  <1>1. CASE AdminNext
    <2>1. CASE OpenGate
      BY <2>1, IdleTypes DEF OpenGate, MarkOpen
    <2>2. CASE OpenRound
      BY <2>2 DEF OpenRound, WarmupInv, Types, AdminType
    <2>3. CASE ~OpenGate /\ ~OpenRound
      <3>1. UNCHANGED <<open, round, worker>>
        BY <1>1, <2>3 DEF AdminNext, BeginChange, BindRoundClass, UnbindRoundClass, MarkQueued,
             Enqueue, CrashBeforeEnqueue, ReadReady
      <3>2. admin'.pc = "gate" => admin.pc = "gate"
        BY <1>1, <2>3, IdleTypes DEF AdminNext, BeginChange, BindRoundClass, UnbindRoundClass, MarkQueued,
             Enqueue, CrashBeforeEnqueue, ReadReady, WarmupInv, Types, AdminType
      <3> QED
        BY <3>1, <3>2
    <2> QED
      BY <2>1, <2>2, <2>3
  <1>2. ASSUME NEW w \in Workers, WorkerStep(w) \/ Crash(w) PROVE GateInv'
    <2>1. UNCHANGED <<round, admin>>
      BY <1>2 DEF WorkerStep, TryLock, LockConflict, AlreadyWarmed, MarkRunning, LoadSnapshot, WriteSnapshot,
           ReadPage, WriteStudents, NextPage, NoMoreStudents, Activate, Reopen, Finish, Crash
    <2>2. open' = open \/ (worker[w].pc = "reopen")
      BY <1>2 DEF WorkerStep, TryLock, LockConflict, AlreadyWarmed, MarkRunning, LoadSnapshot, WriteSnapshot,
           ReadPage, WriteStudents, NextPage, NoMoreStudents, Activate, Reopen, Finish, Crash
    <2>3. \A x \in Workers \ {w} : worker'[x] = worker[x]
      BY <1>2 DEF WorkerStep, TryLock, LockConflict, AlreadyWarmed, MarkRunning, LoadSnapshot, WriteSnapshot,
           ReadPage, WriteStudents, NextPage, NoMoreStudents, Activate, Reopen, Finish, Crash, Step, Fail,
           WarmupInv, Types, WorkerType
    <2>4. worker[w] \in WorkerRecord /\ WorkerType
      BY DEF WarmupInv, Types, WorkerType
    <2>5. /\ worker'[w].wasOpen => round = "open"
          /\ worker'[w].pc = "reopen" => worker'[w].wasOpen
      <3>1. CASE worker' = [worker EXCEPT ![w] = Idle]
        BY <2>4, <3>1, IdleTypes DEF WorkerType
      <3>2. ASSUME NEW v \in Versions, TryLock(w, v)
            PROVE  worker'[w].wasOpen = FALSE /\ worker'[w].pc = "locked"
        BY <2>4, <3>2, IdleTypes DEF TryLock, WorkerType, WorkerRecord
      <3>3. ASSUME NEW l \in WorkerSteps, Step(w, l)
            PROVE  worker'[w].wasOpen = worker[w].wasOpen /\ worker'[w].pc = l
        BY <2>4, <3>3 DEF Step, WorkerType, WorkerRecord
      <3>4. CASE LoadSnapshot(w)
        BY <1>2, <2>4, <3>1, <3>4 DEF LoadSnapshot, Fail, WorkerType, WorkerRecord
      <3>5. CASE ReadPage(w) \/ NextPage(w)
        BY <1>2, <2>4, <3>1, <3>5 DEF ReadPage, NextPage, Fail, WorkerType, WorkerRecord
      <3>6. CASE Activate(w)
        <4>1. CASE Step(w, AfterActivate(w))
          <5>1. AfterActivate(w) \in WorkerSteps
            BY DEF AfterActivate, WorkerSteps
          <5> QED
            BY <3>3, <4>1, <5>1 DEF AfterActivate
        <4> QED
          BY <3>1, <3>6, <4>1 DEF Activate, Fail
      <3>7. CASE MarkRunning(w) \/ WriteSnapshot(w) \/ WriteStudents(w) \/ NoMoreStudents(w) \/ Reopen(w)
        BY <3>1, <3>3, <3>7 DEF MarkRunning, WriteSnapshot, WriteStudents, NoMoreStudents, Reopen, Fail, WorkerSteps
      <3>8. CASE LockConflict(w) \/ AlreadyWarmed(w)
        BY <3>8 DEF LockConflict, AlreadyWarmed
      <3>9. CASE Finish(w) \/ Crash(w)
        BY <3>1, <3>9 DEF Finish, Crash
      <3> QED
        BY <1>2, <3>2, <3>4, <3>5, <3>6, <3>7, <3>8, <3>9 DEF WorkerStep
    <2> QED
      BY <2>1, <2>2, <2>3, <2>5
  <1>3. CASE RetryDue \/ LockExpires \/ Archive
    BY <1>3 DEF RetryDue, LockExpires, Archive
  <1>4. CASE Redeliver
    <2>1. ASSUME NEW w \in Workers PROVE worker'[w].wasOpen = worker[w].wasOpen /\ worker'[w].pc = worker[w].pc
      BY <1>4 DEF Redeliver, WarmupInv, Types, WorkerType, WorkerRecord
    <2> QED
      BY <1>4, <2>1 DEF Redeliver
  <1>5. CASE LoseRedis
    BY <1>5 DEF LoseRedis
  <1>6. CASE \/ \E s \in Students, c \in Classes : Choose(s, c) \/ Save(s, c)
             \/ \E c \in Classes : Count(c)
    BY <1>6 DEF Choose, Save, Count
  <1>7. CASE UNCHANGED vars
    BY <1>7 DEF vars
  <1> QED
    BY <1>1, <1>2, <1>3, <1>4, <1>5, <1>6, <1>7 DEF Next, Environment

\* Students can choose only while the round is open in MySQL, whichever of the
\* administrator and a rebuilding worker opened the gate (OpenRound, Reopen).
THEOREM GateFollowsRound == Spec => []AcceptingRoundIsOpen
  <1>1. Init => GateInv
    BY IdleTypes DEF Init, GateInv
  <1>2. WarmupInv /\ GateInv /\ [Next]_vars => GateInv'
    BY GateStep
  <1>3. GateInv => AcceptingRoundIsOpen
    BY DEF GateInv, AcceptingRoundIsOpen, Accepting
  <1> QED
    BY <1>1, <1>2, <1>3, WarmupInvariant, PTL DEF Spec

-----------------------------------------------------------------------------
(***************************************************************************)
(* Without a failure.                                                      *)
(***************************************************************************)

\* A failure in the next state: nothing is claimed of it.
LEMMA NotCalm ==
    ASSUME Types, CallFails
    PROVE  CalmInv'
  BY DEF Types, TypeOK, CallFails, CalmInv

Calm == CalmControl /\ CalmData

\* Steps of the administrator: configuration changes only before the warm-up is
\* asked for, and one warm-up only.
LEMMA AdminCalm ==
    ASSUME WarmupInv, Calm, AdminNext, CallWorks
    PROVE  Calm'
  <1> USE DEF Calm, CalmControl, CalmData, mysql, index, ledger, history
  <1>1. ASSUME NEW op, NEW c, BeginChange(op, c) PROVE Calm'
    BY <1>1 DEF BeginChange, ConfigurationMutable, Status, WarmupConfigured, WarmupInv, Types, TypeOK, AdminType, States, Taken
  <1>2. CASE BindRoundClass \/ UnbindRoundClass
    BY <1>2, IdleTypes DEF BindRoundClass, UnbindRoundClass, Building, Filling, Taken
  <1>3. CASE MarkQueued
    BY <1>3 DEF MarkQueued, SetStatus, WarmupInv, Types, AdminType, Building, Filling, Taken
  <1>4. CASE Enqueue
    BY <1>4, IdleTypes DEF Enqueue, CallFails, CallWorks, SetStatus, WarmupInv, Types, TypeOK, Taken
  <1>5. CASE CrashBeforeEnqueue
    BY <1>5 DEF CrashBeforeEnqueue, CallFails, CallWorks, WarmupInv, Types, TypeOK
  <1>6. CASE ReadReady
    <2>1. /\ UNCHANGED <<bound, saved, counted, status, lock, active, open, snapshot, seat, held, task, worker, chosen>>
          /\ admin'.pc = "open" /\ status.state = "ready"
      BY <1>6 DEF ReadReady, Status, WarmupInv, Types, TypeOK, AdminType
    <2>2. CalmControl'
      BY <2>1
    <2>3. CalmData'
      BY <2>1 DEF Taken
    <2> QED
      BY <2>2, <2>3
  <1>7. CASE OpenRound
    BY <1>7 DEF OpenRound, WarmupInv, Types, AdminType, Taken
  <1>8. CASE OpenGate
    <2>1. /\ UNCHANGED <<bound, saved, counted, status, lock, active, snapshot, seat, held, task, worker, chosen>>
          /\ admin'.pc = "idle" /\ open' \in {open, active}
      BY <1>8, IdleTypes DEF OpenGate, MarkOpen, WarmupInv, Types, TypeOK
    <2>2. CalmControl'
      BY <2>1
    <2>3. CalmData'
      BY <2>1 DEF Taken
    <2> QED
      BY <2>2, <2>3
  <1> QED
    BY <1>1, <1>2, <1>3, <1>4, <1>5, <1>6, <1>7, <1>8 DEF AdminNext

\* A worker in a calm state is the only one; what it changes, it changes alone.
LEMMA CalmWorker ==
    ASSUME WarmupInv, Calm, NEW w \in Workers, worker[w].pc # "idle"
    PROVE  /\ \A x \in Workers \ {w} : worker[x].pc = "idle"
           /\ OwnsLock(w) /\ task = "running" /\ worker[w].leased
           /\ worker[w].version \in Versions /\ worker[w].version # NoVersion
           /\ worker[w] \in WorkerRecord
           /\ admin.pc \notin {"locked", "enqueue"}
  BY WarmupConstants
     DEF Calm, CalmControl, WarmupInv, Types, WorkerType, VersionsApart, OwnsLock, Building, WarmupConstants, WorkerRecord, WorkerSteps

\* A worker that moves to another step and keeps what it has read.
LEMMA StepEffect ==
    ASSUME WarmupInv, NEW w \in Workers, NEW l \in WorkerSteps, Step(w, l)
    PROVE  /\ worker'[w].pc = l /\ worker'[w].version = worker[w].version
           /\ worker'[w].leased = worker[w].leased /\ worker'[w].classes = worker[w].classes
           /\ worker'[w].counts = worker[w].counts /\ worker'[w].rows = worker[w].rows
           /\ \A x \in Workers \ {w} : worker'[x] = worker[x]
  BY DEF Step, WarmupInv, Types, WorkerType, WorkerRecord

\* Steps of a worker: the first warm-up runs through, a second never starts.
LEMMA WorkerCalm ==
    ASSUME WarmupInv, Calm, NEW w \in Workers, WorkerStep(w), CallWorks
    PROVE  Calm'
  <1> USE DEF mysql, index, ledger, history
  <1>0. /\ ~CallFails /\ worker[w] \in WorkerRecord /\ WorkerType /\ WorkerType'
        /\ active \in Versions \cup {NoVersion} /\ NoVersion \notin Versions
    BY WorkerTypes, WarmupConstants DEF CallWorks, CallFails, WarmupInv, Types, TypeOK, WorkerType, WarmupConstants
  <1>1. ASSUME NEW v \in Versions, TryLock(w, v) PROVE Calm'
    <2>1. /\ worker'[w].pc = "locked" /\ worker'[w].version = v /\ worker'[w].leased
          /\ \A x \in Workers \ {w} : worker'[x] = worker[x]
      BY <1>0, <1>1, IdleTypes DEF TryLock, WorkerType, WorkerRecord
    <2>2. /\ task = "queued" /\ task' = "running" /\ lock' = v /\ active # v
          /\ \A x \in Workers : worker[x].pc = "idle"
          /\ UNCHANGED <<bound, saved, counted, status, active, open, seat, held, admin, chosen>>
          /\ \A u \in Versions \ {v} : snapshot'[u] = snapshot[u]
      BY <1>1 DEF TryLock, NewVersion, Fresh, Calm, CalmControl, WarmupInv, Types, TypeOK
    <2>3. CalmControl'
      BY <2>1, <2>2 DEF Calm, CalmControl, Building
    <2>4. CalmData'
      BY <1>0, <2>1, <2>2 DEF Calm, CalmData, Filling, Taken
    <2> QED
      BY <2>3, <2>4 DEF Calm
  <1>2. CASE LockConflict(w) \/ AlreadyWarmed(w)
    BY <1>2 DEF LockConflict, AlreadyWarmed, LockFree, Status, Calm, CalmControl, WarmupInv, Types, TypeOK
  <1>3. CASE MarkRunning(w)
    <2>1. /\ worker[w].pc = "locked" /\ Step(w, "load") /\ "load" \in WorkerSteps
          /\ status'.state = "running" /\ UNCHANGED <<lock, task>>
          /\ UNCHANGED <<bound, saved, counted, active, open, snapshot, seat, held, admin, chosen>>
      BY <1>0, <1>3 DEF MarkRunning, SetStatus, WorkerSteps
    <2>2. CalmControl'
      BY <2>1, CalmWorker, StepEffect DEF Calm, CalmControl, Building
    <2>3. CalmData'
      BY <2>1, CalmWorker, StepEffect DEF Calm, CalmControl, CalmData, Filling, Taken
    <2> QED
      BY <2>2, <2>3 DEF Calm
  <1>4. CASE LoadSnapshot(w)
    <2>1. worker[w].pc = "load" /\ status.state = "running" /\ bound # {} /\ active = NoVersion
      BY <1>4 DEF LoadSnapshot, Calm, CalmControl, CalmData, Building
    <2>2. worker' = [worker EXCEPT ![w].pc = "write", ![w].classes = bound,
                           ![w].counts = counted, ![w].wasOpen = (round = "open")]
      BY <1>0, <1>4, <2>1 DEF LoadSnapshot
    <2>3. UNCHANGED <<bound, saved, counted, status, lock, task, active, open, snapshot, seat, held, admin, chosen>>
      BY <1>0, <1>4, <2>1 DEF LoadSnapshot
    <2>4. /\ worker'[w].pc = "write" /\ worker'[w].classes = bound /\ worker'[w].counts = counted
          /\ worker'[w].version = worker[w].version /\ worker'[w].leased = worker[w].leased
          /\ \A x \in Workers \ {w} : worker'[x] = worker[x]
      BY <1>0, <2>2 DEF WorkerType, WorkerRecord
    <2>5. CalmControl'
      BY <2>1, <2>3, <2>4, CalmWorker DEF Calm, CalmControl, Building
    <2>6. CalmData'
      BY <2>1, <2>3, <2>4, CalmWorker DEF Calm, CalmControl, CalmData, Filling, Taken
    <2> QED
      BY <2>5, <2>6 DEF Calm
  <1>5. CASE WriteSnapshot(w)
    <2>1. worker[w].pc = "write" /\ status.state = "running" /\ active = NoVersion
      BY <1>5 DEF WriteSnapshot, Calm, CalmControl, Building
    <2>2. /\ Step(w, "page") /\ "page" \in WorkerSteps
          /\ UNCHANGED <<bound, saved, counted, status, lock, task, active, open, held, admin, chosen>>
          /\ seat' = [c \in Classes |-> IF c \in worker[w].classes
                                          THEN Capacity[c] - worker[w].counts[c] ELSE seat[c]]
      BY <1>0, <1>5 DEF WriteSnapshot, WorkerSteps
    <2>3. \A c \in bound : seat'[c] = Capacity[c]
      BY <2>1, <2>2, WarmupConstants DEF Calm, CalmData, WarmupInv, Types, TypeOK, WarmupConstants
    <2>4. CalmControl'
      BY <2>1, <2>2, CalmWorker, StepEffect DEF Calm, CalmControl, Building
    <2>5. CalmData'
      BY <2>1, <2>2, <2>3, CalmWorker, StepEffect DEF Calm, CalmControl, CalmData, Filling, Taken
    <2> QED
      BY <2>4, <2>5 DEF Calm
  <1>6. CASE ReadPage(w)
    <2>1. worker[w].pc = "page" /\ status.state = "running" /\ active = NoVersion
      BY <1>6 DEF ReadPage, Calm, CalmControl, Building
    <2>2. worker' = [worker EXCEPT ![w].pc = "students", ![w].rows = saved]
      BY <1>6, <2>1, CalmWorker DEF ReadPage
    <2>3. UNCHANGED <<bound, saved, counted, status, lock, task, active, open, snapshot, seat, held, admin, chosen>>
      BY <1>6, <2>1, CalmWorker DEF ReadPage
    <2>4. /\ worker'[w].pc = "students" /\ worker'[w].classes = worker[w].classes /\ worker'[w].rows = saved
          /\ worker'[w].version = worker[w].version /\ worker'[w].leased = worker[w].leased
          /\ \A x \in Workers \ {w} : worker'[x] = worker[x]
      BY <1>0, <2>2 DEF WorkerType, WorkerRecord
    <2>5. CalmControl'
      BY <2>1, <2>3, <2>4, CalmWorker DEF Calm, CalmControl, Building
    <2>6. CalmData'
      BY <2>1, <2>3, <2>4, CalmWorker DEF Calm, CalmControl, CalmData, Filling, Taken
    <2> QED
      BY <2>5, <2>6 DEF Calm
  <1>7. CASE WriteStudents(w)
    <2>1. worker[w].pc = "students" /\ status.state = "running" /\ active = NoVersion
      BY <1>7 DEF WriteStudents, Calm, CalmControl, Building
    <2>2. /\ Step(w, "renew") /\ "renew" \in WorkerSteps
          /\ UNCHANGED <<bound, saved, counted, status, lock, task, active, open, snapshot, seat, admin, chosen>>
          /\ held' = [s \in Students |-> IF s \in Page(w) THEN worker[w].rows[s] ELSE held[s]]
      BY <1>0, <1>7 DEF WriteStudents, WorkerSteps
    <2>3. held' = chosen'
      <3>1. chosen \in [Students -> SUBSET Classes]
        BY DEF WarmupInv, Types, TypeOK
      <3>2. \A s \in Students : held'[s] = chosen[s]
        BY <2>1, <2>2 DEF Calm, CalmData
      <3> QED
        BY <2>2, <3>1, <3>2
    <2>4. CalmControl'
      BY <2>1, <2>2, CalmWorker, StepEffect DEF Calm, CalmControl, Building
    <2>5. CalmData'
      BY <2>1, <2>2, <2>3, CalmWorker, StepEffect DEF Calm, CalmControl, CalmData, Filling, Taken
    <2> QED
      BY <2>4, <2>5 DEF Calm
  <1>8. CASE NextPage(w)
    <2>1. worker[w].pc = "renew" /\ status.state = "running" /\ active = NoVersion
      BY <1>8 DEF NextPage, Calm, CalmControl, Building
    <2>2. worker' = [worker EXCEPT ![w].after = Last(Page(w)),
                             ![w].pc = IF MorePages(w) THEN "page" ELSE "activate"]
      BY <1>8, <2>1, CalmWorker DEF NextPage
    <2>3. UNCHANGED <<bound, saved, counted, status, lock, task, active, open, snapshot, seat, held, admin, chosen>>
      BY <1>8, <2>1, CalmWorker DEF NextPage
    <2>4. /\ worker'[w].pc \in {"page", "activate"} /\ worker'[w].classes = worker[w].classes
          /\ worker'[w].version = worker[w].version /\ worker'[w].leased = worker[w].leased
          /\ \A x \in Workers \ {w} : worker'[x] = worker[x]
      BY <1>0, <2>2 DEF WorkerType, WorkerRecord
    <2>5. CalmControl'
      BY <2>1, <2>3, <2>4, CalmWorker DEF Calm, CalmControl, Building
    <2>6. CalmData'
      BY <2>1, <2>3, <2>4, CalmWorker DEF Calm, CalmControl, CalmData, Filling, Taken
    <2> QED
      BY <2>5, <2>6 DEF Calm
  <1>9. CASE NoMoreStudents(w)
    <2>1. worker[w].pc = "page" /\ status.state = "running" /\ active = NoVersion
      BY <1>9 DEF NoMoreStudents, Calm, CalmControl, Building
    <2>2. /\ Step(w, "activate") /\ "activate" \in WorkerSteps
          /\ UNCHANGED <<bound, saved, counted, status, lock, task, active, open, snapshot, seat, held, admin, chosen>>
      BY <1>9 DEF NoMoreStudents, WorkerSteps
    <2>3. CalmControl'
      BY <2>1, <2>2, CalmWorker, StepEffect DEF Calm, CalmControl, Building
    <2>4. CalmData'
      BY <2>1, <2>2, CalmWorker, StepEffect DEF Calm, CalmControl, CalmData, Filling, Taken
    <2> QED
      BY <2>3, <2>4 DEF Calm
  <1>10. CASE Activate(w)
    <2>1. worker[w].pc = "activate" /\ status.state = "running" /\ active = NoVersion
      BY <1>10 DEF Activate, Calm, CalmControl, Building
    <2>2. /\ Step(w, AfterActivate(w)) /\ AfterActivate(w) \in {"reopen", "done"}
          /\ status'.state = "ready" /\ status'.version = worker[w].version /\ active' = worker[w].version
          /\ UNCHANGED <<bound, saved, counted, lock, task, open, snapshot, seat, held, admin, chosen>>
      BY <1>0, <1>10 DEF Activate, AfterActivate, SetStatus
    <2>3. /\ worker'[w].pc \in {"reopen", "done"} /\ worker'[w].version = worker[w].version
          /\ worker'[w].leased = worker[w].leased
          /\ \A x \in Workers \ {w} : worker'[x] = worker[x]
      <3>1. AfterActivate(w) \in WorkerSteps
        BY <2>2 DEF WorkerSteps
      <3> QED
        BY <2>2, <3>1, StepEffect
    <2>4. CalmControl'
      BY <2>1, <2>2, <2>3, CalmWorker DEF Calm, CalmControl, Building
    <2>5. \A c \in bound : seat[c] = Capacity[c] - Taken(c)
      <3>1. \A c \in Classes : Taken(c) = 0 /\ Capacity[c] \in Nat
        BY <2>1, FS_EmptySet, WarmupConstants DEF Calm, CalmData, Taken, WarmupConstants
      <3> QED
        BY <2>1, <3>1 DEF Calm, CalmData, Filling, WarmupInv, Types, TypeOK
    <2>6. snapshot[worker[w].version] = bound
      BY <2>1 DEF Calm, CalmData, WarmupInv, Filled, Whole, Filling
    <2>7. CalmData'
      BY <2>1, <2>2, <2>3, <2>5, <2>6, CalmWorker DEF Calm, CalmControl, CalmData, Filling, Taken
    <2> QED
      BY <2>4, <2>7 DEF Calm
  <1>11. CASE Reopen(w)
    <2>1. worker[w].pc = "reopen" /\ status.state = "ready" /\ active = worker[w].version
      BY <1>11 DEF Reopen, Calm, CalmControl, Building
    <2>2. /\ Step(w, "done") /\ "done" \in WorkerSteps /\ open' \in {open, active}
          /\ UNCHANGED <<bound, saved, counted, status, lock, task, active, snapshot, seat, held, admin, chosen>>
      BY <1>0, <1>11, <2>1 DEF Reopen, MarkOpen, WorkerSteps
    <2>3. CalmControl'
      BY <2>1, <2>2, CalmWorker, StepEffect DEF Calm, CalmControl, Building
    <2>4. CalmData'
      BY <2>1, <2>2, CalmWorker, StepEffect DEF Calm, CalmControl, CalmData, Filling, Taken
    <2> QED
      BY <2>3, <2>4 DEF Calm
  <1>12. CASE Finish(w)
    <2>1. worker[w].pc = "done" /\ status.state = "ready"
      BY <1>12 DEF Finish, Calm, CalmControl
    <2>2. /\ worker'[w] = Idle /\ \A x \in Workers \ {w} : worker'[x] = worker[x]
          /\ lock' = NoVersion /\ task' = "none"
          /\ UNCHANGED <<bound, saved, counted, status, active, open, snapshot, seat, held, admin, chosen>>
      BY <1>0, <1>12, <2>1, CalmWorker DEF Finish, ReleaseLock, Report, OwnsLock, WorkerType
    <2>3. \A x \in Workers : worker'[x].pc = "idle"
      BY <2>1, <2>2, CalmWorker, IdleTypes
    <2>4. CalmControl'
      BY <2>1, <2>2, <2>3 DEF Calm, CalmControl, Building
    <2>5. CalmData'
      BY <2>1, <2>2, <2>3 DEF Calm, CalmControl, CalmData, Filling, Taken
    <2> QED
      BY <2>4, <2>5 DEF Calm
  <1> QED
    BY <1>1, <1>2, <1>3, <1>4, <1>5, <1>6, <1>7, <1>8, <1>9, <1>10, <1>11, <1>12 DEF WorkerStep

\* Students choose seats one by one; the projection of what they chose changes
\* nothing that a warm-up would read, because none follows.
LEMMA OtherCalm ==
    ASSUME WarmupInv, Calm, CallWorks,
           \/ RetryDue \/ LockExpires
           \/ \E s \in Students, c \in Classes : Choose(s, c) \/ Save(s, c)
           \/ \E c \in Classes : Count(c)
    PROVE  Calm'
  <1> USE DEF mysql, index, ledger, history
  <1>0. ~CallFails
    BY DEF CallWorks, CallFails, WarmupInv, Types, TypeOK
  <1>1. CASE RetryDue
    BY <1>1 DEF RetryDue, Calm, CalmControl
  <1>2. CASE LockExpires
    <2>1. \A w \in Workers : worker[w].version # lock
      BY <1>0, <1>2 DEF LockExpires
    <2>2. \A w \in Workers : worker[w].pc = "idle"
      BY <2>1 DEF Calm, CalmControl
    <2>3. /\ lock' = NoVersion
          /\ UNCHANGED <<bound, saved, counted, status, active, open, snapshot, seat, held, task, worker, admin, chosen>>
      BY <1>2 DEF LockExpires
    <2>4. CalmControl'
      BY <2>2, <2>3 DEF Calm, CalmControl, Building
    <2>5. CalmData'
      BY <2>2, <2>3 DEF Calm, CalmData, Filling, Taken
    <2> QED
      BY <2>4, <2>5 DEF Calm
  <1>3. ASSUME NEW s \in Students, NEW c \in Classes, Choose(s, c) PROVE Calm'
    <2>1. /\ active # NoVersion /\ status.state = "ready" /\ seat[c] > 0
          /\ seat' = [seat EXCEPT ![c] = @ - 1]
          /\ held' = [held EXCEPT ![s] = @ \cup {c}] /\ chosen' = [chosen EXCEPT ![s] = @ \cup {c}]
          /\ c \notin chosen[s]
          /\ UNCHANGED <<bound, saved, counted, status, lock, active, open, snapshot, task, worker, admin>>
      BY <1>3 DEF Choose, Accepting, Calm, CalmControl, CalmData
    <2>2. chosen \in [Students -> SUBSET Classes] /\ seat \in [Classes -> Nat \cup {-1}] /\ bound \subseteq Classes
      BY DEF WarmupInv, Types, TypeOK
    <2>3. Taken(c)' = Taken(c) + 1 /\ Taken(c) \in Nat
      <3>1. {t \in Students : c \in chosen'[t]} = {t \in Students : c \in chosen[t]} \cup {s}
        BY <2>1, <2>2
      <3>2. IsFiniteSet({t \in Students : c \in chosen[t]})
        BY WarmupConstants, FS_Subset DEF WarmupConstants
      <3> QED
        BY <2>1, <3>1, <3>2, FS_AddElement, FS_CardinalityType DEF Taken
    <2>4. \A d \in Classes \ {c} : Taken(d)' = Taken(d)
      <3> TAKE d \in Classes \ {c}
      <3>1. {t \in Students : d \in chosen'[t]} = {t \in Students : d \in chosen[t]}
        BY <2>1, <2>2
      <3> QED
        BY <3>1 DEF Taken
    <2>5. \A d \in bound : seat'[d] = Capacity[d] - Taken(d)'
      <3> TAKE d \in bound
      <3>1. seat[d] = Capacity[d] - Taken(d) /\ d \in Classes /\ Capacity[d] \in Nat
        BY <2>1, <2>2, WarmupConstants DEF Calm, CalmData, WarmupConstants
      <3> QED
        BY <2>1, <2>2, <2>3, <2>4, <3>1
    <2>6. CalmControl'
      BY <2>1 DEF Calm, CalmControl
    <2>7. \A w \in Workers : worker[w].pc \notin Filling \cup {"write"}
      BY <2>1 DEF Calm, CalmControl, Filling, Building
    <2>8. held' = chosen'
      BY <2>1 DEF Calm, CalmData
    <2>9. CalmData'
      BY <2>1, <2>5, <2>7, <2>8 DEF Calm, CalmData, Filling
    <2> QED
      BY <2>6, <2>9 DEF Calm
  <1>4. ASSUME NEW s \in Students, NEW c \in Classes, Save(s, c) PROVE Calm'
    <2>1. /\ c \in chosen[s]
          /\ UNCHANGED <<bound, counted, status, lock, active, open, snapshot, seat, held, task, worker, admin, chosen>>
      BY <1>4 DEF Save
    <2>2. active # NoVersion
      BY <2>1 DEF Calm, CalmData
    <2>3. CalmControl' /\ CalmData'
      BY <2>1, <2>2 DEF Calm, CalmControl, CalmData, Taken
    <2> QED
      BY <2>3 DEF Calm
  <1>5. ASSUME NEW c \in Classes, Count(c) PROVE Calm'
    <2>1. /\ counted[c] < Cardinality({s \in Students : c \in saved[s]})
          /\ UNCHANGED <<bound, saved, status, lock, active, open, snapshot, seat, held, task, worker, admin, chosen>>
      BY <1>5 DEF Count
    <2>2. active # NoVersion
      <3> SUFFICES ASSUME active = NoVersion PROVE FALSE
        OBVIOUS
      <3>1. {s \in Students : c \in saved[s]} = {} /\ counted[c] = 0
        BY DEF Calm, CalmData
      <3> QED
        BY <2>1, <3>1, FS_EmptySet
    <2>3. CalmControl' /\ CalmData'
      BY <2>1, <2>2 DEF Calm, CalmControl, CalmData, Taken
    <2> QED
      BY <2>3 DEF Calm
  <1> QED
    BY <1>1, <1>2, <1>3, <1>4, <1>5

\* Every step keeps the invariant: a call that fails ends the calm.
LEMMA CalmStep ==
    ASSUME WarmupInv, CalmInv, [Next]_vars
    PROVE  CalmInv'
  <1>1. CASE CallFails
    BY <1>1, NotCalm DEF WarmupInv
  <1>2. CASE ~CallFails
    <2>1. CASE UNCHANGED vars
      BY <2>1 DEF vars, CalmInv, CalmControl, CalmData, Taken
    <2>2. CASE Next
      <3>1. CallWorks
        BY <1>2, <2>2
           DEF Next, AdminNext, WorkerStep, Environment, CallWorks, BeginChange, BindRoundClass, UnbindRoundClass,
               MarkQueued, Enqueue, CrashBeforeEnqueue, ReadReady, OpenRound, OpenGate, TryLock, LockConflict,
               AlreadyWarmed, MarkRunning, LoadSnapshot, WriteSnapshot, ReadPage, WriteStudents, NextPage,
               NoMoreStudents, Activate, Reopen, Finish, Crash, Redeliver, RetryDue, Archive, LockExpires,
               Choose, Save, Count, LoseRedis
      <3>2. ~(\/ Redeliver \/ Archive \/ LoseRedis \/ \E w \in Workers : Crash(w))
        BY <1>2 DEF Redeliver, Archive, LoseRedis, Crash
      <3>3. Calm => Calm'
        BY <2>2, <3>1, <3>2, AdminCalm, WorkerCalm, OtherCalm DEF Next, Environment
      <3> QED
        BY <3>1, <3>3 DEF CalmInv, Calm, CallWorks
    <2> QED
      BY <2>1, <2>2
  <1> QED
    BY <1>1, <1>2

\* As long as no call fails and no data is lost, students choose among the
\* bound classes and every seat that is not taken is there (Warmup,
\* WriteSnapshot, ensureConfigurationMutable).
THEOREM ExactWhenCalm == Spec => []ExactWithoutFailures
  <1>1. Init => CalmInv
    <2> SUFFICES ASSUME Init PROVE CalmInv
      OBVIOUS
    <2>1. \A w \in Workers : worker[w].pc = "idle"
      BY IdleTypes DEF Init
    <2>2. CalmControl
      BY <2>1, IdleTypes DEF Init, CalmControl, Building
    <2>3. CalmData
      BY <2>1, IdleTypes DEF Init, CalmData, Filling
    <2> QED
      BY <2>2, <2>3 DEF CalmInv
  <1>2. WarmupInv /\ CalmInv /\ [Next]_vars => CalmInv'
    BY CalmStep
  <1>3. CalmInv => ExactWithoutFailures
    BY DEF CalmInv, CalmData, ExactWithoutFailures, Accepting
  <1> QED
    BY <1>1, <1>2, <1>3, WarmupInvariant, PTL DEF Spec

-----------------------------------------------------------------------------
(***************************************************************************)
(* The eligibility rules the worker evaluates, for all slots, rules and    *)
(* students.                                                               *)
(***************************************************************************)

Slot == [day : Int, startWeek : Int, endWeek : Int,
         startSection : Int, endSection : Int]

\* The rule on ranges and the cells in common are the same thing for two slots
\* that the warm-up accepts (scheduleSlotsConflict, scheduleCells).
LEMMA SlotsAgree ==
    ASSUME NEW s \in Slot, NEW t \in Slot, ValidSlot(s), ValidSlot(t)
    PROVE  Conflicts(s, t) <=> SlotCells(s) \cap SlotCells(t) # {}
  <1>1. ASSUME Conflicts(s, t) PROVE SlotCells(s) \cap SlotCells(t) # {}
    <2>1. PICK w \in Int : /\ s.startWeek <= w /\ w <= s.endWeek
                           /\ t.startWeek <= w /\ w <= t.endWeek
      <3>1. CASE s.startWeek <= t.startWeek
        BY <1>1, <3>1 DEF Slot, Conflicts, ValidSlot
      <3>2. CASE t.startWeek <= s.startWeek
        BY <1>1, <3>2 DEF Slot, Conflicts, ValidSlot
      <3> QED
        BY <3>1, <3>2 DEF Slot
    <2>2. PICK n \in Int : /\ s.startSection <= n /\ n <= s.endSection
                           /\ t.startSection <= n /\ n <= t.endSection
      <3>1. CASE s.startSection <= t.startSection
        BY <1>1, <3>1 DEF Slot, Conflicts, ValidSlot
      <3>2. CASE t.startSection <= s.startSection
        BY <1>1, <3>2 DEF Slot, Conflicts, ValidSlot
      <3> QED
        BY <3>1, <3>2 DEF Slot
    <2>3. <<w, s.day, n>> \in SlotCells(s)
      BY <2>1, <2>2 DEF SlotCells, Slot
    <2>4. <<w, s.day, n>> \in SlotCells(t)
      BY <1>1, <2>1, <2>2 DEF SlotCells, Slot, Conflicts
    <2> QED
      BY <2>3, <2>4
  <1>2. ASSUME SlotCells(s) \cap SlotCells(t) # {} PROVE Conflicts(s, t)
    <2>1. PICK x : x \in SlotCells(s) /\ x \in SlotCells(t)
      BY <1>2
    <2>2. /\ x[1] \in s.startWeek .. s.endWeek /\ x[1] \in t.startWeek .. t.endWeek
          /\ x[2] = s.day /\ x[2] = t.day
          /\ x[3] \in s.startSection .. s.endSection
          /\ x[3] \in t.startSection .. t.endSection
      BY <2>1 DEF SlotCells
    <2> QED
      BY <2>2 DEF Conflicts, Slot
  <1> QED
    BY <1>1, <1>2

\* The two forms of the timetable agree: the domain's test on slots finds a
\* conflict exactly when the commit script finds a cell of the class among the
\* cells of the student (SchedulesConflict, scheduleCells, commitSelectionScript).
THEOREM TimetableAgrees ==
    ASSUME NEW A \in SUBSET Slot, NEW B \in SUBSET Slot,
           \A s \in A \cup B : ValidSlot(s)
    PROVE  SchedulesConflict(A, B) <=> ScheduleCells(A) \cap ScheduleCells(B) # {}
  <1>1. ASSUME SchedulesConflict(A, B)
        PROVE  ScheduleCells(A) \cap ScheduleCells(B) # {}
    <2>1. PICK s \in A, t \in B : Conflicts(s, t)
      BY <1>1 DEF SchedulesConflict
    <2>2. PICK x : x \in SlotCells(s) /\ x \in SlotCells(t)
      BY <2>1, SlotsAgree
    <2>3. x \in ScheduleCells(A) /\ x \in ScheduleCells(B)
      BY <2>2 DEF ScheduleCells
    <2> QED
      BY <2>3
  <1>2. ASSUME ScheduleCells(A) \cap ScheduleCells(B) # {}
        PROVE  SchedulesConflict(A, B)
    <2>1. PICK x : x \in ScheduleCells(A) /\ x \in ScheduleCells(B)
      BY <1>2
    <2>2. PICK s \in A : x \in SlotCells(s)
      BY <2>1 DEF ScheduleCells
    <2>3. PICK t \in B : x \in SlotCells(t)
      BY <2>1 DEF ScheduleCells
    <2>4. SlotCells(s) \cap SlotCells(t) # {}
      BY <2>2, <2>3
    <2>5. Conflicts(s, t)
      BY <2>4, SlotsAgree
    <2> QED
      BY <2>5 DEF SchedulesConflict
  <1> QED
    BY <1>1, <1>2

\* An index built from older achievements errs on the safe side only: a
\* student it lets in is let in by every larger set of achievements
\* (StaticEligibilityPolicy.Evaluate).
THEOREM EligibilityIsMonotone ==
    ASSUME NEW old, NEW new, NEW rule,
           new.state = old.state, new.grade = old.grade, new.major = old.major,
           old.achievements \subseteq new.achievements,
           Evaluate(old, rule)
    PROVE  Evaluate(new, rule)
  BY DEF Evaluate, PrerequisitesSatisfied
=============================================================================
