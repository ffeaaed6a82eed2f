---------------------------- MODULE VideoUpload ----------------------------
(***************************************************************************)
(* The uploads of one video position of a course.  An upload lives in two  *)
(* stores that no transaction spans: a multipart session and the merged    *)
(* object in the object store, a row of course_video_upload and the row of *)
(* course_video in MySQL.  Requests start and complete uploads, a periodic *)
(* job removes what expired; every step between two calls may be the last  *)
(* one of its process.                                                     *)
(*                                                                         *)
(* Every attempt has an object key of its own, so the attempt stands for   *)
(* its key and for its session.                                            *)
(***************************************************************************)
EXTENDS Integers, FiniteSets

CONSTANTS
    MaxUploads,    \* bound on the attempts
    Parts,         \* the part numbers a file of this size has
    Completers,    \* requests that complete an upload, at most so many at once
    Cleaners,      \* processes that run the cleanup job
    Limit,         \* uploads the job takes in one batch
    MaxFailures    \* bound on crashes, errors and lost replies

ASSUME VideoConstants ==
    /\ MaxUploads \in Nat /\ MaxFailures \in Nat
    /\ Limit \in Nat \ {0}
    /\ IsFiniteSet(Parts)

VARIABLES
    video,      \* MySQL: the row of the position, [status, key]
    upload,     \* MySQL: attempt |-> status of its row
    session,    \* object store: attempt |-> its multipart session
    parts,      \* object store: attempt |-> parts stored in the session
    object,     \* object store: keys that hold an object
    expired,    \* attempts whose expiry and grace period have passed
    completer,  \* request |-> its step and its attempt
    cleaner,    \* job |-> its step, the rest of its batch, its attempt
    failures    \* crashes, errors and lost replies so far

uploadVars == <<video, upload, session, parts, object, expired, completer, cleaner, failures>>
rows == <<video, upload>>
store == <<session, parts, object>>

Uploads == 1 .. MaxUploads
NoUpload == 0
NoVideo == [status |-> "none", key |-> NoUpload]
Idle == [pc |-> "idle", upload |-> NoUpload]
Resting == [pc |-> "idle", todo |-> {}, upload |-> NoUpload]

UploadStatuses == {"none", "created", "rejected", "pending", "promoted", "failed", "cleaned"}

UploadTypeOK ==
    /\ video \in [status : {"none", "uploading", "ready", "failed"}, key : Uploads \cup {NoUpload}]
    /\ upload \in [Uploads -> UploadStatuses]
    /\ session \in [Uploads -> {"none", "open", "merged", "aborted"}]
    /\ parts \in [Uploads -> SUBSET Parts]
    /\ object \subseteq Uploads /\ expired \subseteq Uploads
    /\ completer \in [Completers -> [pc : {"idle", "list", "merge", "stat", "promote"},
                                     upload : Uploads \cup {NoUpload}]]
    /\ cleaner \in [Cleaners -> [pc : {"idle", "pick", "prepare", "abort", "delete", "finalize"},
                                 todo : SUBSET Uploads, upload : Uploads \cup {NoUpload}]]
    /\ failures \in 0 .. MaxFailures

UploadInit ==
    /\ video = NoVideo
    /\ upload = [u \in Uploads |-> "none"]
    /\ session = [u \in Uploads |-> "none"]
    /\ parts = [u \in Uploads |-> {}]
    /\ object = {} /\ expired = {}
    /\ completer = [c \in Completers |-> Idle]
    /\ cleaner = [k \in Cleaners |-> Resting]
    /\ failures = 0

Failure == failures < MaxFailures /\ failures' = failures + 1

-----------------------------------------------------------------------------
(* Starting an upload, and the client's PUTs of its parts. *)

Aborted(u) == [session EXCEPT ![u] = IF @ = "open" THEN "aborted" ELSE @]

\* StartCourseVideoUpload opens the session and signs the part URLs before the
\* transaction.  The attempts are numbered in the order of their expiry.
CreateMultipartUpload(u) ==
    /\ upload[u] = "none"
    /\ \A v \in 1 .. (u - 1) : upload[v] # "none"
    /\ upload' = [upload EXCEPT ![u] = "created"]
    /\ session' = [session EXCEPT ![u] = "open"]
    /\ UNCHANGED <<video, parts, object, expired, completer, cleaner, failures>>

\* A video that is ready is never restarted.
RestartUpload == video.status \in {"none", "uploading", "failed"}

\* The rows after the transaction: the video points at the new key, the
\* pending attempts it supersedes have failed.
Started(u) == [v \in Uploads |-> IF v = u THEN "pending"
                                 ELSE IF upload[v] = "pending" THEN "failed"
                                 ELSE upload[v]]

StartCourseVideoUpload(u) ==
    /\ upload[u] = "created"
    /\ RestartUpload
    /\ video' = [status |-> "uploading", key |-> u]
    /\ upload' = Started(u)
    /\ UNCHANGED <<store, expired, completer, cleaner, failures>>

\* The transaction is refused, or fails: the session is aborted.
StartRejected(u) ==
    /\ upload[u] = "created"
    /\ \/ ~RestartUpload /\ UNCHANGED failures
       \/ RestartUpload /\ Failure
    /\ upload' = [upload EXCEPT ![u] = "rejected"]
    /\ session' = Aborted(u)
    /\ UNCHANGED <<video, parts, object, expired, completer, cleaner>>

\* The transaction commits, its reply is lost: the session of a pending
\* attempt is aborted.
StartReplyLost(u) ==
    /\ upload[u] = "created"
    /\ RestartUpload
    /\ Failure
    /\ video' = [status |-> "uploading", key |-> u]
    /\ upload' = Started(u)
    /\ session' = Aborted(u)
    /\ UNCHANGED <<parts, object, expired, completer, cleaner>>

\* The process dies before the transaction, or the compensation fails: the
\* session stays, and no row tells of it.
StartAbandoned(u) ==
    /\ upload[u] = "created"
    /\ Failure
    /\ upload' = [upload EXCEPT ![u] = "rejected"]
    /\ UNCHANGED <<video, store, expired, completer, cleaner>>

\* The client puts a part with a signed URL.  PresignCourseVideoUploadParts
\* signs for a pending attempt; the URL outlives the check.
UploadPart(u, p) ==
    /\ upload[u] \notin {"none", "created", "rejected"}
    /\ session[u] = "open"
    /\ p \notin parts[u]
    /\ parts' = [parts EXCEPT ![u] = @ \cup {p}]
    /\ UNCHANGED <<rows, session, object, expired, completer, cleaner, failures>>

-----------------------------------------------------------------------------
(* CompleteCourseVideoUpload. *)

AtC(c, pc) == completer[c].pc = pc
StepC(c, pc) == completer' = [completer EXCEPT ![c].pc = pc]
EndC(c) == completer' = [completer EXCEPT ![c] = Idle]

\* The attempt is read without a lock; only a pending one goes on.
BeginComplete(c, u) ==
    /\ AtC(c, "idle")
    /\ upload[u] = "pending"
    /\ completer' = [completer EXCEPT ![c] = [pc |-> "list", upload |-> u]]
    /\ UNCHANGED <<rows, store, expired, cleaner, failures>>

\* A missing session is the sign of a merge whose request went no further.
ListUploadedParts(c) ==
    LET u == completer[c].upload IN
    /\ AtC(c, "list")
    /\ \/ session[u] # "open" /\ StepC(c, "stat")
       \/ session[u] = "open" /\ parts[u] = Parts /\ StepC(c, "merge")
       \/ session[u] = "open" /\ parts[u] # Parts /\ EndC(c)
    /\ UNCHANGED <<rows, store, expired, cleaner, failures>>

\* A session that is gone by now is no error.
CompleteMultipartUpload(c) ==
    LET u == completer[c].upload IN
    /\ AtC(c, "merge")
    /\ IF session[u] = "open"
         THEN /\ session' = [session EXCEPT ![u] = "merged"]
              /\ object' = object \cup {u}
         ELSE UNCHANGED <<session, object>>
    /\ StepC(c, "stat")
    /\ UNCHANGED <<rows, parts, expired, cleaner, failures>>

StatObject(c) ==
    /\ AtC(c, "stat")
    /\ IF completer[c].upload \in object THEN StepC(c, "promote") ELSE EndC(c)
    /\ UNCHANGED <<rows, store, expired, cleaner, failures>>

\* Fault: what was read before the calls to the object store is trusted.
EnsureCompletesFault(u) == TRUE

\* Between the check of the object and the transaction another attempt may
\* have started or the cleanup may have begun.
EnsureCompletes(u) == upload[u] = "pending" /\ video.key = u

Promote(c) ==
    LET u == completer[c].upload IN
    /\ AtC(c, "promote")
    /\ IF upload[u] # "promoted" /\ EnsureCompletes(u) /\ video.status = "uploading"
         THEN /\ video' = [video EXCEPT !.status = "ready"]
              /\ upload' = [upload EXCEPT ![u] = "promoted"]
         ELSE UNCHANGED rows
    /\ EndC(c)
    /\ UNCHANGED <<store, expired, cleaner, failures>>

\* An error of a call, or the end of the process.
CompleteFails(c) ==
    /\ ~AtC(c, "idle")
    /\ Failure
    /\ EndC(c)
    /\ UNCHANGED <<rows, store, expired, cleaner>>

-----------------------------------------------------------------------------
(* CleanupExpiredCourseVideoUploads. *)

\* Expiry and grace period of an attempt have passed.
Expire(u) ==
    /\ upload[u] # "none" /\ u \notin expired
    /\ \A v \in 1 .. (u - 1) : v \in expired
    /\ expired' = expired \cup {u}
    /\ UNCHANGED <<rows, store, completer, cleaner, failures>>

\* Fault: only a pending attempt is cleaned, an attempt that failed stays.
EligibleForCleanupFault(u) == u \in expired /\ upload[u] = "pending"

EligibleForCleanup(u) == u \in expired /\ upload[u] \in {"pending", "failed"}

AtK(k, pc) == cleaner[k].pc = pc
StepK(k, pc) == cleaner' = [cleaner EXCEPT ![k].pc = pc]
NextK(k) == cleaner' = [cleaner EXCEPT ![k].pc = "pick", ![k].upload = NoUpload]

\* ListExpiredCourseVideoUploads: the oldest ones, at most Limit of them.
ListExpired(k) ==
    LET due == {u \in Uploads : EligibleForCleanup(u)}
        batch == {u \in due : Cardinality({v \in due : v < u}) < Limit}
    IN /\ AtK(k, "idle")
       /\ batch # {}
       /\ cleaner' = [cleaner EXCEPT ![k] = [pc |-> "pick", todo |-> batch, upload |-> NoUpload]]
       /\ UNCHANGED <<rows, store, expired, completer, failures>>

\* The next attempt of the batch; one that is no longer eligible is skipped.
PickExpired(k) ==
    /\ AtK(k, "pick")
    /\ IF cleaner[k].todo = {}
         THEN cleaner' = [cleaner EXCEPT ![k] = Resting]
         ELSE LET u == CHOOSE v \in cleaner[k].todo : \A w \in cleaner[k].todo : v <= w
              IN cleaner' = [cleaner EXCEPT
                   ![k] = [pc |-> IF EligibleForCleanup(u) THEN "prepare" ELSE "pick",
                           todo |-> @.todo \ {u},
                           upload |-> IF EligibleForCleanup(u) THEN u ELSE NoUpload]]
    /\ UNCHANGED <<rows, store, expired, completer, failures>>

\* Fault: the video stays as it is.
FailedVideoFault(u) == video

\* PrepareCourseVideoUploadCleanup takes the right to complete from the
\* attempt; the video that points at it fails with it.  The object of a video
\* that is ready is never removed.
FailedVideo(u) == IF video.key = u /\ video.status = "uploading"
                    THEN [video EXCEPT !.status = "failed"]
                    ELSE video

PrepareCleanup(k) ==
    LET u == cleaner[k].upload IN
    /\ AtK(k, "prepare")
    /\ IF EligibleForCleanup(u) /\ ~(video.key = u /\ video.status = "ready")
         THEN /\ video' = FailedVideo(u)
              /\ upload' = [upload EXCEPT ![u] = "failed"]
              /\ StepK(k, "abort")
         ELSE NextK(k) /\ UNCHANGED rows
    /\ UNCHANGED <<store, expired, completer, failures>>

\* Fault: the object goes before the session.
AbortFirstFault(k) ==
    LET u == cleaner[k].upload IN
    \/ /\ AtK(k, "abort")
       /\ object' = object \ {u}
       /\ StepK(k, "delete")
       /\ UNCHANGED session
    \/ /\ AtK(k, "delete")
       /\ session' = Aborted(u)
       /\ StepK(k, "finalize")
       /\ UNCHANGED object

\* The session goes first: once it is gone no merge can bring the object back.
AbortFirst(k) ==
    LET u == cleaner[k].upload IN
    \/ /\ AtK(k, "abort")
       /\ session' = Aborted(u)
       /\ StepK(k, "delete")
       /\ UNCHANGED object
    \/ /\ AtK(k, "delete")
       /\ object' = object \ {u}
       /\ StepK(k, "finalize")
       /\ UNCHANGED session

RemoveFromStore(k) ==
    /\ AbortFirst(k)
    /\ UNCHANGED <<rows, parts, expired, completer, failures>>

\* FinalizeCleanup
Finalize(k) ==
    LET u == cleaner[k].upload IN
    /\ AtK(k, "finalize")
    /\ upload' = [upload EXCEPT ![u] = IF @ = "failed" THEN "cleaned" ELSE @]
    /\ NextK(k)
    /\ UNCHANGED <<video, store, expired, completer, failures>>

\* The error of one attempt leaves the rest of the batch to be done; the end of
\* the process does not.
CleanupFails(k) ==
    /\ ~AtK(k, "idle")
    /\ Failure
    /\ \/ ~AtK(k, "pick") /\ NextK(k)
       \/ cleaner' = [cleaner EXCEPT ![k] = Resting]
    /\ UNCHANGED <<rows, store, expired, completer>>

-----------------------------------------------------------------------------
CompleteStep(c) ==
    \/ ListUploadedParts(c) \/ CompleteMultipartUpload(c) \/ StatObject(c) \/ Promote(c)
    \/ CompleteFails(c)

CleanerStep(k) ==
    ListExpired(k) \/ PickExpired(k) \/ PrepareCleanup(k) \/ RemoveFromStore(k) \/ Finalize(k)

UploadNext ==
    \/ \E u \in Uploads :
         \/ CreateMultipartUpload(u) \/ StartCourseVideoUpload(u) \/ StartRejected(u)
         \/ StartReplyLost(u) \/ StartAbandoned(u) \/ Expire(u)
         \/ \E p \in Parts : UploadPart(u, p)
         \/ \E c \in Completers : BeginComplete(c, u)
    \/ \E c \in Completers : CompleteStep(c)
    \/ \E k \in Cleaners : CleanerStep(k) \/ CleanupFails(k)

UploadSpec == UploadInit /\ [][UploadNext]_uploadVars

\* Time passes, and the task queue runs the cleanup job every few minutes.
\* Nothing obliges a client to upload or to complete anything.
Fairness ==
    /\ \A u \in Uploads : WF_uploadVars(Expire(u))
    /\ \A k \in Cleaners : WF_uploadVars(CleanerStep(k))

FairSpec == UploadSpec /\ Fairness

-----------------------------------------------------------------------------
\* A video that students can play has its object: no cleanup that overlaps
\* the completion, and none that begins later, removes it, and the attempt is
\* recorded as promoted.
ReadyHasObject ==
    video.status = "ready" => video.key \in object /\ upload[video.key] = "promoted"

\* An attempt marked as cleaned has left nothing in the object store, whatever
\* completions were under way when it was cleaned.
CleanedHasNothing ==
    \A u \in Uploads : upload[u] = "cleaned" => session[u] # "open" /\ u \notin object

\* A video that is being uploaded points at the one attempt that can still
\* complete it, so it never waits for an attempt that was given up.
UploadingIsUnderWay ==
    \A u \in Uploads :
      (video.status = "uploading" /\ video.key = u) <=> upload[u] = "pending"

\* Every attempt that was recorded ends as the video of the position, or is
\* removed from the object store, however often processes die on the way.
LeftoversRemoved ==
    \A u \in Uploads :
      upload[u] \in {"pending", "failed"} ~> upload[u] \in {"promoted", "cleaned"}
=============================================================================
