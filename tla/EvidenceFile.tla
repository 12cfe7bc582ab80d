----------------------------- MODULE EvidenceFile -----------------------------
(***************************************************************************)
(* wa.file under fetch_and_store_file: fetch.py and store.py in full, with *)
(* the job around them run again by Procrastinate and deferred again when  *)
(* process_inbox_row is (register_file keeps the one row of a wamid).      *)
(*                                                                         *)
(* A run reads the row's attempts, asks Meta for the media without a       *)
(* transaction, and writes each outcome in a transaction of its own.       *)
(***************************************************************************)
EXTENDS Naturals, FiniteSets

CONSTANTS
  Files,           \* wamids of media messages, hence wa.file rows
  Jobs,            \* fetch_and_store_file jobs that are deferred
  FileOf,          \* the file of a job
  Retries,         \* retry= of the task
  Ceiling,         \* _BACKOFF_BEFORE_META_LIMIT
  ReresolveBelow,  \* attempts below it get a second URL
  MaxMishaps       \* bound: jobs that break or die, per file

ASSUME EvidenceAssumption ==
  /\ IsFiniteSet(Jobs)
  /\ FileOf \in [Jobs -> Files]
  /\ Retries \in Nat
  /\ Ceiling \in Nat \ {0}
  /\ ReresolveBelow \in Nat
  /\ MaxMishaps \in Nat

VARIABLES
  file,        \* f |-> state and attempts of the wa.file row
  job,         \* j |-> where a job stands, the attempts it read, its retries
  uploaded,    \* files whose evidence audit-core holds
  polled,      \* files for which a chain of polls was started
  failures,    \* f |-> requests for it that Meta answered with an error
  asked,       \* f |-> runs that went on to ask Meta
  unrecorded   \* f |-> runs that ended without a word in the row

vars == <<file, job, uploaded, polled, failures, asked, unrecorded>>

FileStates == {"absent", "pending", "downloading", "storing", "stored",
               "failed", "quarantined"}
AtMeta == {"resolving", "downloading", "re-resolving", "re-downloading"}
MediaErrors == {"retryable", "final", "mismatch"}
AtRest == {"ended", "lost"}
Running == AtMeta \cup MediaErrors
             \cup {"fetched", "storing", "uploaded", "refused", "stored"}

TypeOK ==
  /\ file \in [Files -> [state : FileStates, attempts : Nat]]
  /\ job \in [Jobs -> [at : {"queued"} \cup Running \cup AtRest,
                       attempt : Nat, retries : 0..Retries]]
  /\ uploaded \subseteq Files
  /\ polled \subseteq Files
  /\ failures \in [Files -> Nat]
  /\ asked \in [Files -> Nat]
  /\ unrecorded \in [Files -> Nat]

\* A job is deferred before the transaction that registers its file commits.
Init ==
  /\ file = [f \in Files |-> [state |-> "absent", attempts |-> 0]]
  /\ job = [j \in Jobs |-> [at |-> "queued", attempt |-> 0, retries |-> 0]]
  /\ uploaded = {}
  /\ polled = {}
  /\ failures = [f \in Files |-> 0]
  /\ asked = [f \in Files |-> 0]
  /\ unrecorded = [f \in Files |-> 0]

JobsOf(f) == {j \in Jobs : FileOf[j] = f}

Register(f) ==
  /\ file[f].state = "absent"
  /\ file' = [file EXCEPT ![f].state = "pending"]
  /\ UNCHANGED <<job, uploaded, polled, failures, asked, unrecorded>>

-----------------------------------------------------------------------------
(* The start of a run.                                                     *)

Moves(j, at) == job' = [job EXCEPT ![j].at = at]

Writes(j, state) == file' = [file EXCEPT ![FileOf[j]].state = state]

\* An exception leaves the task: it is run again while retries are left.
MutAgain(j) == [job EXCEPT ![j].at = "queued", ![j].retries = @ + 1]

Again(j) ==
  IF job[j].retries < Retries
    THEN [job EXCEPT ![j].at = "queued", ![j].retries = @ + 1]
    ELSE [job EXCEPT ![j].at = "ended"]

\* NO_INTAKE_JOURNEY: an UPDATE of the row, if there is one, in any state.
NoJourney(j) ==
  /\ job[j].at = "queued"
  /\ Moves(j, "ended")
  /\ IF file[FileOf[j]].state = "absent" THEN UNCHANGED file
                                         ELSE Writes(j, "failed")
  /\ UNCHANGED <<uploaded, polled, failures, asked, unrecorded>>

FindsNoRow(j) ==
  /\ job[j].at = "queued"
  /\ file[FileOf[j]].state = "absent"
  /\ Moves(j, "ended")
  /\ UNCHANGED <<file, uploaded, polled, failures, asked, unrecorded>>

MutAtLimit(n) == n > Ceiling

\* MEDIA_ATTEMPT_LIMIT, a final error.
AtLimit(n) == n >= Ceiling

\* 'downloading', and the ceiling against the attempts that were read.
Begins(j) ==
  LET f == FileOf[j]
      n == file[f].attempts
  IN  /\ job[j].at = "queued"
      /\ file[f].state # "absent"
      /\ Writes(j, "downloading")
      /\ job' = [job EXCEPT ![j].attempt = n,
                            ![j].at = IF AtLimit(n) THEN "final" ELSE "resolving"]
      /\ asked' = IF AtLimit(n) THEN asked ELSE [asked EXCEPT ![f] = @ + 1]
      /\ UNCHANGED <<uploaded, polled, failures, unrecorded>>

-----------------------------------------------------------------------------
(* fetch_media.                                                            *)

AtResolve == {"resolving", "re-resolving"}
AtDownload == {"downloading", "re-downloading"}

Resolves(j) ==
  /\ job[j].at \in AtResolve
  /\ Moves(j, IF job[j].at = "resolving" THEN "downloading" ELSE "re-downloading")
  /\ UNCHANGED <<file, uploaded, polled, failures, asked, unrecorded>>

\* Meta answers with an HTTP error, which is retryable or final.
MetaErrs(j) ==
  /\ job[j].at \in AtMeta
  /\ \E e \in {"retryable", "final"} : Moves(j, e)
  /\ failures' = [failures EXCEPT ![FileOf[j]] = @ + 1]
  /\ UNCHANGED <<file, uploaded, polled, asked, unrecorded>>

\* A 404 of the first download: the URL has expired, and is resolved again.
Reresolves(j) == job[j].at = "downloading" /\ job[j].attempt < ReresolveBelow

UrlExpired(j) ==
  /\ Reresolves(j)
  /\ Moves(j, "re-resolving")
  /\ failures' = [failures EXCEPT ![FileOf[j]] = @ + 1]
  /\ UNCHANGED <<file, uploaded, polled, asked, unrecorded>>

\* An answer without a URL, and a broken connection while streaming, are
\* retryable errors ...
NoContent(j) ==
  /\ job[j].at \in AtMeta
  /\ Moves(j, "retryable")
  /\ UNCHANGED <<file, uploaded, polled, failures, asked, unrecorded>>

\* ... but a broken connection while resolving is an httpx error, which
\* nothing catches.
ResolveBreaks(j) ==
  /\ job[j].at \in AtResolve
  /\ job' = Again(j)
  /\ unrecorded' = [unrecorded EXCEPT ![FileOf[j]] = @ + 1]
  /\ UNCHANGED <<file, uploaded, polled, failures, asked>>

\* The whole content, with or without the declared SHA-256.
Downloads(j) ==
  /\ job[j].at \in AtDownload
  /\ \E at \in {"fetched", "mismatch"} : Moves(j, at)
  /\ UNCHANGED <<file, uploaded, polled, failures, asked, unrecorded>>

MutRecorded(e) == CASE e = "mismatch" -> "quarantined" [] e = "final" -> "failed"
                    [] OTHER -> "downloading"

Recorded(e) == IF e = "mismatch" THEN "quarantined" ELSE "failed"

\* except MediaFetchError: re-raised unless retryable.
RecordMediaError(j) ==
  /\ job[j].at \in MediaErrors
  /\ file' = [file EXCEPT ![FileOf[j]] =
       [state |-> Recorded(job[j].at), attempts |-> @.attempts + 1]]
  /\ IF job[j].at = "retryable" THEN Moves(j, "ended") ELSE job' = Again(j)
  /\ UNCHANGED <<uploaded, polled, failures, asked, unrecorded>>

-----------------------------------------------------------------------------
(* store_via_audit_core.  The Idempotency-Key wa:{wamid} makes a repeated  *)
(* POST a replay: 201 and 409 both name the one evidence of the file.      *)

BeginsStoring(j) ==
  /\ job[j].at = "fetched"
  /\ Moves(j, "storing")
  /\ Writes(j, "storing")
  /\ UNCHANGED <<uploaded, polled, failures, asked, unrecorded>>

Uploads(j) ==
  /\ job[j].at = "storing"
  /\ Moves(j, "uploaded")
  /\ uploaded' = uploaded \cup {FileOf[j]}
  /\ UNCHANGED <<file, polled, failures, asked, unrecorded>>

\* StoreError: an HTTP error, or no readable answer to what was stored.
UploadFails(j) ==
  /\ job[j].at = "storing"
  /\ Moves(j, "refused")
  /\ uploaded' \in {uploaded, uploaded \cup {FileOf[j]}}
  /\ UNCHANGED <<file, polled, failures, asked, unrecorded>>

MutAfterRefusal == "stored"

AfterRefusal == "failed"

\* except StoreError: the job returns, retryable or not.
RecordRefusal(j) ==
  /\ job[j].at = "refused"
  /\ Moves(j, "ended")
  /\ file' = [file EXCEPT ![FileOf[j]] = [state |-> AfterRefusal, attempts |-> @.attempts + 1]]
  /\ UNCHANGED <<uploaded, polled, failures, asked, unrecorded>>

RecordStored(j) ==
  /\ job[j].at = "uploaded"
  /\ Moves(j, "stored")
  /\ Writes(j, "stored")
  /\ UNCHANGED <<uploaded, polled, failures, asked, unrecorded>>

\* poll_di_document, attempt 0.
DefersPoll(j) ==
  /\ job[j].at = "stored"
  /\ Moves(j, "ended")
  /\ polled' = polled \cup {FileOf[j]}
  /\ UNCHANGED <<file, uploaded, failures, asked, unrecorded>>

-----------------------------------------------------------------------------
(* Mishaps: the database or the job queue raises, or the worker dies, for  *)
(* which Procrastinate has no retry.                                       *)

Mishap(j) ==
  /\ job[j].at \notin AtRest
  /\ unrecorded[FileOf[j]] < MaxMishaps
  /\ unrecorded' = [unrecorded EXCEPT ![FileOf[j]] = @ + 1]
  /\ UNCHANGED <<file, uploaded, polled, failures, asked>>

Breaks(j) == Mishap(j) /\ job' = Again(j)

Dies(j) == Mishap(j) /\ Moves(j, "lost")

JobStep(j) ==
  \/ NoJourney(j) \/ FindsNoRow(j) \/ Begins(j)
  \/ Resolves(j) \/ MetaErrs(j) \/ UrlExpired(j) \/ NoContent(j)
  \/ ResolveBreaks(j) \/ Downloads(j) \/ RecordMediaError(j)
  \/ BeginsStoring(j) \/ Uploads(j) \/ UploadFails(j) \/ RecordRefusal(j)
  \/ RecordStored(j) \/ DefersPoll(j)

Next ==
  \/ \E f \in Files : Register(f)
  \/ \E j \in Jobs : JobStep(j) \/ Breaks(j) \/ Dies(j)

Spec == Init /\ [][Next]_vars

\* Workers take queued jobs and requests end in an answer or a timeout.
FairSpec == Spec /\ \A j \in Jobs : WF_vars(JobStep(j))

-----------------------------------------------------------------------------

\* Whatever runs of a file overlap, break or are repeated, its row says
\* 'stored', and DI is polled for it, only with evidence in audit-core.
StoredIsUploaded ==
  \A f \in Files : file[f].state = "stored" \/ f \in polled => f \in uploaded

\* The attempt ceiling of fetch.py holds across runs, retries and duplicate
\* jobs up to what they cannot see of each other: each job of the file may
\* have begun a run that is not counted yet, and so may each run that ended
\* unrecorded.  A run costs at most two errors at Meta.
CeilingHolds ==
  \A f \in Files :
    LET most == Ceiling - 1 + Cardinality(JobsOf(f)) + unrecorded[f]
    IN  asked[f] <= most /\ failures[f] <= 2 * most

\* Where a job stands, as FileLifecycle sees it: an error of fetch_media is
\* part of the download, the answer of audit-core part of storing.
Phase(j) ==
  CASE job[j].at \in AtMeta \cup MediaErrors \cup {"fetched"} -> "downloading"
    [] job[j].at \in {"storing", "uploaded", "refused"} -> "storing"
    [] job[j].at \in AtRest -> "over"
    [] OTHER -> job[j].at

Lifecycle == INSTANCE FileLifecycle WITH
  state <- [f \in Files |-> file[f].state],
  at <- [j \in Jobs |-> Phase(j)],
  tries <- [j \in Jobs |-> job[j].retries]

\* The whole of fetch_media, store_via_audit_core and the job around them,
\* overlapping, repeated and dying, is a fetch as the capture cycle relies
\* on it.
FollowsFileLifecycle == Lifecycle!Spec

\* A registered file with a job to fetch it comes to rest, unless a run of
\* it ended without recording how.
FilesSettle ==
  \A f \in Files :
    \/ file[f].state \in {"downloading", "storing"}
    \/ file[f].state = "pending" /\ \E j \in JobsOf(f) : job[j].at = "queued"
    ~> \/ file[f].state \in {"stored", "failed", "quarantined"}
       \/ unrecorded[f] > 0

-----------------------------------------------------------------------------
\* fetch.py: "mismatch -> quarantine, never retry": no run begins for a file
\* that is quarantined.
QuarantineIsFinal ==
  [][\A f \in Files : file[f].state = "quarantined" => file'[f].state # "downloading"]_vars

=============================================================================
