# Formal model of verigence-whatsapp

This directory holds TLA+ specifications of the WhatsApp evidence-capture
service in `src/`, TLC configurations that check them on small instances, and
TLAPS proofs of what holds for every instance. Paths below are relative to the
repository; `wa_service/` stands for `src/wa_service/`.

Each module begins with what it models; every definition that stands for code
is listed with its lines in `PROJECT.json` under `map`.

## 1. The system

```
Meta --POST /wa/webhook--> wa.inbox --job--> process_inbox_row --> wa.session, wa.file
                                                   | one job per media message
                                                   v
   DI / audit-core <--upload-- fetch_and_store_file --job--> poll_di_document --+
                                                       ^--------(backoff)-------+
   cron, each minute:  flush_ready_sessions --job--> process_session --> doc.deal,
                                                     doc.checklist_item, wa.outbox
   cron, each minute:  send_outbox --> Meta
callers --/v1 API--> wa.api_message --> Meta;  wa.contact, wa.route, wa.session
```

All state is in PostgreSQL; all work is done by FastAPI requests and by
Procrastinate jobs, which run concurrently. Every arrow that is a job or a
remote call separates transactions, and that is where the difficulty of this
code lies: locks end at commit, so what a job read may be stale when it writes.

| Component | State | Operations | What makes it correct | Module |
|---|---|---|---|---|
| Webhook and inbox: `wa/webhook_api.py`, `wa/webhook.py`, head of `worker.py` | `wa.inbox` rows, unique wamid | `receive_webhook`, `insert_inbox`, dispatch, `process_inbox_row` outcomes | one row per first message under redelivery; a parsed payload answered 200 has its first message in a row; done rows have their files; rows settle | `Inbox` |
| Capture jobs: `worker.py`, `wa/session.py`, `deal/builder.py`, `deal/checklist.py`, `media/di_poll.py` | `wa.session` (state, flush timer, deal), `wa.file`, deals, checklist items, jobs | register, fetch, store, poll, flush, process, park, confirm, complete | one open session per contact; a session follows its life cycle; only accepted evidence satisfies the checklist; what is left in 'processing' or without a verdict has a stated cause; nothing collects or polls for ever | `CaptureSession`, `SessionLifecycle` |
| Outbox: `wa/outbox.py`, `send_outbox` | `wa.outbox` rows: state, attempts, send_after | enqueue, claim, send, mark, window sweep | bounded deliveries, no silent duplicates, states that tell the truth and stay, every row comes to rest | `Outbox` |
| Messages API: `api/routes.py`, `send_message` | `wa.api_message`, Idempotency-Key | reserve, send, record | one record per key, true answers, one delivery per key until a failure | `ApiMessages`, `KeyedMessage` |
| Evidence file: `media/fetch.py`, `media/store.py`, `fetch_and_store_file` | `wa.file`: state, attempts | resolve, download, hash check, upload, record, defer the poll | 'stored' is backed by evidence; the attempt ceiling; a file comes to rest | `EvidenceFile`, `FileLifecycle` (and its outcomes in `CaptureSession`) |
| Identity: `wa/router.py`, contact and route endpoints | `wa.contact`, `wa.route` | bind, patch, revoke, register, switch; resolve a message; look up a journey and a number for replies | tenants stay apart; barred messages are ignored; files are numbered in order | `Routing` |
| Not modelled | - | `media/redact.py`, `wa/copy`, `api/auth.py`, `api/schemas.py`, `config.py`, `db.py`, `main.py` | no protocol state | - |

Hard behaviours: concurrent first messages of a contact; deferral of a job
before the transaction it depends on commits; workers that die between two
transactions; overlapping cron runs; retries by Meta, by API clients and by
Procrastinate; verdicts of DI that arrive around the processing of a session.
`PROJECT.json` lists them under `hazards`, each at its line with the properties
that cover it.

## 2. Modules

### CaptureSession
A session row is named by the message whose job inserts it, so `Messages`,
`Media` (a subset of it, one file per media message) and `Numbers` (8-digit
booking numbers, hence deals) are the only data.

* `intake[m]`, `target[m]`: `process_inbox_row` of m and its session.
  `IntakeSelect`, `IntakeInsert` are the SELECT and INSERT of
  `get_or_create_session`; `IntakeRegister` is the deferral of the fetch on
  another connection, before `IntakeCommit`; `IntakeMark` is `_mark_inbox`.
  The partial unique index is `Inserting` and `OpenOf`: an INSERT waits for
  another uncommitted one and then fails or goes on.
* `task[f]`, `file[f]`, `verdict[f]`: `fetch_and_store_file` (`Fetch...`) and
  the chain of `poll_di_document` jobs (`Poll...`): `PollTerminal` writes the
  type and `PollLink` marks the item, in separate transactions, as in the code.
* `session[s].timer` is `flush_at` against the clock (armed, due);
  `FlushClaim` and `FlushDefer` are `claim_sessions_for_flush` with its commit
  and the deferral of `process_session` after it. `FlushAbort` and `FlushDies`
  are the two ways to lose the rest of a batch of claims: `defer_async` raises in
  the loop (the periodic task has no retry), or the worker dies.
* `ProcessRead` to `ProcessColdStart` / `ProcessExact` / `ProcessPark` are the
  branches of `process_session`. `SelectedColumns` states which columns
  `get_session_files` returns; it lacks `document_type_key`.
* `...Abort` is an exception (rollback and Procrastinate's retry, if the task has one), `...Dies` a
  worker that dies: Procrastinate leaves its job in 'doing' and nothing retries it.

### SessionLifecycle
The abstract specification: states, owner and deal of sessions with the steps
Start, Flush, Confirm, Complete and Park. `CaptureSession` implements it under
the mapping given by `Lifecycle` (state and deal columns of the rows).

### FileLifecycle
The abstract specification of a fetch: which states of `wa.file` a job may
write, where in its life it writes them, and how often it starts anew. Both
modules that model `fetch_and_store_file` implement it, `EvidenceFile` under
`Lifecycle` (`Phase` maps the places of a run, several of which are one phase)
and `CaptureSession` under `Fetching` (`FetchPhase`: what the job becomes as a
chain of polls is none of its concern). That ties the two models together: the
capture cycle is checked with a fetch that the detailed one is an instance of.

### Inbox
`post[d]`: `receive_webhook` of delivery d, with the parse (`Unparseable`), the
SELECT (`Duplicate`, `IsNew`), the INSERT (`Inserts`, `InsertConflicts`) and the
dispatch apart. A body in `Garbled` is answered 200 without a row. `job[d]`:
`process_inbox_row` up to `_mark_inbox`, which is a transaction of its own and
may raise (`JobRaises`), so that the payload is processed again; then it is 'over',
or 'lost' with its worker. A payload is a sequence of messages of which only the
first is looked up: `AnsweredIsRecorded` promises no more than that.

### Outbox
`drain[d]` is a running `send_outbox`: the claimed rows still to do and where it
stands with the current one. A claim counts attempts but leaves rows 'pending'
and unlocked, so drains overlap. `due[r]` is `send_after` against the clock.
`deliveries` and `unsure` are history variables: how often Meta delivered a
reply, and the rows for which the code cannot know.

### ApiMessages
`call[c]` is `send_message`: reserve (`Finds...`, `Inserts`,
`InsertConflicts`), the awaited send, and the record of its outcome.
`record[c]` is the `wa.api_message` row that c inserted; a retry works on the
record of an earlier call. `delivered` is a history variable.

### KeyedMessage
The abstract specification of an Idempotency-Key, without calls and responses:
per key, a record and the deliveries at Meta. Once a call has answered with a
failure, every retry may deliver again (that is all the code keeps to when
retries overlap); before that, there is one delivery. `ApiMessages` implements it under `Keyed`.

### EvidenceFile
One `wa.file` row under the jobs that fetch it: two, if `process_inbox_row` ran
twice. `job[j].at` follows a run through `fetch_media` (`Resolves`, `Downloads`,
`UrlExpired` and the second resolve, `MetaErrs`, `NoContent`), the write of its
error (`RecordMediaError`), `store_via_audit_core` (`Uploads`, `UploadFails`,
`RecordRefusal`) and the write of 'stored' with the deferral of the poll.
`Again` is a run that raised: Procrastinate runs the job again while `retries`
are left. `Begins` is where a run reads `attempts`; every outcome writes
`attempts + 1` to the row, whatever another job wrote meanwhile. `asked`,
`failures` and `unrecorded` are history variables: runs that went on to ask
Meta, requests Meta answered with an error, runs that ended without a word in
the row. `CaptureSession` has the same jobs with fewer steps, one for each file.

### Routing
`contact[p]` and `route[n]` are the rows by phone and by business number, which
their unique columns make one each; `PutContact`, `PatchContact`, `CreateRoute`
and `PatchRoute` are the endpoints, one statement each. `process_inbox_row`
sees them statement by statement: `ResolveRoute`, `ResolveContact`,
`FindSession`, `Read` (the SELECT of the highest `received_seq` and of a
journey), `Commit`. `Journeys` is the SELECT with LIMIT 1 and no ORDER BY: any
active route of the tenant. `LookUpJourney` and `Reply` make the same look-up
later. `barred` and `job[m].before` are history variables: messages whose
route or contact was inactive ever since they came in, and the files that a
job found when it began.

MC modules (`MCCaptureSession`, `MCInbox`, `MCOutbox`, `MCApiMessages`,
`MCEvidenceFile`, `MCRouting`) only
give constants their values. In the modules, an operator `MutX` is a faulty
form of `X`, kept next to it to test that the properties notice it; it is used
by nothing. `PROJECT.json` pairs each property with one.

## 3. Runs

| Run | Config | Question and answer |
|---|---|---|
| capture | MCCapture | Three messages, one of them media, of two contacts whose sessions share a booking number, in every order against flush, polls and processing: types, one open session, prompts backed by a deal, evidence soundness, completion, a checklist that never regresses and the life cycle hold. 383 000 states |
| capture_faults | MCCaptureFaults | Two exceptions and one death anywhere: collecting and polling end, and processing unless the session's own job was never deferred, died or failed for good; a session left in 'processing' and evidence left without a verdict have a stated cause; the fetch is one of `FileLifecycle`. 161 000 states |
| inbox | MCInbox | A message alone (with a bad signature), behind another and in front of another, a status update, a body that does not parse, one failure: one row per first message, what parsed and was answered 200 has its first message in a row, done rows have their files, and a row stays 'pending' only if its own dispatch failed or its own job died. 44 000 states |
| outbox | MCOutbox | Two replies with one dedup key, two overlapping drains, one death: bounded deliveries, 'sent' and 'failed' tell the truth and stay, up to what two drains hold or Meta did not report. 102 000 states |
| api_messages | MCApiMessages | Three equal calls and one with their key and another body, one death, routes switched on and off: the key is that of `KeyedMessage`, and 'sent' is overwritten only by a retry that overlapped. 22 000 states |
| evidence_file | MCEvidenceFile | Two jobs for one file with two retries each, every answer of Meta and audit-core, one run that breaks or dies: 'stored' only with evidence, the ceiling up to the runs it cannot see, the fetch of `FileLifecycle`, the file comes to rest unless a run ended unrecorded. 356 000 states |
| routing | MCRouting | Two messages of one phone to two numbers of up to two tenants, six calls of the API at any time: tenants stay apart, barred messages are ignored, files are numbered in order. 288 000 states up to symmetry |

Five runs are expected to be violated; each shows a disagreement between the
code and what the repository says of it:

| Run | Statement | What the code does |
|---|---|---|
| awaiting_di_forever | worker.py:641 "DI still processing" | `get_session_files` never selects the type, so every session with a file parks with `awaiting_di`, typed or not, and nothing resumes it |
| restart_loses_claim | session.py:10 "survives pod restarts" | a death between the flush claim and the deferral leaves the session in 'processing', which keeps the contact's one open slot |
| quarantine | fetch.py:4 "mismatch -> quarantine, never retry", worker.py:328 "Procrastinate will not retry on re-raise" | the error is re-raised in a task with `retry=3`, so Procrastinate runs it again, and it sets the quarantined file to 'downloading' |
| journey_of_other_outlet | migrations/002_wa_file_di_columns.sql:39 "for this tenant/outlet. Every cold-start evidence upload targets this journey" | the journey of a file is that of any active route of the tenant, not of the number it came in on |
| api_retry_sends_twice | docs/api.md:81 "a retry never sends twice" | concurrent retries of a failed record both send |

The models also contain these disagreements, which have no run of their own:

* worker.py:173 "register / enqueue each file": the fetch job may start before
  the row commits; it finds none and ends (`FetchFindsNoRow`, `FindsNoRow`), and the
  file stays 'pending'.
* worker.py:641 "re-park; poll_di_document will advance flush_at": the nudge
  (`PollNudge`) and the flush (`Claimable`) leave out parked sessions, so one that
  `ProcessPark` parked with `awaiting_di` stays parked (`ParkedSessionsStayParked`).
* webhook_api.py:6 "writes the raw payload to wa.inbox": a payload that repeats a
  recorded first message and brings another is a `Duplicate`; it is answered 200 and
  the other message is in no row. `AnsweredIsRecorded` is about first messages only.
* webhook_api.py:7 "dispatches an async Procrastinate task, and returns {} with 200":
  a dispatch that fails is logged and answered 200 (`DispatchFails`), and no later
  delivery dispatches the row. `RowsSettle` names such rows (`Undispatched`).
* fetch.py:94 "Raises MediaFetchError on failure": a network error while the URL is
  resolved is an httpx error (`ResolveBreaks`), which nothing records: after the
  retries the file is left in 'downloading', and `FilesSettle` excuses it.
* worker.py:686 "Satisfy checklist items for all already-confirmed documents":
  a document accepted before the deal is linked is marked by neither the poll nor
  `process_session`, since its rows have no type (`Fetched`).
* webhook_api.py:48 "Always returns 200 to Meta": of two concurrent deliveries the
  second INSERT raises IntegrityError, answered 500 (`InsertConflicts` of `Inbox`).
* fetch.py:20 stops at 4 because Meta blocks at 5; it counts runs, and a run
  whose URL expired and whose second download fails has two errors, so the requests
  that fail may be more than 4 without any fault. `CeilingHolds` says how many.

### Bounds
* capture: three messages let one open a session while another registers into
  it and a third arrives after the flush; two contacts suffice for a shared
  booking number. `MaxPolls` 2 has a first, a last and no further poll (the code has 7);
  one retry, two exceptions (one more than the retries), one death. The theorems do not depend on them.
* inbox: `first` and `more` compete for the row of w1, and `batch` brings w1 behind
  another message, so a file of w1 may come from either of two rows; `MaxMishaps` 1.
* outbox: two drains are the least that overlap, two replies the least for
  dedup and for a batch; `MaxAttempts` 2 (3 in the code) has a first, a last and
  no further attempt; `Limit` 2 lets a batch hold both rows.
* evidence_file: two jobs are the least that overlap on a row; `Ceiling` 3 and
  `ReresolveBelow` 2 (4 and 3 in the code) leave one attempt between the last second
  resolve and the limit, which two jobs with two retries go beyond. In `quarantine`
  they have the code's values.
* routing: two tenants, two numbers, one phone (a row of `wa.contact` is keyed by
  the phone, and no step involves two); `MaxChanges` 6 is three calls to register
  both numbers and bind the phone and three to switch or re-bind them.
* api: three calls with equal bodies are the least of which two retry the record of
  the third; `other` has their key and another body. A call without a key
  (`keyless`) is in the violated run; the theorems have any number of both.

`CHECK_DEADLOCK FALSE` throughout: a system without further messages is at rest.

### Fairness
Weak fairness on the steps of a started request or job and on time: a worker
takes queued jobs (`IntakeStep`, `FetchStep`, `PollStep`, `ProcessStep`,
`Process`), the cron fires each minute (`FlushClaim`, `Claim`), timers run out
(`TimerExpires`, `Clock`), an HTTP await ends in an answer or a timeout
(`Proceed`, `Turn`, `JobStep`). None on arrivals, exceptions, deaths or any particular
outcome of a remote call.

## 4. Proofs

TLAPS proves, for all values of the constants that meet the assumptions named
in the modules (`MessagesAssumption`, `ChecklistAssumption`,
`BoundsAssumption`, `InboxAssumption`, `OutboxAssumption`, `CallsAssumption`,
`EvidenceAssumption`, `RoutingAssumption`; they say that `None` is no member
of the sets, that functions have their types, that jobs are finitely many and that bounds
are naturals):

**CaptureSessionProofs**
* `TypeCorrect`, `OneOpen`. One open session per contact is not inductive:
  between SELECT and commit the promise is about rows that do not exist yet.
  `IInv` adds that a contact has at most one uncommitted INSERT and then no
  open session (`InsertersAreAlone`), that a row exists only after its commit,
  that jobs have rows and files have sessions.
* `ImplementsLifecycle`: `Spec => FollowsLifecycle`, step by step: each action
  maps to a step of `SessionLifecycle` or to a stutter. It needs that a
  `process_session` job exists only for a session that was flushed and is linked to no deal yet.
* `OnlyAcceptedEvidenceSatisfies`, `CompleteIsComplete`, `ChecklistGrows`.
  `EInv` adds that a verdict is written once, that a poll linking a file has seen it
  accepted, and that a checklist is absent or whole: completion reads "no item open".
* `PromptsAreBacked`. `PInv` adds that a PC was asked only once `process_session`
  of the session is done: from then on the deal is linked for good, unless a poll
  parks the session, and a parked session that nothing processes stays parked.
* `FetchingFollowsFileLifecycle`: `Spec => FollowsFileLifecycle`. `FInv` adds that
  the fetch job of a message is deferred by its intake, hence once, and that the
  row appears only after that.
* `ProcessingSettlesOrHasCause`: a session stuck in 'processing' lost its worker, or
  its deferral in the loop of `flush_ready_sessions`, or all its retries, or shares its
  number. `SInv` is an account: the tries of a job are at most
  the exceptions there were (`CausesAreCounted`), and a deal has a job that made
  it and is done (`DealsHaveMakers`), so that a job which finds a deal under its
  number found another's (`ExactMeansShared`). This is the safety half of
  `ClaimedSessionSettles`, for any number of retries, exceptions and deaths.
* `UnjudgedEvidenceIsPolled`. `UInv` adds that a poll counts files only with its
  verdict written, and that a row which is 'stored' while its job stands elsewhere
  has seen an exception (`StoredInPassing`); a session, once closed, stays so.
* `ParkedSessionsStayParked` and `DealsAreLinkedOnce` follow from the life cycle: the
  first is what "re-park" (worker.py:641) amounts to, the second why `PollLink`
  may read a deal and mark its item in one step.

**InboxProofs**: types, one row per message, answered is recorded (for bodies that parse,
by their first message), done is registered, files stay. The uniqueness is inductive by the unique column; `DoneIsRegistered`
needs that a job about to write 'done' has committed its files.

**OutboxProofs**: types; deliveries are bounded by attempts. The invariant counts, per
row, the deliveries plus the drains that still owe it a send (`Owed`), which a
claim pays for in advance. `SecondDeliveryHasCause` rests on `SureDeliveries`:
a noticed delivery of an unshared row is on its way to 'sent', or there, where no
claim reaches it. `OutcomesTellTheTruth` and `FinalStatesAreFinal` are about UPDATEs
that look at no state: `HeldIsNotFinal` says that a row which one drain holds is
still 'pending', so whoever writes a final state over another is one of two
drains that held the row, or writes over a delivery that went unnoticed.

**ApiMessagesProofs**: types, one record per key, true answers, resends only after a
failure. The invariant ties records to deliveries and failures (`RecordsAreTrue`)
and calls to records of their own key and body (`RowsAreOfTheRequest`).
`ApiRefinesKeyedMessage` is the refinement, step by step. It needs `OwnerInv`: a
call that inserted a record works on it alone until it has answered
(`OwnRecords`), a retry begins only after the owner's failure
(`RetriesFollowTheOwner`), and a record is 'pending' until its owner answers, 'failed'
only if the owner failed and 'sent' only if some call on it was answered 201
(`RecordsFollowTheOwner`); hence no delivery is a second one before a failure.
From the same invariant `SentIsKeptFromOneRetry`: 'sent' is lost only to a retry
that overlapped another.

**EvidenceFileProofs**: `StoredFilesAreUploaded` needs that a job between upload
and deferral knows evidence of its file. `CeilingIsKept` is a counting argument:
runs that asked Meta are at most the attempts in the row, plus the jobs in a run
that is not recorded, plus the runs that ended unrecorded; a run begins only below the
ceiling, when its own job is not among them. `Balanced` says that each step of a job
keeps both accounts (runs and errors); the cardinalities move by one.
`EvidenceFollowsFileLifecycle` is the refinement of `FileLifecycle`. Types are all it
needs: what a run writes depends on where it stands, not on what it finds in the row.

**RoutingProofs**: no call moves a contact or a route to another tenant, so
what a job resolved stays true of the rows (`JobsAreRouted`, `JobsAreResolved`),
and what it writes later it looks up through that contact. `BarredAreIgnored`
needs that a barred message has not passed the statement that looks at what bars it.
`FilesAreNumberedInOrder` rests on `LastSeqIsMax`, for which `MaxOfBounded` shows
that a bounded set of naturals has a maximum.

Only model-checked: all liveness properties (`DebounceEnds`, `PollChainsEnd`,
`ClaimedSessionSettles`, `RowsSettle`, `RepliesSettle`, `PendingSettles`,
`FilesSettle`), which need fairness, out of reach of the prover's temporal
backend here; the violated statements. Every invariant, action property and refinement
of the passing runs is proved.

## 5. Abstractions and assumptions

* One media or text message per payload in `CaptureSession`; several in `Inbox`.
  `Inbox` takes every message for media; a second `process_inbox_row` of one row
  is in `Inbox` only, and the second job it gives a file in `EvidenceFile`.
* `Routing` has media messages only, each processed once, and takes from
  `CaptureSession` only that an open session ends at some time (`CloseSession`).
  User, outlet and locale of a contact are left out: no modelled step reads them. A
  re-bound phone keeps its open session, whose deal is then of the old outlet.
* A rebinding to the same tenant may keep the status; journeys are named by their number.
* Time is order: a timer is armed or due. The 23 hours of the outbox run from
  `send_after`, as in the code, not from the last inbound message.
* Any number of workers; a bound on drains names how many overlap.
* The fuzzy match on customer names, its disambiguation and every deal type but
  the retail one are unreachable, since booking fields are never found in rows
  that `get_session_files` returns, and since `fetch_booking_fields` returns none for
  a JSON object (di_poll.py:158: the conditional binds weaker than `or`; a JSON list
  raises); `confirm_deal` and `escalate_session` of `session.py` have no caller, so gaps_pending, escalated and cancelled are never
  entered.
* If `document_type_key` and `di_document_id` alone were added to
  `get_session_files`, `SatisfiedByAcceptedEvidence` would break, because
  `_satisfy_confirmed_files` does not look at the verdict: changing
  `SelectedColumns` shows it.
* The models take the evident intent of the wiring for granted: that `SET LOCAL`
  with a bind parameter, `schedule_in` as an argument of `defer_async`, and
  `get_event_loop` in worker threads do what they are written for, that the
  worker process has the tasks of `worker.py` and a Meta client, and that row-level
  security lets the worker see the rows of the tenant it works for.
* Procrastinate, Meta, DI and audit-core are external: any outcome the code
  distinguishes, in any order.

## 6. Plan

Done: `SessionLifecycle`, `CaptureSession`, `Inbox`, `Outbox`, `ApiMessages`,
`EvidenceFile`, `Routing`, the abstract `KeyedMessage` and `FileLifecycle`, which ties
`EvidenceFile` to `CaptureSession`, and their proofs. Next, in this order:

1. Two chains of polls for one file, which a payload processed twice starts:
   `task` of `CaptureSession` by job instead of by file.
2. Composition of `Inbox` with `CaptureSession`: the first as the environment
   that starts the jobs of the second, once or again.
3. An abstract outbox (a reply is delivered, or reported as lost) that `Outbox`
   implements, with the theorem.

## 7. Not modelled

* `media/redact.py`: image processing without a caller. `wa/copy`: texts.
  `api/auth.py`, `api/schemas.py`: a comparison of a token and validation, without state.
  `main.py`, `config.py`, `db.py`, `procrastinate_app.py`: start-up and settings.
* GET endpoints of the API: they change nothing.
* Payload formats of `wa/client.py`, `mark_read` (no caller), headers and bytes of media, the gap message's grouping and wording.
* Row-level security of the migrations.
