--------------------------- MODULE CaptureSession ---------------------------
(***************************************************************************)
(* One capture cycle of the WhatsApp service, from an inbox row to a deal: *)
(* the Procrastinate jobs of worker.py (process_inbox_row,                 *)
(* fetch_and_store_file, poll_di_document, flush_ready_sessions and        *)
(* process_session) running concurrently over the rows of wa.session,      *)
(* wa.file, doc.deal and doc.checklist_item.                               *)
(*                                                                         *)
(* A job is a program counter; an action is one database transaction of    *)
(* the job, or one call it makes to another service, with everything the   *)
(* job does up to the next commit.  There is no bound on the number of     *)
(* workers: any job that is in hand may take its next step.                *)
(*                                                                         *)
(* Names: a wa.session row is named by the message whose processing        *)
(* INSERTs it, and a wa.file row by the media message that carries it, so  *)
(* both are members of Messages.  One webhook payload carries one message. *)
(***************************************************************************)
EXTENDS Naturals, FiniteSets

CONSTANTS
  Messages,       \* the inbound messages, one wa.inbox row each
  Media,          \* those of type "image" or "document"
  Contacts,       \* wa.contact rows (the PCs)
  Sender,         \* the contact a message resolves to
  Numbers,        \* booking numbers
  BookingNumber,  \* "WA-" + the first 8 hex digits of a session's UUID
  DocTypes,       \* document type keys that DI may classify into
  Blocking,       \* those _default_requirements lists as blocking
  Optional,       \* those it lists as optional
  None,           \* SQL NULL
  MaxPolls,       \* _MAX_DI_POLL_ATTEMPTS
  FetchRetries,   \* retry= of fetch_and_store_file
  ProcessRetries, \* retry= of process_session
  MaxAborts,      \* bound: unexpected exceptions in jobs
  MaxCrashes      \* bound: worker deaths

ASSUME MessagesAssumption ==
  /\ Media \subseteq Messages
  /\ Sender \in [Messages -> Contacts]
  /\ BookingNumber \in [Messages -> Numbers]

ASSUME ChecklistAssumption ==
  /\ Blocking \subseteq DocTypes
  /\ Optional \subseteq DocTypes
  /\ Blocking \cap Optional = {}
  /\ None \notin DocTypes \cup Numbers

ASSUME BoundsAssumption ==
  /\ MaxPolls \in Nat \ {0}
  /\ {FetchRetries, ProcessRetries, MaxAborts, MaxCrashes} \subseteq Nat

VARIABLES
  intake,   \* m |-> where process_inbox_row stands with m's inbox row
  target,   \* m |-> the session that intake selected or inserted
  session,  \* s |-> its wa.session row
  file,     \* f |-> its wa.file row
  task,     \* f |-> the fetch job of f, then the poll job it becomes
  verdict,  \* f |-> what DI made of the evidence, once it is terminal
  proc,     \* s |-> the flush and process_session jobs of s
  deal,     \* n |-> the state of the doc.deal row with that number
  item,     \* n |-> t |-> that deal's checklist item for type t
  outbox,   \* <<s, kind>> replies ever enqueued for session s
  aborts,   \* unexpected exceptions so far
  crashes   \* worker deaths so far

vars == <<intake, target, session, file, task, verdict, proc, deal, item,
          outbox, aborts, crashes>>

IntakeStates == {"pending", "creating", "opened", "registered", "committed",
                 "done", "failed", "ignored", "crashed"}
SessionStates == {"absent", "collecting", "processing", "confirming_deal",
                  "complete", "parked"}
Notes == {"none", "files_not_ready", "awaiting_di", "di_sla"}
FileStates == {"absent", "pending", "downloading", "storing", "stored",
               "failed", "quarantined"}
TaskSteps == {"none", "queued", "downloading", "storing", "stored", "poll",
              "backoff", "linking", "counting", "nudging", "done", "lost"}
ProcSteps == {"none", "claimed", "undeferred", "queued", "files_not_ready",
              "awaiting_di", "ready", "new_deal", "exact_deal", "done",
              "failed", "lost"}

SessionRow == [state : SessionStates, note : Notes,
               deal : Numbers \cup {None}, timer : {"armed", "due"}]
FileRow == [state : FileStates, document_type_key : DocTypes \cup {None},
            di_document_id : {"evidence", None}]
TaskJob == [pc : TaskSteps, tries : 0..FetchRetries, attempt : 0..(MaxPolls - 1)]
ProcJob == [pc : ProcSteps, tries : 0..ProcessRetries]
ItemStates == {"absent", "open", "satisfied"}

\* Every row has the columns of its table and every job its arguments: an
\* attempt stays below _MAX_DI_POLL_ATTEMPTS, retries below those of the task.
TypeOK ==
  /\ intake \in [Messages -> IntakeStates]
  /\ target \in [Messages -> Messages \cup {None}]
  /\ session \in [Messages -> SessionRow]
  /\ file \in [Media -> FileRow]
  /\ task \in [Media -> TaskJob]
  /\ verdict \in [Media -> {"open", "accepted", "rejected"}]
  /\ proc \in [Messages -> ProcJob]
  /\ deal \in [Numbers -> {"none", "provisional", "confirmed"}]
  /\ item \in [Numbers -> [DocTypes -> ItemStates]]
  /\ outbox \subseteq Messages \X {"deal_confirm", "gap"}
  /\ aborts \in 0..MaxAborts
  /\ crashes \in 0..MaxCrashes

Init ==
  /\ intake = [m \in Messages |-> "pending"]
  /\ target = [m \in Messages |-> None]
  /\ session = [s \in Messages |-> [state |-> "absent", note |-> "none",
                                    deal |-> None, timer |-> "armed"]]
  /\ file = [f \in Media |-> [state |-> "absent", document_type_key |-> None,
                              di_document_id |-> None]]
  /\ task = [f \in Media |-> [pc |-> "none", tries |-> 0, attempt |-> 0]]
  /\ verdict = [f \in Media |-> "open"]
  /\ proc = [s \in Messages |-> [pc |-> "none", tries |-> 0]]
  /\ deal = [n \in Numbers |-> "none"]
  /\ item = [n \in Numbers |-> [t \in DocTypes |-> "absent"]]
  /\ outbox = {}
  /\ aborts = 0
  /\ crashes = 0

-----------------------------------------------------------------------------
(* Rows and locks.                                                         *)

\* The states of the partial unique index wa_session_one_open_per_contact,
\* and of the SELECT in get_or_create_session.
OpenStates == {"collecting", "confirming_deal", "processing"}

Open(s) == session[s].state \in OpenStates

OpenOf(c) == {s \in Messages : Sender[s] = c /\ Open(s)}

\* Without the unique index: no INSERT is waited for.
MutInserting(m) == FALSE

\* The intake of m holds an uncommitted INSERT of session m.
Inserting(m) == intake[m] \in {"opened", "registered"} /\ target[m] = m

\* record_file_arrival of an uncommitted intake has updated the row of s: it
\* is locked, other UPDATEs wait and FOR UPDATE SKIP LOCKED passes it over.
Locked(s) ==
  /\ session[s].state = "collecting"
  /\ \E m \in Media : intake[m] = "registered" /\ target[m] = s

FilesOf(s) == {f \in Media : file[f].state # "absent" /\ target[f] = s}

-----------------------------------------------------------------------------
(* process_inbox_row: one transaction that selects or inserts the session, *)
(* registers the file and re-arms the debounce timer.  The fetch job is    *)
(* deferred on Procrastinate's own connection, before that transaction     *)
(* commits.                                                                *)

\* Signature not valid, or RoutingError: no route, unknown contact, ...
IntakeIgnore(m) ==
  /\ intake[m] = "pending"
  /\ intake' = [intake EXCEPT ![m] = "ignored"]
  /\ UNCHANGED <<target, session, file, task, verdict, proc, deal, item,
                 outbox, aborts, crashes>>

\* The SELECT of get_or_create_session.
IntakeSelect(m) ==
  /\ intake[m] = "pending"
  /\ IF OpenOf(Sender[m]) = {}
       THEN /\ intake' = [intake EXCEPT ![m] = "creating"]
            /\ UNCHANGED target
       ELSE /\ intake' = [intake EXCEPT ![m] = "opened"]
            /\ \E s \in OpenOf(Sender[m]) : target' = [target EXCEPT ![m] = s]
  /\ UNCHANGED <<session, file, task, verdict, proc, deal, item, outbox,
                 aborts, crashes>>

\* Its INSERT.  The unique index makes it wait for another uncommitted
\* INSERT of the same contact, and fail once an open session is committed;
\* the IntegrityError rolls back and marks the inbox row 'failed'.
IntakeInsert(m) ==
  /\ intake[m] = "creating"
  /\ \A o \in Messages : Sender[o] = Sender[m] => ~Inserting(o)
  /\ IF OpenOf(Sender[m]) = {}
       THEN /\ intake' = [intake EXCEPT ![m] = "opened"]
            /\ target' = [target EXCEPT ![m] = m]
       ELSE /\ intake' = [intake EXCEPT ![m] = "failed"]
            /\ UNCHANGED target
  /\ UNCHANGED <<session, file, task, verdict, proc, deal, item, outbox,
                 aborts, crashes>>

\* _process_messages on a media message: register_file, record_file_arrival
\* and the deferral of fetch_and_store_file, which is visible at once.
IntakeRegister(m) ==
  /\ m \in Media
  /\ intake[m] = "opened"
  /\ ~Locked(target[m])
  /\ intake' = [intake EXCEPT ![m] = "registered"]
  /\ task' = [task EXCEPT ![m].pc = "queued"]
  /\ UNCHANGED <<target, session, file, verdict, proc, deal, item, outbox,
                 aborts, crashes>>

\* COMMIT.  A text or button message has registered nothing: the loop of
\* _process_messages skips every type but "image" and "document".
\* record_file_arrival re-arms the timer of a session that is collecting.
IntakeCommit(m) ==
  /\ intake[m] = IF m \in Media THEN "registered" ELSE "opened"
  /\ intake' = [intake EXCEPT ![m] = "committed"]
  /\ session' =
       IF target[m] = m
         THEN [session EXCEPT ![m].state = "collecting"]
         ELSE IF m \in Media /\ session[target[m]].state = "collecting"
                THEN [session EXCEPT ![target[m]].timer = "armed"]
                ELSE session
  /\ file' = IF m \in Media THEN [file EXCEPT ![m].state = "pending"] ELSE file
  /\ UNCHANGED <<target, task, verdict, proc, deal, item, outbox, aborts,
                 crashes>>

\* _mark_inbox(..., "done"), a transaction of its own.
IntakeMark(m) ==
  /\ intake[m] = "committed"
  /\ intake' = [intake EXCEPT ![m] = "done"]
  /\ UNCHANGED <<target, session, file, task, verdict, proc, deal, item,
                 outbox, aborts, crashes>>

\* Any other exception: ROLLBACK and _mark_inbox(..., "failed").  A fetch
\* job that was deferred stays deferred.
IntakeAbort(m) ==
  /\ intake[m] \in {"creating", "opened", "registered"}
  /\ aborts < MaxAborts
  /\ aborts' = aborts + 1
  /\ intake' = [intake EXCEPT ![m] = "failed"]
  /\ UNCHANGED <<target, session, file, task, verdict, proc, deal, item,
                 outbox, crashes>>

-----------------------------------------------------------------------------
(* fetch_and_store_file, retry = FetchRetries.                             *)

\* Without counting: the retries are never used up.
MutRaisedTask(f) == [task EXCEPT ![f].pc = "queued"]

\* Procrastinate re-runs a job that raised until its retries are used up.
RaisedTask(f) ==
  IF task[f].tries < FetchRetries
    THEN [task EXCEPT ![f].pc = "queued", ![f].tries = @ + 1]
    ELSE [task EXCEPT ![f].pc = "done"]

\* frow is None: the registering transaction has not committed.
FetchFindsNoRow(f) ==
  /\ task[f].pc = "queued"
  /\ file[f].state = "absent"
  /\ task' = [task EXCEPT ![f].pc = "done"]
  /\ UNCHANGED <<intake, target, session, file, verdict, proc, deal, item,
                 outbox, aborts, crashes>>

\* NO_INTAKE_JOURNEY: the tenant's active route names no journey.
FetchNoJourney(f) ==
  /\ task[f].pc = "queued"
  /\ file[f].state # "absent"
  /\ task' = [task EXCEPT ![f].pc = "done"]
  /\ file' = [file EXCEPT ![f].state = "failed"]
  /\ UNCHANGED <<intake, target, session, verdict, proc, deal, item, outbox,
                 aborts, crashes>>

FetchStart(f) ==
  /\ task[f].pc = "queued"
  /\ file[f].state # "absent"
  /\ task' = [task EXCEPT ![f].pc = "downloading"]
  /\ file' = [file EXCEPT ![f].state = "downloading"]
  /\ UNCHANGED <<intake, target, session, verdict, proc, deal, item, outbox,
                 aborts, crashes>>

\* fetch_media returned: the file is 'storing'.
FetchDownloaded(f) ==
  /\ task[f].pc = "downloading"
  /\ task' = [task EXCEPT ![f].pc = "storing"]
  /\ file' = [file EXCEPT ![f].state = "storing"]
  /\ UNCHANGED <<intake, target, session, verdict, proc, deal, item, outbox,
                 aborts, crashes>>

\* MediaFetchError with retryable=True, or StoreError: the job returns.
FetchGivesUp(f) ==
  /\ task[f].pc \in {"downloading", "storing"}
  /\ task' = [task EXCEPT ![f].pc = "done"]
  /\ file' = [file EXCEPT ![f].state = "failed"]
  /\ UNCHANGED <<intake, target, session, verdict, proc, deal, item, outbox,
                 aborts, crashes>>

\* MediaFetchError with retryable=False: re-raised, so the job is retried.
FetchRaises(f) ==
  /\ task[f].pc = "downloading"
  /\ task' = RaisedTask(f)
  /\ \E st \in {"failed", "quarantined"} : file' = [file EXCEPT ![f].state = st]
  /\ UNCHANGED <<intake, target, session, verdict, proc, deal, item, outbox,
                 aborts, crashes>>

\* audit-core took the evidence.
FetchStores(f) ==
  /\ task[f].pc = "storing"
  /\ task' = [task EXCEPT ![f].pc = "stored"]
  /\ file' = [file EXCEPT ![f].state = "stored", ![f].di_document_id = "evidence"]
  /\ UNCHANGED <<intake, target, session, verdict, proc, deal, item, outbox,
                 aborts, crashes>>

\* The deferral of poll_di_document(attempt=0), which ends the job.
FetchDefersPoll(f) ==
  /\ task[f].pc = "stored"
  /\ task' = [task EXCEPT ![f].pc = "poll"]
  /\ UNCHANGED <<intake, target, session, file, verdict, proc, deal, item,
                 outbox, aborts, crashes>>

\* Any other exception, such as an httpx error while resolving the media URL.
FetchAbort(f) ==
  /\ task[f].pc \in {"queued", "downloading", "storing", "stored"}
  /\ aborts < MaxAborts
  /\ aborts' = aborts + 1
  /\ task' = RaisedTask(f)
  /\ UNCHANGED <<intake, target, session, file, verdict, proc, deal, item,
                 outbox, crashes>>

-----------------------------------------------------------------------------
(* poll_di_document, retry=0: no exception of it is retried.               *)

MutLastAttempt(f) == task[f].attempt >= MaxPolls

LastAttempt(f) == task[f].attempt >= MaxPolls - 1

MutRescheduled(f) == [task EXCEPT ![f].pc = "backoff"]

MutUnscheduled(f) == [task EXCEPT ![f].pc = "done", ![f].attempt = @ + 1]

\* _reschedule_poll: the next attempt is a new job, scheduled after a delay.
Rescheduled(f) == [task EXCEPT ![f].pc = "backoff", ![f].attempt = @ + 1]

\* CONFIRMED or VERIFIED, FAILED or REJECTED.
Verdicts == {"accepted", "rejected"}

\* What poll_evidence_status returns, or the DiPollError it raises.
Reports == {"pending", "retryable_error", "error"} \cup Verdicts

\* Of a report that is not terminal: there is no further poll.
GivesUp(f, r) == r = "error" \/ LastAttempt(f)

PollAgain(f) ==
  /\ task[f].pc = "poll"
  /\ \E r \in Reports \ Verdicts : ~GivesUp(f, r)
  /\ task' = Rescheduled(f)
  /\ UNCHANGED <<intake, target, session, file, verdict, proc, deal, item,
                 outbox, aborts, crashes>>

\* The delay is over.
PollWakes(f) ==
  /\ task[f].pc = "backoff"
  /\ task' = [task EXCEPT ![f].pc = "poll"]
  /\ UNCHANGED <<intake, target, session, file, verdict, proc, deal, item,
                 outbox, aborts, crashes>>

\* _park_on_di_sla, whose UPDATE looks at no state.
PollPark(f) ==
  /\ task[f].pc = "poll"
  /\ \E r \in Reports \ Verdicts : GivesUp(f, r)
  /\ ~Locked(target[f])
  /\ task' = [task EXCEPT ![f].pc = "done"]
  /\ session' = [session EXCEPT ![target[f]].state = "parked",
                                ![target[f]].note = "di_sla"]
  /\ UNCHANGED <<intake, target, file, verdict, proc, deal, item, outbox,
                 aborts, crashes>>

MutMarksItem(t, v) == t # None

\* Only an accepted document with a type satisfies a checklist item.
MarksItem(t, v) == t # None /\ v = "accepted"

\* A verdict, with or without a type: the type is written to the file row.
PollTerminal(f) ==
  /\ task[f].pc = "poll"
  /\ \E v \in Verdicts, t \in DocTypes \cup {None} :
       /\ verdict' = [verdict EXCEPT ![f] = v]
       /\ file' = [file EXCEPT ![f].document_type_key = t]
       /\ task' = [task EXCEPT ![f].pc =
                     IF MarksItem(t, v) THEN "linking" ELSE "counting"]
  /\ UNCHANGED <<intake, target, session, proc, deal, item, outbox, aborts,
                 crashes>>

\* mark_satisfied is an UPDATE: it creates no item.
Satisfied(items, n, t) ==
  [items EXCEPT ![n][t] = IF @ = "absent" THEN @ ELSE "satisfied"]

\* The deal is read from the session row; without one there is nothing to
\* mark.  deal_id is never reset, so reading and marking are one step.
PollLink(f) ==
  /\ task[f].pc = "linking"
  /\ task' = [task EXCEPT ![f].pc = "counting"]
  /\ LET n == session[target[f]].deal
     IN  item' = IF n = None THEN item
                 ELSE Satisfied(item, n, file[f].document_type_key)
  /\ UNCHANGED <<intake, target, session, file, verdict, proc, deal, outbox,
                 aborts, crashes>>

\* The files that pending_count counts.
Unpolled(s) ==
  {f \in FilesOf(s) : /\ file[f].state = "stored"
                      /\ file[f].document_type_key = None}

PollCount(f) ==
  /\ task[f].pc = "counting"
  /\ task' = [task EXCEPT ![f].pc =
                IF Unpolled(target[f]) = {} THEN "nudging" ELSE "done"]
  /\ UNCHANGED <<intake, target, session, file, verdict, proc, deal, item,
                 outbox, aborts, crashes>>

\* flush_at = now() in a session that is still open.
PollNudge(f) ==
  /\ task[f].pc = "nudging"
  /\ ~Locked(target[f])
  /\ task' = [task EXCEPT ![f].pc = "done"]
  /\ session' = IF Open(target[f])
                  THEN [session EXCEPT ![target[f]].timer = "due"]
                  ELSE session
  /\ UNCHANGED <<intake, target, file, verdict, proc, deal, item, outbox,
                 aborts, crashes>>

\* Any other exception ends the chain of polls.
PollAbort(f) ==
  /\ task[f].pc \in {"poll", "linking", "counting", "nudging"}
  /\ aborts < MaxAborts
  /\ aborts' = aborts + 1
  /\ task' = [task EXCEPT ![f].pc = "done"]
  /\ UNCHANGED <<intake, target, session, file, verdict, proc, deal, item,
                 outbox, crashes>>

-----------------------------------------------------------------------------
(* The debounce timer and flush_ready_sessions, run every minute.          *)

\* flush_at < now(); of the other states' timers nothing ever reads.
TimerExpires(s) ==
  /\ session[s].state = "collecting"
  /\ session[s].timer = "armed"
  /\ ~Locked(s)
  /\ session' = [session EXCEPT ![s].timer = "due"]
  /\ UNCHANGED <<intake, target, file, task, verdict, proc, deal, item, outbox,
                 aborts, crashes>>

MutClaimStates == {"collecting", "confirming_deal"}

ClaimStates == {"collecting"}

MutClaimable(s) == /\ session[s].state \in ClaimStates
                   /\ session[s].timer = "due"
                   /\ ~Locked(s)
                   /\ FilesOf(s) # {}

Claimable(s) == /\ session[s].state \in ClaimStates
                /\ session[s].timer = "due"
                /\ ~Locked(s)

\* claim_sessions_for_flush commits the claim of all of them (LIMIT 50 is
\* above the number of sessions here) before any job is deferred.
FlushClaim ==
  /\ \E s \in Messages : Claimable(s)
  /\ session' = [s \in Messages |-> IF Claimable(s)
                                      THEN [session[s] EXCEPT !.state = "processing"]
                                      ELSE session[s]]
  /\ proc' = [s \in Messages |-> IF Claimable(s)
                                   THEN [proc[s] EXCEPT !.pc = "claimed"]
                                   ELSE proc[s]]
  /\ UNCHANGED <<intake, target, file, task, verdict, deal, item, outbox,
                 aborts, crashes>>

FlushDefer(s) ==
  /\ proc[s].pc = "claimed"
  /\ proc' = [proc EXCEPT ![s].pc = "queued"]
  /\ UNCHANGED <<intake, target, session, file, task, verdict, deal, item,
                 outbox, aborts, crashes>>

\* The loop over a batch of claims ends before all of them are deferred.
FlushLoses(pc) ==
  \E batch \in SUBSET {s \in Messages : proc[s].pc = "claimed"} \ {{}} :
    proc' = [s \in Messages |-> IF s \in batch THEN [proc[s] EXCEPT !.pc = pc]
                                              ELSE proc[s]]

\* defer_async raises in the loop, which nothing catches: the claims are
\* committed, and the periodic task, which has no retry, does not come back
\* to the session it was at or to the rest of the batch.
FlushAbort ==
  /\ aborts < MaxAborts
  /\ aborts' = aborts + 1
  /\ FlushLoses("undeferred")
  /\ UNCHANGED <<intake, target, session, file, task, verdict, deal, item,
                 outbox, crashes>>

-----------------------------------------------------------------------------
(* process_session, retry = ProcessRetries: one READ COMMITTED transaction *)
(* that reads the files, then looks for the deal, then writes.             *)

\* The columns that the SELECT of get_session_files lists, of those modelled.
SelectedColumns == {"state"}

\* f.get(column) on a row of it.
Fetched(f, column) == IF column \in SelectedColumns THEN file[f][column] ELSE None

\* all_stored, then all_polled.
ProcessRead(s) ==
  /\ proc[s].pc = "queued"
  /\ proc' = [proc EXCEPT ![s].pc =
       IF \E f \in FilesOf(s) : Fetched(f, "state") # "stored"
         THEN "files_not_ready"
         ELSE IF \E f \in FilesOf(s) : Fetched(f, "document_type_key") = None
           THEN "awaiting_di"
           ELSE "ready"]
  /\ UNCHANGED <<intake, target, session, file, task, verdict, deal, item,
                 outbox, aborts, crashes>>

\* park_session(note), in either case.
ProcessPark(s) ==
  /\ proc[s].pc \in {"files_not_ready", "awaiting_di"}
  /\ proc' = [proc EXCEPT ![s].pc = "done"]
  /\ session' = IF session[s].state = "complete" THEN session
                ELSE [session EXCEPT ![s].state = "parked",
                                     ![s].note = proc[s].pc]
  /\ UNCHANGED <<intake, target, file, task, verdict, deal, item, outbox,
                 aborts, crashes>>

\* find_existing_deal.  A row of get_session_files has no document_type_key,
\* so _extract_booking_fields finds no BOOKING_FORM: the number searched is
\* always the session's own, and with no customer name the fuzzy search is
\* never made.
ExactMatch(n) == deal[n] # "none"

ProcessFind(s) ==
  /\ proc[s].pc = "ready"
  /\ proc' = [proc EXCEPT ![s].pc =
       IF ExactMatch(BookingNumber[s]) THEN "exact_deal" ELSE "new_deal"]
  /\ UNCHANGED <<intake, target, session, file, task, verdict, deal, item,
                 outbox, aborts, crashes>>

MutInitialised(items, n) ==
  [items EXCEPT ![n] = [t \in DocTypes |->
     IF t \in Blocking \cup Optional THEN "open" ELSE items[n][t]]]

\* initialise_checklist: ON CONFLICT DO NOTHING.
Initialised(items, n) ==
  [items EXCEPT ![n] = [t \in DocTypes |->
     IF t \in Blocking \cup Optional /\ items[n][t] = "absent"
       THEN "open" ELSE items[n][t]]]

\* _satisfy_confirmed_files, on the rows of get_session_files.
SatisfiedByFiles(items, n, s) ==
  [items EXCEPT ![n] = [t \in DocTypes |->
     IF /\ items[n][t] # "absent"
        /\ \E f \in FilesOf(s) : /\ Fetched(f, "document_type_key") = t
                                 /\ Fetched(f, "di_document_id") # None
       THEN "satisfied" ELSE items[n][t]]]

MutConfirmingWrongState(s, n) ==
  IF session[s].state = "collecting"
    THEN [session EXCEPT ![s].state = "confirming_deal", ![s].deal = n,
                         ![s].timer = "armed"]
    ELSE session

\* transition_to_confirming.
Confirming(s, n) ==
  IF session[s].state = "processing"
    THEN [session EXCEPT ![s].state = "confirming_deal", ![s].deal = n,
                         ![s].timer = "armed"]
    ELSE session

\* create_provisional_deal: ON CONFLICT DO NOTHING, then the row that is there.
Created(deals, n) == [deals EXCEPT ![n] = IF @ = "none" THEN "provisional" ELSE @]

\* confirm_deal, WHERE state = 'provisional'.
Confirmed(deals, n) == [deals EXCEPT ![n] = IF @ = "provisional" THEN "confirmed" ELSE @]

\* match is None: the deal, its checklist, the session, and the interactive
\* reply.
ProcessColdStart(s) ==
  /\ proc[s].pc = "new_deal"
  /\ proc' = [proc EXCEPT ![s].pc = "done"]
  /\ LET n == BookingNumber[s]
     IN  /\ deal' = Created(deal, n)
         /\ item' = SatisfiedByFiles(Initialised(item, n), n, s)
         /\ session' = Confirming(s, n)
  /\ outbox' = outbox \cup {<<s, "deal_confirm">>}
  /\ UNCHANGED <<intake, target, file, task, verdict, aborts, crashes>>

MutChecklistComplete(items) == \E t \in Blocking : items[t] # "absent"

\* is_complete of build_checklist.
ChecklistComplete(items) ==
  /\ \E t \in Blocking : items[t] # "absent"
  /\ \A t \in Blocking : items[t] # "open"

\* match.is_exact: confirm_deal, _satisfy_confirmed_files, the gap message,
\* and mark_complete, whose UPDATE looks at no state.
ProcessExact(s) ==
  /\ proc[s].pc = "exact_deal"
  /\ proc' = [proc EXCEPT ![s].pc = "done"]
  /\ LET n == BookingNumber[s]
     IN  /\ deal' = Confirmed(deal, n)
         /\ item' = SatisfiedByFiles(item, n, s)
         /\ session' = IF ChecklistComplete(item'[n])
                         THEN [session EXCEPT ![s].state = "complete"]
                         ELSE session
  /\ outbox' = outbox \cup {<<s, "gap">>}
  /\ UNCHANGED <<intake, target, file, task, verdict, aborts, crashes>>

MutRaisedProc(s) == [proc EXCEPT ![s].pc = "failed"]

RaisedProc(s) ==
  IF proc[s].tries < ProcessRetries
    THEN [proc EXCEPT ![s].pc = "queued", ![s].tries = @ + 1]
    ELSE [proc EXCEPT ![s].pc = "failed"]

\* An exception rolls the transaction back; the job is retried.
ProcessAbort(s) ==
  /\ proc[s].pc \in {"queued", "files_not_ready", "awaiting_di", "ready",
                     "new_deal", "exact_deal"}
  /\ aborts < MaxAborts
  /\ aborts' = aborts + 1
  /\ proc' = RaisedProc(s)
  /\ UNCHANGED <<intake, target, session, file, task, verdict, deal, item,
                 outbox, crashes>>

-----------------------------------------------------------------------------
(* A worker dies.  Procrastinate leaves the job it had in hand in 'doing', *)
(* and nothing in src/ retries stalled jobs; the transaction it was in is  *)
(* rolled back.  flush_ready_sessions loses the claims it has not deferred.*)

Died == crashes < MaxCrashes /\ crashes' = crashes + 1

IntakeDies(m) ==
  /\ intake[m] \in {"creating", "opened", "registered", "committed"}
  /\ Died
  /\ intake' = [intake EXCEPT ![m] = "crashed"]
  /\ UNCHANGED <<target, session, file, task, verdict, proc, deal, item,
                 outbox, aborts>>

TaskDies(f) ==
  /\ task[f].pc \notin {"none", "done", "lost"}
  /\ Died
  /\ task' = [task EXCEPT ![f].pc = "lost"]
  /\ UNCHANGED <<intake, target, session, file, verdict, proc, deal, item,
                 outbox, aborts>>

FlushDies ==
  /\ Died
  /\ FlushLoses("lost")
  /\ UNCHANGED <<intake, target, session, file, task, verdict, deal, item,
                 outbox, aborts>>

ProcessDies(s) ==
  /\ proc[s].pc \in {"queued", "files_not_ready", "awaiting_di", "ready",
                     "new_deal", "exact_deal"}
  /\ Died
  /\ proc' = [proc EXCEPT ![s].pc = "lost"]
  /\ UNCHANGED <<intake, target, session, file, task, verdict, deal, item,
                 outbox, aborts>>

-----------------------------------------------------------------------------

IntakeStep(m) == IntakeInsert(m) \/ IntakeRegister(m) \/ IntakeCommit(m) \/ IntakeMark(m)

FetchStep(f) ==
  \/ FetchFindsNoRow(f) \/ FetchNoJourney(f) \/ FetchStart(f)
  \/ FetchDownloaded(f) \/ FetchGivesUp(f) \/ FetchRaises(f)
  \/ FetchStores(f) \/ FetchDefersPoll(f)

PollStep(f) ==
  \/ PollAgain(f) \/ PollWakes(f) \/ PollPark(f) \/ PollTerminal(f)
  \/ PollLink(f) \/ PollCount(f) \/ PollNudge(f)

ProcessStep(s) ==
  \/ ProcessRead(s) \/ ProcessPark(s) \/ ProcessFind(s)
  \/ ProcessColdStart(s) \/ ProcessExact(s)

Next ==
  \/ \E m \in Messages : \/ IntakeIgnore(m) \/ IntakeSelect(m) \/ IntakeStep(m)
                         \/ IntakeAbort(m) \/ IntakeDies(m)
  \/ \E f \in Media : \/ FetchStep(f) \/ FetchAbort(f)
                      \/ PollStep(f) \/ PollAbort(f) \/ TaskDies(f)
  \/ FlushClaim \/ FlushAbort \/ FlushDies
  \/ \E s \in Messages : \/ TimerExpires(s) \/ FlushDefer(s) \/ ProcessStep(s)
                         \/ ProcessAbort(s) \/ ProcessDies(s)

Spec == Init /\ [][Next]_vars

\* Workers keep taking the jobs they have, time passes, and cron fires every
\* minute.  Nothing is assumed of messages (IntakeSelect), exceptions, deaths.
Fairness ==
  /\ \A m \in Messages : WF_vars(IntakeStep(m))
  /\ \A f \in Media : WF_vars(FetchStep(f)) /\ WF_vars(PollStep(f))
  /\ WF_vars(FlushClaim)
  /\ \A s \in Messages : /\ WF_vars(TimerExpires(s)) /\ WF_vars(FlushDefer(s))
                         /\ WF_vars(ProcessStep(s))

FairSpec == Spec /\ Fairness

-----------------------------------------------------------------------------
(* Safety.                                                                 *)

\* The promise of wa_session_one_open_per_contact, kept although sessions are
\* selected, inserted, flushed, parked and confirmed by different jobs: a
\* contact never has two open sessions, so get_or_create_session is a function.
OneOpenSession ==
  \A s, t \in Messages : Open(s) /\ Open(t) /\ Sender[s] = Sender[t] => s = t

\* A checklist item is satisfied only by evidence that DI accepted, as that
\* type, from a session that is linked to the item's deal (poll_di_document
\* and mark_satisfied; process_session may mark nothing else).
SatisfiedByAcceptedEvidence ==
  \A n \in Numbers, t \in DocTypes : item[n][t] = "satisfied" =>
    \E f \in Media : /\ verdict[f] = "accepted"
                     /\ file[f].document_type_key = t
                     /\ session[target[f]].deal = n

\* A complete session's deal has every blocking document, although the
\* session may have been completed by the documents of another session.
CompleteMeansSatisfied ==
  \A s \in Messages : session[s].state = "complete" =>
    \A t \in Blocking : item[BookingNumber[s]][t] = "satisfied"

\* A PC who is asked to confirm a deal has a session that is linked to it and
\* the deal has its checklist, unless a poll parked the session meanwhile:
\* create_provisional_deal, initialise_checklist, transition_to_confirming and
\* enqueue_reply agree although the session may change under process_session.
PromptIsBackedOrParked ==
  \A s \in Messages : <<s, "deal_confirm">> \in outbox =>
    /\ deal[BookingNumber[s]] # "none"
    /\ \A t \in Blocking \cup Optional : item[BookingNumber[s]][t] # "absent"
    /\ session[s].deal = BookingNumber[s] \/ session[s].state = "parked"

\* An item that was satisfied stays so, although two sessions with one
\* booking number may each initialise the checklist of the deal
\* (initialise_checklist inserts ON CONFLICT DO NOTHING).
ChecklistNeverRegresses ==
  [][\A n \in Numbers, t \in DocTypes :
       item[n][t] = "satisfied" => item'[n][t] = "satisfied"]_vars

\* Every job's effect on wa.session is a step of the session's life cycle:
\* flushed once, linked to a deal once, never collecting again.
Lifecycle == INSTANCE SessionLifecycle WITH
               Sessions <- Messages, Owner <- Sender, Deals <- Numbers,
               NoDeal <- None,
               state <- [s \in Messages |-> session[s].state],
               deal <- [s \in Messages |-> session[s].deal]

FollowsLifecycle == Lifecycle!Spec

\* A fetch job of a file, whose poll no longer concerns FileLifecycle.
FetchPhase(f) ==
  IF task[f].pc \in {"none", "queued", "downloading", "storing", "stored"}
    THEN task[f].pc ELSE "over"

Fetching == INSTANCE FileLifecycle WITH
              Files <- Media, Jobs <- Media, FileOf <- [f \in Media |-> f],
              Retries <- FetchRetries,
              state <- [f \in Media |-> file[f].state],
              at <- [f \in Media |-> FetchPhase(f)],
              tries <- [f \in Media |-> task[f].tries]

\* The fetching of a file, amid the intakes, polls and flushes that touch its
\* rows and jobs, is the one that EvidenceFile gives in full.
FollowsFileLifecycle == Fetching!Spec

\* Nothing works, or is going to work, on a claimed session.
ProcessingOver(s) ==
  proc[s].pc \in {"none", "undeferred", "done", "failed", "lost"}

\* No session is left in 'processing' by its jobs alone.  It takes a worker's
\* death with the session in hand, an exception of flush_ready_sessions
\* between the claim and the deferral, more exceptions than process_session
\* is retried, or the booking number of another session, whose deal
\* process_session then takes for its own.
StuckProcessingHasCause ==
  \A s \in Messages : session[s].state = "processing" /\ ProcessingOver(s) =>
    \/ proc[s].pc = "lost" /\ crashes > 0
    \/ proc[s].pc = "undeferred" /\ aborts > 0
    \/ proc[s].pc = "failed" /\ aborts > ProcessRetries
    \/ /\ proc[s].pc = "done"
       /\ \E t \in Messages \ {s} : BookingNumber[t] = BookingNumber[s]

\* Evidence without a verdict has a chain of polls that goes on, or its
\* session was parked, unless an exception or a death broke the chain: the
\* job that stores, the jobs that poll and the one that parks hand over to
\* each other without a gap.
UnjudgedIsPolled ==
  \A f \in Media :
    file[f].state = "stored" /\ verdict[f] = "open" /\ task[f].pc \in {"done", "lost"} =>
      aborts > 0 \/ crashes > 0 \/ session[target[f]].state \in {"parked", "complete"}

-----------------------------------------------------------------------------
(* Liveness, of FairSpec.                                                  *)

\* Whatever arrives, fails or dies, a session does not collect for ever: the
\* media that re-arm its timer are finite and every lock on it is released.
DebounceEnds ==
  \A s \in Messages : session[s].state = "collecting"
                        ~> session[s].state # "collecting"

\* Every chain of polls ends (_MAX_DI_POLL_ATTEMPTS), however DI answers.
PollChainsEnd ==
  \A f \in Media : task[f].pc = "poll" ~> task[f].pc \in {"done", "lost"}

\* A claimed session leaves 'processing' unless its own job was never
\* deferred, died or failed for good, as long as no two sessions have the
\* same booking number: an exception is made up for by a retry.
ClaimedSessionSettles ==
  \A s \in Messages :
    session[s].state = "processing"
      ~> \/ session[s].state # "processing"
         \/ proc[s].pc \in {"undeferred", "lost"}
         \/ proc[s].pc = "failed" /\ aborts > ProcessRetries

-----------------------------------------------------------------------------
(* What the repository's comments and documentation say and the code does  *)
(* not do.  Each is the property of a run that TLC finds violated.         *)

\* worker.py:641 "DI still processing - re-park": process_session turns back
\* with awaiting_di only while some file of the session has no type.
AwaitingDiOnlyWhileUntyped ==
  [][\A s \in Messages :
       proc'[s].pc = "awaiting_di" /\ proc[s].pc # "awaiting_di" =>
         \E f \in FilesOf(s) : file[f].document_type_key = None]_vars

\* session.py:10 "The debounce timer lives on the session row (flush_at),
\* never in memory, so it survives pod restarts": a due session is processed
\* although a worker dies.
FlushSurvivesRestart ==
  \A s \in Messages : session[s].state = "processing"
                        ~> session[s].state # "processing"

=============================================================================
