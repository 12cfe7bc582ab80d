------------------------------- MODULE Inbox -------------------------------
(***************************************************************************)
(* From POST /wa/webhook to wa.file: receive_webhook, insert_inbox,        *)
(* dispatch_inbox_processing and what process_inbox_row does with the row. *)
(*                                                                         *)
(* Meta delivers a payload again when it is not answered with 200, also    *)
(* while the first delivery is still handled.  A payload is the sequence   *)
(* of its messages, all of them media, unless its body is garbled; a       *)
(* wa.inbox row is named by the delivery that INSERTs it.  What a session  *)
(* makes of a file is in CaptureSession.                                   *)
(***************************************************************************)
EXTENDS Naturals, Sequences, FiniteSets

CONSTANTS
  Deliveries,  \* the POSTs that arrive
  Wamids,      \* ids of messages
  Messages,    \* the messages in the payload of a delivery
  Signed,      \* the deliveries whose signature verifies
  Garbled,     \* those whose body json.loads rejects
  None,
  MaxMishaps   \* bound: failures, below the 3 retries of process_inbox_row

ASSUME InboxAssumption ==
  /\ Messages \in [Deliveries -> Seq(Wamids)]
  /\ Signed \cup Garbled \subseteq Deliveries
  /\ None \notin Deliveries \cup Wamids
  /\ MaxMishaps \in Nat

VARIABLES
  post,    \* d |-> where receive_webhook stands, then its answer
  inbox,   \* d |-> wa.inbox.state of the row that d inserted
  job,     \* d |-> process_inbox_row of that row: queued, what it will mark, ...
  file,    \* w |-> the inbox row under which w got its wa.file row, or None
  mishaps  \* failures so far

vars == <<post, inbox, job, file, mishaps>>

PostStates == {"received", "inserting", "dispatching", "ok", "error"}
InboxStates == {"absent", "pending", "done", "failed", "ignored"}
JobStates == {"none", "queued", "done", "failed", "ignored", "over", "lost"}

\* The values of the variables; a job, and a dispatch, have their row.
TypeOK ==
  /\ post \in [Deliveries -> PostStates]
  /\ inbox \in [Deliveries -> InboxStates]
  /\ job \in [Deliveries -> JobStates]
  /\ file \in [Wamids -> Deliveries \cup {None}]
  /\ mishaps \in 0..MaxMishaps
  /\ \A d \in Deliveries :
       post[d] = "dispatching" \/ job[d] # "none" => inbox[d] # "absent"

Init ==
  /\ post = [d \in Deliveries |-> "received"]
  /\ inbox = [d \in Deliveries |-> "absent"]
  /\ job = [d \in Deliveries |-> "none"]
  /\ file = [w \in Wamids |-> None]
  /\ mishaps = 0

Mishap == mishaps < MaxMishaps /\ mishaps' = mishaps + 1

-----------------------------------------------------------------------------
(* receive_webhook                                                         *)

\* _extract_wamid: the first message speaks for the payload.
Wamid(d) == IF Messages[d] = <<>> THEN None ELSE Head(Messages[d])

Rows == {d \in Deliveries : inbox[d] # "absent"}

Recorded(d) == Wamid(d) # None /\ \E e \in Rows : Wamid(e) = Wamid(d)

\* insert_inbox returns None before it looks at the database: 200, no row.
Unparseable(d) ==
  /\ post[d] = "received"
  /\ d \in Garbled
  /\ post' = [post EXCEPT ![d] = "ok"]
  /\ UNCHANGED <<inbox, job, file, mishaps>>

Duplicate(d) ==
  /\ post[d] = "received"
  /\ d \notin Garbled
  /\ Recorded(d)
  /\ post' = [post EXCEPT ![d] = "ok"]
  /\ UNCHANGED <<inbox, job, file, mishaps>>

\* The job before its row.
MutAfterLookup == "dispatching"

AfterLookup == "inserting"

IsNew(d) ==
  /\ post[d] = "received"
  /\ d \notin Garbled
  /\ ~Recorded(d)
  /\ post' = [post EXCEPT ![d] = AfterLookup]
  /\ UNCHANGED <<inbox, job, file, mishaps>>

\* wamid is UNIQUE; a status update has none.
MutInsertable(d) == TRUE

Insertable(d) == ~Recorded(d)

Inserts(d) ==
  /\ post[d] = "inserting"
  /\ Insertable(d)
  /\ inbox' = [inbox EXCEPT ![d] = "pending"]
  /\ post' = [post EXCEPT ![d] = "dispatching"]
  /\ UNCHANGED <<job, file, mishaps>>

\* An exception of _write_inbox is not caught.
MutWriteFailure == "ok"

WriteFailure == "error"

\* IntegrityError: another delivery committed the wamid since the SELECT.
InsertConflicts(d) ==
  /\ post[d] = "inserting"
  /\ ~Insertable(d)
  /\ post' = [post EXCEPT ![d] = WriteFailure]
  /\ UNCHANGED <<inbox, job, file, mishaps>>

\* The database refuses the connection or the write; or _extract_wamid
\* raises, the JSON being of another shape than Meta's.
WriteFails(d) ==
  /\ post[d] \in {"received", "inserting"}
  /\ Mishap
  /\ post' = [post EXCEPT ![d] = WriteFailure]
  /\ UNCHANGED <<inbox, job, file>>

Dispatches(d) ==
  /\ post[d] = "dispatching"
  /\ job' = [job EXCEPT ![d] = "queued"]
  /\ post' = [post EXCEPT ![d] = "ok"]
  /\ UNCHANGED <<inbox, file, mishaps>>

\* "wa_dispatch_failed" is logged and answered with 200, or the process dies
\* after the COMMIT: the row has no job.
DispatchFails(d) ==
  /\ post[d] = "dispatching"
  /\ Mishap
  /\ \E answer \in {"ok", "error"} : post' = [post EXCEPT ![d] = answer]
  /\ UNCHANGED <<inbox, job, file>>

-----------------------------------------------------------------------------
(* process_inbox_row                                                       *)

Outcome(d, s) == job' = [job EXCEPT ![d] = s]

\* signature_ok is false, or resolve_full_context raises RoutingError.
JobIgnores(d) ==
  /\ job[d] = "queued"
  /\ Outcome(d, "ignored")
  /\ UNCHANGED <<post, inbox, file, mishaps>>

\* Another exception rolls back and is swallowed.
JobFails(d) ==
  /\ job[d] = "queued"
  /\ d \in Signed
  /\ Outcome(d, "failed")
  /\ UNCHANGED <<post, inbox, file, mishaps>>

\* INSERT ... ON CONFLICT (wamid) DO NOTHING.
MutRegistered(w, d) == d

Registered(w, d) == IF file[w] = None THEN d ELSE file[w]

MutPayload(d) == {Wamid(d)} \ {None}

Payload(d) == {Messages[d][i] : i \in 1..Len(Messages[d])}

\* A status update has no sender and ends in RoutingError.
JobRegisters(d) ==
  /\ job[d] = "queued"
  /\ d \in Signed
  /\ Wamid(d) # None
  /\ file' = [w \in Wamids |-> IF w \in Payload(d) THEN Registered(w, d) ELSE file[w]]
  /\ Outcome(d, "done")
  /\ UNCHANGED <<post, inbox, mishaps>>

\* _mark_inbox, in a transaction of its own, and the job ends.
JobMarks(d) ==
  /\ job[d] \in {"done", "failed", "ignored"}
  /\ inbox' = [inbox EXCEPT ![d] = job[d]]
  /\ Outcome(d, "over")
  /\ UNCHANGED <<post, file, mishaps>>

MutAfterRaise == "over"

\* retry = 3: the job is run again from its start.
AfterRaise == "queued"

\* _mark_inbox raises.
JobRaises(d) ==
  /\ job[d] \in {"done", "failed", "ignored"}
  /\ Mishap
  /\ Outcome(d, AfterRaise)
  /\ UNCHANGED <<post, inbox, file>>

\* Procrastinate leaves the job of a dead worker in 'doing'.
JobDies(d) ==
  /\ job[d] \in {"queued", "done", "failed", "ignored"}
  /\ Mishap
  /\ Outcome(d, "lost")
  /\ UNCHANGED <<post, inbox, file>>

-----------------------------------------------------------------------------

Receive(d) ==
  \/ Unparseable(d) \/ Duplicate(d) \/ IsNew(d)
  \/ Inserts(d) \/ InsertConflicts(d) \/ Dispatches(d)

Process(d) == JobIgnores(d) \/ JobFails(d) \/ JobRegisters(d) \/ JobMarks(d)

Next ==
  \E d \in Deliveries :
    \/ Receive(d) \/ WriteFails(d) \/ DispatchFails(d)
    \/ Process(d) \/ JobRaises(d) \/ JobDies(d)

Spec == Init /\ [][Next]_vars

\* A request that arrived is handled, and a worker takes the jobs.
FairSpec ==
  Spec /\ \A d \in Deliveries : WF_vars(Receive(d)) /\ WF_vars(Process(d))

-----------------------------------------------------------------------------

\* Of the deliveries of a message, concurrent ones included, one has a row,
\* so one job at a time works on it.
OneRowPerMessage ==
  \A d, e \in Rows : Wamid(d) = Wamid(e) /\ Wamid(d) # None => d = e

\* Meta does not deliver again what was answered with 200.  By then a
\* committed row, of this delivery or of another, has the first message of a
\* body that parses, and a status update has its own row.  It says nothing of
\* the messages behind a repeated first one: those are dropped.
AnsweredIsRecorded ==
  \A d \in Deliveries \ Garbled : post[d] = "ok" => d \in Rows \/ Recorded(d)

\* A row marked 'done' has all the files of its payload, under whichever
\* row came first.
DoneIsRegistered ==
  \A d \in Deliveries : inbox[d] = "done" =>
    \A i \in 1..Len(Messages[d]) : file[Messages[d][i]] \in Signed

\* A message keeps its one wa.file row, with its session, when its row is
\* processed again or another payload repeats it.
FilesStay == [][\A w \in Wamids : file[w] # None => file'[w] = file[w]]_file

\* The row was committed, but its job was never deferred.
Undispatched(d) ==
  inbox[d] = "pending" /\ job[d] = "none" /\ post[d] \in {"ok", "error"}

\* A row leaves 'pending' unless its own dispatch failed or its own job died:
\* an exception of the job is marked, and one of the marking is retried.
RowsSettle ==
  \A d \in Deliveries :
    inbox[d] = "pending" ~> inbox[d] # "pending" \/ Undispatched(d) \/ job[d] = "lost"

=============================================================================
