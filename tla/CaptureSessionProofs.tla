------------------------ MODULE CaptureSessionProofs ------------------------
(***************************************************************************)
(* Theorems about CaptureSession, for every number of messages, contacts   *)
(* and booking numbers, whatever the retries and however often jobs raise  *)
(* or workers die.                                                         *)
(***************************************************************************)
EXTENDS CaptureSession, TLAPS

-----------------------------------------------------------------------------
(* What the operators on checklist items return.                           *)

\* Marking an item leaves a checklist.
LEMMA SatisfiedType ==
  ASSUME NEW items \in [Numbers -> [DocTypes -> ItemStates]],
         NEW n \in Numbers, NEW t
  PROVE  Satisfied(items, n, t) \in [Numbers -> [DocTypes -> ItemStates]]
<1>1. items[n] \in [DocTypes -> ItemStates]
  OBVIOUS
<1>2. [items[n] EXCEPT ![t] = IF @ = "absent" THEN @ ELSE "satisfied"]
        \in [DocTypes -> ItemStates]
  BY <1>1 DEF ItemStates
<1> QED
  BY <1>2 DEF Satisfied

\* Initialising leaves a checklist.
LEMMA InitialisedType ==
  ASSUME NEW items \in [Numbers -> [DocTypes -> ItemStates]], NEW n \in Numbers
  PROVE  Initialised(items, n) \in [Numbers -> [DocTypes -> ItemStates]]
<1>1. [t \in DocTypes |-> IF t \in Blocking \cup Optional /\ items[n][t] = "absent"
                            THEN "open" ELSE items[n][t]] \in [DocTypes -> ItemStates]
  BY DEF ItemStates
<1> QED
  BY <1>1 DEF Initialised

\* get_session_files fetches neither a type nor a document id, so
\* _satisfy_confirmed_files leaves every item as it is.
LEMMA SatisfiedByFilesIsIdentity ==
  ASSUME NEW items \in [Numbers -> [DocTypes -> ItemStates]],
         NEW n \in Numbers, NEW s \in Messages
  PROVE  SatisfiedByFiles(items, n, s) = items
<1>1. \A f : Fetched(f, "di_document_id") = None
  BY DEF Fetched, SelectedColumns
<1>2. [t \in DocTypes |->
         IF /\ items[n][t] # "absent"
            /\ \E f \in FilesOf(s) : /\ Fetched(f, "document_type_key") = t
                                     /\ Fetched(f, "di_document_id") # None
           THEN "satisfied" ELSE items[n][t]] = items[n]
  BY <1>1
<1> QED
  BY <1>2 DEF SatisfiedByFiles

-----------------------------------------------------------------------------
(* Type correctness.                                                       *)

\* The types hold at the start.
LEMMA InitType == Init => TypeOK
<1> SUFFICES ASSUME Init PROVE TypeOK
  OBVIOUS
<1>1. 0 \in 0..(MaxPolls - 1)
  BY BoundsAssumption
<1>2. 0 \in 0..FetchRetries /\ 0 \in 0..ProcessRetries
  BY BoundsAssumption
<1>3. 0 \in 0..MaxAborts /\ 0 \in 0..MaxCrashes
  BY BoundsAssumption
<1>4. item \in [Numbers -> [DocTypes -> ItemStates]]
  BY DEF Init, ItemStates
<1>5. session \in [Messages -> SessionRow]
  BY DEF Init, SessionRow, SessionStates, Notes
<1>6. file \in [Media -> FileRow]
  BY DEF Init, FileRow, FileStates
<1>7. task \in [Media -> TaskJob]
  BY <1>1, <1>2 DEF Init, TaskJob, TaskSteps
<1>8. proc \in [Messages -> ProcJob]
  BY <1>2 DEF Init, ProcJob, ProcSteps
<1> QED
  BY <1>3, <1>4, <1>5, <1>6, <1>7, <1>8 DEF Init, TypeOK, IntakeStates

\* A row or a job that moves to another state keeps the type of its table.

\* A session may change its state to any other.
LEMMA SessionMoves ==
  ASSUME TypeOK, NEW s, NEW st \in SessionStates
  PROVE  [session EXCEPT ![s].state = st] \in [Messages -> SessionRow]
<1>1. session \in [Messages -> SessionRow]
  BY DEF TypeOK
<1>2. \A row \in SessionRow : [row EXCEPT !.state = st] \in SessionRow
  BY DEF SessionRow
<1> QED
  BY <1>1, <1>2

\* A session may be parked.
LEMMA SessionParks ==
  ASSUME TypeOK, NEW s, NEW note \in Notes
  PROVE  [session EXCEPT ![s].state = "parked", ![s].note = note]
           \in [Messages -> SessionRow]
<1> DEFINE parked == [session EXCEPT ![s].state = "parked"]
<1>1. parked \in [Messages -> SessionRow]
  BY SessionMoves DEF SessionStates
<1> HIDE DEF parked
<1>2. [parked EXCEPT ![s].note = note] \in [Messages -> SessionRow]
  BY <1>1 DEF SessionRow
<1> QED
  BY <1>2 DEF parked

\* A session may be given its deal.
LEMMA SessionConfirms ==
  ASSUME TypeOK, NEW s, NEW n \in Numbers
  PROVE  Confirming(s, n) \in [Messages -> SessionRow]
<1> DEFINE moved == [session EXCEPT ![s].state = "confirming_deal"]
           linked == [moved EXCEPT ![s].deal = n]
<1>1. moved \in [Messages -> SessionRow]
  BY SessionMoves DEF SessionStates
<1> HIDE DEF moved
<1>2. linked \in [Messages -> SessionRow]
  BY <1>1 DEF SessionRow
<1> HIDE DEF linked
<1>3. [linked EXCEPT ![s].timer = "armed"] \in [Messages -> SessionRow]
  BY <1>2 DEF SessionRow
<1> QED
  BY <1>3 DEF Confirming, TypeOK, moved, linked

\* A file may change its state.
LEMMA FileMoves ==
  ASSUME TypeOK, NEW f \in Media, NEW st \in FileStates
  PROVE  [file EXCEPT ![f].state = st] \in [Media -> FileRow]
BY DEF TypeOK, FileRow

\* A file may get its evidence.
LEMMA FileStored ==
  ASSUME TypeOK, NEW f \in Media
  PROVE  [file EXCEPT ![f].state = "stored", ![f].di_document_id = "evidence"]
           \in [Media -> FileRow]
<1> DEFINE moved == [file EXCEPT ![f].state = "stored"]
<1>1. moved \in [Media -> FileRow]
  BY FileMoves DEF FileStates
<1> HIDE DEF moved
<1>2. [moved EXCEPT ![f].di_document_id = "evidence"] \in [Media -> FileRow]
  BY <1>1 DEF FileRow
<1> QED
  BY <1>2 DEF moved

\* A debounce timer may be set.
LEMMA TimerMoves ==
  ASSUME TypeOK, NEW s, NEW t \in {"armed", "due"}
  PROVE  [session EXCEPT ![s].timer = t] \in [Messages -> SessionRow]
<1>1. session \in [Messages -> SessionRow]
  BY DEF TypeOK
<1>2. \A row \in SessionRow : [row EXCEPT !.timer = t] \in SessionRow
  BY DEF SessionRow
<1> QED
  BY <1>1, <1>2

\* A fetch or poll job may move on.
LEMMA TaskMoves ==
  ASSUME TypeOK, NEW f \in Media, NEW pc \in TaskSteps
  PROVE  [task EXCEPT ![f].pc = pc] \in [Media -> TaskJob]
BY DEF TypeOK, TaskJob

\* A process_session job may move on.
LEMMA ProcMoves ==
  ASSUME TypeOK, NEW s \in Messages, NEW pc \in ProcSteps
  PROVE  [proc EXCEPT ![s].pc = pc] \in [Messages -> ProcJob]
BY DEF TypeOK, ProcJob

\* A retried job stays within its retries.
LEMMA RaisedTaskType ==
  ASSUME TypeOK, NEW f \in Media
  PROVE  RaisedTask(f) \in [Media -> TaskJob]
<1>1. task[f] \in TaskJob
  BY DEF TypeOK
<1>2. CASE task[f].tries < FetchRetries
  <2>1. task[f].tries + 1 \in 0..FetchRetries
    BY <1>1, <1>2, BoundsAssumption DEF TaskJob
  <2> QED
    BY <1>1, <1>2, <2>1 DEF TypeOK, RaisedTask, TaskJob, TaskSteps
<1>3. CASE ~(task[f].tries < FetchRetries)
  BY <1>3, TaskMoves DEF RaisedTask, TaskSteps
<1> QED
  BY <1>2, <1>3

\* A retried process_session stays within its retries.
LEMMA RaisedProcType ==
  ASSUME TypeOK, NEW s \in Messages
  PROVE  RaisedProc(s) \in [Messages -> ProcJob]
<1>1. proc[s] \in ProcJob
  BY DEF TypeOK
<1>2. CASE proc[s].tries < ProcessRetries
  <2>1. proc[s].tries + 1 \in 0..ProcessRetries
    BY <1>1, <1>2, BoundsAssumption DEF ProcJob
  <2> QED
    BY <1>1, <1>2, <2>1 DEF TypeOK, RaisedProc, ProcJob, ProcSteps
<1>3. CASE ~(proc[s].tries < ProcessRetries)
  BY <1>3, ProcMoves DEF RaisedProc, ProcSteps
<1> QED
  BY <1>2, <1>3

\* process_inbox_row.
LEMMA IntakeType ==
  ASSUME TypeOK, NEW m \in Messages,
         \/ IntakeIgnore(m) \/ IntakeSelect(m) \/ IntakeStep(m)
         \/ IntakeAbort(m) \/ IntakeDies(m)
  PROVE  TypeOK'
<1>1. CASE IntakeIgnore(m)
  BY <1>1 DEF IntakeIgnore, IntakeStates, TypeOK
<1>2. CASE IntakeSelect(m)
  <2>1. intake' \in [Messages -> IntakeStates]
    <3>1. {"creating", "opened"} \subseteq IntakeStates
      BY DEF IntakeStates
    <3> QED
      BY <1>2, <3>1 DEF IntakeSelect, TypeOK
  <2>2. target' \in [Messages -> Messages \cup {None}]
    BY <1>2 DEF IntakeSelect, OpenOf, TypeOK
  <2> QED
    BY <1>2, <2>1, <2>2 DEF IntakeSelect, TypeOK
<1>3. CASE IntakeInsert(m)
  <2>1. intake' \in [Messages -> IntakeStates]
    BY <1>3 DEF IntakeInsert, IntakeStates, TypeOK
  <2>2. target' \in [Messages -> Messages \cup {None}]
    BY <1>3 DEF IntakeInsert, TypeOK
  <2> QED
    BY <1>3, <2>1, <2>2 DEF IntakeInsert, TypeOK
<1>4. CASE IntakeRegister(m)
  BY <1>4, TaskMoves DEF IntakeRegister, IntakeStates, TaskSteps, TypeOK
<1>5. CASE IntakeCommit(m)
  <2>1. session' \in [Messages -> SessionRow]
    <3>1. CASE target[m] = m
      BY <1>5, <3>1, SessionMoves DEF IntakeCommit, SessionStates
    <3>2. CASE target[m] # m
      BY <1>5, <3>2, TimerMoves DEF IntakeCommit, TypeOK
    <3> QED
      BY <3>1, <3>2
  <2>2. file' \in [Media -> FileRow]
    BY <1>5, FileMoves DEF IntakeCommit, FileStates, TypeOK
  <2> QED
    BY <1>5, <2>1, <2>2 DEF IntakeCommit, IntakeStates, TypeOK
<1>6. CASE IntakeMark(m)
  BY <1>6 DEF IntakeMark, IntakeStates, TypeOK
<1>7. CASE IntakeAbort(m)
  BY <1>7, BoundsAssumption DEF IntakeAbort, IntakeStates, TypeOK
<1>8. CASE IntakeDies(m)
  BY <1>8, BoundsAssumption DEF IntakeDies, Died, IntakeStates, TypeOK
<1> QED
  BY <1>1, <1>2, <1>3, <1>4, <1>5, <1>6, <1>7, <1>8 DEF IntakeStep

\* fetch_and_store_file, and the death of either job of a file.
LEMMA FetchType ==
  ASSUME TypeOK, NEW f \in Media, FetchStep(f) \/ FetchAbort(f) \/ TaskDies(f)
  PROVE  TypeOK'
<1>t. {"downloading", "storing", "stored", "poll", "done", "lost"} \subseteq TaskSteps
  BY DEF TaskSteps
<1>s. {"downloading", "storing", "failed", "quarantined"} \subseteq FileStates
  BY DEF FileStates
<1>1. CASE FetchFindsNoRow(f)
  BY <1>1, <1>t, TaskMoves DEF FetchFindsNoRow, TypeOK
<1>2. CASE FetchNoJourney(f)
  BY <1>2, <1>t, <1>s, TaskMoves, FileMoves DEF FetchNoJourney, TypeOK
<1>3. CASE FetchStart(f)
  BY <1>3, <1>t, <1>s, TaskMoves, FileMoves DEF FetchStart, TypeOK
<1>4. CASE FetchDownloaded(f)
  BY <1>4, <1>t, <1>s, TaskMoves, FileMoves DEF FetchDownloaded, TypeOK
<1>5. CASE FetchGivesUp(f)
  BY <1>5, <1>t, <1>s, TaskMoves, FileMoves DEF FetchGivesUp, TypeOK
<1>6. CASE FetchRaises(f)
  <2>1. file' \in [Media -> FileRow]
    BY <1>6, <1>s, FileMoves DEF FetchRaises
  <2> QED
    BY <1>6, <2>1, RaisedTaskType DEF FetchRaises, TypeOK
<1>7. CASE FetchStores(f)
  <2>1. task' \in [Media -> TaskJob]
    BY <1>7, <1>t, TaskMoves DEF FetchStores
  <2>2. file' \in [Media -> FileRow]
    BY <1>7, FileStored DEF FetchStores
  <2> QED
    BY <1>7, <2>1, <2>2 DEF FetchStores, TypeOK
<1>8. CASE FetchDefersPoll(f)
  BY <1>8, <1>t, TaskMoves DEF FetchDefersPoll, TypeOK
<1>9. CASE FetchAbort(f)
  BY <1>9, RaisedTaskType, BoundsAssumption DEF FetchAbort, TypeOK
<1>10. CASE TaskDies(f)
  BY <1>10, <1>t, TaskMoves, BoundsAssumption DEF TaskDies, Died, TypeOK
<1> QED
  BY <1>1, <1>2, <1>3, <1>4, <1>5, <1>6, <1>7, <1>8, <1>9, <1>10 DEF FetchStep

\* poll_di_document.
LEMMA PollType ==
  ASSUME TypeOK, NEW f \in Media, PollStep(f) \/ PollAbort(f)
  PROVE  TypeOK'
<1>t. {"poll", "counting", "nudging", "done"} \subseteq TaskSteps
  BY DEF TaskSteps
<1>1. CASE PollAgain(f)
  <2>1. task[f] \in TaskJob
    BY DEF TypeOK
  <2>2. task[f].attempt + 1 \in 0..(MaxPolls - 1)
    BY <1>1, <2>1, BoundsAssumption DEF PollAgain, GivesUp, LastAttempt, TaskJob
  <2>3. task' \in [Media -> TaskJob]
    BY <1>1, <2>1, <2>2 DEF PollAgain, Rescheduled, TaskJob, TaskSteps, TypeOK
  <2> QED
    BY <1>1, <2>3 DEF PollAgain, TypeOK
<1>2. CASE PollWakes(f)
  BY <1>2, <1>t, TaskMoves DEF PollWakes, TypeOK
<1>3. CASE PollPark(f)
  <2>1. session' \in [Messages -> SessionRow]
    BY <1>3, SessionParks DEF PollPark, Notes
  <2>2. task' \in [Media -> TaskJob]
    BY <1>3, <1>t, TaskMoves DEF PollPark
  <2> QED
    BY <1>3, <2>1, <2>2 DEF PollPark, TypeOK
<1>4. CASE PollTerminal(f)
  <2>1. PICK v \in {"accepted", "rejected"}, t \in DocTypes \cup {None} :
          /\ verdict' = [verdict EXCEPT ![f] = v]
          /\ file' = [file EXCEPT ![f].document_type_key = t]
          /\ task' = [task EXCEPT ![f].pc =
                        IF MarksItem(t, v) THEN "linking" ELSE "counting"]
    BY <1>4 DEF PollTerminal, Verdicts
  <2>2. file' \in [Media -> FileRow]
    BY <2>1 DEF FileRow, TypeOK
  <2>3. task' \in [Media -> TaskJob]
    BY <2>1, TaskMoves DEF TaskSteps
  <2>4. verdict' \in [Media -> {"open", "accepted", "rejected"}]
    BY <2>1 DEF TypeOK
  <2> QED
    BY <1>4, <2>2, <2>3, <2>4 DEF PollTerminal, TypeOK
<1>5. CASE PollLink(f)
  <2>1. task' \in [Media -> TaskJob]
    BY <1>5, <1>t, TaskMoves DEF PollLink
  <2>2. item' \in [Numbers -> [DocTypes -> ItemStates]]
    <3> DEFINE n == session[target[f]].deal
    <3>1. CASE n \in Numbers
      BY <1>5, <3>1, SatisfiedType, ChecklistAssumption DEF PollLink, TypeOK
    <3>2. CASE n \notin Numbers
      <4>1. \A t : Satisfied(item, n, t) = item
        BY <3>2 DEF Satisfied, TypeOK
      <4> QED
        BY <1>5, <4>1 DEF PollLink, TypeOK
    <3> QED
      BY <3>1, <3>2
  <2> QED
    BY <1>5, <2>1, <2>2 DEF PollLink, TypeOK
<1>6. CASE PollCount(f)
  <2>1. task' \in [Media -> TaskJob]
    BY <1>6, <1>t, TaskMoves DEF PollCount
  <2> QED
    BY <1>6, <2>1 DEF PollCount, TypeOK
<1>7. CASE PollNudge(f)
  <2>1. session' \in [Messages -> SessionRow]
    BY <1>7, TimerMoves DEF PollNudge, TypeOK
  <2>2. task' \in [Media -> TaskJob]
    BY <1>7, <1>t, TaskMoves DEF PollNudge
  <2> QED
    BY <1>7, <2>1, <2>2 DEF PollNudge, TypeOK
<1>8. CASE PollAbort(f)
  BY <1>8, <1>t, TaskMoves, BoundsAssumption DEF PollAbort, TypeOK
<1> QED
  BY <1>1, <1>2, <1>3, <1>4, <1>5, <1>6, <1>7, <1>8 DEF PollStep

\* flush_ready_sessions and the debounce timer.
LEMMA FlushType ==
  ASSUME TypeOK,
         \/ FlushClaim \/ FlushAbort \/ FlushDies
         \/ \E s \in Messages : TimerExpires(s) \/ FlushDefer(s)
  PROVE  TypeOK'
<1>p. {"claimed", "undeferred", "queued", "lost"} \subseteq ProcSteps
  BY DEF ProcSteps
<1>1. CASE FlushClaim
  <2>1. session' \in [Messages -> SessionRow]
    <3>1. \A s \in Messages : [session[s] EXCEPT !.state = "processing"] \in SessionRow
      <4>1. \A row \in SessionRow : [row EXCEPT !.state = "processing"] \in SessionRow
        BY DEF SessionRow, SessionStates
      <4> QED
        BY <4>1 DEF TypeOK
    <3> QED
      BY <1>1, <3>1 DEF FlushClaim, TypeOK
  <2>2. proc' \in [Messages -> ProcJob]
    BY <1>1, <1>p DEF FlushClaim, ProcJob, TypeOK
  <2> QED
    BY <1>1, <2>1, <2>2 DEF FlushClaim, TypeOK
<1>2. CASE FlushAbort \/ FlushDies
  <2>1. proc' \in [Messages -> ProcJob]
    BY <1>2, <1>p DEF FlushAbort, FlushDies, FlushLoses, ProcJob, TypeOK
  <2>2. aborts' \in 0..MaxAborts /\ crashes' \in 0..MaxCrashes
    BY <1>2, BoundsAssumption DEF FlushAbort, FlushDies, Died, TypeOK
  <2> QED
    BY <1>2, <2>1, <2>2 DEF FlushAbort, FlushDies, TypeOK
<1>3. ASSUME NEW s \in Messages, TimerExpires(s) PROVE TypeOK'
  <2>1. session' \in [Messages -> SessionRow]
    BY <1>3, TimerMoves DEF TimerExpires, TypeOK
  <2> QED
    BY <1>3, <2>1 DEF TimerExpires, TypeOK
<1>4. ASSUME NEW s \in Messages, FlushDefer(s) PROVE TypeOK'
  BY <1>4, <1>p, ProcMoves DEF FlushDefer, TypeOK
<1> QED
  BY <1>1, <1>2, <1>3, <1>4

\* process_session.
LEMMA ProcessType ==
  ASSUME TypeOK, NEW s \in Messages,
         ProcessStep(s) \/ ProcessAbort(s) \/ ProcessDies(s)
  PROVE  TypeOK'
<1> DEFINE n == BookingNumber[s]
<1>n. n \in Numbers
  BY MessagesAssumption
<1>p. {"files_not_ready", "awaiting_di", "ready", "new_deal", "exact_deal",
       "done", "lost"} \subseteq ProcSteps
  BY DEF ProcSteps
<1>1. CASE ProcessRead(s)
  <2>1. proc' \in [Messages -> ProcJob]
    BY <1>1, <1>p, ProcMoves DEF ProcessRead
  <2> QED
    BY <1>1, <2>1 DEF ProcessRead, TypeOK
<1>2. CASE ProcessPark(s)
  <2>1. session' \in [Messages -> SessionRow]
    BY <1>2, SessionParks DEF ProcessPark, Notes, TypeOK
  <2> QED
    BY <1>2, <2>1, <1>p, ProcMoves DEF ProcessPark, TypeOK
<1>3. CASE ProcessFind(s)
  <2>1. proc' \in [Messages -> ProcJob]
    BY <1>3, <1>p, ProcMoves DEF ProcessFind
  <2> QED
    BY <1>3, <2>1 DEF ProcessFind, TypeOK
<1>4. CASE ProcessColdStart(s)
  <2>1. item' \in [Numbers -> [DocTypes -> ItemStates]]
    <3>1. Initialised(item, n) \in [Numbers -> [DocTypes -> ItemStates]]
      BY <1>n, InitialisedType DEF TypeOK
    <3> QED
      BY <1>4, <1>n, <3>1, SatisfiedByFilesIsIdentity DEF ProcessColdStart
  <2>2. session' \in [Messages -> SessionRow]
    BY <1>4, <1>n, SessionConfirms DEF ProcessColdStart
  <2>3. deal' \in [Numbers -> {"none", "provisional", "confirmed"}]
    BY <1>4, <1>n DEF ProcessColdStart, Created, TypeOK
  <2>4. proc' \in [Messages -> ProcJob]
    BY <1>4, <1>p, ProcMoves DEF ProcessColdStart
  <2> QED
    BY <1>4, <2>1, <2>2, <2>3, <2>4 DEF ProcessColdStart, TypeOK
<1>5. CASE ProcessExact(s)
  <2>1. item' \in [Numbers -> [DocTypes -> ItemStates]]
    BY <1>5, <1>n, SatisfiedByFilesIsIdentity DEF ProcessExact, TypeOK
  <2>2. session' \in [Messages -> SessionRow]
    BY <1>5, SessionMoves DEF ProcessExact, SessionStates, TypeOK
  <2>3. deal' \in [Numbers -> {"none", "provisional", "confirmed"}]
    BY <1>5, <1>n DEF ProcessExact, Confirmed, TypeOK
  <2>4. proc' \in [Messages -> ProcJob]
    BY <1>5, <1>p, ProcMoves DEF ProcessExact
  <2> QED
    BY <1>5, <2>1, <2>2, <2>3, <2>4 DEF ProcessExact, TypeOK
<1>6. CASE ProcessAbort(s)
  BY <1>6, RaisedProcType, BoundsAssumption DEF ProcessAbort, TypeOK
<1>7. CASE ProcessDies(s)
  BY <1>7, <1>p, ProcMoves, BoundsAssumption DEF ProcessDies, Died, TypeOK
<1> QED
  BY <1>1, <1>2, <1>3, <1>4, <1>5, <1>6, <1>7 DEF ProcessStep

\* Every step preserves the types.
LEMMA StepType == TypeOK /\ [Next]_vars => TypeOK'
<1> SUFFICES ASSUME TypeOK, [Next]_vars PROVE TypeOK'
  OBVIOUS
<1>1. CASE UNCHANGED vars
  BY <1>1 DEF vars, TypeOK
<1>2. CASE Next
  BY <1>2, IntakeType, FetchType, PollType, FlushType, ProcessType DEF Next
<1> QED
  BY <1>1, <1>2

\* Every row has the columns of its table and every job the arguments it can
\* have, in particular an attempt below _MAX_DI_POLL_ATTEMPTS.
THEOREM TypeCorrect == Spec => []TypeOK
BY InitType, StepType, PTL DEF Spec

-----------------------------------------------------------------------------
(* One open session per contact.  OneOpenSession is not inductive: it has  *)
(* to be known that an uncommitted INSERT is the only one of its contact   *)
(* and that no session of that contact is open, that a poll parks only     *)
(* rows that exist, and which states a session can be in while             *)
(* process_session has it in hand.                                         *)

\* A session is named by the message that inserts it: until that message's
\* transaction commits there is no row.
NoRowBeforeCommit ==
  \A m \in Messages : intake[m] \in {"pending", "creating", "opened", "registered"}
                        => session[m].state = "absent"

\* An intake works on the session it inserts, or on a committed one.
TargetsExist ==
  \A m \in Messages : intake[m] \in {"opened", "registered"} =>
    /\ target[m] \in Messages
    /\ target[m] = m \/ session[target[m]].state # "absent"

\* While an INSERT is uncommitted, its contact has no open session and no
\* other INSERT.
InsertersAreAlone ==
  \A m \in Messages : Inserting(m) =>
    /\ OpenOf(Sender[m]) = {}
    /\ \A o \in Messages : Inserting(o) /\ Sender[o] = Sender[m] => o = m

\* A wa.file row is committed with its intake, and its session_id exists.
FilesHaveSessions ==
  \A f \in Media : file[f].state # "absent" =>
    /\ intake[f] \in {"committed", "done", "crashed"}
    /\ target[f] \in Messages
    /\ session[target[f]].state # "absent"

\* A job past its first look at the file row has found it.
TasksHaveFiles ==
  \A f \in Media : task[f].pc \notin {"none", "queued", "done", "lost"}
                     => file[f].state # "absent"

\* process_session runs on sessions that were flushed, which only a poll may
\* have parked meanwhile.
InFlight == {"claimed", "queued", "files_not_ready", "awaiting_di", "ready",
             "new_deal", "exact_deal"}

JobsFollowSessions ==
  \A s \in Messages :
    /\ session[s].state \in {"absent", "collecting"} => proc[s].pc = "none"
    /\ proc[s].pc \in InFlight => session[s].state \in {"processing", "parked"}

\* A session is linked to a deal no earlier than in confirming_deal.
NoDealBeforeConfirming ==
  \A s \in Messages : session[s].state \in {"absent", "collecting", "processing"}
                        => session[s].deal = None

IInv ==
  /\ TypeOK
  /\ OneOpenSession
  /\ NoRowBeforeCommit
  /\ TargetsExist
  /\ InsertersAreAlone
  /\ FilesHaveSessions
  /\ TasksHaveFiles
  /\ JobsFollowSessions
  /\ NoDealBeforeConfirming

\* The invariant holds at the start.
LEMMA InitInv == Init => IInv
<1> SUFFICES ASSUME Init PROVE IInv
  OBVIOUS
<1>1. OneOpenSession /\ InsertersAreAlone
  BY DEF Init, OneOpenSession, InsertersAreAlone, Inserting, Open, OpenStates
<1>2. NoRowBeforeCommit /\ TargetsExist /\ FilesHaveSessions /\ TasksHaveFiles
  BY DEF Init, NoRowBeforeCommit, TargetsExist, FilesHaveSessions, TasksHaveFiles
<1>3. JobsFollowSessions /\ NoDealBeforeConfirming
  BY DEF Init, JobsFollowSessions, NoDealBeforeConfirming, InFlight
<1> QED
  BY InitType, <1>1, <1>2, <1>3 DEF IInv

\* A step that is not of an intake, creates no session row and opens none,
\* keeps what is known of open sessions and of uncommitted INSERTs.
LEMMA SettledStep ==
  ASSUME IInv, UNCHANGED <<intake, target>>,
         \A s \in Messages :
           /\ session'[s].state = "absent" <=> session[s].state = "absent"
           /\ session'[s].state \in OpenStates => session[s].state \in OpenStates
  PROVE  /\ OneOpenSession' /\ NoRowBeforeCommit'
         /\ TargetsExist' /\ InsertersAreAlone'
<1>1. OneOpenSession'
  BY DEF IInv, OneOpenSession, Open
<1>2. NoRowBeforeCommit' /\ TargetsExist'
  BY DEF IInv, NoRowBeforeCommit, TargetsExist
<1>3. InsertersAreAlone'
  <2>1. \A c : OpenOf(c) = {} => OpenOf(c)' = {}
    BY DEF OpenOf, Open
  <2>2. \A m \in Messages : Inserting(m)' <=> Inserting(m)
    BY DEF Inserting
  <2> QED
    BY <2>1, <2>2 DEF IInv, InsertersAreAlone
<1> QED
  BY <1>1, <1>2, <1>3

\* A step that also leaves the session rows alone keeps the rest of it, too.
LEMMA SessionsUntouched ==
  ASSUME IInv, UNCHANGED <<intake, target, session>>
  PROVE  /\ OneOpenSession' /\ NoRowBeforeCommit' /\ TargetsExist'
         /\ InsertersAreAlone' /\ NoDealBeforeConfirming'
<1>1. NoDealBeforeConfirming'
  BY DEF IInv, NoDealBeforeConfirming
<1> QED
  BY <1>1, SettledStep

\* fetch_and_store_file touches its file and itself, and no row is inserted.
LEMMA FetchInv ==
  ASSUME IInv, NEW f \in Media, FetchStep(f) \/ FetchAbort(f) \/ TaskDies(f)
  PROVE  IInv'
<1> USE DEF FetchStep, FetchFindsNoRow, FetchNoJourney, FetchStart,
            FetchDownloaded, FetchGivesUp, FetchRaises, FetchStores,
            FetchDefersPoll, FetchAbort, TaskDies
<1>1. TypeOK'
  BY FetchType DEF IInv
<1>2. UNCHANGED <<intake, target, session, proc>>
  OBVIOUS
<1>3. JobsFollowSessions'
  BY <1>2 DEF IInv, JobsFollowSessions
<1>4. \A g \in Media : file[g].state # "absent" <=> file'[g].state # "absent"
  <2>1. file \in [Media -> FileRow]
    BY DEF IInv, TypeOK
  <2>2. CASE FetchAbort(f) \/ TaskDies(f)
    BY <2>2
  <2>3. CASE FetchStep(f)
    BY <2>1, <2>3 DEF IInv, FileRow, TasksHaveFiles
  <2> QED
    BY <2>2, <2>3
<1>5. FilesHaveSessions'
  BY <1>2, <1>4 DEF IInv, FilesHaveSessions
<1>6. TasksHaveFiles'
  <2>1. \A g \in Media \ {f} : task'[g] = task[g]
    BY DEF RaisedTask, IInv, TypeOK
  <2>2. task'[f].pc \notin {"none", "queued", "done", "lost"} => file[f].state # "absent"
    BY DEF RaisedTask, IInv, TypeOK, TaskJob, TasksHaveFiles
  <2> QED
    BY <1>4, <2>1, <2>2 DEF IInv, TasksHaveFiles
<1> QED
  BY <1>1, <1>2, <1>3, <1>5, <1>6, SessionsUntouched DEF IInv

\* poll_di_document parks or nudges a session that exists.
LEMMA PollInv ==
  ASSUME IInv, NEW f \in Media, PollStep(f) \/ PollAbort(f)
  PROVE  IInv'
<1> USE DEF PollStep, PollAgain, PollWakes, PollPark, PollTerminal, PollLink,
            PollCount, PollNudge, PollAbort
<1>1. TypeOK'
  BY PollType DEF IInv
<1>2. UNCHANGED <<intake, target, proc>>
  OBVIOUS
<1>3. \A g \in Media : file[g].state = file'[g].state
  <2>1. file \in [Media -> FileRow]
    BY DEF IInv, TypeOK
  <2>2. \/ UNCHANGED file
        \/ \E t : file' = [file EXCEPT ![f].document_type_key = t]
    OBVIOUS
  <2> QED
    BY <2>1, <2>2 DEF FileRow
<1>4. file[f].state # "absent"
  BY DEF IInv, TasksHaveFiles
<1>5. target[f] \in Messages /\ session[target[f]].state # "absent"
  BY <1>4 DEF IInv, FilesHaveSessions
<1>6. \A s \in Messages :
        \/ session'[s] = session[s]
        \/ /\ session'[s].state = session[s].state
           /\ session'[s].deal = session[s].deal
        \/ session'[s].state = "parked" /\ session[s].state # "absent"
  BY <1>5 DEF IInv, TypeOK, SessionRow
<1>7. \A s \in Messages :
        /\ session'[s].state = "absent" <=> session[s].state = "absent"
        /\ session'[s].state \in OpenStates => session[s].state \in OpenStates
  BY <1>6 DEF OpenStates
<1>8. FilesHaveSessions'
  BY <1>2, <1>3, <1>7 DEF IInv, FilesHaveSessions
<1>9. TasksHaveFiles'
  <2>1. \A g \in Media \ {f} : task'[g] = task[g]
    BY DEF Rescheduled, IInv, TypeOK
  <2> QED
    BY <1>3, <1>4, <2>1 DEF IInv, TasksHaveFiles
<1>10. JobsFollowSessions' /\ NoDealBeforeConfirming'
  BY <1>2, <1>6 DEF IInv, JobsFollowSessions, NoDealBeforeConfirming
<1> QED
  BY <1>1, <1>2, <1>7, <1>8, <1>9, <1>10, SettledStep DEF IInv

\* A flush moves sessions from one open state to another.
LEMMA FlushInv ==
  ASSUME IInv,
         \/ FlushClaim \/ FlushAbort \/ FlushDies
         \/ \E s \in Messages : TimerExpires(s) \/ FlushDefer(s)
  PROVE  IInv'
<1>1. TypeOK'
  BY FlushType DEF IInv
<1>2. UNCHANGED <<intake, target, file, task>>
  BY DEF FlushClaim, FlushAbort, FlushLoses, FlushDies, TimerExpires, FlushDefer
<1>3. \A s \in Messages :
        \/ /\ session'[s].state = session[s].state
           /\ session'[s].deal = session[s].deal
           /\ proc'[s].pc = proc[s].pc
        \/ /\ session[s].state = "collecting" /\ session'[s].state = "processing"
           /\ session'[s].deal = session[s].deal
           /\ proc'[s].pc = "claimed"
        \/ /\ session'[s] = session[s]
           /\ proc[s].pc = "claimed" /\ proc'[s].pc \in {"undeferred", "queued", "lost"}
  <2>1. CASE FlushClaim
    BY <2>1 DEF FlushClaim, Claimable, ClaimStates, IInv, TypeOK, SessionRow, ProcJob
  <2>2. CASE FlushAbort \/ FlushDies
    BY <2>2 DEF FlushAbort, FlushDies, FlushLoses, IInv, TypeOK, ProcJob
  <2>3. ASSUME NEW s \in Messages, TimerExpires(s) PROVE <1>3!:
    BY <2>3 DEF TimerExpires, IInv, TypeOK, SessionRow
  <2>4. ASSUME NEW s \in Messages, FlushDefer(s) PROVE <1>3!:
    BY <2>4 DEF FlushDefer, IInv, TypeOK, ProcJob
  <2> QED
    BY <2>1, <2>2, <2>3, <2>4
<1>4. \A s \in Messages :
        /\ session'[s].state = "absent" <=> session[s].state = "absent"
        /\ session'[s].state \in OpenStates => session[s].state \in OpenStates
  BY <1>3 DEF OpenStates
<1>5. FilesHaveSessions' /\ TasksHaveFiles'
  BY <1>2, <1>4 DEF IInv, FilesHaveSessions, TasksHaveFiles
<1>6. JobsFollowSessions' /\ NoDealBeforeConfirming'
  BY <1>3 DEF IInv, JobsFollowSessions, NoDealBeforeConfirming, InFlight
<1> QED
  BY <1>1, <1>2, <1>4, <1>5, <1>6, SettledStep DEF IInv

\* process_session parks, confirms or completes the session it was given.
LEMMA ProcessInv ==
  ASSUME IInv, NEW s \in Messages,
         ProcessStep(s) \/ ProcessAbort(s) \/ ProcessDies(s)
  PROVE  IInv'
<1> USE DEF ProcessStep, ProcessRead, ProcessPark, ProcessFind, ProcessColdStart,
            ProcessExact, ProcessAbort, ProcessDies
<1>1. TypeOK'
  BY ProcessType DEF IInv
<1>2. UNCHANGED <<intake, target, file, task>>
  OBVIOUS
<1>3. \A t \in Messages \ {s} : session'[t] = session[t] /\ proc'[t] = proc[t]
  BY DEF Confirming, RaisedProc, IInv, TypeOK
<1>4. proc[s].pc \in InFlight
  BY DEF InFlight
<1>5. session[s].state \in {"processing", "parked"}
  BY <1>4 DEF IInv, JobsFollowSessions
<1>6. \/ session'[s] = session[s]
      \/ session'[s].state = "parked"
      \/ session'[s].state = "complete" /\ proc'[s].pc = "done"
      \/ /\ session[s].state = "processing"
         /\ session'[s].state = "confirming_deal" /\ proc'[s].pc = "done"
  BY DEF Confirming, IInv, TypeOK, SessionRow, ProcJob
<1>7. \A t \in Messages :
        /\ session'[t].state = "absent" <=> session[t].state = "absent"
        /\ session'[t].state \in OpenStates => session[t].state \in OpenStates
  BY <1>3, <1>5, <1>6 DEF OpenStates
<1>8. FilesHaveSessions' /\ TasksHaveFiles'
  BY <1>2, <1>7 DEF IInv, FilesHaveSessions, TasksHaveFiles
<1>9. JobsFollowSessions' /\ NoDealBeforeConfirming'
  BY <1>3, <1>5, <1>6 DEF IInv, JobsFollowSessions, NoDealBeforeConfirming, InFlight
<1> QED
  BY <1>1, <1>2, <1>7, <1>8, <1>9, SettledStep DEF IInv

\* An intake that ends, or whose inbox row is marked, leaves every row alone.
LEMMA IntakeEnds ==
  ASSUME IInv, NEW m \in Messages,
         UNCHANGED <<target, session, file, task, proc>>,
         NEW st \in {"ignored", "done", "failed", "crashed"},
         intake' = [intake EXCEPT ![m] = st],
         intake[m] \in {"committed", "done", "crashed"} => st \in {"done", "crashed"}
  PROVE  IInv' \/ ~TypeOK'
<1> SUFFICES ASSUME TypeOK' PROVE IInv'
  OBVIOUS
<1>1. intake \in [Messages -> IntakeStates]
  BY DEF IInv, TypeOK
<1>2. \A o \in Messages : Inserting(o)' => Inserting(o)
  BY <1>1 DEF Inserting
<1>3. \A c : OpenOf(c)' = OpenOf(c)
  BY DEF OpenOf, Open
<1>4. InsertersAreAlone'
  BY <1>2, <1>3 DEF IInv, InsertersAreAlone
<1>5. NoRowBeforeCommit' /\ TargetsExist'
  BY <1>1 DEF IInv, NoRowBeforeCommit, TargetsExist
<1>6. FilesHaveSessions'
  BY <1>1, MessagesAssumption DEF IInv, FilesHaveSessions
<1>7. OneOpenSession' /\ TasksHaveFiles' /\ JobsFollowSessions' /\ NoDealBeforeConfirming'
  BY DEF IInv, OneOpenSession, Open, TasksHaveFiles, JobsFollowSessions,
         NoDealBeforeConfirming
<1> QED
  BY <1>4, <1>5, <1>6, <1>7 DEF IInv

\* The SELECT of get_or_create_session finds a session of another message.
LEMMA SelectInv ==
  ASSUME IInv, NEW m \in Messages, IntakeSelect(m), TypeOK'
  PROVE  IInv'
<1>1. /\ intake \in [Messages -> IntakeStates]
      /\ target \in [Messages -> Messages \cup {None}]
  BY DEF IInv, TypeOK
<1>2. UNCHANGED <<session, file, task, proc>> /\ intake[m] = "pending"
  BY DEF IntakeSelect
<1>3. \A o \in Messages \ {m} : intake'[o] = intake[o] /\ target'[o] = target[o]
  BY <1>1 DEF IntakeSelect
<1>4. \/ intake'[m] = "creating"
      \/ /\ intake'[m] = "opened"
         /\ target'[m] \in Messages \ {m}
         /\ session[target'[m]].state # "absent"
  <2>1. session[m].state = "absent"
    BY <1>2 DEF IInv, NoRowBeforeCommit
  <2>2. \A s \in OpenOf(Sender[m]) : s \in Messages \ {m} /\ session[s].state # "absent"
    BY <2>1 DEF OpenOf, Open, OpenStates
  <2> QED
    BY <1>1, <2>2 DEF IntakeSelect
<1>5. \A c : OpenOf(c)' = OpenOf(c)
  BY <1>2 DEF OpenOf, Open
<1>6. \A o \in Messages : Inserting(o)' => Inserting(o)
  BY <1>3, <1>4 DEF Inserting
<1>7. InsertersAreAlone'
  BY <1>5, <1>6 DEF IInv, InsertersAreAlone
<1>8. NoRowBeforeCommit' /\ TargetsExist'
  BY <1>2, <1>3, <1>4 DEF IInv, NoRowBeforeCommit, TargetsExist
<1>9. FilesHaveSessions'
  BY <1>2, <1>3, MessagesAssumption DEF IInv, FilesHaveSessions
<1>10. OneOpenSession' /\ TasksHaveFiles' /\ JobsFollowSessions' /\ NoDealBeforeConfirming'
  BY <1>2 DEF IInv, OneOpenSession, Open, TasksHaveFiles, JobsFollowSessions,
              NoDealBeforeConfirming
<1> QED
  BY <1>7, <1>8, <1>9, <1>10 DEF IInv

\* The INSERT succeeds only while nothing else of the contact is open or
\* being inserted.
LEMMA InsertInv ==
  ASSUME IInv, NEW m \in Messages, IntakeInsert(m), TypeOK'
  PROVE  IInv'
<1>1. /\ intake \in [Messages -> IntakeStates]
      /\ target \in [Messages -> Messages \cup {None}]
  BY DEF IInv, TypeOK
<1>2. UNCHANGED <<session, file, task, proc>> /\ intake[m] = "creating"
  BY DEF IntakeInsert
<1>3. \A o \in Messages \ {m} : intake'[o] = intake[o] /\ target'[o] = target[o]
  BY <1>1 DEF IntakeInsert
<1>4. \/ intake'[m] = "failed"
      \/ intake'[m] = "opened" /\ target'[m] = m /\ OpenOf(Sender[m]) = {}
  BY <1>1 DEF IntakeInsert
<1>5. \A c : OpenOf(c)' = OpenOf(c)
  BY <1>2 DEF OpenOf, Open
<1>6. \A o \in Messages \ {m} : Inserting(o)' => Inserting(o) /\ Sender[o] # Sender[m]
  BY <1>3 DEF Inserting, IntakeInsert
<1>7. Inserting(m)' => OpenOf(Sender[m]) = {}
  BY <1>4 DEF Inserting
<1>8. InsertersAreAlone'
  BY <1>5, <1>6, <1>7 DEF IInv, InsertersAreAlone
<1>9. NoRowBeforeCommit' /\ TargetsExist'
  BY <1>2, <1>3, <1>4 DEF IInv, NoRowBeforeCommit, TargetsExist
<1>10. FilesHaveSessions'
  BY <1>2, <1>3, MessagesAssumption DEF IInv, FilesHaveSessions
<1>11. OneOpenSession' /\ TasksHaveFiles' /\ JobsFollowSessions' /\ NoDealBeforeConfirming'
  BY <1>2 DEF IInv, OneOpenSession, Open, TasksHaveFiles, JobsFollowSessions,
              NoDealBeforeConfirming
<1> QED
  BY <1>8, <1>9, <1>10, <1>11 DEF IInv

\* Registering a file preserves the invariant.
LEMMA RegisterInv ==
  ASSUME IInv, NEW m \in Messages, IntakeRegister(m), TypeOK'
  PROVE  IInv'
<1>1. intake \in [Messages -> IntakeStates] /\ task \in [Media -> TaskJob]
  BY DEF IInv, TypeOK
<1>2. UNCHANGED <<target, session, file, proc>> /\ intake[m] = "opened" /\ m \in Media
  BY DEF IntakeRegister
<1>3. intake' = [intake EXCEPT ![m] = "registered"]
  BY DEF IntakeRegister
<1>4. \A c : OpenOf(c)' = OpenOf(c)
  BY <1>2 DEF OpenOf, Open
<1>5. \A o \in Messages : Inserting(o)' <=> Inserting(o)
  BY <1>1, <1>2, <1>3 DEF Inserting
<1>6. InsertersAreAlone'
  BY <1>4, <1>5 DEF IInv, InsertersAreAlone
<1>7. NoRowBeforeCommit' /\ TargetsExist'
  BY <1>1, <1>2, <1>3 DEF IInv, NoRowBeforeCommit, TargetsExist
<1>8. FilesHaveSessions'
  BY <1>1, <1>2, <1>3, MessagesAssumption DEF IInv, FilesHaveSessions
<1>9. TasksHaveFiles'
  <2>1. \A f \in Media \ {m} : task'[f] = task[f]
    BY <1>1 DEF IntakeRegister
  <2>2. task'[m].pc = "queued"
    BY <1>1, <1>2 DEF IntakeRegister, TaskJob
  <2> QED
    BY <1>2, <2>1, <2>2 DEF IInv, TasksHaveFiles
<1>10. OneOpenSession' /\ JobsFollowSessions' /\ NoDealBeforeConfirming'
  BY <1>2 DEF IInv, OneOpenSession, Open, JobsFollowSessions, NoDealBeforeConfirming
<1> QED
  BY <1>6, <1>7, <1>8, <1>9, <1>10 DEF IInv

\* COMMIT: the only step that adds a session row.
LEMMA CommitInv ==
  ASSUME IInv, NEW m \in Messages, IntakeCommit(m), TypeOK'
  PROVE  IInv'
<1>1. /\ intake \in [Messages -> IntakeStates]
      /\ session \in [Messages -> SessionRow]
      /\ file \in [Media -> FileRow]
  BY DEF IInv, TypeOK
<1>2. UNCHANGED <<target, task, proc>> /\ intake[m] \in {"opened", "registered"}
  BY DEF IntakeCommit
<1>3. intake' = [intake EXCEPT ![m] = "committed"]
  BY DEF IntakeCommit
<1>4. target[m] \in Messages /\ (target[m] = m \/ session[target[m]].state # "absent")
  BY <1>2 DEF IInv, TargetsExist
<1>5. \A s \in Messages :
        \/ /\ session'[s].state = session[s].state
           /\ session'[s].deal = session[s].deal
        \/ s = m /\ target[m] = m /\ session'[s].state = "collecting"
                 /\ session'[s].deal = session[s].deal
  BY <1>1 DEF IntakeCommit, SessionRow
<1>6. session[m].state = "absent"
  BY <1>2 DEF IInv, NoRowBeforeCommit
<1>7. target[m] = m => Inserting(m) /\ session'[m].state = "collecting"
  BY <1>1, <1>2 DEF Inserting, IntakeCommit, SessionRow
<1>8. \A s \in Messages : Open(s)' => Open(s) \/ (s = m /\ Inserting(m))
  BY <1>5, <1>7 DEF Open
<1>9. OneOpenSession'
  <2> SUFFICES ASSUME NEW s \in Messages, NEW t \in Messages, Open(s)', Open(t)',
                      Sender[s] = Sender[t]
               PROVE  s = t
    BY DEF OneOpenSession
  <2>1. Inserting(m) => OpenOf(Sender[m]) = {}
    BY DEF IInv, InsertersAreAlone
  <2>2. CASE Open(s) /\ Open(t)
    BY <2>2 DEF IInv, OneOpenSession
  <2>3. CASE ~Open(s) \/ ~Open(t)
    BY <1>8, <2>1, <2>3 DEF OpenOf
  <2> QED
    BY <2>2, <2>3
<1>10. \A o \in Messages : Inserting(o)' => o # m /\ Inserting(o)
  BY <1>1, <1>2, <1>3 DEF Inserting
<1>11. InsertersAreAlone'
  <2>1. ASSUME NEW o \in Messages, Inserting(o)' PROVE OpenOf(Sender[o])' = {}
    <3>1. Inserting(o) /\ OpenOf(Sender[o]) = {} /\ (Inserting(m) => Sender[m] # Sender[o])
      BY <1>10, <2>1 DEF IInv, InsertersAreAlone
    <3>2. ASSUME NEW s \in Messages, Sender[s] = Sender[o] PROVE ~Open(s)'
      BY <1>8, <3>1, <3>2 DEF OpenOf
    <3> QED
      BY <3>2 DEF OpenOf
  <2> QED
    BY <1>10, <2>1 DEF IInv, InsertersAreAlone
<1>12. NoRowBeforeCommit' /\ TargetsExist'
  <2>1. \A o \in Messages : intake'[o] \in {"pending", "creating", "opened", "registered"}
                              => o # m /\ intake'[o] = intake[o]
    BY <1>1, <1>3
  <2>2. NoRowBeforeCommit'
    BY <1>5, <2>1 DEF IInv, NoRowBeforeCommit
  <2>3. TargetsExist'
    BY <1>2, <1>5, <2>1 DEF IInv, TargetsExist
  <2> QED
    BY <2>2, <2>3
<1>13. \A f \in Media \ {m} : file'[f] = file[f]
  BY <1>1 DEF IntakeCommit
<1>14. FilesHaveSessions'
  <2>1. ASSUME NEW f \in Media, f # m, file'[f].state # "absent"
        PROVE  /\ intake'[f] \in {"committed", "done", "crashed"}
               /\ target'[f] \in Messages /\ session'[target'[f]].state # "absent"
    <3>1. /\ intake[f] \in {"committed", "done", "crashed"}
          /\ target[f] \in Messages /\ session[target[f]].state # "absent"
      BY <1>13, <2>1 DEF IInv, FilesHaveSessions
    <3> QED
      BY <1>2, <1>3, <1>5, <2>1, <3>1
  <2>2. /\ intake'[m] = "committed"
        /\ target'[m] \in Messages /\ session'[target'[m]].state # "absent"
    BY <1>1, <1>2, <1>3, <1>4, <1>5, <1>7
  <2> QED
    BY <2>1, <2>2 DEF FilesHaveSessions
<1>15. TasksHaveFiles'
  <2>1. m \in Media => file'[m].state = "pending"
    BY <1>1 DEF IntakeCommit, FileRow
  <2> QED
    BY <1>2, <1>13, <2>1 DEF IInv, TasksHaveFiles
<1>16. JobsFollowSessions' /\ NoDealBeforeConfirming'
  BY <1>2, <1>5, <1>6 DEF IInv, JobsFollowSessions, NoDealBeforeConfirming, InFlight
<1> QED
  BY <1>9, <1>11, <1>12, <1>14, <1>15, <1>16 DEF IInv

\* The steps of process_inbox_row preserve the invariant.
LEMMA IntakeInv ==
  ASSUME IInv, NEW m \in Messages,
         \/ IntakeIgnore(m) \/ IntakeSelect(m) \/ IntakeStep(m)
         \/ IntakeAbort(m) \/ IntakeDies(m)
  PROVE  IInv'
<1>1. TypeOK'
  BY IntakeType DEF IInv
<1>2. CASE IntakeIgnore(m)
  BY <1>1, <1>2, IntakeEnds DEF IntakeIgnore
<1>3. CASE IntakeMark(m)
  BY <1>1, <1>3, IntakeEnds DEF IntakeMark
<1>4. CASE IntakeAbort(m)
  BY <1>1, <1>4, IntakeEnds DEF IntakeAbort
<1>5. CASE IntakeDies(m)
  BY <1>1, <1>5, IntakeEnds DEF IntakeDies
<1> QED
  BY <1>1, <1>2, <1>3, <1>4, <1>5, SelectInv, InsertInv, RegisterInv, CommitInv
     DEF IntakeStep

\* Every step preserves the invariant.
LEMMA StepInv == IInv /\ [Next]_vars => IInv'
<1> SUFFICES ASSUME IInv, [Next]_vars PROVE IInv'
  OBVIOUS
<1>1. CASE UNCHANGED vars
  <2>1. TypeOK'
    BY <1>1, StepType DEF IInv
  <2>2. FilesHaveSessions' /\ TasksHaveFiles' /\ JobsFollowSessions'
    BY <1>1 DEF vars, IInv, FilesHaveSessions, TasksHaveFiles, JobsFollowSessions
  <2> QED
    BY <1>1, <2>1, <2>2, SessionsUntouched DEF vars, IInv
<1>2. CASE Next
  BY <1>2, IntakeInv, FetchInv, PollInv, FlushInv, ProcessInv DEF Next
<1> QED
  BY <1>1, <1>2

\* Whatever the jobs of the worker interleave, fail or lose, a contact never
\* has two open sessions.
THEOREM OneOpen == Spec => []OneOpenSession
<1>1. IInv => OneOpenSession
  BY DEF IInv
<1> QED
  BY <1>1, InitInv, StepInv, PTL DEF Spec

-----------------------------------------------------------------------------
(* The jobs implement the life cycle of a session: every step of the system*)
(* is one step of SessionLifecycle or leaves the state and the deal of all *)
(* sessions alone.                                                         *)

StateOf == [s \in Messages |-> session[s].state]
DealOf == [s \in Messages |-> session[s].deal]

\* The initial states map to initial states.
LEMMA LifecycleInit == Init => Lifecycle!Init
BY DEF Init, Lifecycle!Init

\* A step that moves one session to state st and leaves its deal.
LEMMA OneMoves ==
  ASSUME TypeOK, NEW s \in Messages, NEW st,
         \A t \in Messages \ {s} : /\ session'[t].state = session[t].state
                                   /\ session'[t].deal = session[t].deal,
         session'[s].state = st, session'[s].deal = session[s].deal
  PROVE  StateOf' = [StateOf EXCEPT ![s] = st] /\ DealOf' = DealOf
BY DEF StateOf, DealOf

\* A commit of process_inbox_row maps to Start or to a stutter.
LEMMA StartMaps ==
  ASSUME IInv, NEW m \in Messages, IntakeCommit(m)
  PROVE  Lifecycle!Start(m) \/ UNCHANGED <<StateOf, DealOf>>
<1>1. session \in [Messages -> SessionRow]
  BY DEF IInv, TypeOK
<1>2. CASE target[m] = m
  <2>1. Inserting(m) /\ session[m].state = "absent"
    BY <1>2 DEF Inserting, IntakeCommit, IInv, NoRowBeforeCommit
  <2>2. OpenOf(Sender[m]) = {}
    BY <2>1 DEF IInv, InsertersAreAlone
  <2>3. session' = [session EXCEPT ![m].state = "collecting"]
    BY <1>2 DEF IntakeCommit
  <2>4. StateOf' = [StateOf EXCEPT ![m] = "collecting"] /\ DealOf' = DealOf
    BY <1>1, <2>3, OneMoves DEF SessionRow, IInv
  <2>5. Lifecycle!OpenOf(Sender[m]) = {}
    BY <2>2 DEF OpenOf, Open, OpenStates, Lifecycle!OpenOf, Lifecycle!OpenStates
  <2> QED
    BY <2>1, <2>4, <2>5 DEF Lifecycle!Start, StateOf, DealOf
<1>3. CASE target[m] # m
  BY <1>1, <1>3 DEF IntakeCommit, SessionRow, StateOf, DealOf
<1> QED
  BY <1>2, <1>3

\* Parking maps to Park.
LEMMA ParkMaps ==
  ASSUME IInv, NEW s \in Messages, session[s].state # "absent",
         NEW note,
         session' = [session EXCEPT ![s].state = "parked", ![s].note = note]
  PROVE  Lifecycle!Park(s)
<1>1. session \in [Messages -> SessionRow]
  BY DEF IInv, TypeOK
<1>2. StateOf' = [StateOf EXCEPT ![s] = "parked"] /\ DealOf' = DealOf
  BY <1>1, OneMoves DEF SessionRow, IInv
<1> QED
  BY <1>2 DEF Lifecycle!Park, StateOf, DealOf

\* The steps of polls map to Park or to a stutter.
LEMMA PollMaps ==
  ASSUME IInv, NEW f \in Media, PollStep(f) \/ PollAbort(f)
  PROVE  \/ \E s \in Messages : Lifecycle!Park(s)
         \/ UNCHANGED <<StateOf, DealOf>>
<1>1. session \in [Messages -> SessionRow]
  BY DEF IInv, TypeOK
<1>2. CASE PollPark(f)
  <2>1. target[f] \in Messages /\ session[target[f]].state # "absent"
    BY <1>2 DEF PollPark, IInv, TasksHaveFiles, FilesHaveSessions
  <2> QED
    BY <1>2, <2>1, ParkMaps DEF PollPark
<1>3. CASE PollNudge(f)
  BY <1>1, <1>3 DEF PollNudge, SessionRow, StateOf, DealOf
<1>4. CASE UNCHANGED session
  BY <1>4 DEF StateOf, DealOf
<1> QED
  BY <1>2, <1>3, <1>4 DEF PollStep, PollAgain, PollWakes, PollTerminal, PollLink,
                          PollCount, PollAbort

\* The flush maps to Flush or to a stutter.
LEMMA FlushMaps ==
  ASSUME IInv, FlushClaim
  PROVE  \E due \in SUBSET Messages : Lifecycle!Flush(due)
<1> DEFINE due == {s \in Messages : Claimable(s)}
<1>1. session \in [Messages -> SessionRow]
  BY DEF IInv, TypeOK
<1>2. due # {} /\ \A s \in due : session[s].state = "collecting"
  BY DEF FlushClaim, Claimable, ClaimStates
<1>3. \A s \in Messages :
        /\ session'[s].state = IF s \in due THEN "processing" ELSE session[s].state
        /\ session'[s].deal = session[s].deal
  BY <1>1 DEF FlushClaim, SessionRow
<1> HIDE DEF due
<1>4. Lifecycle!Flush(due)
  BY <1>2, <1>3 DEF Lifecycle!Flush, due
<1>5. due \in SUBSET Messages
  BY DEF due
<1> QED
  BY <1>4, <1>5 DEF Lifecycle!Flush

\* The steps of process_session map to steps of the life cycle.
LEMMA ProcessMaps ==
  ASSUME IInv, NEW s \in Messages,
         ProcessStep(s) \/ ProcessAbort(s) \/ ProcessDies(s)
  PROVE  \/ Lifecycle!Park(s) \/ Lifecycle!Complete(s)
         \/ \E d \in Numbers : Lifecycle!Confirm(s, d)
         \/ UNCHANGED <<StateOf, DealOf>>
<1>1. session \in [Messages -> SessionRow]
  BY DEF IInv, TypeOK
<1>2. proc[s].pc \in InFlight
  BY DEF InFlight, ProcessStep, ProcessRead, ProcessPark, ProcessFind,
         ProcessColdStart, ProcessExact, ProcessAbort, ProcessDies
<1>3. session[s].state \in {"processing", "parked"}
  BY <1>2 DEF IInv, JobsFollowSessions
<1>4. CASE UNCHANGED session
  BY <1>4 DEF StateOf, DealOf
<1>5. CASE ProcessPark(s)
  BY <1>3, <1>5, ParkMaps DEF ProcessPark
<1>6. CASE ProcessExact(s) /\ session' # session
  <2>1. session' = [session EXCEPT ![s].state = "complete"]
    BY <1>6 DEF ProcessExact
  <2>2. StateOf' = [StateOf EXCEPT ![s] = "complete"] /\ DealOf' = DealOf
    BY <1>1, <2>1, OneMoves DEF SessionRow, IInv
  <2> QED
    BY <1>3, <2>2 DEF Lifecycle!Complete, StateOf, DealOf
<1>7. CASE ProcessColdStart(s) /\ session' # session
  <2> DEFINE n == BookingNumber[s]
  <2>1. n \in Numbers
    BY MessagesAssumption
  <2>2. /\ session[s].state = "processing"
        /\ session' = [session EXCEPT ![s].state = "confirming_deal",
                                      ![s].deal = n, ![s].timer = "armed"]
    BY <1>7 DEF ProcessColdStart, Confirming
  <2>3. session[s].deal = None
    BY <2>2 DEF IInv, NoDealBeforeConfirming
  <2>4. /\ session'[s].state = "confirming_deal" /\ session'[s].deal = n
        /\ \A t \in Messages \ {s} : session'[t] = session[t]
    BY <1>1, <2>2 DEF SessionRow
  <2> HIDE DEF n
  <2>5. /\ StateOf' = [StateOf EXCEPT ![s] = "confirming_deal"]
        /\ DealOf' = [DealOf EXCEPT ![s] = n]
    BY <2>4 DEF StateOf, DealOf
  <2>6. Lifecycle!Confirm(s, n)
    BY <2>2, <2>3, <2>5 DEF Lifecycle!Confirm, StateOf, DealOf
  <2> QED
    BY <2>1, <2>6
<1> QED
  BY <1>4, <1>5, <1>6, <1>7 DEF ProcessStep, ProcessRead, ProcessFind,
                                ProcessAbort, ProcessDies

\* Every step maps to a step of the life cycle or to a stutter.
LEMMA LifecycleStep ==
  IInv /\ [Next]_vars => [Lifecycle!Next]_<<StateOf, DealOf>>
<1> SUFFICES ASSUME IInv, [Next]_vars
             PROVE  Lifecycle!Next \/ UNCHANGED <<StateOf, DealOf>>
  OBVIOUS
<1>1. CASE UNCHANGED session
  BY <1>1 DEF StateOf, DealOf
<1>2. ASSUME NEW m \in Messages,
             \/ IntakeIgnore(m) \/ IntakeSelect(m) \/ IntakeStep(m)
             \/ IntakeAbort(m) \/ IntakeDies(m)
      PROVE  Lifecycle!Next \/ UNCHANGED <<StateOf, DealOf>>
  <2>1. CASE IntakeCommit(m)
    BY <2>1, StartMaps DEF Lifecycle!Next
  <2> QED
    BY <1>1, <1>2, <2>1 DEF IntakeIgnore, IntakeSelect, IntakeStep, IntakeInsert,
       IntakeRegister, IntakeMark, IntakeAbort, IntakeDies
<1>3. ASSUME NEW f \in Media,
             \/ FetchStep(f) \/ FetchAbort(f)
             \/ PollStep(f) \/ PollAbort(f) \/ TaskDies(f)
      PROVE  Lifecycle!Next \/ UNCHANGED <<StateOf, DealOf>>
  <2>1. CASE PollStep(f) \/ PollAbort(f)
    BY <2>1, PollMaps DEF Lifecycle!Next
  <2>2. CASE FetchStep(f) \/ FetchAbort(f) \/ TaskDies(f)
    BY <1>1, <2>2 DEF FetchStep, FetchFindsNoRow, FetchNoJourney, FetchStart,
       FetchDownloaded, FetchGivesUp, FetchRaises, FetchStores, FetchDefersPoll,
       FetchAbort, TaskDies
  <2> QED
    BY <1>3, <2>1, <2>2
<1>4. CASE FlushClaim \/ FlushAbort \/ FlushDies
  BY <1>1, <1>4, FlushMaps DEF FlushAbort, FlushDies, Lifecycle!Next
<1>5. ASSUME NEW s \in Messages,
             \/ TimerExpires(s) \/ FlushDefer(s) \/ ProcessStep(s)
             \/ ProcessAbort(s) \/ ProcessDies(s)
      PROVE  Lifecycle!Next \/ UNCHANGED <<StateOf, DealOf>>
  <2>1. CASE TimerExpires(s)
    BY <2>1 DEF TimerExpires, IInv, TypeOK, SessionRow, StateOf, DealOf
  <2>2. CASE FlushDefer(s)
    BY <1>1, <2>2 DEF FlushDefer
  <2>3. CASE ProcessStep(s) \/ ProcessAbort(s) \/ ProcessDies(s)
    BY <2>3, ProcessMaps DEF Lifecycle!Next
  <2> QED
    BY <1>5, <2>1, <2>2, <2>3
<1> QED
  BY <1>1, <1>2, <1>3, <1>4, <1>5 DEF Next, vars

\* Every behaviour of the jobs, projected on the state and the deal of the
\* sessions, is one of SessionLifecycle.
THEOREM ImplementsLifecycle == Spec => FollowsLifecycle
<1>1. [Lifecycle!Next]_<<StateOf, DealOf>>
        => [Lifecycle!Next]_<<[s \in Messages |-> session[s].state],
                              [s \in Messages |-> session[s].deal]>>
  BY DEF StateOf, DealOf
<1>2. IInv /\ [Next]_vars
        => [Lifecycle!Next]_<<[s \in Messages |-> session[s].state],
                              [s \in Messages |-> session[s].deal]>>
  BY <1>1, LifecycleStep
<1> QED
  BY <1>2, LifecycleInit, InitInv, StepInv, PTL
     DEF Spec, FollowsLifecycle, Lifecycle!Spec

-----------------------------------------------------------------------------
(* The checklist.  What DI accepted stays accepted, a deal stays linked,   *)
(* and the only step that satisfies an item is the poll's, of evidence that*)
(* it has just seen accepted.                                              *)

\* A file with a verdict has a row, and its chain of polls is past DI.
Settled == {"linking", "counting", "nudging", "done", "lost"}

VerdictSettles ==
  \A f \in Media : verdict[f] # "open" =>
    file[f].state # "absent" /\ task[f].pc \in Settled

LinkingIsAccepted ==
  \A f \in Media : task[f].pc = "linking" =>
    verdict[f] = "accepted" /\ file[f].document_type_key \in DocTypes

\* initialise_checklist inserts all the items of a deal in one transaction.
ChecklistsAreWhole ==
  \A n \in Numbers : \A t, u \in Blocking :
    item[n][t] = "absent" => item[n][u] = "absent"

EInv ==
  /\ IInv
  /\ VerdictSettles
  /\ LinkingIsAccepted
  /\ ChecklistsAreWhole
  /\ SatisfiedByAcceptedEvidence
  /\ CompleteMeansSatisfied

\* The evidence invariant holds at the start.
LEMMA InitEvidence == Init => EInv
<1> SUFFICES ASSUME Init PROVE EInv
  OBVIOUS
<1>1. VerdictSettles /\ LinkingIsAccepted
  BY DEF Init, VerdictSettles, LinkingIsAccepted
<1>2. \A n \in Numbers, t \in DocTypes : item[n][t] = "absent"
  BY DEF Init
<1>3. ChecklistsAreWhole /\ SatisfiedByAcceptedEvidence
  BY <1>2, ChecklistAssumption DEF ChecklistsAreWhole, SatisfiedByAcceptedEvidence
<1>4. CompleteMeansSatisfied
  BY DEF Init, CompleteMeansSatisfied
<1> QED
  BY <1>1, <1>3, <1>4, InitInv DEF EInv

\* The steps of intakes leave files with a verdict and their targets alone.
LEMMA IntakeKeepsVerdicts ==
  ASSUME EInv, NEW m \in Messages,
         \/ IntakeIgnore(m) \/ IntakeSelect(m) \/ IntakeStep(m)
         \/ IntakeAbort(m) \/ IntakeDies(m)
  PROVE  /\ UNCHANGED <<verdict, proc, item>>
         /\ \A f \in Media : verdict[f] # "open" =>
              target'[f] = target[f] /\ file'[f] = file[f] /\ task'[f] = task[f]
         /\ \A f \in Media : task'[f].pc = "linking" =>
              task[f].pc = "linking" /\ file'[f] = file[f]
<1>1. /\ target \in [Messages -> Messages \cup {None}]
      /\ file \in [Media -> FileRow] /\ task \in [Media -> TaskJob]
  BY DEF EInv, IInv, TypeOK
<1>2. UNCHANGED <<verdict, proc, item>>
  BY DEF IntakeIgnore, IntakeSelect, IntakeStep, IntakeInsert, IntakeRegister,
         IntakeCommit, IntakeMark, IntakeAbort, IntakeDies
<1>3. ASSUME m \in Media, intake[m] \in {"pending", "creating", "opened", "registered"}
      PROVE  verdict[m] = "open" /\ task[m].pc # "linking"
  BY <1>3 DEF EInv, IInv, FilesHaveSessions, TasksHaveFiles, VerdictSettles
<1>4. \A o \in Messages \ {m} : target'[o] = target[o]
  BY <1>1 DEF IntakeIgnore, IntakeSelect, IntakeStep, IntakeInsert, IntakeRegister,
              IntakeCommit, IntakeMark, IntakeAbort, IntakeDies
<1>5. \A f \in Media \ {m} : file'[f] = file[f] /\ task'[f] = task[f]
  BY <1>1 DEF IntakeIgnore, IntakeSelect, IntakeStep, IntakeInsert, IntakeRegister,
              IntakeCommit, IntakeMark, IntakeAbort, IntakeDies
<1>6. CASE intake[m] \in {"pending", "creating", "opened", "registered"}
  <2>1. m \in Media => task'[m].pc # "linking"
    <3>1. task' = task \/ task'[m].pc = "queued" \/ m \notin Media
      BY <1>1 DEF IntakeIgnore, IntakeSelect, IntakeStep, IntakeInsert,
         IntakeRegister, IntakeCommit, IntakeMark, IntakeAbort, IntakeDies, TaskJob
    <3> QED
      BY <1>3, <1>6, <3>1
  <2> QED
    BY <1>2, <1>3, <1>4, <1>5, <1>6, <2>1, MessagesAssumption
<1>7. CASE intake[m] \notin {"pending", "creating", "opened", "registered"}
  <2>1. UNCHANGED <<target, file, task>>
    BY <1>7 DEF IntakeIgnore, IntakeSelect, IntakeStep, IntakeInsert,
       IntakeRegister, IntakeCommit, IntakeMark, IntakeAbort, IntakeDies
  <2> QED
    BY <1>2, <2>1
<1> QED
  BY <1>6, <1>7

\* Nor do the jobs of a file touch another's, or change a verdict.
LEMMA FileJobsKeepVerdicts ==
  ASSUME EInv, NEW f \in Media,
         \/ FetchStep(f) \/ FetchAbort(f)
         \/ PollStep(f) \/ PollAbort(f) \/ TaskDies(f)
  PROVE  /\ UNCHANGED <<target, proc>>
         /\ \A g \in Media \ {f} : /\ verdict'[g] = verdict[g]
                                   /\ file'[g] = file[g] /\ task'[g] = task[g]
         /\ verdict[f] # "open" => /\ verdict'[f] = verdict[f]
                                   /\ file'[f] = file[f] /\ task'[f].pc \in Settled
         /\ task'[f].pc = "linking" => /\ verdict'[f] = "accepted"
                                       /\ file'[f].document_type_key \in DocTypes
         /\ verdict'[f] # "open" =>
              task'[f].pc \in Settled /\ file'[f].state # "absent"
         /\ task[f].pc \in Settled \/ verdict[f] = "open"
<1>1. /\ verdict \in [Media -> {"open", "accepted", "rejected"}]
      /\ file \in [Media -> FileRow] /\ task \in [Media -> TaskJob]
  BY DEF EInv, IInv, TypeOK
<1>2. /\ task[f].pc \in Settled \/ verdict[f] = "open"
      /\ verdict[f] # "open" \/ task[f].pc = "poll" => file[f].state # "absent"
  BY DEF EInv, VerdictSettles, IInv, TasksHaveFiles
<1>3. CASE FetchStep(f) \/ FetchAbort(f)
  <2>1. task[f].pc \in {"queued", "downloading", "storing", "stored"}
    BY <1>3 DEF FetchStep, FetchFindsNoRow, FetchNoJourney, FetchStart,
       FetchDownloaded, FetchGivesUp, FetchRaises, FetchStores, FetchDefersPoll,
       FetchAbort
  <2>2. verdict[f] = "open"
    BY <1>2, <2>1 DEF Settled
  <2>3. UNCHANGED <<target, proc, verdict>>
    BY <1>3 DEF FetchStep, FetchFindsNoRow, FetchNoJourney, FetchStart,
       FetchDownloaded, FetchGivesUp, FetchRaises, FetchStores, FetchDefersPoll,
       FetchAbort
  <2>4. /\ \A g \in Media \ {f} : file'[g] = file[g] /\ task'[g] = task[g]
        /\ task'[f].pc # "linking"
    BY <1>1, <1>3 DEF FetchStep, FetchFindsNoRow, FetchNoJourney, FetchStart,
       FetchDownloaded, FetchGivesUp, FetchRaises, FetchStores, FetchDefersPoll,
       FetchAbort, RaisedTask, TaskJob
  <2> QED
    BY <1>2, <2>2, <2>3, <2>4
<1>4. CASE PollTerminal(f)
  <2>1. verdict[f] = "open"
    BY <1>2, <1>4 DEF PollTerminal, Verdicts, Settled
  <2>2. PICK v \in {"accepted", "rejected"}, t \in DocTypes \cup {None} :
          /\ verdict' = [verdict EXCEPT ![f] = v]
          /\ file' = [file EXCEPT ![f].document_type_key = t]
          /\ task' = [task EXCEPT ![f].pc =
                        IF MarksItem(t, v) THEN "linking" ELSE "counting"]
    BY <1>4 DEF PollTerminal, Verdicts
  <2>3. /\ \A g \in Media \ {f} : /\ verdict'[g] = verdict[g]
                                  /\ file'[g] = file[g] /\ task'[g] = task[g]
        /\ verdict'[f] = v /\ file'[f].document_type_key = t
        /\ file'[f].state = file[f].state
        /\ task'[f].pc = IF MarksItem(t, v) THEN "linking" ELSE "counting"
    BY <1>1, <2>2 DEF FileRow, TaskJob
  <2> QED
    BY <1>2, <1>4, <2>1, <2>3 DEF PollTerminal, MarksItem, Settled
<1>5. CASE (PollStep(f) /\ ~PollTerminal(f)) \/ PollAbort(f) \/ TaskDies(f)
  <2>1. UNCHANGED <<target, proc, verdict, file>>
    BY <1>5 DEF PollStep, PollAgain, PollWakes, PollPark, PollLink, PollCount,
       PollNudge, PollAbort, TaskDies
  <2>2. /\ \A g \in Media \ {f} : task'[g] = task[g]
        /\ task'[f].pc \in {"poll", "backoff", "counting", "nudging", "done", "lost"}
        /\ task'[f].pc \in {"poll", "backoff"} => task[f].pc \in {"poll", "backoff"}
    BY <1>1, <1>5 DEF PollStep, PollAgain, PollWakes, PollPark, PollLink, PollCount,
       PollNudge, PollAbort, TaskDies, Rescheduled, TaskJob
  <2> QED
    BY <1>2, <2>1, <2>2 DEF Settled
<1> QED
  BY <1>3, <1>4, <1>5 DEF PollStep

\* So every verdict, with the type and the session of its file, is kept.
LEMMA VerdictsKept ==
  ASSUME EInv, [Next]_vars
  PROVE  /\ VerdictSettles' /\ LinkingIsAccepted'
         /\ \A f \in Media : verdict[f] # "open" =>
              /\ verdict'[f] = verdict[f] /\ target'[f] = target[f]
              /\ file'[f] = file[f]
<1> DEFINE Kept ==
  /\ VerdictSettles' /\ LinkingIsAccepted'
  /\ \A f \in Media : verdict[f] # "open" =>
       /\ verdict'[f] = verdict[f] /\ target'[f] = target[f]
       /\ file'[f] = file[f]
<1>1. ASSUME NEW m \in Messages,
             \/ IntakeIgnore(m) \/ IntakeSelect(m) \/ IntakeStep(m)
             \/ IntakeAbort(m) \/ IntakeDies(m)
      PROVE  Kept
  BY <1>1, IntakeKeepsVerdicts DEF EInv, VerdictSettles, LinkingIsAccepted
<1>2. ASSUME NEW f \in Media,
             \/ FetchStep(f) \/ FetchAbort(f)
             \/ PollStep(f) \/ PollAbort(f) \/ TaskDies(f)
      PROVE  Kept
  BY <1>2, FileJobsKeepVerdicts DEF EInv, VerdictSettles, LinkingIsAccepted
<1>3. CASE UNCHANGED <<verdict, target, file, task>>
  BY <1>3 DEF EInv, VerdictSettles, LinkingIsAccepted
<1>4. CASE \/ FlushClaim \/ FlushAbort \/ FlushDies
           \/ \E s \in Messages : \/ TimerExpires(s) \/ FlushDefer(s) \/ ProcessStep(s)
                                  \/ ProcessAbort(s) \/ ProcessDies(s)
  BY <1>3, <1>4 DEF FlushClaim, FlushAbort, FlushLoses, FlushDies,
     TimerExpires, FlushDefer, ProcessStep,
     ProcessRead, ProcessPark, ProcessFind, ProcessColdStart, ProcessExact,
     ProcessAbort, ProcessDies
<1> QED
  BY <1>1, <1>2, <1>3, <1>4 DEF Next, vars

\* deal_id is written once.
LEMMA DealsKept ==
  ASSUME EInv, [Next]_vars
  PROVE  \A s \in Messages : session[s].deal # None => session'[s].deal = session[s].deal
<1>1. [Lifecycle!Next]_<<StateOf, DealOf>>
  BY LifecycleStep DEF EInv
<1>2. \A s \in Messages : DealOf[s] # None => DealOf'[s] = DealOf[s]
  BY <1>1 DEF Lifecycle!Next, Lifecycle!Start, Lifecycle!Complete, Lifecycle!Park,
     Lifecycle!Confirm, Lifecycle!Flush, DealOf
<1> QED
  BY <1>2 DEF DealOf

\* The three ways an item may change: it is satisfied by accepted evidence of
\* a linked session, or opened together with the others of its deal.
LEMMA ItemSteps ==
  ASSUME EInv, [Next]_vars
  PROVE  \/ UNCHANGED item
         \/ \E f \in Media, n \in Numbers, t \in DocTypes :
              /\ item' = Satisfied(item, n, t)
              /\ verdict[f] = "accepted" /\ file[f].document_type_key = t
              /\ session[target[f]].deal = n
         \/ \E n \in Numbers : item' = Initialised(item, n)
<1>i. item \in [Numbers -> [DocTypes -> ItemStates]]
  BY DEF EInv, IInv, TypeOK
<1>1. ASSUME NEW f \in Media, PollLink(f), item' # item
      PROVE  \E n \in Numbers, t \in DocTypes :
               /\ item' = Satisfied(item, n, t)
               /\ verdict[f] = "accepted" /\ file[f].document_type_key = t
               /\ session[target[f]].deal = n
  <2> DEFINE n == session[target[f]].deal
             t == file[f].document_type_key
  <2>1. verdict[f] = "accepted" /\ t \in DocTypes
    BY <1>1 DEF PollLink, EInv, LinkingIsAccepted
  <2>2. target[f] \in Messages
    BY <1>1 DEF PollLink, EInv, IInv, TasksHaveFiles, FilesHaveSessions
  <2>3. n \in Numbers /\ item' = Satisfied(item, n, t)
    BY <1>1, <2>2 DEF PollLink, EInv, IInv, TypeOK, SessionRow
  <2> QED
    BY <2>1, <2>3
<1>2. ASSUME NEW s \in Messages, ProcessColdStart(s)
      PROVE  \E n \in Numbers : item' = Initialised(item, n)
  <2>1. BookingNumber[s] \in Numbers
    BY MessagesAssumption
  <2>2. Initialised(item, BookingNumber[s]) \in [Numbers -> [DocTypes -> ItemStates]]
    BY <1>i, <2>1, InitialisedType
  <2>3. item' = Initialised(item, BookingNumber[s])
    BY <1>2, <2>1, <2>2, SatisfiedByFilesIsIdentity DEF ProcessColdStart
  <2> QED
    BY <2>1, <2>3
<1>3. ASSUME NEW s \in Messages, ProcessExact(s) PROVE item' = item
  BY <1>3, <1>i, MessagesAssumption, SatisfiedByFilesIsIdentity DEF ProcessExact
<1>4. ASSUME NEW m \in Messages,
             \/ IntakeIgnore(m) \/ IntakeSelect(m) \/ IntakeStep(m)
             \/ IntakeAbort(m) \/ IntakeDies(m)
      PROVE  UNCHANGED item
  BY <1>4, IntakeKeepsVerdicts
<1>5. ASSUME NEW f \in Media,
             \/ FetchStep(f) \/ FetchAbort(f)
             \/ PollStep(f) \/ PollAbort(f) \/ TaskDies(f)
      PROVE  PollLink(f) \/ UNCHANGED item
  BY <1>5 DEF FetchStep, FetchFindsNoRow, FetchNoJourney, FetchStart,
     FetchDownloaded, FetchGivesUp, FetchRaises, FetchStores, FetchDefersPoll,
     FetchAbort, PollStep, PollAgain, PollWakes, PollPark, PollTerminal, PollCount,
     PollNudge, PollAbort, TaskDies
<1>6. ASSUME \/ FlushClaim \/ FlushAbort \/ FlushDies
             \/ \E s \in Messages : \/ TimerExpires(s) \/ FlushDefer(s) \/ ProcessStep(s)
                                    \/ ProcessAbort(s) \/ ProcessDies(s)
      PROVE  \/ UNCHANGED item
             \/ \E s \in Messages : ProcessColdStart(s) \/ ProcessExact(s)
  BY <1>6 DEF FlushClaim, FlushAbort, FlushLoses, FlushDies, TimerExpires, FlushDefer, ProcessStep,
     ProcessRead, ProcessPark, ProcessFind, ProcessAbort, ProcessDies
<1> QED
  BY <1>1, <1>2, <1>3, <1>4, <1>5, <1>6 DEF Next, vars

\* What becomes of a single item.
LEMMA ItemsKept ==
  ASSUME EInv, [Next]_vars, NEW n \in Numbers, NEW t \in DocTypes
  PROVE  /\ item[n][t] = "satisfied" => item'[n][t] = "satisfied"
         /\ item'[n][t] = "satisfied" /\ item[n][t] # "satisfied" =>
              \E f \in Media : /\ verdict[f] = "accepted"
                               /\ file[f].document_type_key = t
                               /\ session[target[f]].deal = n
<1>i. item \in [Numbers -> [DocTypes -> ItemStates]]
  BY DEF EInv, IInv, TypeOK
<1>1. ASSUME NEW f \in Media, NEW k \in Numbers, NEW u \in DocTypes,
             item' = Satisfied(item, k, u)
      PROVE  /\ item[n][t] = "satisfied" => item'[n][t] = "satisfied"
             /\ item'[n][t] # item[n][t] => k = n /\ u = t
  <2>1. item'[n] = IF k = n
                     THEN [item[n] EXCEPT ![u] = IF @ = "absent" THEN @ ELSE "satisfied"]
                     ELSE item[n]
    BY <1>1, <1>i DEF Satisfied
  <2> QED
    BY <1>i, <2>1
<1>2. ASSUME NEW k \in Numbers, item' = Initialised(item, k)
      PROVE  /\ item[n][t] = "satisfied" => item'[n][t] = "satisfied"
             /\ item'[n][t] = "satisfied" => item[n][t] = "satisfied"
  BY <1>2, <1>i DEF Initialised
<1> QED
  BY <1>1, <1>2, ItemSteps

\* A whole checklist stays whole.
LEMMA WholeKept ==
  ASSUME EInv, [Next]_vars PROVE ChecklistsAreWhole'
<1>i. item \in [Numbers -> [DocTypes -> ItemStates]] /\ Blocking \subseteq DocTypes
  BY ChecklistAssumption DEF EInv, IInv, TypeOK
<1>1. ASSUME NEW k \in Numbers, NEW u \in DocTypes, item' = Satisfied(item, k, u)
      PROVE  ChecklistsAreWhole'
  <2>1. \A n \in Numbers, t \in DocTypes : item'[n][t] = "absent" <=> item[n][t] = "absent"
    BY <1>1, <1>i DEF Satisfied
  <2> QED
    BY <1>i, <2>1 DEF EInv, ChecklistsAreWhole
<1>2. ASSUME NEW k \in Numbers, item' = Initialised(item, k)
      PROVE  ChecklistsAreWhole'
  <2>1. \A n \in Numbers \ {k} : item'[n] = item[n]
    BY <1>2, <1>i DEF Initialised
  <2>2. \A t \in Blocking : item'[k][t] # "absent"
    BY <1>2, <1>i DEF Initialised
  <2> QED
    BY <2>1, <2>2 DEF EInv, ChecklistsAreWhole
<1>3. CASE UNCHANGED item
  BY <1>3 DEF EInv, ChecklistsAreWhole
<1> QED
  BY <1>1, <1>2, <1>3, ItemSteps

\* Only process_session, on an exact match, completes a session, and only when
\* the checklist has nothing open.
LEMMA CompletionStep ==
  ASSUME EInv, [Next]_vars, NEW s \in Messages,
         session'[s].state = "complete", session[s].state # "complete"
  PROVE  ChecklistComplete(item'[BookingNumber[s]]) /\ proc[s].pc = "exact_deal"
<1>1. session \in [Messages -> SessionRow]
  BY DEF EInv, IInv, TypeOK
<1>2. ASSUME NEW t \in Messages, ProcessExact(t)
      PROVE  ChecklistComplete(item'[BookingNumber[s]]) /\ proc[s].pc = "exact_deal"
  BY <1>1, <1>2 DEF ProcessExact
<1>3. \A m \in Messages : \/ IntakeIgnore(m) \/ IntakeSelect(m) \/ IntakeStep(m)
                          \/ IntakeAbort(m) \/ IntakeDies(m)
        => session'[s].state \in {session[s].state, "collecting"}
  BY <1>1 DEF IntakeIgnore, IntakeSelect, IntakeStep, IntakeInsert, IntakeRegister,
     IntakeCommit, IntakeMark, IntakeAbort, IntakeDies, SessionRow
<1>4. \A f \in Media : \/ FetchStep(f) \/ FetchAbort(f)
                       \/ PollStep(f) \/ PollAbort(f) \/ TaskDies(f)
        => session'[s].state \in {session[s].state, "parked"}
  BY <1>1 DEF FetchStep, FetchFindsNoRow, FetchNoJourney, FetchStart,
     FetchDownloaded, FetchGivesUp, FetchRaises, FetchStores, FetchDefersPoll,
     FetchAbort, PollStep, PollAgain, PollWakes, PollPark, PollTerminal, PollLink,
     PollCount, PollNudge, PollAbort, TaskDies, SessionRow
<1>5. FlushClaim \/ FlushAbort \/ FlushDies
        => session'[s].state \in {session[s].state, "processing"}
  BY <1>1 DEF FlushClaim, FlushAbort, FlushLoses, FlushDies, SessionRow
<1>6. \A t \in Messages : \/ TimerExpires(t) \/ FlushDefer(t)
                          \/ ProcessRead(t) \/ ProcessPark(t) \/ ProcessFind(t)
                          \/ ProcessColdStart(t) \/ ProcessAbort(t) \/ ProcessDies(t)
        => session'[s].state \in {session[s].state, "parked", "confirming_deal"}
  BY <1>1 DEF TimerExpires, FlushDefer, ProcessRead, ProcessPark, ProcessFind,
     ProcessColdStart, Confirming, ProcessAbort, ProcessDies, SessionRow
<1> QED
  BY <1>2, <1>3, <1>4, <1>5, <1>6 DEF Next, ProcessStep, vars

\* Every step preserves the evidence invariant.
LEMMA EvidenceStep == EInv /\ [Next]_vars => EInv'
<1> SUFFICES ASSUME EInv, [Next]_vars PROVE EInv'
  OBVIOUS
<1>1. IInv'
  BY StepInv DEF EInv
<1>2. SatisfiedByAcceptedEvidence'
  <2> SUFFICES ASSUME NEW n \in Numbers, NEW t \in DocTypes, item'[n][t] = "satisfied"
               PROVE  \E f \in Media : /\ verdict'[f] = "accepted"
                                       /\ file'[f].document_type_key = t
                                       /\ session'[target'[f]].deal = n
    BY DEF SatisfiedByAcceptedEvidence
  <2>1. PICK f \in Media : /\ verdict[f] = "accepted"
                           /\ file[f].document_type_key = t
                           /\ session[target[f]].deal = n
    BY ItemsKept DEF EInv, SatisfiedByAcceptedEvidence
  <2>2. verdict'[f] = "accepted" /\ target'[f] = target[f] /\ file'[f] = file[f]
    BY <2>1, VerdictsKept
  <2>3. target[f] \in Messages
    BY <2>1 DEF EInv, VerdictSettles, IInv, FilesHaveSessions
  <2>4. session'[target[f]].deal = n
    BY <2>1, <2>3, DealsKept, ChecklistAssumption
  <2> QED
    BY <2>1, <2>2, <2>4
<1>3. CompleteMeansSatisfied'
  <2> SUFFICES ASSUME NEW s \in Messages, session'[s].state = "complete", NEW t \in Blocking
               PROVE  item'[BookingNumber[s]][t] = "satisfied"
    BY DEF CompleteMeansSatisfied
  <2>1. BookingNumber[s] \in Numbers /\ t \in DocTypes
    BY MessagesAssumption, ChecklistAssumption
  <2>2. CASE session[s].state = "complete"
    BY <2>1, <2>2, ItemsKept DEF EInv, CompleteMeansSatisfied
  <2>3. CASE session[s].state # "complete"
    <3>1. ChecklistComplete(item'[BookingNumber[s]])
      BY <2>3, CompletionStep
    <3>2. item'[BookingNumber[s]][t] # "absent"
      BY <2>1, <3>1, WholeKept DEF ChecklistComplete, ChecklistsAreWhole
    <3>3. item'[BookingNumber[s]][t] \in ItemStates
      BY <1>1, <2>1 DEF IInv, TypeOK
    <3> QED
      BY <3>1, <3>2, <3>3 DEF ChecklistComplete, ItemStates
  <2> QED
    BY <2>2, <2>3
<1> QED
  BY <1>1, <1>2, <1>3, VerdictsKept, WholeKept DEF EInv

\* A satisfied item names a type that DI accepted evidence of, from a session
\* that is linked to the deal.
THEOREM OnlyAcceptedEvidenceSatisfies == Spec => []SatisfiedByAcceptedEvidence
<1>1. EInv => SatisfiedByAcceptedEvidence
  BY DEF EInv
<1> QED
  BY <1>1, InitEvidence, EvidenceStep, PTL DEF Spec

\* A session is complete only when every blocking document of its deal is in.
THEOREM CompleteIsComplete == Spec => []CompleteMeansSatisfied
<1>1. EInv => CompleteMeansSatisfied
  BY DEF EInv
<1> QED
  BY <1>1, InitEvidence, EvidenceStep, PTL DEF Spec

\* No later session, poll or retry takes a satisfied item back.
THEOREM ChecklistGrows == Spec => ChecklistNeverRegresses
<1>1. EInv /\ [Next]_vars =>
        [\A n \in Numbers, t \in DocTypes :
           item[n][t] = "satisfied" => item'[n][t] = "satisfied"]_vars
  BY ItemsKept
<1> QED
  BY <1>1, InitEvidence, EvidenceStep, PTL DEF Spec, ChecklistNeverRegresses

-----------------------------------------------------------------------------
(* The question to the PC.  It is asked once process_session is done with  *)
(* the session, so that only a poll may still change the session, and all  *)
(* it may do is park it.                                                   *)

Prompted(s) == <<s, "deal_confirm">> \in outbox

PromptedIsDone ==
  \A s \in Messages : Prompted(s) => proc[s].pc = "done"

PInv == EInv /\ PromptedIsDone /\ PromptIsBackedOrParked

\* No one has been asked at the start.
LEMMA InitPrompt == Init => PInv
<1>1. Init => PromptedIsDone /\ PromptIsBackedOrParked
  BY DEF Init, PromptedIsDone, PromptIsBackedOrParked, Prompted
<1> QED
  BY <1>1, InitEvidence DEF PInv

\* Only a cold start asks.
LEMMA PromptSteps ==
  ASSUME EInv, [Next]_vars, NEW s \in Messages, Prompted(s)', ~Prompted(s)
  PROVE  ProcessColdStart(s)
<1>1. ASSUME NEW t \in Messages, ProcessColdStart(t)
      PROVE  ProcessColdStart(s)
  BY <1>1 DEF ProcessColdStart, Prompted
<1>2. ASSUME outbox' = outbox PROVE FALSE
  BY <1>2 DEF Prompted
<1>3. ASSUME NEW t \in Messages, ProcessExact(t) PROVE FALSE
  BY <1>3 DEF ProcessExact, Prompted
<1>4. ASSUME NEW m \in Messages,
             \/ IntakeIgnore(m) \/ IntakeSelect(m) \/ IntakeStep(m)
             \/ IntakeAbort(m) \/ IntakeDies(m)
      PROVE  FALSE
  BY <1>2, <1>4 DEF IntakeIgnore, IntakeSelect, IntakeStep, IntakeInsert,
     IntakeRegister, IntakeCommit, IntakeMark, IntakeAbort, IntakeDies
<1>5. ASSUME NEW f \in Media,
             \/ FetchStep(f) \/ FetchAbort(f)
             \/ PollStep(f) \/ PollAbort(f) \/ TaskDies(f)
      PROVE  FALSE
  BY <1>2, <1>5 DEF FetchStep, FetchFindsNoRow, FetchNoJourney, FetchStart,
     FetchDownloaded, FetchGivesUp, FetchRaises, FetchStores, FetchDefersPoll,
     FetchAbort, PollStep, PollAgain, PollWakes, PollPark, PollTerminal, PollLink,
     PollCount, PollNudge, PollAbort, TaskDies
<1>6. ASSUME \/ FlushClaim \/ FlushAbort \/ FlushDies
             \/ \E t \in Messages : \/ TimerExpires(t) \/ FlushDefer(t) \/ ProcessRead(t)
                                    \/ ProcessPark(t) \/ ProcessFind(t)
                                    \/ ProcessAbort(t) \/ ProcessDies(t)
      PROVE  FALSE
  BY <1>2, <1>6 DEF FlushClaim, FlushAbort, FlushLoses, FlushDies,
     TimerExpires, FlushDefer, ProcessRead,
     ProcessPark, ProcessFind, ProcessAbort, ProcessDies
<1> QED
  BY <1>1, <1>2, <1>3, <1>4, <1>5, <1>6 DEF Next, ProcessStep, vars

\* A job that is done stays so.
LEMMA DoneStays ==
  ASSUME EInv, [Next]_vars, NEW s \in Messages, proc[s].pc = "done"
  PROVE  proc'[s].pc = "done"
<1>1. proc \in [Messages -> ProcJob] /\ session[s].state # "collecting"
  BY DEF EInv, IInv, TypeOK, JobsFollowSessions
<1>2. ASSUME NEW m \in Messages,
             \/ IntakeIgnore(m) \/ IntakeSelect(m) \/ IntakeStep(m)
             \/ IntakeAbort(m) \/ IntakeDies(m)
      PROVE  proc' = proc
  BY <1>2, IntakeKeepsVerdicts
<1>3. ASSUME NEW f \in Media,
             \/ FetchStep(f) \/ FetchAbort(f)
             \/ PollStep(f) \/ PollAbort(f) \/ TaskDies(f)
      PROVE  proc' = proc
  BY <1>3, FileJobsKeepVerdicts
<1>4. CASE FlushClaim \/ FlushAbort \/ FlushDies
  BY <1>1, <1>4 DEF FlushClaim, FlushAbort, FlushLoses, FlushDies, Claimable, ClaimStates
<1>5. ASSUME NEW t \in Messages,
             \/ TimerExpires(t) \/ FlushDefer(t) \/ ProcessStep(t)
             \/ ProcessAbort(t) \/ ProcessDies(t)
      PROVE  proc'[s] = proc[s]
  BY <1>1, <1>5 DEF TimerExpires, FlushDefer, ProcessStep, ProcessRead, ProcessPark,
     ProcessFind, ProcessColdStart, ProcessExact, ProcessAbort, ProcessDies, RaisedProc
<1> QED
  BY <1>1, <1>2, <1>3, <1>4, <1>5 DEF Next, vars

\* No deal and no checklist item goes away.
LEMMA DealsStay ==
  ASSUME EInv, [Next]_vars, NEW n \in Numbers
  PROVE  /\ deal[n] # "none" => deal'[n] # "none"
         /\ \A t \in DocTypes : item[n][t] # "absent" => item'[n][t] # "absent"
<1>1. /\ deal \in [Numbers -> {"none", "provisional", "confirmed"}]
      /\ item \in [Numbers -> [DocTypes -> ItemStates]]
  BY DEF EInv, IInv, TypeOK
<1>2. \A t \in DocTypes : item[n][t] # "absent" => item'[n][t] # "absent"
  BY <1>1, ItemSteps DEF Satisfied, Initialised
<1> DEFINE Changed == \E k \in Numbers : deal' = Created(deal, k) \/ deal' = Confirmed(deal, k)
<1>3. deal' = deal \/ Changed
  <2>1. ASSUME NEW m \in Messages,
               \/ IntakeIgnore(m) \/ IntakeSelect(m) \/ IntakeStep(m)
               \/ IntakeAbort(m) \/ IntakeDies(m)
        PROVE  deal' = deal
    BY <2>1 DEF IntakeIgnore, IntakeSelect, IntakeStep, IntakeInsert,
       IntakeRegister, IntakeCommit, IntakeMark, IntakeAbort, IntakeDies
  <2>2. ASSUME NEW f \in Media,
               \/ FetchStep(f) \/ FetchAbort(f)
               \/ PollStep(f) \/ PollAbort(f) \/ TaskDies(f)
        PROVE  deal' = deal
    BY <2>2 DEF FetchStep, FetchFindsNoRow, FetchNoJourney, FetchStart,
       FetchDownloaded, FetchGivesUp, FetchRaises, FetchStores, FetchDefersPoll,
       FetchAbort, PollStep, PollAgain, PollWakes, PollPark, PollTerminal, PollLink,
       PollCount, PollNudge, PollAbort, TaskDies
  <2>3. CASE FlushClaim \/ FlushAbort \/ FlushDies
    BY <2>3 DEF FlushClaim, FlushAbort, FlushLoses, FlushDies
  <2>4. ASSUME NEW t \in Messages,
               \/ TimerExpires(t) \/ FlushDefer(t) \/ ProcessStep(t)
               \/ ProcessAbort(t) \/ ProcessDies(t)
        PROVE  deal' = deal \/ Changed
    <3>1. CASE ProcessColdStart(t) \/ ProcessExact(t)
      BY <3>1, MessagesAssumption DEF ProcessColdStart, ProcessExact
    <3>2. CASE ~(ProcessColdStart(t) \/ ProcessExact(t))
      BY <2>4, <3>2 DEF TimerExpires, FlushDefer, ProcessStep, ProcessRead, ProcessPark,
         ProcessFind, ProcessAbort, ProcessDies
    <3> QED
      BY <3>1, <3>2
  <2>5. CASE UNCHANGED vars
    BY <2>5 DEF vars
  <2> HIDE DEF Changed
  <2> QED
    BY <2>1, <2>2, <2>3, <2>4, <2>5 DEF Next
<1>4. deal[n] # "none" => deal'[n] # "none"
  BY <1>1, <1>3 DEF Created, Confirmed
<1> QED
  BY <1>2, <1>4

\* A session that nothing processes stays parked.
LEMMA ParkedStays ==
  ASSUME EInv, [Next]_vars, NEW s \in Messages,
         session[s].state = "parked", proc[s].pc = "done"
  PROVE  session'[s].state = "parked"
<1>1. [Lifecycle!Next]_<<StateOf, DealOf>>
  BY LifecycleStep DEF EInv
<1>2. StateOf[s] = "parked" => StateOf'[s] \in {"parked", "complete"}
  BY <1>1 DEF Lifecycle!Next, Lifecycle!Start, Lifecycle!Complete, Lifecycle!Park,
     Lifecycle!Confirm, Lifecycle!Flush, StateOf
<1>3. session'[s].state # "complete"
  BY CompletionStep
<1> QED
  BY <1>2, <1>3 DEF StateOf

\* A cold start leaves what it asks about.
LEMMA ColdStartBacks ==
  ASSUME EInv, NEW s \in Messages, ProcessColdStart(s)
  PROVE  /\ proc'[s].pc = "done"
         /\ deal'[BookingNumber[s]] # "none"
         /\ \A t \in Blocking \cup Optional : item'[BookingNumber[s]][t] # "absent"
         /\ session'[s].deal = BookingNumber[s] \/ session'[s].state = "parked"
<1> DEFINE n == BookingNumber[s]
<1>1. n \in Numbers /\ Blocking \cup Optional \subseteq DocTypes
  BY MessagesAssumption, ChecklistAssumption
<1>2. /\ deal \in [Numbers -> {"none", "provisional", "confirmed"}]
      /\ item \in [Numbers -> [DocTypes -> ItemStates]]
      /\ session \in [Messages -> SessionRow] /\ proc \in [Messages -> ProcJob]
  BY DEF EInv, IInv, TypeOK
<1>3. proc'[s].pc = "done"
  BY <1>2 DEF ProcessColdStart, ProcJob
<1>4. deal'[n] # "none"
  BY <1>1, <1>2 DEF ProcessColdStart, Created
<1>5. item' = Initialised(item, n)
  <2>1. Initialised(item, n) \in [Numbers -> [DocTypes -> ItemStates]]
    BY <1>1, <1>2, InitialisedType
  <2> QED
    BY <1>1, <2>1, SatisfiedByFilesIsIdentity DEF ProcessColdStart
<1>6. \A t \in Blocking \cup Optional : item'[n][t] # "absent"
  BY <1>1, <1>2, <1>5 DEF Initialised
<1>7. session[s].state \in {"processing", "parked"}
  BY DEF ProcessColdStart, EInv, IInv, JobsFollowSessions, InFlight
<1>8. session'[s].deal = n \/ session'[s].state = "parked"
  <2>1. session' = Confirming(s, n)
    BY DEF ProcessColdStart
  <2>2. CASE session[s].state = "processing"
    BY <1>2, <2>1, <2>2 DEF Confirming, SessionRow
  <2>3. CASE session[s].state = "parked"
    BY <2>1, <2>3 DEF Confirming
  <2> QED
    BY <1>7, <2>2, <2>3
<1> QED
  BY <1>3, <1>4, <1>6, <1>8

\* The invariant of the prompts is inductive.
LEMMA PromptStep == PInv /\ [Next]_vars => PInv'
<1> SUFFICES ASSUME PInv, [Next]_vars PROVE PInv'
  OBVIOUS
<1>0. EInv /\ EInv'
  BY EvidenceStep DEF PInv
<1> SUFFICES ASSUME NEW s \in Messages, Prompted(s)'
             PROVE  /\ proc'[s].pc = "done"
                    /\ deal'[BookingNumber[s]] # "none"
                    /\ \A t \in Blocking \cup Optional : item'[BookingNumber[s]][t] # "absent"
                    /\ session'[s].deal = BookingNumber[s] \/ session'[s].state = "parked"
  BY <1>0 DEF PInv, PromptedIsDone, PromptIsBackedOrParked, Prompted
<1>1. CASE ~Prompted(s)
  BY <1>0, <1>1, PromptSteps, ColdStartBacks
<1>2. CASE Prompted(s)
  <2>1. /\ proc[s].pc = "done"
        /\ deal[BookingNumber[s]] # "none"
        /\ \A t \in Blocking \cup Optional : item[BookingNumber[s]][t] # "absent"
        /\ session[s].deal = BookingNumber[s] \/ session[s].state = "parked"
    BY <1>2 DEF PInv, PromptedIsDone, PromptIsBackedOrParked, Prompted
  <2>2. BookingNumber[s] \in Numbers /\ Blocking \cup Optional \subseteq DocTypes
    BY MessagesAssumption, ChecklistAssumption
  <2>3. proc'[s].pc = "done"
    BY <1>0, <2>1, DoneStays
  <2>4. /\ deal'[BookingNumber[s]] # "none"
        /\ \A t \in Blocking \cup Optional : item'[BookingNumber[s]][t] # "absent"
    BY <1>0, <2>1, <2>2, DealsStay
  <2>5. session'[s].deal = BookingNumber[s] \/ session'[s].state = "parked"
    <3>1. CASE session[s].deal = BookingNumber[s]
      BY <1>0, <2>2, <3>1, DealsKept, ChecklistAssumption
    <3>2. CASE session[s].state = "parked"
      BY <1>0, <2>1, <3>2, ParkedStays
    <3> QED
      BY <2>1, <3>1, <3>2
  <2> QED
    BY <2>3, <2>4, <2>5
<1> QED
  BY <1>1, <1>2

\* A PC is asked to confirm only a deal that exists with its checklist and is
\* the session's own, unless a poll has parked the session.
THEOREM PromptsAreBacked == Spec => []PromptIsBackedOrParked
<1>1. PInv => PromptIsBackedOrParked
  BY DEF PInv
<1> QED
  BY <1>1, InitPrompt, PromptStep, PTL DEF Spec

-----------------------------------------------------------------------------
(* The fetch jobs implement FileLifecycle: what EvidenceFile shows of one  *)
(* file in full is what the sessions of this module rely on.               *)

IntakeAct(m) ==
  IntakeIgnore(m) \/ IntakeSelect(m) \/ IntakeStep(m) \/ IntakeAbort(m) \/ IntakeDies(m)

FetchAct(f) == FetchStep(f) \/ FetchAbort(f)

FileAct(f) == FetchAct(f) \/ PollStep(f) \/ PollAbort(f) \/ TaskDies(f)

SessionAct(s) ==
  TimerExpires(s) \/ FlushDefer(s) \/ ProcessStep(s) \/ ProcessAbort(s) \/ ProcessDies(s)

FileStateOf == [f \in Media |-> file[f].state]
FetchAt == [f \in Media |-> FetchPhase(f)]
FetchTries == [f \in Media |-> task[f].tries]

\* The fetch job of a message is deferred by its intake.
TasksFollowIntakes ==
  \A m \in Media : intake[m] \in {"pending", "creating", "opened"} => task[m].pc = "none"

FInv == IInv /\ TasksFollowIntakes

\* It is kept: only an intake defers the fetch, and it moves on in that step.
LEMMA TasksFollow == FInv /\ [Next]_vars => FInv'
<1> SUFFICES ASSUME FInv, [Next]_vars PROVE FInv'
  OBVIOUS
<1>0. /\ IInv' /\ task \in [Media -> TaskJob]
      /\ intake \in [Messages -> IntakeStates] /\ Media \subseteq Messages
  BY StepInv, MessagesAssumption DEF FInv, IInv, TypeOK
<1>1. ASSUME NEW m \in Messages, IntakeAct(m) PROVE TasksFollowIntakes'
  <2>1. \A o \in Messages \ {m} : intake'[o] = intake[o]
    BY <1>0, <1>1 DEF IntakeAct, IntakeIgnore, IntakeSelect, IntakeStep, IntakeInsert,
       IntakeRegister, IntakeCommit, IntakeMark, IntakeAbort, IntakeDies
  <2>2. \A o \in Media \ {m} : task'[o] = task[o]
    BY <1>0, <1>1 DEF IntakeAct, IntakeIgnore, IntakeSelect, IntakeStep, IntakeInsert,
       IntakeRegister, IntakeCommit, IntakeMark, IntakeAbort, IntakeDies
  <2>3. intake'[m] \in {"pending", "creating", "opened"}
          => task' = task /\ intake[m] \in {"pending", "creating", "opened"}
    BY <1>0, <1>1 DEF IntakeAct, IntakeIgnore, IntakeSelect, IntakeStep, IntakeInsert,
       IntakeRegister, IntakeCommit, IntakeMark, IntakeAbort, IntakeDies
  <2> QED
    BY <1>0, <2>1, <2>2, <2>3 DEF FInv, TasksFollowIntakes
<1>2. ASSUME NEW f \in Media, FileAct(f) PROVE TasksFollowIntakes'
  <2>1. task[f].pc # "none" /\ intake' = intake /\ \A g \in Media \ {f} : task'[g] = task[g]
    BY <1>0, <1>2 DEF FileAct, FetchAct, FetchStep, FetchFindsNoRow, FetchNoJourney,
       FetchStart, FetchDownloaded, FetchGivesUp, FetchRaises, FetchStores,
       FetchDefersPoll, FetchAbort, RaisedTask, PollStep, PollAgain, Rescheduled,
       PollWakes, PollPark, PollTerminal, PollLink, PollCount, PollNudge, PollAbort,
       TaskDies
  <2> QED
    BY <2>1 DEF FInv, TasksFollowIntakes
<1>3. CASE UNCHANGED <<intake, task>>
  BY <1>0, <1>3 DEF FInv, TasksFollowIntakes
<1> QED
  BY <1>0, <1>1, <1>2, <1>3 DEF FInv, Next, vars, IntakeAct, FileAct, FetchAct, FlushClaim,
     FlushAbort, FlushLoses, FlushDies,
     TimerExpires, FlushDefer, ProcessStep, ProcessRead, ProcessPark,
     ProcessFind, ProcessColdStart, ProcessExact, ProcessAbort, ProcessDies

\* A job that goes on without raising.
LEMMA FetchGoes ==
  ASSUME TypeOK, NEW f \in Media, NEW pc, NEW to,
         task' = [task EXCEPT ![f].pc = pc],
         to = IF pc \in {"none", "queued", "downloading", "storing", "stored"}
                THEN pc ELSE "over"
  PROVE  Fetching!Goes(f, to)
<1>1. \A g \in Media : /\ FetchPhase(g)' = IF g = f THEN to ELSE FetchPhase(g)
                       /\ task'[g].tries = task[g].tries
  BY DEF TypeOK, TaskJob, FetchPhase
<1>2. FetchAt' = [FetchAt EXCEPT ![f] = to] /\ FetchTries' = FetchTries
  BY <1>1 DEF FetchAt, FetchTries
<1> QED
  BY <1>2 DEF Fetching!Goes, FetchAt, FetchTries

\* Procrastinate's retry is the same on both levels.
LEMMA FetchRunsAgain ==
  ASSUME TypeOK, NEW f \in Media, task' = RaisedTask(f)
  PROVE  Fetching!RunsAgain(f)
<1>0. FetchTries[f] = task[f].tries
  BY DEF FetchTries
<1>1. CASE task[f].tries < FetchRetries
  <2>1. \A g \in Media :
          /\ FetchPhase(g)' = IF g = f THEN "queued" ELSE FetchPhase(g)
          /\ task'[g].tries = IF g = f THEN task[f].tries + 1 ELSE task[g].tries
    BY <1>1 DEF TypeOK, TaskJob, FetchPhase, RaisedTask
  <2>2. /\ FetchAt' = [FetchAt EXCEPT ![f] = "queued"]
        /\ FetchTries' = [FetchTries EXCEPT ![f] = @ + 1]
    BY <2>1 DEF FetchAt, FetchTries
  <2> QED
    BY <1>0, <1>1, <2>2 DEF Fetching!RunsAgain, FetchAt, FetchTries
<1>2. CASE ~(task[f].tries < FetchRetries)
  <2>1. task' = [task EXCEPT ![f].pc = "done"]
    BY <1>2 DEF RaisedTask
  <2>2. Fetching!Goes(f, "over")
    BY <2>1, FetchGoes
  <2> QED
    BY <1>0, <1>2, <2>2 DEF Fetching!RunsAgain, FetchTries
<1> QED
  BY <1>1, <1>2

\* A write of a row's state is a write of the abstract state.
LEMMA FetchWrites ==
  ASSUME TypeOK, NEW f \in Media, NEW st,
         \A g \in Media \ {f} : file'[g].state = file[g].state,
         file'[f].state = st
  PROVE  Fetching!Writes(f, st)
<1>1. FileStateOf' = [FileStateOf EXCEPT ![f] = st]
  BY DEF FileStateOf
<1> QED
  BY <1>1 DEF Fetching!Writes, FileStateOf

\* Every step of a fetch job is a step of FileLifecycle.
LEMMA FetchMaps ==
  ASSUME TypeOK, NEW f \in Media, FetchAct(f)
  PROVE  Fetching!Next
<1>0. task \in [Media -> TaskJob] /\ file \in [Media -> FileRow]
  BY DEF TypeOK
<1>a. FetchAt[f] = FetchPhase(f) /\ FileStateOf[f] = file[f].state
  BY DEF FetchAt, FileStateOf
<1>b. ASSUME UNCHANGED file PROVE UNCHANGED FileStateOf
  BY <1>b DEF FileStateOf
<1>w. ASSUME NEW st, file' = [file EXCEPT ![f].state = st]
      PROVE  Fetching!Writes(f, st)
  <2>1. /\ \A g \in Media \ {f} : file'[g].state = file[g].state
        /\ file'[f].state = st
    BY <1>0, <1>w DEF FileRow
  <2> QED
    BY <2>1, FetchWrites
<1>1. CASE FetchFindsNoRow(f)
  <2>1. Fetching!Goes(f, "over")
    BY <1>1, FetchGoes DEF FetchFindsNoRow
  <2>2. Fetching!FindsNoRow(f)
    BY <1>1, <1>a, <1>b, <2>1 DEF FetchFindsNoRow, FetchPhase, Fetching!FindsNoRow,
       FetchAt, FileStateOf
  <2> QED
    BY <2>2 DEF Fetching!Next
<1>2. CASE FetchNoJourney(f) \/ FetchStart(f)
  <2>1. \/ Fetching!Goes(f, "downloading") /\ Fetching!Writes(f, "downloading")
        \/ Fetching!Goes(f, "over") /\ Fetching!Writes(f, "failed")
    <3>1. CASE FetchNoJourney(f)
      BY <3>1, <1>w, FetchGoes DEF FetchNoJourney
    <3>2. CASE FetchStart(f)
      BY <3>2, <1>w, FetchGoes DEF FetchStart
    <3> QED
      BY <1>2, <3>1, <3>2
  <2>2. FetchPhase(f) = "queued" /\ file[f].state # "absent"
    BY <1>2 DEF FetchNoJourney, FetchStart, FetchPhase
  <2>3. Fetching!Begin(f)
    BY <1>a, <2>1, <2>2 DEF Fetching!Begin, FetchAt, FileStateOf
  <2> QED
    BY <2>3 DEF Fetching!Next
<1>3. CASE FetchDownloaded(f)
  <2>1. Fetching!Goes(f, "storing") /\ Fetching!Writes(f, "storing")
    BY <1>3, <1>w, FetchGoes DEF FetchDownloaded
  <2>2. Fetching!Download(f)
    BY <1>3, <1>a, <2>1 DEF FetchDownloaded, FetchPhase, Fetching!Download, FetchAt
  <2> QED
    BY <2>2 DEF Fetching!Next
<1>4. CASE FetchGivesUp(f)
  <2>1. Fetching!Goes(f, "over") /\ Fetching!Writes(f, "failed")
    BY <1>4, <1>w, FetchGoes DEF FetchGivesUp
  <2>2. Fetching!GiveUp(f)
    BY <1>4, <1>a, <2>1 DEF FetchGivesUp, FetchPhase, Fetching!GiveUp, FetchAt
  <2> QED
    BY <2>2 DEF Fetching!Next
<1>5. CASE FetchRaises(f)
  <2>1. Fetching!RunsAgain(f)
    BY <1>5, FetchRunsAgain DEF FetchRaises
  <2>2. \E st \in {"failed", "quarantined"} : Fetching!Writes(f, st)
    BY <1>5, <1>w DEF FetchRaises
  <2>3. Fetching!Reject(f)
    BY <1>5, <1>a, <2>1, <2>2 DEF FetchRaises, FetchPhase, Fetching!Reject, FetchAt
  <2> QED
    BY <2>3 DEF Fetching!Next
<1>6. CASE FetchStores(f)
  <2>1. /\ \A g \in Media \ {f} : file'[g].state = file[g].state
        /\ file'[f].state = "stored"
    BY <1>0, <1>6 DEF FetchStores, FileRow
  <2>2. Fetching!Goes(f, "stored") /\ Fetching!Writes(f, "stored")
    BY <1>6, <2>1, FetchWrites, FetchGoes DEF FetchStores
  <2>3. Fetching!Store(f)
    BY <1>6, <1>a, <2>2 DEF FetchStores, FetchPhase, Fetching!Store, FetchAt
  <2> QED
    BY <2>3 DEF Fetching!Next
<1>7. CASE FetchDefersPoll(f)
  <2>1. Fetching!Goes(f, "over")
    BY <1>7, FetchGoes DEF FetchDefersPoll
  <2>2. Fetching!DeferPoll(f)
    BY <1>7, <1>a, <1>b, <2>1 DEF FetchDefersPoll, FetchPhase, Fetching!DeferPoll,
       FetchAt, FileStateOf
  <2> QED
    BY <2>2 DEF Fetching!Next
<1>8. CASE FetchAbort(f)
  <2>1. Fetching!RunsAgain(f)
    BY <1>8, FetchRunsAgain DEF FetchAbort
  <2>2. Fetching!Break(f)
    BY <1>8, <1>a, <1>b, <2>1 DEF FetchAbort, FetchPhase, Fetching!Break, FetchAt,
       FileStateOf
  <2> QED
    BY <2>2 DEF Fetching!Next
<1> QED
  BY <1>1, <1>2, <1>3, <1>4, <1>5, <1>6, <1>7, <1>8 DEF FetchAct, FetchStep

\* A death is one in FileLifecycle too; of polls it sees nothing.
LEMMA PollsAreUnseen ==
  ASSUME TypeOK, NEW f \in Media, PollStep(f) \/ PollAbort(f) \/ TaskDies(f)
  PROVE  Fetching!Next \/ UNCHANGED <<FileStateOf, FetchAt, FetchTries>>
<1>0. task \in [Media -> TaskJob] /\ file \in [Media -> FileRow]
  BY DEF TypeOK
<1>1. CASE TaskDies(f)
  <2>1. Fetching!Goes(f, "over")
    BY <1>1, FetchGoes DEF TaskDies
  <2>2. FetchAt[f] # "none" /\ UNCHANGED FileStateOf
    BY <1>1 DEF TaskDies, FetchAt, FetchPhase, FileStateOf
  <2>3. Fetching!Die(f)
    BY <2>1, <2>2 DEF Fetching!Die, FetchAt, FileStateOf
  <2> QED
    BY <2>3 DEF Fetching!Next
<1>2. CASE PollStep(f) \/ PollAbort(f)
  <2>1. \A g \in Media : file'[g].state = file[g].state
    BY <1>0, <1>2 DEF FileRow, PollStep, PollAgain, PollWakes, PollPark, PollTerminal,
       PollLink, PollCount, PollNudge, PollAbort
  <2>2. \A g \in Media : task'[g].tries = task[g].tries
    BY <1>0, <1>2 DEF TaskJob, PollStep, PollAgain, Rescheduled, PollWakes, PollPark,
       PollTerminal, PollLink, PollCount, PollNudge, PollAbort
  <2>3. \A g \in Media : FetchPhase(g)' = FetchPhase(g)
    BY <1>0, <1>2 DEF TaskJob, FetchPhase, PollStep, PollAgain, Rescheduled, PollWakes,
       PollPark, PollTerminal, PollLink, PollCount, PollNudge, PollAbort
  <2> QED
    BY <2>1, <2>2, <2>3 DEF FileStateOf, FetchAt, FetchTries
<1> QED
  BY <1>1, <1>2

\* An intake defers the job once, and commits a row that was not there.
LEMMA IntakeMaps ==
  ASSUME FInv, NEW m \in Messages, IntakeAct(m)
  PROVE  Fetching!Next \/ UNCHANGED <<FileStateOf, FetchAt, FetchTries>>
<1>0. /\ TypeOK /\ task \in [Media -> TaskJob] /\ file \in [Media -> FileRow]
  BY DEF FInv, IInv, TypeOK
<1>1. CASE IntakeRegister(m)
  <2>1. m \in Media /\ task[m].pc = "none"
    BY <1>1 DEF IntakeRegister, FInv, TasksFollowIntakes
  <2>2. Fetching!Goes(m, "queued")
    BY <1>0, <1>1, <2>1, FetchGoes DEF IntakeRegister
  <2>3. FetchAt[m] = "none" /\ UNCHANGED FileStateOf
    BY <1>1, <2>1 DEF IntakeRegister, FetchAt, FetchPhase, FileStateOf
  <2>4. Fetching!Defer(m)
    BY <2>2, <2>3 DEF Fetching!Defer, FetchAt, FileStateOf
  <2> QED
    BY <2>1, <2>4 DEF Fetching!Next
<1>2. CASE IntakeCommit(m) /\ m \in Media
  <2>1. file[m].state = "absent" /\ file' = [file EXCEPT ![m].state = "pending"]
    BY <1>2 DEF IntakeCommit, FInv, IInv, FilesHaveSessions
  <2>2. FileStateOf[m] = "absent" /\ FileStateOf' = [FileStateOf EXCEPT ![m] = "pending"]
    BY <1>0, <1>2, <2>1 DEF FileRow, FileStateOf
  <2>3. UNCHANGED <<FetchAt, FetchTries>>
    BY <1>2 DEF IntakeCommit, FetchAt, FetchPhase, FetchTries
  <2>4. Fetching!Register(m)
    BY <2>2, <2>3 DEF Fetching!Register, FileStateOf, FetchAt, FetchTries
  <2> QED
    BY <1>2, <2>4 DEF Fetching!Next
<1>3. CASE UNCHANGED <<file, task>>
  BY <1>3 DEF FileStateOf, FetchAt, FetchPhase, FetchTries
<1> QED
  BY <1>1, <1>2, <1>3 DEF IntakeAct, IntakeIgnore, IntakeSelect, IntakeStep, IntakeInsert,
     IntakeCommit, IntakeMark, IntakeAbort, IntakeDies

\* Every behaviour of the system, projected on the files' states and the
\* fetch jobs, is one of FileLifecycle: a fetch that starts before its row is
\* committed finds nothing, and only a run that was stored polls DI.
THEOREM FetchingFollowsFileLifecycle == Spec => FollowsFileLifecycle
<1>1. Init => FInv /\ Fetching!Init
  <2> SUFFICES ASSUME Init PROVE FInv /\ Fetching!Init
    OBVIOUS
  <2>1. FInv
    BY InitInv, MessagesAssumption DEF Init, FInv, TasksFollowIntakes
  <2>2. /\ FileStateOf = [f \in Media |-> "absent"]
        /\ FetchTries = [f \in Media |-> 0]
    BY DEF Init, FileStateOf, FetchTries
  <2>3. FetchAt \in [Media -> {"none", "queued"}]
    BY DEF Init, FetchAt, FetchPhase
  <2> QED
    BY <2>1, <2>2, <2>3 DEF Fetching!Init, FileStateOf, FetchAt, FetchTries
<1>2. FInv /\ [Next]_vars => [Fetching!Next]_<<FileStateOf, FetchAt, FetchTries>>
  <2> SUFFICES ASSUME FInv, [Next]_vars
               PROVE  Fetching!Next \/ UNCHANGED <<FileStateOf, FetchAt, FetchTries>>
    OBVIOUS
  <2>0. TypeOK
    BY DEF FInv, IInv
  <2>1. ASSUME NEW m \in Messages, IntakeAct(m)
        PROVE  Fetching!Next \/ UNCHANGED <<FileStateOf, FetchAt, FetchTries>>
    BY <2>1, IntakeMaps
  <2>2. ASSUME NEW f \in Media, FileAct(f)
        PROVE  Fetching!Next \/ UNCHANGED <<FileStateOf, FetchAt, FetchTries>>
    BY <2>0, <2>2, FetchMaps, PollsAreUnseen DEF FileAct
  <2>3. CASE UNCHANGED <<file, task>>
    BY <2>3 DEF FileStateOf, FetchAt, FetchPhase, FetchTries
  <2>4. ASSUME \/ FlushClaim \/ FlushAbort \/ FlushDies \/ UNCHANGED vars
               \/ \E s \in Messages : SessionAct(s)
        PROVE  UNCHANGED <<file, task>>
    BY <2>4 DEF vars, FlushClaim, FlushAbort, FlushLoses, FlushDies,
       SessionAct, TimerExpires, FlushDefer,
       ProcessStep, ProcessRead, ProcessPark, ProcessFind, ProcessColdStart,
       ProcessExact, ProcessAbort, ProcessDies
  <2> QED
    BY <2>1, <2>2, <2>3, <2>4 DEF Next, IntakeAct, FileAct, FetchAct, SessionAct
<1>3. FInv /\ [Next]_vars
        => [Fetching!Next]_<<[f \in Media |-> file[f].state],
                             [f \in Media |-> FetchPhase(f)],
                             [f \in Media |-> task[f].tries]>>
  BY <1>2 DEF FileStateOf, FetchAt, FetchTries
<1> QED
  BY <1>1, <1>3, TasksFollow, PTL DEF Spec, FollowsFileLifecycle, Fetching!Spec

-----------------------------------------------------------------------------
(* Where sessions are left.  A job that ends without settling its session  *)
(* has used up its retries, died, or found a deal under its own number that*)
(* another session made: retries are counted against the exceptions there  *)
(* were, and deals against the jobs that made them.                        *)

NumberIsShared(s) == \E t \in Messages \ {s} : BookingNumber[t] = BookingNumber[s]

CausesAreCounted ==
  \A s \in Messages :
    /\ proc[s].tries <= aborts
    /\ proc[s].pc = "failed" => aborts > ProcessRetries
    /\ proc[s].pc = "lost" => crashes > 0
    /\ proc[s].pc = "undeferred" => aborts > 0
    /\ session[s].state = "processing" => proc[s].pc # "none"

DealsHaveMakers ==
  \A n \in Numbers : deal[n] # "none" =>
    \E t \in Messages : BookingNumber[t] = n /\ proc[t].pc = "done"

ExactMeansShared ==
  \A s \in Messages :
    proc[s].pc = "exact_deal" \/ (proc[s].pc = "done" /\ session[s].state = "processing")
      => NumberIsShared(s)

SInv == EInv /\ CausesAreCounted /\ DealsHaveMakers /\ ExactMeansShared

\* Exceptions and deaths are counted one by one.
LEMMA MishapsGrow ==
  ASSUME TypeOK, [Next]_vars
  PROVE  /\ aborts \in Nat /\ aborts' \in Nat /\ aborts' >= aborts
         /\ crashes \in Nat /\ crashes' \in Nat /\ crashes' >= crashes
<1>1. aborts \in Nat /\ crashes \in Nat
  BY BoundsAssumption DEF TypeOK
<1>2. ASSUME NEW m \in Messages, IntakeAct(m)
      PROVE  aborts' \in {aborts, aborts + 1} /\ crashes' \in {crashes, crashes + 1}
  BY <1>2 DEF IntakeAct, IntakeIgnore, IntakeSelect, IntakeStep, IntakeInsert,
     IntakeRegister, IntakeCommit, IntakeMark, IntakeAbort, IntakeDies, Died
<1>3. ASSUME NEW f \in Media, FileAct(f)
      PROVE  aborts' \in {aborts, aborts + 1} /\ crashes' \in {crashes, crashes + 1}
  BY <1>3 DEF FileAct, FetchAct, FetchStep, FetchFindsNoRow, FetchNoJourney, FetchStart,
     FetchDownloaded, FetchGivesUp, FetchRaises, FetchStores, FetchDefersPoll,
     FetchAbort, PollStep, PollAgain, PollWakes, PollPark, PollTerminal, PollLink,
     PollCount, PollNudge, PollAbort, TaskDies, Died
<1>4. ASSUME NEW s \in Messages, SessionAct(s)
      PROVE  aborts' \in {aborts, aborts + 1} /\ crashes' \in {crashes, crashes + 1}
  BY <1>4 DEF SessionAct, TimerExpires, FlushDefer, ProcessStep, ProcessRead, ProcessPark,
     ProcessFind, ProcessColdStart, ProcessExact, ProcessAbort, ProcessDies, Died
<1>5. ASSUME FlushClaim \/ FlushAbort \/ FlushDies \/ UNCHANGED vars
      PROVE  aborts' \in {aborts, aborts + 1} /\ crashes' \in {crashes, crashes + 1}
  BY <1>5 DEF FlushClaim, FlushAbort, FlushLoses, FlushDies, Died, vars
<1> QED
  BY <1>1, <1>2, <1>3, <1>4, <1>5 DEF Next, IntakeAct, FileAct, FetchAct, SessionAct

\* The steps of the flush, for one of the sessions it takes.
FlushMoves(s) ==
  \/ proc'[s] = [proc[s] EXCEPT !.pc = "claimed"]
  \/ proc'[s] = [proc[s] EXCEPT !.pc = "queued"]
  \/ proc'[s] = [proc[s] EXCEPT !.pc = "lost"] /\ crashes' = crashes + 1
  \/ proc'[s] = [proc[s] EXCEPT !.pc = "undeferred"] /\ aborts' = aborts + 1

SessionJobMoves(s) ==
  \/ proc'[s] = proc[s] \/ FlushMoves(s)
  \/ ProcessStep(s) \/ ProcessAbort(s) \/ ProcessDies(s)

ClaimsOnly(s) ==
  session'[s].state = "processing" =>
    session[s].state = "processing" \/ proc'[s].pc = "claimed"

\* What may happen to the jobs of one session, and that only the flush makes
\* it 'processing'.
LEMMA SessionJobSteps ==
  ASSUME EInv, [Next]_vars, NEW s \in Messages
  PROVE  SessionJobMoves(s) /\ ClaimsOnly(s)
<1>1. proc \in [Messages -> ProcJob] /\ session \in [Messages -> SessionRow]
  BY DEF EInv, IInv, TypeOK
<1>2. ASSUME NEW m \in Messages, IntakeAct(m)
      PROVE  SessionJobMoves(s) /\ ClaimsOnly(s)
  <2>1. proc' = proc
    BY <1>2, IntakeKeepsVerdicts DEF IntakeAct
  <2>2. session'[s].state = "processing" => session[s].state = "processing"
    BY <1>1, <1>2 DEF SessionRow, IntakeAct, IntakeIgnore, IntakeSelect, IntakeStep,
       IntakeInsert, IntakeRegister, IntakeCommit, IntakeMark, IntakeAbort, IntakeDies
  <2> QED
    BY <2>1, <2>2 DEF SessionJobMoves, ClaimsOnly
<1>3. ASSUME NEW f \in Media, FileAct(f)
      PROVE  SessionJobMoves(s) /\ ClaimsOnly(s)
  <2>1. proc' = proc
    BY <1>3, FileJobsKeepVerdicts DEF FileAct, FetchAct
  <2>2. session'[s].state = "processing" => session[s].state = "processing"
    BY <1>1, <1>3 DEF SessionRow, FileAct, FetchAct, FetchStep, FetchFindsNoRow,
       FetchNoJourney, FetchStart, FetchDownloaded, FetchGivesUp, FetchRaises,
       FetchStores, FetchDefersPoll, FetchAbort, PollStep, PollAgain, PollWakes,
       PollPark, PollTerminal, PollLink, PollCount, PollNudge, PollAbort, TaskDies
  <2> QED
    BY <2>1, <2>2 DEF SessionJobMoves, ClaimsOnly
<1>4. CASE FlushClaim
  <2>1. CASE Claimable(s)
    BY <1>1, <1>4, <2>1 DEF FlushClaim, ProcJob, SessionJobMoves, FlushMoves, ClaimsOnly
  <2>2. CASE ~Claimable(s)
    BY <1>4, <2>2 DEF FlushClaim, SessionJobMoves, ClaimsOnly
  <2> QED
    BY <2>1, <2>2
<1>5. CASE FlushAbort \/ FlushDies
  BY <1>1, <1>5 DEF FlushAbort, FlushDies, FlushLoses, Died, SessionJobMoves, FlushMoves,
     ClaimsOnly
<1>6. ASSUME NEW t \in Messages, SessionAct(t)
      PROVE  SessionJobMoves(s) /\ ClaimsOnly(s)
  <2>1. SessionJobMoves(s)
    <3>1. CASE t = s
      BY <1>1, <1>6, <3>1 DEF SessionAct, TimerExpires, FlushDefer,
         SessionJobMoves, FlushMoves
    <3>2. CASE t # s
      BY <1>1, <1>6, <3>2 DEF SessionAct, TimerExpires, FlushDefer, ProcessStep,
         ProcessRead, ProcessPark, ProcessFind, ProcessColdStart, ProcessExact,
         ProcessAbort, ProcessDies, RaisedProc, SessionJobMoves
    <3> QED
      BY <3>1, <3>2
  <2>2. CASE ProcessColdStart(t)
    <3>1. session' = session \/ session' = [session EXCEPT ![t].state = "confirming_deal",
                      ![t].deal = BookingNumber[t], ![t].timer = "armed"]
      BY <2>2 DEF ProcessColdStart, Confirming
    <3>2. session'[s].state = "processing" => session[s].state = "processing"
      BY <1>1, <3>1 DEF SessionRow
    <3> QED
      BY <2>1, <3>2 DEF ClaimsOnly
  <2>3. CASE ~ProcessColdStart(t)
    <3>1. session'[s].state = "processing" => session[s].state = "processing"
      BY <1>1, <1>6, <2>3 DEF SessionRow, SessionAct, TimerExpires, FlushDefer,
         ProcessStep, ProcessRead, ProcessPark, ProcessFind, ProcessExact,
         ProcessAbort, ProcessDies
    <3> QED
      BY <2>1, <3>1 DEF ClaimsOnly
  <2> QED
    BY <2>2, <2>3
<1>7. CASE UNCHANGED vars
  BY <1>7 DEF vars, SessionJobMoves, ClaimsOnly
<1> QED
  BY <1>2, <1>3, <1>4, <1>5, <1>6, <1>7 DEF Next, IntakeAct, FileAct, FetchAct, SessionAct

\* A deal appears by a cold start under its number.
LEMMA DealsAreMade ==
  ASSUME EInv, [Next]_vars, NEW n \in Numbers, deal[n] = "none", deal'[n] # "none"
  PROVE  \E t \in Messages : BookingNumber[t] = n /\ ProcessColdStart(t)
<1>1. deal \in [Numbers -> {"none", "provisional", "confirmed"}]
  BY DEF EInv, IInv, TypeOK
<1>2. deal' # deal
  BY <1>1
<1>3. ASSUME NEW m \in Messages, IntakeAct(m) PROVE FALSE
  BY <1>2, <1>3 DEF IntakeAct, IntakeIgnore, IntakeSelect, IntakeStep, IntakeInsert,
     IntakeRegister, IntakeCommit, IntakeMark, IntakeAbort, IntakeDies
<1>4. ASSUME NEW f \in Media, FileAct(f) PROVE FALSE
  BY <1>2, <1>4 DEF FileAct, FetchAct, FetchStep, FetchFindsNoRow, FetchNoJourney,
     FetchStart, FetchDownloaded, FetchGivesUp, FetchRaises, FetchStores,
     FetchDefersPoll, FetchAbort, PollStep, PollAgain, PollWakes, PollPark,
     PollTerminal, PollLink, PollCount, PollNudge, PollAbort, TaskDies
<1>5. ASSUME FlushClaim \/ FlushAbort \/ FlushDies \/ UNCHANGED vars PROVE FALSE
  BY <1>2, <1>5 DEF FlushClaim, FlushAbort, FlushLoses, FlushDies, vars
<1>6. ASSUME NEW t \in Messages, SessionAct(t), ~ProcessColdStart(t) PROVE FALSE
  <2>1. CASE ProcessExact(t)
    BY <1>1, <2>1 DEF ProcessExact, Confirmed
  <2>2. CASE ~ProcessExact(t)
    BY <1>2, <1>6, <2>2 DEF SessionAct, TimerExpires, FlushDefer, ProcessStep,
       ProcessRead, ProcessPark, ProcessFind, ProcessAbort, ProcessDies
  <2> QED
    BY <2>1, <2>2
<1>7. ASSUME NEW t \in Messages, ProcessColdStart(t) PROVE BookingNumber[t] = n
  BY <1>1, <1>7 DEF ProcessColdStart, Created
<1> QED
  BY <1>3, <1>4, <1>5, <1>6, <1>7 DEF Next, IntakeAct, FileAct, FetchAct, SessionAct

\* A deal's maker stays done.
LEMMA MakersStay == SInv /\ [Next]_vars => DealsHaveMakers'
<1> SUFFICES ASSUME SInv, [Next]_vars, NEW n \in Numbers, deal'[n] # "none"
             PROVE  \E t \in Messages : BookingNumber[t] = n /\ proc'[t].pc = "done"
  BY DEF DealsHaveMakers
<1>0. EInv
  BY DEF SInv
<1>1. CASE deal[n] # "none"
  <2>1. PICK t \in Messages : BookingNumber[t] = n /\ proc[t].pc = "done"
    BY <1>1 DEF SInv, DealsHaveMakers
  <2>2. proc'[t].pc = "done"
    BY <1>0, <2>1, DoneStays
  <2> QED
    BY <2>1, <2>2
<1>2. CASE deal[n] = "none"
  <2>1. PICK t \in Messages : BookingNumber[t] = n /\ ProcessColdStart(t)
    BY <1>0, <1>2, DealsAreMade
  <2>2. proc'[t].pc = "done"
    BY <1>0, <2>1, ColdStartBacks
  <2> QED
    BY <2>1, <2>2
<1> QED
  BY <1>1, <1>2

\* What one session's jobs are accounted for.
Accounted(s) ==
  /\ proc[s].tries <= aborts
  /\ proc[s].pc = "failed" => aborts > ProcessRetries
  /\ proc[s].pc = "lost" => crashes > 0
  /\ proc[s].pc = "undeferred" => aborts > 0
  /\ session[s].state = "processing" => proc[s].pc # "none"
  /\ proc[s].pc = "exact_deal" \/ (proc[s].pc = "done" /\ session[s].state = "processing")
       => NumberIsShared(s)

\* A step of process_session that does not raise: only a deal that another
\* session made is an exact match.
LEMMA ProcessAccounts ==
  ASSUME SInv, [Next]_vars, NEW s \in Messages, ProcessStep(s)
  PROVE  Accounted(s)'
<1>0. /\ EInv /\ TypeOK /\ Accounted(s)
      /\ proc \in [Messages -> ProcJob] /\ session \in [Messages -> SessionRow]
  BY DEF SInv, EInv, IInv, TypeOK, Accounted, CausesAreCounted, ExactMeansShared
<1>1. NumberIsShared(s)' <=> NumberIsShared(s)
  BY DEF NumberIsShared
<1>2. /\ proc'[s].tries = proc[s].tries
      /\ proc'[s].pc \in {"files_not_ready", "awaiting_di", "ready", "new_deal",
                           "exact_deal", "done"}
      /\ UNCHANGED <<aborts, crashes>>
  BY <1>0 DEF ProcJob, ProcessStep, ProcessRead, ProcessPark, ProcessFind,
     ProcessColdStart, ProcessExact
<1>3. proc'[s].pc = "exact_deal" => NumberIsShared(s)
  <2>1. SUFFICES ASSUME ProcessFind(s), ExactMatch(BookingNumber[s])
                 PROVE  NumberIsShared(s)
    BY <1>0 DEF ProcJob, ProcessStep, ProcessRead, ProcessPark, ProcessFind,
       ProcessColdStart, ProcessExact
  <2>2. BookingNumber[s] \in Numbers /\ deal[BookingNumber[s]] # "none"
    BY <2>1, MessagesAssumption DEF ExactMatch
  <2>3. PICK t \in Messages : BookingNumber[t] = BookingNumber[s] /\ proc[t].pc = "done"
    BY <2>2 DEF SInv, DealsHaveMakers
  <2>4. proc[s].pc = "ready"
    BY <2>1 DEF ProcessFind
  <2> QED
    BY <2>3, <2>4 DEF NumberIsShared
<1>4. ASSUME proc'[s].pc = "done", session'[s].state = "processing"
      PROVE  NumberIsShared(s)
  <2>1. CASE ProcessPark(s)
    BY <1>0, <1>4, <2>1 DEF ProcessPark, SessionRow
  <2>2. CASE ProcessColdStart(s)
    <3>1. CASE session[s].state = "processing"
      BY <1>0, <1>4, <2>2, <3>1 DEF ProcessColdStart, Confirming, SessionRow
    <3>2. CASE session[s].state # "processing"
      BY <1>4, <2>2, <3>2 DEF ProcessColdStart, Confirming
    <3> QED
      BY <3>1, <3>2
  <2>3. CASE ProcessExact(s)
    BY <1>0, <2>3 DEF ProcessExact, Accounted
  <2>4. CASE ProcessRead(s) \/ ProcessFind(s)
    BY <1>0, <1>4, <2>4 DEF ProcessRead, ProcessFind, ProcJob
  <2> QED
    BY <2>1, <2>2, <2>3, <2>4 DEF ProcessStep
<1> QED
  BY <1>0, <1>1, <1>2, <1>3, <1>4 DEF Accounted

\* An exception costs a try, and each try an exception.
LEMMA RaiseAccounts ==
  ASSUME SInv, [Next]_vars, NEW s \in Messages, ProcessAbort(s) \/ ProcessDies(s)
  PROVE  Accounted(s)'
<1>0. /\ EInv /\ TypeOK /\ Accounted(s)
      /\ proc \in [Messages -> ProcJob] /\ proc[s].tries \in 0..ProcessRetries
      /\ aborts \in Nat /\ crashes \in Nat /\ ProcessRetries \in Nat
  BY BoundsAssumption
     DEF SInv, EInv, IInv, TypeOK, ProcJob, Accounted, CausesAreCounted, ExactMeansShared
<1>1. CASE ProcessDies(s)
  <2>1. proc'[s].tries = proc[s].tries /\ proc'[s].pc = "lost"
    BY <1>0, <1>1 DEF ProcessDies, ProcJob
  <2>2. aborts' = aborts /\ crashes' > 0
    BY <1>0, <1>1 DEF ProcessDies, Died
  <2> QED
    BY <1>0, <2>1, <2>2 DEF Accounted
<1>2. CASE ProcessAbort(s) /\ proc[s].tries < ProcessRetries
  <2>1. proc'[s].tries = proc[s].tries + 1 /\ proc'[s].pc = "queued"
    BY <1>0, <1>2 DEF ProcessAbort, RaisedProc, ProcJob
  <2>2. aborts' = aborts + 1
    BY <1>2 DEF ProcessAbort
  <2> QED
    BY <1>0, <2>1, <2>2 DEF Accounted
<1>3. CASE ProcessAbort(s) /\ ~(proc[s].tries < ProcessRetries)
  <2>1. proc'[s].tries = proc[s].tries /\ proc'[s].pc = "failed"
    BY <1>0, <1>3 DEF ProcessAbort, RaisedProc, ProcJob
  <2>2. aborts' = aborts + 1 /\ proc[s].tries = ProcessRetries
    BY <1>0, <1>3 DEF ProcessAbort
  <2>3. proc[s].tries <= aborts
    BY <1>0 DEF Accounted
  <2>4. aborts' > ProcessRetries /\ proc'[s].tries <= aborts'
    BY <1>0, <2>1, <2>2, <2>3
  <2> QED
    BY <2>1, <2>4 DEF Accounted
<1> QED
  BY <1>1, <1>2, <1>3

\* The account is kept by every step.
LEMMA StuckStep == SInv /\ [Next]_vars => SInv'
<1> SUFFICES ASSUME SInv, [Next]_vars PROVE SInv'
  OBVIOUS
<1>0. EInv /\ EInv' /\ TypeOK
  BY EvidenceStep DEF SInv, EInv, IInv
<1>1. ASSUME NEW s \in Messages PROVE Accounted(s)'
  <2>0. /\ Accounted(s) /\ proc[s] \in ProcJob
        /\ aborts \in Nat /\ aborts' \in Nat /\ aborts' >= aborts
        /\ crashes \in Nat /\ crashes' \in Nat /\ crashes' >= crashes
        /\ proc[s].tries \in Nat /\ ProcessRetries \in Nat
    BY <1>0, MishapsGrow, BoundsAssumption
       DEF SInv, TypeOK, ProcJob, Accounted, CausesAreCounted, ExactMeansShared
  <2>1. NumberIsShared(s)' <=> NumberIsShared(s)
    BY DEF NumberIsShared
  <2>2. SessionJobMoves(s) /\ ClaimsOnly(s)
    BY <1>0, SessionJobSteps
  <2>3. CASE proc'[s] = proc[s]
    BY <2>0, <2>1, <2>2, <2>3 DEF Accounted, ClaimsOnly
  <2>4. CASE FlushMoves(s)
    <3>1. /\ proc'[s].tries = proc[s].tries
          /\ proc'[s].pc \in {"claimed", "undeferred", "queued", "lost"}
          /\ proc'[s].pc = "lost" => crashes' > 0
          /\ proc'[s].pc = "undeferred" => aborts' > 0
      BY <2>0, <2>4 DEF FlushMoves, ProcJob
    <3> QED
      BY <2>0, <3>1 DEF Accounted
  <2> QED
    BY <2>2, <2>3, <2>4, ProcessAccounts, RaiseAccounts DEF SessionJobMoves
<1>2. CausesAreCounted' /\ ExactMeansShared'
  BY <1>1 DEF Accounted, CausesAreCounted, ExactMeansShared
<1> QED
  BY <1>0, <1>2, MakersStay DEF SInv

\* A session is left in 'processing' only by a death that took its job, an
\* exception that kept its job from being deferred, more exceptions than
\* process_session is retried, or the booking number of another session.
THEOREM ProcessingSettlesOrHasCause == Spec => []StuckProcessingHasCause
<1>1. Init => SInv
  <2> SUFFICES ASSUME Init PROVE SInv
    OBVIOUS
  <2>1. CausesAreCounted /\ DealsHaveMakers /\ ExactMeansShared
    BY DEF Init, CausesAreCounted, DealsHaveMakers, ExactMeansShared
  <2> QED
    BY <2>1, InitEvidence DEF SInv
<1>2. SInv => StuckProcessingHasCause
  BY DEF SInv, CausesAreCounted, ExactMeansShared, NumberIsShared, StuckProcessingHasCause,
     ProcessingOver
<1> QED
  BY <1>1, <1>2, StuckStep, PTL DEF Spec

-----------------------------------------------------------------------------
(* The chain of polls.  Evidence is 'stored' in the job that goes on to    *)
(* poll; a row that says so while its job stands elsewhere has seen an     *)
(* exception, and a poll counts the files of its session only with its own *)
(* verdict.                                                                *)

VerdictStartsTheCount ==
  \A f \in Media : task[f].pc \in {"linking", "counting", "nudging"} => verdict[f] # "open"

StoredInPassing ==
  \A f \in Media :
    file[f].state = "stored" /\ task[f].pc \in {"none", "queued", "downloading", "storing"}
      => aborts > 0

UInv == EInv /\ VerdictStartsTheCount /\ StoredInPassing /\ UnjudgedIsPolled

\* The same of one file.
Closed(s) == session[s].state \in {"parked", "complete"}

Followed(f) ==
  /\ task[f].pc \in {"linking", "counting", "nudging"} => verdict[f] # "open"
  /\ file[f].state = "stored" =>
       \/ aborts > 0 \/ crashes > 0 \/ verdict[f] # "open"
       \/ task[f].pc \in {"stored", "poll", "backoff"}
       \/ task[f].pc \in {"done", "lost"} /\ Closed(target[f])
  /\ file[f].state = "stored" /\ task[f].pc \in {"none", "queued", "downloading", "storing"}
       => aborts > 0

\* A session that was parked or completed is not opened again.
LEMMA ClosedStays ==
  ASSUME IInv, [Next]_vars, NEW s \in Messages, Closed(s)
  PROVE  Closed(s)'
<1>1. [Lifecycle!Next]_<<StateOf, DealOf>> /\ StateOf[s] \in {"parked", "complete"}
  BY LifecycleStep DEF StateOf, Closed
<1>2. StateOf'[s] \in {"parked", "complete"}
  BY <1>1 DEF Lifecycle!Next, Lifecycle!Start, Lifecycle!Complete, Lifecycle!Park,
     Lifecycle!Confirm, Lifecycle!Flush, StateOf
<1> QED
  BY <1>2 DEF StateOf, Closed

\* Whoever else moves, a stored file keeps its row, its job and its session.
LEMMA OthersLeaveFiles ==
  ASSUME EInv, [Next]_vars, NEW f \in Media, ~FileAct(f)
  PROVE  /\ verdict'[f] = verdict[f]
         /\ \/ file'[f] = file[f] /\ task'[f] = task[f] /\ target'[f] = target[f]
            \/ file'[f].state # "stored" /\ task'[f].pc \notin {"linking", "counting", "nudging"}
<1>0. /\ file \in [Media -> FileRow] /\ task \in [Media -> TaskJob]
      /\ target \in [Messages -> Messages \cup {None}] /\ f \in Messages
  BY MessagesAssumption DEF EInv, IInv, TypeOK
<1>1. ASSUME NEW m \in Messages, IntakeAct(m), m # f
      PROVE  UNCHANGED <<verdict[f], file[f], task[f], target[f]>>
  BY <1>0, <1>1 DEF IntakeAct, IntakeIgnore, IntakeSelect, IntakeStep, IntakeInsert,
     IntakeRegister, IntakeCommit, IntakeMark, IntakeAbort, IntakeDies
<1>2. CASE IntakeAct(f)
  <2>1. verdict' = verdict
    BY <1>0, <1>2, IntakeKeepsVerdicts DEF IntakeAct
  <2>2. CASE IntakeCommit(f)
    <3>1. file'[f].state = "pending"
      BY <1>0, <2>2 DEF IntakeCommit, FileRow
    <3>2. file[f].state = "absent" /\ task' = task
      BY <2>2 DEF IntakeCommit, EInv, IInv, FilesHaveSessions
    <3>3. task'[f].pc \notin {"linking", "counting", "nudging"}
      BY <3>2 DEF EInv, IInv, TasksHaveFiles
    <3> QED
      BY <2>1, <3>1, <3>3
  <2>3. CASE IntakeSelect(f) \/ IntakeInsert(f) \/ IntakeRegister(f)
    <3>1. file[f].state = "absent" /\ file' = file
      BY <2>3 DEF IntakeSelect, IntakeInsert, IntakeRegister, EInv, IInv, FilesHaveSessions
    <3>2. task[f].pc \notin {"linking", "counting", "nudging"}
      BY <3>1 DEF EInv, IInv, TasksHaveFiles
    <3>3. task'[f] = task[f] \/ task'[f].pc = "queued"
      BY <1>0, <2>3 DEF IntakeSelect, IntakeInsert, IntakeRegister, TaskJob
    <3> QED
      BY <2>1, <3>1, <3>2, <3>3
  <2>4. CASE UNCHANGED <<file, task, target>>
    BY <2>1, <2>4
  <2> QED
    BY <1>2, <2>2, <2>3, <2>4 DEF IntakeAct, IntakeIgnore, IntakeStep, IntakeMark,
       IntakeAbort, IntakeDies
<1>3. ASSUME NEW g \in Media, FileAct(g)
      PROVE  UNCHANGED <<verdict[f], file[f], task[f], target[f]>>
  BY <1>3, FileJobsKeepVerdicts DEF FileAct, FetchAct
<1>4. ASSUME \/ FlushClaim \/ FlushAbort \/ FlushDies \/ UNCHANGED vars
             \/ \E s \in Messages : SessionAct(s)
      PROVE  UNCHANGED <<verdict, file, task, target>>
  BY <1>4 DEF vars, FlushClaim, FlushAbort, FlushLoses, FlushDies,
     SessionAct, TimerExpires, FlushDefer,
     ProcessStep, ProcessRead, ProcessPark, ProcessFind, ProcessColdStart, ProcessExact,
     ProcessAbort, ProcessDies
<1> QED
  BY <1>1, <1>2, <1>3, <1>4 DEF Next, IntakeAct, FileAct, FetchAct, SessionAct

\* The steps of the file's own jobs.
LEMMA FollowedByItsJobs ==
  ASSUME UInv, [Next]_vars, NEW f \in Media, FileAct(f), Followed(f)
  PROVE  Followed(f)'
<1>0. /\ EInv /\ file \in [Media -> FileRow] /\ task \in [Media -> TaskJob]
      /\ aborts \in Nat /\ crashes \in Nat /\ aborts' \in Nat /\ crashes' \in Nat
      /\ aborts' >= aborts /\ crashes' >= crashes
      /\ verdict \in [Media -> {"open", "accepted", "rejected"}]
  BY MishapsGrow DEF UInv, EInv, IInv, TypeOK
<1>1. CASE FetchFindsNoRow(f)
  BY <1>0, <1>1 DEF FetchFindsNoRow, FileRow, TaskJob, Followed
<1>2. CASE FetchNoJourney(f) \/ FetchStart(f) \/ FetchDownloaded(f) \/ FetchGivesUp(f)
           \/ FetchRaises(f)
  <2>1. file'[f].state # "stored"
    BY <1>0, <1>2 DEF FetchNoJourney, FetchStart, FetchDownloaded, FetchGivesUp,
       FetchRaises, FileRow
  <2>2. task'[f].pc \notin {"linking", "counting", "nudging"}
    BY <1>0, <1>2 DEF FetchNoJourney, FetchStart, FetchDownloaded, FetchGivesUp,
       FetchRaises, RaisedTask, TaskJob
  <2> QED
    BY <2>1, <2>2 DEF Followed
<1>3. CASE FetchStores(f) \/ FetchDefersPoll(f)
  <2>1. task'[f].pc \in {"stored", "poll"}
    BY <1>0, <1>3 DEF FetchStores, FetchDefersPoll, TaskJob
  <2> QED
    BY <2>1 DEF Followed
<1>4. CASE FetchAbort(f)
  <2>1. task'[f].pc \in {"queued", "done"} /\ aborts' > 0
    BY <1>0, <1>4 DEF FetchAbort, RaisedTask, TaskJob
  <2> QED
    BY <2>1 DEF Followed
<1>5. CASE PollAgain(f) \/ PollWakes(f)
  <2>1. task'[f].pc \in {"backoff", "poll"}
    BY <1>0, <1>5 DEF PollAgain, Rescheduled, PollWakes, TaskJob
  <2> QED
    BY <2>1 DEF Followed
<1>6. CASE PollPark(f)
  <2>1. task'[f].pc = "done" /\ target' = target
    BY <1>0, <1>6 DEF PollPark, TaskJob
  <2>2. target[f] \in Messages
    BY <1>0, <1>6 DEF PollPark, EInv, IInv, TasksHaveFiles, FilesHaveSessions
  <2>3. session'[target[f]].state = "parked"
    BY <1>0, <1>6, <2>2 DEF PollPark, EInv, IInv, TypeOK, SessionRow
  <2> QED
    BY <2>1, <2>3 DEF Followed, Closed
<1>7. CASE PollTerminal(f)
  <2>1. verdict'[f] # "open" /\ task'[f].pc \in {"linking", "counting"}
    BY <1>0, <1>7 DEF PollTerminal, Verdicts, TaskJob
  <2> QED
    BY <2>1 DEF Followed
<1>8. CASE PollLink(f) \/ PollCount(f) \/ PollNudge(f)
  <2>1. verdict[f] # "open" /\ verdict' = verdict
    BY <1>8 DEF PollLink, PollCount, PollNudge, Followed
  <2>2. task'[f].pc \notin {"none", "queued", "downloading", "storing"}
    BY <1>0, <1>8 DEF PollLink, PollCount, PollNudge, TaskJob
  <2> QED
    BY <2>1, <2>2 DEF Followed
<1>9. CASE PollAbort(f)
  <2>1. task'[f].pc = "done" /\ aborts' > 0
    BY <1>0, <1>9 DEF PollAbort, TaskJob
  <2> QED
    BY <2>1 DEF Followed
<1>10. CASE TaskDies(f)
  <2>1. task'[f].pc = "lost" /\ crashes' > 0
    BY <1>0, <1>10 DEF TaskDies, Died, TaskJob
  <2> QED
    BY <2>1 DEF Followed
<1> QED
  BY <1>1, <1>2, <1>3, <1>4, <1>5, <1>6, <1>7, <1>8, <1>9, <1>10
  DEF FileAct, FetchAct, FetchStep, PollStep

\* The parts of UInv, file by file.
LEMMA UInvIsFollowed ==
  ASSUME TypeOK
  PROVE  VerdictStartsTheCount /\ StoredInPassing /\ UnjudgedIsPolled
           <=> \A f \in Media : Followed(f)
<1>1. /\ task \in [Media -> TaskJob] /\ aborts \in Nat /\ crashes \in Nat
  BY BoundsAssumption DEF TypeOK
<1>2. \A f \in Media : task[f].pc \in TaskSteps
  BY <1>1 DEF TaskJob
<1> QED
  BY <1>1, <1>2 DEF TaskSteps, VerdictStartsTheCount, StoredInPassing, UnjudgedIsPolled,
     Followed, Closed

\* No step loses sight of a file without a verdict.
LEMMA FollowedStep == UInv /\ [Next]_vars => UInv'
<1> SUFFICES ASSUME UInv, [Next]_vars PROVE UInv'
  OBVIOUS
<1>0. EInv /\ EInv' /\ IInv /\ TypeOK /\ TypeOK'
  BY EvidenceStep DEF UInv, EInv, IInv
<1>1. ASSUME NEW f \in Media PROVE Followed(f)'
  <2>0. Followed(f)
    BY <1>0, UInvIsFollowed DEF UInv
  <2>1. CASE FileAct(f)
    BY <2>0, <2>1, FollowedByItsJobs
  <2>2. CASE ~FileAct(f)
    <3>1. /\ verdict'[f] = verdict[f]
          /\ \/ file'[f] = file[f] /\ task'[f] = task[f] /\ target'[f] = target[f]
             \/ /\ file'[f].state # "stored"
                /\ task'[f].pc \notin {"linking", "counting", "nudging"}
      BY <1>0, <2>2, OthersLeaveFiles
    <3>2. /\ aborts \in Nat /\ crashes \in Nat /\ aborts' \in Nat /\ crashes' \in Nat
          /\ aborts' >= aborts /\ crashes' >= crashes
      BY <1>0, MishapsGrow
    <3>3. file[f].state = "stored" => target[f] \in Messages
      BY <1>0 DEF IInv, FilesHaveSessions
    <3>4. target[f] \in Messages /\ Closed(target[f])
            => session'[target[f]].state \in {"parked", "complete"}
      BY <1>0, ClosedStays DEF Closed
    <3> QED
      BY <2>0, <3>1, <3>2, <3>3, <3>4 DEF Followed, Closed
  <2> QED
    BY <2>1, <2>2
<1>2. VerdictStartsTheCount' /\ StoredInPassing' /\ UnjudgedIsPolled'
  <2>1. (\A f \in Media : Followed(f))'
    BY <1>1
  <2>2. (VerdictStartsTheCount /\ StoredInPassing /\ UnjudgedIsPolled
           <=> \A f \in Media : Followed(f))'
    BY <1>0, UInvIsFollowed, PTL
  <2> QED
    BY <2>1, <2>2
<1> QED
  BY <1>0, <1>2 DEF UInv

\* Evidence that DI has not judged is being polled for, unless an exception
\* or a death broke the chain or its session was parked.
THEOREM UnjudgedEvidenceIsPolled == Spec => []UnjudgedIsPolled
<1>1. Init => UInv
  <2> SUFFICES ASSUME Init PROVE UInv
    OBVIOUS
  <2>1. VerdictStartsTheCount /\ StoredInPassing /\ UnjudgedIsPolled
    BY DEF Init, VerdictStartsTheCount, StoredInPassing, UnjudgedIsPolled
  <2> QED
    BY <2>1, InitEvidence DEF UInv
<1>2. UInv => UnjudgedIsPolled
  BY DEF UInv
<1> QED
  BY <1>1, <1>2, FollowedStep, PTL DEF Spec

-----------------------------------------------------------------------------
(* What follows from the life cycle for whoever reads wa.session.          *)

\* "DI still processing - re-park" (worker.py) is the end of a capture: no job
\* and no message takes a session out of 'parked', but for a completion.
NeverReopened ==
  [][\A s \in Messages : session[s].state \in {"parked", "complete"}
                           => session'[s].state \in {"parked", "complete"}]_vars

\* A session that was parked or completed stays so, whatever polls, flushes
\* and retries of process_session are still under way.
THEOREM ParkedSessionsStayParked == Spec => NeverReopened
<1>1. EInv /\ [Next]_vars =>
        [\A s \in Messages : session[s].state \in {"parked", "complete"}
                               => session'[s].state \in {"parked", "complete"}]_vars
  BY ClosedStays DEF EInv, Closed
<1> QED
  BY <1>1, InitEvidence, EvidenceStep, PTL DEF Spec, NeverReopened

\* PollLink reads the deal and marks its item in one step of this model, though
\* poll_di_document reads and marks with statements of their own: the deal of
\* a session, once there, is never another.
LinkedOnce ==
  [][\A s \in Messages : session[s].deal # None
                           => session'[s].deal = session[s].deal]_vars

\* The deal that a session is linked to is never another.
THEOREM DealsAreLinkedOnce == Spec => LinkedOnce
<1>1. EInv /\ [Next]_vars =>
        [\A s \in Messages : session[s].deal # None
                               => session'[s].deal = session[s].deal]_vars
  BY DealsKept
<1> QED
  BY <1>1, InitEvidence, EvidenceStep, PTL DEF Spec, LinkedOnce

=============================================================================
