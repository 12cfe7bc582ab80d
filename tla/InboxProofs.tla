---------------------------- MODULE InboxProofs ----------------------------
(***************************************************************************)
(* What Inbox guarantees for any number of deliveries, payloads of any     *)
(* length and any number of failures.                                      *)
(***************************************************************************)
EXTENDS Inbox, TLAPS

\* A job that is about to mark its row 'done' has committed its files.
JobsRegisterFirst ==
  \A d \in Deliveries : job[d] = "done" =>
    \A i \in 1..Len(Messages[d]) : file[Messages[d][i]] \in Signed

\* A file comes from a payload whose signature verified.
FilesAreSigned == \A w \in Wamids : file[w] \in Signed \cup {None}

IInv ==
  /\ TypeOK
  /\ OneRowPerMessage
  /\ AnsweredIsRecorded
  /\ JobsRegisterFirst
  /\ FilesAreSigned
  /\ DoneIsRegistered

\* The messages of a payload are ids of messages.
LEMMA MessagesAreWamids ==
  ASSUME NEW d \in Deliveries, NEW i \in 1..Len(Messages[d])
  PROVE  Messages[d][i] \in Wamids
BY InboxAssumption

\* The invariant holds at the start.
LEMMA InitIInv == Init => IInv
<1> SUFFICES ASSUME Init PROVE IInv
  OBVIOUS
<1> USE DEF Init
<1>1. TypeOK BY InboxAssumption DEF TypeOK, PostStates, InboxStates, JobStates
<1>2. OneRowPerMessage /\ AnsweredIsRecorded BY DEF OneRowPerMessage, AnsweredIsRecorded, Rows
<1>3. JobsRegisterFirst /\ FilesAreSigned /\ DoneIsRegistered
  BY DEF JobsRegisterFirst, FilesAreSigned, DoneIsRegistered
<1>4. QED BY <1>1, <1>2, <1>3 DEF IInv

\* The steps of a request: rows are only added, and no file changes.
LEMMA ReceiveIInv ==
  ASSUME IInv, NEW d \in Deliveries, Receive(d) \/ WriteFails(d) \/ DispatchFails(d)
  PROVE  IInv'
<1> USE DEF Receive, WriteFails, DispatchFails, Unparseable, Duplicate, IsNew, Inserts,
        InsertConflicts, Dispatches
<1>1. TypeOK'
  <2>1. /\ post' \in [Deliveries -> PostStates]
        /\ inbox' \in [Deliveries -> InboxStates]
        /\ job' \in [Deliveries -> JobStates]
    BY DEF IInv, TypeOK, PostStates, InboxStates, JobStates, AfterLookup, WriteFailure
  <2>2. file' = file /\ mishaps' \in 0..MaxMishaps
    BY InboxAssumption DEF IInv, TypeOK, Mishap
  <2>3. ASSUME NEW e \in Deliveries, post'[e] = "dispatching" \/ job'[e] # "none"
        PROVE  inbox'[e] # "absent"
    <3>1. CASE e = d
      BY <2>3, <3>1 DEF IInv, TypeOK, AfterLookup, WriteFailure
    <3>2. CASE e # d BY <2>3, <3>2 DEF IInv, TypeOK
    <3>3. QED BY <3>1, <3>2
  <2>4. QED BY <2>1, <2>2, <2>3 DEF IInv, TypeOK
<1>2. /\ Rows \subseteq Rows' /\ Rows' \subseteq Rows \cup {d}
      /\ d \in Rows' \ Rows => ~Recorded(d)
  BY DEF IInv, TypeOK, Rows, Insertable
<1>3. OneRowPerMessage' BY <1>2 DEF IInv, OneRowPerMessage, Recorded, Wamid
<1>4. AnsweredIsRecorded'
  <2> SUFFICES ASSUME NEW e \in Deliveries \ Garbled, post'[e] = "ok"
               PROVE  \/ e \in Rows'
                      \/ Wamid(e) # None /\ \E f \in Rows' : Wamid(f) = Wamid(e)
    BY DEF AnsweredIsRecorded, Recorded, Wamid
  <2>1. CASE post[e] = "ok" BY <2>1, <1>2 DEF IInv, AnsweredIsRecorded, Recorded
  <2>2. CASE post[e] # "ok"
    <3>1. e = d BY <2>2 DEF IInv, TypeOK
    <3>2. Recorded(d) \/ d \in Rows
      BY <2>2, <3>1 DEF IInv, TypeOK, AfterLookup, WriteFailure, Rows
    <3>3. QED BY <3>1, <3>2, <1>2 DEF Recorded
  <2>3. QED BY <2>1, <2>2
<1>5. UNCHANGED file /\ \A e \in Deliveries : job'[e] = "done" => job[e] = "done"
  BY DEF IInv, TypeOK
<1>6. JobsRegisterFirst' /\ FilesAreSigned' BY <1>5 DEF IInv, JobsRegisterFirst, FilesAreSigned
<1>7. \A e \in Deliveries : inbox'[e] = "done" => inbox[e] = "done" BY DEF IInv, TypeOK
<1>8. DoneIsRegistered' BY <1>5, <1>7 DEF IInv, DoneIsRegistered
<1>9. QED BY <1>1, <1>3, <1>4, <1>6, <1>8 DEF IInv

\* The steps of a job: no row appears or goes, and files are only added.
LEMMA JobIInv ==
  ASSUME IInv, NEW d \in Deliveries, Process(d) \/ JobRaises(d) \/ JobDies(d)
  PROVE  IInv'
<1> USE DEF Process, JobIgnores, JobFails, JobRegisters, JobMarks, JobRaises, JobDies, Outcome,
        AfterRaise
<1>1. inbox[d] # "absent" /\ job[d] # "none" BY DEF IInv, TypeOK
<1>2. TypeOK'
  <2>1. file' \in [Wamids -> Deliveries \cup {None}] BY DEF IInv, TypeOK, Registered
  <2>2. job' \in [Deliveries -> JobStates] /\ inbox' \in [Deliveries -> InboxStates]
    BY DEF IInv, TypeOK, InboxStates, JobStates
  <2>3. mishaps' \in 0..MaxMishaps BY InboxAssumption DEF IInv, TypeOK, Mishap
  <2>4. /\ post' = post
        /\ \A e \in Deliveries : (job'[e] # "none" => job[e] # "none")
                                 /\ (inbox[e] # "absent" => inbox'[e] # "absent")
    BY <1>1 DEF IInv, TypeOK
  <2>5. QED BY <2>1, <2>2, <2>3, <2>4 DEF IInv, TypeOK
<1>3. Rows' = Rows BY <1>1 DEF IInv, TypeOK, Rows
<1>4. OneRowPerMessage' BY <1>3 DEF IInv, OneRowPerMessage, Wamid
<1>5. AnsweredIsRecorded' BY <1>3 DEF IInv, AnsweredIsRecorded, Recorded, Wamid
<1>6. /\ FilesAreSigned'
      /\ \A w \in Wamids : file[w] \in Signed => file'[w] \in Signed
  BY InboxAssumption DEF IInv, TypeOK, FilesAreSigned, Registered
<1>7. JobsRegisterFirst'
  <2> SUFFICES ASSUME NEW e \in Deliveries, job'[e] = "done", NEW i \in 1..Len(Messages[e])
               PROVE  file'[Messages[e][i]] \in Signed
    BY DEF JobsRegisterFirst
  <2>1. Messages[e][i] \in Wamids BY MessagesAreWamids
  <2>2. CASE job[e] = "done" BY <2>1, <2>2, <1>6 DEF IInv, JobsRegisterFirst
  <2>3. CASE job[e] # "done"
    <3>1. e = d /\ JobRegisters(d) BY <2>3 DEF IInv, TypeOK
    <3>2. Messages[e][i] \in Payload(d) BY <3>1 DEF Payload
    <3>3. file'[Messages[e][i]] = Registered(Messages[e][i], d) BY <2>1, <3>1, <3>2
    <3>4. QED BY <2>1, <3>1, <3>3 DEF IInv, FilesAreSigned, Registered
  <2>4. QED BY <2>2, <2>3
<1>8. DoneIsRegistered'
  <2> SUFFICES ASSUME NEW e \in Deliveries, inbox'[e] = "done", NEW i \in 1..Len(Messages[e])
               PROVE  file'[Messages[e][i]] \in Signed
    BY DEF DoneIsRegistered
  <2>1. inbox[e] = "done" \/ job[e] = "done" BY DEF IInv, TypeOK
  <2>2. file[Messages[e][i]] \in Signed
    BY <2>1 DEF IInv, DoneIsRegistered, JobsRegisterFirst
  <2>3. QED BY <2>2, <1>6, MessagesAreWamids
<1>9. QED BY <1>2, <1>4, <1>5, <1>6, <1>7, <1>8 DEF IInv

\* Every step preserves the invariant.
LEMMA NextIInv == IInv /\ [Next]_vars => IInv'
<1> SUFFICES ASSUME IInv, [Next]_vars PROVE IInv'
  OBVIOUS
<1>1. CASE UNCHANGED vars
  BY <1>1 DEF IInv, TypeOK, OneRowPerMessage, AnsweredIsRecorded, JobsRegisterFirst,
     FilesAreSigned, DoneIsRegistered, Recorded, Rows, Wamid, vars
<1>2. QED BY <1>1, ReceiveIInv, JobIInv DEF Next

\* The invariant holds in every reachable state.
LEMMA Invariance == Spec => []IInv
BY InitIInv, NextIInv, PTL DEF Spec

\* The variables keep their types; a job, and a dispatch, have their row.
THEOREM InboxTypeCorrect == Spec => []TypeOK
BY Invariance, PTL DEF IInv

\* Concurrent deliveries of a message leave one row, hence one job.
THEOREM MessagesHaveOneRow == Spec => []OneRowPerMessage
BY Invariance, PTL DEF IInv

\* A delivery whose body parses and that was answered with 200 has a committed
\* row, or a committed row has its first message.
THEOREM AnswersAreRecorded == Spec => []AnsweredIsRecorded
BY Invariance, PTL DEF IInv

\* A row marked 'done' has all the files of its payload.
THEOREM DoneRowsAreRegistered == Spec => []DoneIsRegistered
BY Invariance, PTL DEF IInv

\* A message keeps the wa.file row that it first got.
THEOREM MessagesKeepTheirFile == Spec => FilesStay
<1>1. [Next]_vars => [\A w \in Wamids : file[w] # None => file'[w] = file[w]]_file
  <2> SUFFICES ASSUME NEW d \in Deliveries, JobRegisters(d), NEW w \in Wamids, file[w] # None
               PROVE  file'[w] = file[w]
    BY DEF Next, Receive, Unparseable, Duplicate, IsNew, Inserts, InsertConflicts, Dispatches, WriteFails,
       DispatchFails, Process, JobIgnores, JobFails, JobMarks, JobRaises, JobDies, vars
  <2>1. QED BY DEF JobRegisters, Registered
<1>2. QED BY <1>1, PTL DEF Spec, FilesStay

=============================================================================
