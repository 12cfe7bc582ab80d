----------------------------- MODULE RoutingProofs -----------------------------
(***************************************************************************)
(* What Routing guarantees for any number of tenants, phones, numbers and  *)
(* messages and of calls of the management API.  The argument for the      *)
(* tenants: no call moves a contact or a route to another tenant, so what  *)
(* a job has resolved stays true of the rows; and what it writes later is  *)
(* looked up through the contact that it has resolved.                     *)
(***************************************************************************)
EXTENDS Routing, WellFoundedInduction, TLAPS

Routed == {"routed", "resolved", "opening", "read", "done", "failed"}
Resolved == Routed \ {"routed"}
Opened == Resolved \ {"resolved"}

JobsAreRouted ==
  \A m \in Messages : job[m].at \in Routed =>
    /\ route[job[m].number] # None
    /\ route[job[m].number].tenant = job[m].tenant

JobsAreResolved ==
  \A m \in Messages : job[m].at \in Resolved =>
    /\ contact[job[m].phone] # None
    /\ contact[job[m].phone].tenant = job[m].tenant

JobsAreTenants ==
  \A m \in Messages : job[m].at \in Routed => job[m].tenant \in Tenants

\* A job works in an open session of its contact or in one of its own.
JobsHaveSessions ==
  \A m \in Messages : job[m].at \in Opened =>
    /\ job[m].session \in Messages
    /\ session[job[m].session] = None => job[m].session = m
    /\ session[job[m].session] # None => session[job[m].session].phone = job[m].phone

JourneysAreOwn ==
  \A m \in Messages : (job[m].at = "read" /\ job[m].journey # None) =>
    /\ route[job[m].journey] # None
    /\ route[job[m].journey].tenant = job[m].tenant

SessionsAreBound ==
  \A s \in Messages : session[s] # None =>
    /\ contact[session[s].phone] # None
    /\ contact[session[s].phone].tenant = session[s].tenant

FilesAreOwn ==
  \A m \in Messages : file[m] # None =>
    /\ session[file[m].session] # None
    /\ route[job[m].number] # None
    /\ route[job[m].number].tenant = session[file[m].session].tenant
    /\ file[m].journey # None =>
         /\ route[file[m].journey] # None
         /\ route[file[m].journey].tenant = session[file[m].session].tenant

RepliesAreOwn ==
  \A r \in sent :
    /\ session[r[1]] # None
    /\ route[r[2]] # None
    /\ route[r[2]].tenant = session[r[1]].tenant

OnlyDoneJobsWrite ==
  \A m \in Messages :
    (file[m] # None \/ session[m] # None) => job[m].at = "done"

BarredJobsAreEarly ==
  \A b \in barred :
    /\ Bars(b)
    /\ job[b[1]].at \in {"queued", "routed", "ignored"}
    /\ b[2] = "route" => job[b[1]].at # "routed"

\* The numbers of files: bounded in every state, so that a MAX exists, and
\* above those of the files that a job found when it began.
FilesHaveNumbers ==
  /\ \E n \in Nat : \A k \in Messages : file[k] # None => file[k].seq <= n
  /\ \A m \in Messages : \A k \in job[m].before :
       /\ file[k] # None
       /\ (job[m].at = "read" /\ file[k].session = job[m].session)
            => file[k].seq < job[m].seq

TenantInv ==
  /\ JobsAreRouted /\ JobsAreTenants /\ JobsAreResolved /\ JobsHaveSessions /\ JourneysAreOwn
  /\ SessionsAreBound /\ FilesAreOwn /\ RepliesAreOwn

IInv ==
  /\ TypeOK /\ TenantInv /\ OnlyDoneJobsWrite /\ BarredJobsAreEarly
  /\ FilesHaveNumbers /\ LaterFilesAreNumberedHigher

\* The invariant holds at the start.
LEMMA InitIInv == Init => IInv
<1> SUFFICES ASSUME Init PROVE IInv
  OBVIOUS
<1> USE RoutingAssumption DEF Init
<1>0. \A m \in Messages : job[m] \in NewJob /\ job[m].at = "unsent"
  BY DEF NewJob
<1>1. TypeOK
  <2>1. NewJob \subseteq Job
    BY DEF NewJob, Job, JobStates
  <2> QED BY <2>1 DEF TypeOK
<1>2. TenantInv
  BY <1>0 DEF TenantInv, JobsAreRouted, JobsAreResolved, JobsHaveSessions, JourneysAreOwn,
              JobsAreTenants, SessionsAreBound, FilesAreOwn, RepliesAreOwn, Routed, Resolved, Opened
<1>3. OnlyDoneJobsWrite /\ BarredJobsAreEarly
  BY DEF OnlyDoneJobsWrite, BarredJobsAreEarly
<1>4. FilesHaveNumbers /\ LaterFilesAreNumberedHigher
  BY <1>0 DEF FilesHaveNumbers, LaterFilesAreNumberedHigher, NewJob
<1> QED BY <1>1, <1>2, <1>3, <1>4 DEF IInv

-----------------------------------------------------------------------------

\* A bounded set of numbers that holds 0 has a maximum: its least bound.
LEMMA MaxOfBounded ==
  ASSUME NEW S \in SUBSET Nat, 0 \in S, NEW n \in Nat, \A x \in S : x <= n
  PROVE  Max(S) \in S /\ \A x \in S : x <= Max(S)
<1> DEFINE R == OpToRel(<, Nat)
           T == {u \in Nat : \A x \in S : x <= u}
<1>1. PICK u \in T : \A v \in T : ~(<<v, u>> \in R)
  <2>1. IsWellFoundedOn(R, Nat)
    BY NatLessThanWellFounded
  <2>2. T \subseteq Nat /\ T # {}
    OBVIOUS
  <2> HIDE DEF R, T
  <2> QED BY <2>1, <2>2, WFMin
<1>2. \A v \in T : ~(v < u)
  BY <1>1 DEF OpToRel
<1>3. u \in S
  <2>1. CASE u = 0
    BY <2>1
  <2>2. CASE u # 0 /\ u \notin S
    <3>1. u - 1 \in T
      BY <2>2
    <3> QED BY <1>2, <3>1, <2>2
  <2> QED BY <2>1, <2>2
<1> QED BY <1>3 DEF Max

\* What SELECT COALESCE(MAX(received_seq), 0) returns.
LEMMA LastSeqIsMax ==
  ASSUME TypeOK, FilesHaveNumbers, NEW s
  PROVE  /\ LastSeq(s) \in Nat
         /\ \A k \in Messages :
              file[k] # None /\ file[k].session = s => file[k].seq <= LastSeq(s)
<1> DEFINE S == {0} \cup {file[k].seq :
                   k \in {k \in Messages : file[k] # None /\ file[k].session = s}}
<1>1. \A k \in Messages : file[k] # None => file[k].seq \in Nat
  BY DEF TypeOK, File
<1>2. PICK n \in Nat : \A k \in Messages : file[k] # None => file[k].seq <= n
  BY DEF FilesHaveNumbers
<1>3. S \in SUBSET Nat /\ 0 \in S /\ \A x \in S : x <= n
  BY <1>1, <1>2
<1>4. LastSeq(s) = Max(S)
  BY DEF LastSeq
<1>5. Max(S) \in S /\ \A x \in S : x <= Max(S)
  <2> HIDE DEF S
  <2> QED BY <1>3, MaxOfBounded
<1> QED BY <1>3, <1>4, <1>5

-----------------------------------------------------------------------------

\* The variables keep their types.
LEMMA NextTyped ==
  TypeOK /\ FilesHaveNumbers /\ JobsHaveSessions /\ JobsAreTenants
    /\ [Next]_vars => TypeOK'
<1> SUFFICES ASSUME TypeOK, FilesHaveNumbers, JobsHaveSessions, JobsAreTenants,
                    [Next]_vars
             PROVE  TypeOK'
  OBVIOUS
<1> USE RoutingAssumption DEF TypeOK
<1>1. CASE UNCHANGED vars
  BY <1>1 DEF vars
<1>2. ASSUME NEW t \in Tenants, NEW p \in Phones, NEW s \in Statuses, PutContact(t, p, s)
      PROVE  TypeOK'
  <2>1. Upserted(p, t, s) \in Contact \cup {None}
    BY DEF Upserted, Contact
  <2> QED BY <1>2, <2>1 DEF PutContact, Changes
<1>3. ASSUME NEW t \in Tenants, NEW p \in Phones, NEW s \in Statuses, PatchContact(t, p, s)
      PROVE  TypeOK'
  <2>1. contact[p] \in Contact
    BY <1>3 DEF PatchContact
  <2> QED BY <1>3, <2>1 DEF PatchContact, Changes, Contact
<1>4. ASSUME NEW t \in Tenants, NEW n \in Numbers, NEW j \in BOOLEAN, CreateRoute(t, n, j)
      PROVE  TypeOK'
  <2>1. NewRoute(t, j) \in Route
    BY DEF NewRoute, Route
  <2> QED BY <1>4, <2>1 DEF CreateRoute, Changes
<1>5. ASSUME NEW t \in Tenants, NEW n \in Numbers, PatchRoute(t, n)
      PROVE  TypeOK'
  <2>1. route[n] \in Route
    BY <1>5 DEF PatchRoute
  <2>2. PICK a \in BOOLEAN, j \in BOOLEAN :
          route' = [route EXCEPT ![n] = [route[n] EXCEPT !.active = a, !.journey = j]]
    BY <1>5, <2>1 DEF PatchRoute, Route
  <2>3. [route[n] EXCEPT !.active = a, !.journey = j] \in Route
    BY <2>1 DEF Route
  <2>4. PICK r \in Route : route' = [route EXCEPT ![n] = r]
    BY <2>2, <2>3
  <2>5. /\ UNCHANGED <<contact, job, session, file, sent>>
        /\ changes' = changes + 1
        /\ barred' = {b \in barred : Bars(b)'}
    BY <1>5 DEF PatchRoute, Changes
  <2>6. route' \in [Numbers -> Route \cup {None}]
    BY <2>4
  <2>7. barred' \subseteq Messages \X {"route", "contact"}
    BY <2>5
  <2>8. changes' \in Nat
    BY <2>5
  <2> QED BY <2>5, <2>6, <2>7, <2>8
<1>6. ASSUME NEW m \in Messages, Process(m)
      PROVE  TypeOK'
  <2>0. job[m] \in Job
    OBVIOUS
  <2>1. CASE Receive(m)
    BY <2>0, <2>1 DEF Receive, Job, JobStates
  <2>2. CASE ResolveRoute(m)
    <3>1. CASE ActiveRoute(job[m].number)
      <4>1. route[job[m].number].tenant \in Tenants
        BY <2>0, <3>1 DEF ActiveRoute, Job, Route
      <4> QED BY <2>0, <2>2, <3>1, <4>1 DEF ResolveRoute, JobOnly, Job, JobStates
    <3>2. CASE ~ActiveRoute(job[m].number)
      BY <2>0, <2>2, <3>2 DEF ResolveRoute, JobOnly, Ignores, Job, JobStates
    <3> QED BY <3>1, <3>2
  <2>3. CASE ResolveContact(m)
    BY <2>0, <2>3 DEF ResolveContact, JobOnly, Ignores, Job, JobStates
  <2>4. CASE FindSession(m)
    <3>1. PICK s \in Messages :
            job' = [job EXCEPT ![m].at = "opening", ![m].session = s]
      BY <2>4 DEF FindSession, OpenOf
    <3> QED BY <2>0, <2>4, <3>1 DEF FindSession, JobOnly, Job, JobStates
  <2>5. CASE Read(m)
    <3>1. LastSeq(job[m].session) + 1 \in Nat
      BY LastSeqIsMax
    <3>2. PICK j \in Numbers \cup {None} :
            job' = [job EXCEPT ![m].at = "read", ![m].journey = j,
                               ![m].seq = LastSeq(job[m].session) + 1]
      <4>1. Journeys(job[m].phone) \subseteq Numbers \cup {None}
        BY DEF Journeys, RoutesFor
      <4> QED BY <2>5, <4>1 DEF Read
    <3> QED BY <2>0, <2>5, <3>1, <3>2 DEF Read, JobOnly, Job, JobStates
  <2>6. CASE Commit(m)
    <3> DEFINE s == job[m].session
               new == [phone |-> job[m].phone, tenant |-> job[m].tenant, open |-> TRUE]
               row == [session |-> s, seq |-> job[m].seq, journey |-> job[m].journey]
    <3>1. CASE job' = [job EXCEPT ![m].at = "failed"] /\ UNCHANGED <<session, file>>
      BY <2>0, <2>6, <3>1 DEF Commit, Job, JobStates
    <3>2. CASE /\ job' = [job EXCEPT ![m].at = "done"]
               /\ session' = [session EXCEPT ![s] = IF session[s] = None THEN new ELSE session[s]]
               /\ file' = [file EXCEPT ![m] = row]
      <4>1. s \in Messages /\ job[m].tenant \in Tenants
        BY <2>6 DEF Commit, JobsHaveSessions, JobsAreTenants, Opened, Resolved, Routed
      <4>2. new \in Session /\ row \in File
        BY <2>0, <4>1 DEF Job, Session, File
      <4>3. job' \in [Messages -> Job]
        BY <2>0, <3>2 DEF Job, JobStates
      <4>4. file' \in [Messages -> File \cup {None}]
        BY <3>2, <4>2
      <4>5. session' \in [Messages -> Session \cup {None}]
        BY <3>2, <4>1, <4>2
      <4> QED BY <2>6, <4>3, <4>4, <4>5 DEF Commit
    <3> QED BY <2>6, <3>1, <3>2 DEF Commit
  <2> QED BY <1>6, <2>1, <2>2, <2>3, <2>4, <2>5, <2>6 DEF Process
<1>7. ASSUME NEW s \in Messages, CloseSession(s)
      PROVE  TypeOK'
  BY <1>7 DEF CloseSession, Session
<1>8. ASSUME NEW m \in Messages, LookUpJourney(m)
      PROVE  TypeOK'
  BY <1>8 DEF LookUpJourney, Journeys, RoutesFor, File
<1>9. ASSUME NEW s \in Messages, Reply(s)
      PROVE  TypeOK'
  BY <1>9 DEF Reply, RoutesFor
<1> QED
  BY <1>1, <1>2, <1>3, <1>4, <1>5, <1>6, <1>7, <1>8, <1>9 DEF Next, Manage

-----------------------------------------------------------------------------

\* No step takes a row away or moves it to another tenant, contact or session.
RowsStay ==
  /\ \A p \in Phones : contact[p] # None =>
       contact'[p] # None /\ contact'[p].tenant = contact[p].tenant
  /\ \A n \in Numbers : route[n] # None =>
       route'[n] # None /\ route'[n].tenant = route[n].tenant
  /\ \A s \in Messages : session[s] # None =>
       /\ session'[s] # None
       /\ session'[s].phone = session[s].phone /\ session'[s].tenant = session[s].tenant
  /\ \A k \in Messages : file[k] # None =>
       /\ file'[k] # None
       /\ file'[k].session = file[k].session /\ file'[k].seq = file[k].seq

\* No call of the API and no job moves a contact or a route to another tenant.
LEMMA RowsDoStay == IInv /\ [Next]_vars => RowsStay
<1> SUFFICES ASSUME IInv, [Next]_vars PROVE RowsStay
  OBVIOUS
<1> USE RoutingAssumption DEF IInv, TypeOK, RowsStay
<1>1. CASE UNCHANGED vars
  BY <1>1 DEF vars
<1>2. ASSUME NEW t \in Tenants, NEW p \in Phones, NEW s \in Statuses, PutContact(t, p, s)
      PROVE  RowsStay
  BY <1>2 DEF PutContact, Changes, Upserted, Contact
<1>3. ASSUME NEW t \in Tenants, NEW p \in Phones, NEW s \in Statuses, PatchContact(t, p, s)
      PROVE  RowsStay
  <2>1. contact[p] \in Contact /\ [contact[p] EXCEPT !.status = s] \in Contact
    BY <1>3 DEF PatchContact, Contact
  <2>2. [contact[p] EXCEPT !.status = s].tenant = contact[p].tenant
    BY <2>1 DEF Contact
  <2>3. contact' = [contact EXCEPT ![p] = [contact[p] EXCEPT !.status = s]]
    BY <1>3 DEF PatchContact
  <2> QED BY <1>3, <2>1, <2>2, <2>3 DEF PatchContact, Changes
<1>4. ASSUME NEW t \in Tenants, NEW n \in Numbers, NEW j \in BOOLEAN, CreateRoute(t, n, j)
      PROVE  RowsStay
  BY <1>4 DEF CreateRoute, Changes
<1>5. ASSUME NEW t \in Tenants, NEW n \in Numbers, PatchRoute(t, n)
      PROVE  RowsStay
  <2>1. route[n] \in Route
    BY <1>5 DEF PatchRoute
  <2>2. PICK r \in Route : r.tenant = route[n].tenant /\ route' = [route EXCEPT ![n] = r]
    <3>1. PICK a \in BOOLEAN, j \in BOOLEAN :
            route' = [route EXCEPT ![n] = [route[n] EXCEPT !.active = a, !.journey = j]]
      BY <1>5, <2>1 DEF PatchRoute, Route
    <3>2. /\ [route[n] EXCEPT !.active = a, !.journey = j] \in Route
          /\ [route[n] EXCEPT !.active = a, !.journey = j].tenant = route[n].tenant
      BY <2>1 DEF Route
    <3> QED BY <3>1, <3>2
  <2> QED BY <1>5, <2>2 DEF PatchRoute, Changes
<1>6. ASSUME NEW m \in Messages, Process(m)
      PROVE  RowsStay
  <2>1. CASE Receive(m)
    BY <2>1 DEF Receive
  <2>2. CASE ResolveRoute(m) \/ ResolveContact(m) \/ FindSession(m) \/ Read(m)
    BY <2>2 DEF ResolveRoute, ResolveContact, FindSession, Read, JobOnly
  <2>3. CASE Commit(m)
    <3>1. file[m] = None
      BY <2>3 DEF Commit, OnlyDoneJobsWrite
    <3>2. \A s \in Messages : session[s] # None => session'[s] = session[s]
      BY <2>3 DEF Commit
    <3>3. \A k \in Messages : file[k] # None => file'[k] = file[k]
      BY <2>3, <3>1 DEF Commit
    <3> QED BY <2>3, <3>2, <3>3 DEF Commit
  <2> QED BY <1>6, <2>1, <2>2, <2>3 DEF Process
<1>7. ASSUME NEW s \in Messages, CloseSession(s)
      PROVE  RowsStay
  <2>1. session[s] \in Session
    BY <1>7 DEF CloseSession
  <2>2. /\ [session[s] EXCEPT !.open = FALSE] \in Session
        /\ [session[s] EXCEPT !.open = FALSE].phone = session[s].phone
        /\ [session[s] EXCEPT !.open = FALSE].tenant = session[s].tenant
    BY <2>1 DEF Session
  <2>3. session' = [session EXCEPT ![s] = [session[s] EXCEPT !.open = FALSE]]
    BY <1>7 DEF CloseSession
  <2> QED BY <1>7, <2>2, <2>3 DEF CloseSession
<1>8. ASSUME NEW m \in Messages, LookUpJourney(m)
      PROVE  RowsStay
  <2>1. PICK j \in Numbers \cup {None} :
          file' = [file EXCEPT ![m] = [file[m] EXCEPT !.journey = j]]
    <3>1. Journeys(session[file[m].session].phone) \subseteq Numbers \cup {None}
      BY DEF Journeys, RoutesFor
    <3> QED BY <1>8, <3>1 DEF LookUpJourney
  <2>2. file[m] \in File
    BY <1>8 DEF LookUpJourney
  <2>3. /\ [file[m] EXCEPT !.journey = j] \in File
        /\ [file[m] EXCEPT !.journey = j].session = file[m].session
        /\ [file[m] EXCEPT !.journey = j].seq = file[m].seq
    BY <2>2 DEF File
  <2> QED BY <1>8, <2>1, <2>3 DEF LookUpJourney
<1>9. ASSUME NEW s \in Messages, Reply(s)
      PROVE  RowsStay
  BY <1>9 DEF Reply
<1> QED
  BY <1>1, <1>2, <1>3, <1>4, <1>5, <1>6, <1>7, <1>8, <1>9 DEF Next, Manage

-----------------------------------------------------------------------------

\* The management API and the end of a session change no job, file or reply.
LEMMA QuietSteps ==
  ASSUME IInv, TypeOK', RowsStay, UNCHANGED <<job, file, sent>>,
         \A s \in Messages : session'[s] # None => session[s] # None
  PROVE  TenantInv'
<1> USE RoutingAssumption DEF IInv, TypeOK, TenantInv, RowsStay
<1>0. \A m \in Messages : job[m] \in Job
  OBVIOUS
<1>1. JobsAreRouted'
  BY <1>0 DEF JobsAreRouted, Job
<1>2. JobsAreTenants'
  BY DEF JobsAreTenants
<1>3. JobsAreResolved'
  BY <1>0 DEF JobsAreResolved, Job
<1>4. JobsHaveSessions'
  BY <1>0 DEF JobsHaveSessions, Job
<1>5. JourneysAreOwn'
  BY <1>0 DEF JourneysAreOwn, Job
<1>6. SessionsAreBound'
  BY DEF SessionsAreBound, Session
<1>7. FilesAreOwn'
  BY <1>0 DEF FilesAreOwn, File, Job
<1>8. RepliesAreOwn'
  BY DEF RepliesAreOwn
<1> QED BY <1>1, <1>2, <1>3, <1>4, <1>5, <1>6, <1>7, <1>8

\* How a step before the commit changes its job.
LEMMA JobChanges ==
  ASSUME IInv, TypeOK', NEW m \in Messages,
         Receive(m) \/ ResolveRoute(m) \/ ResolveContact(m) \/ FindSession(m) \/ Read(m)
  PROVE  LET j == job[m]
             i == job'[m]
         IN /\ \A k \in Messages : k # m => job'[k] = job[k]
            /\ i.number = j.number /\ i.phone = j.phone
            /\ j.at \in {"unsent", "queued", "routed", "resolved", "opening"}
            /\ i.at # "routed" => i.before = j.before
            /\ \/ i.at = "queued" /\ j.at = "unsent"
               \/ i.at = "ignored"
               \/ /\ i.at = "routed" /\ j.at = "queued"
                  /\ ActiveRoute(j.number) /\ i.tenant = route[j.number].tenant
                  /\ i.before = {k \in Messages : file[k] # None}
               \/ /\ i.at = "resolved" /\ j.at = "routed"
                  /\ MayWrite(j.phone, j.tenant) /\ i.tenant = j.tenant
               \/ /\ i.at = "opening" /\ j.at = "resolved" /\ i.tenant = j.tenant
                  /\ i.session = m \/ i.session \in OpenOf(j.phone)
                  /\ i.session \in Messages
               \/ /\ i.at = "read" /\ j.at = "opening" /\ i.tenant = j.tenant
                  /\ i.session = j.session /\ i.journey \in Journeys(j.phone)
                  /\ i.seq = LastSeq(j.session) + 1
<1> USE RoutingAssumption DEF IInv, TypeOK
<1>0. job[m] \in Job
  OBVIOUS
<1>1. CASE Receive(m)
  BY <1>0, <1>1 DEF Receive, Job
<1>2. CASE ResolveRoute(m)
  <2>1. CASE ActiveRoute(job[m].number)
    BY <1>0, <1>2, <2>1 DEF ResolveRoute, Job
  <2>2. CASE ~ActiveRoute(job[m].number)
    BY <1>0, <1>2, <2>2 DEF ResolveRoute, Ignores, Job
  <2> QED BY <2>1, <2>2
<1>3. CASE ResolveContact(m)
  BY <1>0, <1>3 DEF ResolveContact, Ignores, Job
<1>4. CASE FindSession(m)
  <2>1. PICK s \in IF OpenOf(job[m].phone) = {} THEN {m} ELSE OpenOf(job[m].phone) :
          job' = [job EXCEPT ![m].at = "opening", ![m].session = s]
    BY <1>4 DEF FindSession
  <2>2. s = m \/ s \in OpenOf(job[m].phone)
    OBVIOUS
  <2>3. s \in Messages
    BY <2>2 DEF OpenOf
  <2>4. /\ job'[m] = [job[m] EXCEPT !.at = "opening", !.session = s]
        /\ \A k \in Messages : k # m => job'[k] = job[k]
    BY <2>1
  <2>5. /\ job'[m].number = job[m].number /\ job'[m].phone = job[m].phone
        /\ job'[m].tenant = job[m].tenant /\ job'[m].before = job[m].before
        /\ job'[m].at = "opening" /\ job'[m].session = s
    BY <1>0, <2>4 DEF Job
  <2>6. job[m].at = "resolved"
    BY <1>4 DEF FindSession
  <2> QED BY <2>2, <2>3, <2>4, <2>5, <2>6
<1>5. CASE Read(m)
  <2>1. PICK n \in Journeys(job[m].phone) :
          job' = [job EXCEPT ![m].at = "read", ![m].journey = n,
                             ![m].seq = LastSeq(job[m].session) + 1]
    BY <1>5 DEF Read
  <2>2. /\ job'[m] = [job[m] EXCEPT !.at = "read", !.journey = n,
                                    !.seq = LastSeq(job[m].session) + 1]
        /\ \A k \in Messages : k # m => job'[k] = job[k]
    BY <2>1
  <2>3. /\ job'[m].number = job[m].number /\ job'[m].phone = job[m].phone
        /\ job'[m].tenant = job[m].tenant /\ job'[m].session = job[m].session
        /\ job'[m].at = "read" /\ job'[m].journey = n
        /\ job'[m].seq = LastSeq(job[m].session) + 1 /\ job'[m].before = job[m].before
    BY <1>0, <2>2 DEF Job
  <2>4. job[m].at = "opening"
    BY <1>5 DEF Read
  <2> QED BY <2>1, <2>2, <2>3, <2>4
<1> QED BY <1>1, <1>2, <1>3, <1>4, <1>5

\* The steps of a job before it commits write nothing.
LEMMA JobSteps ==
  ASSUME IInv, TypeOK', NEW m \in Messages,
         UNCHANGED <<contact, route, session, file, sent>>,
         Receive(m) \/ ResolveRoute(m) \/ ResolveContact(m) \/ FindSession(m) \/ Read(m)
  PROVE  TenantInv'
<1> USE RoutingAssumption DEF IInv, TypeOK, TenantInv
<1> DEFINE j == job[m]
           i == job'[m]
<1>0. /\ \A k \in Messages : job[k] \in Job /\ job'[k] \in Job
      /\ \A k \in Messages : k # m => job'[k] = job[k]
      /\ i.number = j.number /\ i.phone = j.phone
  BY JobChanges
<1>1. JobsAreRouted'
  <2>1. i.at \in Routed => /\ route[j.number] # None
                           /\ route[j.number].tenant = i.tenant
    BY JobChanges DEF JobsAreRouted, Routed, ActiveRoute
  <2> QED BY <1>0, <2>1 DEF JobsAreRouted
<1>2. JobsAreTenants'
  BY <1>0, <1>1 DEF JobsAreTenants, JobsAreRouted, Job, Route
<1>3. JobsAreResolved'
  <2>1. i.at \in Resolved => /\ contact[j.phone] # None
                             /\ contact[j.phone].tenant = i.tenant
    BY JobChanges DEF JobsAreResolved, Routed, Resolved, MayWrite
  <2> QED BY <1>0, <2>1 DEF JobsAreResolved
<1>4. JobsHaveSessions'
  <2>1. i.at \in Opened =>
          /\ i.session \in Messages
          /\ session[i.session] = None => i.session = m
          /\ session[i.session] # None => session[i.session].phone = j.phone
    <3>1. CASE i.at = "opening"
      BY <3>1, JobChanges DEF OnlyDoneJobsWrite, OpenOf
    <3>2. CASE i.at = "read"
      BY <3>2, JobChanges DEF JobsHaveSessions, Routed, Resolved, Opened
    <3>3. CASE i.at \notin {"opening", "read"}
      BY <3>3, JobChanges DEF Routed, Resolved, Opened
    <3> QED BY <3>1, <3>2, <3>3
  <2> QED BY <1>0, <2>1 DEF JobsHaveSessions
<1>5. JourneysAreOwn'
  <2>1. i.at = "read" /\ i.journey # None => /\ route[i.journey] # None
                                             /\ route[i.journey].tenant = i.tenant
    <3> SUFFICES ASSUME i.at = "read", i.journey # None
                 PROVE  route[i.journey] # None /\ route[i.journey].tenant = i.tenant
      OBVIOUS
    <3>1. j.at = "opening" /\ i.tenant = j.tenant /\ i.journey \in Journeys(j.phone)
      BY JobChanges
    <3>2. contact[j.phone] # None /\ contact[j.phone].tenant = j.tenant
      BY <3>1 DEF JobsAreResolved, Routed, Resolved
    <3>3. i.journey \in RoutesFor(j.phone)
      BY <3>1 DEF Journeys
    <3> QED BY <3>1, <3>2, <3>3 DEF RoutesFor, ActiveRoute
  <2> QED BY <1>0, <2>1 DEF JourneysAreOwn
<1>6. SessionsAreBound'
  BY DEF SessionsAreBound
<1>7. FilesAreOwn'
  BY <1>0 DEF FilesAreOwn
<1>8. RepliesAreOwn'
  BY DEF RepliesAreOwn
<1> QED BY <1>1, <1>2, <1>3, <1>4, <1>5, <1>6, <1>7, <1>8

\* What a job commits is what it has resolved.
LEMMA CommitStep ==
  ASSUME IInv, TypeOK', RowsStay, NEW m \in Messages, Commit(m)
  PROVE  TenantInv'
<1> USE RoutingAssumption DEF IInv, TypeOK, TenantInv
<1> DEFINE s == job[m].session
           new == [phone |-> job[m].phone, tenant |-> job[m].tenant, open |-> TRUE]
           row == [session |-> s, seq |-> job[m].seq, journey |-> job[m].journey]
<1>0. /\ \A k \in Messages : job[k] \in Job
      /\ \A k \in Messages : k # m => job'[k] = job[k]
      /\ job'[m].at \in {"done", "failed"} /\ job[m].at = "read"
      /\ job'[m].number = job[m].number /\ job'[m].phone = job[m].phone
      /\ job'[m].tenant = job[m].tenant /\ job'[m].session = job[m].session
      /\ job'[m].journey = job[m].journey
      /\ UNCHANGED <<contact, route, sent>>
  BY DEF Commit, Job
<1>1. /\ job[m].at \in Routed /\ job[m].at \in Resolved /\ job[m].at \in Opened
      /\ s \in Messages
  BY <1>0 DEF Routed, Resolved, Opened, JobsHaveSessions
<1>2. /\ route[job[m].number] # None /\ route[job[m].number].tenant = job[m].tenant
      /\ contact[job[m].phone] # None /\ contact[job[m].phone].tenant = job[m].tenant
  BY <1>1 DEF JobsAreRouted, JobsAreResolved
<1>3. JobsAreRouted' /\ JobsAreTenants' /\ JobsAreResolved' /\ JourneysAreOwn'
  BY <1>0, <1>1, <1>2 DEF JobsAreRouted, JobsAreTenants, JobsAreResolved, JourneysAreOwn
<1>4. \/ UNCHANGED <<session, file>>
      \/ /\ session' = [session EXCEPT ![s] = IF session[s] = None THEN new ELSE session[s]]
         /\ file' = [file EXCEPT ![m] = row]
  BY DEF Commit
<1>5. session'[s] # None => /\ session'[s].phone = job[m].phone
                            /\ session'[s].tenant = job[m].tenant
  <2>1. session[s] # None => /\ session[s].phone = job[m].phone
                             /\ session[s].tenant = job[m].tenant
    BY <1>1, <1>2 DEF JobsHaveSessions, SessionsAreBound
  <2> QED BY <1>1, <1>4, <2>1
<1>6. \A r \in Messages : r # s => session'[r] = session[r]
  BY <1>4
<1>7. JobsHaveSessions'
  <2> SUFFICES ASSUME NEW k \in Messages, job'[k].at \in Opened
               PROVE  /\ job'[k].session \in Messages
                      /\ session'[job'[k].session] = None => job'[k].session = k
                      /\ session'[job'[k].session] # None
                           => session'[job'[k].session].phone = job'[k].phone
    BY DEF JobsHaveSessions
  <2>1. CASE k = m
    <3>1. session'[s] = None => s = m
      BY <1>1 DEF JobsHaveSessions, RowsStay
    <3> QED BY <1>0, <1>1, <1>5, <2>1, <3>1
  <2>2. CASE k # m
    <3>1. /\ job'[k] = job[k] /\ job[k].session \in Messages
          /\ session[job[k].session] = None => job[k].session = k
          /\ session[job[k].session] # None => session[job[k].session].phone = job[k].phone
      BY <1>0, <2>2 DEF JobsHaveSessions
    <3>2. CASE job[k].session # s
      BY <1>6, <3>1, <3>2
    <3>3. CASE job[k].session = s /\ session[s] # None
      BY <1>1, <3>1, <3>3 DEF RowsStay
    <3>4. CASE job[k].session = s /\ session[s] = None
      BY <1>1, <2>2, <3>1, <3>4 DEF JobsHaveSessions
    <3> QED BY <3>2, <3>3, <3>4
  <2> QED BY <2>1, <2>2
<1>8. SessionsAreBound'
  <2> SUFFICES ASSUME NEW r \in Messages, session'[r] # None
               PROVE  /\ contact[session'[r].phone] # None
                      /\ contact[session'[r].phone].tenant = session'[r].tenant
    BY <1>0 DEF SessionsAreBound
  <2>1. CASE r = s
    BY <1>2, <1>5, <2>1
  <2>2. CASE r # s
    BY <1>6, <2>2 DEF SessionsAreBound
  <2> QED BY <2>1, <2>2
<1>9. FilesAreOwn'
  <2> SUFFICES ASSUME NEW k \in Messages, file'[k] # None
               PROVE  /\ session'[file'[k].session] # None
                      /\ route[job'[k].number] # None
                      /\ route[job'[k].number].tenant = session'[file'[k].session].tenant
                      /\ file'[k].journey # None =>
                           /\ route[file'[k].journey] # None
                           /\ route[file'[k].journey].tenant = session'[file'[k].session].tenant
    BY <1>0 DEF FilesAreOwn
  <2>1. CASE k # m \/ UNCHANGED <<session, file>>
    <3>1. file'[k] = file[k] /\ job'[k].number = job[k].number
      BY <1>0, <1>4, <2>1
    <3>2. file[k].session \in Messages
      BY <3>1 DEF File
    <3> QED BY <3>1, <3>2 DEF FilesAreOwn, RowsStay
  <2>2. CASE /\ k = m
             /\ session' = [session EXCEPT ![s] = IF session[s] = None THEN new ELSE session[s]]
             /\ file' = [file EXCEPT ![m] = row]
    <3>1. /\ file'[k].session = s /\ file'[k].journey = job[m].journey
          /\ session'[s] # None
      <4>1. new \in Session
        BY <1>0, <1>1 DEF Session, Job, JobsAreTenants
      <4> QED BY <1>1, <2>2, <4>1
    <3>2. session'[s].tenant = job[m].tenant
      BY <1>5, <3>1
    <3>3. job[m].journey # None => /\ route[job[m].journey] # None
                                   /\ route[job[m].journey].tenant = job[m].tenant
      BY <1>0 DEF JourneysAreOwn
    <3> QED BY <1>0, <1>2, <2>2, <3>1, <3>2, <3>3
  <2> QED BY <1>4, <2>1, <2>2
<1>10. RepliesAreOwn'
  BY <1>0 DEF RepliesAreOwn, RowsStay
<1> QED BY <1>3, <1>7, <1>8, <1>9, <1>10

\* The look-ups go through the contact of the session.
LEMMA LookUpStep ==
  ASSUME IInv, TypeOK', NEW m \in Messages, LookUpJourney(m)
  PROVE  TenantInv'
<1> USE RoutingAssumption DEF IInv, TypeOK, TenantInv
<1> DEFINE s == file[m].session
<1>1. UNCHANGED <<contact, route, job, session, sent>> /\ file[m] # None
  BY DEF LookUpJourney
<1>2. file[m] \in File /\ s \in Messages
  BY <1>1 DEF File
<1>3. PICK j \in Journeys(session[s].phone) : file' = [file EXCEPT ![m].journey = j]
  BY DEF LookUpJourney
<1>4. session[s] # None /\ contact[session[s].phone].tenant = session[s].tenant
  BY <1>1, <1>2 DEF FilesAreOwn, SessionsAreBound
<1>5. j # None => route[j] # None /\ route[j].tenant = session[s].tenant
  BY <1>4 DEF Journeys, RoutesFor, ActiveRoute
<1>6. /\ file'[m].session = s /\ file'[m].journey = j
      /\ \A k \in Messages : k # m => file'[k] = file[k]
  <2>1. file' = [file EXCEPT ![m] = [file[m] EXCEPT !.journey = j]]
    BY <1>3
  <2> QED BY <1>2, <2>1 DEF File
<1>7. FilesAreOwn'
  BY <1>1, <1>2, <1>4, <1>5, <1>6 DEF FilesAreOwn
<1> QED
  BY <1>1, <1>7 DEF JobsAreRouted, JobsAreTenants, JobsAreResolved, JobsHaveSessions,
     JourneysAreOwn, SessionsAreBound, RepliesAreOwn

\* A reply goes out through a number of the tenant of its session.
LEMMA ReplyStep ==
  ASSUME IInv, TypeOK', NEW s \in Messages, Reply(s)
  PROVE  TenantInv'
<1> USE RoutingAssumption DEF IInv, TypeOK, TenantInv
<1>1. UNCHANGED <<contact, route, job, session, file>> /\ session[s] # None
  BY DEF Reply
<1>2. PICK n \in RoutesFor(session[s].phone) : sent' = sent \cup {<<s, n>>}
  BY DEF Reply
<1>3. /\ n \in Numbers /\ route[n] # None
      /\ route[n].tenant = session[s].tenant
  BY <1>1 DEF RoutesFor, ActiveRoute, SessionsAreBound
<1>4. RepliesAreOwn'
  BY <1>1, <1>2, <1>3 DEF RepliesAreOwn
<1> QED
  BY <1>1, <1>4 DEF JobsAreRouted, JobsAreTenants, JobsAreResolved, JobsHaveSessions,
     JourneysAreOwn, SessionsAreBound, FilesAreOwn

\* The tenants stay apart in every step.
LEMMA TenantNext == IInv /\ [Next]_vars /\ TypeOK' => TenantInv'
<1> SUFFICES ASSUME IInv, [Next]_vars, TypeOK' PROVE TenantInv'
  OBVIOUS
<1>0. RowsStay
  BY RowsDoStay
<1>1. CASE UNCHANGED vars \/ Manage
  <2>1. UNCHANGED <<job, session, file, sent>>
    BY <1>1 DEF vars, Manage, PutContact, PatchContact, CreateRoute, PatchRoute, Changes
  <2> QED BY <1>0, <2>1, QuietSteps
<1>2. ASSUME NEW m \in Messages, Process(m)
      PROVE  TenantInv'
  <2>1. CASE Commit(m)
    BY <1>0, <2>1, CommitStep
  <2>2. CASE Receive(m) \/ ResolveRoute(m) \/ ResolveContact(m) \/ FindSession(m) \/ Read(m)
    <3>1. UNCHANGED <<contact, route, session, file, sent>>
      BY <2>2 DEF Receive, ResolveRoute, ResolveContact, FindSession, Read, JobOnly
    <3> QED BY <2>2, <3>1, JobSteps
  <2> QED BY <1>2, <2>1, <2>2 DEF Process
<1>3. ASSUME NEW s \in Messages, CloseSession(s)
      PROVE  TenantInv'
  <2>1. UNCHANGED <<job, file, sent>> /\ \A r \in Messages : session'[r] # None => session[r] # None
    BY <1>3 DEF CloseSession, IInv, TypeOK
  <2> QED BY <1>0, <2>1, QuietSteps
<1>4. ASSUME NEW m \in Messages, LookUpJourney(m)
      PROVE  TenantInv'
  BY <1>4, LookUpStep
<1>5. ASSUME NEW s \in Messages, Reply(s)
      PROVE  TenantInv'
  BY <1>5, ReplyStep
<1> QED
  BY <1>1, <1>2, <1>3, <1>4, <1>5 DEF Next

-----------------------------------------------------------------------------

\* Only the commit of a job gives its message a file or a session.
LEMMA DoneNext == IInv /\ [Next]_vars => OnlyDoneJobsWrite'
<1> SUFFICES ASSUME IInv, [Next]_vars PROVE OnlyDoneJobsWrite'
  OBVIOUS
<1> USE RoutingAssumption DEF IInv, TypeOK, OnlyDoneJobsWrite
<1>0. \A k \in Messages : job[k] \in Job
  OBVIOUS
<1>1. CASE UNCHANGED vars \/ Manage
  BY <1>1 DEF vars, Manage, PutContact, PatchContact, CreateRoute, PatchRoute, Changes
<1>2. ASSUME NEW m \in Messages, Process(m)
      PROVE  OnlyDoneJobsWrite'
  <2>1. CASE Commit(m)
    <3>1. /\ job'[m].at \in {"done", "failed"} /\ job[m].at = "read"
          /\ \A k \in Messages : k # m => job'[k] = job[k]
      BY <1>0, <2>1 DEF Commit, Job
    <3>2. session[job[m].session] = None => job[m].session = m
      BY <3>1 DEF TenantInv, JobsHaveSessions, Routed, Resolved, Opened
    <3>3. CASE job'[m].at = "failed" /\ UNCHANGED <<session, file>>
      BY <3>1, <3>3
    <3>4. CASE job' = [job EXCEPT ![m].at = "done"]
      <4>1. job'[m].at = "done"
        BY <1>0, <3>4 DEF Job
      <4>2. \A k \in Messages : k # m => file'[k] = file[k]
        BY <2>1 DEF Commit
      <4>3. \A k \in Messages : k # m /\ session'[k] # None => session[k] # None
        BY <2>1, <3>2 DEF Commit
      <4> QED BY <3>1, <4>1, <4>2, <4>3
    <3> QED BY <1>0, <2>1, <3>3, <3>4 DEF Commit, Job
  <2>2. CASE Receive(m) \/ ResolveRoute(m) \/ ResolveContact(m) \/ FindSession(m) \/ Read(m)
    <3>1. UNCHANGED <<session, file>>
      BY <2>2 DEF Receive, ResolveRoute, ResolveContact, FindSession, Read, JobOnly
    <3>2. job[m].at # "done" /\ \A k \in Messages : k # m => job'[k] = job[k]
      BY <2>2 DEF Receive, ResolveRoute, ResolveContact, FindSession, Read, Ignores
    <3> QED BY <3>1, <3>2
  <2> QED BY <1>2, <2>1, <2>2 DEF Process
<1>3. ASSUME NEW m \in Messages, CloseSession(m) \/ LookUpJourney(m) \/ Reply(m)
      PROVE  OnlyDoneJobsWrite'
  BY <1>3 DEF CloseSession, LookUpJourney, Reply
<1> QED
  BY <1>1, <1>2, <1>3 DEF Next

\* What bars a message goes with a call of the management API, or stays and
\* stops its job at the look-up that finds it.
LEMMA BarredNext == IInv /\ [Next]_vars => BarredJobsAreEarly'
<1> SUFFICES ASSUME IInv, [Next]_vars PROVE BarredJobsAreEarly'
  OBVIOUS
<1> USE DEF IInv, TypeOK, BarredJobsAreEarly
<1>0. /\ \A k \in Messages : job[k] \in Job
      /\ \A b \in barred : b[1] \in Messages /\ b[2] \in {"route", "contact"}
  OBVIOUS
<1>1. CASE UNCHANGED vars
  BY <1>1 DEF vars, Bars, ActiveRoute, ActiveContact
<1>2. CASE Manage
  <2>1. Changes
    BY <1>2 DEF Manage, PutContact, PatchContact, CreateRoute, PatchRoute
  <2> QED BY <2>1 DEF Changes
<1>3. ASSUME UNCHANGED <<contact, route, job, barred>>
      PROVE  BarredJobsAreEarly'
  BY <1>3 DEF Bars, ActiveRoute, ActiveContact
<1>4. ASSUME NEW m \in Messages, Process(m)
      PROVE  BarredJobsAreEarly'
  <2>1. UNCHANGED <<contact, route>>
    BY <1>4 DEF Process, Receive, ResolveRoute, ResolveContact, FindSession, Read, Commit, JobOnly
  <2>2. /\ \A k \in Messages : k # m => job'[k] = job[k]
        /\ job'[m].number = job[m].number /\ job'[m].phone = job[m].phone
    <3>1. CASE Commit(m)
      BY <1>0, <3>1 DEF Commit, Job
    <3>2. CASE FindSession(m)
      BY <1>0, <3>2 DEF FindSession, Job
    <3>3. CASE Read(m)
      BY <1>0, <3>3 DEF Read, Job
    <3>4. CASE Receive(m) \/ ResolveRoute(m) \/ ResolveContact(m)
      BY <1>0, <3>4 DEF Receive, ResolveRoute, ResolveContact, Ignores, Job
    <3> QED BY <1>4, <3>1, <3>2, <3>3, <3>4 DEF Process
  <2>3. \A b \in Messages \X {"route", "contact"} : Bars(b)' <=> Bars(b)
    BY <2>1, <2>2 DEF Bars, ActiveRoute, ActiveContact
  <2>4. CASE Receive(m)
    <3>1. job'[m].at = "queued" /\ job[m].at = "unsent"
      BY <1>0, <2>4 DEF Receive, Job
    <3>2. \A b \in barred' : b \in barred \/ (b[1] = m /\ Bars(b))
      BY <2>4 DEF Receive
    <3>3. \A b \in barred' : b \in Messages \X {"route", "contact"}
      BY <1>0, <2>4 DEF Receive
    <3> QED BY <2>2, <2>3, <3>1, <3>2, <3>3
  <2>5. CASE ResolveRoute(m)
    <3>1. barred' = barred
      BY <2>5 DEF ResolveRoute, JobOnly
    <3>2. \/ ActiveRoute(job[m].number) /\ job'[m].at = "routed"
          \/ ~ActiveRoute(job[m].number) /\ job'[m].at = "ignored"
      BY <1>0, <2>5 DEF ResolveRoute, Ignores, Job
    <3>3. <<m, "route">> \in barred => ~ActiveRoute(job[m].number)
      BY DEF Bars
    <3> QED BY <1>0, <2>2, <2>3, <3>1, <3>2, <3>3
  <2>6. CASE ResolveContact(m)
    <3>1. barred' = barred
      BY <2>6 DEF ResolveContact, JobOnly
    <3>2. job[m].at = "routed"
      BY <2>6 DEF ResolveContact
    <3>3. \A b \in barred : b[1] = m => ~ActiveContact(job[m].phone)
      BY <1>0, <3>2 DEF Bars
    <3>4. ~ActiveContact(job[m].phone) => job'[m].at = "ignored"
      BY <1>0, <2>6 DEF ResolveContact, Ignores, MayWrite, ActiveContact, Job
    <3> QED BY <1>0, <2>2, <2>3, <3>1, <3>3, <3>4
  <2>7. CASE FindSession(m) \/ Read(m) \/ Commit(m)
    <3>1. barred' = barred /\ job[m].at \in {"resolved", "opening", "read"}
      BY <2>7 DEF FindSession, Read, Commit, JobOnly
    <3>2. \A b \in barred : b[1] # m
      BY <3>1
    <3> QED BY <1>0, <2>2, <2>3, <3>1, <3>2
  <2> QED BY <1>4, <2>4, <2>5, <2>6, <2>7 DEF Process
<1> QED
  BY <1>1, <1>2, <1>3, <1>4 DEF Next, CloseSession, LookUpJourney, Reply

\* A step that changes no job and adds no file keeps the numbering.
LEMMA QuietNumbers ==
  ASSUME IInv, RowsStay, UNCHANGED job,
         \A k \in Messages : file'[k] # None => file[k] # None
  PROVE  FilesHaveNumbers' /\ LaterFilesAreNumberedHigher'
<1> USE DEF IInv, TypeOK
<1>0. /\ \A m \in Messages : job'[m].before \subseteq Messages
      /\ \A k \in Messages : file'[k] # None =>
           file'[k].session = file[k].session /\ file'[k].seq = file[k].seq
  BY DEF RowsStay, Job
<1>1. PICK n \in Nat : \A k \in Messages : file[k] # None => file[k].seq <= n
  BY DEF FilesHaveNumbers
<1>2. FilesHaveNumbers'
  <2>1. \A k \in Messages : file'[k] # None => file'[k].seq <= n
    BY <1>0, <1>1
  <2>2. \A m \in Messages : \A k \in job'[m].before :
          /\ file'[k] # None
          /\ (job'[m].at = "read" /\ file'[k].session = job'[m].session)
               => file'[k].seq < job'[m].seq
    BY <1>0 DEF FilesHaveNumbers, RowsStay
  <2> QED BY <2>1, <2>2 DEF FilesHaveNumbers
<1>3. LaterFilesAreNumberedHigher'
  BY <1>0 DEF LaterFilesAreNumberedHigher, FilesHaveNumbers, RowsStay
<1> QED BY <1>2, <1>3

\* A job notes the files that it finds, and later numbers its own above them.
LEMMA JobNumbers ==
  ASSUME IInv, TypeOK', NEW m \in Messages, UNCHANGED file,
         Receive(m) \/ ResolveRoute(m) \/ ResolveContact(m) \/ FindSession(m) \/ Read(m)
  PROVE  FilesHaveNumbers' /\ LaterFilesAreNumberedHigher'
<1> USE DEF IInv, TypeOK
<1> DEFINE j == job[m]
           i == job'[m]
<1>0. \A k \in Messages : k # m => job'[k] = job[k]
  BY JobChanges
<1>1. file[m] = None
  BY JobChanges DEF OnlyDoneJobsWrite
<1>2. LaterFilesAreNumberedHigher'
  BY <1>0, <1>1 DEF LaterFilesAreNumberedHigher
<1>3. \A k \in i.before : file[k] # None
  <2>1. CASE i.at = "routed"
    BY <2>1, JobChanges
  <2>2. CASE i.at # "routed"
    BY <2>2, JobChanges DEF FilesHaveNumbers
  <2> QED BY <2>1, <2>2
<1>4. i.at = "read" => \A k \in i.before : file[k].session = i.session => file[k].seq < i.seq
  <2> SUFFICES ASSUME i.at = "read", NEW k \in i.before, file[k].session = i.session
               PROVE  file[k].seq < i.seq
    OBVIOUS
  <2>1. i.session = j.session /\ i.seq = LastSeq(j.session) + 1
    BY JobChanges
  <2>2. k \in Messages /\ file[k] # None /\ file[k].seq \in Nat
    <3>1. k \in Messages
      BY DEF Job
    <3> QED BY <3>1, <1>3 DEF File
  <2>3. LastSeq(j.session) \in Nat /\ file[k].seq <= LastSeq(j.session)
    BY <2>1, <2>2, LastSeqIsMax
  <2> QED BY <2>1, <2>2, <2>3
<1>5. \A k \in Messages : \A l \in job'[k].before :
        /\ file'[l] # None
        /\ (job'[k].at = "read" /\ file'[l].session = job'[k].session)
             => file'[l].seq < job'[k].seq
  BY <1>0, <1>3, <1>4 DEF FilesHaveNumbers
<1> QED BY <1>2, <1>5 DEF FilesHaveNumbers

\* The file of a job has the number that the job read.
LEMMA CommitNumbers ==
  ASSUME IInv, TypeOK', RowsStay, NEW m \in Messages, Commit(m)
  PROVE  FilesHaveNumbers' /\ LaterFilesAreNumberedHigher'
<1> USE RoutingAssumption DEF IInv, TypeOK
<1> DEFINE row == [session |-> job[m].session, seq |-> job[m].seq, journey |-> job[m].journey]
<1>0. /\ \A k \in Messages : job[k] \in Job
      /\ \A k \in Messages : k # m => job'[k] = job[k]
      /\ job'[m].at \in {"done", "failed"} /\ job[m].at = "read"
      /\ job'[m].before = job[m].before
  BY DEF Commit, Job
<1>1. \A k \in Messages : k # m => file'[k] = file[k]
  BY DEF Commit
<1>2. file[m] = None
  BY <1>0 DEF OnlyDoneJobsWrite
<1>3. file'[m] # None => /\ file'[m].seq = job[m].seq
                         /\ file'[m].session = job[m].session
  BY <1>2 DEF Commit
<1>4. \A k \in Messages : \A l \in job[k].before :
        l \in Messages /\ l # m /\ file[l] # None /\ file'[l] = file[l]
  BY <1>0, <1>1, <1>2 DEF FilesHaveNumbers, Job
<1>5. \E n \in Nat : \A k \in Messages : file'[k] # None => file'[k].seq <= n
  <2>1. PICK n \in Nat : \A k \in Messages : file[k] # None => file[k].seq <= n
    BY DEF FilesHaveNumbers
  <2>2. job[m].seq \in Nat
    BY <1>0 DEF Job
  <2>3. \A k \in Messages : file[k] # None => file[k].seq \in Nat
    BY DEF File
  <2>4. \A k \in Messages : file'[k] # None => file'[k].seq <= n + job[m].seq
    BY <1>1, <1>3, <2>1, <2>2, <2>3
  <2>5. n + job[m].seq \in Nat
    BY <2>2
  <2> QED BY <2>4, <2>5
<1>6. FilesHaveNumbers'
  <2>1. \A k \in Messages : job'[k].before = job[k].before
    BY <1>0
  <2>2. \A k \in Messages : job'[k].at = "read" => job'[k] = job[k]
    BY <1>0
  <2>3. \A k \in Messages : \A l \in job[k].before :
          /\ file'[l] # None
          /\ (job[k].at = "read" /\ file'[l].session = job[k].session)
               => file'[l].seq < job[k].seq
    BY <1>4 DEF FilesHaveNumbers
  <2>4. \A k \in Messages : \A l \in job'[k].before :
          /\ file'[l] # None
          /\ (job'[k].at = "read" /\ file'[l].session = job'[k].session)
               => file'[l].seq < job'[k].seq
    BY <2>1, <2>2, <2>3
  <2> QED BY <1>5, <2>4 DEF FilesHaveNumbers
<1>7. LaterFilesAreNumberedHigher'
  BY <1>0, <1>1, <1>3, <1>4 DEF LaterFilesAreNumberedHigher, FilesHaveNumbers
<1> QED BY <1>6, <1>7

\* The numbering of files is kept by every step.
LEMMA NumbersNext ==
  IInv /\ [Next]_vars /\ TypeOK' => FilesHaveNumbers' /\ LaterFilesAreNumberedHigher'
<1> SUFFICES ASSUME IInv, [Next]_vars, TypeOK'
             PROVE  FilesHaveNumbers' /\ LaterFilesAreNumberedHigher'
  OBVIOUS
<1>0. RowsStay
  BY RowsDoStay
<1>1. CASE UNCHANGED <<job, file>>
  BY <1>0, <1>1, QuietNumbers
<1>2. ASSUME NEW m \in Messages, Process(m)
      PROVE  FilesHaveNumbers' /\ LaterFilesAreNumberedHigher'
  <2>1. CASE Commit(m)
    BY <1>0, <2>1, CommitNumbers
  <2>2. CASE Receive(m) \/ ResolveRoute(m) \/ ResolveContact(m) \/ FindSession(m) \/ Read(m)
    <3>1. UNCHANGED file
      BY <2>2 DEF Receive, ResolveRoute, ResolveContact, FindSession, Read, JobOnly
    <3> QED BY <2>2, <3>1, JobNumbers
  <2> QED BY <1>2, <2>1, <2>2 DEF Process
<1>3. ASSUME NEW m \in Messages, LookUpJourney(m)
      PROVE  FilesHaveNumbers' /\ LaterFilesAreNumberedHigher'
  <2>1. UNCHANGED job /\ \A k \in Messages : file'[k] # None => file[k] # None
    BY <1>3 DEF LookUpJourney, IInv, TypeOK
  <2> QED BY <1>0, <2>1, QuietNumbers
<1>4. CASE Manage
  BY <1>1, <1>4 DEF Manage, PutContact, PatchContact, CreateRoute, PatchRoute, Changes
<1>5. ASSUME NEW m \in Messages, CloseSession(m) \/ Reply(m)
      PROVE  FilesHaveNumbers' /\ LaterFilesAreNumberedHigher'
  BY <1>1, <1>5 DEF CloseSession, Reply
<1> QED
  BY <1>1, <1>2, <1>3, <1>4, <1>5 DEF Next, vars

-----------------------------------------------------------------------------

\* The invariant is inductive.
LEMMA NextIInv == IInv /\ [Next]_vars => IInv'
<1>1. IInv /\ [Next]_vars => TypeOK'
  BY NextTyped DEF IInv, TenantInv
<1> QED BY <1>1, TenantNext, DoneNext, BarredNext, NumbersNext DEF IInv

\* The invariant holds in every reachable state.
LEMMA Invariance == Spec => []IInv
<1> QED BY InitIInv, NextIInv, PTL DEF Spec

\* The variables of Routing have their types: so the number that a file is
\* given, one above a MAX, is a number.
THEOREM RoutingTypeCorrect == Spec => []TypeOK
<1>1. IInv => TypeOK
  BY DEF IInv
<1> QED BY <1>1, Invariance, PTL

\* A session, its files, their journeys and its replies are of one tenant,
\* whichever contacts and routes are bound, re-bound and switched between the
\* statements of the jobs.
THEOREM TenantsAreApart == Spec => []TenantsStayApart
<1>1. IInv => TenantsStayApart
  BY DEF IInv, TypeOK, TenantInv, SessionsAreBound, FilesAreOwn, RepliesAreOwn, TenantsStayApart
<1> QED BY <1>1, Invariance, PTL

\* A message that came in while its route or its contact was inactive leaves
\* no session and no file, unless it is made active before the look-up.
THEOREM BarredAreIgnored == Spec => []BarredMessagesAreIgnored
<1>1. IInv => BarredMessagesAreIgnored
  <2> SUFFICES ASSUME IInv, NEW b \in barred
               PROVE  file[b[1]] = None /\ session[b[1]] = None
    BY DEF BarredMessagesAreIgnored
  <2>1. b[1] \in Messages
    BY DEF IInv, TypeOK
  <2> QED BY <2>1 DEF IInv, BarredJobsAreEarly, OnlyDoneJobsWrite
<1> QED BY <1>1, Invariance, PTL

\* A file has a higher number than every file of its session that was there
\* when its job began.
THEOREM FilesAreNumberedInOrder == Spec => []LaterFilesAreNumberedHigher
<1>1. IInv => LaterFilesAreNumberedHigher
  BY DEF IInv
<1> QED BY <1>1, Invariance, PTL

=============================================================================
