-------------------------------- MODULE Routing --------------------------------
(***************************************************************************)
(* Who a message is worked for: wa.route and wa.contact under the calls of *)
(* the management API, against process_inbox_row, which resolves a message *)
(* to a tenant, a contact and a session statement by statement, and        *)
(* against the later look-ups of a route of the tenant: for the intake     *)
(* journey of a file, and for the number that a reply leaves on.           *)
(*                                                                         *)
(* Transactions are READ COMMITTED: each statement sees what has committed *)
(* before it.  A session is named by the message that opened it, a route   *)
(* and its intake journey by the business number.                          *)
(***************************************************************************)
EXTENDS Naturals, FiniteSets, FiniteSetsExt

CONSTANTS
  Tenants, Phones,
  Numbers,      \* phone_number_ids of business numbers
  Statuses,     \* of wa.contact
  Messages,     \* media messages
  None,
  MaxChanges    \* bound: calls of the management API

Contact == [tenant : Tenants, status : Statuses]
Route == [tenant : Tenants, active : BOOLEAN, journey : BOOLEAN]
Session == [phone : Phones, tenant : Tenants, open : BOOLEAN]
File == [session : Messages, seq : Nat, journey : Numbers \cup {None}]

ASSUME RoutingAssumption ==
  /\ "active" \in Statuses
  /\ None \notin Tenants \cup Numbers \cup Messages
  /\ None \notin Contact /\ None \notin Route /\ None \notin Session /\ None \notin File
  /\ MaxChanges \in Nat

VARIABLES
  contact,   \* p |-> its wa.contact row
  route,     \* n |-> its wa.route row
  job,       \* m |-> process_inbox_row of the message
  session,   \* m |-> the wa.session that the message opened
  file,      \* m |-> its wa.file row
  sent,      \* replies: the session and the number they left on
  barred,    \* messages whose route, or contact, was inactive ever since
  changes    \* calls of the management API so far

vars == <<contact, route, job, session, file, sent, barred, changes>>

JobStates == {"unsent", "queued", "routed", "resolved", "opening", "read",
              "done", "ignored", "failed"}
Job == [at : JobStates, number : Numbers, phone : Phones,
        tenant : Tenants \cup {None}, session : Messages \cup {None},
        seq : Nat, journey : Numbers \cup {None}, before : SUBSET Messages]

TypeOK ==
  /\ contact \in [Phones -> Contact \cup {None}]
  /\ route \in [Numbers -> Route \cup {None}]
  /\ job \in [Messages -> Job]
  /\ session \in [Messages -> Session \cup {None}]
  /\ file \in [Messages -> File \cup {None}]
  /\ sent \subseteq Messages \X Numbers
  /\ barred \subseteq Messages \X {"route", "contact"}
  /\ changes \in Nat

\* A message has its sender and the number it is sent to from the start.
NewJob == [at : {"unsent"}, number : Numbers, phone : Phones, tenant : {None},
           session : {None}, seq : {0}, journey : {None}, before : {{}}]

Init ==
  /\ contact = [p \in Phones |-> None]
  /\ route = [n \in Numbers |-> None]
  /\ job \in [Messages -> NewJob]
  /\ session = [m \in Messages |-> None]
  /\ file = [m \in Messages |-> None]
  /\ sent = {}
  /\ barred = {}
  /\ changes = 0

ActiveRoute(n) == route[n] # None /\ route[n].active
ActiveContact(p) == contact[p] # None /\ contact[p].status = "active"

\* What bars a message now.
Bars(b) == \/ b[2] = "route" /\ ~ActiveRoute(job[b[1]].number)
           \/ b[2] = "contact" /\ ~ActiveContact(job[b[1]].phone)

-----------------------------------------------------------------------------
(* The management API.  A call for a tenant other than the row's changes   *)
(* nothing and answers 404 or 409.                                         *)

Changes ==
  /\ changes < MaxChanges
  /\ changes' = changes + 1
  /\ UNCHANGED <<job, session, file, sent>>
  /\ barred' = {b \in barred : Bars(b)'}

MutUpserted(p, t, s) == [tenant |-> t, status |-> s]

\* ON CONFLICT (phone_e164) DO UPDATE ... WHERE the row is the tenant's.
Upserted(p, t, s) ==
  IF contact[p] = None \/ contact[p].tenant = t
    THEN [tenant |-> t, status |-> s]
    ELSE contact[p]

PutContact(t, p, s) ==
  /\ contact' = [contact EXCEPT ![p] = Upserted(p, t, s)]
  /\ UNCHANGED route
  /\ Changes

\* patch_contact, and revoke_contact with 'revoked'.
PatchContact(t, p, s) ==
  /\ contact[p] # None /\ contact[p].tenant = t
  /\ contact' = [contact EXCEPT ![p].status = s]
  /\ UNCHANGED route
  /\ Changes

MutNewRoute(t, j) == [tenant |-> t, active |-> None, journey |-> j]

NewRoute(t, j) == [tenant |-> t, active |-> TRUE, journey |-> j]

\* The unique phone_number_id admits one row, of one tenant.
CreateRoute(t, n, j) ==
  /\ route[n] = None
  /\ route' = [route EXCEPT ![n] = NewRoute(t, j)]
  /\ UNCHANGED contact
  /\ Changes

\* patch_route switches a route on or off and gives it a journey, either or
\* both: no journey is taken away.
PatchRoute(t, n) ==
  /\ route[n] # None /\ route[n].tenant = t
  /\ \E a \in BOOLEAN, j \in {route[n].journey, TRUE} :
       route' = [route EXCEPT ![n].active = a, ![n].journey = j]
  /\ UNCHANGED contact
  /\ Changes

-----------------------------------------------------------------------------
(* process_inbox_row.                                                      *)

Receive(m) ==
  /\ job[m].at = "unsent"
  /\ job' = [job EXCEPT ![m].at = "queued"]
  /\ barred' = barred \cup {b \in {m} \X {"route", "contact"} : Bars(b)}
  /\ UNCHANGED <<contact, route, session, file, sent, changes>>

\* RoutingError: the row is marked 'ignored'.
Ignores(m) == job' = [job EXCEPT ![m].at = "ignored"]

\* A step of a job that has written nothing yet.
JobOnly == UNCHANGED <<contact, route, session, file, sent, barred, changes>>

ResolveRoute(m) ==
  LET n == job[m].number IN
  /\ job[m].at = "queued"
  /\ \/ /\ ActiveRoute(n)
        /\ job' = [job EXCEPT ![m].at = "routed",
                              ![m].tenant = route[n].tenant,
                              ![m].before = {k \in Messages : file[k] # None}]
     \/ ~ActiveRoute(n) /\ Ignores(m)
  /\ JobOnly

MutMayWrite(p, t) == contact[p] # None /\ contact[p].tenant = t

\* The contact that resolve_contact accepts.
MayWrite(p, t) ==
  contact[p] # None /\ contact[p].tenant = t /\ contact[p].status = "active"

ResolveContact(m) ==
  /\ job[m].at = "routed"
  /\ \/ MayWrite(job[m].phone, job[m].tenant) /\ job' = [job EXCEPT ![m].at = "resolved"]
     \/ ~MayWrite(job[m].phone, job[m].tenant) /\ Ignores(m)
  /\ JobOnly

OpenOf(p) == {s \in Messages : session[s] # None /\ session[s].phone = p /\ session[s].open}

\* get_or_create_session: the open session, or an INSERT of one.
FindSession(m) ==
  LET open == OpenOf(job[m].phone) IN
  /\ job[m].at = "resolved"
  /\ \E s \in IF open = {} THEN {m} ELSE open :
       job' = [job EXCEPT ![m].at = "opening", ![m].session = s]
  /\ JobOnly

MutLastSeq(s) == 0

\* SELECT COALESCE(MAX(received_seq), 0) of the session's files.
LastSeq(s) ==
  Max({0} \cup {file[k].seq : k \in {k \in Messages : file[k] # None /\ file[k].session = s}})

\* SELECT ... WHERE r.tenant_id = the contact's AND r.active.
RoutesFor(p) ==
  {n \in Numbers : ActiveRoute(n) /\ contact[p] # None /\ route[n].tenant = contact[p].tenant}

\* LIMIT 1: the journey of any of them, which may have none.
Journeys(p) ==
  IF RoutesFor(p) = {} THEN {None}
    ELSE {IF route[n].journey THEN n ELSE None : n \in RoutesFor(p)}

Read(m) ==
  /\ job[m].at = "opening"
  /\ \E j \in Journeys(job[m].phone) :
       job' = [job EXCEPT ![m].at = "read", ![m].journey = j,
                          ![m].seq = LastSeq(job[m].session) + 1]
  /\ JobOnly

\* The unique index on the open sessions of a contact refuses the second of
\* two that were inserted at once: its row is marked 'failed'.
Commit(m) ==
  LET s == job[m].session
      p == job[m].phone
  IN
  /\ job[m].at = "read"
  /\ \/ /\ session[s] = None /\ OpenOf(p) # {}
        /\ job' = [job EXCEPT ![m].at = "failed"]
        /\ UNCHANGED <<session, file>>
     \/ /\ session[s] # None \/ OpenOf(p) = {}
        /\ job' = [job EXCEPT ![m].at = "done"]
        /\ session' = [session EXCEPT ![s] =
             IF @ = None THEN [phone |-> p, tenant |-> job[m].tenant, open |-> TRUE] ELSE @]
        /\ file' = [file EXCEPT ![m] =
             [session |-> s, seq |-> job[m].seq, journey |-> job[m].journey]]
  /\ UNCHANGED <<contact, route, sent, barred, changes>>

-----------------------------------------------------------------------------
(* What follows: the session's work ends, a fetch job that was given no    *)
(* journey looks for one, and send_outbox for a number to reply on.        *)

CloseSession(s) ==
  /\ session[s] # None /\ session[s].open
  /\ session' = [session EXCEPT ![s].open = FALSE]
  /\ UNCHANGED <<contact, route, job, file, sent, barred, changes>>

LookUpJourney(m) ==
  /\ file[m] # None /\ file[m].journey = None
  /\ \E j \in Journeys(session[file[m].session].phone) :
       file' = [file EXCEPT ![m].journey = j]
  /\ UNCHANGED <<contact, route, job, session, sent, barred, changes>>

Reply(s) ==
  /\ session[s] # None
  /\ \E n \in RoutesFor(session[s].phone) : sent' = sent \cup {<<s, n>>}
  /\ UNCHANGED <<contact, route, job, session, file, barred, changes>>

-----------------------------------------------------------------------------

Manage ==
  \E t \in Tenants :
    \/ \E p \in Phones, s \in Statuses : PutContact(t, p, s) \/ PatchContact(t, p, s)
    \/ \E n \in Numbers : PatchRoute(t, n) \/ \E j \in BOOLEAN : CreateRoute(t, n, j)

Process(m) ==
  \/ Receive(m) \/ ResolveRoute(m) \/ ResolveContact(m)
  \/ FindSession(m) \/ Read(m) \/ Commit(m)

Next ==
  \/ Manage
  \/ \E m \in Messages : Process(m) \/ CloseSession(m) \/ LookUpJourney(m) \/ Reply(m)

Spec == Init /\ [][Next]_vars

-----------------------------------------------------------------------------

\* A session and all that is done in it stay in one tenant, whatever is bound,
\* re-bound and switched meanwhile: its contact's, that of the number each of
\* its messages was sent to, of the journey of each file and of each reply.
TenantsStayApart ==
  /\ \A s \in Messages : session[s] # None =>
       contact[session[s].phone].tenant = session[s].tenant
  /\ \A m \in Messages : file[m] # None =>
       LET t == session[file[m].session].tenant
       IN  /\ route[job[m].number].tenant = t
           /\ file[m].journey # None => route[file[m].journey].tenant = t
  /\ \A r \in sent : route[r[2]].tenant = session[r[1]].tenant

\* authentication.md: suspending a contact blocks its next message, switching
\* a route off all messages to that number: a message that came in while its
\* contact or its route was inactive is not worked on unless that changes.
BarredMessagesAreIgnored ==
  \A b \in barred : file[b[1]] = None /\ session[b[1]] = None

\* Files of one session whose messages were not worked on at the same time
\* are numbered in the order of that work.
LaterFilesAreNumberedHigher ==
  \A m, k \in Messages :
    (file[m] # None /\ k \in job[m].before /\ file[k].session = file[m].session)
      => file[k].seq < file[m].seq

-----------------------------------------------------------------------------
\* Migration 002: the intake journey is that of the tenant's outlet, to which
\* every upload goes: a file's journey is that of the number it came in on.
JourneyIsOfTheNumber ==
  \A m \in Messages :
    file[m] # None => file[m].journey \in {None, job[m].number}

=============================================================================
