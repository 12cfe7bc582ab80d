--------------------------- MODULE FileLifecycle ---------------------------
(***************************************************************************)
(* What the fetching of evidence promises of wa.file, whatever jobs of one *)
(* file do to each other: the states that a job may write, where in its    *)
(* life it writes them, and how often it starts anew.  CaptureSession and  *)
(* EvidenceFile both model fetch_and_store_file, the first coarsely amid   *)
(* the other jobs, the second in full; both implement this.                *)
(***************************************************************************)
EXTENDS Naturals

CONSTANTS Files, Jobs, FileOf, Retries

VARIABLES
  state,  \* f |-> wa.file.state
  at,     \* j |-> where the fetch job stands
  tries   \* j |-> how often it was run again

\* A job is there from the start, or deferred later.
Init ==
  /\ state = [f \in Files |-> "absent"]
  /\ at \in [Jobs -> {"none", "queued"}]
  /\ tries = [j \in Jobs |-> 0]

Register(f) ==
  /\ state[f] = "absent"
  /\ state' = [state EXCEPT ![f] = "pending"]
  /\ UNCHANGED <<at, tries>>

Goes(j, to) == at' = [at EXCEPT ![j] = to] /\ UNCHANGED tries

Writes(j, st) == state' = [state EXCEPT ![FileOf[j]] = st]

\* After an exception: queued again while retries are left.
RunsAgain(j) ==
  IF tries[j] < Retries
    THEN /\ at' = [at EXCEPT ![j] = "queued"]
         /\ tries' = [tries EXCEPT ![j] = @ + 1]
    ELSE Goes(j, "over")

Defer(j) == at[j] = "none" /\ Goes(j, "queued") /\ UNCHANGED state

FindsNoRow(j) ==
  /\ at[j] = "queued"
  /\ state[FileOf[j]] = "absent"
  /\ Goes(j, "over")
  /\ UNCHANGED state

\* Only a registered file is fetched, from the start of a run.
Begin(j) ==
  /\ at[j] = "queued"
  /\ state[FileOf[j]] # "absent"
  /\ \/ Goes(j, "downloading") /\ Writes(j, "downloading")
     \/ Goes(j, "over") /\ Writes(j, "failed")

\* Content with the declared hash goes on to be stored.
Download(j) == at[j] = "downloading" /\ Goes(j, "storing") /\ Writes(j, "storing")

\* The only way to 'quarantined', and the only failure that is run again.
Reject(j) ==
  /\ at[j] = "downloading"
  /\ RunsAgain(j)
  /\ \E st \in {"failed", "quarantined"} : Writes(j, st)

GiveUp(j) ==
  /\ at[j] \in {"downloading", "storing"}
  /\ Goes(j, "over")
  /\ Writes(j, "failed")

\* The only way to 'stored'.
Store(j) == at[j] = "storing" /\ Goes(j, "stored") /\ Writes(j, "stored")

DeferPoll(j) == at[j] = "stored" /\ Goes(j, "over") /\ UNCHANGED state

\* An exception that no handler records.
Break(j) == at[j] \notin {"none", "over"} /\ RunsAgain(j) /\ UNCHANGED state

Die(j) == at[j] # "none" /\ Goes(j, "over") /\ UNCHANGED state

Next ==
  \/ \E f \in Files : Register(f)
  \/ \E j \in Jobs :
       \/ Defer(j) \/ FindsNoRow(j) \/ Begin(j) \/ Download(j) \/ Reject(j)
       \/ GiveUp(j) \/ Store(j) \/ DeferPoll(j) \/ Break(j) \/ Die(j)

Spec == Init /\ [][Next]_<<state, at, tries>>

=============================================================================
