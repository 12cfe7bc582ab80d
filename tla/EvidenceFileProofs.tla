-------------------------- MODULE EvidenceFileProofs --------------------------
(***************************************************************************)
(* What EvidenceFile guarantees for any number of files, of jobs per file  *)
(* and of mishaps.  The ceiling is an argument about counting: every run   *)
(* that asked Meta is in the row's attempts, in 'unrecorded', or in a job  *)
(* that is not queued; and a run that still asks Meta has not used up the  *)
(* two errors it may cost.                                                 *)
(***************************************************************************)
EXTENDS EvidenceFile, FiniteSetTheorems, TLAPS

\* The jobs of a file that have begun a run, that ask Meta in it, and that
\* have not asked for a second URL yet.
Begun(f) == {j \in JobsOf(f) : job[j].at # "queued"}
Asking(f) == {j \in JobsOf(f) : job[j].at \in AtMeta}
AskingFirst(f) == {j \in JobsOf(f) : job[j].at \in {"resolving", "downloading"}}

RunsAreCounted ==
  \A f \in Files :
    asked[f] <= file[f].attempts + unrecorded[f] + Cardinality(Begun(f))

ErrorsAreCounted ==
  \A f \in Files :
    failures[f] + Cardinality(Asking(f)) + Cardinality(AskingFirst(f)) <= 2 * asked[f]

AskedIsBounded ==
  \A f \in Files :
    asked[f] <= Ceiling - 1 + Cardinality(JobsOf(f)) + unrecorded[f]

UploadsAreKnown ==
  \A j \in Jobs : job[j].at \in {"uploaded", "stored"} => FileOf[j] \in uploaded

IInv ==
  /\ TypeOK
  /\ StoredIsUploaded
  /\ UploadsAreKnown
  /\ RunsAreCounted
  /\ ErrorsAreCounted
  /\ AskedIsBounded

\* The sets that are counted are finite.
LEMMA CountsAreNat ==
  ASSUME NEW f
  PROVE  /\ IsFiniteSet(JobsOf(f)) /\ Cardinality(JobsOf(f)) \in Nat
         /\ IsFiniteSet(Begun(f)) /\ Cardinality(Begun(f)) \in Nat
         /\ IsFiniteSet(Asking(f)) /\ Cardinality(Asking(f)) \in Nat
         /\ IsFiniteSet(AskingFirst(f)) /\ Cardinality(AskingFirst(f)) \in Nat
<1>1. JobsOf(f) \in SUBSET Jobs /\ Begun(f) \in SUBSET Jobs
      /\ Asking(f) \in SUBSET Jobs /\ AskingFirst(f) \in SUBSET Jobs
  BY DEF JobsOf, Begun, Asking, AskingFirst
<1> QED BY <1>1, EvidenceAssumption, FS_Subset, FS_CardinalityType

\* How a count changes when one element enters or leaves.
LEMMA OneMoves ==
  ASSUME NEW S, NEW T, NEW j, IsFiniteSet(S), IsFiniteSet(T), S \ {j} = T \ {j}
  PROVE  Cardinality(T) + (IF j \in S THEN 1 ELSE 0)
           = Cardinality(S) + (IF j \in T THEN 1 ELSE 0)
<1>1. /\ Cardinality(S \ {j}) = IF j \in S THEN Cardinality(S) - 1 ELSE Cardinality(S)
      /\ Cardinality(T \ {j}) = IF j \in T THEN Cardinality(T) - 1 ELSE Cardinality(T)
  BY FS_RemoveElement
<1>2. Cardinality(S) \in Nat /\ Cardinality(T) \in Nat
  BY FS_CardinalityType
<1> QED BY <1>1, <1>2

\* A step of one job moves that job only.
LEMMA JobMoves ==
  ASSUME NEW j \in Jobs, NEW f \in Files,
         \A i \in Jobs \ {j} : job'[i] = job[i]
  PROVE  /\ Cardinality(Begun(f)') \in Nat
         /\ Cardinality(Begun(f)') + (IF j \in Begun(f) THEN 1 ELSE 0)
              = Cardinality(Begun(f)) + (IF j \in Begun(f)' THEN 1 ELSE 0)
         /\ Cardinality(Asking(f)') \in Nat
         /\ Cardinality(Asking(f)') + (IF j \in Asking(f) THEN 1 ELSE 0)
              = Cardinality(Asking(f)) + (IF j \in Asking(f)' THEN 1 ELSE 0)
         /\ Cardinality(AskingFirst(f)') \in Nat
         /\ Cardinality(AskingFirst(f)') + (IF j \in AskingFirst(f) THEN 1 ELSE 0)
              = Cardinality(AskingFirst(f)) + (IF j \in AskingFirst(f)' THEN 1 ELSE 0)
<1>1. /\ Begun(f) \ {j} = Begun(f)' \ {j}
      /\ Asking(f) \ {j} = Asking(f)' \ {j}
      /\ AskingFirst(f) \ {j} = AskingFirst(f)' \ {j}
  BY DEF Begun, Asking, AskingFirst, JobsOf
<1>2. Begun(f)' \in SUBSET Jobs /\ Asking(f)' \in SUBSET Jobs /\ AskingFirst(f)' \in SUBSET Jobs
  BY DEF JobsOf, Begun, Asking, AskingFirst
<1>3. /\ IsFiniteSet(Begun(f)') /\ IsFiniteSet(Asking(f)') /\ IsFiniteSet(AskingFirst(f)')
  BY <1>2, EvidenceAssumption, FS_Subset
<1>4. /\ Cardinality(Begun(f)') \in Nat
      /\ Cardinality(Asking(f)') \in Nat /\ Cardinality(AskingFirst(f)') \in Nat
  BY <1>3, FS_CardinalityType
<1>5. IsFiniteSet(Begun(f)) /\ IsFiniteSet(Asking(f)) /\ IsFiniteSet(AskingFirst(f))
  BY CountsAreNat
<1> QED BY <1>1, <1>3, <1>4, <1>5, OneMoves

\* The invariant holds at the start.
LEMMA InitIInv == Init => IInv
<1> SUFFICES ASSUME Init PROVE IInv
  OBVIOUS
<1> USE EvidenceAssumption DEF Init
<1>1. TypeOK BY DEF TypeOK, FileStates, Running, AtMeta, MediaErrors, AtRest
<1>2. StoredIsUploaded /\ UploadsAreKnown BY DEF StoredIsUploaded, UploadsAreKnown
<1>3. ASSUME NEW f \in Files
      PROVE  Begun(f) = {} /\ Asking(f) = {} /\ AskingFirst(f) = {}
  BY DEF Begun, Asking, AskingFirst, JobsOf, AtMeta
<1>4. ASSUME NEW f \in Files
      PROVE  /\ Cardinality(Begun(f)) = 0
             /\ Cardinality(Asking(f)) = 0 /\ Cardinality(AskingFirst(f)) = 0
  <2>1. Cardinality({}) = 0 BY FS_EmptySet
  <2> QED BY <1>3, <2>1
<1>5. RunsAreCounted
  BY <1>4 DEF RunsAreCounted
<1>6. ErrorsAreCounted
  BY <1>4 DEF ErrorsAreCounted
<1>7. AskedIsBounded BY CountsAreNat DEF AskedIsBounded
<1> QED BY <1>1, <1>2, <1>5, <1>6, <1>7 DEF IInv

-----------------------------------------------------------------------------

\* What one job at a place counts for: a run that has begun, and the errors
\* that the run may still get from Meta.
Begun1(at) == IF at = "queued" THEN 0 ELSE 1
MayErr(at) == IF at \in {"resolving", "downloading"} THEN 2
              ELSE IF at \in AtMeta THEN 1 ELSE 0

\* What every step of a job is to be checked for: it moves one job, counts
\* for the file of that job only, and keeps the two balances.
Balanced(j) ==
  LET f == FileOf[j] IN
  /\ \A i \in Jobs \ {j} : job'[i] = job[i]
  /\ \A g \in Files \ {f} : /\ file'[g].attempts = file[g].attempts
                            /\ asked'[g] = asked[g]
                            /\ unrecorded'[g] = unrecorded[g]
                            /\ failures'[g] = failures[g]
  /\ asked'[f] + file[f].attempts + unrecorded[f] + Begun1(job[j].at)
       <= asked[f] + file'[f].attempts + unrecorded'[f] + Begun1(job'[j].at)
  /\ failures'[f] + MayErr(job'[j].at) + 2 * asked[f]
       <= failures[f] + MayErr(job[j].at) + 2 * asked'[f]
  /\ \/ asked'[f] = asked[f] /\ unrecorded'[f] >= unrecorded[f]
     \/ /\ job[j].at = "queued" /\ file[f].attempts < Ceiling
        /\ asked'[f] = asked[f] + 1 /\ unrecorded'[f] = unrecorded[f]

\* A step that keeps the balances keeps the three counting invariants.
LEMMA BalanceKeepsCounts ==
  ASSUME TypeOK, TypeOK', RunsAreCounted, ErrorsAreCounted, AskedIsBounded,
         NEW j \in Jobs, Balanced(j)
  PROVE  RunsAreCounted' /\ ErrorsAreCounted' /\ AskedIsBounded'
<1> DEFINE f == FileOf[j]
<1>0. f \in Files
  BY EvidenceAssumption
<1>1. ASSUME NEW g \in Files, g # f
      PROVE  /\ Cardinality(Begun(g)') = Cardinality(Begun(g))
             /\ Cardinality(Asking(g)') = Cardinality(Asking(g))
             /\ Cardinality(AskingFirst(g)') = Cardinality(AskingFirst(g))
  <2>1. /\ Begun(g)' = Begun(g) /\ Asking(g)' = Asking(g)
        /\ AskingFirst(g)' = AskingFirst(g)
    BY <1>1 DEF Begun, Asking, AskingFirst, JobsOf, Balanced
  <2> QED BY <2>1
<1>2. /\ Cardinality(Begun(f)') \in Nat /\ Cardinality(Asking(f)') \in Nat
      /\ Cardinality(AskingFirst(f)') \in Nat
      /\ Cardinality(Begun(f)') + Begun1(job[j].at)
           = Cardinality(Begun(f)) + Begun1(job'[j].at)
      /\ Cardinality(Asking(f)') + Cardinality(AskingFirst(f)') + MayErr(job[j].at)
           = Cardinality(Asking(f)) + Cardinality(AskingFirst(f)) + MayErr(job'[j].at)
  <2>1. /\ j \in Begun(f) <=> job[j].at # "queued"
        /\ j \in Begun(f)' <=> job'[j].at # "queued"
        /\ j \in Asking(f) <=> job[j].at \in AtMeta
        /\ j \in Asking(f)' <=> job'[j].at \in AtMeta
        /\ j \in AskingFirst(f) <=> job[j].at \in {"resolving", "downloading"}
        /\ j \in AskingFirst(f)' <=> job'[j].at \in {"resolving", "downloading"}
    BY DEF Begun, Asking, AskingFirst, JobsOf
  <2>2. \A i \in Jobs \ {j} : job'[i] = job[i]
    BY DEF Balanced
  <2>3. /\ Cardinality(Begun(f)') \in Nat
        /\ Cardinality(Begun(f)') + (IF j \in Begun(f) THEN 1 ELSE 0)
             = Cardinality(Begun(f)) + (IF j \in Begun(f)' THEN 1 ELSE 0)
        /\ Cardinality(Asking(f)') \in Nat
        /\ Cardinality(Asking(f)') + (IF j \in Asking(f) THEN 1 ELSE 0)
             = Cardinality(Asking(f)) + (IF j \in Asking(f)' THEN 1 ELSE 0)
        /\ Cardinality(AskingFirst(f)') \in Nat
        /\ Cardinality(AskingFirst(f)') + (IF j \in AskingFirst(f) THEN 1 ELSE 0)
             = Cardinality(AskingFirst(f)) + (IF j \in AskingFirst(f)' THEN 1 ELSE 0)
    BY <1>0, <2>2, JobMoves
  <2>4. /\ Cardinality(Begun(f)) \in Nat /\ Cardinality(Asking(f)) \in Nat
        /\ Cardinality(AskingFirst(f)) \in Nat
    BY CountsAreNat
  <2>5. Cardinality(Begun(f)') + Begun1(job[j].at)
          = Cardinality(Begun(f)) + Begun1(job'[j].at)
    BY <2>1, <2>3, <2>4 DEF Begun1
  <2>6. Cardinality(Asking(f)') + Cardinality(AskingFirst(f)') + MayErr(job[j].at)
          = Cardinality(Asking(f)) + Cardinality(AskingFirst(f)) + MayErr(job'[j].at)
    <3>1. /\ MayErr(job[j].at) = (IF j \in Asking(f) THEN 1 ELSE 0)
                                   + (IF j \in AskingFirst(f) THEN 1 ELSE 0)
          /\ MayErr(job'[j].at) = (IF j \in Asking(f)' THEN 1 ELSE 0)
                                   + (IF j \in AskingFirst(f)' THEN 1 ELSE 0)
      BY <2>1 DEF MayErr, AtMeta
    <3> QED BY <2>3, <2>4, <3>1
  <2> QED BY <2>3, <2>5, <2>6
<1>3. /\ Begun1(job[j].at) \in Nat /\ Begun1(job'[j].at) \in Nat
      /\ MayErr(job[j].at) \in Nat /\ MayErr(job'[j].at) \in Nat
  BY DEF Begun1, MayErr
<1>4. ASSUME NEW g \in Files
      PROVE  /\ file[g].attempts \in Nat /\ file'[g].attempts \in Nat
             /\ asked[g] \in Nat /\ asked'[g] \in Nat
             /\ unrecorded[g] \in Nat /\ unrecorded'[g] \in Nat
             /\ failures[g] \in Nat /\ failures'[g] \in Nat
  BY DEF TypeOK
<1>5. ASSUME NEW g \in Files
      PROVE  asked'[g] <= file'[g].attempts + unrecorded'[g] + Cardinality(Begun(g)')
  <2>0. asked[g] <= file[g].attempts + unrecorded[g] + Cardinality(Begun(g))
    BY DEF RunsAreCounted
  <2>1. CASE g # f
    BY <1>1, <2>0, <2>1 DEF Balanced
  <2>2. CASE g = f
    <3>1. asked'[f] + file[f].attempts + unrecorded[f] + Begun1(job[j].at)
            <= asked[f] + file'[f].attempts + unrecorded'[f] + Begun1(job'[j].at)
      BY DEF Balanced
    <3> HIDE DEF f
    <3> QED BY <1>0, <1>2, <1>3, <1>4, <2>0, <2>2, <3>1, CountsAreNat
  <2> QED BY <2>1, <2>2
<1>6. ASSUME NEW g \in Files
      PROVE  failures'[g] + Cardinality(Asking(g)') + Cardinality(AskingFirst(g)')
               <= 2 * asked'[g]
  <2>0. failures[g] + Cardinality(Asking(g)) + Cardinality(AskingFirst(g)) <= 2 * asked[g]
    BY DEF ErrorsAreCounted
  <2>1. CASE g # f
    BY <1>1, <2>0, <2>1 DEF Balanced
  <2>2. CASE g = f
    <3>1. failures'[f] + MayErr(job'[j].at) + 2 * asked[f]
            <= failures[f] + MayErr(job[j].at) + 2 * asked'[f]
      BY DEF Balanced
    <3> HIDE DEF f
    <3> QED BY <1>0, <1>2, <1>3, <1>4, <2>0, <2>2, <3>1, CountsAreNat
  <2> QED BY <2>1, <2>2
<1>7. ASSUME NEW g \in Files
      PROVE  asked'[g] <= Ceiling - 1 + Cardinality(JobsOf(g)) + unrecorded'[g]
  <2>0. /\ asked[g] <= Ceiling - 1 + Cardinality(JobsOf(g)) + unrecorded[g]
        /\ Cardinality(JobsOf(g)) \in Nat
    BY CountsAreNat DEF AskedIsBounded
  <2>1. CASE g # f
    BY <2>0, <2>1 DEF Balanced
  <2>2. CASE g = f /\ asked'[f] = asked[f] /\ unrecorded'[f] >= unrecorded[f]
    <3> HIDE DEF f
    <3> QED BY <1>0, <1>4, <2>0, <2>2, EvidenceAssumption
  <2>3. CASE /\ g = f /\ job[j].at = "queued" /\ file[f].attempts < Ceiling
             /\ asked'[f] = asked[f] + 1 /\ unrecorded'[f] = unrecorded[f]
    <3>1. Begun(f) \subseteq JobsOf(f) \ {j} /\ j \in JobsOf(f)
      BY <2>3 DEF Begun, JobsOf
    <3>2. IsFiniteSet(JobsOf(f) \ {j})
          /\ Cardinality(JobsOf(f) \ {j}) = Cardinality(JobsOf(f)) - 1
      BY <3>1, CountsAreNat, FS_RemoveElement
    <3>3. Cardinality(Begun(f)) <= Cardinality(JobsOf(f)) - 1
      BY <3>1, <3>2, FS_Subset
    <3>4. asked[f] <= file[f].attempts + unrecorded[f] + Cardinality(Begun(f))
      BY <1>0 DEF RunsAreCounted
    <3> HIDE DEF f
    <3> QED BY <1>0, <1>4, <2>0, <2>3, <3>3, <3>4, CountsAreNat, EvidenceAssumption
  <2> QED BY <2>1, <2>2, <2>3 DEF Balanced
<1>8. RunsAreCounted' BY <1>5 DEF RunsAreCounted
<1>9. ErrorsAreCounted' BY <1>6 DEF ErrorsAreCounted
<1>10. AskedIsBounded' BY <1>7 DEF AskedIsBounded, JobsOf
<1> QED BY <1>8, <1>9, <1>10

-----------------------------------------------------------------------------

JobNext(j) == JobStep(j) \/ Breaks(j) \/ Dies(j)

\* Every step of a job is well typed.
LEMMA JobStepTyped ==
  ASSUME TypeOK, NEW j \in Jobs, JobNext(j)
  PROVE  TypeOK'
<1> USE EvidenceAssumption DEF TypeOK, FileStates, Running, AtMeta, MediaErrors, AtRest,
        Moves, Writes, Again
<1>0. FileOf[j] \in Files
  OBVIOUS
<1>1. CASE NoJourney(j)
  <2>1. CASE file[FileOf[j]].state = "absent"
    BY <1>0, <1>1, <2>1 DEF NoJourney
  <2>2. CASE file[FileOf[j]].state # "absent"
    <3>1. file' = [file EXCEPT ![FileOf[j]].state = "failed"]
          /\ job' = [job EXCEPT ![j].at = "ended"]
      BY <1>1, <2>2 DEF NoJourney
    <3> QED BY <1>0, <1>1, <2>2, <3>1 DEF NoJourney
  <2> QED BY <2>1, <2>2
<1>2. CASE FindsNoRow(j)
  BY <1>0, <1>2 DEF FindsNoRow
<1>3. CASE Begins(j)
  BY <1>0, <1>3 DEF Begins, AtLimit
<1>4. CASE Resolves(j)
  BY <1>0, <1>4 DEF Resolves, AtResolve
<1>5. CASE MetaErrs(j)
  BY <1>0, <1>5 DEF MetaErrs
<1>6. CASE UrlExpired(j)
  BY <1>0, <1>6 DEF UrlExpired, Reresolves
<1>7. CASE NoContent(j)
  BY <1>0, <1>7 DEF NoContent
<1>8. CASE ResolveBreaks(j)
  BY <1>0, <1>8 DEF ResolveBreaks, AtResolve
<1>9. CASE Downloads(j)
  BY <1>0, <1>9 DEF Downloads, AtDownload
<1>10. CASE RecordMediaError(j)
  <2> DEFINE e == job[j].at
  <2>1. PICK at \in {"queued", "ended"}, r \in 0..Retries :
          job' = [job EXCEPT ![j].at = at, ![j].retries = r]
    <3>1. CASE e = "retryable" \/ ~(job[j].retries < Retries)
      <4>1. job' = [job EXCEPT ![j].at = "ended"]
        BY <1>10, <3>1 DEF RecordMediaError
      <4>2. job' = [job EXCEPT ![j].at = "ended", ![j].retries = job[j].retries]
        BY <4>1
      <4> QED BY <4>2
    <3>2. CASE e # "retryable" /\ job[j].retries < Retries
      <4>1. job' = [job EXCEPT ![j].at = "queued", ![j].retries = job[j].retries + 1]
        BY <1>10, <3>2 DEF RecordMediaError
      <4>2. job[j].retries + 1 \in 0..Retries
        BY <3>2
      <4> QED BY <4>1, <4>2
    <3> QED BY <3>1, <3>2
  <2>2. PICK s \in {"quarantined", "failed"} :
          file' = [file EXCEPT ![FileOf[j]] =
                     [state |-> s, attempts |-> file[FileOf[j]].attempts + 1]]
    BY <1>10 DEF RecordMediaError, Recorded
  <2> QED BY <1>0, <1>10, <2>1, <2>2 DEF RecordMediaError, MediaErrors
<1>11. CASE BeginsStoring(j)
  BY <1>0, <1>11 DEF BeginsStoring
<1>12. CASE Uploads(j)
  BY <1>0, <1>12 DEF Uploads
<1>13. CASE UploadFails(j)
  BY <1>0, <1>13 DEF UploadFails
<1>14. CASE RecordRefusal(j)
  BY <1>0, <1>14 DEF RecordRefusal, AfterRefusal
<1>15. CASE RecordStored(j)
  BY <1>0, <1>15 DEF RecordStored
<1>16. CASE DefersPoll(j)
  BY <1>0, <1>16 DEF DefersPoll
<1>17. CASE Breaks(j)
  BY <1>0, <1>17 DEF Breaks, Mishap
<1>18. CASE Dies(j)
  BY <1>0, <1>18 DEF Dies, Mishap
<1> QED
  BY <1>1, <1>2, <1>3, <1>4, <1>5, <1>6, <1>7, <1>8, <1>9, <1>10, <1>11, <1>12,
     <1>13, <1>14, <1>15, <1>16, <1>17, <1>18
  DEF JobNext, JobStep

\* Every step of a job leaves the uploads known.
LEMMA JobStepUploads ==
  ASSUME TypeOK, NEW j \in Jobs, JobNext(j), StoredIsUploaded, UploadsAreKnown
  PROVE  StoredIsUploaded' /\ UploadsAreKnown'
<1> USE EvidenceAssumption DEF TypeOK, StoredIsUploaded, UploadsAreKnown, Moves, Writes, Again
<1>0. FileOf[j] \in Files
  OBVIOUS
<1>1. CASE NoJourney(j)
  <2>1. CASE file[FileOf[j]].state = "absent"
    BY <1>0, <1>1, <2>1 DEF NoJourney
  <2>2. CASE file[FileOf[j]].state # "absent"
    <3>1. file' = [file EXCEPT ![FileOf[j]].state = "failed"]
          /\ job' = [job EXCEPT ![j].at = "ended"]
      BY <1>1, <2>2 DEF NoJourney
    <3> QED BY <1>0, <1>1, <2>2, <3>1 DEF NoJourney
  <2> QED BY <2>1, <2>2
<1>2. CASE FindsNoRow(j)
  BY <1>0, <1>2 DEF FindsNoRow
<1>3. CASE Begins(j)
  BY <1>0, <1>3 DEF Begins, AtLimit
<1>4. CASE Resolves(j)
  BY <1>0, <1>4 DEF Resolves, AtResolve
<1>5. CASE MetaErrs(j)
  BY <1>0, <1>5 DEF MetaErrs, AtMeta
<1>6. CASE UrlExpired(j)
  BY <1>0, <1>6 DEF UrlExpired, Reresolves
<1>7. CASE NoContent(j)
  BY <1>0, <1>7 DEF NoContent, AtMeta
<1>8. CASE ResolveBreaks(j)
  BY <1>0, <1>8 DEF ResolveBreaks, AtResolve
<1>9. CASE Downloads(j)
  BY <1>0, <1>9 DEF Downloads, AtDownload
<1>10. CASE RecordMediaError(j)
  <2> DEFINE e == job[j].at
  <2>1. PICK at \in {"queued", "ended"}, r \in 0..Retries :
          job' = [job EXCEPT ![j].at = at, ![j].retries = r]
    <3>1. CASE e = "retryable" \/ ~(job[j].retries < Retries)
      <4>1. job' = [job EXCEPT ![j].at = "ended"]
        BY <1>10, <3>1 DEF RecordMediaError
      <4>2. job' = [job EXCEPT ![j].at = "ended", ![j].retries = job[j].retries]
        BY <4>1
      <4> QED BY <4>2
    <3>2. CASE e # "retryable" /\ job[j].retries < Retries
      <4>1. job' = [job EXCEPT ![j].at = "queued", ![j].retries = job[j].retries + 1]
        BY <1>10, <3>2 DEF RecordMediaError
      <4>2. job[j].retries + 1 \in 0..Retries
        BY <3>2
      <4> QED BY <4>1, <4>2
    <3> QED BY <3>1, <3>2
  <2>2. PICK s \in {"quarantined", "failed"} :
          file' = [file EXCEPT ![FileOf[j]] =
                     [state |-> s, attempts |-> file[FileOf[j]].attempts + 1]]
    BY <1>10 DEF RecordMediaError, Recorded
  <2> QED BY <1>0, <1>10, <2>1, <2>2 DEF RecordMediaError, MediaErrors
<1>11. CASE BeginsStoring(j)
  BY <1>0, <1>11 DEF BeginsStoring
<1>12. CASE Uploads(j)
  BY <1>0, <1>12 DEF Uploads
<1>13. CASE UploadFails(j)
  BY <1>0, <1>13 DEF UploadFails
<1>14. CASE RecordRefusal(j)
  BY <1>0, <1>14 DEF RecordRefusal, AfterRefusal
<1>15. CASE RecordStored(j)
  BY <1>0, <1>15 DEF RecordStored
<1>16. CASE DefersPoll(j)
  BY <1>0, <1>16 DEF DefersPoll
<1>17. CASE Breaks(j)
  BY <1>0, <1>17 DEF Breaks, Mishap
<1>18. CASE Dies(j)
  BY <1>0, <1>18 DEF Dies, Mishap
<1> QED
  BY <1>1, <1>2, <1>3, <1>4, <1>5, <1>6, <1>7, <1>8, <1>9, <1>10, <1>11, <1>12,
     <1>13, <1>14, <1>15, <1>16, <1>17, <1>18
  DEF JobNext, JobStep

\* Every step of a job keeps the balances.
LEMMA JobStepBalanced ==
  ASSUME TypeOK, NEW j \in Jobs, JobNext(j)
  PROVE  Balanced(j)
<1> USE EvidenceAssumption DEF TypeOK, Balanced, Begun1, MayErr, AtMeta, Moves, Writes, Again
<1>0. FileOf[j] \in Files
  OBVIOUS
<1>1. CASE NoJourney(j)
  <2>1. CASE file[FileOf[j]].state = "absent"
    BY <1>0, <1>1, <2>1 DEF NoJourney
  <2>2. CASE file[FileOf[j]].state # "absent"
    <3>1. file' = [file EXCEPT ![FileOf[j]].state = "failed"]
          /\ job' = [job EXCEPT ![j].at = "ended"]
      BY <1>1, <2>2 DEF NoJourney
    <3> QED BY <1>0, <1>1, <2>2, <3>1 DEF NoJourney
  <2> QED BY <2>1, <2>2
<1>2. CASE FindsNoRow(j)
  BY <1>0, <1>2 DEF FindsNoRow
<1>3. CASE Begins(j)
  BY <1>0, <1>3 DEF Begins, AtLimit
<1>4. CASE Resolves(j)
  BY <1>0, <1>4 DEF Resolves, AtResolve
<1>5. CASE MetaErrs(j)
  BY <1>0, <1>5 DEF MetaErrs
<1>6. CASE UrlExpired(j)
  BY <1>0, <1>6 DEF UrlExpired, Reresolves
<1>7. CASE NoContent(j)
  BY <1>0, <1>7 DEF NoContent
<1>8. CASE ResolveBreaks(j)
  BY <1>0, <1>8 DEF ResolveBreaks, AtResolve
<1>9. CASE Downloads(j)
  BY <1>0, <1>9 DEF Downloads, AtDownload
<1>10. CASE RecordMediaError(j)
  <2> DEFINE e == job[j].at
  <2>1. PICK at \in {"queued", "ended"}, r \in 0..Retries :
          job' = [job EXCEPT ![j].at = at, ![j].retries = r]
    <3>1. CASE e = "retryable" \/ ~(job[j].retries < Retries)
      <4>1. job' = [job EXCEPT ![j].at = "ended"]
        BY <1>10, <3>1 DEF RecordMediaError
      <4>2. job' = [job EXCEPT ![j].at = "ended", ![j].retries = job[j].retries]
        BY <4>1
      <4> QED BY <4>2
    <3>2. CASE e # "retryable" /\ job[j].retries < Retries
      <4>1. job' = [job EXCEPT ![j].at = "queued", ![j].retries = job[j].retries + 1]
        BY <1>10, <3>2 DEF RecordMediaError
      <4>2. job[j].retries + 1 \in 0..Retries
        BY <3>2
      <4> QED BY <4>1, <4>2
    <3> QED BY <3>1, <3>2
  <2>2. PICK s \in {"quarantined", "failed"} :
          file' = [file EXCEPT ![FileOf[j]] =
                     [state |-> s, attempts |-> file[FileOf[j]].attempts + 1]]
    BY <1>10 DEF RecordMediaError, Recorded
  <2> QED BY <1>0, <1>10, <2>1, <2>2 DEF RecordMediaError, MediaErrors
<1>11. CASE BeginsStoring(j)
  BY <1>0, <1>11 DEF BeginsStoring
<1>12. CASE Uploads(j)
  BY <1>0, <1>12 DEF Uploads
<1>13. CASE UploadFails(j)
  BY <1>0, <1>13 DEF UploadFails
<1>14. CASE RecordRefusal(j)
  BY <1>0, <1>14 DEF RecordRefusal
<1>15. CASE RecordStored(j)
  BY <1>0, <1>15 DEF RecordStored
<1>16. CASE DefersPoll(j)
  BY <1>0, <1>16 DEF DefersPoll
<1>17. CASE Breaks(j)
  BY <1>0, <1>17 DEF Breaks, Mishap
<1>18. CASE Dies(j)
  BY <1>0, <1>18 DEF Dies, Mishap
<1> QED
  BY <1>1, <1>2, <1>3, <1>4, <1>5, <1>6, <1>7, <1>8, <1>9, <1>10, <1>11, <1>12,
     <1>13, <1>14, <1>15, <1>16, <1>17, <1>18
  DEF JobNext, JobStep

\* The invariant is inductive.
LEMMA NextIInv == IInv /\ [Next]_vars => IInv'
<1> SUFFICES ASSUME IInv, [Next]_vars PROVE IInv'
  OBVIOUS
<1>1. CASE UNCHANGED vars
  BY <1>1 DEF IInv, vars, TypeOK, StoredIsUploaded, UploadsAreKnown, RunsAreCounted,
              ErrorsAreCounted, AskedIsBounded, Begun, Asking, AskingFirst, JobsOf
<1>2. ASSUME NEW f \in Files, Register(f)
      PROVE  IInv'
  <2>1. TypeOK'
    BY <1>2 DEF IInv, Register, TypeOK, FileStates
  <2>2. StoredIsUploaded' /\ UploadsAreKnown'
    BY <1>2 DEF IInv, Register, TypeOK, StoredIsUploaded, UploadsAreKnown
  <2>3. \A g \in Files : /\ file'[g].attempts = file[g].attempts
                         /\ Begun(g)' = Begun(g) /\ Asking(g)' = Asking(g)
                         /\ AskingFirst(g)' = AskingFirst(g)
    BY <1>2 DEF IInv, Register, TypeOK, Begun, Asking, AskingFirst, JobsOf
  <2>4. RunsAreCounted' /\ ErrorsAreCounted' /\ AskedIsBounded'
    BY <1>2, <2>3 DEF IInv, Register, RunsAreCounted, ErrorsAreCounted, AskedIsBounded,
                      JobsOf
  <2> QED BY <2>1, <2>2, <2>4 DEF IInv
<1>3. ASSUME NEW j \in Jobs, JobNext(j)
      PROVE  IInv'
  <2>1. TypeOK' /\ StoredIsUploaded' /\ UploadsAreKnown'
    BY <1>3, JobStepTyped, JobStepUploads DEF IInv
  <2>2. RunsAreCounted' /\ ErrorsAreCounted' /\ AskedIsBounded'
    BY <1>3, <2>1, JobStepBalanced, BalanceKeepsCounts DEF IInv
  <2> QED BY <2>1, <2>2 DEF IInv
<1> QED
  BY <1>1, <1>2, <1>3 DEF Next, JobNext

\* What the invariant says of the errors at Meta.
LEMMA CountsImplyCeiling == IInv => CeilingHolds
<1> SUFFICES ASSUME IInv, NEW f \in Files
             PROVE  LET most == Ceiling - 1 + Cardinality(JobsOf(f)) + unrecorded[f]
                    IN  asked[f] <= most /\ failures[f] <= 2 * most
  BY DEF CeilingHolds
<1>1. /\ asked[f] <= Ceiling - 1 + Cardinality(JobsOf(f)) + unrecorded[f]
      /\ failures[f] + Cardinality(Asking(f)) + Cardinality(AskingFirst(f)) <= 2 * asked[f]
  BY DEF IInv, AskedIsBounded, ErrorsAreCounted
<1>2. asked[f] \in Nat /\ failures[f] \in Nat /\ unrecorded[f] \in Nat
  BY DEF IInv, TypeOK
<1> QED BY <1>1, <1>2, CountsAreNat, EvidenceAssumption

\* The invariant holds in every reachable state.
LEMMA Invariance == Spec => []IInv
<1> QED BY InitIInv, NextIInv, PTL DEF Spec

\* The variables keep their types: a row's attempts stay a number and its
\* state one of the column's values, whatever jobs write it.
THEOREM EvidenceTypeCorrect == Spec => []TypeOK
<1>1. IInv => TypeOK BY DEF IInv
<1> QED BY <1>1, Invariance, PTL

\* A file that is 'stored', or polled for, has its evidence in audit-core.
THEOREM StoredFilesAreUploaded == Spec => []StoredIsUploaded
<1>1. IInv => StoredIsUploaded BY DEF IInv
<1> QED BY <1>1, Invariance, PTL

\* The attempt ceiling of fetch.py holds for any number of jobs, retries and
\* mishaps: runs that ask Meta exceed it by those not counted yet at most.
THEOREM CeilingIsKept == Spec => []CeilingHolds
<1> QED BY CountsImplyCeiling, Invariance, PTL

-----------------------------------------------------------------------------
(* The refinement of FileLifecycle.  No invariant is needed for it but the *)
(* types: what a run may write is decided by where the run stands.         *)

FStates == [f \in Files |-> file[f].state]
FPhases == [j \in Jobs |-> Phase(j)]
FTries == [j \in Jobs |-> job[j].retries]

\* What a step of a job does to the phases: one job goes on.
LEMMA PhaseGoes ==
  ASSUME TypeOK, TypeOK', NEW j \in Jobs, NEW to,
         \A i \in Jobs \ {j} : job'[i] = job[i],
         job'[j].retries = job[j].retries,
         Phase(j)' = to
  PROVE  Lifecycle!Goes(j, to)
<1>1. \A i \in Jobs \ {j} : Phase(i)' = Phase(i)
  BY DEF Phase
<1>2. FPhases' = [FPhases EXCEPT ![j] = to]
  BY <1>1 DEF FPhases
<1>3. FTries' = FTries
  BY DEF FTries
<1> QED BY <1>2, <1>3 DEF Lifecycle!Goes, FPhases, FTries

\* A job that stays in its phase leaves no trace in the mapped variables.
LEMMA PhaseStays ==
  ASSUME TypeOK, NEW j \in Jobs,
         \A i \in Jobs \ {j} : job'[i] = job[i],
         job'[j].retries = job[j].retries,
         Phase(j)' = Phase(j)
  PROVE  UNCHANGED <<FPhases, FTries>>
<1>1. \A i \in Jobs : Phase(i)' = Phase(i) /\ job'[i].retries = job[i].retries
  BY DEF Phase
<1> QED BY <1>1 DEF FPhases, FTries

\* Procrastinate's retry is the same on both levels.
LEMMA AgainMaps ==
  ASSUME TypeOK, NEW j \in Jobs, job' = Again(j)
  PROVE  Lifecycle!RunsAgain(j)
<1> USE EvidenceAssumption DEF TypeOK
<1>1. CASE job[j].retries < Retries
  <2>1. job' = [job EXCEPT ![j].at = "queued", ![j].retries = @ + 1]
    BY <1>1 DEF Again
  <2>2. Phase(j)' = "queued" /\ job'[j].retries = job[j].retries + 1
    BY <2>1 DEF Phase, AtMeta, MediaErrors, AtRest
  <2>3. \A i \in Jobs \ {j} : Phase(i)' = Phase(i) /\ job'[i].retries = job[i].retries
    BY <2>1 DEF Phase
  <2>4. FPhases' = [FPhases EXCEPT ![j] = "queued"]
    BY <2>2, <2>3 DEF FPhases
  <2>5. FTries' = [FTries EXCEPT ![j] = @ + 1]
    BY <2>2, <2>3 DEF FTries
  <2>6. FTries[j] < Retries
    BY <1>1 DEF FTries
  <2> QED BY <2>4, <2>5, <2>6 DEF Lifecycle!RunsAgain, FPhases, FTries
<1>2. CASE ~(job[j].retries < Retries)
  <2>1. job' = [job EXCEPT ![j].at = "ended"]
    BY <1>2 DEF Again
  <2>2. Phase(j)' = "over" /\ job'[j].retries = job[j].retries
    BY <2>1 DEF Phase, AtMeta, MediaErrors, AtRest
  <2>3. \A i \in Jobs \ {j} : Phase(i)' = Phase(i) /\ job'[i].retries = job[i].retries
    BY <2>1 DEF Phase
  <2>4. FPhases' = [FPhases EXCEPT ![j] = "over"]
    BY <2>2, <2>3 DEF FPhases
  <2>5. FTries' = FTries
    BY <2>2, <2>3 DEF FTries
  <2>6. ~(FTries[j] < Retries)
    BY <1>2 DEF FTries
  <2> QED BY <2>4, <2>5, <2>6 DEF Lifecycle!RunsAgain, Lifecycle!Goes, FPhases, FTries
<1> QED BY <1>1, <1>2

\* A write of one row is a write of the abstract state.
LEMMA WriteMaps ==
  ASSUME TypeOK, NEW j \in Jobs, NEW st,
         \A f \in Files \ {FileOf[j]} : file'[f].state = file[f].state,
         file'[FileOf[j]].state = st
  PROVE  Lifecycle!Writes(j, st)
<1>1. FStates' = [FStates EXCEPT ![FileOf[j]] = st]
  BY DEF FStates
<1> QED BY <1>1 DEF Lifecycle!Writes, FStates

\* Where a step finds a job and its file, in the words of FileLifecycle.
LEMMA MappedValues ==
  ASSUME NEW j \in Jobs
  PROVE  /\ FPhases[j] = Phase(j)
         /\ FStates[FileOf[j]] = file[FileOf[j]].state
<1>1. FileOf[j] \in Files
  BY EvidenceAssumption
<1> QED BY <1>1 DEF FPhases, FStates

JobLifecycle(j) ==
  \/ Lifecycle!FindsNoRow(j) \/ Lifecycle!Begin(j) \/ Lifecycle!Download(j)
  \/ Lifecycle!Reject(j) \/ Lifecycle!GiveUp(j) \/ Lifecycle!Store(j)
  \/ Lifecycle!DeferPoll(j) \/ Lifecycle!Break(j) \/ Lifecycle!Die(j)

\* Every step of a job is a step of FileLifecycle, or changes nothing there.
LEMMA JobStepMaps ==
  ASSUME TypeOK, NEW j \in Jobs, JobNext(j)
  PROVE  JobLifecycle(j) \/ UNCHANGED <<FStates, FPhases, FTries>>
<1> DEFINE f == FileOf[j]
<1> USE EvidenceAssumption
<1>0. TypeOK' /\ f \in Files
  BY JobStepTyped
<1>a. FPhases[j] = Phase(j) /\ FStates[f] = file[f].state
  BY MappedValues
<1>b. ASSUME UNCHANGED file PROVE UNCHANGED FStates
  BY <1>b DEF FStates
<1>m. ASSUME NEW a, Moves(j, a)
      PROVE  /\ \A i \in Jobs \ {j} : job'[i] = job[i]
             /\ job'[j].retries = job[j].retries
             /\ job'[j].at = a
  BY <1>m DEF Moves, TypeOK
<1>w. ASSUME NEW st, Writes(j, st) PROVE Lifecycle!Writes(j, st)
  <2>1. /\ \A g \in Files \ {f} : file'[g].state = file[g].state
        /\ file'[f].state = st
    BY <1>0, <1>w DEF Writes, TypeOK
  <2> QED BY <2>1, WriteMaps
<1>r. ASSUME NEW r, NEW st, file' = [file EXCEPT ![f] = r], r.state = st
      PROVE  Lifecycle!Writes(j, st)
  <2>1. /\ \A g \in Files \ {f} : file'[g].state = file[g].state
        /\ file'[f].state = st
    BY <1>0, <1>r DEF TypeOK
  <2> QED BY <2>1, WriteMaps
<1>p. ASSUME NEW a, Moves(j, a), NEW p,
             p = CASE a \in AtMeta \cup MediaErrors \cup {"fetched"} -> "downloading"
                   [] a \in {"storing", "uploaded", "refused"} -> "storing"
                   [] a \in AtRest -> "over"
                   [] OTHER -> a
      PROVE  Lifecycle!Goes(j, p)
  <2>1. Phase(j)' = p
    BY <1>p, <1>m DEF Phase
  <2> QED BY <1>0, <1>m, <1>p, <2>1, PhaseGoes
<1>1. CASE NoJourney(j)
  <2>1. Lifecycle!Goes(j, "over") /\ Phase(j) = "queued"
    BY <1>1, <1>p DEF NoJourney, AtMeta, MediaErrors, AtRest, Phase
  <2>2. CASE file[f].state = "absent"
    <3>1. UNCHANGED FStates
      BY <1>1, <2>2, <1>b DEF NoJourney
    <3>2. Lifecycle!FindsNoRow(j)
      BY <2>1, <2>2, <3>1, <1>a DEF Lifecycle!FindsNoRow, FStates, FPhases
    <3> QED BY <3>2 DEF JobLifecycle
  <2>3. CASE file[f].state # "absent"
    <3>1. Lifecycle!Writes(j, "failed")
      BY <1>1, <2>3, <1>w DEF NoJourney
    <3>2. Lifecycle!Begin(j)
      BY <2>1, <2>3, <3>1, <1>a DEF Lifecycle!Begin, FStates, FPhases
    <3> QED BY <3>2 DEF JobLifecycle
  <2> QED BY <2>2, <2>3
<1>2. CASE FindsNoRow(j)
  <2>1. Lifecycle!Goes(j, "over") /\ Phase(j) = "queued"
    BY <1>2, <1>p DEF FindsNoRow, AtMeta, MediaErrors, AtRest, Phase
  <2>2. UNCHANGED FStates
    BY <1>2, <1>b DEF FindsNoRow
  <2>3. Lifecycle!FindsNoRow(j)
    BY <1>2, <2>1, <2>2, <1>a DEF FindsNoRow, Lifecycle!FindsNoRow, FStates, FPhases
  <2> QED BY <2>3 DEF JobLifecycle
<1>3. CASE Begins(j)
  <2>1. /\ \A i \in Jobs \ {j} : job'[i] = job[i]
        /\ job'[j].retries = job[j].retries
        /\ job'[j].at \in {"final", "resolving"}
    BY <1>3 DEF Begins, TypeOK
  <2>2. Phase(j)' = "downloading" /\ Phase(j) = "queued"
    BY <1>3, <2>1 DEF Begins, Phase, AtMeta, MediaErrors, AtRest
  <2>3. Lifecycle!Goes(j, "downloading")
    BY <1>0, <2>1, <2>2, PhaseGoes
  <2>4. Lifecycle!Writes(j, "downloading")
    BY <1>3, <1>w DEF Begins
  <2>5. Lifecycle!Begin(j)
    BY <1>3, <2>2, <2>3, <2>4, <1>a DEF Begins, Lifecycle!Begin, FStates, FPhases
  <2> QED BY <2>5 DEF JobLifecycle
<1>4. CASE Resolves(j) \/ MetaErrs(j) \/ UrlExpired(j) \/ NoContent(j) \/ Downloads(j)
  <2>1. /\ job[j].at \in AtMeta /\ UNCHANGED file
        /\ \E a \in AtMeta \cup MediaErrors \cup {"fetched"} : Moves(j, a)
    BY <1>4 DEF Resolves, MetaErrs, UrlExpired, NoContent, Downloads, Reresolves,
                AtResolve, AtDownload, AtMeta, MediaErrors
  <2>2. Phase(j) = "downloading"
    BY <2>1 DEF Phase, AtMeta, MediaErrors, AtRest
  <2>3. PICK a \in AtMeta \cup MediaErrors \cup {"fetched"} : Moves(j, a)
    BY <2>1
  <2>4. Phase(j)' = "downloading"
    BY <2>3, <1>m DEF Phase, AtMeta, MediaErrors, AtRest
  <2>5. UNCHANGED <<FPhases, FTries>>
    BY <2>2, <2>3, <2>4, <1>m, PhaseStays
  <2> QED BY <2>1, <2>5, <1>b
<1>5. CASE ResolveBreaks(j)
  <2>1. Lifecycle!RunsAgain(j)
    BY <1>5, AgainMaps DEF ResolveBreaks
  <2>2. UNCHANGED FStates /\ Phase(j) = "downloading"
    BY <1>5, <1>b DEF ResolveBreaks, Phase, AtResolve, AtMeta, MediaErrors, AtRest
  <2>3. Lifecycle!Break(j)
    BY <2>1, <2>2, <1>a DEF Lifecycle!Break, FStates, FPhases
  <2> QED BY <2>3 DEF JobLifecycle
<1>6. CASE RecordMediaError(j)
  <2>1. Phase(j) = "downloading"
    BY <1>6 DEF RecordMediaError, Phase, AtMeta, MediaErrors, AtRest
  <2>2. PICK st \in {"failed", "quarantined"} :
          /\ st = Recorded(job[j].at)
          /\ file' = [file EXCEPT ![f] = [state |-> st, attempts |-> file[f].attempts + 1]]
    BY <1>6 DEF RecordMediaError, Recorded
  <2>3. Lifecycle!Writes(j, st)
    BY <2>2, <1>r
  <2>4. CASE job[j].at = "retryable"
    <3>1. st = "failed"
      BY <2>2, <2>4 DEF Recorded
    <3>2. Lifecycle!Goes(j, "over")
      BY <1>6, <2>4, <1>p DEF RecordMediaError, AtMeta, MediaErrors, AtRest
    <3>3. Lifecycle!GiveUp(j)
      BY <2>1, <2>3, <3>1, <3>2, <1>a DEF Lifecycle!GiveUp, FPhases
    <3> QED BY <3>3 DEF JobLifecycle
  <2>5. CASE job[j].at # "retryable"
    <3>1. Lifecycle!RunsAgain(j)
      BY <1>6, <2>5, AgainMaps DEF RecordMediaError
    <3>2. Lifecycle!Reject(j)
      BY <2>1, <2>3, <3>1, <1>a DEF Lifecycle!Reject, FPhases
    <3> QED BY <3>2 DEF JobLifecycle
  <2> QED BY <2>4, <2>5
<1>7. CASE BeginsStoring(j)
  <2>1. Lifecycle!Goes(j, "storing") /\ Phase(j) = "downloading"
    BY <1>7, <1>p DEF BeginsStoring, Phase, AtMeta, MediaErrors, AtRest
  <2>2. Lifecycle!Writes(j, "storing")
    BY <1>7, <1>w DEF BeginsStoring
  <2>3. Lifecycle!Download(j)
    BY <2>1, <2>2, <1>a DEF Lifecycle!Download, FPhases
  <2> QED BY <2>3 DEF JobLifecycle
<1>8. CASE Uploads(j) \/ UploadFails(j)
  <2>1. /\ job[j].at = "storing" /\ UNCHANGED file
        /\ \E a \in {"uploaded", "refused"} : Moves(j, a)
    BY <1>8 DEF Uploads, UploadFails
  <2>2. Phase(j) = "storing"
    BY <2>1 DEF Phase, AtMeta, MediaErrors, AtRest
  <2>3. PICK a \in {"uploaded", "refused"} : Moves(j, a)
    BY <2>1
  <2>4. Phase(j)' = "storing"
    BY <2>3, <1>m DEF Phase, AtMeta, MediaErrors, AtRest
  <2>5. UNCHANGED <<FPhases, FTries>>
    BY <2>2, <2>3, <2>4, <1>m, PhaseStays
  <2> QED BY <2>1, <2>5, <1>b
<1>9. CASE RecordRefusal(j)
  <2>1. Lifecycle!Goes(j, "over") /\ Phase(j) = "storing"
    BY <1>9, <1>p DEF RecordRefusal, Phase, AtMeta, MediaErrors, AtRest
  <2>2. Lifecycle!Writes(j, "failed")
    BY <1>9, <1>r DEF RecordRefusal, AfterRefusal
  <2>3. Lifecycle!GiveUp(j)
    BY <2>1, <2>2, <1>a DEF Lifecycle!GiveUp, FPhases
  <2> QED BY <2>3 DEF JobLifecycle
<1>10. CASE RecordStored(j)
  <2>1. Lifecycle!Goes(j, "stored") /\ Phase(j) = "storing"
    BY <1>10, <1>p DEF RecordStored, Phase, AtMeta, MediaErrors, AtRest
  <2>2. Lifecycle!Writes(j, "stored")
    BY <1>10, <1>w DEF RecordStored
  <2>3. Lifecycle!Store(j)
    BY <2>1, <2>2, <1>a DEF Lifecycle!Store, FPhases
  <2> QED BY <2>3 DEF JobLifecycle
<1>11. CASE DefersPoll(j)
  <2>1. Lifecycle!Goes(j, "over") /\ Phase(j) = "stored"
    BY <1>11, <1>p DEF DefersPoll, Phase, AtMeta, MediaErrors, AtRest
  <2>2. UNCHANGED FStates
    BY <1>11, <1>b DEF DefersPoll
  <2>3. Lifecycle!DeferPoll(j)
    BY <2>1, <2>2, <1>a DEF Lifecycle!DeferPoll, FStates, FPhases
  <2> QED BY <2>3 DEF JobLifecycle
<1>12. ASSUME Mishap(j)
       PROVE  UNCHANGED FStates /\ Phase(j) \notin {"none", "over"}
  BY <1>12, <1>b DEF Mishap, TypeOK, Running, Phase, AtMeta, MediaErrors, AtRest
<1>13. CASE Breaks(j)
  <2>1. Lifecycle!RunsAgain(j)
    BY <1>13, AgainMaps DEF Breaks
  <2>2. Lifecycle!Break(j)
    BY <1>13, <1>12, <2>1, <1>a DEF Breaks, Lifecycle!Break, FStates, FPhases
  <2> QED BY <2>2 DEF JobLifecycle
<1>14. CASE Dies(j)
  <2>1. Lifecycle!Goes(j, "over")
    BY <1>14, <1>p DEF Dies, AtMeta, MediaErrors, AtRest
  <2>2. Lifecycle!Die(j)
    BY <1>14, <1>12, <2>1, <1>a DEF Dies, Lifecycle!Die, FStates, FPhases
  <2> QED BY <2>2 DEF JobLifecycle
<1> QED
  BY <1>1, <1>2, <1>3, <1>4, <1>5, <1>6, <1>7, <1>8, <1>9, <1>10, <1>11, <1>13, <1>14
  DEF JobNext, JobStep

\* The registration of a file is the same on both levels.
LEMMA RegisterMaps ==
  ASSUME TypeOK, NEW f \in Files, Register(f)
  PROVE  Lifecycle!Register(f)
<1>1. FStates[f] = "absent" /\ FStates' = [FStates EXCEPT ![f] = "pending"]
  BY DEF Register, TypeOK, FStates
<1>2. FPhases' = FPhases /\ FTries' = FTries
  BY DEF Register, FPhases, Phase, FTries
<1> QED BY <1>1, <1>2 DEF Lifecycle!Register, FStates, FPhases, FTries

\* Fetch, store and the job around them implement FileLifecycle: a row goes
\* to 'stored' only from a run that stored it, to 'quarantined' only from a
\* download, back only with a new run, whatever jobs of the file overlap.
THEOREM EvidenceFollowsFileLifecycle == Spec => FollowsFileLifecycle
<1>1. Init => Lifecycle!Init
  <2> SUFFICES ASSUME Init PROVE Lifecycle!Init
    OBVIOUS
  <2>1. FStates = [f \in Files |-> "absent"]
    BY DEF Init, FStates
  <2>2. \A j \in Jobs : Phase(j) = "queued"
    BY DEF Init, Phase, AtMeta, MediaErrors, AtRest
  <2>3. FPhases \in [Jobs -> {"none", "queued"}]
    BY <2>2 DEF FPhases
  <2>4. FTries = [j \in Jobs |-> 0]
    BY DEF Init, FTries
  <2> QED BY <2>1, <2>3, <2>4 DEF Lifecycle!Init, FStates, FPhases, FTries
<1>2. IInv /\ [Next]_vars => [Lifecycle!Next]_<<FStates, FPhases, FTries>>
  <2> SUFFICES ASSUME IInv, [Next]_vars
               PROVE  Lifecycle!Next \/ UNCHANGED <<FStates, FPhases, FTries>>
    OBVIOUS
  <2>0. TypeOK BY DEF IInv
  <2>1. CASE UNCHANGED vars
    BY <2>1 DEF vars, FStates, FPhases, Phase, FTries
  <2>2. ASSUME NEW f \in Files, Register(f) PROVE Lifecycle!Next
    BY <2>0, <2>2, RegisterMaps DEF Lifecycle!Next
  <2>3. ASSUME NEW j \in Jobs, JobNext(j)
        PROVE  Lifecycle!Next \/ UNCHANGED <<FStates, FPhases, FTries>>
    BY <2>0, <2>3, JobStepMaps DEF Lifecycle!Next, JobLifecycle
  <2> QED BY <2>1, <2>2, <2>3 DEF Next, JobNext
<1>3. IInv /\ [Next]_vars
        => [Lifecycle!Next]_<<[f \in Files |-> file[f].state],
                              [j \in Jobs |-> Phase(j)],
                              [j \in Jobs |-> job[j].retries]>>
  BY <1>2 DEF FStates, FPhases, FTries
<1> QED BY <1>1, <1>3, Invariance, PTL DEF Spec, FollowsFileLifecycle, Lifecycle!Spec

=============================================================================
