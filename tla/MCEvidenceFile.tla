---------------------------- MODULE MCEvidenceFile ----------------------------
(***************************************************************************)
(* Instances of EvidenceFile for TLC.                                      *)
(***************************************************************************)
EXTENDS EvidenceFile

CONSTANTS f1, j1, j2

\* Every job fetches the one file: process_inbox_row ran once or twice.
MCFileOf == [j \in Jobs |-> f1]

=============================================================================
