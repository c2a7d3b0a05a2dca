------------------------------- MODULE Surfaces -------------------------------
(***************************************************************************)
(* A run as it is ingested and stored, with one of its readers next to it: *)
(* the dataset exporter, the review service, or its list of runs.  Readers *)
(* change nothing the run or another reader looks at, so one at a time     *)
(* shows all that each can see.                                            *)
(***************************************************************************)
EXTENDS Exporter, Review

VARIABLE reader

vars == <<storeVars, exportVars, reviewVars, reader>>

Init ==
    /\ StoreInit
    /\ ExportInit
    /\ ReviewInit
    /\ reader \in {"exporter", "review", "runs"}

Next ==
    \/ reader # "runs" /\ StoreNext /\ UNCHANGED <<exportVars, reviewVars, reader>>
    \/ reader = "exporter" /\ ExportStep /\ UNCHANGED <<storeVars, reviewVars, reader>>
    \/ reader = "review" /\ ReviewStep /\ UNCHANGED <<storeVars, exportVars, reader>>
    \/ reader = "runs" /\ ListRunsStep /\ UNCHANGED <<storeVars, exportVars, reader>>

Spec == Init /\ [][Next]_vars

TypeOK == RunStoreTypeOK /\ ExportTypeOK /\ ReviewTypeOK
=============================================================================
