------------------------------- MODULE Mirror -------------------------------
(***************************************************************************)
(* What cmd/ingest promises its database: it records a manifest version    *)
(* only when it holds that version, one import is under way at a time, and *)
(* a database that holds the recorded version loses it only to the import  *)
(* of another one, which may end without being recorded.                   *)
(***************************************************************************)
CONSTANTS
    Versions,   \* manifest versions
    Nothing     \* no version

VARIABLES
    recorded,   \* the version of the sync record, or Nothing
    held,       \* the database holds the recorded version
    importing   \* the version being imported, or Nothing

vars == <<recorded, held, importing>>

Init ==
    /\ recorded = Nothing
    /\ held = FALSE
    /\ importing = Nothing

Begin(v) ==
    /\ importing = Nothing
    /\ importing' = v
    /\ UNCHANGED <<recorded, held>>

\* Rows are written.  The write may be the last before the import fails.
Write ==
    /\ importing # Nothing
    /\ importing' \in {importing, Nothing}
    /\ held' \in BOOLEAN
    /\ importing = recorded /\ held => held'
    /\ UNCHANGED recorded

Complete ==
    /\ importing # Nothing
    /\ recorded' = importing
    /\ held' = TRUE
    /\ importing' = Nothing

Next == (\E v \in Versions : Begin(v)) \/ Write \/ Complete

Spec == Init /\ [][Next]_vars
=============================================================================
