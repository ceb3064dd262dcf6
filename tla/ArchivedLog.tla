----------------------------- MODULE ArchivedLog -----------------------------
(***************************************************************************)
(* What the audit log promises, whoever records, exports and purges: a     *)
(* recorded event may be archived, an archived event stays archived, and   *)
(* only an archived event is purged from the table.                        *)
(***************************************************************************)
VARIABLES
    recorded,   \* the events that were recorded
    archived,   \* the events the archive holds
    purged      \* the events the table holds no more

logVars == <<recorded, archived, purged>>

LogInit == recorded = {} /\ archived = {} /\ purged = {}

RecordEvent ==
    /\ recorded \subseteq recorded' /\ recorded # recorded'
    /\ UNCHANGED <<archived, purged>>

ArchiveEvents ==
    /\ archived \subseteq archived' /\ archived' \subseteq recorded
    /\ UNCHANGED <<recorded, purged>>

PurgeEvents ==
    /\ purged \subseteq purged' /\ purged' \subseteq archived
    /\ UNCHANGED <<recorded, archived>>

LogNext == RecordEvent \/ ArchiveEvents \/ PurgeEvents

LogSpec == LogInit /\ [][LogNext]_logVars
=============================================================================
