----------------------------- MODULE Licensing ------------------------------
(***************************************************************************)
(* The enterprise licence (ee/licensing): the row of enterprise_license,   *)
(* the license server, and in every instance of the server the flag that   *)
(* turns the enterprise features on, which four goroutines write from what *)
(* they read earlier: the validation loop, the sync, and the administrator *)
(* who attaches or removes a licence.                                      *)
(***************************************************************************)
EXTENDS Naturals

CONSTANTS
    Servers,      \* instances of the server
    LicenceKeys,    \* keys the license server sold
    NoLicence,      \* no row; validation_failed_at IS NULL
    Grace,          \* GracePeriod
    MaxNow,         \* bound on the clock
    MaxCrashes      \* bound on restarts of instances

ASSUME GraceAssumption == Grace \in Nat /\ MaxNow \in Nat

VARIABLES
    licence,        \* the row: [key, failedAt]
    flag,           \* Current() # nil: the instances with enterprise features on
    sync,           \* what the sync of an instance read: {} or the row
    loop,           \* the validation loop of an instance
    admin,          \* the administrator's request: where it runs, what it does
    used,           \* license server: keys consumed
    active,         \* license server: the subscription
    now,            \* the clock
    lastOK,         \* history: when the row was last activated or validated
    crashes

licenceVars == <<licence, flag, sync, loop, admin, used, active, now, lastOK, crashes>>

-----------------------------------------------------------------------------
(* LicenseStatus.                                                            *)

Stored == [key : LicenceKeys, failedAt : (0..MaxNow) \cup {NoLicence}]

GraceDeadline(row) == row.failedAt + Grace

Suspended(row) == row # NoLicence /\ row.failedAt # NoLicence /\ now > GraceDeadline(row)

Valid(row) == row # NoLicence /\ ~Suspended(row)

\* Mutant: a status that is not valid leaves the flag.
OnlyActivates(i, row) == flag' = IF Valid(row) THEN flag \cup {i} ELSE flag

\* applyStatus: the flag of the instance follows the status as it is now.
applyStatus(i, row) == flag' = IF Valid(row) THEN flag \cup {i} ELSE flag \ {i}

-----------------------------------------------------------------------------
(* The table.                                                                *)

\* UpsertEnterpriseLicense.
UpsertEnterpriseLicense(row, key) == [key |-> key, failedAt |-> NoLicence]

\* MarkEnterpriseLicenseValidated: whatever row is there, if one is.
MarkValidated(row) == IF row = NoLicence THEN row ELSE [row EXCEPT !.failedAt = NoLicence]

\* MarkEnterpriseLicenseValidationFailed keeps the first failure.
MarkValidationFailed(row) ==
    IF row = NoLicence \/ row.failedAt # NoLicence THEN row ELSE [row EXCEPT !.failedAt = now]

-----------------------------------------------------------------------------
NotLooping == [pc |-> "idle", key |-> NoLicence]
NoAdmin == [pc |-> "idle", at |-> CHOOSE i \in Servers : TRUE, key |-> NoLicence]

LicenceInit ==
    /\ licence = NoLicence
    /\ flag = {}
    /\ sync = [i \in Servers |-> {}]
    /\ loop = [i \in Servers |-> NotLooping]
    /\ admin = NoAdmin
    /\ used = {}
    /\ active = TRUE
    /\ now = 0 /\ lastOK = 0
    /\ crashes = 0

Elsewhere == <<used, active, now, crashes>>

-----------------------------------------------------------------------------
(* The validation loop.  Its lock only limits how often it runs, and a       *)
(* broken lock does not stop it.                                             *)

\* ValidateNow finds a row and reads the secret of the activation, a second read
\* and the one that counts.
ValidateNow(i) ==
    /\ loop[i].pc = "idle" /\ licence # NoLicence
    /\ loop' = [loop EXCEPT ![i] = [pc |-> "ask", key |-> licence.key]]
    /\ UNCHANGED <<licence, flag, sync, admin, lastOK, Elsewhere>>

\* Client.Validate: the license server knows the activations of its keys, or cannot
\* be reached, or refuses.
ClientValidate(key) == IF active /\ key \in used THEN {"ok", "error"} ELSE {"error"}

\* The answer, which is an error too when the plan is not supported.
Validate(i) ==
    /\ loop[i].pc = "ask"
    /\ \E answer \in ClientValidate(loop[i].key) : loop' = [loop EXCEPT ![i].pc = answer]
    /\ UNCHANGED <<licence, flag, sync, admin, lastOK, Elsewhere>>

\* A problem of this side (no instance id, a secret that does not open, a shutdown,
\* a failed statement) is no decision about the licence.
Skip(i) ==
    /\ loop[i].pc \in {"ask", "ok", "error"}
    /\ loop' = [loop EXCEPT ![i] = NotLooping]
    /\ UNCHANGED <<licence, flag, sync, admin, lastOK, Elsewhere>>

\* The answer is persisted; the update returns the row it wrote, and without one
\* nothing is applied.
Persist(i) ==
    /\ loop[i].pc \in {"ok", "error"}
    /\ licence' = IF loop[i].pc = "ok" THEN MarkValidated(licence) ELSE MarkValidationFailed(licence)
    /\ lastOK' = IF loop[i].pc = "ok" /\ licence # NoLicence THEN now ELSE lastOK
    /\ loop' = [loop EXCEPT ![i] =
                    IF licence = NoLicence THEN NotLooping
                    ELSE [pc |-> IF loop[i].pc = "ok" THEN "apply" ELSE "suspend", key |-> licence']]
    /\ UNCHANGED <<flag, sync, admin, Elsewhere>>

\* A success is applied; a failure only takes the features away, and only once
\* the grace is over.
ApplyValidation(i) ==
    /\ loop[i].pc \in {"apply", "suspend"}
    /\ IF loop[i].pc = "apply" THEN applyStatus(i, loop[i].key)
       ELSE flag' = IF Suspended(loop[i].key) THEN flag \ {i} ELSE flag
    /\ loop' = [loop EXCEPT ![i] = NotLooping]
    /\ UNCHANGED <<licence, sync, admin, lastOK, Elsewhere>>

-----------------------------------------------------------------------------
(* The sync.                                                                 *)

GetLicense == {licence}

\* syncFromStore reads the row ...
SyncRead(i) ==
    /\ sync[i] = {}
    /\ sync' = [sync EXCEPT ![i] = GetLicense]
    /\ UNCHANGED <<licence, flag, loop, admin, lastOK, Elsewhere>>

\* ... and applies it.
SyncApply(i) ==
    /\ sync[i] # {}
    /\ \E row \in sync[i] : applyStatus(i, row)
    /\ sync' = [sync EXCEPT ![i] = {}]
    /\ UNCHANGED <<licence, loop, admin, lastOK, Elsewhere>>

-----------------------------------------------------------------------------
(* The administrator.                                                        *)

\* Client.Check: the key exists and is unused.
ClientCheck(key) == active /\ key \notin used

\* Check, and the plan of the key is supported.
Check(i, key) ==
    /\ admin.pc = "idle" /\ ClientCheck(key)
    /\ admin' = [pc |-> "attach", at |-> i, key |-> key]
    /\ UNCHANGED <<licence, flag, sync, loop, lastOK, Elsewhere>>

\* Client.Attach consumes the key, if nobody else has.
ClientAttach(key) == IF ClientCheck(key) THEN used \cup {key} ELSE used

\* Attach: the request ends when the key is refused, or the answer is lost.
Attach ==
    /\ admin.pc = "attach"
    /\ used' = ClientAttach(admin.key)
    /\ admin' \in {NoAdmin} \cup (IF used' # used THEN {[admin EXCEPT !.pc = "save"]} ELSE {})
    /\ UNCHANGED <<licence, flag, sync, loop, lastOK, active, now, crashes>>

\* SaveActivation, with a context that the request cannot cancel; the statement may
\* fail all the same, and the key is spent.
SaveActivation ==
    /\ admin.pc = "save"
    /\ \/ /\ licence' = UpsertEnterpriseLicense(licence, admin.key)
          /\ lastOK' = now
          /\ admin' = [admin EXCEPT !.pc = "activate"]
       \/ admin' = NoAdmin /\ UNCHANGED <<licence, lastOK>>
    /\ UNCHANGED <<flag, sync, loop, Elsewhere>>

\* Activate, or Deactivate at the end of Remove.
SetFlag ==
    /\ admin.pc \in {"activate", "deactivate"}
    /\ flag' = IF admin.pc = "activate" THEN flag \cup {admin.at} ELSE flag \ {admin.at}
    /\ admin' = NoAdmin
    /\ UNCHANGED <<licence, sync, loop, lastOK, Elsewhere>>

\* Remove: the row is deleted, then the flag cleared.
RemoveLicence(i) ==
    /\ admin.pc = "idle"
    /\ licence' = NoLicence
    /\ admin' = [NoAdmin EXCEPT !.pc = "deactivate", !.at = i]
    /\ UNCHANGED <<flag, sync, loop, lastOK, Elsewhere>>

-----------------------------------------------------------------------------
\* The instance dies and boots: ActivateFromStore.
Reboot(i) ==
    /\ crashes < MaxCrashes
    /\ crashes' = crashes + 1
    /\ applyStatus(i, licence)
    /\ sync' = [sync EXCEPT ![i] = {}]
    /\ loop' = [loop EXCEPT ![i] = NotLooping]
    /\ admin' = IF admin.at = i THEN NoAdmin ELSE admin
    /\ UNCHANGED <<licence, used, active, now, lastOK>>

\* The subscription lapses.
Lapse == active /\ active' = FALSE
         /\ UNCHANGED <<licence, flag, sync, loop, admin, used, now, lastOK, crashes>>

LicenceTick ==
    /\ now < MaxNow /\ now' = now + 1
    /\ UNCHANGED <<licence, flag, sync, loop, admin, used, active, lastOK, crashes>>

LicenceNext ==
    \/ \E i \in Servers : \/ ValidateNow(i) \/ Validate(i) \/ Skip(i) \/ Persist(i) \/ ApplyValidation(i)
                            \/ SyncRead(i) \/ SyncApply(i)
                            \/ \E key \in LicenceKeys : Check(i, key)
                            \/ RemoveLicence(i) \/ Reboot(i)
    \/ Attach \/ SaveActivation \/ SetFlag
    \/ Lapse \/ LicenceTick

\* StartSync ticks for as long as the instance runs.
LicenceFairness ==
    \A i \in Servers : WF_licenceVars(SyncRead(i)) /\ WF_licenceVars(SyncApply(i))

LicenceSpec == LicenceInit /\ [][LicenceNext]_licenceVars /\ LicenceFairness

-----------------------------------------------------------------------------
LicenceTypeOK ==
    /\ licence \in Stored \cup {NoLicence}
    /\ flag \subseteq Servers
    /\ \A i \in Servers : sync[i] \subseteq Stored \cup {NoLicence}

\* Features are suspended only after a failure that lasted longer than the grace:
\* a licence that was activated or validated within it is in force, however the
\* validations of several instances, of this licence or of the one it replaced,
\* are interleaved.
SuspendedOnlyAfterGrace == Suspended(licence) => now > lastOK + Grace

\* Every instance ends up with the features the row stands for: a licence removed,
\* attached or suspended through one instance reaches the others, and no goroutine
\* that acts on an earlier read prevails.
InstancesFollowTheRow ==
    \A i \in Servers :
        /\ <>[](Valid(licence)) => <>[](i \in flag)
        /\ <>[](~Valid(licence)) => <>[](i \notin flag)
=============================================================================
