--------------------------- MODULE DeviceRegistry ---------------------------
(***************************************************************************)
(* The registry of one device: the update it runs and the failures it      *)
(* reported.                                                               *)
(*                                                                         *)
(* Check-ins (manifest polls and telemetry batches) are written by a pool  *)
(* of workers, several of which may hold check-ins of the same device, and *)
(* every statement of TouchDevice commits alone.  What a check-in says was *)
(* observed at the time it carries, which the server clamps to the present *)
(* and which may lie in the past.  Crashes and starts of the JS runtime    *)
(* carry the time of the device's own event.                               *)
(*                                                                         *)
(* The published updates 1..Published are one lineage (branch, runtime     *)
(* version and platform) in the order of their ids; Published + 1 is an id *)
(* the server never published, such as the embedded bundle's.  Zero stands *)
(* for SQL's NULL, both as an update and as a time.  All updates are       *)
(* checked.  Hardware, location and crash texts do not change the control  *)
(* and are left out.                                                       *)
(***************************************************************************)
EXTENDS RuntimeHealth

CONSTANTS Published,   \* number of updates in the lineage
          Writers,     \* workers that flush check-ins
          MaxTime,     \* bound on the clock
          MaxReports   \* bound on what the device reports

VARIABLES time,        \* the server's clock
          device,      \* the row of device_identity
          failures,    \* device_update_failures: update, type -> row
          runtime,     \* device_update_runtime_state: update -> watermarks
          writer,      \* what each worker is doing
          reports,     \* how many reports the device has made
          passed       \* updates some check-in has moved past (history)

registryVars == <<time, device, failures, runtime, writer, reports, passed>>

Lineage == 1 .. Published
Times == 1 .. MaxTime
FailureTypes == {"update_issue", "runtime_issue"}
IdleWriter == [at |-> "idle", update |-> Null, observed |-> Null]

RegistryInit ==
    /\ time = 1
    /\ device = [known |-> FALSE, current |-> Null, observed |-> Null, arrived |-> Null]
    /\ failures = [k \in Lineage \X FailureTypes |-> NoFailure]
    /\ runtime = [u \in Lineage |-> [started |-> Null, crashed |-> Null]]
    /\ writer = [w \in Writers |-> IdleWriter]
    /\ reports = 0
    /\ passed = {}

ClockTicks ==
    /\ time < MaxTime
    /\ time' = time + 1
    /\ UNCHANGED <<device, failures, runtime, writer, reports, passed>>

-----------------------------------------------------------------------------
(* TouchDevice, one statement at a time. *)

\* A worker takes a check-in naming u (Null: it names none), observed at t.
TakeCheckIn(w) ==
    /\ writer[w] = IdleWriter
    /\ reports < MaxReports
    /\ \E u \in 0 .. (Published + 1), t \in 1 .. time :
         writer' = [writer EXCEPT ![w] = [at |-> "touch", update |-> u, observed |-> t]]
    /\ reports' = reports + 1
    /\ UNCHANGED <<time, device, failures, runtime, passed>>

\* The update the server knows under the id the device named.
Origin(u) == IF u \in Lineage THEN u ELSE Null

\* The row after a check-in that named u at t.
Observed(row, u, t) ==
    IF u = Null
    THEN [row EXCEPT !.known = TRUE]
    ELSE [known |-> TRUE, current |-> Origin(u), observed |-> t,
          arrived |-> IF row.known /\ row.current = Origin(u) THEN row.arrived ELSE t]

\* A guard that lets every observation through.
AnyObservation(row, u, t) == TRUE

\* The staleness guard of TouchDeviceIdentity and of RegisterDevice's conflict arm.
NotStale(row, u, t) == u = Null \/ row.observed = Null \/ t >= row.observed

WriteDevice(w) ==
    /\ device' = Observed(device, writer[w].update, writer[w].observed)
    /\ writer' = [writer EXCEPT ![w] =
                    IF @.update = Null THEN IdleWriter ELSE [@ EXCEPT !.at = "resolve"]]

TouchDeviceIdentity(w) ==
    /\ writer[w].at = "touch"
    /\ IF device.known /\ NotStale(device, writer[w].update, writer[w].observed)
       THEN WriteDevice(w)
       ELSE /\ writer' = [writer EXCEPT ![w].at = "register"]
            /\ UNCHANGED device
    /\ UNCHANGED <<time, failures, runtime, reports, passed>>

RegisterDevice(w) ==
    /\ writer[w].at = "register"
    /\ IF device.known => NotStale(device, writer[w].update, writer[w].observed)
       THEN WriteDevice(w)
       ELSE /\ writer' = [writer EXCEPT ![w] = IdleWriter]
            /\ UNCHANGED device
    /\ UNCHANGED <<time, failures, runtime, reports, passed>>

Closable(k, row, u, t) ==
    \/ k[1] < u
    \/ k[1] = u /\ k[2] = "update_issue" /\ row.last < t

\* A row the device running u at t has left behind is resolved, never before
\* its own first report.
Resolved(k, row, u, t) ==
    IF IsOpen(row) /\ Closable(k, row, u, t)
    THEN [row EXCEPT !.resolved = Later(t, row.first)] ELSE row

\* A device strictly behind an update it reported again since it was resolved.
Reopened(k, row, u) ==
    IF /\ k[2] = "update_issue" /\ row # NoFailure /\ ~IsOpen(row)
       /\ row.last > row.resolved /\ k[1] > u
    THEN [row EXCEPT !.resolved = Null] ELSE row

\* An error of either statement is logged and the check-in goes on.
ResolveDeviceUpdateFailures(w) ==
    /\ writer[w].at = "resolve"
    /\ writer' = [writer EXCEPT ![w].at = "reopen"]
    /\ \/ /\ writer[w].update \in Lineage
          /\ failures' = [k \in DOMAIN failures |->
                             Resolved(k, failures[k], writer[w].update, writer[w].observed)]
          /\ passed' = passed \cup {u \in Lineage : u < Origin(writer[w].update)}
       \/ UNCHANGED <<failures, passed>>
    /\ UNCHANGED <<time, device, runtime, reports>>

ReopenDeviceUpdateFailures(w) ==
    /\ writer[w].at = "reopen"
    /\ writer' = [writer EXCEPT ![w] = IdleWriter]
    /\ \/ /\ writer[w].update \in Lineage
          /\ failures' = [k \in DOMAIN failures |->
                             Reopened(k, failures[k], writer[w].update)]
       \/ UNCHANGED failures
    /\ UNCHANGED <<time, device, runtime, reports, passed>>

-----------------------------------------------------------------------------
(* Failures. *)

\* RecordUpdateFailures: a launch failure, dated by the server.
UpsertDeviceUpdateFailure(u) ==
    /\ reports < MaxReports
    /\ reports' = reports + 1
    /\ LET k == <<u, "update_issue">>
       IN  failures' = [failures EXCEPT ![k] = Reported(@, time)]
    /\ UNCHANGED <<time, device, runtime, writer, passed>>

\* The health record of update u, as RuntimeHealth sees it.
HealthOf(u) ==
    [row |-> failures[<<u, "runtime_issue">>],
     started |-> runtime[u].started, crashed |-> runtime[u].crashed]

RuntimeReport(u) ==
    /\ reports < MaxReports
    /\ reports' = reports + 1
    /\ \E t \in 1 .. time :
         \E health \in {RecordDeviceRuntimeFailure(HealthOf(u), t),
                        ResolveDeviceRuntimeFailure(HealthOf(u), t)} :
            /\ failures' = [failures EXCEPT ![<<u, "runtime_issue">>] = health.row]
            /\ runtime' = [runtime EXCEPT ![u] = [started |-> health.started,
                                                  crashed |-> health.crashed]]
    /\ UNCHANGED <<time, device, writer, passed>>

RegistryNext ==
    \/ ClockTicks
    \/ \E w \in Writers : \/ TakeCheckIn(w) \/ TouchDeviceIdentity(w) \/ RegisterDevice(w)
                          \/ ResolveDeviceUpdateFailures(w) \/ ReopenDeviceUpdateFailures(w)
    \/ \E u \in Lineage : UpsertDeviceUpdateFailure(u) \/ RuntimeReport(u)

RegistrySpec == RegistryInit /\ [][RegistryNext]_registryVars

-----------------------------------------------------------------------------
(* The variables have their types. *)
RegistryTypeOK ==
    /\ time \in Times
    /\ device \in [known : BOOLEAN, current : {Null} \cup Lineage,
                   observed : 0 .. MaxTime, arrived : 0 .. MaxTime]
    /\ failures \in [Lineage \X FailureTypes ->
                        [first : 0 .. MaxTime, last : 0 .. MaxTime, resolved : 0 .. MaxTime]]
    /\ runtime \in [Lineage -> [started : 0 .. MaxTime, crashed : 0 .. MaxTime]]
    /\ writer \in [Writers -> [at : {"idle", "touch", "register", "resolve", "reopen"},
                               update : 0 .. (Published + 1), observed : 0 .. MaxTime]]
    /\ reports \in 0 .. MaxReports
    /\ passed \subseteq Lineage

(* Whatever the order in which crashes and starts of the JS runtime are     *)
(* delivered (RecordDeviceRuntimeFailure, ResolveDeviceRuntimeFailure), the *)
(* device counts as failing on an update it has not moved past exactly when *)
(* its newest crash is newer than its newest start.  Crashes and starts of  *)
(* the same instant are excluded.                                           *)
RuntimeHealthFollowsNewest ==
    \A u \in Lineage \ passed :
        runtime[u].crashed # runtime[u].started =>
            (IsOpen(failures[<<u, "runtime_issue">>]) <=>
                runtime[u].crashed > runtime[u].started)

\* resolveUpdateFailures: both statements of a check-in naming u at t.
CheckedInRow(k, row, u, t) == Reopened(k, Resolved(k, row, u, t), u)

(* The rules that close and reopen launch failures do not fight: while a    *)
(* device runs an update, or a newer one, and keeps listing it as failed,   *)
(* a check-in never reopens the failure another closed, whatever times the  *)
(* two carry (ResolveDeviceUpdateFailures, ReopenDeviceUpdateFailures).     *)
CheckInsDoNotFlap ==
    \A f \in {v \in Lineage : failures[<<v, "update_issue">>] # NoFailure} :
        \A u \in f .. Published, s, t, again \in Times :
            LET k == <<f, "update_issue">>
                once == CheckedInRow(k, failures[k], u, s)
            IN  IsOpen(CheckedInRow(k, Reported(once, again), u, t)) => IsOpen(once)

(* A failure is never resolved before it was first reported, although a    *)
(* check-in may carry an observation from before the report                 *)
(* (ResolveDeviceUpdateFailures takes the later of the two times).          *)
ResolvedAfterFirstReport ==
    \A k \in DOMAIN failures :
        failures[k].resolved # Null => failures[k].resolved >= failures[k].first

(* A check-in delivered late never takes the device back: the time of the   *)
(* observation on file never decreases, and the update changes only with an *)
(* observation at least as recent (the guard in TouchDeviceIdentity and in  *)
(* RegisterDevice).                                                         *)
ObservationAdvances == device'.observed >= device.observed /\ device'.arrived >= device.arrived
ObservationsNeverGoBack == [][ObservationAdvances]_registryVars

=============================================================================
