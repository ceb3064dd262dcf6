---------------------------- MODULE RuntimeHealth ----------------------------
(***************************************************************************)
(* What one crash or one start of the JS runtime does to the health record *)
(* of a device on an update: a row of device_update_failures and the       *)
(* watermarks of device_update_runtime_state.  Zero stands for SQL's NULL. *)
(***************************************************************************)
EXTENDS Naturals

Null == 0
NoFailure == [first |-> Null, last |-> Null, resolved |-> Null]
Healthy == [row |-> NoFailure, started |-> Null, crashed |-> Null]

IsOpen(row) == row # NoFailure /\ row.resolved = Null

Later(s, t) == IF s > t THEN s ELSE t

Reported(row, t) ==
    IF row = NoFailure THEN [first |-> t, last |-> t, resolved |-> Null]
    ELSE [row EXCEPT !.last = Later(@, t)]

Reopening(row, t) ==
    [Reported(row, t) EXCEPT !.resolved = IF @ # Null /\ t > @ THEN Null ELSE @]

\* RecordDeviceRuntimeFailure: a crash at device time t.
RecordDeviceRuntimeFailure(health, t) ==
    LET crashed == Later(health.crashed, t)
    IN  [health EXCEPT
            !.crashed = crashed,
            !.row = IF health.started = Null \/ crashed >= health.started
                    THEN Reopening(@, t) ELSE @]

\* ResolveDeviceRuntimeFailure: a start at device time t.
ResolveDeviceRuntimeFailure(health, t) ==
    LET started == Later(health.started, t)
    IN  [health EXCEPT
            !.started = started,
            !.row = IF IsOpen(@) /\ @.last < started
                    THEN [@ EXCEPT !.resolved = started] ELSE @]

=============================================================================
