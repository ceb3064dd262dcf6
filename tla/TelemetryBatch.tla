--------------------------- MODULE TelemetryBatch ---------------------------
(***************************************************************************)
(* What the ingestion of one telemetry batch computes from it, before any  *)
(* store is written: the records that survive the ceiling, the rows whose  *)
(* origin is looked up, the check-in and the runtime-health signals.       *)
(*                                                                         *)
(* A batch is a sequence of resources, each a sequence of records.  Only   *)
(* the update, the device time and the kind of a record matter here; update *)
(* 0 is the embedded bundle, whose origin is never looked up.  A batch of  *)
(* metrics is treated alike, a gauge point being a record.                 *)
(***************************************************************************)
EXTENDS RuntimeHealth, Sequences, SequencesExt, FiniteSets

CONSTANTS MaxRecords,            \* bound on the records sent
          UpdateIds,             \* updates a record may name
          DeviceTimes,           \* times a record may carry
          MaxRecordsPerBatch,
          MaxUpdateLookups,
          MaxRuntimeSignals

VARIABLE sent                    \* the batch, as the device sends it

TelemetryRecord == [update : UpdateIds, at : DeviceTimes, kind : {"crash", "start", "log"}]

SentSize(resources) == Len(FlattenSeq(resources))

SentInit == sent = <<>>

\* The device adds a record, in the resource of the last one or in a new one.
SendRecord ==
    /\ SentSize(sent) < MaxRecords
    /\ \E r \in TelemetryRecord :
         \/ sent' = Append(sent, <<r>>)
         \/ sent # <<>> /\ sent' = [sent EXCEPT ![Len(sent)] = Append(@, r)]

\* The device adds a resource that carries no record.
SendEmptyResource ==
    /\ SentSize(sent) < MaxRecords
    /\ IF sent = <<>> THEN TRUE ELSE Last(sent) # <<>>
    /\ sent' = Append(sent, <<>>)

SentNext == SendRecord \/ SendEmptyResource

SentSpec == SentInit /\ [][SentNext]_sent

-----------------------------------------------------------------------------
(* Decoding. *)

LeadingSkip(total) == IF total <= MaxRecordsPerBatch THEN 0 ELSE total - MaxRecordsPerBatch

SkipInto(state, resource) ==
    IF state.skip > 0 /\ Len(resource) <= state.skip
    THEN [state EXCEPT !.skip = @ - Len(resource)]
    ELSE [skip |-> 0,
          kept |-> Append(state.kept, SubSeq(resource, state.skip + 1, Len(resource)))]

DecodeLogs(resources) ==
    FoldLeft(SkipInto, [skip |-> LeadingSkip(SentSize(resources)), kept |-> <<>>],
             resources).kept

\* FlattenLogs: one row per record, in order.
Rows(resources) == FlattenSeq(DecodeLogs(resources))

-----------------------------------------------------------------------------
(* Origins and check-in. *)

\* resolveRowOrigins: the updates looked up, walking the rows backwards.
Resolvable(rows) ==
    FoldRight(LAMBDA row, known :
                  IF row.update = 0 \/ Cardinality(known) = MaxUpdateLookups
                  THEN known ELSE known \cup {row.update},
              rows, {})

\* recordCheckIns: the last of the newest rows.
NewestRow(rows) ==
    FoldLeft(LAMBDA best, i : IF best = 0 \/ rows[i].at >= rows[best].at THEN i ELSE best,
             0, [i \in DOMAIN rows |-> i])

-----------------------------------------------------------------------------
(* Runtime health. *)

IsSignal(record) == record.kind \in {"crash", "start"} /\ record.update # 0

\* groupRuntimeHealthSignals: the signals about one update.
GroupRuntimeHealthSignals(rows, u) ==
    SelectSeq(rows, LAMBDA r : IsSignal(r) /\ r.update = u)

\* Source order; a crash follows a start of the same instant.
Precedes(a, b) ==
    IF a.at = b.at THEN a.kind = "start" /\ b.kind = "crash" ELSE a.at < b.at

InSourceOrder(signals) ==
    FoldLeft(LAMBDA sorted, x :
                 LET before == SelectSeq(sorted, LAMBDA y : ~Precedes(x, y))
                     after == SelectSeq(sorted, LAMBDA y : Precedes(x, y))
                 IN  before \o <<x>> \o after,
             <<>>, signals)

\* Repeated states collapse into one, dated by the last of them.
Collapse(compacted, x) ==
    IF compacted = <<>> \/ Last(compacted).kind # x.kind THEN Append(compacted, x)
    ELSE [compacted EXCEPT ![Len(compacted)].at = x.at]

NormalizeRuntimeHealthSignals(signals) == FoldLeft(Collapse, <<>>, InSourceOrder(signals))

\* The budget keeps the newest signals of a group.
NewestSignals(signals, budget) ==
    SubSeq(signals, IF Len(signals) > budget THEN Len(signals) - budget + 1 ELSE 1, Len(signals))

ApplyRuntimeHealthSignal(health, signal) ==
    IF signal.kind = "crash" THEN RecordDeviceRuntimeFailure(health, signal.at)
    ELSE ResolveDeviceRuntimeFailure(health, signal.at)

\* recordRuntimeHealth for update u: what the device's record becomes.
RecordRuntimeHealth(health, rows, u) ==
    FoldLeft(ApplyRuntimeHealthSignal, health,
             NewestSignals(NormalizeRuntimeHealthSignals(GroupRuntimeHealthSignals(rows, u)),
                           MaxRuntimeSignals))

-----------------------------------------------------------------------------
(* A batch over the ceiling keeps exactly its newest records, in order,     *)
(* however they are spread over resources, empty ones included (DecodeLogs, *)
(* DecodeMetrics), and the count reported as dropped is the rest.           *)
NewestRecordsKept ==
    LET all == FlattenSeq(sent)
        dropped == LeadingSkip(Len(all))
    IN  Rows(sent) = SubSeq(all, dropped + 1, Len(all))

(* Collapsing and cutting the signals of a batch (normalizeRuntimeHealth-   *)
(* Signals, recordRuntimeHealth) leaves the device as healthy as applying   *)
(* every signal in the order they arrived, for a device that had any record *)
(* before: only the newest crash and the newest start decide, the crash     *)
(* winning a tie.                                                           *)
CompactionIsTransparent ==
    LET rows == FlattenSeq(sent)
    IN  \A u \in UpdateIds \ {0}, past \in 0 .. 2 :
          LET signals == GroupRuntimeHealthSignals(rows, u)
              before == CASE past = 0 -> Healthy
                          [] past = 1 -> RecordDeviceRuntimeFailure(Healthy, 1)
                          [] past = 2 -> ResolveDeviceRuntimeFailure(
                                             RecordDeviceRuntimeFailure(Healthy, 1), 2)
              applied == FoldLeft(ApplyRuntimeHealthSignal, before, signals)
          IN  applied.crashed # applied.started =>
                (IsOpen(RecordRuntimeHealth(before, rows, u).row) <=> IsOpen(applied.row))

(* Only rows older than enough other updates go without their origin: the   *)
(* ceiling on lookups is spent on the newest rows (resolveRowOrigins).      *)
NewestOriginsResolved ==
    LET rows == Rows(sent)
    IN  \A i \in DOMAIN rows :
          rows[i].update \notin Resolvable(rows) \cup {0} =>
            Cardinality({rows[j].update : j \in (i + 1) .. Len(rows)} \ {0}) >= MaxUpdateLookups

\* The observation on file after the check-in of a batch (NotStale and
\* Observed of DeviceRegistry).
CheckedIn(onFile, rows) ==
    IF rows = <<>> THEN onFile
    ELSE LET newest == rows[NewestRow(rows)]
         IN  IF newest.at >= onFile.at THEN newest ELSE onFile

(* However a device's records are cut into two batches and whichever        *)
(* arrives first, the device ends on the update of one of its newest        *)
(* records: flushing a backlog never takes it back to an update it has left *)
(* (recordCheckIns).                                                        *)
CheckInsFollowNewest ==
    LET rows == FlattenSeq(sent)
    IN  \A cut \in 1 .. Len(rows) :
          LET early == SubSeq(rows, 1, cut)
              late == SubSeq(rows, cut + 1, Len(rows))
              none == [update |-> 0, at |-> 0, kind |-> "log"]
          IN  \A final \in {CheckedIn(CheckedIn(none, early), late),
                            CheckedIn(CheckedIn(none, late), early)} :
                \A i \in DOMAIN rows : rows[i].at <= final.at

=============================================================================
