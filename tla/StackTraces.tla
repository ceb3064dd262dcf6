----------------------------- MODULE StackTraces ----------------------------
(***************************************************************************)
(* What a source map index contains and what a stack trace becomes: the    *)
(* mappings of a map decoded into segments, the index with its fences, the *)
(* lookup of a position, the frames kept of a trace, the fingerprint that  *)
(* counts an error and the one that groups it across updates.  Each is     *)
(* checked against its definition on inputs built one piece at a time.     *)
(***************************************************************************)
EXTENDS Integers, Sequences, SequencesExt, FiniteSets, FiniteSetsExt, Functions

CONSTANTS
    Studies,        \* the inputs to build: subset of {"map", "texts", "trace", "line", "file"}
    Deltas,         \* segments as the mappings encode them, decoded from VLQ
    SourceCount,    \* len(raw.Sources)
    NameCount,      \* len(raw.Names)
    MaxSegments,    \* bound on the segments of a map
    MaxMapLines,    \* bound on its generated lines
    FenceStride,    \* fenceStride
    VLQValues,      \* numbers encoded and decoded
    SourceTexts,    \* texts of sources
    FrameNames,     \* frames of a trace: function, file, line and column
    OriginOf,       \* the origin of a frame in the index, or NoOrigin
    NoOrigin,
    NativeFrames,   \* the frames of native code
    Renamed,        \* the same frame in another bundle
    KeptRecent,     \* recentFramesKept
    KeptOldest,     \* oldestFramesKept
    TraceRoom,      \* maxStacktraceRunes, in lines
    MaxTraceLines,  \* bound on the lines of a trace
    LineLengths,    \* lengths of source lines
    FileLengths     \* numbers of lines of source files

ASSUME TracesAssumption ==
    /\ FenceStride \in Nat \ {0} /\ KeptRecent \in Nat \ {0} /\ KeptOldest \in Nat \ {0}
    /\ \A d \in Deltas : Len(d) \in {1, 4, 5}
    /\ Renamed \in [FrameNames -> FrameNames]
    /\ \A f \in FrameNames : OriginOf[Renamed[f]] = OriginOf[f]

VARIABLES
    study,          \* which input is being built
    mappings,       \* the generated lines of a map, each a sequence of deltas
    contents,       \* the texts of its sources
    traceLines,     \* the lines of a stack trace
    spot            \* a position in a source file: lengths, line and column

traceVars == <<study, mappings, contents, traceLines, spot>>

-----------------------------------------------------------------------------
(* parseMap.                                                                 *)

\* VLQ, least significant digit first: five bits a digit and one that says the
\* number goes on; the lowest bit of the number is its sign.
EncodeVLQ(v) ==
    LET bits == IF v < 0 THEN 2 * (-v) + 1 ELSE 2 * v IN
    IF bits < 32 THEN <<bits>>
    ELSE IF bits < 1024 THEN <<32 + (bits % 32), bits \div 32>>
    ELSE <<32 + (bits % 32), 32 + ((bits \div 32) % 32), bits \div 1024>>

\* decodeVLQ, of one number.
DecodeVLQ(digits) ==
    LET value == FoldRight(LAMBDA d, high : (32 * high) + (d % 32), digits, 0) IN
    IF value % 2 = 1 THEN -(value \div 2) ELSE value \div 2

NoIndex == -1
Totals == [column |-> 0, source |-> 0, originalLine |-> 0, originalColumn |-> 0, name |-> 0]

\* runningTotals.add: every field is relative to its last value.
Add(t, d) ==
    LET more == Len(d) >= 4 IN
    [column |-> t.column + d[1],
     source |-> IF more THEN t.source + d[2] ELSE t.source,
     originalLine |-> IF more THEN t.originalLine + d[3] ELSE t.originalLine,
     originalColumn |-> IF more THEN t.originalColumn + d[4] ELSE t.originalColumn,
     name |-> IF Len(d) = 5 THEN t.name + d[5] ELSE t.name]

\* The totals a map may reach: what add refuses is an invalid map.
InRange(t, d) ==
    /\ t.column >= 0
    /\ Len(d) >= 4 => t.source \in 0..(SourceCount - 1) /\ t.originalLine >= 0 /\ t.originalColumn >= 0
    /\ Len(d) = 5 => t.name \in 0..(NameCount - 1)

\* The segment that totals and the fields of a delta describe.
SegmentOf(line, t, d) ==
    [line |-> line, column |-> t.column,
     source |-> IF Len(d) >= 4 THEN t.source ELSE NoIndex,
     originalLine |-> IF Len(d) >= 4 THEN t.originalLine ELSE 0,
     originalColumn |-> IF Len(d) >= 4 THEN t.originalColumn ELSE 0,
     name |-> IF Len(d) = 5 THEN t.name ELSE NoIndex]

\* ";" ends a generated line, and the column starts again.
NewLine(t) == [t EXCEPT !.column = 0]

\* decodeMappings: the segments in the order of the file, or an invalid map.
DecodeMappings(lines) ==
    LET Segment(acc, d) ==
            LET t == Add(acc.totals, d) IN
            [acc EXCEPT !.totals = t, !.valid = @ /\ InRange(t, d),
                        !.segments = Append(@, SegmentOf(acc.line, t, d))]
        Line(acc, deltas) ==
            LET end == FoldLeft(Segment, acc, deltas) IN
            [end EXCEPT !.line = @ + 1, !.totals = NewLine(@)]
    IN FoldLeft(Line, [line |-> 0, totals |-> Totals, valid |-> TRUE, segments |-> <<>>], lines)

-----------------------------------------------------------------------------
(* The index.                                                                *)

SegmentLess(a, b) == a.line < b.line \/ (a.line = b.line /\ a.column < b.column)

InOrderSegments(segments) == \A i, j \in DOMAIN segments : i < j => ~SegmentLess(segments[j], segments[i])

\* fencesOf: the position of every FenceStride-th segment.
FencesOf(segments) ==
    [k \in 1..((Len(segments) + FenceStride - 1) \div FenceStride) |->
        LET s == segments[(k - 1) * FenceStride + 1] IN [line |-> s.line, column |-> s.column]]

\* textSpans: each text right after the one before.
TextSpans(texts) ==
    [i \in DOMAIN texts |-> [offset |-> FoldLeft(LAMBDA n, t : n + Len(t), 0, SubSeq(texts, 1, i - 1)),
                             length |-> Len(texts[i])]]

\* The sizes the layout is made of: header, segment, and the tables in between.
HeaderSize == 48
SegmentSize == 24

\* WriteIndex: the header counts the segments and the fences and says where the
\* segments and the texts start.
WriteIndex(segments, tableBytes) ==
    [SegmentCount |-> Len(segments), FenceCount |-> Len(FencesOf(segments)),
     SegmentsOffset |-> HeaderSize + tableBytes,
     TextsOffset |-> HeaderSize + tableBytes + SegmentSize * Len(segments)]

\* decodeHeader refuses a header that does not add up.
DecodeHeader(h) ==
    /\ h.SegmentsOffset >= HeaderSize /\ h.SegmentsOffset <= h.TextsOffset
    /\ h.TextsOffset - h.SegmentsOffset = SegmentSize * h.SegmentCount
    /\ h.FenceCount = (h.SegmentCount + FenceStride - 1) \div FenceStride

\* sourceText, through its span.
SourceText(texts, i) ==
    LET span == TextSpans(texts)[i] IN SubSeq(FlattenSeq(texts), span.offset + 1, span.offset + span.length)

\* sort.Search: the first place a condition holds at, the length when nowhere.
Search(n, Cond(_)) == Min({i \in 0..(n - 1) : Cond(i)} \cup {n})

\* fenceBefore: the last fence not past the target; -1 when there is none.
FenceBefore(segments, target) ==
    LET fences == FencesOf(segments) IN
    Search(Len(fences), LAMBDA i : SegmentLess(target, fences[i + 1])) - 1

\* Mutant: the fence is read without the segment it points at.
AfterTheFence(segments, k) ==
    SubSeq(segments, k * FenceStride + 2, Min({(k + 1) * FenceStride, Len(segments)}))

\* readAfterFence: the segments from one fence to the next.
ReadAfterFence(segments, k) ==
    SubSeq(segments, k * FenceStride + 1, Min({(k + 1) * FenceStride, Len(segments)}))

\* lastAtOrBefore: 0 when every segment is past the target.
LastAtOrBefore(segments, target) ==
    Search(Len(segments), LAMBDA i : SegmentLess(target, segments[i + 1]))

Nowhere == [source |-> NoIndex]

\* position: lines and columns count from one.
Position(s) == [source |-> s.source, line |-> s.originalLine + 1, column |-> s.originalColumn + 1,
                name |-> s.name]

\* Lookup of a generated position.
Lookup(segments, line, column) ==
    LET target == [line |-> line, column |-> column]
        fence == FenceBefore(segments, target)
        near == ReadAfterFence(segments, fence)
        i == LastAtOrBefore(near, target)
    IN IF fence < 0 \/ i = 0 \/ near[i].line # line \/ near[i].source = NoIndex THEN Nowhere
       ELSE Position(near[i])

-----------------------------------------------------------------------------
(* Reading a trace at ingest.  A line is a frame, a count of frames left out, *)
(* or text.                                                                   *)

FrameLine(f) == [kind |-> "frame", frame |-> f, skipped |-> 0]
SkipLine(n) == [kind |-> "skip", frame |-> NoOrigin, skipped |-> n]
TextLine == [kind |-> "text", frame |-> NoOrigin, skipped |-> 0]

IsFrame(line) == line.kind = "frame"
FramesIn(lines) == LET frames == SelectSeq(lines, IsFrame) IN [i \in DOMAIN frames |-> frames[i].frame]

\* The places in a sequence where a condition holds, in order.
Places(lines, Cond(_)) == SelectSeq([i \in DOMAIN lines |-> i], Cond)

SkippedIn(lines) == FoldLeft(LAMBDA n, line : n + line.skipped, 0, lines)

\* The frames in the middle, with the ones an earlier line already left out.
FramesBetween(lines, between) ==
    Len(SelectSeq(lines, IsFrame)) - KeptRecent - KeptOldest + SkippedIn(between)

\* skipMiddleFrames: up to the last recent frame kept, and from the first oldest
\* one.
SkipMiddleFrames(lines) ==
    LET at == Places(lines, LAMBDA i : IsFrame(lines[i]))
        lastRecent == at[KeptRecent]
        firstOldest == at[Len(at) - KeptOldest + 1]
        between == SubSeq(lines, lastRecent + 1, firstOldest - 1)
    IN SubSeq(lines, 1, lastRecent) \o <<SkipLine(FramesBetween(lines, between))>>
         \o SubSeq(lines, firstOldest, Len(lines))

\* The first n lines of a kind, and every line of another.
KeepFirst(lines, n, OfKind(_)) ==
    LET keep == Places(lines, LAMBDA i : OfKind(lines[i]) =>
                                    Cardinality({j \in 1..i : OfKind(lines[j])}) <= n)
    IN [k \in DOMAIN keep |-> lines[keep[k]]]

\* readStacktrace: frames come first in the room, and the message lines take what
\* is left.
ReadStacktrace(lines) ==
    LET many == Len(FramesIn(lines)) > KeptRecent + KeptOldest
        short == IF many THEN SkipMiddleFrames(lines) ELSE lines
        Coded(line) == line.kind # "text"
        Text(line) == line.kind = "text"
        room == TraceRoom - Len(SelectSeq(short, Coded))
    IN KeepFirst(KeepFirst(short, TraceRoom, Coded), room, Text)

\* Equal neighbours once.
Folded(keys) ==
    FoldLeft(LAMBDA acc, k : IF acc # <<>> /\ Last(acc) = k THEN acc ELSE Append(acc, k), <<>>, keys)

\* frameKeys, of which errorFingerprint is a hash: what counts as the same error
\* of an update.
FrameKeys(lines) == Folded(FramesIn(ReadStacktrace(lines)))

-----------------------------------------------------------------------------
(* Symbolicating the stored trace.                                           *)

\* ReadTrace: a recursion is one entry, and so is a count of frames left out.
ReadTrace(lines) ==
    LET Entry(acc, line) ==
            CASE line.kind = "text" -> acc
              [] line.kind = "skip" -> Append(acc, [frame |-> NoOrigin, repeat |-> 0, skipped |-> line.skipped])
              [] OTHER -> IF acc # <<>> /\ Last(acc).frame = line.frame /\ Last(acc).skipped = 0
                          THEN [acc EXCEPT ![Len(acc)].repeat = @ + 1]
                          ELSE Append(acc, [frame |-> line.frame, repeat |-> 1, skipped |-> 0])
    IN FoldLeft(Entry, <<>>, lines)

\* Symbolicate: the origin of an entry.
OriginAt(entry) == IF entry.skipped > 0 \/ entry.frame \in NativeFrames THEN NoOrigin ELSE OriginOf[entry.frame]

\* originKey: the line of code, then the name in the map, then the function.
OriginKey(frame, origin) ==
    <<origin.source, IF origin.text # "" THEN origin.text ELSE IF origin.name # "" THEN origin.name ELSE frame>>

\* groupKeys, of the entries it keeps.
GroupKeys(kept) ==
    Folded([i \in DOMAIN kept |-> IF OriginAt(kept[i]) = NoOrigin THEN <<"", kept[i].frame>>
                                  ELSE OriginKey(kept[i].frame, OriginAt(kept[i]))])

InApp(entry) == OriginAt(entry) # NoOrigin /\ OriginAt(entry).inApp
IsMapped(entry) == OriginAt(entry) # NoOrigin
IsScript(entry) == entry.skipped = 0 /\ entry.frame \notin NativeFrames

\* GroupFingerprint: the in-app frames, else the mapped ones, else the frames of
\* scripts, else (<<>>) the message.
GroupFingerprint(trace) ==
    CASE \E i \in DOMAIN trace : InApp(trace[i]) -> GroupKeys(SelectSeq(trace, InApp))
      [] (\A i \in DOMAIN trace : ~InApp(trace[i])) /\ (\E i \in DOMAIN trace : IsMapped(trace[i]))
            -> GroupKeys(SelectSeq(trace, IsMapped))
      [] OTHER -> GroupKeys(SelectSeq(trace, IsScript))

\* Culprit: the source of the first in-app frame; "" without one.
Culprit(trace) ==
    LET apps == SelectSeq(trace, InApp) IN IF apps = <<>> THEN "" ELSE OriginAt(apps[1]).source

-----------------------------------------------------------------------------
(* The source around a frame.                                                *)

ContextLines == 5
MaxContextLine == 150
TrimmedLine == 140

Least(a, b) == IF a < b THEN a ELSE b
Most(a, b) == IF a > b THEN a ELSE b

\* around: the lines shown, none when the file has no such line.
Around(length, line) ==
    IF line < 1 \/ line > length THEN {} ELSE Most(line - ContextLines, 1)..Least(line + ContextLines, length)

\* trimLine: the part of a long line that is kept, from after the first number up
\* to the second.
TrimLine(length, column) ==
    LET wanted == Most(Least(column, length) - 60, 0)
        start == IF wanted < 5 THEN 0 ELSE wanted
        end == Least(start + TrimmedLine, length)
    IN IF length <= MaxContextLine THEN <<0, length>>
       ELSE IF end > length - 5 THEN <<Most(length - TrimmedLine, 0), length>> ELSE <<start, end>>

-----------------------------------------------------------------------------
(* The inputs.                                                               *)

NoSpot == [length |-> 0, column |-> 1, file |-> 0, line |-> 1]

TracesInit ==
    /\ study \in Studies
    /\ mappings = <<<<>>>> /\ contents = <<>> /\ traceLines = <<>> /\ spot = NoSpot

TracesNext ==
    \/ /\ study = "map"
       /\ \/ /\ Len(FlattenSeq(mappings)) < MaxSegments
             /\ \E d \in Deltas : mappings' = [mappings EXCEPT ![Len(mappings)] = Append(@, d)]
          \/ Len(mappings) < MaxMapLines /\ mappings' = Append(mappings, <<>>)
       /\ UNCHANGED <<study, contents, traceLines, spot>>
    \/ /\ study = "texts" /\ Len(contents) < SourceCount
       /\ \E t \in SourceTexts : contents' = Append(contents, t)
       /\ UNCHANGED <<study, mappings, traceLines, spot>>
    \/ /\ study = "trace" /\ Len(traceLines) < MaxTraceLines
       /\ \E line \in {FrameLine(f) : f \in FrameNames} \cup {SkipLine(2), TextLine} :
             traceLines' = Append(traceLines, line)
       /\ UNCHANGED <<study, mappings, contents, spot>>
    \/ /\ study \in {"line", "file"} /\ spot = NoSpot
       /\ \/ /\ study = "line"
             /\ \E n \in LineLengths : \E c \in 1..(n + 2) :
                   spot' = [NoSpot EXCEPT !.length = n, !.column = c]
          \/ /\ study = "file"
             /\ \E m \in FileLengths : \E l \in 0..(m + 1) :
                   spot' = [NoSpot EXCEPT !.file = m, !.line = l]
       /\ UNCHANGED <<study, mappings, contents, traceLines>>

TracesSpec == TracesInit /\ [][TracesNext]_traceVars

-----------------------------------------------------------------------------
\* The segments of the map in the order of the file.
Listed == FlattenSeq([l \in DOMAIN mappings |->
                        [k \in DOMAIN mappings[l] |-> [line |-> l - 1, at |-> k, delta |-> mappings[l][k]]]])

\* The value of a field at the n-th segment: the sum of what was written so far,
\* of the line for the column.
ColumnAt(n) == FoldLeft(LAMBDA sum, d : sum + d[1], 0, SubSeq(mappings[Listed[n].line + 1], 1, Listed[n].at))
FieldAt(n, field) ==
    FoldLeft(LAMBDA sum, x : IF Len(x.delta) >= field THEN sum + x.delta[field] ELSE sum, 0, SubSeq(Listed, 1, n))

\* A map WriteIndex accepts answers every position by the definition of a source
\* map: the last segment of the line at or before the column, each field the sum
\* of its deltas.  The fences lose no segment, equal positions included.
LookupByDefinition ==
    LET decoded == DecodeMappings(mappings)
        Expected(line, column) ==
            LET on == {n \in DOMAIN Listed : Listed[n].line = line /\ ColumnAt(n) <= column}
                last == Max(on)
            IN IF on = {} THEN Nowhere
               ELSE IF Len(Listed[last].delta) = 1 THEN Nowhere
               ELSE [source |-> FieldAt(last, 2), line |-> FieldAt(last, 3) + 1,
                     column |-> FieldAt(last, 4) + 1,
                     name |-> IF Len(Listed[last].delta) = 5 THEN FieldAt(last, 5) ELSE NoIndex]
    IN study = "map" /\ decoded.valid /\ InOrderSegments(decoded.segments) =>
        \A line \in 0..MaxMapLines, column \in 0..MaxSegments :
            Lookup(decoded.segments, line, column) = Expected(line, column)

\* What WriteIndex writes can be opened: the header adds up, every text is read
\* back through its span, and a number survives its digits.
IndexesOpen ==
    /\ study = "map" => DecodeHeader(WriteIndex(DecodeMappings(mappings).segments, 8 * Len(mappings)))
    /\ study = "texts" => \A i \in DOMAIN contents : SourceText(contents, i) = contents[i]
    /\ study = "texts" => \A v \in VLQValues : DecodeVLQ(EncodeVLQ(v)) = v

Fits(lines) == Len(SelectSeq(ReadStacktrace(lines), LAMBDA line : line.kind # "text")) < TraceRoom

\* The trace that is stored stands for every frame of the trace that was sent: the
\* frames shown, each as often as it repeats, and the frames left out add up, over
\* both cuts.  Reading it again changes nothing, so the fingerprint taken at
\* ingest is the fingerprint of what is stored.
TracesAddUp ==
    LET stored == ReadStacktrace(traceLines)
        shown == ReadTrace(stored)
    IN study = "trace" =>
        /\ Fits(traceLines) =>
              FoldLeft(LAMBDA n, x : n + x.repeat + x.skipped, 0, shown)
                = Len(FramesIn(traceLines)) + SkippedIn(traceLines)
        /\ ReadStacktrace(stored) = stored

\* The trace with one frame repeated.
Deeper(lines, i, times) == SubSeq(lines, 1, i) \o [k \in 1..times |-> lines[i]] \o SubSeq(lines, i + 1, Len(lines))

\* A recursion counts as the same error whatever its depth, as long as the frames
\* around it are among the ones that are kept.
DepthIsIgnored ==
    study = "trace" /\ (\A i \in DOMAIN traceLines : IsFrame(traceLines[i])) /\ TraceRoom > KeptRecent + KeptOldest =>
        \A i \in DOMAIN traceLines : i <= KeptRecent /\ Len(traceLines) - i < KeptOldest =>
            \A times \in 1..(KeptRecent + KeptOldest) :
                FrameKeys(Deeper(traceLines, i, times)) = FrameKeys(traceLines)

\* The sweep groups an error from one of its traces: two traces with the same
\* fingerprint have the same group, so any of them will do.
GroupFollowsFingerprint ==
    study = "trace" =>
        LET keys == FrameKeys(traceLines) IN
        GroupFingerprint(ReadTrace(ReadStacktrace(traceLines)))
            = GroupFingerprint(ReadTrace([i \in DOMAIN keys |-> FrameLine(keys[i])]))

\* An error has the same group in every update: another bundle moves and renames
\* its frames, and as long as one of them is mapped, the code they come from
\* decides.  The culprit is the same too.
SameGroupInEveryUpdate ==
    LET trace == ReadTrace(ReadStacktrace(traceLines))
        other == [i \in DOMAIN trace |-> IF trace[i].skipped > 0 THEN trace[i]
                                         ELSE [trace[i] EXCEPT !.frame = Renamed[@]]]
    IN study = "trace" /\ (\E i \in DOMAIN trace : IsMapped(trace[i])) =>
          GroupFingerprint(other) = GroupFingerprint(trace) /\ Culprit(other) = Culprit(trace)

\* The context of a frame has the line of the frame, and a line that is cut keeps
\* the column of the frame, with the real bounds of trimLine.
ContextShowsTheFrame ==
    LET cut == TrimLine(spot.length, spot.column)
        column == Least(spot.column, spot.length)
    IN /\ study = "line" /\ spot.length > 0 =>
             /\ cut[1] < column /\ column <= cut[2]
             /\ cut[2] - cut[1] \in {spot.length, TrimmedLine}
             /\ spot.length > MaxContextLine => cut[2] - cut[1] = TrimmedLine
       /\ study = "file" /\ spot.line \in 1..spot.file =>
             spot.line \in Around(spot.file, spot.line)
             /\ Cardinality(Around(spot.file, spot.line)) <= 2 * ContextLines + 1

\* The properties of indexes and traces.
TracesSound ==
    /\ LookupByDefinition /\ IndexesOpen /\ TracesAddUp /\ DepthIsIgnored
    /\ GroupFollowsFingerprint /\ SameGroupInEveryUpdate /\ ContextShowsTheFrame
=============================================================================
