---------------------------- MODULE ArchiveProofs ----------------------------
(***************************************************************************)
(* The audit log implements the archived log, for any number of recorders, *)
(* replicas and events, when ids are drawn in the order of the stamps and  *)
(* an insert is over before its row is old enough to be exported.          *)
(***************************************************************************)
EXTENDS AuditArchive, FiniteSetTheorems, FunctionTheorems, WellFoundedInduction,
        TLAPS

\* What the exporter's visibility lag is for: by the time a row is old enough to be
\* exported, every insert with a smaller id is over.
LagSuffices == InOrder /\ RecordTimeout <= Lag

Numbered == {w \in Recorders : inserts[w].pc = "numbered"}
Stamped == {w \in Recorders : inserts[w].pc = "stamped"}

Types ==
    /\ inserts \in [Recorders -> [pc : {"idle", "stamped", "numbered"}, age : 0..RecordTimeout,
                                  id : Nat]]
    /\ auditSeq \in Nat /\ exportCursor \in 0..auditSeq
    /\ committed \subseteq 1..auditSeq
    /\ auditLog \subseteq [id : committed, age : Nat] /\ IsFiniteSet(auditLog)
    /\ exporter \in [Replicas -> [pc : {"idle", "cursor", "list", "put", "advance"},
                                  cursor : Nat, batch : SUBSET [id : Nat, age : Nat]]]

\* Ids follow the stamps: a smaller id is at least as old, among inserts, among rows and
\* between the two, and an insert without an id is younger than both.
Ages ==
    /\ \A w \in Numbered : inserts[w].id \in (1..auditSeq) \ committed
    /\ \A v, w \in Numbered : inserts[v].id = inserts[w].id => v = w
    /\ \A v, w \in Numbered : inserts[v].id < inserts[w].id => inserts[w].age <= inserts[v].age
    /\ \A w \in Numbered, v \in Stamped : inserts[v].age <= inserts[w].age
    /\ \A e \in auditLog, w \in Numbered :
          /\ inserts[w].id < e.id => e.age <= inserts[w].age
          /\ e.id < inserts[w].id => inserts[w].age <= e.age
    /\ \A e \in auditLog, v \in Stamped : inserts[v].age <= e.age
    /\ \A d, e \in auditLog : d.id < e.id => e.age <= d.age

\* The purge takes rows from the front, and none the cursor has not passed.
Front ==
    \A id \in committed \ Ids(auditLog) : id <= exportCursor /\ \A e \in auditLog : id < e.id

\* The batch of an exporter has no gap, not even one that an insert under way could fill;
\* while the cursor is where the exporter read it, none between the cursor and the batch
\* either.
BatchOK(r) ==
    LET x == exporter[r] IN
    /\ x.cursor <= exportCursor
    /\ x.pc \notin {"put", "advance"} => x.batch = {}
    /\ x.pc \in {"put", "advance"} => x.batch # {}
    /\ \A e \in x.batch : e.id \in committed /\ e.id > x.cursor
    /\ \A e \in x.batch, w \in Numbered : e.id < inserts[w].id
    /\ \A e, f \in x.batch, id \in committed : e.id <= id /\ id <= f.id => id \in Ids(x.batch)
    /\ x.cursor = exportCursor =>
          \A e \in x.batch, id \in committed : x.cursor < id /\ id <= e.id => id \in Ids(x.batch)
    /\ x.pc = "advance" => Ids(x.batch) \subseteq Archived

Batches == \A r \in Replicas : BatchOK(r)

\* A file holds events between its first and its last.
FilesOK ==
    \A f \in files : f.ids \subseteq committed /\ \A i \in f.ids : f.first <= i /\ i <= f.last

IInv == Types /\ Ages /\ Front /\ Batches /\ FilesOK /\ NoEventSkipped

-----------------------------------------------------------------------------
(* Least and greatest members.                                             *)

\* A set of numbers that is not empty has a least member, which Min returns.
LEMMA MinOfNaturals ==
    ASSUME NEW S \in SUBSET Nat, S # {}
    PROVE  Min(S) \in S /\ \A y \in S : Min(S) <= y
<1> DEFINE Below == {ss \in Nat \X Nat : ss[1] < ss[2]}
<1>1. IsWellFoundedOn(Below, Nat)
  BY NatLessThanWellFounded DEF OpToRel
<1> HIDE DEF Below
<1>2. PICK x \in S : \A y \in S : ~(<<y, x>> \in Below)
  BY <1>1, WFMin
<1>4. \A y \in S : x <= y
  <2> SUFFICES ASSUME NEW y \in S PROVE x <= y
    OBVIOUS
  <2>1. x \in Nat /\ y \in Nat /\ <<y, x>> \in Nat \X Nat
    OBVIOUS
  <2>2. ~(y < x)
    BY <1>2, <2>1 DEF Below
  <2> QED BY <2>1, <2>2
<1>3. Min(S) = CHOOSE m \in S : \A y \in S : m <= y
  BY DEF Min
<1> QED BY <1>3, <1>4

\* A set of numbers up to n that is not empty has a greatest member, which Max returns.
LEMMA MaxOfNaturals ==
    ASSUME NEW n \in Nat, NEW S \in SUBSET (0..n), S # {}
    PROVE  Max(S) \in S /\ \A y \in S : y <= Max(S)
<1> DEFINE T == {n - y : y \in S}
<1>0. \A y \in S : y \in Nat /\ y <= n /\ n - y \in Nat
  OBVIOUS
<1>1. T \in SUBSET Nat /\ T # {}
  BY <1>0
<1>2. PICK t \in T : \A u \in T : t <= u
  <2> HIDE DEF T
  <2> QED BY <1>1, MinOfNaturals
<1>3. PICK x \in S : t = n - x
  OBVIOUS
<1>4. \A y \in S : x >= y
  <2> SUFFICES ASSUME NEW y \in S PROVE x >= y
    OBVIOUS
  <2>1. n - x <= n - y
    BY <1>2, <1>3
  <2> QED BY <1>0, <2>1
<1>5. Max(S) = CHOOSE m \in S : \A y \in S : m >= y
  BY DEF Max
<1>6. Max(S) \in S /\ \A y \in S : Max(S) >= y
  BY <1>4, <1>5
<1> QED BY <1>6

\* The cap of an age in AuditTick is the smaller of two numbers.
LEMMA MinOfTwo ==
    ASSUME NEW a \in Nat, NEW b \in Nat
    PROVE  Min({a, b}) = IF a <= b THEN a ELSE b
<1> DEFINE m == Min({a, b})
<1>1. {a, b} \in SUBSET Nat /\ {a, b} # {}
  OBVIOUS
<1>2. m \in {a, b} /\ \A y \in {a, b} : m <= y
  <2> HIDE DEF m
  <2> QED BY <1>1, MinOfNaturals DEF m
<1> HIDE DEF m
<1>3. m = IF a <= b THEN a ELSE b
  BY <1>2
<1> QED BY <1>3 DEF m

\* Past the cap, a row is old enough for the export and for the purge.
LEMMA OldEnoughIsOld == OldEnough \in Nat /\ OldEnough > Lag /\ OldEnough > Retention
<1> DEFINE m == Max({Lag, Retention})
<1>1. PICK n \in Nat : Lag <= n /\ Retention <= n
  BY ArchiveAssumption
<1>2. {Lag, Retention} \in SUBSET (0..n) /\ {Lag, Retention} # {}
  BY <1>1, ArchiveAssumption
<1>3. m \in {Lag, Retention} /\ \A y \in {Lag, Retention} : y <= m
  BY <1>2, MaxOfNaturals
<1>4. OldEnough = m + 1
  BY DEF OldEnough
<1> HIDE DEF m
<1> QED BY <1>3, <1>4, ArchiveAssumption

-----------------------------------------------------------------------------
(* The initial state, and what the steps of one kind leave alone.          *)

\* Nothing is recorded, inserted or exported at the start.
LEMMA ArchiveInitial == AuditInit => IInv
<1> SUFFICES ASSUME AuditInit PROVE IInv
  OBVIOUS
<1>1. Types
  BY ArchiveAssumption, FS_EmptySet DEF AuditInit, Types, NoInsert, NoExport
<1>2. Numbered = {} /\ Stamped = {}
  BY DEF AuditInit, NoInsert, Numbered, Stamped
<1>3. Ages /\ Front /\ FilesOK /\ NoEventSkipped
  BY <1>2 DEF AuditInit, Ages, Front, FilesOK, NoEventSkipped, Numbered
<1>4. Batches
  BY <1>2 DEF AuditInit, Batches, BatchOK, NoExport
<1> QED BY <1>1, <1>3, <1>4 DEF IInv

Exports ==
    (\E r \in Replicas : ExportStep(r) \/ AbandonExport(r)) \/ LoseLock

\* The members of the state, one by one.
LEMMA Members ==
    ASSUME Types
    PROVE  /\ \A w \in Recorders : /\ inserts[w].age \in Nat /\ inserts[w].age <= RecordTimeout
                                   /\ inserts[w].id \in Nat
           /\ \A e \in auditLog : e.id \in committed /\ e.id \in Nat /\ e.age \in Nat
           /\ \A i \in committed : i \in Nat /\ i > 0 /\ i <= auditSeq
           /\ \A r \in Replicas : /\ exporter[r].cursor \in Nat
                                  /\ \A e \in exporter[r].batch : e.id \in Nat /\ e.age \in Nat
<1>1. ASSUME NEW w \in Recorders
      PROVE  inserts[w].age \in Nat /\ inserts[w].age <= RecordTimeout /\ inserts[w].id \in Nat
  BY ArchiveAssumption DEF Types
<1>2. \A i \in committed : i \in Nat /\ i > 0 /\ i <= auditSeq
  BY DEF Types
<1>3. ASSUME NEW e \in auditLog PROVE e.id \in committed /\ e.age \in Nat
  BY DEF Types
<1>4. ASSUME NEW r \in Replicas
      PROVE  exporter[r].cursor \in Nat /\ exporter[r].batch \subseteq [id : Nat, age : Nat]
  BY DEF Types
<1> QED BY <1>1, <1>2, <1>3, <1>4

\* What an exporter does not touch.
LEMMA ExportsTouchNoRow ==
    ASSUME Exports
    PROVE  UNCHANGED <<inserts, auditSeq, auditLog, committed>>
<1>1. ASSUME NEW r \in Replicas, ExportStep(r)
      PROVE  UNCHANGED <<inserts, auditSeq, auditLog, committed>>
  BY <1>1 DEF ExportStep, TryExportLock, ReadCursor, ListBatch, PutBatch, AdvanceExportCursor
<1>2. ASSUME NEW r \in Replicas, AbandonExport(r)
      PROVE  UNCHANGED <<inserts, auditSeq, auditLog, committed>>
  BY <1>2 DEF AbandonExport
<1>3. ASSUME LoseLock PROVE UNCHANGED <<inserts, auditSeq, auditLog, committed>>
  BY <1>3 DEF LoseLock
<1> QED BY <1>1, <1>2, <1>3 DEF Exports

\* The ids of a batch have a least and a greatest member.
LEMMA BatchBounds ==
    ASSUME Types, NEW r \in Replicas, BatchOK(r), exporter[r].batch # {}
    PROVE  LET ids == Ids(exporter[r].batch) IN
           /\ ids \subseteq committed /\ ids \subseteq Nat
           /\ Min(ids) \in ids /\ Max(ids) \in ids
           /\ \A i \in ids : Min(ids) <= i /\ i <= Max(ids)
<1> DEFINE ids == Ids(exporter[r].batch)
<1>1. ids \subseteq committed /\ ids # {}
  BY DEF BatchOK, Ids
<1>2. \A i \in committed : i \in 0..auditSeq
  BY DEF Types
<1>3. PICK n : n = auditSeq
  OBVIOUS
<1>4. PICK S : S = ids
  OBVIOUS
<1> HIDE DEF ids
<1>5. n \in Nat /\ S \in SUBSET (0..n) /\ S \in SUBSET Nat /\ S # {}
  BY <1>1, <1>2, <1>3, <1>4 DEF Types
<1>6. Min(S) \in S /\ (\A y \in S : Min(S) <= y)
  BY <1>5, MinOfNaturals
<1>7. Max(S) \in S /\ (\A y \in S : y <= Max(S))
  BY <1>5, MaxOfNaturals
<1>8. /\ ids \subseteq committed /\ ids \subseteq Nat
      /\ Min(ids) \in ids /\ Max(ids) \in ids
      /\ \A i \in ids : Min(ids) <= i /\ i <= Max(ids)
  BY <1>1, <1>4, <1>5, <1>6, <1>7
<1> QED BY <1>8 DEF ids

-----------------------------------------------------------------------------
(* Types.                                                                  *)

\* Recording, time and the purge keep the types.
LEMMA RowsTyped ==
    ASSUME Types,
           (\E w \in Recorders : Record(w) \/ DrawId(w) \/ Insert(w) \/ InsertFails(w))
             \/ PurgeOlderThan \/ AuditTick,
           \A w \in Numbered : inserts[w].id \in 1..auditSeq
    PROVE  Types'
<1> DEFINE In == [Recorders -> [pc : {"idle", "stamped", "numbered"}, age : 0..RecordTimeout,
                                id : Nat]]
<1>0. NoInsert \in [pc : {"idle", "stamped", "numbered"}, age : 0..RecordTimeout, id : Nat]
  BY ArchiveAssumption DEF NoInsert
<1>1. ASSUME NEW w \in Recorders, Record(w) PROVE Types'
  <2>1. [NoInsert EXCEPT !.pc = "stamped"]
          \in [pc : {"idle", "stamped", "numbered"}, age : 0..RecordTimeout, id : Nat]
    BY ArchiveAssumption DEF NoInsert
  <2>2. inserts' \in In
    BY <1>1, <2>1 DEF Record, Types
  <2> QED BY <1>1, <2>2 DEF Record, Types
<1>2. ASSUME NEW w \in Recorders, DrawId(w) PROVE Types'
  <2>1. inserts' \in In
    BY <1>2 DEF DrawId, Types
  <2>2. auditSeq' = auditSeq + 1 /\ committed \subseteq 1..(auditSeq + 1)
    BY <1>2 DEF DrawId, Types
  <2> QED BY <1>2, <2>1, <2>2 DEF DrawId, Types
<1>3. ASSUME NEW w \in Recorders, Insert(w) PROVE Types'
  <2>1. inserts' \in In
    BY <1>0, <1>3 DEF Insert, Types
  <2>2. inserts[w].id \in 1..auditSeq /\ inserts[w].age \in Nat
    BY <1>3, Members DEF Insert, Numbered
  <2>3. committed' = committed \cup {inserts[w].id} /\ committed' \subseteq 1..auditSeq
    BY <1>3, <2>2 DEF Insert, Types
  <2>4. ASSUME NEW e \in auditLog' PROVE e \in [id : committed', age : Nat]
    <3>1. CASE e \in auditLog
      BY <2>3, <3>1 DEF Types
    <3>2. CASE e = [id |-> inserts[w].id, age |-> inserts[w].age]
      BY <2>2, <2>3, <3>2
    <3> QED BY <1>3, <3>1, <3>2 DEF Insert
  <2>5. IsFiniteSet(auditLog')
    <3>1. PICK S, row : S = auditLog /\ auditLog' = S \cup {row}
      BY <1>3 DEF Insert
    <3> QED BY <3>1, FS_AddElement DEF Types
  <2> QED BY <1>3, <2>1, <2>3, <2>4, <2>5 DEF Insert, Types
<1>4. ASSUME NEW w \in Recorders, InsertFails(w) PROVE Types'
  <2>1. inserts' \in In
    BY <1>0, <1>4 DEF InsertFails, Types
  <2> QED BY <1>4, <2>1 DEF InsertFails, Types
<1>5. ASSUME PurgeOlderThan PROVE Types'
  <2>1. auditLog' \in SUBSET auditLog
    BY <1>5 DEF PurgeOlderThan
  <2>2. PICK S, R : S = auditLog /\ R = auditLog' /\ IsFiniteSet(S) /\ R \in SUBSET S
    BY <2>1 DEF Types
  <2>3. IsFiniteSet(R)
    BY <2>2, FS_Subset
  <2> QED BY <1>5, <2>1, <2>2, <2>3 DEF PurgeOlderThan, Types
<1>6. ASSUME AuditTick PROVE Types'
  <2>1. ASSUME NEW w \in Recorders
        PROVE  (IF inserts[w].pc = "idle" THEN inserts[w] ELSE [inserts[w] EXCEPT !.age = @ + 1])
                 \in [pc : {"idle", "stamped", "numbered"}, age : 0..RecordTimeout, id : Nat]
    <3>1. CASE inserts[w].pc = "idle"
      BY <3>1 DEF Types
    <3>2. CASE inserts[w].pc # "idle"
      <4>1. inserts[w].age + 1 \in 0..RecordTimeout
        BY <1>6, <3>2, Members, ArchiveAssumption DEF AuditTick
      <4> QED BY <3>2, <4>1 DEF Types
    <3> QED BY <3>1, <3>2
  <2>2. inserts' \in In
    BY <1>6, <2>1 DEF AuditTick
  <2>3. ASSUME NEW e \in auditLog
        PROVE  [e EXCEPT !.age = Min({e.age + 1, OldEnough})] \in [id : committed, age : Nat]
    <3>1. e \in [id : committed, age : Nat] /\ e.age + 1 \in Nat
      BY DEF Types
    <3>2. PICK a \in Nat : a = e.age + 1
      BY <3>1
    <3>3. Min({a, OldEnough}) \in Nat
      BY OldEnoughIsOld, MinOfTwo
    <3> QED BY <3>1, <3>2, <3>3
  <2>4. auditLog' \subseteq [id : committed, age : Nat]
    BY <1>6, <2>3 DEF AuditTick
  <2>5. IsFiniteSet(auditLog')
    <3>1. PICK S, R : /\ S = auditLog /\ IsFiniteSet(S)
                      /\ R = {[e EXCEPT !.age = Min({e.age + 1, OldEnough})] : e \in S}
      BY DEF Types
    <3> DEFINE f == [e \in S |-> [e EXCEPT !.age = Min({e.age + 1, OldEnough})]]
    <3>2. f \in Surjection(S, R)
      BY <3>1 DEF Surjection
    <3> HIDE DEF f
    <3>3. IsFiniteSet(R)
      BY <3>1, <3>2, FS_Surjection
    <3>4. auditLog' = R
      BY <1>6, <3>1 DEF AuditTick
    <3> QED BY <3>3, <3>4
  <2> QED BY <1>6, <2>2, <2>4, <2>5 DEF AuditTick, Types
<1> QED BY <1>1, <1>2, <1>3, <1>4, <1>5, <1>6

\* Exporting keeps the types.
LEMMA ExportsTyped ==
    ASSUME Types, Batches, Exports
    PROVE  Types'
<1> DEFINE Ex == [pc : {"idle", "cursor", "list", "put", "advance"}, cursor : Nat,
                  batch : SUBSET [id : Nat, age : Nat]]
<1>0. NoExport \in Ex /\ \A r \in Replicas : exporter[r] \in Ex
  BY DEF NoExport, Types
<1> SUFFICES exporter' \in [Replicas -> Ex] /\ exportCursor' \in 0..auditSeq
  BY ExportsTouchNoRow DEF Types
<1>1. ASSUME NEW r \in Replicas, NEW x \in Ex, ExporterBecomes(r, x)
      PROVE  exporter' \in [Replicas -> Ex]
  BY <1>1 DEF ExporterBecomes, Types
<1>2. exportCursor \in 0..auditSeq /\ exporter \in [Replicas -> Ex]
  BY DEF Types
<1>3. ASSUME NEW r \in Replicas, TryExportLock(r)
      PROVE  exporter' \in [Replicas -> Ex] /\ exportCursor' \in 0..auditSeq
  <2>1. [NoExport EXCEPT !.pc = "cursor"] \in Ex
    BY <1>0
  <2> HIDE DEF Ex
  <2> QED BY <1>1, <1>2, <1>3, <2>1 DEF TryExportLock
<1>4. ASSUME NEW r \in Replicas, ReadCursor(r)
      PROVE  exporter' \in [Replicas -> Ex] /\ exportCursor' \in 0..auditSeq
  <2>1. exporter[r] \in Ex /\ exportCursor \in Nat
    BY <1>0, <1>2 DEF Types
  <2>2. [exporter[r] EXCEPT !.pc = "list", !.cursor = exportCursor] \in Ex
    BY <2>1
  <2> HIDE DEF Ex
  <2> QED BY <1>1, <1>2, <1>4, <2>2 DEF ReadCursor
<1>5. ASSUME NEW r \in Replicas, ListBatch(r)
      PROVE  exporter' \in [Replicas -> Ex] /\ exportCursor' \in 0..auditSeq
  <2> DEFINE batch == ListAfter(exporter[r].cursor)
  <2>1. batch \subseteq [id : Nat, age : Nat]
    BY Members DEF ListAfter, ListAuditLogEventsAfter, Types
  <2>2. [exporter[r] EXCEPT !.pc = "put", !.batch = batch] \in Ex
    BY <1>0, <2>1
  <2> HIDE DEF Ex
  <2> QED BY <1>0, <1>1, <1>2, <1>5, <2>2 DEF ListBatch, Release
<1>6. ASSUME NEW r \in Replicas, PutBatch(r)
      PROVE  exporter' \in [Replicas -> Ex] /\ exportCursor' \in 0..auditSeq
  <2>1. [exporter[r] EXCEPT !.pc = "advance"] \in Ex
    BY <1>0
  <2> HIDE DEF Ex
  <2> QED BY <1>1, <1>2, <1>6, <2>1 DEF PutBatch
<1>7. ASSUME NEW r \in Replicas, AdvanceExportCursor(r)
      PROVE  exporter' \in [Replicas -> Ex] /\ exportCursor' \in 0..auditSeq
  <2>1. [NoExport EXCEPT !.pc = "cursor"] \in Ex
    BY <1>0
  <2>2. Max(Ids(exporter[r].batch)) \in 0..auditSeq
    BY <1>7, BatchBounds, Members DEF Batches, BatchOK, AdvanceExportCursor
  <2>3. exportCursor' \in 0..auditSeq
    BY <1>2, <1>7, <2>2 DEF AdvanceExportCursor, AdvanceAuditExportCursor
  <2>4. ExporterBecomes(r, NoExport) \/ ExporterBecomes(r, [NoExport EXCEPT !.pc = "cursor"])
    BY <1>7 DEF AdvanceExportCursor, Release
  <2> HIDE DEF Ex
  <2> QED BY <1>0, <1>1, <2>1, <2>3, <2>4
<1>8. ASSUME NEW r \in Replicas, AbandonExport(r)
      PROVE  exporter' \in [Replicas -> Ex] /\ exportCursor' \in 0..auditSeq
  <2> HIDE DEF Ex
  <2> QED BY <1>0, <1>1, <1>2, <1>8 DEF AbandonExport, Release
<1>9. ASSUME LoseLock PROVE exporter' \in [Replicas -> Ex] /\ exportCursor' \in 0..auditSeq
  BY <1>2, <1>9 DEF LoseLock
<1> HIDE DEF Ex
<1> QED BY <1>3, <1>4, <1>5, <1>6, <1>7, <1>8, <1>9 DEF Exports, ExportStep

-----------------------------------------------------------------------------
(* Ages.                                                                   *)

\* The steps of one recorder keep the order of ids and stamps: a new insert is the
\* youngest, and the oldest without an id is the next to draw one.
LEMMA RecordingKeepsAges ==
    ASSUME LagSuffices, Types, Ages, NEW w \in Recorders,
           Record(w) \/ DrawId(w) \/ Insert(w) \/ InsertFails(w)
    PROVE  Ages'
<1> USE Members DEF Ages
<1>0. \A v \in Recorders \ {w} : inserts'[v] = inserts[v]
  BY DEF Record, DrawId, Insert, InsertFails, Types
<1>1. ASSUME Record(w) PROVE Ages'
  <2>1. inserts'[w].pc = "stamped" /\ inserts'[w].age = 0
    BY <1>1 DEF Record, NoInsert, Types
  <2>2. Numbered' = Numbered /\ w \notin Numbered /\ Stamped' = Stamped \cup {w}
    BY <1>0, <1>1, <2>1 DEF Record, Numbered, Stamped
  <2>3. UNCHANGED <<auditLog, committed, auditSeq>> /\ \A v \in Numbered : v \in Recorders
    BY <1>1 DEF Record, Numbered
  <2> QED BY <1>0, <2>1, <2>2, <2>3 DEF Stamped
<1>2. ASSUME DrawId(w) PROVE Ages'
  <2>1. /\ inserts'[w].pc = "numbered" /\ inserts'[w].age = inserts[w].age
        /\ inserts'[w].id = auditSeq + 1
    BY <1>2 DEF DrawId, Types
  <2>2. /\ Numbered' = Numbered \cup {w} /\ w \notin Numbered /\ w \in Stamped
        /\ Stamped' = Stamped \ {w}
    BY ZenonT(60), <1>0, <1>2, <2>1 DEF DrawId, Numbered, Stamped
  <2>3. UNCHANGED <<auditLog, committed>> /\ auditSeq' = auditSeq + 1 /\ auditSeq \in Nat
    BY <1>2 DEF DrawId, Types
  <2>4. \A v \in Stamped : inserts[v].age <= inserts[w].age
    BY <1>2 DEF DrawId, Stamped, LagSuffices
  <2>5. \A v \in Numbered : v \in Recorders \ {w} /\ inserts[v].id <= auditSeq
    BY <2>2, <2>3 DEF Numbered
  <2>6. \A v \in Stamped \ {w} : v \in Recorders \ {w}
    BY DEF Stamped
  <2>7. \A v \in Numbered' : inserts'[v].id \in (1..auditSeq') \ committed'
    <3>1. auditSeq + 1 \in 1..(auditSeq + 1) /\ auditSeq + 1 \notin committed
      BY <2>3
    <3>2. \A i \in 1..auditSeq : i \in 1..(auditSeq + 1)
      BY <2>3
    <3> QED BY <1>0, <2>1, <2>2, <2>3, <2>5, <3>1, <3>2
  <2>8. \A u, v \in Numbered' : inserts'[u].id = inserts'[v].id => u = v
    BY <1>0, <2>1, <2>2, <2>3, <2>5
  <2>9. \A u, v \in Numbered' : inserts'[u].id < inserts'[v].id => inserts'[v].age <= inserts'[u].age
    BY <1>0, <2>1, <2>2, <2>3, <2>5
  <2>10. \A v \in Numbered', u \in Stamped' : inserts'[u].age <= inserts'[v].age
    BY <1>0, <2>1, <2>2, <2>4, <2>5, <2>6
  <2>11. ASSUME NEW e \in auditLog, NEW v \in Numbered'
         PROVE  /\ inserts'[v].id < e.id => e.age <= inserts'[v].age
                /\ e.id < inserts'[v].id => inserts'[v].age <= e.age
    <3>1. e.id <= auditSeq /\ e.id \in Nat
      OBVIOUS
    <3> QED BY <1>0, <2>1, <2>2, <2>3, <2>5, <3>1
  <2>12. \A e \in auditLog, u \in Stamped' : inserts'[u].age <= e.age
    BY <1>0, <2>2, <2>6
  <2>13. auditLog' = auditLog
    BY <2>3
  <2> QED BY <2>7, <2>8, <2>9, <2>10, <2>11, <2>12, <2>13
<1>3. ASSUME Insert(w) PROVE Ages'
  <2> DEFINE row == [id |-> inserts[w].id, age |-> inserts[w].age]
  <2>1. inserts'[w].pc = "idle"
    BY <1>3 DEF Insert, NoInsert, Types
  <2>2. Numbered' = Numbered \ {w} /\ w \in Numbered /\ Stamped' = Stamped
    BY <1>0, <1>3, <2>1 DEF Insert, Numbered, Stamped
  <2>3. /\ auditLog' = auditLog \cup {row} /\ committed' = committed \cup {inserts[w].id}
        /\ auditSeq' = auditSeq /\ row.id = inserts[w].id /\ row.age = inserts[w].age
    BY <1>3 DEF Insert
  <2>4. \A v \in Numbered \ {w} : v \in Recorders \ {w} /\ inserts[v].id # inserts[w].id
    BY <2>2 DEF Numbered
  <2>5. \A v \in Stamped : v \in Recorders \ {w}
    BY <2>2 DEF Stamped, Numbered
  <2> HIDE DEF row
  <2>6. \A v \in Numbered' : inserts'[v].id \in (1..auditSeq') \ committed'
    BY <1>0, <2>2, <2>3, <2>4
  <2>7. \A u, v \in Numbered' : inserts'[u].id = inserts'[v].id => u = v
    BY <1>0, <2>2, <2>4
  <2>8. \A u, v \in Numbered' : inserts'[u].id < inserts'[v].id => inserts'[v].age <= inserts'[u].age
    BY <1>0, <2>2, <2>4
  <2>9. \A v \in Numbered', u \in Stamped' : inserts'[u].age <= inserts'[v].age
    BY <1>0, <2>2, <2>4, <2>5
  <2>10. \A e \in auditLog', v \in Numbered' :
            /\ inserts'[v].id < e.id => e.age <= inserts'[v].age
            /\ e.id < inserts'[v].id => inserts'[v].age <= e.age
    BY <1>0, <2>2, <2>3, <2>4
  <2>11. \A e \in auditLog', u \in Stamped' : inserts'[u].age <= e.age
    BY <1>0, <2>2, <2>3, <2>5
  <2>12. \A d, e \in auditLog' : d.id < e.id => e.age <= d.age
    BY <2>2, <2>3, <2>4
  <2> QED BY <2>6, <2>7, <2>8, <2>9, <2>10, <2>11, <2>12
<1>4. ASSUME InsertFails(w) PROVE Ages'
  <2>1. inserts'[w].pc = "idle"
    BY <1>4 DEF InsertFails, NoInsert, Types
  <2>2. Numbered' = Numbered \ {w} /\ w \in Numbered /\ Stamped' = Stamped
    BY <1>0, <1>4, <2>1 DEF InsertFails, Numbered, Stamped
  <2>3. UNCHANGED <<auditLog, committed, auditSeq>>
    BY <1>4 DEF InsertFails
  <2>4. /\ \A v \in Numbered \ {w} : v \in Recorders \ {w}
        /\ \A v \in Stamped : v \in Recorders \ {w}
    BY <2>2 DEF Numbered, Stamped
  <2> QED BY SMTT(60), <1>0, <2>2, <2>3, <2>4
<1> QED BY <1>1, <1>2, <1>3, <1>4

\* Rows and inserts age together; the age of a row that is old enough stands for any
\* greater one.
LEMMA TimeKeepsAges ==
    ASSUME LagSuffices, Types, Ages, AuditTick
    PROVE  Ages' /\ Ids(auditLog') = Ids(auditLog) /\ Numbered' = Numbered
           /\ \A w \in Numbered : inserts'[w].id = inserts[w].id
<1> USE Members
<1> DEFINE Older(a) == IF a + 1 <= OldEnough THEN a + 1 ELSE OldEnough
<1>1. ASSUME NEW e \in auditLog
      PROVE  [e EXCEPT !.age = Min({e.age + 1, OldEnough})] = [id |-> e.id, age |-> Older(e.age)]
  <2>1. PICK a \in Nat : a = e.age + 1
    OBVIOUS
  <2>2. Min({a, OldEnough}) = IF a <= OldEnough THEN a ELSE OldEnough
    BY OldEnoughIsOld, MinOfTwo
  <2>3. Min({e.age + 1, OldEnough}) = Older(e.age)
    BY <2>1, <2>2
  <2>4. e \in [id : committed, age : Nat]
    BY DEF Types
  <2> HIDE DEF Older
  <2> QED BY <2>3, <2>4
<1>2. ASSUME NEW e \in auditLog PROVE [id |-> e.id, age |-> Older(e.age)] \in auditLog'
  <2> HIDE DEF Older
  <2>1. [e EXCEPT !.age = Min({e.age + 1, OldEnough})] \in auditLog'
    BY DEF AuditTick
  <2> QED BY <1>1, <2>1
<1>3. ASSUME NEW d \in auditLog'
      PROVE  \E e \in auditLog : d.id = e.id /\ d.age = Older(e.age)
  <2> HIDE DEF Older
  <2>1. PICK e \in auditLog : d = [e EXCEPT !.age = Min({e.age + 1, OldEnough})]
    BY DEF AuditTick
  <2>2. d = [id |-> e.id, age |-> Older(e.age)]
    BY <1>1, <2>1
  <2> QED BY <2>2
<1>4. Ids(auditLog') = Ids(auditLog)
  <2> HIDE DEF Older
  <2>1. ASSUME NEW i \in Ids(auditLog') PROVE i \in Ids(auditLog)
    BY <1>3, <2>1 DEF Ids
  <2>2. ASSUME NEW i \in Ids(auditLog) PROVE i \in Ids(auditLog')
    <3>1. PICK e \in auditLog : i = e.id
      BY <2>2 DEF Ids
    <3>2. [id |-> e.id, age |-> Older(e.age)].id = i
      BY <3>1
    <3> QED BY <1>2, <3>1, <3>2 DEF Ids
  <2> QED BY <2>1, <2>2
<1>5. \A w \in Recorders : inserts'[w].pc = inserts[w].pc /\ inserts'[w].id = inserts[w].id
  BY DEF AuditTick, Types
<1>6. Numbered' = Numbered /\ Stamped' = Stamped
  BY <1>5 DEF Numbered, Stamped
<1>7. \A w \in Numbered \cup Stamped : /\ w \in Recorders
                                       /\ inserts'[w].age = inserts[w].age + 1
                                       /\ inserts[w].age + 1 < OldEnough
  <2> SUFFICES ASSUME NEW w \in Recorders, inserts[w].pc # "idle"
               PROVE  inserts'[w].age = inserts[w].age + 1 /\ inserts[w].age + 1 < OldEnough
    BY DEF Numbered, Stamped
  <2>1. inserts[w].age < RecordTimeout
    BY DEF AuditTick
  <2>2. inserts[w].age + 1 < OldEnough
    BY <2>1, OldEnoughIsOld, ArchiveAssumption DEF LagSuffices
  <2> QED BY <2>2 DEF AuditTick, Types
<1>8. \A a, b \in Nat : a <= b => Older(a) <= Older(b)
  BY OldEnoughIsOld
<1>9. \A a, b \in Nat : a <= b => Older(a) <= b + 1
  BY OldEnoughIsOld
<1>10. \A a, b \in Nat : a <= b /\ a + 1 < OldEnough => a + 1 <= Older(b)
  BY OldEnoughIsOld
<1> HIDE DEF Older
<1>11. UNCHANGED <<auditSeq, committed>>
  BY DEF AuditTick
<1>12. /\ \A w \in Numbered' : inserts'[w].id \in (1..auditSeq') \ committed'
       /\ \A v, w \in Numbered' : inserts'[v].id = inserts'[w].id => v = w
       /\ \A v, w \in Numbered' : inserts'[v].id < inserts'[w].id => inserts'[w].age <= inserts'[v].age
       /\ \A w \in Numbered', v \in Stamped' : inserts'[v].age <= inserts'[w].age
  BY <1>5, <1>6, <1>7, <1>11 DEF Ages
<1>13. ASSUME NEW d \in auditLog', NEW w \in Numbered'
       PROVE  /\ inserts'[w].id < d.id => d.age <= inserts'[w].age
              /\ d.id < inserts'[w].id => inserts'[w].age <= d.age
  <2>1. PICK e \in auditLog : d.id = e.id /\ d.age = Older(e.age)
    BY <1>3
  <2>2. w \in Numbered /\ w \in Recorders
    BY <1>6, <1>7
  <2> QED BY <1>5, <1>7, <1>9, <1>10, <2>1, <2>2 DEF Ages
<1>14. ASSUME NEW d \in auditLog', NEW v \in Stamped' PROVE inserts'[v].age <= d.age
  <2>1. PICK e \in auditLog : d.id = e.id /\ d.age = Older(e.age)
    BY <1>3
  <2>2. v \in Stamped /\ v \in Recorders
    BY <1>6, <1>7
  <2> QED BY SMTT(60), <1>7, <1>10, <2>1, <2>2 DEF Ages
<1>15. ASSUME NEW c \in auditLog', NEW d \in auditLog', c.id < d.id PROVE d.age <= c.age
  <2>1. PICK e \in auditLog : c.id = e.id /\ c.age = Older(e.age)
    BY <1>3
  <2>2. PICK f \in auditLog : d.id = f.id /\ d.age = Older(f.age)
    BY <1>3
  <2>3. f.age <= e.age
    BY <1>15, <2>1, <2>2 DEF Ages
  <2> QED BY <1>8, <2>1, <2>2, <2>3
<1> QED BY <1>4, <1>5, <1>6, <1>7, <1>12, <1>13, <1>14, <1>15 DEF Ages

-----------------------------------------------------------------------------
(* Recording.                                                              *)

\* Recording, whatever becomes of the insert, leaves the rest of the invariant: the row
\* that appears is behind neither the cursor nor a batch.
LEMMA RecordingKeepsRest ==
    ASSUME IInv, NEW w \in Recorders, Record(w) \/ DrawId(w) \/ Insert(w) \/ InsertFails(w)
    PROVE  Front' /\ Batches' /\ FilesOK' /\ NoEventSkipped'
<1> USE Members DEF IInv
<1>0. \A v \in Recorders \ {w} : inserts'[v] = inserts[v]
  BY DEF Record, DrawId, Insert, InsertFails, Types
<1>1. UNCHANGED <<exportCursor, files, exporter>> /\ exportCursor \in Nat /\ auditSeq \in Nat
      /\ exportCursor <= auditSeq
  BY DEF Record, DrawId, Insert, InsertFails, Types
<1>2. Archived' = Archived
  BY <1>1 DEF Archived
\* An insert that has its id after the step had it before, or has one nobody had.
<1>3. \A v \in Numbered' : \/ v \in Numbered /\ inserts'[v].id = inserts[v].id
                           \/ inserts'[v].id = auditSeq + 1
  <2>1. CASE Record(w)
    BY <1>0, <2>1 DEF Record, NoInsert, Numbered, Types
  <2>2. CASE DrawId(w)
    BY <1>0, <2>2 DEF DrawId, Numbered, Types
  <2>3. CASE Insert(w) \/ InsertFails(w)
    BY SMTT(60), <1>0, <2>3 DEF Insert, InsertFails, NoInsert, Numbered, Types
  <2> QED BY <2>1, <2>2, <2>3
\* Rows do not change, or one with an id past the cursor and the batches appears.
<1>4. \/ UNCHANGED <<auditLog, committed>>
      \/ /\ w \in Numbered /\ committed' = committed \cup {inserts[w].id}
         /\ auditLog' = auditLog \cup {[id |-> inserts[w].id, age |-> inserts[w].age]}
  BY DEF Record, DrawId, Insert, InsertFails, Numbered
<1>6. w \in Numbered => inserts[w].id > exportCursor /\ inserts[w].id \in Nat
  BY DEF NoEventSkipped, Numbered
<1>7. committed \subseteq committed'
  BY <1>4
<1>8. Front'
  <2>1. Ids(auditLog) \subseteq Ids(auditLog')
    BY <1>4 DEF Ids
  <2>2. ASSUME NEW id \in committed' \ Ids(auditLog')
        PROVE  id <= exportCursor /\ \A e \in auditLog' : id < e.id
    <3>1. id \in committed
      <4>1. CASE committed' = committed
        BY <4>1
      <4>2. CASE /\ committed' = committed \cup {inserts[w].id}
                 /\ auditLog' = auditLog \cup {[id |-> inserts[w].id, age |-> inserts[w].age]}
        <5> DEFINE row == [id |-> inserts[w].id, age |-> inserts[w].age]
        <5>0. row \in auditLog' /\ row.id = inserts[w].id
          BY <4>2
        <5>1. inserts[w].id \in Ids(auditLog')
          BY <5>0 DEF Ids
        <5> QED BY <4>2, <5>1
      <4> QED BY <1>4, <4>1, <4>2
    <3>2. id \in committed \ Ids(auditLog)
      BY <2>1, <3>1
    <3>3. id <= exportCursor /\ \A e \in auditLog : id < e.id
      BY <3>2 DEF Front
    <3>4. \A e \in auditLog' : e \in auditLog \/ (w \in Numbered /\ e.id = inserts[w].id)
      BY SMTT(60), <1>4
    <3> QED BY SMTT(60), <1>1, <1>6, <3>1, <3>3, <3>4
  <2> QED BY <1>1, <2>2 DEF Front
<1>9. Batches'
  <2> SUFFICES ASSUME NEW r \in Replicas PROVE BatchOK(r)'
    BY DEF Batches
  <2> DEFINE x == exporter[r]
  <2>1. BatchOK(r) /\ exporter'[r] = x /\ exportCursor' = exportCursor
    BY <1>1 DEF Batches
  <2>2. \A e \in x.batch : e.id \in committed /\ e.id \in Nat /\ e.id <= auditSeq
    BY <2>1 DEF BatchOK
  <2>0. \A e \in x.batch, v \in Numbered : e.id < inserts[v].id
    BY <2>1, Zenon DEF BatchOK
  <2> HIDE DEF IInv, x
  <2>3. ASSUME NEW e \in x.batch, NEW v \in Numbered' PROVE e.id < inserts'[v].id
    <3>1. CASE v \in Numbered /\ inserts'[v].id = inserts[v].id
      BY <2>0, <3>1
    <3>2. CASE inserts'[v].id = auditSeq + 1
      BY <1>1, <2>2, <3>2
    <3> QED BY <1>3, <3>1, <3>2
  <2>4. ASSUME NEW id \in committed', NEW e \in x.batch, id <= e.id PROVE id \in committed
    <3>1. w \in Numbered => e.id < inserts[w].id
      BY <2>0
    <3> QED BY <1>4, <1>6, <2>2, <2>4, <3>1
  <2> USE DEF IInv, x
  <2>5. /\ x.cursor <= exportCursor
        /\ x.pc \notin {"put", "advance"} => x.batch = {}
        /\ x.pc \in {"put", "advance"} => x.batch # {}
        /\ \A e \in x.batch : e.id \in committed' /\ e.id > x.cursor
        /\ x.pc = "advance" => Ids(x.batch) \subseteq Archived'
    BY <1>2, <1>7, <2>1 DEF BatchOK
  <2>6. \A e, f \in x.batch, id \in committed' : e.id <= id /\ id <= f.id => id \in Ids(x.batch)
    BY <2>1, <2>4 DEF BatchOK
  <2>7. x.cursor = exportCursor =>
           \A e \in x.batch, id \in committed' : x.cursor < id /\ id <= e.id => id \in Ids(x.batch)
    BY <2>1, <2>4 DEF BatchOK
  <2>8. Ids(x.batch) = Ids(exporter[r].batch)'
    BY <2>1 DEF Ids
  <2> QED BY <2>1, <2>3, <2>5, <2>6, <2>7, <2>8 DEF BatchOK
<1>10. FilesOK'
  BY <1>1, <1>7 DEF FilesOK
<1>11. NoEventSkipped'
  <2>1. ASSUME NEW id \in committed', id <= exportCursor PROVE id \in Archived'
    <3> HIDE DEF IInv
    <3>0. w \in Numbered => id # inserts[w].id
      BY <1>1, <1>6, <2>1
    <3>1. id \in committed
      BY <1>4, <3>0, ZenonT(60)
    <3> USE DEF IInv
    <3> QED BY <1>2, <2>1, <3>1 DEF NoEventSkipped
  <2>2. ASSUME NEW v \in Numbered' PROVE inserts'[v].id > exportCursor
    <3>1. CASE v \in Numbered /\ inserts'[v].id = inserts[v].id
      BY <3>1 DEF NoEventSkipped, Numbered
    <3>2. CASE inserts'[v].id = auditSeq + 1
      BY <1>1, <3>2
    <3> QED BY <1>3, <3>1, <3>2
  <2> QED BY <1>1, <2>1, <2>2 DEF NoEventSkipped, Numbered
<1> QED BY <1>8, <1>9, <1>10, <1>11

-----------------------------------------------------------------------------
(* Time and the purge.                                                     *)

\* Time leaves the ids of the rows and of the inserts.
LEMMA TimeKeepsRest ==
    ASSUME LagSuffices, IInv, AuditTick
    PROVE  Front' /\ Batches' /\ FilesOK' /\ NoEventSkipped'
<1> USE DEF IInv
<1>1. UNCHANGED <<committed, exportCursor, files, exporter>>
  BY DEF AuditTick
<1>2. /\ Ids(auditLog') = Ids(auditLog) /\ Numbered' = Numbered
      /\ \A w \in Numbered : inserts'[w].id = inserts[w].id
  BY TimeKeepsAges
<1>3. Archived' = Archived
  BY <1>1 DEF Archived
<1>4. Front'
  <2>1. \A e \in auditLog' : \E d \in auditLog : d.id = e.id
    <3>1. \A e \in auditLog' : e.id \in Ids(auditLog')
      BY DEF Ids
    <3> QED BY <1>2, <3>1 DEF Ids
  <2> QED BY <1>1, <1>2, <2>1 DEF Front
<1>5. Batches'
  <2> SUFFICES ASSUME NEW r \in Replicas PROVE BatchOK(r)'
    BY DEF Batches
  <2>1. BatchOK(r)
    BY DEF Batches
  <2>2. Ids(exporter[r].batch)' = Ids(exporter[r].batch)
    BY <1>1 DEF Ids
  <2> QED BY <1>1, <1>2, <1>3, <2>1, <2>2 DEF BatchOK
<1>6. FilesOK'
  BY <1>1 DEF FilesOK
<1>7. NoEventSkipped'
  <2>1. \A w \in Recorders : w \in Numbered => inserts[w].id > exportCursor
    BY DEF NoEventSkipped, Numbered
  <2>2. \A w \in Recorders : inserts'[w].pc = "numbered" => w \in Numbered'
    BY DEF Numbered
  <2> QED BY <1>1, <1>2, <1>3, <2>1, <2>2 DEF NoEventSkipped
<1> QED BY <1>4, <1>5, <1>6, <1>7

\* The purge takes the oldest rows, and those have the smallest ids.
LEMMA PurgeKeeps ==
    ASSUME IInv, PurgeOlderThan
    PROVE  Ages' /\ Front' /\ Batches' /\ FilesOK' /\ NoEventSkipped'
<1> USE Members DEF IInv
<1>1. UNCHANGED <<inserts, auditSeq, committed, exportCursor, files, exporter>>
  BY DEF PurgeOlderThan
<1>2. auditLog' \subseteq auditLog
  BY DEF PurgeOlderThan
<1>3. Archived' = Archived /\ Numbered' = Numbered /\ Stamped' = Stamped
  BY <1>1 DEF Archived, Numbered, Stamped
<1>4. Ages'
  BY <1>1, <1>2, <1>3 DEF Ages
<1>5. Front'
  <2> SUFFICES ASSUME NEW id \in committed \ Ids(auditLog')
               PROVE  id <= exportCursor /\ \A e \in auditLog' : id < e.id
    BY <1>1 DEF Front
  <2>1. CASE id \notin Ids(auditLog)
    BY <1>2, <2>1 DEF Front
  <2>2. CASE id \in Ids(auditLog)
    <3>1. PICK d \in auditLog : d.id = id
      BY <2>2 DEF Ids
    <3>2. d \notin auditLog'
      BY <3>1 DEF Ids
    <3>3. d.age > Retention /\ d.id <= exportCursor
      BY <3>2 DEF PurgeOlderThan, PurgeExportedAuditLogEventsBefore
    <3>4. ASSUME NEW e \in auditLog' PROVE id < e.id
      <4>1. e \in auditLog /\ e.id # id /\ ~(e.age > Retention /\ e.id <= exportCursor)
        BY <1>2 DEF PurgeOlderThan, PurgeExportedAuditLogEventsBefore, Ids
      <4>2. ASSUME e.id < id PROVE FALSE
        <5>1. d.age <= e.age
          BY <3>1, <4>1, <4>2 DEF Ages
        <5>2. e.age > Retention /\ e.id <= exportCursor
          BY <3>1, <3>3, <4>1, <4>2, <5>1, ArchiveAssumption DEF Types
        <5> QED BY <4>1, <5>2
      <4> QED BY <3>1, <4>1, <4>2
    <3> QED BY <3>1, <3>3, <3>4
  <2> QED BY <2>1, <2>2
<1>6. Batches'
  <2> SUFFICES ASSUME NEW r \in Replicas PROVE BatchOK(r)'
    BY DEF Batches
  <2>1. BatchOK(r)
    BY DEF Batches
  <2>2. Ids(exporter[r].batch)' = Ids(exporter[r].batch)
    BY <1>1 DEF Ids
  <2> QED BY <1>1, <1>3, <2>1, <2>2 DEF BatchOK
<1>7. FilesOK' /\ NoEventSkipped'
  BY <1>1, <1>3 DEF FilesOK, NoEventSkipped
<1> QED BY <1>4, <1>5, <1>6, <1>7

-----------------------------------------------------------------------------
(* Exporting.                                                              *)

\* An exporter that starts, reads the cursor or ends has an empty batch.
LEMMA EmptyBatch ==
    ASSUME Types, Batches, UNCHANGED <<inserts, committed, files, exportCursor>>,
           NEW r \in Replicas, NEW x, ExporterBecomes(r, x),
           x.batch = {}, x.pc \notin {"put", "advance"}, x.cursor <= exportCursor
    PROVE  Batches'
<1> SUFFICES ASSUME NEW q \in Replicas PROVE BatchOK(q)'
  BY DEF Batches
<1>1. CASE q = r
  BY <1>1 DEF ExporterBecomes, Types, BatchOK, Ids
<1>2. CASE q # r
  <2>1. exporter'[q] = exporter[q] /\ BatchOK(q)
    BY <1>2 DEF ExporterBecomes, Types, Batches
  <2>2. Archived' = Archived /\ Numbered' = Numbered
    BY DEF Archived, Numbered
  <2>3. Ids(exporter[q].batch)' = Ids(exporter[q].batch)
    BY <2>1 DEF Ids
  <2> QED BY <2>1, <2>2, <2>3 DEF BatchOK
<1> QED BY <1>1, <1>2

\* A batch that was listed has no gap: the rows below one that is old enough are old
\* enough themselves, none of them is still to commit, and the purge took only rows
\* below all of them.
LEMMA ListedBatch ==
    ASSUME LagSuffices, IInv, NEW after \in Nat, NEW batch, batch = ListAfter(after)
    PROVE  /\ \A e \in batch : e \in auditLog /\ e.id > after
           /\ \A e \in batch, w \in Numbered : e.id < inserts[w].id
           /\ \A e, f \in batch, id \in committed : e.id <= id /\ id <= f.id => id \in Ids(batch)
           /\ after = exportCursor =>
                 \A e \in batch, id \in committed : after < id /\ id <= e.id => id \in Ids(batch)
<1> USE Members, ArchiveAssumption DEF IInv
<1> DEFINE rows == ListAuditLogEventsAfter(after)
           Before(e) == {d \in rows : d.id < e.id}
<1>1. \A e \in batch : /\ e \in rows /\ e \in auditLog /\ e.id > after /\ e.age > Lag
                       /\ Cardinality(Before(e)) < BatchSize
  BY DEF ListAfter, ListAuditLogEventsAfter
<1>2. \A e \in rows : Cardinality(Before(e)) < BatchSize => e \in batch
  BY DEF ListAfter
<1> HIDE DEF rows, Before
<1>3. \A e \in batch : e \in auditLog /\ e.id \in Nat /\ e.age \in Nat /\ e.id > after /\ e.age > Lag
  BY <1>1
<1>4. \A e \in auditLog : e.id \in Nat /\ e.age \in Nat
  OBVIOUS
<1>5. ASSUME NEW e \in batch, NEW w \in Numbered PROVE e.id < inserts[w].id
  <2>1. w \in Recorders /\ inserts[w].id \notin committed
    BY DEF Numbered, Ages
  <2>2. e.id # inserts[w].id /\ inserts[w].age \in Nat /\ inserts[w].age <= RecordTimeout
        /\ inserts[w].id \in Nat
    BY <1>3, <2>1
  <2>3. ASSUME inserts[w].id < e.id PROVE FALSE
    <3>1. e.age <= inserts[w].age
      BY <1>3, <2>3 DEF Ages
    <3> QED BY <1>3, <2>2, <3>1 DEF LagSuffices
  <2> QED BY <1>3, <2>2, <2>3
<1>6. ASSUME NEW f \in batch, NEW d \in auditLog, after < d.id, d.id < f.id PROVE d \in batch
  <2>1. d.age > Lag
    <3>1. f.age <= d.age
      BY <1>6, <1>3 DEF Ages
    <3> QED BY <1>3, <1>4, <3>1
  <2>2. d \in rows
    BY <1>6, <2>1 DEF rows, ListAuditLogEventsAfter
  <2>3. Before(d) \in SUBSET Before(f) /\ Before(f) \in SUBSET auditLog
    <3>1. ASSUME NEW c \in Before(d) PROVE c \in Before(f)
      <4>1. c \in auditLog /\ c.id < d.id
        BY <3>1 DEF Before, rows, ListAuditLogEventsAfter
      <4>2. c.id < f.id
        BY <1>6, <1>3, <1>4, <4>1
      <4> QED BY <3>1, <4>2 DEF Before
    <3> QED BY <3>1 DEF Before, rows, ListAuditLogEventsAfter
  <2>4. PICK C, D, E : C = Before(d) /\ D = Before(f) /\ E = auditLog
    OBVIOUS
  <2>5. IsFiniteSet(E)
    BY <2>4 DEF Types
  <2>6. IsFiniteSet(D) /\ IsFiniteSet(C) /\ Cardinality(C) <= Cardinality(D)
    <3>1. IsFiniteSet(D)
      BY <2>3, <2>4, <2>5, FS_Subset
    <3> QED BY <2>3, <2>4, <3>1, FS_Subset
  <2>7. Cardinality(C) \in Nat /\ Cardinality(D) \in Nat
    BY <2>6, FS_CardinalityType
  <2>8. Cardinality(D) < BatchSize
    BY <1>1, <2>4
  <2>9. Cardinality(Before(d)) < BatchSize
    <3>1. Cardinality(C) < BatchSize
      BY <2>6, <2>7, <2>8
    <3> QED BY <2>4, <3>1
  <2> QED BY <1>2, <2>2, <2>9
<1>7. ASSUME NEW id \in committed, NEW f \in batch, after < id, id <= f.id, id \in Ids(auditLog)
      PROVE  id \in Ids(batch)
  <2>1. PICK d \in auditLog : d.id = id
    BY <1>7 DEF Ids
  <2>2. CASE id = f.id
    BY <2>2 DEF Ids
  <2>3. CASE id # f.id
    <3>1. d \in batch
      BY <1>6, <1>7, <1>3, <2>1, <2>3
    <3> QED BY <2>1, <3>1 DEF Ids
  <2> QED BY <2>2, <2>3
<1>8. ASSUME NEW e \in batch, NEW f \in batch, NEW id \in committed, e.id <= id, id <= f.id
      PROVE  id \in Ids(batch)
  <2>1. id \in Ids(auditLog)
    BY <1>8, <1>3 DEF Front
  <2>2. after < id
    BY <1>8, <1>3
  <2> QED BY <1>7, <1>8, <2>1, <2>2
<1>9. ASSUME after = exportCursor, NEW e \in batch, NEW id \in committed, after < id, id <= e.id
      PROVE  id \in Ids(batch)
  <2>1. id \in Ids(auditLog)
    BY <1>9 DEF Front
  <2> QED BY <1>7, <1>9, <2>1
<1> QED BY <1>5, <1>8, <1>9, <1>3

\* Listing: the exporter gets a batch without gaps, or ends.
LEMMA ListBatchKeeps ==
    ASSUME LagSuffices, IInv, NEW r \in Replicas, ListBatch(r)
    PROVE  Batches'
<1> USE DEF IInv
<1>1. UNCHANGED <<inserts, auditLog, committed, files, exportCursor>>
  BY DEF ListBatch
<1>2. PICK after \in Nat : after = exporter[r].cursor
  BY Members
<1>3. PICK batch : batch = ListAfter(after)
  OBVIOUS
<1>4. BatchOK(r) /\ exporter[r].pc = "list"
  BY DEF Batches, ListBatch
<1>5. CASE batch = {}
  <2>1. ExporterBecomes(r, NoExport)
    BY <1>2, <1>3, <1>5 DEF ListBatch, Release
  <2>2. NoExport.batch = {} /\ NoExport.pc \notin {"put", "advance"}
        /\ NoExport.cursor <= exportCursor
    BY DEF NoExport, Types
  <2> QED BY <1>1, <2>1, <2>2, EmptyBatch
<1>6. CASE batch # {}
  <2> DEFINE x == [exporter[r] EXCEPT !.pc = "put", !.batch = batch]
  <2>1. exporter' = [exporter EXCEPT ![r] = x]
    BY <1>2, <1>3, <1>6 DEF ListBatch, ExporterBecomes
  <2>2. x.pc = "put" /\ x.batch = batch /\ x.cursor = after
    BY <1>2 DEF Types
  <2> HIDE DEF x
  <2>3. exporter'[r] = x /\ \A q \in Replicas \ {r} : exporter'[q] = exporter[q]
    BY <2>1 DEF Types
  <2>4. Archived' = Archived /\ Numbered' = Numbered
    BY <1>1 DEF Archived, Numbered
  <2>5. /\ \A e \in batch : e \in auditLog /\ e.id > after
        /\ \A e \in batch, w \in Numbered : e.id < inserts[w].id
        /\ \A e, f \in batch, id \in committed : e.id <= id /\ id <= f.id => id \in Ids(batch)
        /\ after = exportCursor =>
              \A e \in batch, id \in committed : after < id /\ id <= e.id => id \in Ids(batch)
    BY <1>3, ListedBatch
  <2>6. \A e \in batch : e.id \in committed
    BY <2>5, Members
  <2>7. after <= exportCursor
    BY <1>2, <1>4 DEF BatchOK
  <2>8. Ids(exporter[r].batch)' = Ids(batch)
    BY <2>2, <2>3 DEF Ids
  <2>9. BatchOK(r)'
    BY <1>1, <1>6, <2>2, <2>3, <2>4, <2>5, <2>6, <2>7, <2>8 DEF BatchOK
  <2>10. ASSUME NEW q \in Replicas, q # r PROVE BatchOK(q)'
    <3>1. exporter'[q] = exporter[q] /\ BatchOK(q)
      BY <2>3, <2>10 DEF Batches
    <3>2. Ids(exporter[q].batch)' = Ids(exporter[q].batch)
      BY <3>1 DEF Ids
    <3> QED BY <1>1, <2>4, <3>1, <3>2 DEF BatchOK
  <2> QED BY <2>9, <2>10 DEF Batches
<1> QED BY <1>5, <1>6

\* Uploading: a file that is replaced has the first and the last event of the batch, so
\* all it holds lies between them, and a batch without gaps holds that too.
LEMMA PutBatchKeeps ==
    ASSUME IInv, NEW r \in Replicas, PutBatch(r)
    PROVE  Batches' /\ FilesOK' /\ NoEventSkipped' /\ Archived \subseteq Archived'
           /\ Archived' \subseteq committed
<1> USE DEF IInv
<1> DEFINE ids == Ids(exporter[r].batch)
           file == [first |-> Min(ids), last |-> Max(ids), ids |-> ids]
<1>1. UNCHANGED <<inserts, auditLog, committed, exportCursor>>
  BY DEF PutBatch
<1>2. BatchOK(r) /\ exporter[r].pc = "put" /\ exporter[r].batch # {}
  BY DEF Batches, BatchOK, PutBatch
<1>3. /\ ids \subseteq committed /\ ids \subseteq Nat
      /\ Min(ids) \in ids /\ Max(ids) \in ids
      /\ \A i \in ids : Min(ids) <= i /\ i <= Max(ids)
  BY <1>2, BatchBounds
<1>4. files' = {f \in files : f.first # Min(ids) \/ f.last # Max(ids)} \cup {file}
  BY DEF PutBatch
<1>5. file.first = Min(ids) /\ file.last = Max(ids) /\ file.ids = ids
  OBVIOUS
<1>6. \A id \in committed : Min(ids) <= id /\ id <= Max(ids) => id \in ids
  <2>1. PICK e \in exporter[r].batch : e.id = Min(ids)
    BY <1>3 DEF Ids
  <2>2. PICK f \in exporter[r].batch : f.id = Max(ids)
    BY <1>3 DEF Ids
  <2> HIDE DEF ids
  <2>3. \A id \in committed : e.id <= id /\ id <= f.id => id \in ids
    BY <1>2 DEF BatchOK, ids
  <2> QED BY <2>1, <2>2, <2>3
<1>7. exporter' = [exporter EXCEPT ![r] = [exporter[r] EXCEPT !.pc = "advance"]]
  BY DEF PutBatch, ExporterBecomes
<1> HIDE DEF ids, file
<1>8. ASSUME NEW i \in Archived PROVE i \in Archived'
  <2>1. PICK f \in files : i \in f.ids
    BY <1>8 DEF Archived
  <2>2. CASE f \in files'
    BY <2>1, <2>2 DEF Archived
  <2>3. CASE f \notin files'
    <3>1. f.first = Min(ids) /\ f.last = Max(ids)
      BY <1>4, <2>3
    <3>2. i \in ids
      BY <1>6, <2>1, <3>1 DEF FilesOK
    <3>3. file \in files'
      BY <1>4
    <3> QED BY <1>5, <3>2, <3>3 DEF Archived
  <2> QED BY <2>2, <2>3
<1>9. \A f \in files' : f \in files \/ f = file
  BY <1>4
<1>10. ids \subseteq Archived'
  <2>1. file \in files'
    BY <1>4
  <2> QED BY <1>5, <2>1 DEF Archived
<1>11. FilesOK'
  BY <1>1, <1>3, <1>5, <1>9 DEF FilesOK
<1>12. Archived' \subseteq committed
  BY <1>1, <1>11 DEF FilesOK, Archived
<1>13. NoEventSkipped'
  BY <1>1, <1>8 DEF NoEventSkipped
<1>14. Numbered' = Numbered
  BY <1>1 DEF Numbered
<1>15. ASSUME NEW q \in Replicas PROVE BatchOK(q)'
  <2>1. BatchOK(q)
    BY DEF Batches
  <2>2. /\ exporter'[q].cursor = exporter[q].cursor /\ exporter'[q].batch = exporter[q].batch
        /\ q # r => exporter'[q].pc = exporter[q].pc
        /\ q = r => exporter'[q].pc = "advance"
    BY <1>7 DEF Types
  <2>3. Ids(exporter[q].batch)' = Ids(exporter[q].batch)
    BY <2>2 DEF Ids
  <2>4. exporter'[q].pc = "advance" => Ids(exporter[q].batch) \subseteq Archived'
    <3>1. CASE q = r
      BY <1>10, <3>1 DEF ids
    <3>2. CASE q # r
      BY <1>8, <2>1, <2>2, <3>2 DEF BatchOK
    <3> QED BY <3>1, <3>2
  <2>5. /\ exporter'[q].pc \notin {"put", "advance"} => exporter[q].batch = {}
        /\ exporter'[q].pc \in {"put", "advance"} => exporter[q].batch # {}
    BY <1>2, <2>1, <2>2 DEF BatchOK
  <2>6. /\ exporter[q].cursor <= exportCursor
        /\ \A e \in exporter[q].batch : e.id \in committed /\ e.id > exporter[q].cursor
        /\ \A e \in exporter[q].batch, w \in Numbered : e.id < inserts[w].id
        /\ \A e, f \in exporter[q].batch, id \in committed :
              e.id <= id /\ id <= f.id => id \in Ids(exporter[q].batch)
        /\ exporter[q].cursor = exportCursor =>
              \A e \in exporter[q].batch, id \in committed :
                 exporter[q].cursor < id /\ id <= e.id => id \in Ids(exporter[q].batch)
    BY <2>1 DEF BatchOK
  <2> QED BY <1>1, <1>14, <2>2, <2>3, <2>4, <2>5, <2>6 DEF BatchOK
<1> QED BY <1>8, <1>11, <1>12, <1>13, <1>15 DEF Batches

\* Advancing: all that lies between the cursor and the end of the batch is in the batch,
\* and the batch is in the archive.  An exporter that finds the cursor moved leaves it.
LEMMA AdvanceKeeps ==
    ASSUME IInv, NEW r \in Replicas, AdvanceExportCursor(r)
    PROVE  Batches' /\ NoEventSkipped' /\ exportCursor' >= exportCursor
<1> USE DEF IInv
<1> DEFINE x == exporter[r]
           top == Max(Ids(x.batch))
<1>1. UNCHANGED <<inserts, auditLog, committed, files>> /\ exportCursor \in Nat
  BY DEF AdvanceExportCursor, Types
<1>2. BatchOK(r) /\ x.pc = "advance" /\ x.batch # {}
  BY DEF Batches, BatchOK, AdvanceExportCursor
<1>3. top \in Ids(x.batch) /\ top \in Nat
  BY <1>2, BatchBounds
<1>4. PICK e \in x.batch : e.id = top
  BY <1>3 DEF Ids
<1>5. x.cursor < top /\ x.cursor \in Nat
  BY <1>2, <1>3, <1>4, Members DEF BatchOK
<1>6. exportCursor' = IF exportCursor = x.cursor THEN top ELSE exportCursor
  BY DEF AdvanceExportCursor, AdvanceAuditExportCursor
<1>7. ExporterBecomes(r, NoExport) \/ ExporterBecomes(r, [NoExport EXCEPT !.pc = "cursor"])
  BY DEF AdvanceExportCursor, Release
<1>8. exporter'[r].batch = {} /\ exporter'[r].cursor = 0
      /\ exporter'[r].pc \notin {"put", "advance"}
      /\ \A q \in Replicas \ {r} : exporter'[q] = exporter[q]
  BY <1>7 DEF ExporterBecomes, NoExport, Types
<1> HIDE DEF top
<1>9. exportCursor' \in Nat /\ exportCursor' >= exportCursor
      /\ (exportCursor' # exportCursor => exportCursor' > exportCursor)
  BY <1>1, <1>3, <1>5, <1>6
<1>10. Archived' = Archived /\ Numbered' = Numbered
  BY <1>1 DEF Archived, Numbered
<1>11. NoEventSkipped'
  <2>1. CASE exportCursor = x.cursor
    <3>1. ASSUME NEW id \in committed, id <= top PROVE id \in Archived
      <4>1. CASE id <= exportCursor
        BY <4>1 DEF NoEventSkipped
      <4>2. CASE id > exportCursor
        <5>1. id \in Ids(x.batch)
          BY <1>2, <1>4, <2>1, <3>1, <4>2 DEF BatchOK
        <5> QED BY <1>2, <5>1 DEF BatchOK
      <4>3. id \in Nat
        BY Members
      <4>4. id <= exportCursor \/ id > exportCursor
        <5> HIDE DEF IInv
        <5> QED BY <1>1, <4>3
      <4> QED BY <4>1, <4>2, <4>4
    <3>2. \A w \in Numbered : inserts[w].id > top
      <4>1. \A w \in Numbered : e.id < inserts[w].id
        BY <1>2 DEF BatchOK
      <4>2. \A w \in Numbered : inserts[w].id \in Nat
        BY Members DEF Numbered
      <4> QED BY <1>3, <1>4, <4>1, <4>2
    <3>3. exportCursor' = top
      BY <1>6, <2>1
    <3> QED BY <1>1, <1>10, <3>1, <3>2, <3>3 DEF NoEventSkipped, Numbered
  <2>2. CASE exportCursor # x.cursor
    <3>1. exportCursor' = exportCursor
      BY <1>6, <2>2
    <3> QED BY <1>1, <1>10, <3>1 DEF NoEventSkipped
  <2> QED BY <2>1, <2>2
<1>12. ASSUME NEW q \in Replicas PROVE BatchOK(q)'
  <2>1. CASE q = r
    BY SMTT(60), <1>8, <1>9, <2>1 DEF BatchOK, Ids
  <2>2. CASE q # r
    <3>1. BatchOK(q) /\ exporter'[q] = exporter[q]
      BY <1>8, <2>2 DEF Batches
    <3>2. Ids(exporter[q].batch)' = Ids(exporter[q].batch)
      BY <3>1 DEF Ids
    <3>3. exporter[q].cursor \in Nat /\ exporter[q].cursor <= exportCursor
      BY <3>1, Members DEF BatchOK
    <3>4. exporter[q].cursor <= exportCursor'
          /\ (exporter[q].cursor = exportCursor' => exporter[q].cursor = exportCursor)
      BY <1>1, <1>9, <3>3
    <3> QED BY <1>1, <1>10, <3>1, <3>2, <3>4 DEF BatchOK
  <2> QED BY <2>1, <2>2
<1> QED BY <1>9, <1>11, <1>12 DEF Batches

\* Every step of an exporter keeps the invariant beyond the types, moves the cursor
\* forward if at all, and loses nothing from the archive.
LEMMA ExportsKeep ==
    ASSUME LagSuffices, IInv, Exports
    PROVE  /\ Batches' /\ FilesOK' /\ NoEventSkipped'
           /\ exportCursor' >= exportCursor
           /\ Archived \subseteq Archived' /\ Archived' \subseteq committed
<1> USE DEF IInv
<1> DEFINE Good == /\ Batches' /\ FilesOK' /\ NoEventSkipped'
                   /\ exportCursor' >= exportCursor
                   /\ Archived \subseteq Archived' /\ Archived' \subseteq committed
<1>1. UNCHANGED <<inserts, auditSeq, auditLog, committed>> /\ exportCursor \in Nat
  BY ExportsTouchNoRow DEF Types
<1>2. Archived \subseteq committed
  BY DEF FilesOK, Archived
<1>3. ASSUME UNCHANGED files PROVE Archived' = Archived /\ FilesOK'
  BY <1>1, <1>3 DEF Archived, FilesOK
<1>4. ASSUME UNCHANGED <<files, exportCursor>>
      PROVE  /\ FilesOK' /\ NoEventSkipped' /\ exportCursor' >= exportCursor
             /\ Archived \subseteq Archived' /\ Archived' \subseteq committed
  BY <1>1, <1>2, <1>3, <1>4 DEF NoEventSkipped
<1>5. NoExport.batch = {} /\ NoExport.pc \notin {"put", "advance"}
      /\ NoExport.cursor <= exportCursor
  BY <1>1 DEF NoExport
<1>6. ASSUME NEW r \in Replicas, ExporterBecomes(r, NoExport), UNCHANGED <<files, exportCursor>>
      PROVE  Good
  <2>1. Batches'
    BY <1>1, <1>5, <1>6, EmptyBatch
  <2> QED BY <1>4, <1>6, <2>1
<1>7. ASSUME NEW r \in Replicas, TryExportLock(r) PROVE Good
  <2> DEFINE x == [NoExport EXCEPT !.pc = "cursor"]
  <2>1. x.batch = {} /\ x.pc \notin {"put", "advance"} /\ x.cursor <= exportCursor
    BY <1>1 DEF NoExport
  <2>2. ExporterBecomes(r, x) /\ UNCHANGED <<files, exportCursor>>
    BY <1>7 DEF TryExportLock
  <2> HIDE DEF x
  <2>3. Batches'
    BY <1>1, <2>1, <2>2, EmptyBatch
  <2> QED BY <1>4, <2>2, <2>3
<1>8. ASSUME NEW r \in Replicas, ReadCursor(r) PROVE Good
  <2> DEFINE x == [exporter[r] EXCEPT !.pc = "list", !.cursor = exportCursor]
  <2>1. BatchOK(r) /\ exporter[r].pc = "cursor"
    BY <1>8 DEF ReadCursor, Batches
  <2>2. x.batch = {} /\ x.pc \notin {"put", "advance"} /\ x.cursor <= exportCursor
    BY <1>1, <2>1 DEF BatchOK, Types
  <2>3. ExporterBecomes(r, x) /\ UNCHANGED <<files, exportCursor>>
    BY <1>8 DEF ReadCursor
  <2> HIDE DEF x
  <2>4. Batches'
    BY <1>1, <2>2, <2>3, EmptyBatch
  <2> QED BY <1>4, <2>3, <2>4
<1>9. ASSUME NEW r \in Replicas, ListBatch(r) PROVE Good
  <2>1. UNCHANGED <<files, exportCursor>>
    BY <1>9 DEF ListBatch
  <2>2. Batches'
    BY <1>9, ListBatchKeeps
  <2> QED BY <1>4, <2>1, <2>2
<1>10. ASSUME NEW r \in Replicas, PutBatch(r) PROVE Good
  <2>1. exportCursor' = exportCursor
    BY <1>10 DEF PutBatch
  <2> QED BY <1>1, <1>10, <2>1, PutBatchKeeps
<1>11. ASSUME NEW r \in Replicas, AdvanceExportCursor(r) PROVE Good
  <2>1. UNCHANGED files
    BY <1>11 DEF AdvanceExportCursor
  <2> QED BY <1>2, <1>3, <1>11, <2>1, AdvanceKeeps
<1>12. ASSUME NEW r \in Replicas, AbandonExport(r) PROVE Good
  BY <1>6, <1>12 DEF AbandonExport, Release
<1>13. ASSUME LoseLock PROVE Good
  <2>1. UNCHANGED <<files, exportCursor, exporter>>
    BY <1>13 DEF LoseLock
  <2>2. Archived' = Archived /\ Numbered' = Numbered
    BY <1>1, <1>3, <2>1 DEF Numbered
  <2>3. ASSUME NEW q \in Replicas PROVE BatchOK(q)'
    <3>1. BatchOK(q) /\ Ids(exporter[q].batch)' = Ids(exporter[q].batch)
      BY <2>1 DEF Batches, Ids
    <3> QED BY <1>1, <2>1, <2>2, <3>1 DEF BatchOK
  <2> QED BY <1>4, <2>1, <2>3 DEF Batches
<1> HIDE DEF Good
<1>14. Good
  BY <1>7, <1>8, <1>9, <1>10, <1>11, <1>12, <1>13 DEF Exports, ExportStep
<1> QED BY <1>14 DEF Good

-----------------------------------------------------------------------------
(* The invariant, step by step, and what the log sees of a step.           *)

\* Everything that happens is one of four kinds of step.
LEMMA StepKinds ==
    ASSUME AuditNext
    PROVE  \/ \E w \in Recorders : Record(w) \/ DrawId(w) \/ Insert(w) \/ InsertFails(w)
           \/ Exports
           \/ PurgeOlderThan
           \/ AuditTick
BY DEF AuditNext, Exports

\* The invariant is inductive.
LEMMA ArchiveInductive ==
    ASSUME LagSuffices, IInv, [AuditNext]_auditVars
    PROVE  IInv'
<1> USE DEF IInv
<1>0. \A w \in Numbered : inserts[w].id \in 1..auditSeq
  BY DEF Ages
<1>1. CASE UNCHANGED auditVars
  <2>1. Archived' = Archived /\ Numbered' = Numbered /\ Stamped' = Stamped
        /\ Ids(auditLog)' = Ids(auditLog)
    BY <1>1 DEF auditVars, Archived, Numbered, Stamped, Ids
  <2>2. Types' /\ Ages' /\ Front' /\ FilesOK' /\ NoEventSkipped'
    BY <1>1, <2>1 DEF auditVars, Types, Ages, Front, FilesOK, NoEventSkipped
  <2>3. ASSUME NEW r \in Replicas PROVE BatchOK(r)'
    <3>1. BatchOK(r) /\ Ids(exporter[r].batch)' = Ids(exporter[r].batch)
      BY <1>1 DEF auditVars, Batches, Ids
    <3> QED BY <1>1, <2>1, <3>1 DEF auditVars, BatchOK
  <2> QED BY <2>2, <2>3 DEF Batches
<1>2. ASSUME NEW w \in Recorders, Record(w) \/ DrawId(w) \/ Insert(w) \/ InsertFails(w)
      PROVE  IInv'
  BY <1>0, <1>2, RowsTyped, RecordingKeepsAges, RecordingKeepsRest
<1>3. CASE Exports
  <2>1. UNCHANGED <<inserts, auditSeq, auditLog, committed>>
    BY <1>3, ExportsTouchNoRow
  <2>2. Numbered' = Numbered /\ Stamped' = Stamped
    BY <2>1 DEF Numbered, Stamped
  <2>3. Ages'
    BY <2>1, <2>2 DEF Ages
  <2>4. exportCursor' >= exportCursor /\ Batches' /\ FilesOK' /\ NoEventSkipped'
    BY <1>3, ExportsKeep
  <2>5. Types'
    BY <1>3, ExportsTyped
  <2>6. Front'
    <3>1. exportCursor \in Nat /\ exportCursor' \in Nat
      BY <2>5 DEF Types
    <3>2. \A id \in committed : id \in Nat
      BY Members
    <3> QED BY <2>1, <2>4, <3>1, <3>2 DEF Front, Ids
  <2> QED BY <2>3, <2>4, <2>5, <2>6
<1>4. CASE PurgeOlderThan
  BY <1>0, <1>4, RowsTyped, PurgeKeeps
<1>5. CASE AuditTick
  BY <1>0, <1>5, RowsTyped, TimeKeepsAges, TimeKeepsRest
<1>6. CASE AuditNext
  BY <1>2, <1>3, <1>4, <1>5, <1>6, StepKinds
<1> QED BY <1>1, <1>6

\* The cursor only moves forward: only an exporter moves it.
LEMMA CursorStep ==
    ASSUME LagSuffices, IInv, [AuditNext]_auditVars
    PROVE  exportCursor' >= exportCursor
<1>0. exportCursor \in Nat
  BY DEF IInv, Types
<1>1. CASE UNCHANGED auditVars
  BY <1>0, <1>1 DEF auditVars
<1>2. ASSUME NEW w \in Recorders, Record(w) \/ DrawId(w) \/ Insert(w) \/ InsertFails(w)
      PROVE  exportCursor' >= exportCursor
  BY <1>0, <1>2 DEF Record, DrawId, Insert, InsertFails
<1>3. CASE Exports
  BY <1>3, ExportsKeep
<1>4. CASE PurgeOlderThan \/ AuditTick
  BY <1>0, <1>4 DEF PurgeOlderThan, AuditTick
<1>5. CASE AuditNext
  BY <1>2, <1>3, <1>4, <1>5, StepKinds
<1> QED BY <1>1, <1>5

\* What the log sees of a step: a commit records an event, an upload archives events, a
\* purge purges events that are archived, and nothing else shows.
LEMMA LogStep ==
    ASSUME LagSuffices, IInv, [AuditNext]_auditVars
    PROVE  [Trail!LogNext]_(Trail!logVars)
<1> USE Members DEF IInv, Trail!logVars, Trail!LogNext
<1> DEFINE purged == committed \ Ids(auditLog)
           Silent == UNCHANGED <<committed, Archived>> /\ purged' = purged
<1>1. CASE UNCHANGED auditVars
  BY <1>1 DEF auditVars, Archived, Ids
<1>2. ASSUME NEW w \in Recorders, Insert(w) PROVE Trail!RecordEvent
  <2> DEFINE row == [id |-> inserts[w].id, age |-> inserts[w].age]
  <2>1. w \in Numbered /\ inserts[w].id \notin committed
    BY <1>2 DEF Insert, Numbered, Ages
  <2>2. committed' = committed \cup {inserts[w].id} /\ auditLog' = auditLog \cup {row}
    BY <1>2 DEF Insert
  <2>3. row.id = inserts[w].id
    OBVIOUS
  <2> HIDE DEF row
  <2>4. \A i : i \in Ids(auditLog') <=> i \in Ids(auditLog) \/ i = inserts[w].id
    BY <2>2, <2>3 DEF Ids
  <2>5. purged' = purged
    BY <2>1, <2>2, <2>4
  <2>6. Archived' = Archived
    BY <1>2 DEF Insert, Archived
  <2> QED BY <2>1, <2>2, <2>5, <2>6 DEF Trail!RecordEvent
<1>3. ASSUME NEW w \in Recorders, Record(w) \/ DrawId(w) \/ InsertFails(w) PROVE Silent
  BY <1>3 DEF Record, DrawId, InsertFails, Archived, Ids
<1>4. ASSUME Exports PROVE Trail!ArchiveEvents
  <2>1. UNCHANGED <<auditLog, committed>>
    BY <1>4, ExportsTouchNoRow
  <2>2. Archived \subseteq Archived' /\ Archived' \subseteq committed
    BY <1>4, ExportsKeep
  <2>3. purged' = purged
    BY <2>1 DEF Ids
  <2> QED BY <2>1, <2>2, <2>3 DEF Trail!ArchiveEvents
<1>5. ASSUME PurgeOlderThan PROVE Trail!PurgeEvents
  <2>1. UNCHANGED <<committed, files, exportCursor>> /\ auditLog' \subseteq auditLog
    BY <1>5 DEF PurgeOlderThan
  <2>2. Archived' = Archived
    BY <2>1 DEF Archived
  <2>3. purged \subseteq purged'
    BY <2>1 DEF Ids
  <2>4. Front'
    BY <1>5, PurgeKeeps
  <2>5. purged' \subseteq Archived
    <3>1. \A id \in purged' : id \in committed /\ id <= exportCursor
      BY <2>1, <2>4 DEF Front
    <3> HIDE DEF purged
    <3> QED BY <3>1 DEF NoEventSkipped
  <2> HIDE DEF purged
  <2>6. purged \subseteq purged' /\ purged' \subseteq Archived
        /\ UNCHANGED <<committed, Archived>>
    BY <2>1, <2>2, <2>3, <2>5
  <2> QED BY <2>6 DEF Trail!PurgeEvents, purged
<1>6. ASSUME AuditTick PROVE Silent
  <2>1. UNCHANGED <<committed, files>>
    BY <1>6 DEF AuditTick
  <2>2. Ids(auditLog') = Ids(auditLog)
    BY <1>6, TimeKeepsAges
  <2>3. purged' = purged
    BY <2>1, <2>2
  <2> QED BY <2>1, <2>3 DEF Archived
<1>7. CASE AuditNext
  <2> HIDE DEF purged
  <2>1. Silent => UNCHANGED <<committed, Archived, committed \ Ids(auditLog)>>
    BY DEF purged
  <2> HIDE DEF Silent
  <2> QED BY <1>2, <1>3, <1>4, <1>5, <1>6, <1>7, <2>1, StepKinds
<1> QED BY <1>1, <1>7

-----------------------------------------------------------------------------
\* No recorded event is lost to the archive (ListAuditLogEventsAfter's visibility lag,
\* Put before AdvanceExportCursor, the comparison in AdvanceAuditExportCursor): when ids
\* follow the stamps and inserts end within the lag, the cursor passes no row that is
\* not in a file and no insert that is still to commit, for any number of recorders and
\* of replicas, with lost locks and exports abandoned anywhere.
THEOREM NoEventIsSkipped ==
    ASSUME LagSuffices
    PROVE  AuditSpec => []NoEventSkipped
<1>1. AuditInit => IInv
  BY ArchiveInitial
<1>2. IInv /\ [AuditNext]_auditVars => IInv'
  BY ArchiveInductive
<1>3. IInv => NoEventSkipped
  BY DEF IInv
<1> QED BY <1>1, <1>2, <1>3, PTL DEF AuditSpec

\* An exporter that lost its lock and runs late never moves the cursor back
\* (AdvanceAuditExportCursor).
THEOREM CursorMovesForward ==
    ASSUME LagSuffices
    PROVE  AuditSpec => CursorNeverMovesBack
<1>1. AuditInit => IInv
  BY ArchiveInitial
<1>2. IInv /\ [AuditNext]_auditVars => IInv'
  BY ArchiveInductive
<1>3. IInv /\ [AuditNext]_auditVars => [exportCursor' >= exportCursor]_auditVars
  BY CursorStep
<1> QED BY <1>1, <1>2, <1>3, PTL DEF AuditSpec, CursorNeverMovesBack

\* The table, its exporters and its purge implement the archived log: what is archived
\* stays archived though files are written again under their names, and the table gives
\* up only what the archive holds ("purged rows live on in the archive").
THEOREM AuditLogIsArchived ==
    ASSUME LagSuffices
    PROVE  AuditSpec => ImplementsArchivedLog
<1>1. AuditInit => IInv /\ Trail!LogInit
  <2>1. AuditInit => Trail!LogInit
    BY DEF AuditInit, Trail!LogInit, Archived, Ids
  <2> QED BY <2>1, ArchiveInitial
<1>2. IInv /\ [AuditNext]_auditVars => IInv' /\ [Trail!LogNext]_(Trail!logVars)
  BY ArchiveInductive, LogStep
<1> QED BY <1>1, <1>2, PTL DEF AuditSpec, ImplementsArchivedLog, Trail!LogSpec
=============================================================================
