-------------------------- MODULE PublishingProofs --------------------------
(* What TLC checks of Publishing on small instances, proved for any sets of  *)
(* platforms, requests, percentages and contents and any bound on the clock. *)
EXTENDS Publishing, TLAPS

\* What a request x holds when it is about to use it.
RecordOK(db, x) ==
    /\ x.op \in {"publish", "rollback", "republish"} => x.platform \in Platforms
    /\ x.op # "progress" => x.percentage \in 0..99
    /\ x.op \in {"publish", "rollback"} => x.source = 0
    /\ x.pc = "insert" => /\ x.platform \in Platforms /\ x.id # 0
                          /\ x.source # 0 => x.source \in DOMAIN db
    /\ x.op = "progress" => x.pc = "write"
    /\ x.pc \in {"uploading", "stamp"} => x.id \in DOMAIN db

RequestsOK == \A q \in Requests : RecordOK(rows, req[q])

\* Timestamps are in the past.
PastTimestamps ==
    \A i \in DOMAIN rows : rows[i].created <= clock /\ rows[i].checked <= clock

\* r's control is the newest checked update of its platform besides r itself.
ControlIsNewest(db, r) ==
    LET others == CheckedOn(db, db[r].platform) \ {r}
    IN  \/ db[r].control = 0 /\ others = {}
        \/ /\ db[r].control \in others
           /\ \A j \in others : j <= db[r].control

\* Something was checked on r's platform after r was created.
OvertakenBy(db, r) ==
    \E n \in CheckedOn(db, db[r].platform) \ {r} : db[n].checked > db[r].created

\* A rollout that is still uploading has the newest control, or has been
\* overtaken, and then StampAllowed refuses it.
UploadingRollouts ==
    \A r \in DOMAIN rows :
        rows[r].percentage # 0 /\ rows[r].checked = 0 =>
            OvertakenBy(rows, r) \/ ControlIsNewest(rows, r)

\* What is true of the table between any two statements.
Safe == PastTimestamps /\ OneActiveRollout /\ NoUpdateSkipped /\ UploadingRollouts

\* The inductive invariant: types, what requests hold, and Safe.
IInv == TypeOK /\ RequestsOK /\ Safe

-----------------------------------------------------------------------------
(* Types.                                                                   *)

\* The ids handed out are positive, so 0 can stand for no update.
LEMMA TimestampPositive ==
    \A ms \in Nat, p \in Platforms : GenerateUpdateTimestamp(ms, p) \in Nat \ {0}
BY PlatformsAssumption, SMTT(60) DEF GenerateUpdateTimestamp

\* An idle slot holds nothing.
LEMMA IdleOK ==
    ASSUME NEW db
    PROVE  /\ Idle \in RequestRecord(db) /\ RecordOK(db, Idle)
           /\ Idle.percentage = 0 /\ Idle.source = 0
BY DEF Idle, RecordOK, RequestRecord

\* A step that changes one request, and only adds to the table, keeps the
\* others as they are.
LEMMA OneRequest ==
    ASSUME TypeOK, RequestsOK, NEW q \in Requests, NEW x \in RequestRecord(rows'),
           RecordOK(rows', x), DOMAIN rows \subseteq DOMAIN rows',
           req' = [req EXCEPT ![q] = x]
    PROVE  req' \in [Requests -> RequestRecord(rows')] /\ RequestsOK'
<1>1. \A r \in Requests \ {q} : req'[r] = req[r] /\ req[r] \in RequestRecord(rows)
  BY DEF TypeOK
<1>2. RequestRecord(rows) \subseteq RequestRecord(rows')
  BY DEF RequestRecord
<1>3. req'[q] = x
  BY DEF TypeOK
<1>4. \A r \in Requests : req'[r] \in RequestRecord(rows')
  BY <1>1, <1>2, <1>3
<1>5. req' \in [Requests -> RequestRecord(rows')]
  BY <1>4, SMTT(60) DEF TypeOK
<1>6. \A r \in Requests \ {q} : RecordOK(rows', req[r])
  BY DEF RequestsOK, RecordOK
<1> QED
  BY <1>1, <1>3, <1>5, <1>6 DEF RequestsOK

\* The same for a step that leaves the table alone.
LEMMA OneRequestOnly ==
    ASSUME TypeOK, RequestsOK, NEW q \in Requests, NEW x \in RequestRecord(rows),
           RecordOK(rows, x), UNCHANGED <<rows, clock>>, now' \in Nat,
           req' = [req EXCEPT ![q] = x]
    PROVE  TypeOK' /\ RequestsOK'
<1>1. x \in RequestRecord(rows') /\ RecordOK(rows', x) /\ DOMAIN rows \subseteq DOMAIN rows'
  OBVIOUS
<1>2. req' \in [Requests -> RequestRecord(rows')] /\ RequestsOK'
  BY <1>1, OneRequest, ZenonT(60)
<1> QED
  BY <1>2 DEF TypeOK

\* A refused request leaves an idle slot.
LEMMA RefuseOK ==
    ASSUME TypeOK, RequestsOK, NEW q \in Requests, Refuse(q), UNCHANGED <<rows, clock, now>>
    PROVE  TypeOK' /\ RequestsOK'
BY OneRequestOnly, IdleOK, ZenonT(60) DEF Refuse, TypeOK

\* A publishing request gets its id.
LEMMA GenerateIdOK ==
    ASSUME TypeOK, RequestsOK, NEW q \in Requests, UNCHANGED <<rows, clock>>,
           req[q].op \in {"publish", "rollback", "republish"}, GenerateId(q),
           req[q].source # 0 => req[q].source \in DOMAIN rows
    PROVE  TypeOK' /\ RequestsOK'
<1>1. now' \in Nat
  BY DEF TypeOK, GenerateId
<1>2. req[q] \in RequestRecord(rows) /\ RecordOK(rows, req[q])
  BY DEF TypeOK, RequestsOK
<1>3. PICK i : i = GenerateUpdateTimestamp(now', req[q].platform)
  OBVIOUS
<1>4. i \in Nat \ {0}
  <2>1. req[q].platform \in Platforms
    BY <1>2 DEF RecordOK
  <2> QED
    BY <1>1, <1>3, <2>1, TimestampPositive
<1> DEFINE x == [req[q] EXCEPT !.pc = "insert", !.id = i]
<1>5. x \in RequestRecord(rows)
  BY <1>2, <1>4, ZenonT(60) DEF RequestRecord
<1>6. RecordOK(rows, x)
  BY <1>2, <1>4, ZenonT(60) DEF RequestRecord, RecordOK
<1>7. req' = [req EXCEPT ![q] = x]
  BY <1>3, ZenonT(60) DEF GenerateId, TypeOK
<1> QED
  BY <1>1, <1>5, <1>6, <1>7, OneRequestOnly, ZenonT(60)

\* Guarded admits a request with the given record.
LEMMA GuardedOK ==
    ASSUME TypeOK, RequestsOK, NEW q \in Requests, NEW x, Guarded(q, x),
           x \in RequestRecord(rows), RecordOK(rows, x)
    PROVE  TypeOK' /\ RequestsOK'
<1>1. UNCHANGED <<rows, now, clock>> /\ now' \in Nat
  BY DEF Guarded, TypeOK
<1>2. CASE Refuse(q)
  BY <1>1, <1>2, RefuseOK
<1>3. CASE req' = [req EXCEPT ![q] = x]
  BY <1>1, <1>3, OneRequestOnly, ZenonT(60)
<1> QED
  BY <1>2, <1>3 DEF Guarded

\* A revert republishes an update of the table, or none.
LEMMA PrepareRevertOK ==
    ASSUME TypeOK, RequestsOK, NEW q \in Requests, PrepareRevert(q)
    PROVE  TypeOK' /\ RequestsOK'
<1>1. req[q] \in RequestRecord(rows) /\ RecordOK(rows, req[q])
  BY DEF TypeOK, RequestsOK
<1>2. PICK r \in req[q].todo : 
         LET c == rows[r].control
             p == rows[r].platform
             rollback == c = 0 \/ rows[c].type = "rollback"
         IN  IF rollback \/ Republishable(rows, c, p)
             THEN /\ now' \in {now, now + 1}
                  /\ req' = [req EXCEPT ![q].pc = "insert", ![q].platform = p,
                                        ![q].source = IF rollback THEN 0 ELSE c,
                                        ![q].id = GenerateUpdateTimestamp(now', p)]
             ELSE Refuse(q) /\ UNCHANGED now
  BY ZenonT(60) DEF PrepareRevert
<1>3. UNCHANGED <<rows, clock>>
  BY DEF PrepareRevert
<1>4. CASE Refuse(q) /\ UNCHANGED now
  BY <1>3, <1>4, RefuseOK
<1>5. PICK c, p, s, i :
          /\ c = rows[r].control /\ p = rows[r].platform
          /\ i = GenerateUpdateTimestamp(now', p)
          /\ s = IF c = 0 \/ rows[c].type = "rollback" THEN 0 ELSE c
  OBVIOUS
<1>6. CASE /\ s = 0 \/ Republishable(rows, c, p)
           /\ now' \in {now, now + 1}
           /\ req' = [req EXCEPT ![q].pc = "insert", ![q].platform = p,
                                 ![q].source = s, ![q].id = i]
  <2> DEFINE x == [req[q] EXCEPT !.pc = "insert", !.platform = p, !.source = s, !.id = i]
  <2>1. now' \in Nat
    BY <1>6 DEF TypeOK
  <2>2. r \in DOMAIN rows
    BY <1>1 DEF RequestRecord
  <2>3. p \in Platforms /\ c \in Nat
    BY <1>5, <2>2 DEF TypeOK, Row
  <2>5. i \in Nat \ {0}
    BY <1>5, <2>1, <2>3, TimestampPositive
  <2>6. s \in Nat /\ (s # 0 => s \in DOMAIN rows)
    BY <1>5, <1>6, <2>3 DEF Republishable
  <2>7. x \in RequestRecord(rows)
    BY <1>1, <2>3, <2>5, <2>6, ZenonT(60) DEF RequestRecord
  <2>8. req[q].op = "revert"
    BY DEF PrepareRevert
  <2>9. RecordOK(rows, x)
    BY <1>1, <2>3, <2>5, <2>6, <2>8, ZenonT(60) DEF RequestRecord, RecordOK
  <2>10. req' = [req EXCEPT ![q] = x]
    BY <1>6, ZenonT(60) DEF TypeOK
  <2> QED
    BY <1>3, <2>1, <2>7, <2>9, <2>10, OneRequestOnly, ZenonT(60)
<1> QED
  BY <1>2, <1>4, <1>5, <1>6

\* A request that has inserted its row drops what the row now carries.
LEMMA InsertedRecord ==
    ASSUME NEW db, NEW y \in RequestRecord(db), NEW pc \in {"uploading", "stamp"},
           NEW pct \in 0..100, NEW c \in Contents \cup {Embedded}, NEW s \in Nat
    PROVE  [y EXCEPT !.pc = pc, !.percentage = pct, !.content = c, !.source = s]
               \in RequestRecord(db)
BY ZenonT(60) DEF RequestRecord

\* Every row Insert adds has its columns' types.
LEMMA InsertOK ==
    ASSUME TypeOK, RequestsOK, NEW q \in Requests, Insert(q)
    PROVE  TypeOK' /\ RequestsOK'
<1>1. req[q] \in RequestRecord(rows) /\ RecordOK(rows, req[q]) /\ req[q].pc = "insert"
  BY DEF TypeOK, RequestsOK, Insert
<1>2. UNCHANGED now
  BY DEF Insert
<1>3. CASE req[q].id \in DOMAIN rows
  BY <1>2, <1>3, RefuseOK DEF Insert
<1>4. CASE req[q].id \notin DOMAIN rows
  <2> DEFINE n(c) == [platform |-> req[q].platform,
                      type |-> IF NewContent(q) = Embedded THEN "rollback" ELSE "normal",
                      percentage |-> req[q].percentage,
                      control |-> IF req[q].percentage = 0 THEN 0 ELSE c,
                      created |-> clock', checked |-> 0, content |-> NewContent(q)]
             x(pc) == [req[q] EXCEPT !.pc = pc, !.percentage = 0, !.content = Embedded, !.source = 0]
  <2>1. PICK c \in DOMAIN rows \cup {0} :
           rows' = [i \in DOMAIN rows \cup {req[q].id} |-> IF i \in DOMAIN rows THEN rows[i] ELSE n(c)]
    BY <1>4, SMTT(60) DEF Insert
  <2>2. clock' \in Nat
    BY <1>4, SMTT(60) DEF Insert, TypeOK
  <2>3. NewContent(q) \in Contents \cup {Embedded}
    BY <1>1, SMTT(60) DEF NewContent, RecordOK, RequestRecord, TypeOK, Row
  <2>4. req[q].platform \in Platforms /\ req[q].percentage \in 0..99 /\ req[q].id \in Nat \ {0}
    BY <1>1 DEF RecordOK, RequestRecord
  <2>5. c \in Nat
    BY SMTT(60) DEF TypeOK
  <2>6. n(c) \in Row
    BY <2>2, <2>3, <2>4, <2>5 DEF Row
  <2>7. DOMAIN rows' = DOMAIN rows \cup {req[q].id}
    BY <2>1, SMTT(60)
  <2>8. DOMAIN rows' \subseteq Nat \ {0} /\ rows' \in [DOMAIN rows' -> Row]
    BY <2>1, <2>4, <2>6, <2>7 DEF TypeOK
  <2>9. PICK pc \in {"uploading", "stamp"} : req' = [req EXCEPT ![q] = x(pc)]
    BY <1>4, ZenonT(60) DEF Insert, TypeOK
  <2> HIDE DEF n
  <2>10. x(pc) \in RequestRecord(rows')
    <3>0. 0 \in 0..100 /\ 0 \in Nat /\ Embedded \in Contents \cup {Embedded}
      OBVIOUS
    <3>1. x(pc) \in RequestRecord(rows)
      BY <1>1, <3>0, InsertedRecord, Zenon
    <3> QED
      BY <2>7, <3>1 DEF RequestRecord
  <2>11. RecordOK(rows', x(pc))
    <3>1. /\ x(pc).op = req[q].op /\ x(pc).platform = req[q].platform /\ x(pc).percentage = 0
          /\ x(pc).pc \in {"uploading", "stamp"} /\ x(pc).id = req[q].id
      BY <1>1, SMTT(60) DEF RequestRecord
    <3>2. req[q].op # "progress" /\ x(pc).id \in DOMAIN rows'
      BY <1>1, <2>7, <3>1 DEF RecordOK
    <3> QED
      BY <1>1, <3>1, <3>2 DEF RecordOK
  <2> QED
    BY <1>2, <2>2, <2>7, <2>8, <2>9, <2>10, <2>11, OneRequest, ZenonT(60) DEF TypeOK
<1> QED
  BY <1>3, <1>4

\* A stamp keeps the columns' types and, in a revert, the rows left are rows.
LEMMA MarkOK ==
    ASSUME TypeOK, RequestsOK, NEW q \in Requests, MarkUpdateAsChecked(q)
    PROVE  TypeOK' /\ RequestsOK'
<1>1. /\ req[q] \in RequestRecord(rows) /\ RecordOK(rows, req[q]) /\ req[q].pc = "stamp"
      /\ UNCHANGED now
  BY DEF TypeOK, RequestsOK, MarkUpdateAsChecked
<1>2. CASE Refuse(q) /\ UNCHANGED <<rows, clock>>
  BY <1>1, <1>2, RefuseOK, SMTT(60)
<1>3. PICK i \in DOMAIN rows : i = req[q].id
  BY <1>1 DEF RecordOK
<1>4. PICK left : left = LeftToRevert(q)
  OBVIOUS
<1>5. CASE /\ clock' = clock + 1
           /\ rows' = [rows EXCEPT ![i].checked = clock']
           /\ req' = [req EXCEPT ![q] = IF req[q].op # "revert" THEN Idle
                  ELSE [req[q] EXCEPT !.pc = IF left = {} THEN "done" ELSE "prepare",
                                      !.todo = left, !.made = req[q].made \cup {i}]]
  <2>1. clock' \in Nat
    BY <1>5 DEF TypeOK
  <2>2. DOMAIN rows' = DOMAIN rows
    BY <1>5
  <2>3. rows[i] \in Row
    BY DEF TypeOK
  <2>4. [rows[i] EXCEPT !.checked = clock'] \in Row
    BY <2>1, <2>3 DEF Row
  <2>5. rows' = [rows EXCEPT ![i] = [rows[i] EXCEPT !.checked = clock']]
    BY <1>5
  <2>6. DOMAIN rows' \subseteq Nat \ {0} /\ rows' \in [DOMAIN rows' -> Row]
    BY <2>2, <2>4, <2>5 DEF TypeOK
  <2>7. PICK pc \in {"done", "prepare"} : pc = IF left = {} THEN "done" ELSE "prepare"
    OBVIOUS
  <2>8. PICK made \in SUBSET DOMAIN rows : made = req[q].made \cup {i}
    BY <1>1, ZenonT(60) DEF RequestRecord
  <2>9. left \in SUBSET DOMAIN rows
    BY <1>1, <1>4 DEF LeftToRevert, RequestRecord
  <2> DEFINE x == [req[q] EXCEPT !.pc = pc, !.todo = left, !.made = made]
  <2>10. CASE req[q].op = "revert"
    <3>0. req' = [req EXCEPT ![q] =
                      [req[q] EXCEPT !.pc = IF left = {} THEN "done" ELSE "prepare",
                                     !.todo = left, !.made = req[q].made \cup {i}]]
      BY <1>5, <2>10
    <3>1. req' = [req EXCEPT ![q] = x]
      BY <2>7, <2>8, <3>0, SMTT(60)
    <3>2. x \in RequestRecord(rows)
      BY <1>1, <2>9, ZenonT(60) DEF RequestRecord
    <3>3. x \in RequestRecord(rows')
      BY <2>2, <3>2 DEF RequestRecord
    <3>4. x.op = "revert" /\ x.pc \in {"done", "prepare"} /\ x.percentage = req[q].percentage
      BY <1>1, <2>10 DEF RequestRecord
    <3>5. RecordOK(rows', x)
      BY <1>1, <2>10, <3>4 DEF RecordOK
    <3> QED
      BY <1>1, <2>1, <2>2, <2>6, <3>1, <3>3, <3>5, OneRequest, ZenonT(60) DEF TypeOK
  <2>11. CASE req[q].op # "revert"
    <3>1. req' = [req EXCEPT ![q] = Idle]
      BY <1>5, <2>11
    <3> QED
      BY <1>1, <2>1, <2>2, <2>6, <3>1, IdleOK, OneRequest, ZenonT(60) DEF TypeOK
  <2> QED
    BY <2>10, <2>11
<1> QED
  BY <1>2, <1>3, <1>4, <1>5 DEF MarkUpdateAsChecked

\* Writing a percentage keeps the CHECK constraint of the column.
LEMMA SetPercentageOK ==
    ASSUME NEW db, DOMAIN db \subseteq Nat \ {0}, db \in [DOMAIN db -> Row],
           NEW S, NEW pct \in 0..99
    PROVE  /\ DOMAIN SetPercentage(db, S, pct) = DOMAIN db
           /\ SetPercentage(db, S, pct) \in [DOMAIN db -> Row]
<1>1. \A i \in DOMAIN db : [db[i] EXCEPT !.percentage = pct] \in Row
  BY DEF Row
<1> QED
  BY <1>1 DEF SetPercentage

\* The two writes of a rollout mutation.
LEMMA WriteOK ==
    ASSUME TypeOK, RequestsOK, NEW q \in Requests, ProgressRollout(q) \/ ClearUpdateRollout(q)
    PROVE  TypeOK' /\ RequestsOK'
<1>1. /\ req[q] \in RequestRecord(rows) /\ RecordOK(rows, req[q]) /\ req[q].pc = "write"
      /\ UNCHANGED <<now, clock>>
  BY DEF TypeOK, RequestsOK, ProgressRollout, ClearUpdateRollout
<1>2. CASE Refuse(q) /\ UNCHANGED rows
  BY <1>1, <1>2, RefuseOK
<1>3. ASSUME NEW S, NEW pct \in 0..99, rows' = SetPercentage(rows, S, pct),
             NEW x \in RequestRecord(rows), RecordOK(rows, x), req' = [req EXCEPT ![q] = x]
      PROVE  TypeOK' /\ RequestsOK'
  <2>1. DOMAIN rows' = DOMAIN rows /\ rows' \in [DOMAIN rows' -> Row]
    BY <1>3, SetPercentageOK, ZenonT(60) DEF TypeOK
  <2>2. x \in RequestRecord(rows') /\ RecordOK(rows', x)
    BY <1>3, <2>1 DEF RequestRecord, RecordOK
  <2> QED
    BY <1>1, <1>3, <2>1, <2>2, OneRequest, ZenonT(60) DEF TypeOK
<1>4. CASE ProgressRollout(q) /\ ~(Refuse(q) /\ UNCHANGED rows)
  <2>1. req[q].percentage \in 0..99
    BY <1>1, <1>4, SMTT(60) DEF RequestRecord, ProgressRollout
  <2> QED
    BY <1>3, <1>4, <2>1, IdleOK, ZenonT(60) DEF ProgressRollout
<1>5. CASE ClearUpdateRollout(q) /\ ~(Refuse(q) /\ UNCHANGED rows)
  <2>1. PICK S : S = ActiveRolloutUpdates(rows)
    OBVIOUS
  <2>2. S \in SUBSET DOMAIN rows
    BY <2>1 DEF ActiveRolloutUpdates
  <2>3. rows' = SetPercentage(rows, S, 0) /\ 0 \in 0..99
    BY <1>5, <2>1 DEF ClearUpdateRollout
  <2> DEFINE x == [req[q] EXCEPT !.pc = "prepare", !.todo = req[q].seen, !.cleared = S]
  <2>4. CASE req[q].op = "revert"
    <3>1. req' = [req EXCEPT ![q] = x]
      BY <1>5, <2>1, <2>4 DEF ClearUpdateRollout
    <3>2. x \in RequestRecord(rows)
      BY <1>1, <2>2, ZenonT(60) DEF RequestRecord
    <3>3. x.op = "revert" /\ x.pc = "prepare" /\ x.percentage = req[q].percentage
      BY <1>1, <2>4 DEF RequestRecord
    <3>4. RecordOK(rows, x)
      BY <1>1, <2>4, <3>3 DEF RecordOK
    <3> QED
      BY <1>3, <2>3, <3>1, <3>2, <3>4, ZenonT(60)
  <2>5. CASE req[q].op # "revert"
    <3>1. req' = [req EXCEPT ![q] = Idle]
      BY <1>5, <2>5 DEF ClearUpdateRollout
    <3> QED
      BY <1>3, <2>3, <3>1, IdleOK, ZenonT(60)
  <2> QED
    BY <2>4, <2>5
<1> QED
  BY <1>2, <1>4, <1>5

\* A publish starts from an idle slot's record.
LEMMA PublishRecord ==
    ASSUME NEW db, NEW y \in RequestRecord(db), NEW p \in Platforms \cup {0},
           NEW pct \in 0..100, NEW c \in Contents \cup {Embedded}
    PROVE  [y EXCEPT !.op = "publish", !.pc = "prepare", !.platform = p,
                     !.percentage = pct, !.content = c] \in RequestRecord(db)
BY ZenonT(60) DEF RequestRecord

\* Types are kept by every step.
LEMMA TypeStep ==
    ASSUME TypeOK, RequestsOK, [Next]_vars
    PROVE  TypeOK' /\ RequestsOK'
<1>1. CASE UNCHANGED vars
  BY <1>1 DEF vars, TypeOK, RequestsOK, RecordOK, RequestRecord
<1>2. ASSUME NEW q \in Requests, NEW p \in Platforms, NEW pct \in Percentages \cup {0},
             NEW c \in Contents, RequestUploadURLs(q, p, pct, c)
      PROVE  TypeOK' /\ RequestsOK'
  <2>1. pct \in 0..99
    BY PercentagesAssumption
  <2> DEFINE x == [Idle EXCEPT !.op = "publish", !.pc = "prepare", !.platform = p,
                               !.percentage = pct, !.content = c]
  <2>2. x \in RequestRecord(rows) /\ RecordOK(rows, x)
    <3>0. pct \in 0..100 /\ c \in Contents \cup {Embedded} /\ p \in Platforms \cup {0}
      BY <2>1
    <3>1. x \in RequestRecord(rows)
      BY <3>0, IdleOK, PublishRecord, ZenonT(60)
    <3>2. /\ x.op = "publish" /\ x.pc = "prepare" /\ x.platform = p /\ x.percentage = pct
          /\ x.source = 0
      BY IdleOK DEF RequestRecord
    <3> HIDE DEF x
    <3> QED
      BY <2>1, <3>1, <3>2 DEF RecordOK
  <2> QED
    BY <1>2, <2>2, GuardedOK DEF RequestUploadURLs
<1>3. ASSUME NEW q \in Requests, NEW p \in Platforms, CreateRollback(q, p)
      PROVE  TypeOK' /\ RequestsOK'
  <2> DEFINE x == [Idle EXCEPT !.op = "rollback", !.pc = "prepare", !.platform = p]
  <2>1. x \in RequestRecord(rows) /\ RecordOK(rows, x)
    <3>1. x \in RequestRecord(rows)
      BY IdleOK, ZenonT(60) DEF RequestRecord
    <3>2. /\ x.op = "rollback" /\ x.pc = "prepare" /\ x.platform = p /\ x.percentage = 0
          /\ x.source = 0
      BY IdleOK DEF RequestRecord
    <3> HIDE DEF x
    <3> QED
      BY <3>1, <3>2 DEF RecordOK
  <2> QED
    BY <1>3, <2>1, GuardedOK DEF CreateRollback
<1>4. ASSUME NEW q \in Requests, NEW p \in Platforms, NEW i \in DOMAIN rows, RepublishUpdate(q, p, i)
      PROVE  TypeOK' /\ RequestsOK'
  <2> DEFINE x == [Idle EXCEPT !.op = "republish", !.pc = "prepare", !.platform = p, !.source = i]
  <2>0. i \in Nat
    BY DEF TypeOK
  <2>1. x \in RequestRecord(rows) /\ RecordOK(rows, x)
    <3>1. x \in RequestRecord(rows)
      BY <2>0, IdleOK, ZenonT(60) DEF RequestRecord
    <3>2. x.op = "republish" /\ x.pc = "prepare" /\ x.platform = p /\ x.percentage = 0
      BY IdleOK DEF RequestRecord
    <3> HIDE DEF x
    <3> QED
      BY <2>0, <3>1, <3>2 DEF RecordOK
  <2> QED
    BY <1>4, <2>1, GuardedOK DEF RepublishUpdate
<1>5. ASSUME NEW q \in Requests, NEW pct \in Percentages \cup {100}, NEW pin, ReadForProgress(q, pct, pin)
      PROVE  TypeOK' /\ RequestsOK'
  <2>1. pct \in 0..100
    BY PercentagesAssumption
  <2>2. PICK S \in SUBSET DOMAIN rows : S = ActiveRolloutUpdates(rows)
    BY ZenonT(60) DEF ActiveRolloutUpdates
  <2> DEFINE x == [Idle EXCEPT !.op = "progress", !.pc = "write", !.percentage = pct, !.seen = S]
  <2>3. x \in RequestRecord(rows) /\ RecordOK(rows, x)
    BY <2>1, ZenonT(60) DEF Idle, RequestRecord, RecordOK
  <2>4. UNCHANGED <<rows, clock, now>> /\ now' \in Nat
    BY <1>5 DEF ReadForProgress, TypeOK
  <2>5. Refuse(q) \/ req' = [req EXCEPT ![q] = x]
    BY <1>5, <2>2 DEF ReadForProgress
  <2> QED
    BY <2>3, <2>4, <2>5, RefuseOK, OneRequestOnly
<1>6. ASSUME NEW q \in Requests, NEW pin, ReadForRevert(q, pin)
      PROVE  TypeOK' /\ RequestsOK'
  <2>1. PICK S \in SUBSET DOMAIN rows : S = ActiveRolloutUpdates(rows)
    BY ZenonT(60) DEF ActiveRolloutUpdates
  <2> DEFINE x == [Idle EXCEPT !.op = "revert", !.pc = "write", !.seen = S]
  <2>2. x \in RequestRecord(rows) /\ RecordOK(rows, x)
    <3>1. x \in RequestRecord(rows)
      BY IdleOK, ZenonT(60) DEF RequestRecord
    <3>2. x.op = "revert" /\ x.pc = "write" /\ x.percentage = 0
      BY IdleOK DEF RequestRecord
    <3> HIDE DEF x
    <3> QED
      BY <3>1, <3>2 DEF RecordOK
  <2>3. UNCHANGED <<rows, clock, now>> /\ now' \in Nat
    BY <1>6 DEF ReadForRevert, TypeOK
  <2>4. Refuse(q) \/ req' = [req EXCEPT ![q] = x]
    BY <1>6, <2>1 DEF ReadForRevert
  <2> QED
    BY <2>2, <2>3, <2>4, RefuseOK, OneRequestOnly
<1>7. ASSUME NEW q \in Requests, PreparePublish(q) \/ PrepareRollback(q) \/ PrepareRepublish(q)
      PROVE  TypeOK' /\ RequestsOK'
  <2>1. req[q].op \in {"publish", "rollback", "republish"} /\ UNCHANGED <<rows, clock>>
    BY <1>7 DEF PreparePublish, PrepareRollback, PrepareRepublish
  <2>2. CASE Refuse(q) /\ UNCHANGED now
    BY <2>1, <2>2, RefuseOK
  <2>3. CASE GenerateId(q) /\ (req[q].source # 0 => req[q].source \in DOMAIN rows)
    BY <2>1, <2>3, GenerateIdOK
  <2>4. req[q].op # "republish" => req[q].source = 0
    BY <2>1 DEF RequestsOK, RecordOK
  <2> QED
    BY <1>7, <2>2, <2>3, <2>4 DEF PreparePublish, PrepareRollback, PrepareRepublish, Republishable
<1>8. ASSUME NEW q \in Requests, VerifyUploadedUpdate(q)
      PROVE  TypeOK' /\ RequestsOK'
  <2>1. /\ req[q] \in RequestRecord(rows) /\ RecordOK(rows, req[q]) /\ req[q].pc = "uploading"
        /\ UNCHANGED <<rows, now, clock>> /\ now' \in Nat
    BY <1>8 DEF TypeOK, RequestsOK, VerifyUploadedUpdate
  <2> DEFINE x == [req[q] EXCEPT !.pc = "stamp"]
  <2>2. x \in RequestRecord(rows) /\ RecordOK(rows, x)
    BY <2>1, SMTT(60) DEF RequestRecord, RecordOK
  <2>3. Refuse(q) \/ req' = [req EXCEPT ![q] = x]
    BY <1>8 DEF VerifyUploadedUpdate
  <2> QED
    BY <2>1, <2>2, <2>3, RefuseOK, OneRequestOnly
<1>9. ASSUME NEW q \in Requests, NEW r \in Requests, Resend(q, r)
      PROVE  TypeOK' /\ RequestsOK'
  <2>1. /\ req[r] \in RequestRecord(rows) /\ RecordOK(rows, req[r])
        /\ req[r].pc \in {"uploading", "stamp"} /\ req[r].op = "publish"
        /\ UNCHANGED <<rows, now, clock>> /\ now' \in Nat
    BY <1>9 DEF TypeOK, RequestsOK, Resend
  <2> DEFINE x == [req[r] EXCEPT !.pc = "uploading"]
  <2>2. x \in RequestRecord(rows) /\ RecordOK(rows, x)
    BY <2>1, ZenonT(60) DEF RequestRecord, RecordOK
  <2>3. req' = [req EXCEPT ![q] = x]
    BY <1>9 DEF Resend
  <2> QED
    BY <2>1, <2>2, <2>3, OneRequestOnly, ZenonT(60)
<1>10. ASSUME NEW q \in Requests, Answer(q)
       PROVE  TypeOK' /\ RequestsOK'
  BY <1>10, RefuseOK, ZenonT(60) DEF Answer, Refuse
<1> QED
  BY ZenonT(60), <1>1, <1>2, <1>3, <1>4, <1>5, <1>6, <1>7, <1>8, <1>9, <1>10,
     PrepareRevertOK, InsertOK, MarkOK, WriteOK DEF Next

-----------------------------------------------------------------------------
(* Safety.  Whatever a request does, its step leaves the table alone or is    *)
(* one of three statements.                                                   *)

\* InsertUpdate or InsertUpdateWithRollout adds row i.
Inserts(i) ==
    /\ i \notin DOMAIN rows /\ DOMAIN rows' = DOMAIN rows \cup {i}
    /\ \A j \in DOMAIN rows : rows'[j] = rows[j]
    /\ clock' = clock + 1
    /\ rows'[i].checked = 0 /\ rows'[i].created = clock'
    /\ rows'[i].percentage # 0 => IsLatestUpdate(rows, rows'[i].platform, rows'[i].control)

\* MarkUpdateAsChecked stamps row i.
Stamps(i) ==
    /\ i \in DOMAIN rows /\ StampAllowed(rows, i) /\ ~UniqueViolation(rows, i)
    /\ clock' = clock + 1
    /\ rows' = [rows EXCEPT ![i].checked = clock']

\* SetUpdateRolloutPercentage or ClearUpdateRollout writes the rows S.
Writes(S, pct) ==
    /\ S \subseteq ActiveRolloutUpdates(rows)
    /\ pct = 0 \/ \A i \in S : rows[i].percentage < pct
    /\ UNCHANGED clock
    /\ rows' = SetPercentage(rows, S, pct)

\* Every step leaves the table alone, inserts one row, stamps one row or writes
\* percentages: the four cases the rest of the proof is about.
LEMMA TableStep ==
    ASSUME TypeOK, RequestsOK, [Next]_vars
    PROVE  \/ UNCHANGED <<rows, clock>>
           \/ (\E i : Inserts(i)) /\ \E q \in Requests : Insert(q)
           \/ \E i : Stamps(i)
           \/ \E S, pct : pct \in Nat /\ Writes(S, pct)
<1>1. CASE \E q \in Requests : Insert(q)
  <2>1. PICK q \in Requests : Insert(q)
    BY <1>1
  <2>2. CASE req[q].id \in DOMAIN rows
    BY <2>1, <2>2 DEF Insert
  <2>3. CASE req[q].id \notin DOMAIN rows
    <3>1. PICK c \in DOMAIN rows \cup {0} :
             /\ IsLatestUpdate(rows, req[q].platform, c)
             /\ rows' = [i \in DOMAIN rows \cup {req[q].id} |->
                   IF i \in DOMAIN rows THEN rows[i]
                   ELSE [platform |-> req[q].platform,
                         type |-> IF NewContent(q) = Embedded THEN "rollback" ELSE "normal",
                         percentage |-> req[q].percentage,
                         control |-> IF req[q].percentage = 0 THEN 0 ELSE c,
                         created |-> clock', checked |-> 0, content |-> NewContent(q)]]
      BY <2>1, <2>3, ZenonT(60) DEF Insert
    <3>2. clock' = clock + 1
      BY <2>1, <2>3 DEF Insert
    <3> QED
      BY <2>1, <2>3, <3>1, <3>2 DEF Inserts
  <2> QED
    BY <2>2, <2>3
<1>2. CASE \E q \in Requests : MarkUpdateAsChecked(q)
  <2>1. PICK q \in Requests : MarkUpdateAsChecked(q)
    BY <1>2
  <2>2. req[q].id \in DOMAIN rows
    BY <2>1 DEF MarkUpdateAsChecked, RequestsOK, RecordOK
  <2> QED
    BY <2>1, <2>2 DEF MarkUpdateAsChecked, Stamps
<1>3. CASE \E q \in Requests : ProgressRollout(q)
  <2>1. PICK q \in Requests : ProgressRollout(q)
    BY <1>3
  <2>2. req[q].percentage \in Nat
    BY DEF TypeOK, RequestRecord
  <2>3. \A pct : /\ RowsBelow(rows, pct) \subseteq ActiveRolloutUpdates(rows)
                 /\ \A i \in RowsBelow(rows, pct) : rows[i].percentage < pct
    BY DEF RowsBelow
  <2> QED
    BY <2>1, <2>2, <2>3 DEF ProgressRollout, Writes
<1>4. CASE \E q \in Requests : ClearUpdateRollout(q)
  <2>1. 0 \in Nat
    OBVIOUS
  <2> QED
    BY <1>4, <2>1 DEF ClearUpdateRollout, Writes
<1>5. CASE UNCHANGED vars
  BY <1>5, SMTT(60) DEF vars
<1>6. ASSUME NEW q \in Requests,
             \/ \E p \in Platforms, pct \in Percentages \cup {0}, c \in Contents :
                    RequestUploadURLs(q, p, pct, c)
             \/ \E p \in Platforms : CreateRollback(q, p)
             \/ \E p \in Platforms, i \in DOMAIN rows : RepublishUpdate(q, p, i)
      PROVE  UNCHANGED <<rows, clock>>
  BY <1>6, ZenonT(60) DEF RequestUploadURLs, CreateRollback, RepublishUpdate, Guarded
<1>7. ASSUME NEW q \in Requests,
             \/ \E pct \in Percentages \cup {100}, pin \in DOMAIN rows \cup {0} :
                    ReadForProgress(q, pct, pin)
             \/ \E pin \in DOMAIN rows \cup {0} : ReadForRevert(q, pin)
      PROVE  UNCHANGED <<rows, clock>>
  BY <1>7, ZenonT(60) DEF ReadForProgress, ReadForRevert
<1>8. ASSUME NEW q \in Requests,
             PreparePublish(q) \/ PrepareRollback(q) \/ PrepareRepublish(q) \/ PrepareRevert(q)
      PROVE  UNCHANGED <<rows, clock>>
  BY <1>8, ZenonT(60) DEF PreparePublish, PrepareRollback, PrepareRepublish, PrepareRevert
<1>9. ASSUME NEW q \in Requests,
             VerifyUploadedUpdate(q) \/ Answer(q) \/ \E r \in Requests : Resend(q, r)
      PROVE  UNCHANGED <<rows, clock>>
  BY <1>9 DEF VerifyUploadedUpdate, Answer, Resend
<1>10. CASE Next
  <2>1. PICK q \in Requests :
           \/ UNCHANGED <<rows, clock>>
           \/ Insert(q) \/ MarkUpdateAsChecked(q) \/ ProgressRollout(q) \/ ClearUpdateRollout(q)
    BY <1>6, <1>7, <1>8, <1>9, <1>10, Zenon DEF Next
  <2> QED
    BY <1>1, <1>2, <1>3, <1>4, <2>1, Zenon
<1> QED
  BY <1>5, <1>10

\* What a row is to Safe: NoUpdateSkipped is ControlIsNewest of the active rows.
LEMMA SkippedIsControl ==
    NoUpdateSkipped <=> \A r \in DOMAIN rows : Active(rows, r) => ControlIsNewest(rows, r)
BY DEF NoUpdateSkipped, ControlIsNewest, ActiveRolloutUpdates

\* A new row is unchecked and was told the newest control.
LEMMA InsertsSafe ==
    ASSUME TypeOK, TypeOK', Safe, NEW i, Inserts(i)
    PROVE  Safe'
<1>1. \A p : CheckedOn(rows', p) = CheckedOn(rows, p)
  BY DEF Inserts, CheckedOn
<1>2. /\ \A j \in DOMAIN rows : rows'[j] = rows[j] /\ j # i
      /\ DOMAIN rows' = DOMAIN rows \cup {i} /\ rows'[i].checked = 0
  BY DEF Inserts
<1>3. PastTimestamps'
  BY <1>2 DEF Safe, PastTimestamps, Inserts, TypeOK, Row
<1>4. \A j \in DOMAIN rows' : Active(rows', j) <=> j \in DOMAIN rows /\ Active(rows, j)
  BY <1>2 DEF Active
<1>5. \A r \in DOMAIN rows : /\ ControlIsNewest(rows', r) <=> ControlIsNewest(rows, r)
                             /\ OvertakenBy(rows', r) <=> OvertakenBy(rows, r)
  BY <1>1, <1>2, SMTT(60) DEF ControlIsNewest, OvertakenBy, CheckedOn
<1>6. OneActiveRollout'
  BY <1>2, <1>4 DEF Safe, OneActiveRollout, ActiveRolloutUpdates
<1>7. NoUpdateSkipped'
  <2>1. \A r \in DOMAIN rows' : Active(rows', r) => ControlIsNewest(rows', r)
    BY <1>4, <1>5, SkippedIsControl DEF Safe
  <2> QED
    BY <2>1 DEF NoUpdateSkipped, ControlIsNewest, ActiveRolloutUpdates
<1>8. UploadingRollouts'
  <2>1. ASSUME NEW r \in DOMAIN rows, rows'[r].percentage # 0, rows'[r].checked = 0
        PROVE  OvertakenBy(rows', r) \/ ControlIsNewest(rows', r)
    BY <1>2, <1>5, <2>1 DEF Safe, UploadingRollouts
  <2>2. ASSUME rows'[i].percentage # 0
        PROVE  ControlIsNewest(rows', i)
    <3>1. IsLatestUpdate(rows, rows'[i].platform, rows'[i].control)
      BY <2>2 DEF Inserts
    <3>2. i \notin CheckedOn(rows, rows'[i].platform)
      BY <1>2 DEF CheckedOn
    <3> QED
      BY <1>1, <3>1, <3>2 DEF IsLatestUpdate, ControlIsNewest
  <2> QED
    BY <1>2, <2>1, <2>2 DEF UploadingRollouts
<1> QED
  BY <1>3, <1>6, <1>7, <1>8 DEF Safe

\* Progressing, finishing and reverting never activate a row nor move a control.
LEMMA WritesSafe ==
    ASSUME TypeOK, Safe, NEW S, NEW pct \in Nat, Writes(S, pct)
    PROVE  Safe'
<1>1. /\ DOMAIN rows' = DOMAIN rows
      /\ \A j \in DOMAIN rows :
            /\ rows'[j].platform = rows[j].platform /\ rows'[j].control = rows[j].control
            /\ rows'[j].created = rows[j].created /\ rows'[j].checked = rows[j].checked
  BY DEF Writes, SetPercentage, TypeOK, Row
<1>2. \A j \in DOMAIN rows : rows'[j].percentage # 0 => rows[j].percentage # 0
  BY DEF Writes, SetPercentage, ActiveRolloutUpdates, Active, TypeOK, Row
<1>3. \A p : CheckedOn(rows', p) = CheckedOn(rows, p)
  BY <1>1 DEF CheckedOn
<1>4. \A r \in DOMAIN rows : /\ ControlIsNewest(rows', r) <=> ControlIsNewest(rows, r)
                             /\ OvertakenBy(rows', r) <=> OvertakenBy(rows, r)
  BY <1>1, <1>3, SMTT(60) DEF ControlIsNewest, OvertakenBy, CheckedOn
<1>5. \A j \in DOMAIN rows : Active(rows', j) => Active(rows, j)
  BY <1>1, <1>2 DEF Active
<1>6. PastTimestamps'
  BY <1>1 DEF Safe, PastTimestamps, Writes
<1>7. OneActiveRollout'
  BY <1>1, <1>5 DEF Safe, OneActiveRollout, ActiveRolloutUpdates
<1>8. NoUpdateSkipped'
  <2>1. \A r \in DOMAIN rows' : Active(rows', r) => ControlIsNewest(rows', r)
    BY <1>1, <1>4, <1>5, SkippedIsControl DEF Safe
  <2> QED
    BY <2>1 DEF NoUpdateSkipped, ControlIsNewest, ActiveRolloutUpdates
<1>9. UploadingRollouts'
  BY <1>1, <1>2, <1>4 DEF Safe, UploadingRollouts
<1> QED
  BY <1>6, <1>7, <1>8, <1>9 DEF Safe

\* A stamp makes nothing else active, shows an active rollout's platform no new
\* update, and marks as overtaken every rollout still uploading.
LEMMA StampsSafe ==
    ASSUME TypeOK, Safe, NEW i, Stamps(i)
    PROVE  Safe'
<1>0. clock \in Nat /\ i \in DOMAIN rows /\ clock' = clock + 1
  BY DEF TypeOK, Stamps
<1>1. /\ DOMAIN rows' = DOMAIN rows
      /\ \A j \in DOMAIN rows :
            /\ rows'[j].platform = rows[j].platform /\ rows'[j].control = rows[j].control
            /\ rows'[j].created = rows[j].created /\ rows'[j].percentage = rows[j].percentage
            /\ j # i => rows'[j].checked = rows[j].checked
      /\ rows'[i].checked = clock + 1
  BY SMTT(60) DEF Stamps, TypeOK, Row
<1>2. \A p : CheckedOn(rows', p) \ {i} = CheckedOn(rows, p) \ {i}
  BY <1>1, SMTT(60) DEF CheckedOn
<1>3. i \in CheckedOn(rows', rows[i].platform)
      /\ \A p : p # rows[i].platform => CheckedOn(rows', p) = CheckedOn(rows, p)
  BY <1>0, <1>1, SMTT(60) DEF CheckedOn
<1>4. PastTimestamps'
  BY <1>0, <1>1, SMTT(60) DEF Safe, PastTimestamps, TypeOK, Row
<1>5. \A j \in DOMAIN rows : j # i => (Active(rows', j) <=> Active(rows, j))
  BY <1>1 DEF Active
<1>6. ASSUME NEW r \in DOMAIN rows, r # i, rows[r].platform = rows[i].platform, Active(rows, r)
      PROVE  FALSE
  <2>1. r \in CheckedOn(rows, rows[i].platform) /\ rows[r].percentage # 0
    BY <1>6, SMTT(60) DEF Active, CheckedOn
  <2> QED
    BY <1>6, <2>1 DEF Stamps, StampAllowed, UniqueViolation
<1>7. OneActiveRollout'
  BY <1>1, <1>5, <1>6 DEF Safe, OneActiveRollout, ActiveRolloutUpdates
<1>8. ASSUME NEW r \in DOMAIN rows, r # i, rows[r].platform # rows[i].platform
      PROVE  /\ ControlIsNewest(rows', r) <=> ControlIsNewest(rows, r)
             /\ OvertakenBy(rows, r) => OvertakenBy(rows', r)
  <2>1. CheckedOn(rows', rows[r].platform) = CheckedOn(rows, rows[r].platform)
    BY <1>3, <1>8
  <2>2. i \notin CheckedOn(rows, rows[r].platform)
    BY <1>8 DEF CheckedOn
  <2> QED
    BY <1>1, <2>1, <2>2, SMTT(60) DEF ControlIsNewest, OvertakenBy, CheckedOn
<1>9. ControlIsNewest(rows', i) <=> ControlIsNewest(rows, i)
  BY <1>0, <1>1, <1>2 DEF ControlIsNewest
<1>10. NoUpdateSkipped'
  <2>1. ASSUME Active(rows', i) PROVE ControlIsNewest(rows', i)
    <3>1. rows[i].percentage # 0
      BY <1>0, <1>1, <2>1 DEF Active
    <3>2. CASE rows[i].checked = 0
      <4>1. ~OvertakenBy(rows, i)
        <5>1. \A n \in CheckedOn(rows, rows[i].platform) \ {i} : rows[n].checked <= rows[i].created
          BY <3>1 DEF Stamps, StampAllowed
        <5>2. \A n \in CheckedOn(rows, rows[i].platform) :
                 rows[n].checked \in Nat /\ rows[i].created \in Nat
          BY <1>0 DEF CheckedOn, TypeOK, Row
        <5> QED
          BY <5>1, <5>2 DEF OvertakenBy
      <4> QED
        BY <1>0, <1>9, <3>1, <3>2, <4>1 DEF Safe, UploadingRollouts
    <3>3. CASE rows[i].checked # 0
      BY <1>0, <1>9, <3>1, <3>3, SkippedIsControl DEF Safe, Active
    <3> QED
      BY <3>2, <3>3
  <2>2. ASSUME NEW r \in DOMAIN rows, r # i, Active(rows', r) PROVE ControlIsNewest(rows', r)
    BY <1>5, <1>6, <1>8, <2>2, SkippedIsControl DEF Safe
  <2>3. \A r \in DOMAIN rows' : Active(rows', r) => ControlIsNewest(rows', r)
    BY <1>1, <2>1, <2>2
  <2> QED
    BY <2>3 DEF NoUpdateSkipped, ControlIsNewest, ActiveRolloutUpdates
<1>11. UploadingRollouts'
  <2>1. ASSUME NEW r \in DOMAIN rows, rows'[r].percentage # 0, rows'[r].checked = 0
        PROVE  OvertakenBy(rows', r) \/ ControlIsNewest(rows', r)
    <3>1. r # i /\ rows[r].percentage # 0 /\ rows[r].checked = 0
      BY <1>0, <1>1, <2>1
    <3>2. CASE rows[r].platform = rows[i].platform
      <4>1. i \in CheckedOn(rows', rows'[r].platform) \ {r}
        BY <1>1, <1>3, <3>1, <3>2
      <4>2. rows'[i].checked > rows'[r].created
        <5>1. rows[r].created <= clock /\ rows[r].created \in Nat
          BY DEF Safe, PastTimestamps, TypeOK, Row
        <5> QED
          BY <1>0, <1>1, <5>1
      <4> QED
        BY <4>1, <4>2 DEF OvertakenBy
    <3>3. CASE rows[r].platform # rows[i].platform
      BY <1>8, <3>1, <3>3 DEF Safe, UploadingRollouts
    <3> QED
      BY <3>2, <3>3
  <2> QED
    BY <1>1, <2>1 DEF UploadingRollouts
<1> QED
  BY <1>4, <1>7, <1>10, <1>11 DEF Safe

-----------------------------------------------------------------------------
(* The theorems.                                                            *)

\* IInv holds of the empty table with every request slot idle.
LEMMA InitInv == Init => IInv
<1> SUFFICES ASSUME Init PROVE IInv
  OBVIOUS
<1>1. DOMAIN rows = {}
  BY DEF Init
<1>2. TypeOK /\ RequestsOK
  BY <1>1, IdleOK DEF Init, TypeOK, RequestsOK
<1>3. Safe
  BY <1>1 DEF Safe, PastTimestamps, OneActiveRollout, NoUpdateSkipped, UploadingRollouts,
              ActiveRolloutUpdates
<1> QED
  BY <1>2, <1>3 DEF IInv

\* IInv is kept by every step: types by TypeStep, Safe by the kind of TableStep.
LEMMA NextInv == IInv /\ [Next]_vars => IInv'
<1> SUFFICES ASSUME IInv, [Next]_vars PROVE IInv'
  OBVIOUS
<1>1. TypeOK /\ RequestsOK /\ Safe /\ TypeOK' /\ RequestsOK'
  BY TypeStep DEF IInv
<1>2. CASE UNCHANGED <<rows, clock>>
  <2>1. Safe'
    BY <1>1, <1>2 DEF Safe, PastTimestamps, OneActiveRollout, NoUpdateSkipped,
       UploadingRollouts, ActiveRolloutUpdates
  <2> QED
    BY <1>1, <2>1 DEF IInv
<1>3. Safe'
  BY <1>1, <1>2, TableStep, InsertsSafe, StampsSafe, WritesSafe DEF IInv
<1> QED
  BY <1>1, <1>3 DEF IInv

\* Whatever requests interleave, IInv always holds.
THEOREM Invariance == Spec => []IInv
BY InitInv, NextInv, PTL DEF Spec

\* Every variable keeps its type and every column its CHECK constraint.
THEOREM TypeCorrect == Spec => []TypeOK
<1>1. IInv => TypeOK
  BY DEF IInv
<1> QED
  BY Invariance, <1>1, PTL

\* No interleaving of publishes, retries, progressions and reverts activates two
\* rollouts of one platform.
THEOREM OneRolloutAtATime == Spec => []OneActiveRollout
<1>1. IInv => OneActiveRollout
  BY DEF IInv, Safe
<1> QED
  BY Invariance, <1>1, PTL

\* An active rollout's control is the newest checked update besides it, so no
\* update checked while the rollout was uploading is served to nobody.
THEOREM ControlIsCurrent == Spec => []NoUpdateSkipped
<1>1. IInv => NoUpdateSkipped
  BY DEF IInv, Safe
<1> QED
  BY Invariance, <1>1, PTL

\* No step lowers the percentage of a rollout that stays active: of two
\* concurrent progressions the smaller one is refused, not applied.
THEOREM ProgressionIsMonotone == Spec => PercentageOnlyIncreases
<1>1. IInv /\ [Next]_vars =>
        [\A i \in ActiveRolloutUpdates(rows) :
            rows'[i].percentage # 0 => rows'[i].percentage >= rows[i].percentage]_vars
  <2> SUFFICES ASSUME IInv, [Next]_vars, NEW i \in ActiveRolloutUpdates(rows),
                      rows'[i].percentage # 0
               PROVE  rows'[i].percentage >= rows[i].percentage
    OBVIOUS
  <2>1. i \in DOMAIN rows /\ rows[i] \in Row /\ rows[i].percentage \in Nat
    BY DEF IInv, TypeOK, ActiveRolloutUpdates, Row
  <2>2. TypeOK /\ RequestsOK
    BY DEF IInv
  <2>3. CASE UNCHANGED <<rows, clock>>
    BY <2>1, <2>3, SMTT(60)
  <2>4. ASSUME NEW j, Inserts(j) PROVE rows'[i].percentage = rows[i].percentage
    BY <2>1, <2>4 DEF Inserts
  <2>5. ASSUME NEW j, Stamps(j) PROVE rows'[i].percentage = rows[i].percentage
    BY <2>1, <2>5 DEF Stamps, Row
  <2>6. ASSUME NEW S, NEW pct, pct \in Nat, Writes(S, pct)
        PROVE  rows'[i].percentage >= rows[i].percentage
    <3>1. rows'[i] = IF i \in S THEN [rows[i] EXCEPT !.percentage = pct] ELSE rows[i]
      BY <2>1, <2>6, SMTT(60) DEF Writes, SetPercentage
    <3>2. CASE i \in S
      <4>1. rows'[i].percentage = pct
        BY <2>1, <3>1, <3>2 DEF Row
      <4> QED
        BY <2>1, <2>6, <3>2, <4>1 DEF Writes
    <3>3. CASE i \notin S
      BY <2>1, <3>1, <3>3
    <3> QED
      BY <3>2, <3>3
  <2> QED
    BY <2>1, <2>2, <2>3, <2>4, <2>5, <2>6, TableStep
<1> QED
  BY Invariance, <1>1, PTL DEF Spec, PercentageOnlyIncreases

-----------------------------------------------------------------------------
(* Reverts.  RevertRestores speaks of the request that has succeeded; on the  *)
(* way there, each rollout it read is one it still has to restore, or one it  *)
(* has put an update above.                                                   *)

\* What the devices in no rollout are given: the content of r's control.
ControlContent(db, r) ==
    IF db[r].control = 0 THEN Embedded ELSE db[db[r].control].content

Restores(db, i, r) ==
    /\ i > r /\ db[i].platform = db[r].platform /\ db[i].checked # 0
    /\ db[i].content = ControlContent(db, r)

\* A rollback has no bundle, a control is a row, and an id is not of the future.
RowSound(db, ms, i) ==
    /\ db[i].type = "rollback" => db[i].content = Embedded
    /\ db[i].control # 0 => db[i].control \in DOMAIN db
    /\ i <= GenerateUpdateTimestamp(ms, db[i].platform)

RowsSound == \A i \in DOMAIN rows : RowSound(rows, now, i)

\* How far a revert has come.
RevertOK(db, x) ==
    x.op = "revert" =>
        /\ x.pc \in {"write", "prepare", "insert", "stamp", "done"}
        /\ x.todo \subseteq x.seen
        /\ \A r, s \in x.seen : db[r].platform = db[s].platform => r = s
        /\ x.pc = "insert" =>
              \A r \in x.todo : db[r].platform = x.platform =>
                  /\ r <= x.id
                  /\ ControlContent(db, r) = IF x.source = 0 THEN Embedded ELSE db[x.source].content
        /\ x.pc = "stamp" =>
              \A r \in x.todo : db[r].platform = db[x.id].platform =>
                  r < x.id /\ ControlContent(db, r) = db[x.id].content
        /\ x.pc # "write" => \A r \in x.seen \ x.todo : \E i \in x.made : Restores(db, i, r)
        /\ x.pc = "done" => x.todo = {}

IdOK(x, ms) == x.pc = "insert" => x.id <= GenerateUpdateTimestamp(ms, x.platform)

Reverts == \A q \in Requests : RevertOK(rows, req[q]) /\ IdOK(req[q], now)

\* The inductive invariant of reverts.
RInv == IInv /\ RowsSound /\ Reverts

\* No step deletes a row, unchecks it, or changes what it carries.
TableKeeps ==
    /\ DOMAIN rows \subseteq DOMAIN rows'
    /\ \A i \in DOMAIN rows :
          /\ rows'[i].platform = rows[i].platform /\ rows'[i].type = rows[i].type
          /\ rows'[i].control = rows[i].control /\ rows'[i].content = rows[i].content
          /\ rows[i].checked # 0 => rows'[i].checked # 0

\* The step of q is one of its own request, which ends in good order.
StepsTo(q, x) == req' = [req EXCEPT ![q] = x] /\ RevertOK(rows', x) /\ IdOK(x, now')

\* Ids made later are no smaller.
LEMMA TimestampMonotone ==
    \A m, n \in Nat, p \in Platforms \cup {0} :
        m <= n => GenerateUpdateTimestamp(m, p) <= GenerateUpdateTimestamp(n, p)
BY PlatformsAssumption, SMTT(60) DEF GenerateUpdateTimestamp

\* The four changes of the table (TableStep) all keep that.
LEMMA TableIsKept ==
    ASSUME TypeOK, RequestsOK, [Next]_vars
    PROVE  TableKeeps
<1>1. \A i \in DOMAIN rows : rows[i] \in Row
  BY DEF TypeOK
<1>2. CASE UNCHANGED <<rows, clock>>
  BY <1>2 DEF TableKeeps
<1>3. ASSUME NEW i, Inserts(i) PROVE TableKeeps
  BY <1>3 DEF Inserts, TableKeeps
<1>4. ASSUME NEW i, Stamps(i) PROVE TableKeeps
  <2>1. clock' # 0 /\ i \in DOMAIN rows /\ rows' = [rows EXCEPT ![i].checked = clock']
    BY <1>4 DEF Stamps, TypeOK
  <2> QED BY <1>1, <2>1 DEF TableKeeps, Row
<1>5. ASSUME NEW S, NEW pct, Writes(S, pct) PROVE TableKeeps
  BY <1>1, <1>5 DEF Writes, SetPercentage, TableKeeps, Row
<1> QED BY <1>2, <1>3, <1>4, <1>5, TableStep

\* The servers' clock moves forward, and only where an id is made.
LEMMA NowGrows ==
    ASSUME TypeOK, [Next]_vars
    PROVE  now' \in {now, now + 1}
<1>1. CASE UNCHANGED vars
  BY <1>1 DEF vars
<1>2. ASSUME NEW q \in Requests,
             \/ \E p \in Platforms, pct \in Percentages \cup {0}, c \in Contents :
                    RequestUploadURLs(q, p, pct, c)
             \/ \E p \in Platforms : CreateRollback(q, p)
             \/ \E p \in Platforms, i \in DOMAIN rows : RepublishUpdate(q, p, i)
      PROVE  UNCHANGED now
  BY <1>2, ZenonT(60) DEF RequestUploadURLs, CreateRollback, RepublishUpdate, Guarded
<1>3. ASSUME NEW q \in Requests,
             \/ \E pct \in Percentages \cup {100}, pin \in DOMAIN rows \cup {0} :
                    ReadForProgress(q, pct, pin)
             \/ \E pin \in DOMAIN rows \cup {0} : ReadForRevert(q, pin)
      PROVE  UNCHANGED now
  BY <1>3, ZenonT(60) DEF ReadForProgress, ReadForRevert
<1>4. ASSUME NEW q \in Requests, PreparePublish(q) \/ PrepareRollback(q) \/ PrepareRepublish(q)
      PROVE  now' \in {now, now + 1}
  BY <1>4, ZenonT(60) DEF PreparePublish, PrepareRollback, PrepareRepublish, GenerateId
<1>5. ASSUME NEW q \in Requests, PrepareRevert(q)
      PROVE  now' \in {now, now + 1}
  BY <1>5, ZenonT(60) DEF PrepareRevert
<1>6. ASSUME NEW q \in Requests,
             \/ VerifyUploadedUpdate(q) \/ Answer(q) \/ \E r \in Requests : Resend(q, r)
             \/ Insert(q) \/ MarkUpdateAsChecked(q) \/ ProgressRollout(q) \/ ClearUpdateRollout(q)
      PROVE  UNCHANGED now
  BY <1>6, ZenonT(60) DEF VerifyUploadedUpdate, Answer, Resend, Insert, MarkUpdateAsChecked,
     ProgressRollout, ClearUpdateRollout
<1> QED BY <1>1, <1>2, <1>3, <1>4, <1>5, <1>6, ZenonT(60) DEF Next

\* What a revert holds stays true while others write the table.
LEMMA RevertKept ==
    ASSUME TypeOK, RowsSound, TableKeeps,
           NEW x \in RequestRecord(rows), RecordOK(rows, x), RevertOK(rows, x)
    PROVE  RevertOK(rows', x)
<1> SUFFICES ASSUME x.op = "revert" PROVE RevertOK(rows', x)
  BY DEF RevertOK
<1>1. \A r \in DOMAIN rows : ControlContent(rows', r) = ControlContent(rows, r)
  BY DEF ControlContent, TableKeeps, RowsSound, RowSound
<1>2. x.seen \subseteq DOMAIN rows /\ x.todo \subseteq DOMAIN rows /\ x.made \subseteq DOMAIN rows
  BY DEF RequestRecord
<1>3. \A i, r \in DOMAIN rows : Restores(rows, i, r) => Restores(rows', i, r)
  BY <1>1 DEF Restores, TableKeeps
<1>4. \A i \in DOMAIN rows : rows'[i].platform = rows[i].platform /\ rows'[i].content = rows[i].content
  BY DEF TableKeeps
<1>5. \A r, s \in x.seen : rows'[r].platform = rows'[s].platform => r = s
  BY <1>2, <1>4 DEF RevertOK
<1>6. ASSUME x.pc = "insert", NEW r \in x.todo, rows'[r].platform = x.platform
      PROVE  r <= x.id /\ ControlContent(rows', r) = IF x.source = 0 THEN Embedded ELSE rows'[x.source].content
  <2>1. x.source # 0 => x.source \in DOMAIN rows
    BY <1>6 DEF RecordOK
  <2> QED BY <1>1, <1>2, <1>4, <1>6, <2>1 DEF RevertOK
<1>7. ASSUME x.pc = "stamp", NEW r \in x.todo, rows'[r].platform = rows'[x.id].platform
      PROVE  r < x.id /\ ControlContent(rows', r) = rows'[x.id].content
  <2>1. x.id \in DOMAIN rows
    BY <1>7 DEF RecordOK
  <2> QED BY <1>1, <1>2, <1>4, <1>7, <2>1 DEF RevertOK
<1>8. ASSUME x.pc # "write", NEW r \in x.seen \ x.todo
      PROVE  \E i \in x.made : Restores(rows', i, r)
  <2>1. PICK i \in x.made : Restores(rows, i, r)
    BY <1>8 DEF RevertOK
  <2> QED BY <1>2, <1>3, <2>1
<1> QED BY <1>5, <1>6, <1>7, <1>8 DEF RevertOK

\* A request of another kind, or an idle slot, that is not about to insert.
LEMMA PlainStep ==
    ASSUME NEW q \in Requests, NEW x, req' = [req EXCEPT ![q] = x], x.op # "revert", x.pc # "insert"
    PROVE  \E y : StepsTo(q, y)
BY DEF StepsTo, RevertOK, IdOK

\* A refused request is an idle slot again.
LEMMA RefusedStep ==
    ASSUME NEW q \in Requests, Refuse(q)
    PROVE  \E y : StepsTo(q, y)
<1>1. Idle.op # "revert" /\ Idle.pc # "insert"
  BY DEF Idle
<1> QED BY <1>1, PlainStep DEF Refuse

\* A publish, a rollback or a republish gets its id.
LEMMA GeneratedStep ==
    ASSUME RInv, NEW q \in Requests, GenerateId(q), req[q].op # "revert"
    PROVE  \E y : StepsTo(q, y)
<1>1. req[q] \in RequestRecord(rows)
  BY DEF RInv, IInv, TypeOK
<1>2. PICK i : i = GenerateUpdateTimestamp(now', req[q].platform)
  OBVIOUS
<1> DEFINE x == [req[q] EXCEPT !.pc = "insert", !.id = i]
<1>3. req' = [req EXCEPT ![q] = x]
  BY <1>2, ZenonT(60) DEF GenerateId, RInv, IInv, TypeOK
<1>4. x.op # "revert" /\ x.id = i /\ x.platform = req[q].platform
  BY <1>1 DEF RequestRecord
<1>5. i <= GenerateUpdateTimestamp(now', req[q].platform)
  <2>1. now' \in Nat /\ req[q].platform \in Platforms \cup {0}
    BY <1>1 DEF RInv, IInv, TypeOK, GenerateId, RequestRecord
  <2> QED BY <1>2, <2>1, TimestampMonotone
<1> HIDE DEF x
<1> QED BY <1>3, <1>4, <1>5 DEF StepsTo, RevertOK, IdOK

\* The revert takes the next rollout it read: the control it will republish is that
\* rollout's, under an id that is not below the rollout's.
LEMMA PrepareRevertStep ==
    ASSUME RInv, NEW q \in Requests, PrepareRevert(q)
    PROVE  \E y : StepsTo(q, y)
<1>0. TypeOK /\ RequestsOK /\ RowsSound
  BY DEF RInv, IInv
<1>1. /\ req[q] \in RequestRecord(rows) /\ RevertOK(rows, req[q]) /\ UNCHANGED rows
      /\ req[q].op = "revert" /\ req[q].pc = "prepare" /\ req[q].todo \subseteq DOMAIN rows
  BY <1>0 DEF RInv, Reverts, TypeOK, PrepareRevert, RequestRecord
<1>2. PICK r \in req[q].todo :
         LET c == rows[r].control
             p == rows[r].platform
             rollback == c = 0 \/ rows[c].type = "rollback"
         IN  IF rollback \/ Republishable(rows, c, p)
             THEN /\ now' \in {now, now + 1}
                  /\ req' = [req EXCEPT ![q].pc = "insert", ![q].platform = p,
                                        ![q].source = IF rollback THEN 0 ELSE c,
                                        ![q].id = GenerateUpdateTimestamp(now', p)]
             ELSE Refuse(q) /\ UNCHANGED now
  BY ZenonT(60) DEF PrepareRevert
<1>3. CASE Refuse(q)
  BY <1>3, RefusedStep
<1>4. PICK c, p, s, i :
          /\ c = rows[r].control /\ p = rows[r].platform
          /\ i = GenerateUpdateTimestamp(now', p)
          /\ s = IF c = 0 \/ rows[c].type = "rollback" THEN 0 ELSE c
  OBVIOUS
<1>5. CASE /\ now' \in {now, now + 1}
           /\ req' = [req EXCEPT ![q].pc = "insert", ![q].platform = p,
                                 ![q].source = s, ![q].id = i]
  <2> DEFINE x == [req[q] EXCEPT !.pc = "insert", !.platform = p, !.source = s, !.id = i]
  <2>1. req' = [req EXCEPT ![q] = x]
    BY <1>0, <1>5, ZenonT(60) DEF TypeOK
  <2>2. r \in DOMAIN rows /\ now \in Nat /\ now' \in Nat /\ now <= now' /\ p \in Platforms
    BY <1>0, <1>1, <1>4, <1>5 DEF TypeOK, Row
  <2>3. x.pc = "insert" /\ x.platform = p /\ x.source = s /\ x.id = i
    BY <1>1, ZenonT(60) DEF RequestRecord
  <2>4. x.op = "revert" /\ x.seen = req[q].seen /\ x.todo = req[q].todo /\ x.made = req[q].made
    BY <1>1, ZenonT(60) DEF RequestRecord
  <2> HIDE DEF x
  <2>5. r <= i /\ i <= GenerateUpdateTimestamp(now', p)
    <3>1. r <= GenerateUpdateTimestamp(now, p)
      BY <1>0, <1>4, <2>2 DEF RowsSound, RowSound
    <3>2. GenerateUpdateTimestamp(now, p) <= i
      BY <1>4, <2>2, TimestampMonotone
    <3>3. r \in Nat /\ GenerateUpdateTimestamp(now, p) \in Nat /\ i \in Nat
      BY <1>0, <1>4, <2>2, TimestampPositive DEF TypeOK
    <3> QED BY <1>4, <3>1, <3>2, <3>3
  <2>6. ControlContent(rows, r) = IF s = 0 THEN Embedded ELSE rows[s].content
    BY <1>0, <1>4, <2>2 DEF ControlContent, RowsSound, RowSound
  <2>7. \A t \in req[q].todo : rows[t].platform = p => t = r
    BY <1>1, <1>2, <1>4 DEF RevertOK
  <2>8. RevertOK(rows, x)
    BY <1>1, <2>3, <2>4, <2>5, <2>6, <2>7 DEF RevertOK
  <2> QED BY <1>1, <2>1, <2>3, <2>5, <2>8 DEF StepsTo, IdOK
<1> QED BY <1>2, <1>3, <1>4, <1>5, ZenonT(60)

\* The row a revert inserts carries the content of the control it took.
LEMMA InsertStep ==
    ASSUME RInv, TableKeeps, NEW q \in Requests, Insert(q)
    PROVE  (\E y : StepsTo(q, y)) /\ RowsSound'
<1>0. TypeOK /\ RequestsOK /\ RowsSound /\ UNCHANGED now
  BY DEF RInv, IInv, Insert
<1>1. /\ req[q] \in RequestRecord(rows) /\ RecordOK(rows, req[q]) /\ RevertOK(rows, req[q])
      /\ IdOK(req[q], now) /\ req[q].pc = "insert"
  BY <1>0 DEF RInv, Reverts, TypeOK, RequestsOK, Insert
<1>2. CASE req[q].id \in DOMAIN rows
  BY <1>0, <1>2, RefusedStep DEF Insert, RowsSound
<1>3. CASE req[q].id \notin DOMAIN rows
  <2> DEFINE n(c) == [platform |-> req[q].platform,
                      type |-> IF NewContent(q) = Embedded THEN "rollback" ELSE "normal",
                      percentage |-> req[q].percentage,
                      control |-> IF req[q].percentage = 0 THEN 0 ELSE c,
                      created |-> clock', checked |-> 0, content |-> NewContent(q)]
  <2>1. PICK c \in DOMAIN rows \cup {0} :
           rows' = [i \in DOMAIN rows \cup {req[q].id} |-> IF i \in DOMAIN rows THEN rows[i] ELSE n(c)]
    BY <1>3, SMTT(60) DEF Insert
  <2>2. /\ n(c).platform = req[q].platform /\ n(c).content = NewContent(q)
        /\ n(c).type = "rollback" => NewContent(q) = Embedded
        /\ n(c).control # 0 => n(c).control \in DOMAIN rows
    <3>1. n(c).type = IF NewContent(q) = Embedded THEN "rollback" ELSE "normal"
      OBVIOUS
    <3>2. n(c).control = IF req[q].percentage = 0 THEN 0 ELSE c
      OBVIOUS
    <3> HIDE DEF n
    <3>3. n(c).type = "rollback" => NewContent(q) = Embedded
      BY <3>1
    <3>4. n(c).control # 0 => n(c).control \in DOMAIN rows
      BY <3>2
    <3> QED BY <3>3, <3>4 DEF n
  <2> HIDE DEF n
  <2>3. /\ rows'[req[q].id] = n(c) /\ DOMAIN rows' = DOMAIN rows \cup {req[q].id}
        /\ \A i \in DOMAIN rows : rows'[i] = rows[i]
    BY <1>3, <2>1
  <2>4. RowsSound'
    <3>1. ASSUME NEW i \in DOMAIN rows PROVE RowSound(rows', now', i)
      BY <1>0, <2>3 DEF RowsSound, RowSound
    <3>2. RowSound(rows', now', req[q].id)
      BY <1>0, <1>1, <2>2, <2>3 DEF RowSound, IdOK
    <3> QED BY <2>3, <3>1, <3>2 DEF RowsSound
  <2>5. PICK pc : /\ pc = IF req[q].op = "publish" THEN "uploading" ELSE "stamp"
                  /\ req' = [req EXCEPT ![q] = [req[q] EXCEPT !.pc = pc, !.percentage = 0,
                                                    !.content = Embedded, !.source = 0]]
    BY <1>0, <1>3, ZenonT(180) DEF Insert, TypeOK
  <2> DEFINE x == [req[q] EXCEPT !.pc = pc, !.percentage = 0, !.content = Embedded, !.source = 0]
  <2>6. x.pc = pc /\ x.op = req[q].op /\ x.id = req[q].id
    BY <1>1, ZenonT(60) DEF RequestRecord
  <2>7. x.seen = req[q].seen /\ x.todo = req[q].todo /\ x.made = req[q].made
    BY <1>1, ZenonT(60) DEF RequestRecord
  <2>8. req' = [req EXCEPT ![q] = x]
    BY <2>5
  <2> HIDE DEF x
  <2>9. RevertOK(rows', x)
    <3> SUFFICES ASSUME req[q].op = "revert" PROVE RevertOK(rows', x)
      BY <2>6 DEF RevertOK
    <3>1. RevertOK(rows', req[q])
      BY <1>0, <1>1, RevertKept
    <3>2. NewContent(q) = IF req[q].source = 0 THEN Embedded ELSE rows[req[q].source].content
      BY DEF NewContent
    <3>3. req[q].source # 0 => req[q].source \in DOMAIN rows
      BY <1>1 DEF RecordOK
    <3>4. rows'[x.id].content = IF req[q].source = 0 THEN Embedded ELSE rows'[req[q].source].content
      BY <2>2, <2>3, <2>6, <3>2, <3>3
    <3>5. \A r \in req[q].todo : r \in DOMAIN rows /\ r # req[q].id /\ r \in Nat
      BY <1>0, <1>1, <1>3 DEF RequestRecord, TypeOK
    <3>6. req[q].id \in Nat /\ rows'[x.id].platform = req[q].platform
      BY <1>1, <2>2, <2>3, <2>6 DEF RequestRecord
    <3>7. ASSUME NEW r \in x.todo, rows'[r].platform = rows'[x.id].platform
          PROVE  r < x.id /\ ControlContent(rows', r) = rows'[x.id].content
      <4>1. /\ r <= req[q].id
            /\ ControlContent(rows', r) = IF req[q].source = 0 THEN Embedded ELSE rows'[req[q].source].content
        BY <1>1, <2>7, <3>1, <3>6, <3>7 DEF RevertOK
      <4> QED BY <2>6, <2>7, <3>4, <3>5, <3>6, <4>1
    <3>8. pc = "stamp"
      BY <2>5
    <3> QED BY <1>1, <2>6, <2>7, <3>1, <3>7, <3>8 DEF RevertOK
  <2>10. IdOK(x, now')
    BY <2>5, <2>6 DEF IdOK
  <2> QED BY <2>4, <2>8, <2>9, <2>10 DEF StepsTo
<1> QED BY <1>2, <1>3

\* A revert's stamp makes visible, above the rollout, the content of its control.
LEMMA MarkStep ==
    ASSUME RInv, TableKeeps, NEW q \in Requests, MarkUpdateAsChecked(q)
    PROVE  \E y : StepsTo(q, y)
<1>0. TypeOK /\ RequestsOK /\ RowsSound
  BY DEF RInv, IInv
<1>1. /\ req[q] \in RequestRecord(rows) /\ RecordOK(rows, req[q]) /\ RevertOK(rows, req[q])
      /\ req[q].pc = "stamp"
  BY <1>0 DEF RInv, Reverts, TypeOK, RequestsOK, MarkUpdateAsChecked
<1>2. PICK i \in DOMAIN rows : i = req[q].id
  BY <1>1 DEF RecordOK
<1>3. PICK left : left = LeftToRevert(q)
  OBVIOUS
<1>4. CASE Refuse(q)
  BY <1>4, RefusedStep
<1>5. CASE /\ clock' = clock + 1
           /\ rows' = [rows EXCEPT ![i].checked = clock']
           /\ req' = [req EXCEPT ![q] = IF req[q].op # "revert" THEN Idle
                  ELSE [req[q] EXCEPT !.pc = IF left = {} THEN "done" ELSE "prepare",
                                      !.todo = left, !.made = req[q].made \cup {i}]]
  <2>1. CASE req[q].op # "revert"
    BY <1>5, <2>1, RefusedStep DEF Refuse
  <2>2. CASE req[q].op = "revert"
    <3>1. PICK pc, made : /\ pc = IF left = {} THEN "done" ELSE "prepare"
                          /\ made = req[q].made \cup {i}
      OBVIOUS
    <3> DEFINE x == [req[q] EXCEPT !.pc = pc, !.todo = left, !.made = made]
    <3>2. req' = [req EXCEPT ![q] = x]
      BY <1>5, <2>2, <3>1
    <3>3. x.pc = pc /\ x.op = "revert" /\ x.seen = req[q].seen /\ x.todo = left /\ x.made = made
      BY <1>1, <2>2, ZenonT(60) DEF RequestRecord
    <3> HIDE DEF x
    <3>4. RevertOK(rows', req[q])
      BY <1>0, <1>1, RevertKept
    <3>5. rows'[i].checked # 0 /\ DOMAIN rows' = DOMAIN rows
      <4>1. clock' # 0
        BY <1>0, <1>5 DEF TypeOK
      <4>2. rows[i] \in Row
        BY <1>0 DEF TypeOK
      <4> QED BY <1>5, <4>1, <4>2 DEF Row
    <3>6. left = {r \in req[q].todo : rows[r].platform # rows[i].platform}
      BY <1>2, <1>3 DEF LeftToRevert
    <3>7. \A r \in DOMAIN rows : rows'[r].platform = rows[r].platform
      BY DEF TableKeeps
    <3>8. req[q].todo \subseteq DOMAIN rows /\ req[q].todo \subseteq req[q].seen
      BY <1>1, <2>2 DEF RequestRecord, RevertOK
    <3>9. ASSUME NEW r \in x.seen \ x.todo PROVE \E m \in made : Restores(rows', m, r)
      <4>1. CASE r \in req[q].todo
        <5>1. rows'[r].platform = rows'[i].platform
          BY <3>3, <3>6, <3>7, <3>8, <3>9, <4>1
        <5>2. r < i /\ ControlContent(rows', r) = rows'[i].content
          BY <1>1, <1>2, <2>2, <3>4, <4>1, <5>1 DEF RevertOK
        <5>3. r \in Nat /\ i \in Nat
          BY <1>0, <3>8, <4>1 DEF TypeOK
        <5>4. Restores(rows', i, r)
          BY <3>5, <5>1, <5>2, <5>3 DEF Restores
        <5> QED BY <3>1, <5>4
      <4>2. CASE r \notin req[q].todo
        <5>1. PICK m \in req[q].made : Restores(rows', m, r)
          BY <1>1, <2>2, <3>3, <3>4, <3>9, <4>2 DEF RevertOK
        <5> QED BY <3>1, <5>1
      <4> QED BY <4>1, <4>2
    <3>10. x.pc \in {"prepare", "done"} /\ (x.pc = "done" => x.todo = {})
      BY <3>1, <3>3
    <3>11. x.todo \subseteq x.seen
      BY <3>3, <3>6, <3>8
    <3>12. \A r, s \in x.seen : rows'[r].platform = rows'[s].platform => r = s
      BY <2>2, <3>3, <3>4 DEF RevertOK
    <3>13. RevertOK(rows', x)
      BY <3>3, <3>9, <3>10, <3>11, <3>12 DEF RevertOK
    <3>14. IdOK(x, now')
      BY <3>10 DEF IdOK
    <3> QED BY <3>2, <3>13, <3>14 DEF StepsTo
  <2> QED BY <2>1, <2>2
<1> QED BY <1>2, <1>3, <1>4, <1>5 DEF MarkUpdateAsChecked

\* A step is a step of one request, and leaves its revert, if it is one, in good order.
LEMMA OwnStep ==
    ASSUME RInv, TableKeeps, Next
    PROVE  \E q \in Requests : \E y : StepsTo(q, y)
<1>0. TypeOK /\ RequestsOK /\ RowsSound /\ Idle.op = "none" /\ Idle.pc = "idle" /\ Idle.todo = {}
  BY DEF RInv, IInv, Idle
<1>1. ASSUME NEW q \in Requests, NEW p, NEW pct, NEW c, RequestUploadURLs(q, p, pct, c)
      PROVE  \E y : StepsTo(q, y)
  <2> DEFINE x == [Idle EXCEPT !.op = "publish", !.pc = "prepare", !.platform = p,
                               !.percentage = pct, !.content = c]
  <2>1. x.op = "publish" /\ x.pc = "prepare"
    BY ZenonT(60) DEF Idle
  <2>2. Refuse(q) \/ req' = [req EXCEPT ![q] = x]
    BY <1>1 DEF RequestUploadURLs, Guarded
  <2> HIDE DEF x
  <2> QED BY <2>1, <2>2, RefusedStep, PlainStep
<1>2. ASSUME NEW q \in Requests, NEW p, CreateRollback(q, p)
      PROVE  \E y : StepsTo(q, y)
  <2> DEFINE x == [Idle EXCEPT !.op = "rollback", !.pc = "prepare", !.platform = p]
  <2>1. x.op = "rollback" /\ x.pc = "prepare"
    BY ZenonT(60) DEF Idle
  <2>2. Refuse(q) \/ req' = [req EXCEPT ![q] = x]
    BY <1>2 DEF CreateRollback, Guarded
  <2> HIDE DEF x
  <2> QED BY <2>1, <2>2, RefusedStep, PlainStep
<1>3. ASSUME NEW q \in Requests, NEW p, NEW i, RepublishUpdate(q, p, i)
      PROVE  \E y : StepsTo(q, y)
  <2> DEFINE x == [Idle EXCEPT !.op = "republish", !.pc = "prepare", !.platform = p, !.source = i]
  <2>1. x.op = "republish" /\ x.pc = "prepare"
    BY ZenonT(60) DEF Idle
  <2>2. Refuse(q) \/ req' = [req EXCEPT ![q] = x]
    BY <1>3 DEF RepublishUpdate, Guarded
  <2> HIDE DEF x
  <2> QED BY <2>1, <2>2, RefusedStep, PlainStep
<1>4. ASSUME NEW q \in Requests, NEW pct, NEW pin, ReadForProgress(q, pct, pin)
      PROVE  \E y : StepsTo(q, y)
  <2>1. PICK S : S = ActiveRolloutUpdates(rows)
    OBVIOUS
  <2> DEFINE x == [Idle EXCEPT !.op = "progress", !.pc = "write", !.percentage = pct, !.seen = S]
  <2>2. x.op = "progress" /\ x.pc = "write"
    BY ZenonT(60) DEF Idle
  <2>3. Refuse(q) \/ req' = [req EXCEPT ![q] = x]
    BY <1>4, <2>1 DEF ReadForProgress
  <2> HIDE DEF x
  <2> QED BY <2>2, <2>3, RefusedStep, PlainStep
<1>5. ASSUME NEW q \in Requests, NEW pin, ReadForRevert(q, pin)
      PROVE  \E y : StepsTo(q, y)
  <2>1. PICK S : S = ActiveRolloutUpdates(rows)
    OBVIOUS
  <2> DEFINE x == [Idle EXCEPT !.op = "revert", !.pc = "write", !.seen = S]
  <2>2. x.op = "revert" /\ x.pc = "write" /\ x.seen = S /\ x.todo = {}
    BY ZenonT(60) DEF Idle
  <2>3. UNCHANGED rows /\ (Refuse(q) \/ req' = [req EXCEPT ![q] = x])
    BY <1>5, <2>1 DEF ReadForRevert
  <2> HIDE DEF x
  <2>4. \A r, s \in S : rows[r].platform = rows[s].platform => r = s
    BY <2>1 DEF RInv, IInv, Safe, OneActiveRollout
  <2>5. RevertOK(rows', x) /\ IdOK(x, now')
    BY <2>2, <2>3, <2>4 DEF RevertOK, IdOK
  <2> QED BY <2>3, <2>5, RefusedStep DEF StepsTo
<1>6. ASSUME NEW q \in Requests, PreparePublish(q) \/ PrepareRollback(q) \/ PrepareRepublish(q)
      PROVE  \E y : StepsTo(q, y)
  <2>1. req[q].op # "revert" /\ (GenerateId(q) \/ Refuse(q))
    BY <1>6 DEF PreparePublish, PrepareRollback, PrepareRepublish
  <2> QED BY <2>1, GeneratedStep, RefusedStep
<1>7. ASSUME NEW q \in Requests, VerifyUploadedUpdate(q)
      PROVE  \E y : StepsTo(q, y)
  <2>1. req[q] \in RequestRecord(rows) /\ req[q].pc = "uploading" /\ RevertOK(rows, req[q])
    BY <1>0, <1>7 DEF RInv, Reverts, TypeOK, VerifyUploadedUpdate
  <2> DEFINE x == [req[q] EXCEPT !.pc = "stamp"]
  <2>2. x.pc = "stamp" /\ x.op = req[q].op /\ req[q].op # "revert"
    BY <2>1, SMTT(60) DEF RequestRecord, RevertOK
  <2>3. Refuse(q) \/ req' = [req EXCEPT ![q] = x]
    BY <1>7 DEF VerifyUploadedUpdate
  <2> HIDE DEF x
  <2> QED BY <2>2, <2>3, RefusedStep, PlainStep
<1>8. ASSUME NEW q \in Requests, NEW r \in Requests, Resend(q, r)
      PROVE  \E y : StepsTo(q, y)
  <2>1. req[r] \in RequestRecord(rows) /\ req[r].op = "publish"
    BY <1>0, <1>8 DEF TypeOK, Resend
  <2> DEFINE x == [req[r] EXCEPT !.pc = "uploading"]
  <2>2. x.pc = "uploading" /\ x.op = "publish"
    BY <2>1 DEF RequestRecord
  <2>3. req' = [req EXCEPT ![q] = x]
    BY <1>8 DEF Resend
  <2> HIDE DEF x
  <2> QED BY <2>2, <2>3, PlainStep
<1>9. ASSUME NEW q \in Requests, Answer(q) \/ ProgressRollout(q)
      PROVE  \E y : StepsTo(q, y)
  BY <1>9, RefusedStep DEF Answer, ProgressRollout, Refuse
<1>10. ASSUME NEW q \in Requests, ClearUpdateRollout(q)
       PROVE  \E y : StepsTo(q, y)
  <2>1. /\ req[q] \in RequestRecord(rows) /\ RecordOK(rows, req[q]) /\ RevertOK(rows, req[q])
    BY <1>0 DEF RInv, Reverts, TypeOK, RequestsOK
  <2>2. PICK S : S = ActiveRolloutUpdates(rows)
    OBVIOUS
  <2> DEFINE x == [req[q] EXCEPT !.pc = "prepare", !.todo = req[q].seen, !.cleared = S]
  <2>3. x.pc = "prepare" /\ x.op = req[q].op /\ x.seen = req[q].seen /\ x.todo = req[q].seen
    BY <2>1, ZenonT(60) DEF RequestRecord
  <2>4. Refuse(q) \/ (req[q].op = "revert" /\ req' = [req EXCEPT ![q] = x])
    BY <1>10, <2>2 DEF ClearUpdateRollout, Refuse
  <2> HIDE DEF x
  <2>5. ASSUME req[q].op = "revert" PROVE RevertOK(rows', x) /\ IdOK(x, now')
    <3>1. RevertOK(rows', req[q])
      BY <1>0, <2>1, RevertKept
    <3> QED BY <2>3, <2>5, <3>1 DEF RevertOK, IdOK
  <2> QED BY <2>4, <2>5, RefusedStep DEF StepsTo
<1> QED
  BY ZenonT(60), <1>1, <1>2, <1>3, <1>4, <1>5, <1>6, <1>7, <1>8, <1>9, <1>10,
     PrepareRevertStep, InsertStep, MarkStep DEF Next

\* Rows stay sound: only Insert adds one, and the clock moves forward.
LEMMA RowsStaySound ==
    ASSUME RInv, TableKeeps, [Next]_vars, now' \in {now, now + 1}
    PROVE  RowsSound'
<1>0. TypeOK /\ RequestsOK /\ RowsSound
  BY DEF RInv, IInv
<1>1. CASE \E q \in Requests : Insert(q)
  BY <1>1, InsertStep
<1>2. CASE DOMAIN rows' = DOMAIN rows
  <2> SUFFICES ASSUME NEW i \in DOMAIN rows PROVE RowSound(rows', now', i)
    BY <1>2 DEF RowsSound
  <2>1. RowSound(rows, now, i) /\ i \in Nat /\ rows[i].platform \in Platforms
    BY <1>0 DEF RowsSound, TypeOK, Row
  <2>2. GenerateUpdateTimestamp(now, rows[i].platform) <= GenerateUpdateTimestamp(now', rows[i].platform)
    BY <1>0, <2>1, TimestampMonotone DEF TypeOK
  <2>3. /\ GenerateUpdateTimestamp(now, rows[i].platform) \in Nat
        /\ GenerateUpdateTimestamp(now', rows[i].platform) \in Nat
    BY <1>0, <2>1, TimestampPositive DEF TypeOK
  <2>4. i <= GenerateUpdateTimestamp(now', rows[i].platform)
    BY <2>1, <2>2, <2>3 DEF RowSound
  <2> QED BY <1>2, <2>1, <2>4 DEF TableKeeps, RowSound
<1>3. (\E q \in Requests : Insert(q)) \/ DOMAIN rows' = DOMAIN rows
  <2>1. ASSUME NEW i, Stamps(i) PROVE DOMAIN rows' = DOMAIN rows
    BY <2>1 DEF Stamps
  <2>2. ASSUME NEW S, NEW pct, Writes(S, pct) PROVE DOMAIN rows' = DOMAIN rows
    BY <2>2 DEF Writes, SetPercentage
  <2> QED BY <1>0, <2>1, <2>2, TableStep
<1> QED BY <1>1, <1>2, <1>3

\* No request has started.
LEMMA InitReverts == Init => RInv
<1> SUFFICES ASSUME Init PROVE RInv
  OBVIOUS
<1>1. DOMAIN rows = {} /\ \A q \in Requests : req[q] = Idle
  BY DEF Init
<1>2. RowsSound
  BY <1>1 DEF RowsSound
<1>3. Idle.op # "revert" /\ Idle.pc # "insert"
  BY DEF Idle
<1> QED BY <1>1, <1>2, <1>3, InitInv DEF RInv, Reverts, RevertOK, IdOK

\* The request that steps is in good order by OwnStep, the others by RevertKept.
LEMMA NextReverts == RInv /\ [Next]_vars => RInv'
<1> SUFFICES ASSUME RInv, [Next]_vars PROVE RInv'
  OBVIOUS
<1>0. IInv /\ TypeOK /\ RequestsOK /\ RowsSound /\ Reverts
  BY DEF RInv, IInv
<1>1. IInv' /\ TypeOK'
  BY <1>0, NextInv DEF IInv
<1>2. TableKeeps /\ now' \in {now, now + 1}
  BY <1>0, TableIsKept, NowGrows
<1>3. RowsSound'
  BY <1>2, RowsStaySound
<1>4. ASSUME NEW r \in Requests, req'[r] = req[r]
      PROVE  RevertOK(rows', req'[r]) /\ IdOK(req'[r], now')
  <2>1. req[r] \in RequestRecord(rows) /\ RecordOK(rows, req[r]) /\ RevertOK(rows, req[r])
    BY <1>0 DEF TypeOK, RequestsOK, Reverts
  <2>2. RevertOK(rows', req[r])
    BY <1>0, <1>2, <2>1, RevertKept
  <2>3. IdOK(req[r], now')
    <3> SUFFICES ASSUME req[r].pc = "insert"
                 PROVE  req[r].id <= GenerateUpdateTimestamp(now', req[r].platform)
      BY DEF IdOK
    <3>1. req[r].platform \in Platforms /\ req[r].id \in Nat /\ now \in Nat /\ now' \in Nat
      BY <1>0, <1>2, <2>1 DEF RecordOK, RequestRecord, TypeOK
    <3>2. req[r].id <= GenerateUpdateTimestamp(now, req[r].platform)
      BY <1>0 DEF Reverts, IdOK
    <3>3. GenerateUpdateTimestamp(now, req[r].platform) <= GenerateUpdateTimestamp(now', req[r].platform)
      BY <1>2, <3>1, TimestampMonotone
    <3>4. /\ GenerateUpdateTimestamp(now, req[r].platform) \in Nat
          /\ GenerateUpdateTimestamp(now', req[r].platform) \in Nat
      BY <3>1, TimestampPositive
    <3> QED BY <3>1, <3>2, <3>3, <3>4
  <2> QED BY <1>4, <2>2, <2>3
<1>5. CASE UNCHANGED vars
  <2>1. \A r \in Requests : req'[r] = req[r]
    BY <1>5 DEF vars
  <2>2. Reverts'
    BY <1>4, <2>1 DEF Reverts
  <2> QED BY <1>1, <1>3, <2>2 DEF RInv
<1>6. CASE Next
  <2>1. PICK q \in Requests : \E y : StepsTo(q, y)
    BY <1>2, <1>6, OwnStep
  <2>2. PICK y : StepsTo(q, y)
    BY <2>1
  <2>3. req'[q] = y /\ \A r \in Requests \ {q} : req'[r] = req[r]
    BY <1>0, <2>2 DEF StepsTo, TypeOK
  <2>4. Reverts'
    BY <1>4, <2>2, <2>3 DEF Reverts, StepsTo
  <2> QED BY <1>1, <1>3, <2>4 DEF RInv
<1> QED BY <1>5, <1>6

\* A revert that reports success has put above every rollout it read, on every platform,
\* a visible update with the content of that rollout's control (RevertUpdateRollout,
\* revertSingleRolloutUpdate), whatever else was published, finished or reverted
\* meanwhile.
THEOREM RevertsRestore == Spec => []RevertRestores
<1>1. RInv => RevertRestores
  <2> SUFFICES ASSUME RInv, NEW q \in Requests, req[q].op = "revert", req[q].pc = "done",
                      NEW r \in req[q].seen
               PROVE  \E i \in req[q].made :
                         /\ i > r /\ rows[i].platform = rows[r].platform /\ rows[i].checked # 0
                         /\ rows[i].content = IF rows[r].control = 0 THEN Embedded
                                              ELSE rows[rows[r].control].content
    BY DEF RevertRestores
  <2>1. req[q].todo = {} /\ \A s \in req[q].seen \ req[q].todo :
                               \E i \in req[q].made : Restores(rows, i, s)
    BY DEF RInv, Reverts, RevertOK
  <2>2. PICK i \in req[q].made : Restores(rows, i, r)
    BY <2>1
  <2> QED BY <2>2 DEF Restores, ControlContent
<1> QED BY InitReverts, NextReverts, <1>1, PTL DEF Spec
=============================================================================
