---------------------------- MODULE Files_proofs ----------------------------
(***************************************************************************)
(* Proofs about Files, for any number of handlers, keys and names:         *)
(*   - type correctness, and that the antivirus verdict of a row is sound, *)
(*     for any mix of operations;                                          *)
(*   - every row has its bytes, while no write is undone and no version is *)
(*     restored or deleted by hand, but for those of a photo upload that   *)
(*     failed after its INSERT;                                            *)
(*   - histories stay complete, no file is blocked and nothing stored is   *)
(*     overwritten, while besides nothing is purged;                       *)
(*   - between requests the store holds what the rows name and nothing     *)
(*     else, undos, restores and purges included, while one request        *)
(*     follows the other and each drops what it replaces.                  *)
(* An undo or a restore that races another writer breaks all but the first *)
(* (the runs FilesUndoRace and FilesRestoreRace), hence the conditions.    *)
(***************************************************************************)
EXTENDS Files, TLAPS

---------------------------------------------------------------------------
(* Type correctness *)

WriterPoint == {"put", "read", "update", "insert", "drop early", "check",
                "drop late", "undo version", "undo row", "undo blob"}

(* A request at a point of the write paths has a key and a name to write,  *)
(* and a MOVE has them as well.                                            *)
Targeted == WritePath \cup {"move"}

WriterKnown ==
  \A h \in Handler :
    /\ req[h].op \in Targeted => req[h].key \in Key /\ req[h].name \in Name
    /\ req[h].pc \in WriterPoint => req[h].op \in WritePath

TypeInv == TypeOK /\ WriterKnown

(* Fresh bytes never start out clean. *)
LEMMA FreshIsUnscanned == FreshScan \in ScanStatus /\ FreshScan # "clean"
BY DEF FreshScan, ScanStatus

(* Moving on to another point keeps the requests well formed. *)
LEMMA GotoType ==
  ASSUME TypeInv, NEW h \in Handler, NEW pc \in ProgramPoint, Goto(h, pc),
         pc \in WriterPoint => req[h].op \in WritePath
  PROVE  req' \in [Handler -> Request] /\ WriterKnown'
<1>1. req \in [Handler -> Request] /\ req' = [req EXCEPT ![h].pc = pc]
  BY DEF TypeInv, TypeOK, Goto
<1>2. [req[h] EXCEPT !.pc = pc] \in Request
  BY <1>1 DEF Request
<1>3. req' = [req EXCEPT ![h] = [req[h] EXCEPT !.pc = pc]]
  BY <1>1
<1>4. req' \in [Handler -> Request]
  BY <1>1, <1>2, <1>3
<1>5. WriterKnown'
  BY <1>1, <1>2, <1>3 DEF TypeInv, WriterKnown, Request
<1> QED BY <1>4, <1>5

LEMMA NoRequestType ==
  /\ NoRequest \in Request
  /\ NoRequest.op \notin Targeted /\ NoRequest.pc \notin WriterPoint
<1>1. NoRequest \in Request
  BY DEF NoRequest, Request, ProgramPoint, ScanStatus
<1>2. NoRequest.op \notin Targeted /\ NoRequest.pc \notin WriterPoint
  BY NullAssumption DEF NoRequest, Operation, WriterPoint, Targeted
<1> QED BY <1>1, <1>2

(* So does ending the request. *)
LEMMA FinishType ==
  ASSUME TypeInv, NEW h \in Handler, Finish(h)
  PROVE  req' \in [Handler -> Request] /\ WriterKnown'
BY NoRequestType DEF TypeInv, TypeOK, WriterKnown, Finish

(* Replacing a request by a well-formed one keeps them well formed. *)
LEMMA RequestType ==
  ASSUME TypeInv, NEW h \in Handler, NEW r \in Request,
         req' = [req EXCEPT ![h] = r],
         r.op \in Targeted => r.key \in Key /\ r.name \in Name,
         r.pc \in WriterPoint => r.op \in WritePath
  PROVE  req' \in [Handler -> Request] /\ WriterKnown'
BY DEF TypeInv, TypeOK, WriterKnown

(* db.one returns at most one of the rows it is given. *)
LEMMA OneSubset ==
  ASSUME NEW S, NEW T \in One(S)
  PROVE  T \subseteq S
BY DEF One

LEMMA ArchivedType ==
  ASSUME NEW f \in FileRow
  PROVE  Archived(f) \in VersionRow
BY DEF Archived, FileRow, VersionRow

LEMMA ArchiveCurrentType ==
  ASSUME TypeInv, NEW h \in Handler, NEW next \in ProgramPoint,
         ArchiveCurrent(h, next),
         next \in WriterPoint => req[h].op \in WritePath
  PROVE  TypeInv'
<1> USE DEF TypeInv
<1>1. PICK f \in req[h].rows :
         \/ versions' = versions \cup {Archived(f)} /\ Goto(h, next)
         \/ versions' = versions /\ Finish(h)
  BY DEF ArchiveCurrent
<1>2. f \in FileRow
  BY DEF TypeOK, Request
<1>3. versions' \subseteq VersionRow
  BY <1>1, <1>2, ArchivedType DEF TypeOK
<1>4. req' \in [Handler -> Request] /\ WriterKnown'
  BY <1>1, GotoType, FinishType
<1> QED BY <1>3, <1>4 DEF ArchiveCurrent, TypeOK

LEMMA BeginWriteType ==
  ASSUME TypeInv, NEW h \in Handler, NEW p \in WritePath, NEW n \in Name,
         NEW k \in Key, BeginWrite(h, p, n, k)
  PROVE  TypeInv'
<1>1. PICK found \in One(IF p \in ReadsFirst THEN Live(n) ELSE {}) :
         req' = [req EXCEPT ![h] = [NoRequest EXCEPT
                   !.pc = "put", !.op = p, !.name = n, !.key = k, !.rows = found]]
  BY DEF BeginWrite
<1>2. found \subseteq FileRow
  BY OneSubset DEF TypeInv, TypeOK, Live
<1> DEFINE r == [NoRequest EXCEPT !.pc = "put", !.op = p, !.name = n, !.key = k, !.rows = found]
<1>3. r \in Request
  BY <1>2, NoRequestType DEF Request, ProgramPoint, Operation
<1>4. r.op = p /\ r.key = k /\ r.name = n
  BY NoRequestType DEF Request
<1>5. req' \in [Handler -> Request] /\ WriterKnown'
  <2> HIDE DEF r
  <2> QED BY <1>1, <1>3, <1>4, RequestType DEF r
<1> QED BY <1>5 DEF BeginWrite, TypeInv, TypeOK

LEMMA PutBytesType ==
  ASSUME TypeInv, NEW h \in Handler, PutBytes(h)
  PROVE  TypeInv'
<1>1. PICK t \in ThumbFor(req[h].op, req[h].key) :
         /\ thumbs' = thumbs \cup ({t} \ {Null})
         /\ req' = [req EXCEPT ![h].thumb = t, ![h].pc = AfterPut(req[h])]
  BY DEF PutBytes
<1>2. req[h] \in Request /\ req[h].op \in WritePath /\ req[h].key \in Key
  BY DEF PutBytes, At, TypeInv, TypeOK, WriterKnown, WriterPoint, Targeted
<1>3. t \in Key \cup {Null}
  BY <1>2 DEF ThumbFor
<1>4. AfterPut(req[h]) \in ProgramPoint
  BY DEF AfterPut, ProgramPoint
<1> DEFINE r == [req[h] EXCEPT !.thumb = t, !.pc = AfterPut(req[h])]
<1>5. r \in Request /\ r.op = req[h].op /\ r.key = req[h].key /\ r.name = req[h].name
  BY <1>2, <1>3, <1>4 DEF Request
<1>6. req' = [req EXCEPT ![h] = r]
  BY <1>1 DEF TypeInv, TypeOK
<1>7. req' \in [Handler -> Request] /\ WriterKnown'
  <2> HIDE DEF r
  <2> QED BY <1>2, <1>5, <1>6, RequestType DEF TypeInv, WriterKnown
<1> QED BY <1>1, <1>2, <1>3, <1>7 DEF PutBytes, TypeInv, TypeOK

LEMMA ReadExistingType ==
  ASSUME TypeInv, NEW h \in Handler, ReadExisting(h)
  PROVE  TypeInv'
<1>1. PICK found \in One(Existing(req[h])) :
         \/ Finish(h)
         \/ req' = [req EXCEPT ![h].rows = found,
                     ![h].pc = IF found = {} THEN "insert" ELSE "archive"]
  BY DEF ReadExisting
<1>2. req[h] \in Request /\ req[h].op \in WritePath
  BY DEF ReadExisting, At, TypeInv, TypeOK, WriterKnown, WriterPoint, Targeted
<1>3. found \subseteq FileRow
  <2>1. Existing(req[h]) \subseteq files
    BY DEF Existing, Live, ById
  <2> QED BY <2>1, OneSubset DEF TypeInv, TypeOK
<1>4. CASE Finish(h)
  BY <1>4, FinishType DEF ReadExisting, TypeInv, TypeOK
<1>5. CASE req' = [req EXCEPT ![h].rows = found,
                   ![h].pc = IF found = {} THEN "insert" ELSE "archive"]
  <2> DEFINE r == [req[h] EXCEPT !.rows = found,
                                 !.pc = IF found = {} THEN "insert" ELSE "archive"]
  <2>1. r \in Request /\ r.op = req[h].op /\ r.key = req[h].key /\ r.name = req[h].name
    BY <1>2, <1>3 DEF Request, ProgramPoint
  <2>2. req' = [req EXCEPT ![h] = r]
    BY <1>5 DEF TypeInv, TypeOK
  <2>3. req' \in [Handler -> Request] /\ WriterKnown'
    <3> HIDE DEF r
    <3> QED BY <1>2, <2>1, <2>2, RequestType DEF TypeInv, WriterKnown
  <2> QED BY <2>3 DEF ReadExisting, TypeInv, TypeOK
<1> QED BY <1>1, <1>4, <1>5

LEMMA OverwrittenType ==
  ASSUME NEW g \in FileRow, NEW f \in FileRow, NEW r \in Request, r.key \in Key
  PROVE  Overwritten(g, f, r) \in FileRow
<1>1. f.version + 1 \in Nat \ {0} /\ f.name \in Name
  BY DEF FileRow
<1>2. r.thumb \in Key \cup {Null}
  BY DEF Request
<1>3. FreshScan \in ScanStatus
  BY FreshIsUnscanned
<1> HIDE DEF FreshScan
<1> QED BY <1>1, <1>2, <1>3 DEF Overwritten, FileRow

LEMMA PutBackType ==
  ASSUME NEW g \in FileRow, NEW f \in FileRow, NEW r
  PROVE  PutBack(g, f, r) \in FileRow
BY DEF PutBack, FileRow

LEMMA UpdateRowType ==
  ASSUME TypeInv, NEW h \in Handler, UpdateRow(h)
  PROVE  TypeInv'
<1>1. PICK f \in req[h].rows :
         /\ files' = {IF g.id = f.id THEN Overwritten(g, f, req[h]) ELSE g : g \in files}
         /\ Goto(h, IF req[h].op \in DropsEarly /\ f.thumb # Null
                    THEN "drop early" ELSE "check")
  BY DEF UpdateRow
<1>2. req[h] \in Request /\ req[h].op \in WritePath /\ req[h].key \in Key
  BY DEF UpdateRow, At, TypeInv, TypeOK, WriterKnown, WriterPoint, Targeted
<1>3. files' \subseteq FileRow
  <2>1. f \in FileRow /\ files \subseteq FileRow
    BY <1>2 DEF TypeInv, TypeOK, Request
  <2>2. \A g \in files : Overwritten(g, f, req[h]) \in FileRow
    BY <1>2, <2>1, OverwrittenType
  <2> QED BY <1>1, <2>1, <2>2
<1>4. req' \in [Handler -> Request] /\ WriterKnown'
  BY <1>1, <1>2, GotoType DEF ProgramPoint
<1> QED BY <1>3, <1>4 DEF UpdateRow, TypeInv, TypeOK

LEMMA InsertRowType ==
  ASSUME TypeInv, NEW h \in Handler, InsertRow(h)
  PROVE  TypeInv'
<1>1. /\ req[h] \in Request /\ req[h].op \in WritePath
      /\ req[h].key \in Key /\ req[h].name \in Name
  BY DEF InsertRow, At, TypeInv, TypeOK, WriterKnown, WriterPoint, Targeted
<1> DEFINE row == [id |-> req[h].key, name |-> req[h].name, key |-> req[h].key,
                   thumb |-> req[h].thumb, version |-> 1, scan |-> FreshScan,
                   trashed |-> FALSE, asset |-> AssetOf(req[h])]
<1>2. files' \subseteq FileRow
  <2>1. req[h].thumb \in Key \cup {Null} /\ AssetOf(req[h]) \in Name \cup {Null}
    BY <1>1 DEF Request, AssetOf
  <2>2. row \in FileRow
    BY <1>1, <2>1, FreshIsUnscanned DEF FileRow
  <2>3. files' = files \/ files' = files \cup {row}
    BY DEF InsertRow
  <2> QED BY <2>2, <2>3 DEF TypeInv, TypeOK
<1>3. req' \in [Handler -> Request] /\ WriterKnown'
  BY <1>1, GotoType DEF InsertRow, ProgramPoint
<1> QED BY <1>2, <1>3 DEF InsertRow, TypeInv, TypeOK

(* Deleting rows leaves rows behind. *)
LEMMA DeleteFilesType ==
  ASSUME TypeInv, NEW ids, DeleteFiles(ids)
  PROVE  files' \subseteq FileRow /\ versions' \subseteq VersionRow
BY DEF DeleteFiles, TypeInv, TypeOK

LEMMA UndoType ==
  ASSUME TypeInv, NEW h \in Handler, UndoVersion(h) \/ UndoInsert(h) \/ UndoUpdate(h) \/ UndoBlob(h)
  PROVE  TypeInv'
<1>1. req[h] \in Request /\ req[h].op \in WritePath
  BY DEF UndoVersion, UndoInsert, UndoUpdate, UndoBlob, At, TypeInv, TypeOK,
         WriterKnown, WriterPoint, Targeted
<1>2. CASE UndoVersion(h)
  <2>1. versions' \subseteq VersionRow
    BY <1>2 DEF UndoVersion, TypeInv, TypeOK
  <2>2. req' \in [Handler -> Request] /\ WriterKnown'
    BY <1>1, <1>2, GotoType DEF UndoVersion, ProgramPoint
  <2> QED BY <1>2, <2>1, <2>2 DEF UndoVersion, TypeInv, TypeOK
<1>3. CASE UndoInsert(h)
  <2>1. req' \in [Handler -> Request] /\ WriterKnown'
    BY <1>1, <1>3, GotoType, FinishType DEF UndoInsert, ProgramPoint
  <2> QED BY <1>3, <2>1, DeleteFilesType DEF UndoInsert, TypeInv, TypeOK
<1>4. CASE UndoUpdate(h)
  <2>1. files' \subseteq FileRow
    <3>1. PICK f \in req[h].rows :
            files' = {IF g \in UndoTarget(req[h]) THEN PutBack(g, f, req[h]) ELSE g : g \in files}
      BY <1>4 DEF UndoUpdate
    <3>2. f \in FileRow /\ files \subseteq FileRow
      BY <1>1 DEF TypeInv, TypeOK, Request
    <3>3. \A g \in files : PutBack(g, f, req[h]) \in FileRow
      BY <3>2, PutBackType
    <3> QED BY <3>1, <3>2, <3>3
  <2>2. req' \in [Handler -> Request] /\ WriterKnown'
    BY <1>1, <1>4, GotoType, FinishType DEF UndoUpdate, ProgramPoint
  <2> QED BY <1>4, <2>1, <2>2 DEF UndoUpdate, TypeInv, TypeOK
<1>5. CASE UndoBlob(h)
  BY <1>5, FinishType DEF UndoBlob, TypeInv, TypeOK
<1> QED BY <1>2, <1>3, <1>4, <1>5

(* Whichever handler takes it, a step of a write path is one of these.     *)
LEMMA WriteSteps ==
  ASSUME NEW h \in Handler, Write(h)
  PROVE  \/ \E p \in Writes, n \in Name, k \in Key : BeginWrite(h, p, n, k)
         \/ PutBytes(h) \/ ReadExisting(h) \/ ArchiveForWrite(h)
         \/ UpdateRow(h) \/ InsertRow(h) \/ DropOldThumb(h)
         \/ Accept(h) \/ Reject(h)
         \/ UndoVersion(h) \/ UndoInsert(h) \/ UndoUpdate(h) \/ UndoBlob(h)
BY DEF Write, PostFiles, FinalizeUpload, UploadFile, DavPut, PutObject, Resize,
       DavCopy, UploadPhoto, Begin, Insert, Overwrite, Settle

LEMMA WriteType ==
  ASSUME TypeInv, NEW h \in Handler, Write(h)
  PROVE  TypeInv'
<1>1. CASE \E p \in Writes, n \in Name, k \in Key : BeginWrite(h, p, n, k)
  BY <1>1, BeginWriteType, FileWritesAssumption
<1>2. CASE PutBytes(h)
  BY <1>2, PutBytesType
<1>3. CASE ReadExisting(h)
  BY <1>3, ReadExistingType
<1>4. CASE ArchiveForWrite(h)
  BY <1>4, ArchiveCurrentType DEF ArchiveForWrite, ProgramPoint
<1>5. CASE UpdateRow(h)
  BY <1>5, UpdateRowType
<1>6. CASE InsertRow(h)
  BY <1>6, InsertRowType
<1>7. CASE DropOldThumb(h)
  <2>1. req[h].op \in WritePath
    BY <1>7 DEF DropOldThumb, At, TypeInv, WriterKnown, WriterPoint, Targeted
  <2>2. req' \in [Handler -> Request] /\ WriterKnown'
    BY <1>7, <2>1, GotoType, FinishType DEF DropOldThumb, ProgramPoint
  <2> QED BY <1>7, <2>2 DEF DropOldThumb, TypeInv, TypeOK
<1>8. CASE Accept(h) \/ Reject(h)
  <2>1. req[h].op \in WritePath
    BY <1>8 DEF Accept, Reject, At, TypeInv, WriterKnown, WriterPoint, Targeted
  <2>2. req' \in [Handler -> Request] /\ WriterKnown'
    BY <1>8, <2>1, GotoType, FinishType DEF Accept, Reject, ProgramPoint
  <2> QED BY <1>8, <2>2 DEF Accept, Reject, TypeInv, TypeOK
<1>9. CASE UndoVersion(h) \/ UndoInsert(h) \/ UndoUpdate(h) \/ UndoBlob(h)
  BY <1>9, UndoType
<1> QED BY <1>1, <1>2, <1>3, <1>4, <1>5, <1>6, <1>7, <1>8, <1>9, WriteSteps

(* A request that starts outside the write paths, from rows it has read.   *)
LEMMA BeginRowsType ==
  ASSUME TypeInv, NEW h \in Handler,
         NEW pc \in ProgramPoint \ WriterPoint, NEW op \in Operation \ Targeted,
         NEW rows \in SUBSET files,
         req' = [req EXCEPT ![h] = [NoRequest EXCEPT !.pc = pc, !.op = op, !.rows = rows]]
  PROVE  req' \in [Handler -> Request] /\ WriterKnown'
<1> DEFINE r == [NoRequest EXCEPT !.pc = pc, !.op = op, !.rows = rows]
<1>1. r \in Request /\ r.op = op /\ r.pc = pc
  BY NoRequestType DEF Request, TypeInv, TypeOK
<1> HIDE DEF r
<1> QED BY <1>1, RequestType DEF r

(* A request that reads version rows and moves to a point outside the      *)
(* write paths.                                                            *)
LEMMA ReadVersionsType ==
  ASSUME TypeInv, NEW h \in Handler, NEW vers \in SUBSET VersionRow,
         NEW pc \in ProgramPoint \ WriterPoint,
         req' = [req EXCEPT ![h].vers = vers, ![h].pc = pc]
  PROVE  req' \in [Handler -> Request] /\ WriterKnown'
<1> DEFINE r == [req[h] EXCEPT !.vers = vers, !.pc = pc]
<1>1. req[h] \in Request
  BY DEF TypeInv, TypeOK
<1>2. r \in Request /\ r.op = req[h].op /\ r.key = req[h].key /\ r.name = req[h].name /\ r.pc = pc
  BY <1>1 DEF Request
<1>3. req' = [req EXCEPT ![h] = r]
  BY DEF TypeInv, TypeOK
<1> HIDE DEF r
<1> QED BY <1>2, <1>3, RequestType DEF TypeInv, WriterKnown

LEMMA BeginHistoryType ==
  ASSUME TypeInv, NEW h \in Handler, NEW op \in HistoryOp, NEW f \in files,
         BeginHistory(h, op, f)
  PROVE  TypeInv'
<1>1. req' \in [Handler -> Request] /\ WriterKnown'
  <2>1. {f} \in SUBSET files
    OBVIOUS
  <2>2. op \in Operation \ Targeted /\ "find version" \in ProgramPoint \ WriterPoint
    BY DEF HistoryOp, Operation, Targeted, WritePath, ProgramPoint, WriterPoint
  <2> QED BY <2>1, <2>2, BeginRowsType DEF BeginHistory
<1> QED BY <1>1 DEF BeginHistory, TypeInv, TypeOK

LEMMA FindVersionType ==
  ASSUME TypeInv, NEW h \in Handler, FindVersion(h)
  PROVE  TypeInv'
<1>1. CASE Finish(h)
  BY <1>1, FinishType DEF FindVersion, TypeInv, TypeOK
<1>2. CASE ~ Finish(h)
  <2>1. PICK v \in versions :
          req' = [req EXCEPT ![h].vers = {v},
                    ![h].pc = IF req[h].op = "restore" THEN "regenerate"
                              ELSE "delete version row"]
    BY <1>2 DEF FindVersion
  <2>2. {v} \in SUBSET VersionRow
    BY DEF TypeInv, TypeOK
  <2>3. (IF req[h].op = "restore" THEN "regenerate" ELSE "delete version row")
          \in ProgramPoint \ WriterPoint
    BY DEF ProgramPoint, WriterPoint
  <2>4. req' \in [Handler -> Request] /\ WriterKnown'
    BY <2>1, <2>2, <2>3, ReadVersionsType
  <2> QED BY <2>4 DEF FindVersion, TypeInv, TypeOK
<1> QED BY <1>1, <1>2

LEMMA RegenerateThumbType ==
  ASSUME TypeInv, NEW h \in Handler, RegenerateThumb(h)
  PROVE  TypeInv'
<1>1. "archive" \in ProgramPoint \ WriterPoint
  BY DEF ProgramPoint, WriterPoint
<1>2. CASE Finish(h) /\ thumbs' = thumbs
  BY <1>2, FinishType DEF RegenerateThumb, TypeInv, TypeOK
<1>3. CASE Goto(h, "archive") /\ thumbs' = thumbs
  <2>1. req' \in [Handler -> Request] /\ WriterKnown'
    BY <1>1, <1>3, GotoType
  <2> QED BY <1>3, <2>1 DEF RegenerateThumb, TypeInv, TypeOK
<1>4. ASSUME NEW v \in req[h].vers, NEW t \in {v.key, Null},
             thumbs' = thumbs \cup ({t} \ {Null}),
             req' = [req EXCEPT ![h].thumb = t, ![h].pc = "archive"]
      PROVE  TypeInv'
  <2>1. req[h] \in Request /\ v \in VersionRow
    BY DEF TypeInv, TypeOK, Request
  <2>2. t \in Key \cup {Null}
    BY <2>1 DEF VersionRow
  <2> DEFINE r == [req[h] EXCEPT !.thumb = t, !.pc = "archive"]
  <2>3. r \in Request /\ r.op = req[h].op /\ r.key = req[h].key /\ r.name = req[h].name /\ r.pc = "archive"
    BY <2>1, <2>2, <1>1 DEF Request
  <2>4. req' = [req EXCEPT ![h] = r]
    BY <1>4 DEF TypeInv, TypeOK
  <2>5. req' \in [Handler -> Request] /\ WriterKnown'
    <3> HIDE DEF r
    <3> QED BY <1>1, <2>3, <2>4, RequestType DEF TypeInv, WriterKnown
  <2> QED BY <1>4, <2>2, <2>5 DEF RegenerateThumb, TypeInv, TypeOK
<1> QED BY <1>2, <1>3, <1>4 DEF RegenerateThumb

LEMMA PromotedType ==
  ASSUME NEW g \in FileRow, NEW f \in FileRow, NEW v \in VersionRow, NEW r \in Request
  PROVE  Promoted(g, f, v, r) \in FileRow
<1>1. f.version + 1 \in Nat \ {0} /\ v.key \in Key
  BY DEF FileRow, VersionRow
<1>2. r.thumb \in Key \cup {Null}
  BY DEF Request
<1>3. RestoredScan(v) \in ScanStatus
  BY FreshIsUnscanned DEF RestoredScan, ScanStatus
<1> HIDE DEF RestoredScan
<1> QED BY <1>1, <1>2, <1>3 DEF Promoted, FileRow

LEMMA PromoteVersionType ==
  ASSUME TypeInv, NEW h \in Handler, PromoteVersion(h)
  PROVE  TypeInv'
<1>1. PICK f \in req[h].rows, v \in req[h].vers :
        files' = {IF g.id = f.id THEN Promoted(g, f, v, req[h]) ELSE g : g \in files}
  BY DEF PromoteVersion
<1>2. req[h] \in Request /\ f \in FileRow /\ v \in VersionRow /\ files \subseteq FileRow
  BY DEF TypeInv, TypeOK, Request
<1>3. \A g \in files : Promoted(g, f, v, req[h]) \in FileRow
  BY <1>2, PromotedType
<1>4. files' \subseteq FileRow
  BY <1>1, <1>2, <1>3
<1>5. req' \in [Handler -> Request] /\ WriterKnown'
  BY GotoType DEF PromoteVersion, ProgramPoint, WriterPoint
<1> QED BY <1>4, <1>5 DEF PromoteVersion, TypeInv, TypeOK

LEMMA DropTargetType ==
  ASSUME TypeInv, NEW h \in Handler,
         DropTarget(h) \/ DropReplacedThumb(h) \/ DeleteVersionRow(h) \/ DropVersionBlob(h)
  PROVE  TypeInv'
<1>1. CASE DropTarget(h)
  <2>1. req' \in [Handler -> Request] /\ WriterKnown'
    BY <1>1, GotoType, FinishType DEF DropTarget, ProgramPoint, WriterPoint
  <2> QED BY <1>1, <2>1 DEF DropTarget, TypeInv, TypeOK
<1>2. CASE DropReplacedThumb(h)
  BY <1>2, FinishType DEF DropReplacedThumb, TypeInv, TypeOK
<1>3. CASE DeleteVersionRow(h)
  <2>1. req' \in [Handler -> Request] /\ WriterKnown'
    BY <1>3, GotoType DEF DeleteVersionRow, ProgramPoint, WriterPoint
  <2> QED BY <1>3, <2>1 DEF DeleteVersionRow, TypeInv, TypeOK
<1>4. CASE DropVersionBlob(h)
  BY <1>4, FinishType DEF DropVersionBlob, TypeInv, TypeOK
<1> QED BY <1>1, <1>2, <1>3, <1>4

LEMMA HistoryType ==
  ASSUME TypeInv, NEW h \in Handler, NEW ops, History(ops, h)
  PROVE  TypeInv'
<1>1. CASE \E op \in ops \cap HistoryOp, f \in files : BeginHistory(h, op, f)
  BY <1>1, BeginHistoryType
<1>2. CASE FindVersion(h)
  BY <1>2, FindVersionType
<1>3. CASE RegenerateThumb(h)
  BY <1>3, RegenerateThumbType
<1>4. CASE ArchiveForRestore(h)
  BY <1>4, ArchiveCurrentType DEF ArchiveForRestore, ProgramPoint, WriterPoint
<1>5. CASE PromoteVersion(h)
  BY <1>5, PromoteVersionType
<1>6. CASE DropTarget(h) \/ DropReplacedThumb(h) \/ DeleteVersionRow(h) \/ DropVersionBlob(h)
  BY <1>6, DropTargetType
<1> QED BY <1>1, <1>2, <1>3, <1>4, <1>5, <1>6 DEF History

LEMMA PurgeType ==
  ASSUME TypeInv, NEW h \in Handler, NEW ops, Purge(ops, h)
  PROVE  TypeInv'
<1>1. /\ {"list versions", "purge rows"} \subseteq ProgramPoint \ WriterPoint
      /\ {"purge", "hard delete"} \subseteq Operation \ Targeted
  BY DEF ProgramPoint, WriterPoint, Operation, Targeted, WritePath
<1>2. ASSUME NEW pc \in {"list versions", "purge rows"}, NEW op \in {"purge", "hard delete"},
             NEW rows \in SUBSET files,
             req' = [req EXCEPT ![h] = [NoRequest EXCEPT !.pc = pc, !.op = op, !.rows = rows]],
             UNCHANGED <<files, versions, blobs, thumbs, minted>>
      PROVE  TypeInv'
  <2>1. req' \in [Handler -> Request] /\ WriterKnown'
    BY <1>1, <1>2, BeginRowsType
  <2> QED BY <1>2, <2>1 DEF TypeInv, TypeOK
<1>3. CASE BeginEmptyTrash(h)
  <2>1. Trashed \in SUBSET files
    BY DEF Trashed
  <2> QED BY <1>2, <1>3, <2>1 DEF BeginEmptyTrash
<1>4. CASE \E f \in files : BeginPurge(h, f)
  <2>1. PICK f \in files : BeginPurge(h, f)
    BY <1>4
  <2>2. {f} \in SUBSET files
    OBVIOUS
  <2> QED BY <1>2, <2>1, <2>2 DEF BeginPurge
<1>5. CASE \E f \in files : BeginHardDelete(h, f)
  <2>1. PICK f \in files : BeginHardDelete(h, f)
    BY <1>5
  <2>2. {f} \in SUBSET files
    OBVIOUS
  <2> QED BY <1>2, <2>1, <2>2 DEF BeginHardDelete
<1>6. CASE ListVersions(h)
  <2> DEFINE vers == {v \in versions : v.file \in Ids(req[h].rows)}
  <2>1. vers \in SUBSET VersionRow
    BY DEF TypeInv, TypeOK
  <2>2. "purge versions" \in ProgramPoint \ WriterPoint
    BY DEF ProgramPoint, WriterPoint
  <2>3. req' = [req EXCEPT ![h].vers = vers, ![h].pc = "purge versions"]
    BY <1>6 DEF ListVersions
  <2>4. req' \in [Handler -> Request] /\ WriterKnown'
    <3> HIDE DEF vers
    <3> QED BY <2>1, <2>2, <2>3, ReadVersionsType
  <2> QED BY <1>6, <2>4 DEF ListVersions, TypeInv, TypeOK
<1>7. CASE PurgeVersions(h)
  <2>1. req' \in [Handler -> Request] /\ WriterKnown'
    BY <1>1, <1>7, GotoType DEF PurgeVersions
  <2> QED BY <1>7, <2>1 DEF PurgeVersions, TypeInv, TypeOK
<1>8. CASE PurgeRows(h)
  <2>1. req' \in [Handler -> Request] /\ WriterKnown'
    BY <1>8, GotoType DEF PurgeRows, ProgramPoint, WriterPoint
  <2> QED BY <1>8, <2>1, DeleteFilesType DEF PurgeRows, TypeInv, TypeOK
<1>9. CASE DropBlobs(h)
  <2>1. req' \in [Handler -> Request] /\ WriterKnown'
    BY <1>9, GotoType, FinishType DEF DropBlobs, ProgramPoint, WriterPoint
  <2> QED BY <1>9, <2>1 DEF DropBlobs, TypeInv, TypeOK
<1>10. CASE \E f \in files, n \in Name : BeginMove(h, f, n)
  <2>1. PICK f \in files, n \in Name : BeginMove(h, f, n)
    BY <1>10
  <2>2. PICK found \in One(Live(n)) :
          req' = [req EXCEPT ![h] = [NoRequest EXCEPT
                    !.pc = IF found = {} THEN "move row" ELSE "purge rows",
                    !.op = "move", !.name = n, !.key = f.id, !.rows = found]]
    BY <2>1 DEF BeginMove
  <2> DEFINE r == [NoRequest EXCEPT
                     !.pc = IF found = {} THEN "move row" ELSE "purge rows",
                     !.op = "move", !.name = n, !.key = f.id, !.rows = found]
  <2>3. found \subseteq FileRow /\ f.id \in Key
    BY OneSubset DEF Live, TypeInv, TypeOK, FileRow
  <2>4. r \in Request
    BY <2>3, NoRequestType DEF Request, ProgramPoint, Operation
  <2>5. r.key = f.id /\ r.name = n /\ r.pc \notin WriterPoint
    BY NoRequestType DEF Request, WriterPoint
  <2>6. req' \in [Handler -> Request] /\ WriterKnown'
    <3> HIDE DEF r
    <3> QED BY <2>2, <2>3, <2>4, <2>5, RequestType DEF r
  <2> QED BY <2>1, <2>6 DEF BeginMove, TypeInv, TypeOK
<1>11. CASE MoveRow(h)
  <2>1. req[h].name \in Name
    BY <1>11 DEF MoveRow, TypeInv, WriterKnown, Targeted
  <2>2. \A f \in files : [f EXCEPT !.name = req[h].name] \in FileRow
    BY <2>1 DEF TypeInv, TypeOK, FileRow
  <2>3. files' \subseteq FileRow
    BY <1>11, <2>2 DEF MoveRow, TypeInv, TypeOK
  <2> QED BY <1>11, <2>3, FinishType DEF MoveRow, TypeInv, TypeOK
<1> QED BY <1>3, <1>4, <1>5, <1>6, <1>7, <1>8, <1>9, <1>10, <1>11 DEF Purge

LEMMA CandidatesType ==
  ASSUME TypeInv
  PROVE  ScanCandidates \subseteq VersionRow
<1>1. \A f \in files : Archived(f) \in VersionRow
  BY ArchivedType DEF TypeInv, TypeOK
<1> QED BY <1>1 DEF ScanCandidates, TypeInv, TypeOK

LEMMA ScanType ==
  ASSUME TypeInv, NEW h \in Handler, Scan(h)
  PROVE  TypeInv'
<1>1. CASE \E v \in ScanCandidates : BeginScan(h, v)
  <2>1. PICK v \in ScanCandidates : BeginScan(h, v)
    BY <1>1
  <2>2. {v} \in SUBSET VersionRow
    BY CandidatesType
  <2> DEFINE r == [NoRequest EXCEPT !.pc = "scan bytes", !.op = "scan", !.vers = {v}]
  <2>3. r \in Request /\ r.op = "scan" /\ r.pc = "scan bytes"
    BY <2>2, NoRequestType DEF Request, Operation, ProgramPoint
  <2>4. r.op \notin Targeted /\ r.pc \notin WriterPoint
    BY <2>3 DEF Targeted, WritePath, WriterPoint
  <2>5. req' \in [Handler -> Request] /\ WriterKnown'
    <3>1. req' = [req EXCEPT ![h] = r]
      BY <2>1 DEF BeginScan
    <3> HIDE DEF r
    <3> QED BY <2>3, <2>4, <3>1, RequestType
  <2> QED BY <2>1, <2>5 DEF BeginScan, TypeInv, TypeOK
<1>2. CASE ScanBytes(h)
  <2>1. PICK v \in req[h].vers : \E s \in Verdicts(v.key) :
          req' = [req EXCEPT ![h].verdict = s, ![h].pc = "verdict on file"]
    BY <1>2 DEF ScanBytes
  <2>7. PICK s \in Verdicts(v.key) :
          req' = [req EXCEPT ![h].verdict = s, ![h].pc = "verdict on file"]
    BY <2>1
  <2>2. s \in ScanStatus
    BY DEF Verdicts, ScanStatus
  <2>3. req[h] \in Request
    BY DEF TypeInv, TypeOK
  <2> DEFINE r == [req[h] EXCEPT !.verdict = s, !.pc = "verdict on file"]
  <2>4. r \in Request /\ r.op = req[h].op /\ r.key = req[h].key /\ r.name = req[h].name /\ r.pc = "verdict on file"
    BY <2>2, <2>3 DEF Request, ProgramPoint
  <2>5. req' = [req EXCEPT ![h] = r]
    BY <2>7 DEF TypeInv, TypeOK
  <2>6. req' \in [Handler -> Request] /\ WriterKnown'
    <3>1. "verdict on file" \notin WriterPoint
      BY DEF WriterPoint
    <3> HIDE DEF r
    <3> QED BY <2>4, <2>5, <3>1, RequestType DEF TypeInv, WriterKnown
  <2> QED BY <1>2, <2>6 DEF ScanBytes, TypeInv, TypeOK
<1>3. CASE VerdictOnFile(h)
  <2>1. req[h].verdict \in ScanStatus
    BY DEF TypeInv, TypeOK, Request
  <2>2. \A f \in files : f \in FileRow /\ [f EXCEPT !.scan = req[h].verdict] \in FileRow
    BY <2>1 DEF TypeInv, TypeOK, FileRow
  <2>3. files' \subseteq FileRow
    BY <1>3, <2>2 DEF VerdictOnFile
  <2>4. req' \in [Handler -> Request] /\ WriterKnown'
    BY <1>3, GotoType DEF VerdictOnFile, ProgramPoint, WriterPoint
  <2> QED BY <1>3, <2>3, <2>4 DEF VerdictOnFile, TypeInv, TypeOK
<1>4. CASE VerdictOnVersion(h)
  <2>1. req[h].verdict \in ScanStatus
    BY DEF TypeInv, TypeOK, Request
  <2>2. \A w \in versions : w \in VersionRow /\ [w EXCEPT !.scan = req[h].verdict] \in VersionRow
    BY <2>1 DEF TypeInv, TypeOK, VersionRow
  <2>3. versions' \subseteq VersionRow
    BY <1>4, <2>2 DEF VerdictOnVersion
  <2>4. req' \in [Handler -> Request] /\ WriterKnown'
    BY <1>4, FinishType DEF VerdictOnVersion
  <2> QED BY <1>4, <2>3, <2>4 DEF VerdictOnVersion, TypeInv, TypeOK
<1> QED BY <1>1, <1>2, <1>3, <1>4 DEF Scan

LEMMA EditRowType ==
  ASSUME TypeInv, EditRow
  PROVE  TypeInv'
<1>1. ASSUME NEW f \in files, NEW n \in Name, Rename(f, n)
      PROVE  TypeInv'
  <2>1. [f EXCEPT !.name = n] \in FileRow
    BY DEF TypeInv, TypeOK, FileRow
  <2> QED BY <1>1, <2>1 DEF Rename, TypeInv, TypeOK, WriterKnown
<1>2. ASSUME NEW f \in files, NEW t \in BOOLEAN, SetTrashed(f, t)
      PROVE  TypeInv'
  <2>1. [f EXCEPT !.trashed = t] \in FileRow
    BY DEF TypeInv, TypeOK, FileRow
  <2> QED BY <1>2, <2>1 DEF SetTrashed, TypeInv, TypeOK, WriterKnown
<1> QED BY <1>1, <1>2 DEF EditRow

LEMMA NextType ==
  ASSUME TypeInv, [Next]_vars
  PROVE  TypeInv'
<1>1. CASE UNCHANGED vars
  BY <1>1 DEF vars, TypeInv, TypeOK, WriterKnown
<1>2. ASSUME NEW h \in Handler, Write(h) PROVE TypeInv'
  BY <1>2, WriteType
<1>3. ASSUME NEW h \in Handler, History(Ops, h) PROVE TypeInv'
  BY <1>3, HistoryType
<1>4. ASSUME NEW h \in Handler, Purge(Ops, h) PROVE TypeInv'
  BY <1>4, PurgeType
<1>5. ASSUME NEW h \in Handler, Scan(h) PROVE TypeInv'
  BY <1>5, ScanType
<1>6. ASSUME NEW h \in Handler, Interrupt(h) PROVE TypeInv'
  BY <1>6, FinishType DEF Interrupt, TypeInv, TypeOK
<1>7. ASSUME NEW h \in Handler, FailPhoto(h) PROVE TypeInv'
  BY <1>7, FinishType DEF FailPhoto, TypeInv, TypeOK
<1>8. CASE EditRow
  BY <1>8, EditRowType
<1> QED BY <1>1, <1>2, <1>3, <1>4, <1>5, <1>6, <1>7, <1>8 DEF Next

(* Rows, snapshots and requests stay well formed through every step of     *)
(* every operation.                                                        *)
THEOREM TypeCorrect == Spec => []TypeOK
<1>1. Init => TypeInv
  BY NoRequestType DEF Init, TypeInv, TypeOK, WriterKnown
<1>2. TypeInv /\ [Next]_vars => TypeInv'
  BY NextType
<1> QED BY <1>1, <1>2, PTL DEF Spec, TypeInv

---------------------------------------------------------------------------
(* Soundness of the verdicts *)

Unfit == Infected \cup Oversize

Sound(row) == row.scan = "clean" => row.key \notin Unfit

VerdictPoint == {"verdict on file", "verdict on version"}

(* What a request carries: rows are written back by undos and archived by  *)
(* writers long after they were read, so the snapshots must be sound too,  *)
(* and so must a verdict on its way to the tables.                         *)
RequestSound(r) ==
  /\ \A f \in r.rows : Sound(f)
  /\ \A v \in r.vers : Sound(v)
  /\ r.pc = "scan bytes" => \A v, w \in r.vers : v = w
  /\ r.pc \in VerdictPoint /\ r.verdict = "clean" => \A v \in r.vers : v.key \notin Unfit

ScanInv ==
  /\ \A f \in files : Sound(f)
  /\ \A v \in versions : Sound(v)
  /\ \A h \in Handler : RequestSound(req[h])

LEMMA NoRequestSound == RequestSound(NoRequest)
BY DEF RequestSound, NoRequest, VerdictPoint

LEMMA ReplaceSound ==
  ASSUME TypeInv, ScanInv, NEW h \in Handler, NEW r, RequestSound(r),
         req' = [req EXCEPT ![h] = r]
  PROVE  \A g \in Handler : RequestSound(req'[g])
BY DEF TypeInv, TypeOK, ScanInv

(* A request that only moves on stays sound, unless it enters the points   *)
(* where its verdict counts.                                               *)
LEMMA GotoSound ==
  ASSUME TypeInv, ScanInv, NEW h \in Handler, NEW pc, Goto(h, pc),
         pc # "scan bytes", pc \in VerdictPoint => req[h].pc \in VerdictPoint
  PROVE  \A g \in Handler : RequestSound(req'[g])
<1> DEFINE r == [req[h] EXCEPT !.pc = pc]
<1>1. req[h] \in Request /\ RequestSound(req[h])
  BY DEF TypeInv, TypeOK, ScanInv
<1>2. /\ r.rows = req[h].rows /\ r.vers = req[h].vers
      /\ r.verdict = req[h].verdict /\ r.pc = pc
  BY <1>1 DEF Request
<1>3. RequestSound(r)
  <2> HIDE DEF r
  <2> QED BY <1>1, <1>2 DEF RequestSound
<1>4. req' = [req EXCEPT ![h] = r]
  BY DEF Goto, TypeInv, TypeOK
<1> HIDE DEF r
<1> QED BY <1>3, <1>4, ReplaceSound

LEMMA FinishSound ==
  ASSUME TypeInv, ScanInv, NEW h \in Handler, Finish(h)
  PROVE  \A g \in Handler : RequestSound(req'[g])
BY NoRequestSound, ReplaceSound DEF Finish

(* Archiving a row takes its verdict along. *)
LEMMA ArchivedSound ==
  ASSUME NEW f, Sound(f)
  PROVE  Sound(Archived(f))
BY DEF Sound, Archived

LEMMA ArchiveCurrentSound ==
  ASSUME TypeInv, ScanInv, NEW h \in Handler, NEW next, next \notin VerdictPoint \cup {"scan bytes"},
         ArchiveCurrent(h, next)
  PROVE  ScanInv'
<1>1. PICK f \in req[h].rows :
         \/ versions' = versions \cup {Archived(f)} /\ Goto(h, next)
         \/ versions' = versions /\ Finish(h)
  BY DEF ArchiveCurrent
<1>2. Sound(Archived(f))
  BY ArchivedSound DEF ScanInv, RequestSound
<1>3. \A g \in Handler : RequestSound(req'[g])
  BY <1>1, GotoSound, FinishSound
<1> QED BY <1>1, <1>2, <1>3 DEF ArchiveCurrent, ScanInv

(* A request that has read rows and versions from the tables, and has no   *)
(* verdict yet.                                                            *)
LEMMA ReadSound ==
  ASSUME TypeInv, ScanInv, NEW h \in Handler, NEW r,
         req' = [req EXCEPT ![h] = r],
         r.rows \subseteq files \cup req[h].rows,
         r.vers \subseteq versions \cup req[h].vers,
         r.pc \notin VerdictPoint \cup {"scan bytes"}
  PROVE  \A g \in Handler : RequestSound(req'[g])
<1>1. RequestSound(r)
  BY DEF ScanInv, RequestSound
<1> QED BY <1>1, ReplaceSound

LEMMA WriteBeginSound ==
  ASSUME TypeInv, ScanInv, NEW h \in Handler, NEW p, NEW n, NEW k, BeginWrite(h, p, n, k)
  PROVE  ScanInv'
<1>1. PICK found \in One(IF p \in ReadsFirst THEN Live(n) ELSE {}) :
         req' = [req EXCEPT ![h] = [NoRequest EXCEPT
                   !.pc = "put", !.op = p, !.name = n, !.key = k, !.rows = found]]
  BY DEF BeginWrite
<1>2. found \subseteq files
  BY OneSubset DEF Live
<1> DEFINE r == [NoRequest EXCEPT !.pc = "put", !.op = p, !.name = n, !.key = k, !.rows = found]
<1>3. r.rows = found /\ r.vers = {} /\ r.pc = "put"
  BY DEF NoRequest
<1>4. \A g \in Handler : RequestSound(req'[g])
  <2> HIDE DEF r
  <2> QED BY <1>1, <1>2, <1>3, ReadSound DEF r, VerdictPoint
<1> QED BY <1>4 DEF BeginWrite, ScanInv

LEMMA PutBytesSound ==
  ASSUME TypeInv, ScanInv, NEW h \in Handler, PutBytes(h)
  PROVE  ScanInv'
<1>1. PICK t \in ThumbFor(req[h].op, req[h].key) :
         req' = [req EXCEPT ![h].thumb = t, ![h].pc = AfterPut(req[h])]
  BY DEF PutBytes
<1> DEFINE r == [req[h] EXCEPT !.thumb = t, !.pc = AfterPut(req[h])]
<1>2. r.rows = req[h].rows /\ r.vers = req[h].vers /\ r.pc = AfterPut(req[h])
  BY DEF TypeInv, TypeOK, Request
<1>3. AfterPut(req[h]) \notin VerdictPoint \cup {"scan bytes"}
  BY DEF AfterPut, VerdictPoint
<1>4. req' = [req EXCEPT ![h] = r]
  BY <1>1 DEF TypeInv, TypeOK
<1>5. \A g \in Handler : RequestSound(req'[g])
  <2> HIDE DEF r
  <2> QED BY <1>2, <1>3, <1>4, ReadSound
<1> QED BY <1>5 DEF PutBytes, ScanInv

LEMMA ReadExistingSound ==
  ASSUME TypeInv, ScanInv, NEW h \in Handler, ReadExisting(h)
  PROVE  ScanInv'
<1>1. PICK found \in One(Existing(req[h])) :
         \/ Finish(h)
         \/ req' = [req EXCEPT ![h].rows = found,
                     ![h].pc = IF found = {} THEN "insert" ELSE "archive"]
  BY DEF ReadExisting
<1>2. found \subseteq files
  BY OneSubset DEF Existing, Live, ById
<1> DEFINE r == [req[h] EXCEPT !.rows = found,
                               !.pc = IF found = {} THEN "insert" ELSE "archive"]
<1>3. /\ r.rows = found /\ r.vers = req[h].vers
      /\ r.pc \notin VerdictPoint \cup {"scan bytes"}
  BY DEF TypeInv, TypeOK, Request, VerdictPoint
<1>4. CASE req' = [req EXCEPT ![h].rows = found,
                   ![h].pc = IF found = {} THEN "insert" ELSE "archive"]
  <2>1. req' = [req EXCEPT ![h] = r]
    BY <1>4 DEF TypeInv, TypeOK
  <2>2. \A g \in Handler : RequestSound(req'[g])
    <3> HIDE DEF r
    <3> QED BY <1>2, <1>3, <2>1, ReadSound
  <2> QED BY <2>2 DEF ReadExisting, ScanInv
<1>5. CASE Finish(h)
  BY <1>5, FinishSound DEF ReadExisting, ScanInv
<1> QED BY <1>1, <1>4, <1>5

LEMMA UpdateRowSound ==
  ASSUME TypeInv, ScanInv, NEW h \in Handler, UpdateRow(h) \/ InsertRow(h)
  PROVE  ScanInv'
<1>1. \A f \in files' : Sound(f)
  <2>1. CASE UpdateRow(h)
    <3>1. PICK f \in req[h].rows :
            files' = {IF g.id = f.id THEN Overwritten(g, f, req[h]) ELSE g : g \in files}
      BY <2>1 DEF UpdateRow
    <3>2. \A g \in files : Sound(Overwritten(g, f, req[h]))
      <4>1. \A g \in files : Overwritten(g, f, req[h]).scan = FreshScan
        BY DEF Overwritten, TypeInv, TypeOK, FileRow
      <4> QED BY <4>1, FreshIsUnscanned DEF Sound
    <3> QED BY <3>1, <3>2 DEF ScanInv
  <2>2. CASE InsertRow(h)
    <3> DEFINE row == [id |-> req[h].key, name |-> req[h].name, key |-> req[h].key,
                       thumb |-> req[h].thumb, version |-> 1, scan |-> FreshScan,
                       trashed |-> FALSE, asset |-> AssetOf(req[h])]
    <3>1. files' = files \/ files' = files \cup {row}
      BY <2>2 DEF InsertRow
    <3>2. row.scan = FreshScan
      OBVIOUS
    <3> HIDE DEF row
    <3> QED BY <3>1, <3>2, FreshIsUnscanned DEF ScanInv, Sound
  <2> QED BY <2>1, <2>2
<1>2. \A g \in Handler : RequestSound(req'[g])
  BY GotoSound DEF UpdateRow, InsertRow, VerdictPoint
<1> QED BY <1>1, <1>2 DEF UpdateRow, InsertRow, ScanInv

(* The undo brings back the verdict the row had when it was read.          *)
LEMMA PutBackSound ==
  ASSUME NEW g \in FileRow, NEW f, NEW r, Sound(f)
  PROVE  Sound(PutBack(g, f, r))
BY DEF PutBack, Sound, FileRow

LEMMA UndoSound ==
  ASSUME TypeInv, ScanInv, NEW h \in Handler, UndoVersion(h) \/ UndoInsert(h) \/ UndoUpdate(h) \/ UndoBlob(h)
  PROVE  ScanInv'
<1>1. CASE UndoVersion(h)
  <2>1. \A g \in Handler : RequestSound(req'[g])
    BY <1>1, GotoSound DEF UndoVersion, VerdictPoint
  <2> QED BY <1>1, <2>1 DEF UndoVersion, ScanInv
<1>2. CASE UndoInsert(h)
  <2>1. \A g \in Handler : RequestSound(req'[g])
    BY <1>2, GotoSound, FinishSound DEF UndoInsert, VerdictPoint
  <2> QED BY <1>2, <2>1 DEF UndoInsert, DeleteFiles, ScanInv
<1>3. CASE UndoUpdate(h)
  <2>1. PICK f \in req[h].rows :
          files' = {IF g \in UndoTarget(req[h]) THEN PutBack(g, f, req[h]) ELSE g : g \in files}
    BY <1>3 DEF UndoUpdate
  <2>2. \A g \in files : Sound(PutBack(g, f, req[h]))
    BY PutBackSound DEF ScanInv, RequestSound, TypeInv, TypeOK
  <2>3. \A g \in Handler : RequestSound(req'[g])
    BY <1>3, GotoSound, FinishSound DEF UndoUpdate, VerdictPoint
  <2> QED BY <1>3, <2>1, <2>2, <2>3 DEF UndoUpdate, ScanInv
<1>4. CASE UndoBlob(h)
  BY <1>4, FinishSound DEF UndoBlob, ScanInv
<1> QED BY <1>1, <1>2, <1>3, <1>4

LEMMA WriteSound ==
  ASSUME TypeInv, ScanInv, NEW h \in Handler, Write(h)
  PROVE  ScanInv'
<1>1. CASE \E p \in Writes, n \in Name, k \in Key : BeginWrite(h, p, n, k)
  BY <1>1, WriteBeginSound
<1>2. CASE PutBytes(h)
  BY <1>2, PutBytesSound
<1>3. CASE ReadExisting(h)
  BY <1>3, ReadExistingSound
<1>4. CASE ArchiveForWrite(h)
  BY <1>4, ArchiveCurrentSound DEF ArchiveForWrite, VerdictPoint
<1>5. CASE UpdateRow(h) \/ InsertRow(h)
  BY <1>5, UpdateRowSound
<1>6. CASE DropOldThumb(h)
  BY <1>6, GotoSound, FinishSound DEF DropOldThumb, ScanInv, VerdictPoint
<1>7. CASE Accept(h)
  BY <1>7, GotoSound, FinishSound DEF Accept, ScanInv, VerdictPoint
<1>8. CASE Reject(h)
  BY <1>8, GotoSound DEF Reject, ScanInv, VerdictPoint
<1>9. CASE UndoVersion(h) \/ UndoInsert(h) \/ UndoUpdate(h) \/ UndoBlob(h)
  BY <1>9, UndoSound
<1> QED BY <1>1, <1>2, <1>3, <1>4, <1>5, <1>6, <1>7, <1>8, <1>9, WriteSteps

LEMMA BeginHistorySound ==
  ASSUME TypeInv, ScanInv, NEW h \in Handler, NEW op, NEW f \in files, BeginHistory(h, op, f)
  PROVE  ScanInv'
<1> DEFINE r == [NoRequest EXCEPT !.pc = "find version", !.op = op, !.rows = {f}]
<1>1. r.rows = {f} /\ r.vers = {} /\ r.pc = "find version"
  BY DEF NoRequest
<1>2. req' = [req EXCEPT ![h] = r]
  BY DEF BeginHistory
<1>3. \A g \in Handler : RequestSound(req'[g])
  <2> HIDE DEF r
  <2> QED BY <1>1, <1>2, ReadSound DEF VerdictPoint
<1> QED BY <1>3 DEF BeginHistory, ScanInv

LEMMA FindVersionSound ==
  ASSUME TypeInv, ScanInv, NEW h \in Handler, FindVersion(h)
  PROVE  ScanInv'
<1>1. CASE Finish(h)
  BY <1>1, FinishSound DEF FindVersion, ScanInv
<1>2. CASE ~ Finish(h)
  <2>1. PICK v \in versions :
          req' = [req EXCEPT ![h].vers = {v},
                    ![h].pc = IF req[h].op = "restore" THEN "regenerate"
                              ELSE "delete version row"]
    BY <1>2 DEF FindVersion
  <2> DEFINE r == [req[h] EXCEPT !.vers = {v},
                     !.pc = IF req[h].op = "restore" THEN "regenerate" ELSE "delete version row"]
  <2>2. /\ r.rows = req[h].rows /\ r.vers = {v}
        /\ r.pc \notin VerdictPoint \cup {"scan bytes"}
    BY DEF TypeInv, TypeOK, Request, VerdictPoint
  <2>3. req' = [req EXCEPT ![h] = r]
    BY <2>1 DEF TypeInv, TypeOK
  <2>4. \A g \in Handler : RequestSound(req'[g])
    <3> HIDE DEF r
    <3> QED BY <2>2, <2>3, ReadSound
  <2> QED BY <2>4 DEF FindVersion, ScanInv
<1> QED BY <1>1, <1>2

LEMMA RegenerateThumbSound ==
  ASSUME TypeInv, ScanInv, NEW h \in Handler, RegenerateThumb(h)
  PROVE  ScanInv'
<1>1. CASE Finish(h)
  BY <1>1, FinishSound DEF RegenerateThumb, ScanInv
<1>2. CASE Goto(h, "archive")
  BY <1>2, GotoSound DEF RegenerateThumb, ScanInv, VerdictPoint
<1>3. ASSUME NEW t, req' = [req EXCEPT ![h].thumb = t, ![h].pc = "archive"]
      PROVE  ScanInv'
  <2> DEFINE r == [req[h] EXCEPT !.thumb = t, !.pc = "archive"]
  <2>1. r.rows = req[h].rows /\ r.vers = req[h].vers /\ r.pc = "archive"
    BY DEF TypeInv, TypeOK, Request
  <2>2. req' = [req EXCEPT ![h] = r]
    BY <1>3 DEF TypeInv, TypeOK
  <2>3. \A g \in Handler : RequestSound(req'[g])
    <3> HIDE DEF r
    <3> QED BY <2>1, <2>2, ReadSound DEF VerdictPoint
  <2> QED BY <2>3 DEF RegenerateThumb, ScanInv
<1> QED BY <1>1, <1>2, <1>3 DEF RegenerateThumb

(* A restored version is infected or unscanned, whatever it was marked.    *)
LEMMA PromotedSound ==
  ASSUME NEW g \in FileRow, NEW f, NEW v, NEW r
  PROVE  Sound(Promoted(g, f, v, r))
<1>1. Promoted(g, f, v, r).scan = RestoredScan(v)
  BY DEF Promoted, FileRow
<1> QED BY <1>1, FreshIsUnscanned DEF RestoredScan, Sound

LEMMA HistorySound ==
  ASSUME TypeInv, ScanInv, NEW h \in Handler, NEW ops, History(ops, h)
  PROVE  ScanInv'
<1>1. CASE \E op \in ops \cap HistoryOp, f \in files : BeginHistory(h, op, f)
  BY <1>1, BeginHistorySound
<1>2. CASE FindVersion(h)
  BY <1>2, FindVersionSound
<1>3. CASE RegenerateThumb(h)
  BY <1>3, RegenerateThumbSound
<1>4. CASE ArchiveForRestore(h)
  BY <1>4, ArchiveCurrentSound DEF ArchiveForRestore, VerdictPoint
<1>5. CASE PromoteVersion(h)
  <2>1. PICK f \in req[h].rows, v \in req[h].vers :
          files' = {IF g.id = f.id THEN Promoted(g, f, v, req[h]) ELSE g : g \in files}
    BY <1>5 DEF PromoteVersion
  <2>2. \A g \in files : Sound(Promoted(g, f, v, req[h]))
    BY PromotedSound DEF TypeInv, TypeOK
  <2>3. \A g \in Handler : RequestSound(req'[g])
    BY <1>5, GotoSound DEF PromoteVersion, VerdictPoint
  <2> QED BY <1>5, <2>1, <2>2, <2>3 DEF PromoteVersion, ScanInv
<1>6. CASE DropTarget(h)
  <2>1. \A g \in Handler : RequestSound(req'[g])
    BY <1>6, GotoSound, FinishSound DEF DropTarget, VerdictPoint
  <2> QED BY <1>6, <2>1 DEF DropTarget, ScanInv
<1>7. CASE DropReplacedThumb(h) \/ DropVersionBlob(h)
  BY <1>7, FinishSound DEF DropReplacedThumb, DropVersionBlob, ScanInv
<1>8. CASE DeleteVersionRow(h)
  <2>1. \A g \in Handler : RequestSound(req'[g])
    BY <1>8, GotoSound DEF DeleteVersionRow, VerdictPoint
  <2> QED BY <1>8, <2>1 DEF DeleteVersionRow, ScanInv
<1> QED BY <1>1, <1>2, <1>3, <1>4, <1>5, <1>6, <1>7, <1>8 DEF History

LEMMA PurgeSound ==
  ASSUME TypeInv, ScanInv, NEW h \in Handler, NEW ops, Purge(ops, h)
  PROVE  ScanInv'
<1>1. ASSUME NEW pc \in {"list versions", "purge rows"}, NEW op, NEW rows \in SUBSET files,
             req' = [req EXCEPT ![h] = [NoRequest EXCEPT !.pc = pc, !.op = op, !.rows = rows]],
             UNCHANGED <<files, versions>>
      PROVE  ScanInv'
  <2> DEFINE r == [NoRequest EXCEPT !.pc = pc, !.op = op, !.rows = rows]
  <2>1. r.rows = rows /\ r.vers = {} /\ r.pc = pc
    BY DEF NoRequest
  <2>2. \A g \in Handler : RequestSound(req'[g])
    <3> HIDE DEF r
    <3> QED BY <1>1, <2>1, ReadSound DEF r, VerdictPoint
  <2> QED BY <1>1, <2>2 DEF ScanInv
<1>2. CASE BeginEmptyTrash(h)
  <2>1. Trashed \in SUBSET files
    BY DEF Trashed
  <2> QED BY <1>1, <1>2, <2>1 DEF BeginEmptyTrash
<1>3. ASSUME NEW f \in files, BeginPurge(h, f) \/ BeginHardDelete(h, f)
      PROVE  ScanInv'
  <2>1. {f} \in SUBSET files
    OBVIOUS
  <2> QED BY <1>1, <1>3, <2>1 DEF BeginPurge, BeginHardDelete
<1>4. CASE ListVersions(h)
  <2> DEFINE vers == {v \in versions : v.file \in Ids(req[h].rows)}
             r == [req[h] EXCEPT !.vers = vers, !.pc = "purge versions"]
  <2>1. r.rows = req[h].rows /\ r.vers = vers /\ r.pc = "purge versions"
    BY DEF TypeInv, TypeOK, Request
  <2>2. req' = [req EXCEPT ![h] = r]
    BY <1>4 DEF ListVersions, TypeInv, TypeOK
  <2>3. vers \subseteq versions
    OBVIOUS
  <2>4. \A g \in Handler : RequestSound(req'[g])
    <3> HIDE DEF r, vers
    <3> QED BY <2>1, <2>2, <2>3, ReadSound DEF VerdictPoint
  <2> QED BY <1>4, <2>4 DEF ListVersions, ScanInv
<1>5. CASE PurgeVersions(h)
  <2>1. \A g \in Handler : RequestSound(req'[g])
    BY <1>5, GotoSound DEF PurgeVersions, VerdictPoint
  <2> QED BY <1>5, <2>1 DEF PurgeVersions, ScanInv
<1>6. CASE PurgeRows(h)
  <2>1. \A g \in Handler : RequestSound(req'[g])
    BY <1>6, GotoSound DEF PurgeRows, VerdictPoint
  <2> QED BY <1>6, <2>1 DEF PurgeRows, DeleteFiles, ScanInv
<1>7. CASE DropBlobs(h)
  BY <1>7, GotoSound, FinishSound DEF DropBlobs, ScanInv, VerdictPoint
<1>8. CASE \E f \in files, n \in Name : BeginMove(h, f, n)
  <2>1. PICK f \in files, n \in Name : BeginMove(h, f, n)
    BY <1>8
  <2>2. PICK found \in One(Live(n)) :
          req' = [req EXCEPT ![h] = [NoRequest EXCEPT
                    !.pc = IF found = {} THEN "move row" ELSE "purge rows",
                    !.op = "move", !.name = n, !.key = f.id, !.rows = found]]
    BY <2>1 DEF BeginMove
  <2>3. found \subseteq files
    BY OneSubset DEF Live
  <2> DEFINE r == [NoRequest EXCEPT
                     !.pc = IF found = {} THEN "move row" ELSE "purge rows",
                     !.op = "move", !.name = n, !.key = f.id, !.rows = found]
  <2>4. r.rows = found /\ r.vers = {} /\ r.pc \notin VerdictPoint \cup {"scan bytes"}
    BY DEF NoRequest, VerdictPoint
  <2>5. \A g \in Handler : RequestSound(req'[g])
    <3> HIDE DEF r
    <3> QED BY <2>2, <2>3, <2>4, ReadSound DEF r
  <2> QED BY <2>1, <2>5 DEF BeginMove, ScanInv
<1>9. CASE MoveRow(h)
  <2>1. \A f \in files : Sound([f EXCEPT !.name = req[h].name])
    BY DEF Sound, ScanInv, TypeInv, TypeOK, FileRow
  <2> QED BY <1>9, <2>1, FinishSound DEF MoveRow, ScanInv
<1> QED BY <1>2, <1>3, <1>4, <1>5, <1>6, <1>7, <1>8, <1>9 DEF Purge

LEMMA ScanStepSound ==
  ASSUME TypeInv, ScanInv, NEW h \in Handler, Scan(h)
  PROVE  ScanInv'
<1>1. CASE \E v \in ScanCandidates : BeginScan(h, v)
  <2>1. PICK v \in ScanCandidates : BeginScan(h, v)
    BY <1>1
  <2>2. Sound(v)
    BY ArchivedSound DEF ScanCandidates, ScanInv
  <2> DEFINE r == [NoRequest EXCEPT !.pc = "scan bytes", !.op = "scan", !.vers = {v}]
  <2>3. r.rows = {} /\ r.vers = {v} /\ r.pc = "scan bytes"
    BY DEF NoRequest
  <2>4. RequestSound(r)
    <3> HIDE DEF r
    <3> QED BY <2>2, <2>3 DEF RequestSound, VerdictPoint
  <2>5. \A g \in Handler : RequestSound(req'[g])
    BY <2>1, <2>4, ReplaceSound DEF BeginScan
  <2> QED BY <2>1, <2>5 DEF BeginScan, ScanInv
<1>2. CASE ScanBytes(h)
  <2>1. PICK v \in req[h].vers : \E s \in Verdicts(v.key) :
          req' = [req EXCEPT ![h].verdict = s, ![h].pc = "verdict on file"]
    BY <1>2 DEF ScanBytes
  <2>2. PICK s \in Verdicts(v.key) :
          req' = [req EXCEPT ![h].verdict = s, ![h].pc = "verdict on file"]
    BY <2>1
  <2>3. s = "clean" => v.key \notin Unfit
    BY DEF Verdicts, Unfit
  <2>4. \A w \in req[h].vers : w = v
    BY <1>2 DEF ScanBytes, At, ScanInv, RequestSound
  <2> DEFINE r == [req[h] EXCEPT !.verdict = s, !.pc = "verdict on file"]
  <2>5. /\ r.rows = req[h].rows /\ r.vers = req[h].vers
        /\ r.verdict = s /\ r.pc = "verdict on file"
    BY DEF TypeInv, TypeOK, Request
  <2>6. RequestSound(r)
    <3>1. RequestSound(req[h])
      BY DEF ScanInv
    <3> HIDE DEF r
    <3> QED BY <2>3, <2>4, <2>5, <3>1 DEF RequestSound
  <2>7. req' = [req EXCEPT ![h] = r]
    BY <2>2 DEF TypeInv, TypeOK
  <2>8. \A g \in Handler : RequestSound(req'[g])
    <3> HIDE DEF r
    <3> QED BY <2>6, <2>7, ReplaceSound
  <2> QED BY <1>2, <2>8 DEF ScanBytes, ScanInv
<1>3. CASE VerdictOnFile(h)
  <2>1. PICK v \in req[h].vers :
          files' = {IF MatchesFile(f, v) THEN [f EXCEPT !.scan = req[h].verdict] ELSE f : f \in files}
    BY <1>3 DEF VerdictOnFile
  <2>2. req[h].verdict = "clean" => v.key \notin Unfit
    BY <1>3 DEF VerdictOnFile, At, VerdictPoint, ScanInv, RequestSound
  <2>3. \A f \in files : MatchesFile(f, v) => Sound([f EXCEPT !.scan = req[h].verdict])
    BY <2>2 DEF MatchesFile, Sound, TypeInv, TypeOK, FileRow
  <2>4. \A f \in files' : Sound(f)
    BY <2>1, <2>3 DEF ScanInv
  <2>5. \A g \in Handler : RequestSound(req'[g])
    BY <1>3, GotoSound DEF VerdictOnFile, At, VerdictPoint
  <2> QED BY <1>3, <2>4, <2>5 DEF VerdictOnFile, ScanInv
<1>4. CASE VerdictOnVersion(h)
  <2>1. PICK v \in req[h].vers :
          versions' = {IF MatchesVersion(w, v) THEN [w EXCEPT !.scan = req[h].verdict] ELSE w : w \in versions}
    BY <1>4 DEF VerdictOnVersion
  <2>2. req[h].verdict = "clean" => v.key \notin Unfit
    BY <1>4 DEF VerdictOnVersion, At, VerdictPoint, ScanInv, RequestSound
  <2>3. \A w \in versions : MatchesVersion(w, v) => Sound([w EXCEPT !.scan = req[h].verdict])
    BY <2>2 DEF MatchesVersion, Sound, TypeInv, TypeOK, VersionRow
  <2>4. \A w \in versions' : Sound(w)
    BY <2>1, <2>3 DEF ScanInv
  <2>5. \A g \in Handler : RequestSound(req'[g])
    BY <1>4, FinishSound DEF VerdictOnVersion
  <2> QED BY <1>4, <2>4, <2>5 DEF VerdictOnVersion, ScanInv
<1> QED BY <1>1, <1>2, <1>3, <1>4 DEF Scan

LEMMA EditRowSound ==
  ASSUME TypeInv, ScanInv, EditRow
  PROVE  ScanInv'
<1>1. ASSUME NEW f \in files, NEW n, Rename(f, n)
      PROVE  ScanInv'
  <2>1. Sound([f EXCEPT !.name = n])
    BY DEF Sound, ScanInv, TypeInv, TypeOK, FileRow
  <2> QED BY <1>1, <2>1 DEF Rename, ScanInv
<1>2. ASSUME NEW f \in files, NEW t, SetTrashed(f, t)
      PROVE  ScanInv'
  <2>1. Sound([f EXCEPT !.trashed = t])
    BY DEF Sound, ScanInv, TypeInv, TypeOK, FileRow
  <2> QED BY <1>2, <2>1 DEF SetTrashed, ScanInv
<1> QED BY <1>1, <1>2 DEF EditRow

(* No verdict reaches bytes other than those it was given for, however the *)
(* sweep, replacements, archiving, restores, undos and crashes interleave. *)
THEOREM ScanCorrect == Spec => []ScanSound
<1>1. Init => TypeInv /\ ScanInv
  BY NoRequestType, NoRequestSound DEF Init, TypeInv, TypeOK, WriterKnown, ScanInv
<1>2. TypeInv /\ ScanInv /\ [Next]_vars => TypeInv' /\ ScanInv'
  <2> SUFFICES ASSUME TypeInv, ScanInv, [Next]_vars PROVE TypeInv' /\ ScanInv'
    OBVIOUS
  <2>1. TypeInv'
    BY NextType
  <2>2. CASE UNCHANGED vars
    BY <2>1, <2>2 DEF vars, ScanInv
  <2>3. ASSUME NEW h \in Handler, Write(h) PROVE ScanInv'
    BY <2>3, WriteSound
  <2>4. ASSUME NEW h \in Handler, History(Ops, h) PROVE ScanInv'
    BY <2>4, HistorySound
  <2>5. ASSUME NEW h \in Handler, Purge(Ops, h) PROVE ScanInv'
    BY <2>5, PurgeSound
  <2>6. ASSUME NEW h \in Handler, Scan(h) PROVE ScanInv'
    BY <2>6, ScanStepSound
  <2>7. ASSUME NEW h \in Handler, Interrupt(h) PROVE ScanInv'
    BY <2>7, FinishSound DEF Interrupt, ScanInv
  <2>8. ASSUME NEW h \in Handler, FailPhoto(h) PROVE ScanInv'
    BY <2>8, FinishSound DEF FailPhoto, ScanInv
  <2>9. CASE EditRow
    BY <2>1, <2>9, EditRowSound
  <2> QED BY <2>1, <2>2, <2>3, <2>4, <2>5, <2>6, <2>7, <2>8, <2>9 DEF Next
<1>3. ScanInv => ScanSound
  BY DEF ScanInv, ScanSound, Sound, Unfit
<1> QED BY <1>1, <1>2, <1>3, PTL DEF Spec

---------------------------------------------------------------------------
(* What the steps do to the requests, field by field *)

Same(g) == req'[g] = req[g]
OthersSame(h) == \A g \in Handler : g # h => Same(g)

LEMMA GotoFields ==
  ASSUME TypeInv, NEW h \in Handler, NEW pc, Goto(h, pc)
  PROVE  /\ OthersSame(h) /\ req'[h].pc = pc
         /\ req'[h].op = req[h].op /\ req'[h].name = req[h].name /\ req'[h].key = req[h].key
         /\ req'[h].thumb = req[h].thumb /\ req'[h].rows = req[h].rows
         /\ req'[h].vers = req[h].vers /\ req'[h].verdict = req[h].verdict
<1> DEFINE r == [req[h] EXCEPT !.pc = pc]
<1>1. req \in [Handler -> Request]
  BY DEF TypeInv, TypeOK
<1>2. /\ r.pc = pc /\ r.op = req[h].op /\ r.name = req[h].name /\ r.key = req[h].key
      /\ r.thumb = req[h].thumb /\ r.rows = req[h].rows /\ r.vers = req[h].vers
      /\ r.verdict = req[h].verdict
  BY <1>1 DEF Request
<1>3. req' = [req EXCEPT ![h] = r]
  BY <1>1 DEF Goto
<1> HIDE DEF r
<1> QED BY <1>1, <1>2, <1>3 DEF OthersSame, Same

LEMMA FinishFields ==
  ASSUME TypeInv, NEW h \in Handler, Finish(h)
  PROVE  /\ OthersSame(h) /\ req'[h] = NoRequest
         /\ NoRequest.rows = {} /\ NoRequest.vers = {} /\ NoRequest.pc = "idle"
         /\ NoRequest.op = Null /\ NoRequest.op \notin Operation
<1>1. req \in [Handler -> Request]
  BY DEF TypeInv, TypeOK
<1>2. OthersSame(h) /\ req'[h] = NoRequest
  BY <1>1 DEF Finish, OthersSame, Same
<1>3. Null \notin Operation
  BY NullAssumption
<1> QED BY <1>2, <1>3 DEF NoRequest

LEMMA BeginFields ==
  ASSUME TypeInv, NEW h \in Handler, NEW r, req' = [req EXCEPT ![h] = r]
  PROVE  OthersSame(h) /\ req'[h] = r
<1>1. req \in [Handler -> Request]
  BY DEF TypeInv, TypeOK
<1> QED BY <1>1 DEF OthersSame, Same

LEMMA BeginWriteFields ==
  ASSUME TypeInv, NEW h \in Handler, NEW p, NEW n, NEW k, BeginWrite(h, p, n, k)
  PROVE  /\ OthersSame(h) /\ req'[h].pc = "put" /\ req'[h].op = p /\ req'[h].name = n
         /\ req'[h].key = k /\ req'[h].vers = {} /\ req'[h].thumb = Null
         /\ req'[h].rows \in One(IF p \in ReadsFirst THEN Live(n) ELSE {})
<1>1. PICK found \in One(IF p \in ReadsFirst THEN Live(n) ELSE {}) :
         req' = [req EXCEPT ![h] = [NoRequest EXCEPT
                   !.pc = "put", !.op = p, !.name = n, !.key = k, !.rows = found]]
  BY DEF BeginWrite
<1> DEFINE r == [NoRequest EXCEPT !.pc = "put", !.op = p, !.name = n, !.key = k, !.rows = found]
<1>2. /\ r.pc = "put" /\ r.op = p /\ r.name = n /\ r.key = k /\ r.rows = found /\ r.vers = {}
      /\ r.thumb = Null
  BY DEF NoRequest
<1>3. req' = [req EXCEPT ![h] = r]
  BY <1>1
<1> HIDE DEF r
<1> QED BY <1>2, <1>3, BeginFields

(* A request that begins from rows it has read.                            *)
LEMMA BeginRowsFields ==
  ASSUME TypeInv, NEW h \in Handler, NEW pc, NEW op, NEW rows,
         req' = [req EXCEPT ![h] = [NoRequest EXCEPT !.pc = pc, !.op = op, !.rows = rows]]
  PROVE  /\ OthersSame(h) /\ req'[h].pc = pc /\ req'[h].op = op /\ req'[h].rows = rows
         /\ req'[h].vers = {}
<1> DEFINE r == [NoRequest EXCEPT !.pc = pc, !.op = op, !.rows = rows]
<1>1. r.pc = pc /\ r.op = op /\ r.rows = rows /\ r.vers = {}
  BY DEF NoRequest
<1>2. req' = [req EXCEPT ![h] = r]
  OBVIOUS
<1> HIDE DEF r
<1> QED BY <1>1, <1>2, BeginFields

LEMMA BeginMoveFields ==
  ASSUME TypeInv, NEW h \in Handler, NEW f, NEW n, BeginMove(h, f, n)
  PROVE  /\ OthersSame(h) /\ req'[h].op = "move" /\ req'[h].vers = {}
         /\ req'[h].rows \in One(Live(n)) /\ req'[h].key = f.id /\ req'[h].name = n
         /\ req'[h].pc = IF req'[h].rows = {} THEN "move row" ELSE "purge rows"
<1>1. PICK found \in One(Live(n)) :
         req' = [req EXCEPT ![h] = [NoRequest EXCEPT
                   !.pc = IF found = {} THEN "move row" ELSE "purge rows",
                   !.op = "move", !.name = n, !.key = f.id, !.rows = found]]
  BY DEF BeginMove
<1> DEFINE next == IF found = {} THEN "move row" ELSE "purge rows"
           r == [NoRequest EXCEPT !.pc = next, !.op = "move", !.name = n, !.key = f.id,
                                  !.rows = found]
<1>2. /\ r.pc = next /\ r.op = "move" /\ r.rows = found /\ r.vers = {} /\ r.key = f.id
      /\ r.name = n
  BY DEF NoRequest
<1>3. req' = [req EXCEPT ![h] = r]
  BY <1>1
<1> HIDE DEF r
<1> QED BY <1>2, <1>3, BeginFields

LEMMA BeginScanFields ==
  ASSUME TypeInv, NEW h \in Handler, NEW v, BeginScan(h, v)
  PROVE  /\ OthersSame(h) /\ req'[h].pc = "scan bytes" /\ req'[h].op = "scan"
         /\ req'[h].rows = {} /\ req'[h].vers = {v}
<1> DEFINE r == [NoRequest EXCEPT !.pc = "scan bytes", !.op = "scan", !.vers = {v}]
<1>1. r.pc = "scan bytes" /\ r.op = "scan" /\ r.rows = {} /\ r.vers = {v}
  BY DEF NoRequest
<1>2. req' = [req EXCEPT ![h] = r]
  BY DEF BeginScan
<1> HIDE DEF r
<1> QED BY <1>1, <1>2, BeginFields

LEMMA PutBytesFields ==
  ASSUME TypeInv, NEW h \in Handler, PutBytes(h)
  PROVE  /\ OthersSame(h) /\ req'[h].pc = AfterPut(req[h]) /\ req'[h].op = req[h].op
         /\ req'[h].name = req[h].name /\ req'[h].key = req[h].key
         /\ req'[h].rows = req[h].rows /\ req'[h].vers = req[h].vers
         /\ req'[h].thumb \in {req[h].key, Null}
         /\ req'[h].thumb # Null => req[h].op \in MakesThumb
         /\ blobs' = blobs \cup {req[h].key} /\ thumbs' = thumbs \cup ({req'[h].thumb} \ {Null})
<1>1. req \in [Handler -> Request]
  BY DEF TypeInv, TypeOK
<1>2. PICK t \in ThumbFor(req[h].op, req[h].key) :
         /\ thumbs' = thumbs \cup ({t} \ {Null})
         /\ req' = [req EXCEPT ![h].thumb = t, ![h].pc = AfterPut(req[h])]
  BY DEF PutBytes
<1> DEFINE r == [req[h] EXCEPT !.thumb = t, !.pc = AfterPut(req[h])]
<1>3. /\ r.pc = AfterPut(req[h]) /\ r.op = req[h].op /\ r.name = req[h].name
      /\ r.key = req[h].key /\ r.rows = req[h].rows /\ r.vers = req[h].vers /\ r.thumb = t
  BY <1>1 DEF Request
<1>4. req' = [req EXCEPT ![h] = r]
  BY <1>1, <1>2
<1> HIDE DEF r
<1>5. t \in {req[h].key, Null} /\ (t # Null => req[h].op \in MakesThumb)
  BY DEF ThumbFor
<1> QED BY <1>1, <1>2, <1>3, <1>4, <1>5 DEF OthersSame, Same, PutBytes

LEMMA ReadExistingFields ==
  ASSUME TypeInv, NEW h \in Handler, ReadExisting(h)
  PROVE  \/ Finish(h)
         \/ /\ OthersSame(h) /\ req'[h].op = req[h].op /\ req'[h].name = req[h].name
            /\ req'[h].key = req[h].key /\ req'[h].thumb = req[h].thumb
            /\ req'[h].rows \in One(Existing(req[h])) /\ req'[h].vers = req[h].vers
            /\ req'[h].pc = IF req'[h].rows = {} THEN "insert" ELSE "archive"
<1>1. req \in [Handler -> Request]
  BY DEF TypeInv, TypeOK
<1>2. PICK found \in One(Existing(req[h])) :
         \/ Finish(h)
         \/ req' = [req EXCEPT ![h].rows = found,
                     ![h].pc = IF found = {} THEN "insert" ELSE "archive"]
  BY DEF ReadExisting
<1>3. CASE req' = [req EXCEPT ![h].rows = found,
                     ![h].pc = IF found = {} THEN "insert" ELSE "archive"]
  <2> DEFINE next == IF found = {} THEN "insert" ELSE "archive"
             r == [req[h] EXCEPT !.rows = found, !.pc = next]
  <2>1. /\ r.pc = next /\ r.op = req[h].op /\ r.name = req[h].name /\ r.key = req[h].key
        /\ r.thumb = req[h].thumb /\ r.rows = found /\ r.vers = req[h].vers
    <3> HIDE DEF next
    <3> QED BY <1>1 DEF Request
  <2>2. req' = [req EXCEPT ![h] = r]
    BY <1>1, <1>3
  <2> HIDE DEF r
  <2> QED BY <1>1, <2>1, <2>2 DEF OthersSame, Same
<1> QED BY <1>2, <1>3

(* What a restore, a listing and a scan read.                              *)
LEMMA ReadVersionsFields ==
  ASSUME TypeInv, NEW h \in Handler, NEW vers, NEW pc,
         req' = [req EXCEPT ![h].vers = vers, ![h].pc = pc]
  PROVE  /\ OthersSame(h) /\ req'[h].pc = pc /\ req'[h].op = req[h].op
         /\ req'[h].name = req[h].name /\ req'[h].key = req[h].key
         /\ req'[h].thumb = req[h].thumb /\ req'[h].rows = req[h].rows /\ req'[h].vers = vers
<1> DEFINE r == [req[h] EXCEPT !.vers = vers, !.pc = pc]
<1>1. req \in [Handler -> Request]
  BY DEF TypeInv, TypeOK
<1>2. /\ r.pc = pc /\ r.op = req[h].op /\ r.name = req[h].name /\ r.key = req[h].key
      /\ r.thumb = req[h].thumb /\ r.rows = req[h].rows /\ r.vers = vers
  BY <1>1 DEF Request
<1>3. req' = [req EXCEPT ![h] = r]
  BY <1>1
<1> HIDE DEF r
<1> QED BY <1>1, <1>2, <1>3 DEF OthersSame, Same

LEMMA RegenerateFields ==
  ASSUME TypeInv, NEW h \in Handler, RegenerateThumb(h)
  PROVE  \/ Finish(h) /\ thumbs' = thumbs
         \/ /\ OthersSame(h) /\ req'[h].pc = "archive" /\ req'[h].op = req[h].op
            /\ req'[h].name = req[h].name /\ req'[h].key = req[h].key
            /\ req'[h].rows = req[h].rows /\ req'[h].vers = req[h].vers
            /\ \/ thumbs' = thumbs /\ req'[h].thumb = req[h].thumb
               \/ \E v \in req[h].vers :
                    /\ req'[h].thumb \in {v.key, Null}
                    /\ thumbs' = thumbs \cup ({req'[h].thumb} \ {Null})
<1>1. req \in [Handler -> Request]
  BY DEF TypeInv, TypeOK
<1>2. CASE Goto(h, "archive") /\ thumbs' = thumbs
  BY <1>2, GotoFields
<1>3. ASSUME NEW v \in req[h].vers, NEW t \in {v.key, Null},
             thumbs' = thumbs \cup ({t} \ {Null}),
             req' = [req EXCEPT ![h].thumb = t, ![h].pc = "archive"]
      PROVE  /\ OthersSame(h) /\ req'[h].pc = "archive" /\ req'[h].op = req[h].op
             /\ req'[h].name = req[h].name /\ req'[h].key = req[h].key
             /\ req'[h].rows = req[h].rows /\ req'[h].vers = req[h].vers
             /\ req'[h].thumb = t
  <2> DEFINE r == [req[h] EXCEPT !.thumb = t, !.pc = "archive"]
  <2>1. /\ r.pc = "archive" /\ r.op = req[h].op /\ r.name = req[h].name /\ r.key = req[h].key
        /\ r.rows = req[h].rows /\ r.vers = req[h].vers /\ r.thumb = t
    BY <1>1 DEF Request
  <2>2. req' = [req EXCEPT ![h] = r]
    BY <1>1, <1>3
  <2> HIDE DEF r
  <2> QED BY <1>1, <2>1, <2>2 DEF OthersSame, Same
<1>4. \/ Finish(h) /\ thumbs' = thumbs
      \/ Goto(h, "archive") /\ thumbs' = thumbs
      \/ \E v \in req[h].vers : \E t \in {v.key, Null} :
           /\ thumbs' = thumbs \cup ({t} \ {Null})
           /\ req' = [req EXCEPT ![h].thumb = t, ![h].pc = "archive"]
  BY DEF RegenerateThumb
<1> QED BY <1>2, <1>3, <1>4

LEMMA ScanBytesFields ==
  ASSUME TypeInv, NEW h \in Handler, ScanBytes(h)
  PROVE  /\ OthersSame(h) /\ req'[h].pc = "verdict on file" /\ req'[h].op = req[h].op
         /\ req'[h].key = req[h].key /\ req'[h].name = req[h].name
         /\ req'[h].thumb = req[h].thumb
         /\ req'[h].rows = req[h].rows /\ req'[h].vers = req[h].vers
<1>1. req \in [Handler -> Request]
  BY DEF TypeInv, TypeOK
<1>2. PICK s : req' = [req EXCEPT ![h].verdict = s, ![h].pc = "verdict on file"]
  BY DEF ScanBytes
<1> DEFINE r == [req[h] EXCEPT !.verdict = s, !.pc = "verdict on file"]
<1>3. /\ r.pc = "verdict on file" /\ r.op = req[h].op /\ r.key = req[h].key
      /\ r.name = req[h].name /\ r.thumb = req[h].thumb
      /\ r.rows = req[h].rows /\ r.vers = req[h].vers
  BY <1>1 DEF Request
<1>4. req' = [req EXCEPT ![h] = r]
  BY <1>1, <1>2
<1> HIDE DEF r
<1> QED BY <1>1, <1>3, <1>4 DEF OthersSame, Same

---------------------------------------------------------------------------
(* Storage keys and ids, while no write is undone and no archived version  *)
(* is restored or deleted                                                  *)

Quiet == ~Capped /\ Ops \cap HistoryOp = {}

(* The points only an undo or a version handler gets to.                   *)
LoudPoint == {"undo version", "undo row", "find version", "regenerate", "promote",
              "drop target", "drop thumb", "delete version row", "drop version blob"}

(* The object k was, as far as a row, an archived version or what a        *)
(* request has read of them tells, written for the file i.                 *)
Known(k, i) ==
  \/ \E f \in files : k \in {f.key, f.thumb} /\ f.id = i
  \/ \E v \in versions : v.key = k /\ v.file = i
  \/ \E h \in Handler : \/ \E f \in req[h].rows : k \in {f.key, f.thumb} /\ f.id = i
                        \/ \E v \in req[h].vers : v.key = k /\ v.file = i

(* A write whose key is in no table yet.                                   *)
Fresh(h) == /\ req[h].op \in WritePath
            /\ req[h].pc \in {"put", "read", "archive", "update", "insert", "undo blob"}

(* The points of a write that may replace a row.                           *)
ReplacingPoint == {"read", "archive", "update", "drop early", "drop late"}

(* A write is about one row, and none when it inserts; only a write that   *)
(* replaces the thumbnail drops the old one.                               *)
Shaped(r) ==
  /\ r.pc \notin LoudPoint /\ r.op \notin HistoryOp
  /\ r.op \in WritePath => \A f, g \in r.rows : f = g
  /\ r.pc = "insert" \/ (r.pc = "put" /\ r.op \in OnlyInserts) => r.rows = {}
  /\ r.pc \in {"drop early", "drop late"} => r.op \notin KeepsThumb
  /\ r.pc \in ReplacingPoint => r.op \notin OnlyInserts

OneRowPerId == \A f, g \in files : f.id = g.id => f = g
OneFilePerKey == \A k, i, j \in Key : Known(k, i) /\ Known(k, j) => i = j
KnownMinted == \A k, i \in Key : Known(k, i) => k \in minted /\ i \in minted
FreshUnknown == \A h \in Handler : Fresh(h) =>
  /\ req[h].key \in minted /\ req[h].thumb \in {req[h].key, Null}
  /\ \A k \in Key : ~Known(req[h].key, k) /\ ~Known(k, req[h].key)
  /\ \A g \in Handler : Fresh(g) /\ req[g].key = req[h].key => g = h

KeyInv ==
  /\ TypeInv /\ OneRowPerId /\ OneFilePerKey /\ KnownMinted /\ FreshUnknown
  /\ \A h \in Handler : Shaped(req[h])

LEMMA KnownTypes ==
  ASSUME TypeInv
  PROVE  /\ \A f \in files : f.key \in Key /\ f.id \in Key /\ f.thumb \in Key \cup {Null}
         /\ \A v \in versions : v.key \in Key /\ v.file \in Key
         /\ \A h \in Handler :
              /\ \A f \in req[h].rows : f.key \in Key /\ f.id \in Key /\ f.thumb \in Key \cup {Null}
              /\ \A v \in req[h].vers : v.key \in Key /\ v.file \in Key
<1>1. /\ files \subseteq FileRow /\ versions \subseteq VersionRow
      /\ \A h \in Handler : req[h].rows \subseteq FileRow /\ req[h].vers \subseteq VersionRow
  BY DEF TypeInv, TypeOK, Request
<1> QED BY <1>1 DEF FileRow, VersionRow

(* The requests hold nothing but what they had or the tables have, and no  *)
(* write begins.                                                           *)
Carried == \A g \in Handler :
  /\ \A f \in req'[g].rows : f \in files \/ f \in req[g].rows
  /\ \A v \in req'[g].vers :
       v \in versions \/ v \in req[g].vers \/ \E f \in files : v = Archived(f)
  /\ Fresh(g)' => Fresh(g) /\ req'[g].key = req[g].key /\ req'[g].thumb \in {req[g].key, Null}
  /\ Shaped(req'[g])

(* What a request learns of keys it learns from the tables.                *)
LEMMA KnownCarried ==
  ASSUME NEW k, NEW i, NEW h \in Handler, Carried,
         \/ \E f \in req'[h].rows : k \in {f.key, f.thumb} /\ f.id = i
         \/ \E v \in req'[h].vers : v.key = k /\ v.file = i
  PROVE  Known(k, i)
<1>1. ASSUME NEW f \in req'[h].rows, k \in {f.key, f.thumb}, f.id = i
      PROVE  Known(k, i)
  BY <1>1 DEF Carried, Known
<1>2. ASSUME NEW v \in req'[h].vers, v.key = k, v.file = i
      PROVE  Known(k, i)
  <2>1. CASE v \in versions \/ v \in req[h].vers
    BY <1>2, <2>1 DEF Known
  <2>2. CASE \E f \in files : v = Archived(f)
    BY <1>2, <2>2 DEF Known, Archived
  <2> QED BY <2>1, <2>2 DEF Carried
<1> QED BY <1>1, <1>2

(* A step that begins no write and puts no fresh key in a table makes      *)
(* nothing known.                                                          *)
LEMMA KnownShrinks ==
  ASSUME Carried,
         \A f \in files' : /\ Known(f.key, f.id)
                           /\ f.thumb = Null \/ Known(f.thumb, f.id),
         \A v \in versions' : Known(v.key, v.file)
  PROVE  \A k \in Key : \A i : Known(k, i)' => Known(k, i)
<1> SUFFICES ASSUME NEW k \in Key, NEW i, Known(k, i)' PROVE Known(k, i)
  OBVIOUS
<1>1. CASE \E f \in files' : k \in {f.key, f.thumb} /\ f.id = i
  BY <1>1, NullAssumption
<1>2. CASE \E v \in versions' : v.key = k /\ v.file = i
  BY <1>2
<1>3. CASE \E h \in Handler : \/ \E f \in req'[h].rows : k \in {f.key, f.thumb} /\ f.id = i
                              \/ \E v \in req'[h].vers : v.key = k /\ v.file = i
  BY <1>3, KnownCarried
<1> QED BY <1>1, <1>2, <1>3 DEF Known

(* What such a step has to show for the keys.                              *)
LEMMA KeysCarried ==
  ASSUME KeyInv, TypeInv', Carried, minted' = minted,
         \A f \in files' : /\ Known(f.key, f.id)
                           /\ f.thumb = Null \/ Known(f.thumb, f.id),
         \A v \in versions' : Known(v.key, v.file),
         OneRowPerId'
  PROVE  KeyInv'
<1>1. \A k \in Key : \A i : Known(k, i)' => Known(k, i)
  BY KnownShrinks
<1>2. OneFilePerKey' /\ KnownMinted'
  BY <1>1 DEF KeyInv, OneFilePerKey, KnownMinted
<1>3. FreshUnknown'
  <2>1. \A g \in Handler : Fresh(g)' =>
          Fresh(g) /\ req'[g].key = req[g].key /\ req'[g].thumb \in {req[g].key, Null}
    BY DEF Carried
  <2>2. \A h \in Handler : Fresh(h) => req[h].key \in Key
    BY DEF KeyInv, TypeInv, WriterKnown, Fresh, Targeted
  <2>3. ASSUME NEW h \in Handler, Fresh(h)', NEW k \in Key
        PROVE  ~Known(req[h].key, k)' /\ ~Known(k, req[h].key)'
    <3>1. Fresh(h) /\ req'[h].key = req[h].key
      BY <2>1, <2>3
    <3>2. ~Known(req[h].key, k) /\ ~Known(k, req[h].key)
      BY <3>1 DEF KeyInv, FreshUnknown
    <3>3. \A i : ~Known(req[h].key, i) => ~Known(req[h].key, i)'
      <4> SUFFICES ASSUME NEW i, ~Known(req[h].key, i), Known(req[h].key, i)' PROVE FALSE
        OBVIOUS
      <4> DEFINE c == req[h].key
      <4>1. c \in Key /\ req'[h].key = c
        BY <2>2, <3>1
      <4>2. Known(c, i)' => Known(c, i)
        BY <1>1, <4>1
      <4> QED BY <4>1, <4>2
    <3> QED BY <1>1, <2>2, <3>1, <3>2, <3>3
  <2> QED BY <2>1, <2>3 DEF KeyInv, FreshUnknown
<1>4. \A h \in Handler : Shaped(req'[h])
  BY DEF Carried
<1> QED BY <1>2, <1>3, <1>4 DEF KeyInv

(* The same when the tables lose rows, or rows change but for their keys.  *)
LEMMA KeysStay ==
  ASSUME KeyInv, TypeInv', Carried, minted' = minted,
         \A f \in files' : \E g \in files : f.id = g.id /\ f.key = g.key /\ f.thumb = g.thumb,
         \A v \in versions' : \E w \in versions : v.file = w.file /\ v.key = w.key,
         OneRowPerId'
  PROVE  KeyInv'
<1>1. \A f \in files' : /\ Known(f.key, f.id)
                        /\ f.thumb = Null \/ Known(f.thumb, f.id)
  BY DEF Known
<1>2. \A v \in versions' : Known(v.key, v.file)
  BY DEF Known
<1> QED BY <1>1, <1>2, KeysCarried

(* A handler that moves on, or ends, carries what it had.                  *)
LEMMA GotoCarried ==
  ASSUME KeyInv, NEW h \in Handler, NEW pc, Goto(h, pc),
         req[h].op \in WritePath /\ pc \in {"put", "read", "archive", "update", "insert", "undo blob"}
           => Fresh(h),
         pc \notin LoudPoint \cup {"put", "insert"},
         pc \in {"drop early", "drop late"} => req[h].op \notin KeepsThumb,
         pc \in ReplacingPoint => req[h].op \notin OnlyInserts
  PROVE  Carried
<1>1. TypeInv
  BY DEF KeyInv
<1>2. /\ OthersSame(h) /\ req'[h].pc = pc
      /\ req'[h].op = req[h].op /\ req'[h].key = req[h].key
      /\ req'[h].thumb = req[h].thumb /\ req'[h].rows = req[h].rows
      /\ req'[h].vers = req[h].vers
  BY <1>1, GotoFields
<1>3. Fresh(h) => req[h].thumb \in {req[h].key, Null}
  BY DEF KeyInv, FreshUnknown
<1>4. Shaped(req[h])
  BY DEF KeyInv
<1>5. Shaped(req'[h])
  BY <1>2, <1>4 DEF Shaped
<1> QED BY <1>2, <1>3, <1>5 DEF Carried, KeyInv, OthersSame, Same, Fresh, FreshUnknown

LEMMA FinishCarried ==
  ASSUME KeyInv, NEW h \in Handler, Finish(h)
  PROVE  Carried
<1>1. /\ OthersSame(h) /\ req'[h] = NoRequest
      /\ NoRequest.rows = {} /\ NoRequest.vers = {} /\ NoRequest.pc = "idle"
      /\ NoRequest.op = Null /\ NoRequest.op \notin Operation
  BY FinishFields DEF KeyInv
<1>2. Shaped(req'[h])
  BY <1>1 DEF Shaped, LoudPoint, HistoryOp, Operation, ReplacingPoint
<1> QED BY <1>1, <1>2 DEF Carried, KeyInv, OthersSame, Same, Fresh, FreshUnknown, Operation

(* A request that is none of a write's, begun from what the tables have.   *)
LEMMA BeginCarried ==
  ASSUME KeyInv, NEW h \in Handler, OthersSame(h), req'[h].op \notin WritePath \cup HistoryOp,
         req'[h].pc \notin LoudPoint \cup {"put", "insert", "drop early", "drop late"},
         \A f \in req'[h].rows : f \in files \/ f \in req[h].rows,
         \A v \in req'[h].vers :
           v \in versions \/ v \in req[h].vers \/ \E f \in files : v = Archived(f)
  PROVE  Carried
BY DEF Carried, KeyInv, OthersSame, Same, Fresh, FreshUnknown, Shaped, OnlyInserts, WritePath

LEMMA CarriedSame ==
  ASSUME KeyInv, req' = req
  PROVE  Carried
BY DEF Carried, KeyInv, Fresh, FreshUnknown

(* A row that takes the key of a write: the key is known for the row's id, *)
(* and nothing else changes.                                               *)
LEMMA KeysBorn ==
  ASSUME KeyInv, TypeInv', Carried, minted' = minted, versions' = versions,
         NEW h \in Handler, Fresh(h), ~Fresh(h)', NEW j \in Key,
         j = req[h].key \/ \E k \in Key : Known(k, j),
         \A f \in files' :
           \/ /\ Known(f.key, f.id)
              /\ f.thumb = Null \/ Known(f.thumb, f.id)
           \/ /\ f.id = j /\ f.key = req[h].key
              /\ f.thumb \in {Null, req[h].key} \/ Known(f.thumb, j),
         OneRowPerId'
  PROVE  /\ KeyInv'
         /\ \A k \in Key : \A i :
              Known(k, i)' => Known(k, i) \/ (k = req[h].key /\ i = j)
<1> DEFINE c == req[h].key
<1>1. \A k \in Key : \A i : Known(k, i)' => Known(k, i) \/ (k = c /\ i = j)
  <2> SUFFICES ASSUME NEW k \in Key, NEW i, Known(k, i)' PROVE Known(k, i) \/ (k = c /\ i = j)
    OBVIOUS
  <2>1. CASE \E f \in files' : k \in {f.key, f.thumb} /\ f.id = i
    BY <2>1, NullAssumption
  <2>2. CASE \E v \in versions' : v.key = k /\ v.file = i
    BY <2>2 DEF Known
  <2>3. CASE \E g \in Handler : \/ \E f \in req'[g].rows : k \in {f.key, f.thumb} /\ f.id = i
                                \/ \E v \in req'[g].vers : v.key = k /\ v.file = i
    BY <2>3, KnownCarried
  <2> QED BY <2>1, <2>2, <2>3 DEF Known
<1>2. /\ c \in Key /\ c \in minted
      /\ \A k \in Key : ~Known(c, k) /\ ~Known(k, c)
  BY DEF KeyInv, TypeInv, WriterKnown, Fresh, Targeted, FreshUnknown
<1>3. \/ j = c \/ \E k \in Key : Known(k, j)
  OBVIOUS
<1> HIDE DEF c
<1>4. OneFilePerKey'
  BY <1>1, <1>2 DEF KeyInv, OneFilePerKey
<1>5. KnownMinted'
  BY <1>1, <1>2, <1>3 DEF KeyInv, KnownMinted
<1>6. FreshUnknown'
  <2>1. \A g \in Handler : Fresh(g)' =>
          Fresh(g) /\ req'[g].key = req[g].key /\ req'[g].thumb \in {req[g].key, Null}
    BY DEF Carried
  <2>2. \A g \in Handler : Fresh(g) => req[g].key \in Key
    BY DEF KeyInv, TypeInv, WriterKnown, Fresh, Targeted
  <2>3. ASSUME NEW g \in Handler, Fresh(g)', NEW k \in Key
        PROVE  ~Known(req[g].key, k)' /\ ~Known(k, req[g].key)'
    <3>1. Fresh(g) /\ req'[g].key = req[g].key /\ g # h
      BY <2>1, <2>3
    <3>0. PICK d \in Key : d = req[g].key
      BY <2>2, <3>1
    <3>2. /\ d # c /\ req'[g].key = d
          /\ \A i \in Key : ~Known(d, i) /\ ~Known(i, d)
      BY <3>0, <3>1 DEF KeyInv, FreshUnknown, c
    <3>3. d # j
      BY <1>3, <3>2
    <3>4. ~Known(d, k)' /\ ~Known(k, d)'
      BY <1>1, <3>2, <3>3
    <3> QED BY <3>0, <3>2, <3>4
  <2> QED BY <2>1, <2>3 DEF KeyInv, FreshUnknown
<1>7. \A g \in Handler : Shaped(req'[g])
  BY DEF Carried
<1>8. \A k \in Key : \A i : Known(k, i)' => Known(k, i) \/ (k = req[h].key /\ i = j)
  BY <1>1 DEF c
<1> QED BY <1>4, <1>5, <1>6, <1>7, <1>8 DEF KeyInv

(* A new write takes a key that nothing names.                             *)
LEMMA BeginWriteKeys ==
  ASSUME KeyInv, TypeInv', NEW h \in Handler, NEW p \in WritePath, NEW n \in Name, NEW k \in Key,
         BeginWrite(h, p, n, k)
  PROVE  KeyInv' /\ \A i, j : Known(i, j)' => Known(i, j)
<1>1. /\ OthersSame(h) /\ req'[h].pc = "put" /\ req'[h].op = p /\ req'[h].key = k
      /\ req'[h].vers = {} /\ req'[h].thumb = Null
      /\ req'[h].rows \in One(IF p \in ReadsFirst THEN Live(n) ELSE {})
  BY BeginWriteFields DEF KeyInv
<1>2. /\ k \notin minted /\ minted' = minted \cup {k} /\ files' = files /\ versions' = versions
      /\ ~Fresh(h)
  BY DEF BeginWrite, At, Fresh
<1>3. /\ \A f \in req'[h].rows : f \in files
      /\ \A f, g \in req'[h].rows : f = g
      /\ p \in OnlyInserts => req'[h].rows = {}
  BY <1>1 DEF One, Live, ReadsFirst, OnlyInserts
<1>4. \A i, j : Known(i, j)' => Known(i, j)
  <2> SUFFICES ASSUME NEW i, NEW j, Known(i, j)' PROVE Known(i, j)
    OBVIOUS
  <2>1. CASE \/ \E f \in files' : i \in {f.key, f.thumb} /\ f.id = j
             \/ \E v \in versions' : v.key = i /\ v.file = j
    BY <1>2, <2>1 DEF Known
  <2>2. ASSUME NEW g \in Handler,
               \/ \E f \in req'[g].rows : i \in {f.key, f.thumb} /\ f.id = j
               \/ \E v \in req'[g].vers : v.key = i /\ v.file = j
        PROVE  Known(i, j)
    <3>1. CASE g = h
      BY <1>1, <1>3, <2>2, <3>1 DEF Known
    <3>2. CASE g # h
      BY <1>1, <2>2, <3>2 DEF Known, OthersSame, Same
    <3> QED BY <3>1, <3>2
  <2> QED BY <2>1, <2>2 DEF Known
<1>5. OneFilePerKey' /\ KnownMinted' /\ OneRowPerId'
  BY <1>2, <1>4 DEF KeyInv, OneFilePerKey, KnownMinted, OneRowPerId
<1>6. FreshUnknown'
  <2>1. ASSUME NEW g \in Handler, Fresh(g)', NEW i \in Key
        PROVE  ~Known(req[g].key, i)' /\ ~Known(i, req[g].key)'
    <3>1. CASE g = h
      <4>1. ~Known(k, i)' /\ ~Known(i, k)'
        BY <1>2, <1>4 DEF KeyInv, KnownMinted
      <4> QED BY <1>1, <3>1, <4>1
    <3>2. CASE g # h
      <4>1. PICK d \in Key : d = req[g].key /\ d = req'[g].key /\ Fresh(g)
        BY <1>1, <2>1, <3>2 DEF KeyInv, TypeInv, WriterKnown, Fresh, Targeted, OthersSame, Same
      <4>2. ~Known(d, i) /\ ~Known(i, d)
        BY <4>1 DEF KeyInv, FreshUnknown
      <4>3. ~Known(d, i)' /\ ~Known(i, d)'
        BY <1>4, <4>2
      <4> QED BY <4>1, <4>3
    <3> QED BY <3>1, <3>2
  <2>2. ASSUME NEW g \in Handler, Fresh(g)', g # h
        PROVE  /\ req'[g].key = req[g].key /\ req'[g].key \in minted
               /\ req'[g].thumb \in {req'[g].key, Null} /\ Fresh(g)
    BY <1>1, <2>2 DEF KeyInv, FreshUnknown, OthersSame, Same, Fresh
  <2>3. ASSUME NEW g \in Handler, Fresh(g)', NEW e \in Handler, Fresh(e)', req'[e].key = req'[g].key
        PROVE  e = g
    BY <1>1, <1>2, <2>2, <2>3 DEF KeyInv, FreshUnknown
  <2> QED BY <1>1, <1>2, <2>1, <2>2, <2>3 DEF FreshUnknown
<1>7. \A g \in Handler : Shaped(req'[g])
  <2>1. Shaped(req'[h])
    <3>1. p \notin HistoryOp
      BY DEF HistoryOp, WritePath
    <3> QED BY <1>1, <1>3, <3>1 DEF Shaped, LoudPoint, ReplacingPoint
  <2> QED BY <1>1, <2>1 DEF KeyInv, OthersSame, Same
<1> QED BY <1>4, <1>5, <1>6, <1>7 DEF KeyInv

(* Once the key is drawn, a write learns nothing of keys but what the      *)
(* tables say, until it stores its own.                                    *)
LEMMA WriterMovesKeys ==
  ASSUME KeyInv, TypeInv', NEW h \in Handler,
         PutBytes(h) \/ ReadExisting(h) \/ ArchiveForWrite(h) \/ DropOldThumb(h) \/ Accept(h)
           \/ UndoBlob(h)
  PROVE  Carried /\ KeyInv'
<1>t. TypeInv
  BY DEF KeyInv
<1>1. CASE PutBytes(h)
  <2>1. /\ OthersSame(h) /\ req'[h].pc = AfterPut(req[h]) /\ req'[h].op = req[h].op
        /\ req'[h].key = req[h].key /\ req'[h].rows = req[h].rows
        /\ req'[h].vers = req[h].vers /\ req'[h].thumb \in {req[h].key, Null}
    BY <1>1, <1>t, PutBytesFields
  <2>2. Fresh(h)
    BY <1>1 DEF PutBytes, At, KeyInv, TypeInv, WriterKnown, WriterPoint, Fresh
  <2>3. Shaped(req'[h])
    <3>1. req[h].pc = "put" /\ Shaped(req[h]) /\ req[h].op \in WritePath
      BY <1>1, <2>2 DEF PutBytes, At, KeyInv, Fresh
    <3>2. req'[h].pc \in {"archive", "read"} \/ (req'[h].pc = "insert" /\ req[h].rows = {})
      BY <2>1, <3>1 DEF AfterPut, Shaped
    <3>3. req[h].op \in OnlyInserts => req'[h].pc = "insert"
      BY <2>1, <3>1 DEF AfterPut, OnlyInserts
    <3> QED BY <2>1, <3>1, <3>2, <3>3 DEF Shaped, LoudPoint, ReplacingPoint
  <2>4. Carried
    BY <2>1, <2>2, <2>3 DEF Carried, KeyInv, OthersSame, Same, Fresh, FreshUnknown
  <2> QED BY <1>1, <2>4, KeysStay DEF PutBytes, KeyInv, OneRowPerId
<1>2. CASE ReadExisting(h)
  <2>1. Existing(req[h]) \subseteq files
    BY DEF Existing, ById, Live
  <2>2. Fresh(h) /\ req[h].pc = "read" /\ req[h].op \in WritePath
    BY <1>2 DEF ReadExisting, At, KeyInv, TypeInv, WriterKnown, WriterPoint, Fresh
  <2>3. CASE Finish(h)
    BY <1>2, <2>3, FinishCarried, KeysStay DEF ReadExisting, KeyInv, OneRowPerId
  <2>4. CASE ~Finish(h)
    <3>1. /\ OthersSame(h) /\ req'[h].op = req[h].op
          /\ req'[h].key = req[h].key /\ req'[h].thumb = req[h].thumb
          /\ req'[h].rows \in One(Existing(req[h])) /\ req'[h].vers = req[h].vers
          /\ req'[h].pc = IF req'[h].rows = {} THEN "insert" ELSE "archive"
      BY <1>2, <1>t, <2>4, ReadExistingFields
    <3>2. (\A f \in req'[h].rows : f \in files) /\ \A f, g \in req'[h].rows : f = g
      BY <2>1, <3>1 DEF One
    <3>3. Shaped(req'[h])
      <4>1. Shaped(req[h])
        BY DEF KeyInv
      <4> QED BY <2>2, <3>1, <3>2, <4>1 DEF Shaped, LoudPoint, ReplacingPoint
    <3>4. Carried
      BY <2>2, <3>1, <3>2, <3>3 DEF Carried, KeyInv, OthersSame, Same, Fresh, FreshUnknown
    <3> QED BY <1>2, <3>4, KeysStay DEF ReadExisting, KeyInv, OneRowPerId
  <2> QED BY <2>3, <2>4
<1>3. CASE ArchiveForWrite(h)
  <2>1. PICK f \in req[h].rows :
          \/ versions' = versions \cup {Archived(f)} /\ Goto(h, "update")
          \/ versions' = versions /\ Finish(h)
    BY <1>3 DEF ArchiveForWrite, ArchiveCurrent
  <2>2. req[h].op \in WritePath /\ req[h].pc = "archive" /\ files' = files /\ minted' = minted
    BY <1>3 DEF ArchiveForWrite, ArchiveCurrent, At
  <2>3. Carried
    <3>1. CASE Finish(h)
      BY <3>1, FinishCarried
    <3>2. CASE Goto(h, "update")
      <4>1. req[h].op \notin OnlyInserts
        BY <2>2 DEF KeyInv, Shaped, ReplacingPoint
      <4> QED BY <2>2, <3>2, <4>1, GotoCarried DEF Fresh, LoudPoint
    <3> QED BY <2>1, <3>1, <3>2
  <2>4. \A v \in versions' : Known(v.key, v.file)
    <3>1. Known(Archived(f).key, Archived(f).file)
      BY DEF Known, Archived
    <3>2. \A v \in versions : Known(v.key, v.file)
      BY DEF Known
    <3> QED BY <2>1, <3>1, <3>2
  <2>5. \A g \in files' : Known(g.key, g.id) /\ (g.thumb = Null \/ Known(g.thumb, g.id))
    BY <2>2 DEF Known
  <2> QED BY <2>2, <2>3, <2>4, <2>5, KeysCarried DEF KeyInv, OneRowPerId
<1>4. CASE DropOldThumb(h) \/ Accept(h) \/ UndoBlob(h)
  <2>1. Finish(h) \/ Goto(h, "check") \/ (Goto(h, "drop late") /\ req[h].op \in DropsLate)
    BY <1>4 DEF DropOldThumb, Accept, UndoBlob
  <2>2. files' = files /\ versions' = versions /\ minted' = minted
    BY <1>4 DEF DropOldThumb, Accept, UndoBlob
  <2>3. Carried
    <3>1. CASE Finish(h)
      BY <3>1, FinishCarried
    <3>2. CASE Goto(h, "check")
      BY <3>2, GotoCarried DEF LoudPoint, ReplacingPoint
    <3>3. CASE Goto(h, "drop late") /\ req[h].op \in DropsLate
      BY <3>3, GotoCarried DEF LoudPoint, DropsLate, KeepsThumb, OnlyInserts
    <3> QED BY <2>1, <3>1, <3>2, <3>3
  <2> QED BY <2>2, <2>3, KeysStay DEF KeyInv, OneRowPerId
<1> QED BY <1>1, <1>2, <1>3, <1>4

LEMMA OverwrittenFields ==
  ASSUME NEW g \in FileRow, NEW f \in FileRow, NEW r
  PROVE  /\ Overwritten(g, f, r).id = g.id /\ Overwritten(g, f, r).key = r.key
         /\ Overwritten(g, f, r).asset = g.asset
         /\ Overwritten(g, f, r).version = f.version + 1
         /\ Overwritten(g, f, r).thumb \in {g.thumb, r.thumb}
         /\ r.op \notin KeepsThumb => Overwritten(g, f, r).thumb = r.thumb
BY DEF Overwritten, FileRow

LEMMA UpdateRowKeys ==
  ASSUME KeyInv, TypeInv', NEW h \in Handler, UpdateRow(h)
  PROVE  /\ Carried /\ KeyInv'
         /\ \A k \in Key : \A i : Known(k, i)' => Known(k, i) \/ k = req[h].key
<1>1. PICK f \in req[h].rows :
         /\ files' = {IF g.id = f.id THEN Overwritten(g, f, req[h]) ELSE g : g \in files}
         /\ Goto(h, IF req[h].op \in DropsEarly /\ f.thumb # Null
                    THEN "drop early" ELSE "check")
  BY DEF UpdateRow
<1>2. /\ req[h].pc = "update" /\ req[h].op \in WritePath /\ Fresh(h)
      /\ versions' = versions /\ minted' = minted
  BY DEF UpdateRow, At, KeyInv, TypeInv, WriterKnown, WriterPoint, Fresh
<1>3. f \in FileRow /\ files \subseteq FileRow /\ f.id \in Key /\ f.key \in Key
  BY DEF KeyInv, TypeInv, TypeOK, Request, FileRow
<1>4. PICK pc \in {"check", "drop early"} :
        Goto(h, pc) /\ (pc = "drop early" => req[h].op \in DropsEarly)
  BY <1>1
<1>5. Carried
  BY <1>2, <1>4, GotoCarried DEF LoudPoint, DropsEarly, KeepsThumb, ReplacingPoint, OnlyInserts
<1>6. ~Fresh(h)'
  BY <1>4, GotoFields DEF KeyInv, Fresh
<1>7. Known(f.key, f.id)
  BY DEF Known
<1>8. \A e \in files' :
        \/ /\ Known(e.key, e.id)
           /\ e.thumb = Null \/ Known(e.thumb, e.id)
        \/ /\ e.id = f.id /\ e.key = req[h].key
           /\ e.thumb \in {Null, req[h].key} \/ Known(e.thumb, f.id)
  <2> SUFFICES ASSUME NEW g \in files, g.id = f.id,
                      NEW e, e = Overwritten(g, f, req[h])
               PROVE  /\ e.id = f.id /\ e.key = req[h].key
                      /\ e.thumb \in {Null, req[h].key} \/ Known(e.thumb, f.id)
    BY <1>1 DEF Known
  <2>1. /\ e.id = g.id /\ e.key = req[h].key
        /\ e.thumb = g.thumb \/ e.thumb = req[h].thumb
    <3>1. g \in FileRow
      BY <1>3
    <3>2. /\ Overwritten(g, f, req[h]).id = g.id /\ Overwritten(g, f, req[h]).key = req[h].key
          /\ Overwritten(g, f, req[h]).thumb \in {g.thumb, req[h].thumb}
      BY <1>3, <3>1, OverwrittenFields
    <3> QED BY <3>2
  <2>2. req[h].thumb \in {req[h].key, Null}
    BY <1>2 DEF KeyInv, FreshUnknown
  <2>3. Known(g.thumb, g.id)
    BY DEF Known
  <2> QED BY <2>1, <2>2, <2>3
<1>9. OneRowPerId'
  <2>1. \A e \in files' : \E g \in files :
          e.id = g.id /\ e = IF g.id = f.id THEN Overwritten(g, f, req[h]) ELSE g
    <3>1. \A g \in files : Overwritten(g, f, req[h]).id = g.id
      BY <1>3, OverwrittenFields
    <3> QED BY <1>1, <3>1
  <2>2. ASSUME NEW d \in files', NEW e \in files', d.id = e.id PROVE d = e
    <3>1. PICK i \in files : d.id = i.id /\ d = IF i.id = f.id THEN Overwritten(i, f, req[h]) ELSE i
      BY <2>1
    <3>2. PICK j \in files : e.id = j.id /\ e = IF j.id = f.id THEN Overwritten(j, f, req[h]) ELSE j
      BY <2>1
    <3>3. i = j
      BY <2>2, <3>1, <3>2 DEF KeyInv, OneRowPerId
    <3> QED BY <3>1, <3>2, <3>3
  <2> QED BY <2>2 DEF OneRowPerId
<1> QED BY <1>2, <1>3, <1>5, <1>6, <1>7, <1>8, <1>9, KeysBorn

LEMMA InsertRowKeys ==
  ASSUME KeyInv, TypeInv', NEW h \in Handler, InsertRow(h)
  PROVE  /\ Carried /\ KeyInv'
         /\ \A k \in Key : \A i :
              Known(k, i)' => Known(k, i) \/ (k = req[h].key /\ i = k)
<1>1. /\ req[h].pc = "insert" /\ req[h].op \in WritePath /\ Fresh(h) /\ req[h].key \in Key
      /\ versions' = versions /\ minted' = minted
  BY DEF InsertRow, At, KeyInv, TypeInv, WriterKnown, WriterPoint, Fresh, Targeted
<1>2. CASE Goto(h, "undo blob") /\ files' = files
  <2>1. Carried
    BY <1>1, <1>2, GotoCarried DEF LoudPoint, ReplacingPoint
  <2>2. \A k \in Key : \A i : Known(k, i)' => Known(k, i)
    <3>1. \A f \in files' : Known(f.key, f.id) /\ (f.thumb = Null \/ Known(f.thumb, f.id))
      BY <1>2 DEF Known
    <3>2. \A v \in versions' : Known(v.key, v.file)
      BY <1>1 DEF Known
    <3> QED BY <2>1, <3>1, <3>2, KnownShrinks
  <2> QED BY <1>1, <1>2, <2>1, <2>2, KeysStay DEF KeyInv, OneRowPerId
<1>3. CASE ~(Goto(h, "undo blob") /\ files' = files)
  <2> DEFINE row == [id |-> req[h].key, name |-> req[h].name,
                     key |-> req[h].key, thumb |-> req[h].thumb,
                     version |-> 1, scan |-> FreshScan, trashed |-> FALSE,
                     asset |-> AssetOf(req[h])]
  <2>1. files' = files \cup {row} /\ Goto(h, "check")
    BY <1>3 DEF InsertRow
  <2>2. row.id = req[h].key /\ row.key = req[h].key /\ row.thumb = req[h].thumb
    OBVIOUS
  <2> HIDE DEF row
  <2>3. Carried
    BY <2>1, GotoCarried DEF LoudPoint, ReplacingPoint
  <2>4. ~Fresh(h)'
    <3>1. Goto(h, "check") /\ TypeInv
      BY <2>1 DEF KeyInv
    <3>2. req'[h].pc = "check"
      BY <3>1, GotoFields
    <3> QED BY <3>2 DEF Fresh
  <2>5. /\ req[h].thumb \in {req[h].key, Null}
        /\ \A k \in Key : ~Known(k, req[h].key)
    BY <1>1 DEF KeyInv, FreshUnknown
  <2>6. \A e \in files : e.id # req[h].key
    <3> SUFFICES ASSUME NEW e \in files, e.id = req[h].key PROVE FALSE
      OBVIOUS
    <3>1. Known(e.key, e.id) /\ e.key \in Key
      BY KnownTypes DEF Known, KeyInv
    <3> QED BY <2>5, <3>1
  <2>7. OneRowPerId'
    BY <2>1, <2>2, <2>6 DEF KeyInv, OneRowPerId
  <2>8. \A f \in files' :
          \/ /\ Known(f.key, f.id)
             /\ f.thumb = Null \/ Known(f.thumb, f.id)
          \/ /\ f.id = req[h].key /\ f.key = req[h].key
             /\ f.thumb \in {Null, req[h].key} \/ Known(f.thumb, req[h].key)
    BY <2>1, <2>2, <2>5 DEF Known
  <2> QED BY <1>1, <2>3, <2>4, <2>7, <2>8, KeysBorn
<1> QED BY <1>2, <1>3

(* Requests that take rows or versions out, and those that edit a row or   *)
(* a verdict, leave the keys where they are.                               *)
LEMMA PurgeKeys ==
  ASSUME KeyInv, TypeInv', NEW h \in Handler, Purge(Ops, h)
  PROVE  Carried /\ KeyInv'
<1>t. TypeInv
  BY DEF KeyInv
<1>1. ASSUME OthersSame(h), req'[h].op \notin WritePath \cup HistoryOp,
             req'[h].pc \in {"list versions", "purge rows", "move row", "purge versions"},
             req'[h].vers = {} \/ req'[h].vers \subseteq versions,
             req'[h].rows \subseteq files \/ req'[h].rows = req[h].rows,
             UNCHANGED <<files, versions, blobs, thumbs, minted>>
      PROVE  Carried /\ KeyInv'
  <2>1. Carried
    BY <1>1, BeginCarried DEF LoudPoint
  <2> QED BY <1>1, <2>1, KeysStay DEF KeyInv, OneRowPerId
<1>2. {"purge", "hard delete", "move"} \cap (WritePath \cup HistoryOp) = {}
  BY DEF WritePath, HistoryOp
<1>3. CASE BeginEmptyTrash(h)
  <2>1. /\ OthersSame(h) /\ req'[h].pc = "list versions" /\ req'[h].op = "purge"
        /\ req'[h].rows = Trashed /\ req'[h].vers = {}
    BY <1>t, <1>3, BeginRowsFields DEF BeginEmptyTrash
  <2> QED BY <1>1, <1>2, <1>3, <2>1 DEF BeginEmptyTrash, Trashed
<1>4. CASE \E f \in files : BeginPurge(h, f)
  <2>1. PICK f \in files : BeginPurge(h, f)
    BY <1>4
  <2>2. /\ OthersSame(h) /\ req'[h].pc = "list versions" /\ req'[h].op = "purge"
        /\ req'[h].rows = {f} /\ req'[h].vers = {}
    <3>1. PICK rows \in SUBSET files : rows = {f}
      OBVIOUS
    <3>2. req' = [req EXCEPT ![h] = [NoRequest EXCEPT !.pc = "list versions", !.op = "purge", !.rows = rows]]
      BY <2>1, <3>1 DEF BeginPurge
    <3>3. /\ OthersSame(h) /\ req'[h].pc = "list versions" /\ req'[h].op = "purge"
          /\ req'[h].rows = rows /\ req'[h].vers = {}
      BY <1>t, <3>2, BeginRowsFields
    <3> QED BY <3>1, <3>3
  <2> QED BY <1>1, <1>2, <2>1, <2>2 DEF BeginPurge
<1>5. CASE \E f \in files : BeginHardDelete(h, f)
  <2>1. PICK f \in files : BeginHardDelete(h, f)
    BY <1>5
  <2>2. /\ OthersSame(h) /\ req'[h].pc = "purge rows" /\ req'[h].op = "hard delete"
        /\ req'[h].rows = {f} /\ req'[h].vers = {}
    <3>1. PICK rows \in SUBSET files : rows = {f}
      OBVIOUS
    <3>2. req' = [req EXCEPT ![h] = [NoRequest EXCEPT !.pc = "purge rows", !.op = "hard delete", !.rows = rows]]
      BY <2>1, <3>1 DEF BeginHardDelete
    <3>3. /\ OthersSame(h) /\ req'[h].pc = "purge rows" /\ req'[h].op = "hard delete"
          /\ req'[h].rows = rows /\ req'[h].vers = {}
      BY <1>t, <3>2, BeginRowsFields
    <3> QED BY <3>1, <3>3
  <2> QED BY <1>1, <1>2, <2>1, <2>2 DEF BeginHardDelete
<1>6. CASE \E f \in files, n \in Name : BeginMove(h, f, n)
  <2>1. PICK f \in files, n \in Name : BeginMove(h, f, n)
    BY <1>6
  <2>2. req'[h].rows \subseteq files
    BY <1>t, <2>1, BeginMoveFields, OneSubset DEF Live
  <2>3. /\ OthersSame(h) /\ req'[h].op = "move" /\ req'[h].vers = {}
        /\ req'[h].pc \in {"move row", "purge rows"}
    BY <1>t, <2>1, BeginMoveFields
  <2> QED BY <1>1, <1>2, <2>1, <2>2, <2>3 DEF BeginMove
<1>7. CASE ListVersions(h)
  <2> DEFINE vers == {v \in versions : v.file \in Ids(req[h].rows)}
  <2>1. /\ OthersSame(h) /\ req'[h].pc = "purge versions" /\ req'[h].op = req[h].op
        /\ req'[h].rows = req[h].rows /\ req'[h].vers = vers
    BY <1>t, <1>7, ReadVersionsFields DEF ListVersions
  <2>2. Carried
    <3>1. Shaped(req'[h])
      BY <1>7, <2>1 DEF KeyInv, Shaped, LoudPoint, ReplacingPoint
    <3> QED BY <2>1, <3>1 DEF Carried, KeyInv, OthersSame, Same, Fresh, FreshUnknown
  <2> QED BY <1>7, <2>2, KeysStay DEF ListVersions, KeyInv, OneRowPerId
<1>8. CASE PurgeVersions(h) \/ PurgeRows(h) \/ DropBlobs(h)
  <2>1. PICK pc \in {"purge rows", "purge blobs", "move row"} : Goto(h, pc) \/ Finish(h)
    BY <1>8 DEF PurgeVersions, PurgeRows, DropBlobs
  <2>2. Carried
    BY <2>1, GotoCarried, FinishCarried DEF LoudPoint, ReplacingPoint
  <2>3. files' \subseteq files /\ versions' \subseteq versions /\ minted' = minted
    BY <1>8 DEF PurgeVersions, PurgeRows, DropBlobs, DeleteFiles
  <2> QED BY <2>2, <2>3, KeysStay DEF KeyInv, OneRowPerId
<1>9. CASE MoveRow(h)
  <2>1. \A f \in files' : \E g \in files :
          /\ f.id = g.id /\ f.key = g.key /\ f.thumb = g.thumb
          /\ f = IF g.id = req[h].key THEN [g EXCEPT !.name = req[h].name] ELSE g
    BY <1>t, <1>9 DEF MoveRow, TypeInv, TypeOK, FileRow
  <2>2. OneRowPerId'
    BY <2>1 DEF KeyInv, OneRowPerId
  <2> QED BY <1>9, <2>1, <2>2, FinishCarried, KeysStay DEF MoveRow
<1> QED BY <1>3, <1>4, <1>5, <1>6, <1>7, <1>8, <1>9 DEF Purge

LEMMA ScanKeys ==
  ASSUME KeyInv, TypeInv', NEW h \in Handler, Scan(h)
  PROVE  Carried /\ KeyInv'
<1>t. TypeInv
  BY DEF KeyInv
<1>1. CASE \E v \in ScanCandidates : BeginScan(h, v)
  <2>1. PICK v \in ScanCandidates : BeginScan(h, v)
    BY <1>1
  <2>2. /\ OthersSame(h) /\ req'[h].pc = "scan bytes" /\ req'[h].op = "scan"
        /\ req'[h].rows = {} /\ req'[h].vers = {v}
    BY <1>t, <2>1, BeginScanFields
  <2>3. v \in versions \/ \E f \in files : v = Archived(f)
    BY DEF ScanCandidates
  <2>4. Carried
    BY <2>2, <2>3, BeginCarried DEF LoudPoint, WritePath, HistoryOp
  <2> QED BY <2>1, <2>4, KeysStay DEF BeginScan, KeyInv, OneRowPerId
<1>2. CASE ScanBytes(h)
  <2>1. /\ OthersSame(h) /\ req'[h].pc = "verdict on file" /\ req'[h].op = req[h].op
        /\ req'[h].rows = req[h].rows /\ req'[h].vers = req[h].vers
    BY <1>t, <1>2, ScanBytesFields
  <2>2. Shaped(req'[h])
    BY <2>1 DEF KeyInv, Shaped, LoudPoint, ReplacingPoint
  <2>3. Carried
    BY <2>1, <2>2 DEF Carried, KeyInv, OthersSame, Same, Fresh, FreshUnknown
  <2> QED BY <1>2, <2>3, KeysStay DEF ScanBytes, KeyInv, OneRowPerId
<1>3. CASE VerdictOnFile(h)
  <2>1. PICK v \in req[h].vers :
          files' = {IF MatchesFile(f, v) THEN [f EXCEPT !.scan = req[h].verdict] ELSE f : f \in files}
    BY <1>3 DEF VerdictOnFile
  <2>2. \A f \in files' : \E g \in files :
          /\ f.id = g.id /\ f.key = g.key /\ f.thumb = g.thumb
          /\ f = IF MatchesFile(g, v) THEN [g EXCEPT !.scan = req[h].verdict] ELSE g
    BY <1>t, <2>1 DEF TypeInv, TypeOK, FileRow
  <2>3. OneRowPerId'
    BY <2>2 DEF KeyInv, OneRowPerId
  <2>4. Carried
    BY <1>3, GotoCarried DEF VerdictOnFile, LoudPoint, ReplacingPoint
  <2> QED BY <1>3, <2>2, <2>3, <2>4, KeysStay DEF VerdictOnFile
<1>4. CASE VerdictOnVersion(h)
  <2>1. PICK v \in req[h].vers :
          versions' = {IF MatchesVersion(w, v) THEN [w EXCEPT !.scan = req[h].verdict] ELSE w : w \in versions}
    BY <1>4 DEF VerdictOnVersion
  <2>2. \A v1 \in versions' : \E w \in versions : v1.file = w.file /\ v1.key = w.key
    BY <1>t, <2>1 DEF TypeInv, TypeOK, VersionRow
  <2> QED BY <1>4, <2>2, FinishCarried, KeysStay DEF VerdictOnVersion, KeyInv, OneRowPerId
<1> QED BY <1>1, <1>2, <1>3, <1>4 DEF Scan

LEMMA EditKeys ==
  ASSUME KeyInv, TypeInv', EditRow
  PROVE  Carried /\ KeyInv'
<1>1. ASSUME NEW f \in files, NEW g, g.id = f.id, g.key = f.key, g.thumb = f.thumb,
             files' = (files \ {f}) \cup {g},
             UNCHANGED <<versions, blobs, thumbs, minted, req>>
      PROVE  Carried /\ KeyInv'
  <2>1. OneRowPerId'
    BY <1>1 DEF KeyInv, OneRowPerId
  <2> QED BY <1>1, <2>1, CarriedSame, KeysStay
<1>2. CASE \E f \in files, n \in Name : Rename(f, n)
  <2>1. PICK f \in files, n \in Name : Rename(f, n)
    BY <1>2
  <2>2. f \in FileRow
    BY DEF KeyInv, TypeInv, TypeOK
  <2>3. PICK g : g = [f EXCEPT !.name = n]
    OBVIOUS
  <2>4. g.id = f.id /\ g.key = f.key /\ g.thumb = f.thumb
    BY <2>2, <2>3 DEF FileRow
  <2>5. files' = (files \ {f}) \cup {g} /\ UNCHANGED <<versions, blobs, thumbs, minted, req>>
    BY <2>1, <2>3 DEF Rename
  <2> QED BY <1>1, <2>4, <2>5
<1>3. CASE \E f \in files, t \in BOOLEAN : SetTrashed(f, t)
  <2>1. PICK f \in files, t \in BOOLEAN : SetTrashed(f, t)
    BY <1>3
  <2>2. f \in FileRow
    BY DEF KeyInv, TypeInv, TypeOK
  <2>3. PICK g : g = [f EXCEPT !.trashed = t]
    OBVIOUS
  <2>4. g.id = f.id /\ g.key = f.key /\ g.thumb = f.thumb
    BY <2>2, <2>3 DEF FileRow
  <2>5. files' = (files \ {f}) \cup {g} /\ UNCHANGED <<versions, blobs, thumbs, minted, req>>
    BY <2>1, <2>3 DEF SetTrashed
  <2> QED BY <1>1, <2>4, <2>5
<1> QED BY <1>2, <1>3 DEF EditRow

(* With no undo and no version handler about, a step is one of these.      *)
LEMMA QuietSteps ==
  ASSUME Quiet, KeyInv, Next
  PROVE  \/ \E h \in Handler :
              \/ \E p \in WritePath, n \in Name, k \in Key : BeginWrite(h, p, n, k)
              \/ PutBytes(h) \/ ReadExisting(h) \/ ArchiveForWrite(h) \/ DropOldThumb(h)
              \/ Accept(h) \/ UndoBlob(h) \/ UpdateRow(h) \/ InsertRow(h)
              \/ Purge(Ops, h)
              \/ "scan" \in Ops /\ Scan(h)
              \/ Crashes /\ Interrupt(h)
              \/ Throws /\ FailPhoto(h)
         \/ EditRow
<1>1. \A h \in Handler : req[h].pc \notin LoudPoint /\ req[h].op \notin HistoryOp
  BY DEF KeyInv, Shaped
<1>2. ASSUME NEW h \in Handler, History(Ops, h) PROVE FALSE
  <2>1. req[h].op # "restore"
    BY <1>1 DEF HistoryOp
  <2>2. ~ArchiveForRestore(h)
    BY <2>1 DEF ArchiveForRestore
  <2>3. ~FindVersion(h) /\ ~RegenerateThumb(h) /\ ~PromoteVersion(h) /\ ~DropTarget(h)
    BY <1>1 DEF FindVersion, RegenerateThumb, PromoteVersion, DropTarget, At, LoudPoint
  <2>4. ~DropReplacedThumb(h) /\ ~DeleteVersionRow(h) /\ ~DropVersionBlob(h)
    BY <1>1 DEF DropReplacedThumb, DeleteVersionRow, DropVersionBlob, At, LoudPoint
  <2>5. Ops \cap HistoryOp = {}
    BY DEF Quiet
  <2> QED BY <1>2, <2>2, <2>3, <2>4, <2>5 DEF History
<1>3. ASSUME NEW h \in Handler, Write(h)
      PROVE  \/ \E p \in WritePath, n \in Name, k \in Key : BeginWrite(h, p, n, k)
             \/ PutBytes(h) \/ ReadExisting(h) \/ ArchiveForWrite(h) \/ DropOldThumb(h)
             \/ Accept(h) \/ UndoBlob(h) \/ UpdateRow(h) \/ InsertRow(h)
  <2>1. ~Reject(h)
    BY DEF Reject, Quiet
  <2>2. ~UndoVersion(h) /\ ~UndoInsert(h) /\ ~UndoUpdate(h)
    BY <1>1 DEF UndoVersion, UndoInsert, UndoUpdate, At, LoudPoint
  <2>3. Writes \subseteq WritePath
    BY FileWritesAssumption
  <2> QED BY <1>3, <2>1, <2>2, <2>3, WriteSteps
<1> QED BY <1>2, <1>3 DEF Next

LEMMA KeysStep ==
  ASSUME Quiet, KeyInv, Next
  PROVE  KeyInv'
<1>t. TypeInv'
  BY NextType DEF KeyInv
<1>1. ASSUME NEW h \in Handler,
             \E p \in WritePath, n \in Name, k \in Key : BeginWrite(h, p, n, k)
      PROVE  KeyInv'
  BY <1>t, <1>1, BeginWriteKeys
<1>2. ASSUME NEW h \in Handler,
             PutBytes(h) \/ ReadExisting(h) \/ ArchiveForWrite(h) \/ DropOldThumb(h)
               \/ Accept(h) \/ UndoBlob(h)
      PROVE  KeyInv'
  BY <1>t, <1>2, WriterMovesKeys
<1>3. ASSUME NEW h \in Handler, UpdateRow(h) \/ InsertRow(h) PROVE KeyInv'
  BY <1>t, <1>3, UpdateRowKeys, InsertRowKeys
<1>4. ASSUME NEW h \in Handler, Purge(Ops, h) \/ Scan(h) PROVE KeyInv'
  BY <1>t, <1>4, PurgeKeys, ScanKeys
<1>5. ASSUME NEW h \in Handler, Interrupt(h) \/ FailPhoto(h) PROVE KeyInv'
  BY <1>t, <1>5, FinishCarried, KeysStay DEF Interrupt, FailPhoto, KeyInv, OneRowPerId
<1>6. ASSUME EditRow PROVE KeyInv'
  BY <1>t, <1>6, EditKeys
<1> QED BY <1>1, <1>2, <1>3, <1>4, <1>5, <1>6, QuietSteps

LEMMA KeysStutter ==
  ASSUME KeyInv, UNCHANGED vars
  PROVE  KeyInv'
<1>1. TypeInv'
  BY DEF KeyInv, TypeInv, TypeOK, WriterKnown, vars
<1> QED BY <1>1, CarriedSame, KeysStay DEF vars, KeyInv, OneRowPerId

LEMMA InitKeys == Init => KeyInv
<1> SUFFICES ASSUME Init PROVE KeyInv
  OBVIOUS
<1>1. TypeInv
  BY NoRequestType DEF Init, TypeInv, TypeOK, WriterKnown
<1>2. /\ \A h \in Handler : req[h] = NoRequest
      /\ NoRequest.rows = {} /\ NoRequest.vers = {} /\ NoRequest.pc = "idle"
      /\ NoRequest.op = Null /\ Null \notin Operation
  BY NullAssumption DEF Init, NoRequest
<1>3. \A k, i : ~Known(k, i)
  BY <1>2 DEF Init, Known
<1>4. \A h \in Handler : ~Fresh(h) /\ Shaped(req[h])
  BY <1>2 DEF Fresh, Shaped, LoudPoint, HistoryOp, Operation, ReplacingPoint
<1> QED BY <1>1, <1>3, <1>4 DEF Init, KeyInv, OneRowPerId, OneFilePerKey, KnownMinted, FreshUnknown

---------------------------------------------------------------------------
(* Every row has its bytes *)

ReplacedPoint == {"drop early", "check", "drop late"}

(* The key of a photo whose row is in is known for that row alone, which   *)
(* is a photo's.                                                           *)
PhotoIn(h) ==
  /\ req[h].key \in minted /\ req[h].thumb \in {req[h].key, Null}
  /\ \A i \in Key : Known(req[h].key, i) => i = req[h].key
  /\ \A f \in files : f.id = req[h].key => f.asset # Null
  /\ \A g \in Handler : Fresh(g) => req[g].key # req[h].key

(* What a request relies on: the object of a write under way is in the     *)
(* store; a purge lists versions of its own files only, and they are gone  *)
(* when it turns to the objects; a thumbnail a write is about to drop is   *)
(* no row's any more.                                                      *)
Ready(h) ==
  /\ Fresh(h) /\ req[h].pc # "put" =>
       /\ req[h].key \in blobs
       /\ req[h].thumb # Null => req[h].thumb \in thumbs
  /\ req[h].pc \in {"purge versions", "purge rows", "purge blobs"} =>
       \A v \in req[h].vers : \E f \in req[h].rows : v.file = f.id
  /\ req[h].pc = "purge blobs" => \A f \in req[h].rows, e \in files : e.id # f.id
  /\ req[h].pc \in ReplacedPoint /\ req[h].op \notin KeepsThumb =>
       \A f \in req[h].rows, e \in files : f.thumb # Null => e.thumb # f.thumb
  /\ req[h].pc = "check" /\ req[h].op = "photo" => PhotoIn(h)

BytesInv ==
  /\ \A k, i \in Key : \A f \in files :
       Known(k, i) /\ f.id = i => k \in blobs \/ GivenUp(f, k)
  /\ \A f \in files : f.thumb \in thumbs \cup {Null} \/ GivenUp(f, f.thumb)
  /\ \A v \in versions : \E f \in files : f.id = v.file
  /\ \A h \in Handler : Ready(h)

(* Every row of files was one before, but for its name, verdict and state. *)
RowsKept == \A f \in files' : \E g \in files :
  f.id = g.id /\ f.key = g.key /\ f.thumb = g.thumb /\ f.asset = g.asset

(* What leaves the store nobody relies on, or its own upload has given up. *)
Spared ==
  /\ \A k \in Key : k \in blobs /\ k \notin blobs' =>
       /\ \A i \in Key : Known(k, i) =>
            \A f \in files' : f.id = i => GivenUp(f, k)
       /\ \A g \in Handler : Fresh(g)' => req'[g].key # k
  /\ \A k \in Key : k \in thumbs /\ k \notin thumbs' =>
       /\ \A f \in files' : f.thumb = k => GivenUp(f, k)
       /\ \A g \in Handler : Fresh(g)' => req'[g].thumb # k

(* Only a write that begins has a key that is new, and that was minted for *)
(* it.                                                                     *)
NewKeysOnly ==
  /\ minted \subseteq minted'
  /\ \A e \in Handler : Fresh(e)' =>
       (Fresh(e) /\ req'[e].key = req[e].key) \/ req'[e].key \notin minted

LEMMA CarriedKeys ==
  ASSUME Carried, minted' = minted
  PROVE  NewKeysOnly
BY DEF Carried, NewKeysOnly

(* A photo whose row is in keeps its key to itself.                        *)
LEMMA PhotoStays ==
  ASSUME KeyInv, NewKeysOnly, NEW g \in Handler, Same(g), PhotoIn(g), req[g].key \in Key,
         \A f \in files' : f.id = req[g].key => \E d \in files : d.id = f.id /\ d.asset = f.asset,
         \A i : Known(req[g].key, i)' => Known(req[g].key, i)
  PROVE  PhotoIn(g)'
<1> DEFINE c == req[g].key
<1>1. /\ c \in minted /\ req[g].thumb \in {c, Null}
      /\ \A i \in Key : Known(c, i) => i = c
      /\ \A f \in files : f.id = c => f.asset # Null
      /\ \A e \in Handler : Fresh(e) => req[e].key # c
  BY DEF PhotoIn
<1>2. req'[g] = req[g] /\ req'[g].key = c
  BY DEF Same
<1>3. \A i : Known(c, i)' => Known(c, i)
  OBVIOUS
<1>4. \A f \in files' : f.id = c => f.asset # Null
  BY <1>1
<1> HIDE DEF c
<1>5. \A e \in Handler : Fresh(e)' => req'[e].key # c
  BY <1>1 DEF NewKeysOnly
<1>6. c \in minted'
  BY <1>1 DEF NewKeysOnly
<1>7. \A i \in Key : Known(c, i)' => i = c
  BY <1>1, <1>3
<1>8. req'[g].thumb \in {c, Null}
  BY <1>1, <1>2
<1> QED BY <1>2, <1>4, <1>5, <1>6, <1>7, <1>8 DEF PhotoIn

(* A request the step does not touch still has what it relies on.          *)
LEMMA ReadySame ==
  ASSUME KeyInv, KeyInv', RowsKept, Spared, NewKeysOnly,
         \A k \in Key : \A i : Known(k, i)' => Known(k, i),
         NEW g \in Handler, Same(g), Ready(g)
  PROVE  Ready(g)'
<1>1. ASSUME Fresh(g)', req'[g].pc # "put"
      PROVE  /\ req'[g].key \in blobs'
             /\ req'[g].thumb # Null => req'[g].thumb \in thumbs'
  <2>1. Fresh(g)
    BY <1>1 DEF Same, Fresh
  <2>2. /\ req[g].key \in blobs /\ req[g].key \in Key /\ req[g].thumb \in {req[g].key, Null}
        /\ req[g].thumb # Null => req[g].thumb \in thumbs
    BY <1>1, <2>1 DEF Ready, Same, KeyInv, TypeInv, WriterKnown, Fresh, Targeted, FreshUnknown
  <2> QED BY <1>1, <2>2 DEF Same, Spared
<1>0. \A e \in files' : \E f \in files : e.id = f.id /\ e.thumb = f.thumb
  BY DEF RowsKept
<1>2. ASSUME req[g].pc = "purge blobs"
      PROVE  \A f \in req[g].rows, e \in files' : e.id # f.id
  <2>1. \A f \in req[g].rows, e \in files : e.id # f.id
    BY <1>2 DEF Ready
  <2> QED BY <1>0, <2>1
<1>3. ASSUME req[g].pc \in ReplacedPoint, req[g].op \notin KeepsThumb
      PROVE  \A f \in req[g].rows, e \in files' : f.thumb # Null => e.thumb # f.thumb
  <2>1. \A f \in req[g].rows, e \in files : f.thumb # Null => e.thumb # f.thumb
    BY <1>3 DEF Ready
  <2> QED BY <1>0, <2>1
<1>4. req[g].pc \in {"purge versions", "purge rows", "purge blobs"} =>
        \A v \in req[g].vers : \E f \in req[g].rows : v.file = f.id
  BY DEF Ready
<1>5. req'[g] = req[g]
  BY DEF Same
<1>6. /\ req'[g].pc = "purge blobs" => \A f \in req'[g].rows, e \in files' : e.id # f.id
      /\ req'[g].pc \in ReplacedPoint /\ req'[g].op \notin KeepsThumb =>
           \A f \in req'[g].rows, e \in files' : f.thumb # Null => e.thumb # f.thumb
      /\ req'[g].pc \in {"purge versions", "purge rows", "purge blobs"} =>
           \A v \in req'[g].vers : \E f \in req'[g].rows : v.file = f.id
  BY <1>2, <1>3, <1>4, <1>5
<1>7. ASSUME req[g].pc = "check", req[g].op = "photo"
      PROVE  PhotoIn(g)'
  <2>1. PhotoIn(g)
    BY <1>7 DEF Ready
  <2>2. req[g].key \in Key
    BY <1>7 DEF KeyInv, TypeInv, WriterKnown, Targeted, WritePath
  <2>3. \A f \in files' : f.id = req[g].key => \E d \in files : d.id = f.id /\ d.asset = f.asset
    BY DEF RowsKept
  <2>4. PICK c \in Key : c = req[g].key
    BY <2>2
  <2>5. \A i : Known(c, i)' => Known(c, i)
    OBVIOUS
  <2>6. req'[g].key = c
    BY <1>5, <2>4
  <2>7. \A i : Known(req[g].key, i)' => Known(req[g].key, i)
    BY <2>4, <2>5, <2>6
  <2> QED BY <2>1, <2>2, <2>3, <2>7, PhotoStays
<1>8. req'[g].pc = "check" /\ req'[g].op = "photo" => PhotoIn(g)'
  BY <1>5, <1>7
<1> QED BY <1>1, <1>6, <1>8 DEF Ready

LEMMA BytesKept ==
  ASSUME KeyInv, KeyInv', BytesInv, RowsKept, Spared, NewKeysOnly,
         \A k \in Key : \A i : Known(k, i)' => Known(k, i),
         \A v \in versions' : \E f \in files' : f.id = v.file,
         \A g \in Handler : Same(g) \/ Ready(g)'
  PROVE  BytesInv'
<1>1. \A h \in Handler : Ready(h)'
  BY ReadySame DEF BytesInv
<1>2. ASSUME NEW k \in Key, NEW i \in Key, Known(k, i)', NEW f \in files', f.id = i
      PROVE  k \in blobs' \/ GivenUp(f, k)
  <2>1. PICK g \in files : f.id = g.id /\ f.asset = g.asset
    BY DEF RowsKept
  <2>2. k \in blobs \/ GivenUp(g, k)
    BY <1>2, <2>1 DEF BytesInv
  <2>3. GivenUp(g, k) => GivenUp(f, k)
    BY <2>1 DEF GivenUp
  <2>4. k \in blobs /\ k \notin blobs' => GivenUp(f, k)
    BY <1>2 DEF Spared
  <2> QED BY <2>2, <2>3, <2>4
<1>3. ASSUME NEW f \in files'
      PROVE  f.thumb \in thumbs' \cup {Null} \/ GivenUp(f, f.thumb)
  <2>1. f.thumb \in Key \cup {Null}
    BY <1>3, KnownTypes DEF KeyInv, TypeInv, TypeOK, FileRow
  <2>2. PICK g \in files : f.id = g.id /\ f.asset = g.asset /\ f.thumb = g.thumb
    BY DEF RowsKept
  <2>3. f.thumb \in thumbs \cup {Null} \/ GivenUp(g, f.thumb)
    BY <2>2 DEF BytesInv
  <2>4. GivenUp(g, f.thumb) => GivenUp(f, f.thumb)
    BY <2>2 DEF GivenUp
  <2>5. f.thumb \in thumbs /\ f.thumb \in Key /\ f.thumb \notin thumbs' => GivenUp(f, f.thumb)
    BY DEF Spared
  <2> QED BY <2>1, <2>3, <2>4, <2>5
<1> QED BY <1>1, <1>2, <1>3 DEF BytesInv

(* A request about to write, or about to replace a row, that keeps what it *)
(* relied on.                                                              *)
LEMMA ReadyIdle ==
  ASSUME NEW h \in Handler, ~Fresh(h)',
         req'[h].pc \notin {"purge versions", "purge rows", "purge blobs"} \cup ReplacedPoint
  PROVE  Ready(h)'
BY DEF Ready, ReplacedPoint

LEMMA ReadyWriter ==
  ASSUME NEW h \in Handler,
         req'[h].pc \notin {"purge versions", "purge rows", "purge blobs"} \cup ReplacedPoint,
         /\ req'[h].key \in blobs'
         /\ req'[h].thumb # Null => req'[h].thumb \in thumbs'
  PROVE  Ready(h)'
BY DEF Ready, ReplacedPoint

LEMMA FinishReady ==
  ASSUME TypeInv, NEW h \in Handler, Finish(h)
  PROVE  Ready(h)' /\ OthersSame(h)
<1>1. OthersSame(h) /\ req'[h].pc = "idle"
  BY FinishFields
<1> QED BY <1>1 DEF Ready, Fresh, ReplacedPoint

(* The steps of a write, up to the one that stores the row.                *)
LEMMA WriterMovesBytes ==
  ASSUME KeyInv, KeyInv', Carried, BytesInv, NEW h \in Handler,
         PutBytes(h) \/ ReadExisting(h) \/ ArchiveForWrite(h) \/ DropOldThumb(h) \/ Accept(h)
           \/ UndoBlob(h)
  PROVE  BytesInv'
<1>t. TypeInv /\ Ready(h) /\ Shaped(req[h])
  BY DEF KeyInv, BytesInv
<1>u. /\ \A f \in files : Known(f.key, f.id) /\ (f.thumb = Null \/ Known(f.thumb, f.id))
      /\ \A v \in versions : Known(v.key, v.file)
  BY DEF Known
<1>1. CASE PutBytes(h)
  <2>1. /\ OthersSame(h) /\ req'[h].pc = AfterPut(req[h]) /\ req'[h].key = req[h].key
        /\ blobs' = blobs \cup {req[h].key} /\ thumbs' = thumbs \cup ({req'[h].thumb} \ {Null})
        /\ files' = files /\ versions' = versions
    BY <1>1, <1>t, PutBytesFields DEF PutBytes
  <2>2. Ready(h)'
    BY <2>1, ReadyWriter DEF AfterPut, ReplacedPoint
  <2>3. RowsKept /\ Spared
    BY <2>1 DEF RowsKept, Spared
  <2>4. \A k \in Key : \A i : Known(k, i)' => Known(k, i)
    BY <1>u, <2>1, KnownShrinks
  <2>5. NewKeysOnly
    BY <1>1, CarriedKeys DEF PutBytes
  <2> QED BY <2>1, <2>2, <2>3, <2>4, <2>5, BytesKept DEF BytesInv, OthersSame
<1>2. CASE ReadExisting(h)
  <2>1. files' = files /\ versions' = versions /\ blobs' = blobs /\ thumbs' = thumbs
    BY <1>2 DEF ReadExisting
  <2>2. Fresh(h) /\ req[h].pc = "read"
    BY <1>2 DEF ReadExisting, At, KeyInv, TypeInv, WriterKnown, WriterPoint, Fresh
  <2>3. OthersSame(h) /\ Ready(h)'
    <3>1. CASE Finish(h)
      BY <1>t, <3>1, FinishReady
    <3>2. CASE ~Finish(h)
      <4>1. /\ OthersSame(h) /\ req'[h].key = req[h].key /\ req'[h].thumb = req[h].thumb
            /\ req'[h].pc = IF req'[h].rows = {} THEN "insert" ELSE "archive"
        BY <1>2, <1>t, <3>2, ReadExistingFields
      <4>2. Ready(h)'
        BY <1>t, <2>1, <2>2, <4>1, ReadyWriter DEF Ready, ReplacedPoint
      <4> QED BY <4>1, <4>2
    <3> QED BY <3>1, <3>2
  <2>4. RowsKept /\ Spared
    BY <2>1 DEF RowsKept, Spared
  <2>5. \A k \in Key : \A i : Known(k, i)' => Known(k, i)
    BY <1>u, <2>1, KnownShrinks
  <2>6. NewKeysOnly
    BY <1>2, CarriedKeys DEF ReadExisting
  <2> QED BY <2>1, <2>3, <2>4, <2>5, <2>6, BytesKept DEF BytesInv, OthersSame
<1>3. CASE ArchiveForWrite(h)
  <2>1. PICK f \in req[h].rows :
          \/ /\ CanInsert(Archived(f))
             /\ versions' = versions \cup {Archived(f)} /\ Goto(h, "update")
          \/ versions' = versions /\ Finish(h)
    BY <1>3 DEF ArchiveForWrite, ArchiveCurrent
  <2>2. /\ files' = files /\ blobs' = blobs /\ thumbs' = thumbs
        /\ Fresh(h) /\ req[h].pc = "archive"
    BY <1>3 DEF ArchiveForWrite, ArchiveCurrent, At, Fresh
  <2>3. OthersSame(h) /\ Ready(h)'
    <3>1. CASE Finish(h)
      BY <1>t, <3>1, FinishReady
    <3>2. CASE Goto(h, "update")
      <4>1. /\ OthersSame(h) /\ req'[h].key = req[h].key /\ req'[h].thumb = req[h].thumb
            /\ req'[h].pc = "update"
        BY <1>t, <3>2, GotoFields
      <4>2. Ready(h)'
        BY <1>t, <2>2, <4>1, ReadyWriter DEF Ready, ReplacedPoint
      <4> QED BY <4>1, <4>2
    <3> QED BY <2>1, <3>1, <3>2
  <2>4. RowsKept /\ Spared
    BY <2>2 DEF RowsKept, Spared
  <2>5. \A v \in versions' : Known(v.key, v.file) /\ \E e \in files' : e.id = v.file
    <3>1. Known(Archived(f).key, Archived(f).file)
      BY DEF Known, Archived
    <3>2. CanInsert(Archived(f)) => \E e \in files : e.id = Archived(f).file
      BY DEF CanInsert
    <3> QED BY <1>u, <2>1, <2>2, <3>1, <3>2 DEF BytesInv
  <2>6. \A k \in Key : \A i : Known(k, i)' => Known(k, i)
    BY <1>u, <2>2, <2>5, KnownShrinks
  <2>7. NewKeysOnly
    BY <1>3, CarriedKeys DEF ArchiveForWrite, ArchiveCurrent
  <2> QED BY <2>3, <2>4, <2>5, <2>6, <2>7, BytesKept DEF OthersSame
<1>4. CASE DropOldThumb(h) \/ Accept(h) \/ UndoBlob(h)
  <2>1. /\ files' = files /\ versions' = versions
        /\ Finish(h) \/ \E pc \in {"check", "drop late"} : Goto(h, pc)
    BY <1>4 DEF DropOldThumb, Accept, UndoBlob
  <2>2. OthersSame(h) /\ Ready(h)'
    <3>1. CASE Finish(h)
      BY <1>t, <3>1, FinishReady
    <3>2. CASE ~Finish(h)
      <4>1. PICK pc \in {"check", "drop late"} : Goto(h, pc)
        BY <2>1, <3>2
      <4>2. /\ OthersSame(h) /\ req'[h].pc = pc /\ req'[h].op = req[h].op
            /\ req'[h].rows = req[h].rows
        BY <1>t, <4>1, GotoFields
      <4>3. req[h].pc \in ReplacedPoint
        BY <1>4, <3>2 DEF DropOldThumb, Accept, UndoBlob, At, ReplacedPoint
      <4>5. pc = "check" => req[h].op # "photo"
        <5>2. \A q : Goto(h, q) => req'[h].pc = q
          BY <1>t, GotoFields
        <5>3. Goto(h, "drop late") => pc = "drop late"
          BY <4>2, <5>2
        <5>1. pc = "check" => req[h].pc = "drop early"
          BY <1>4, <3>2, <5>3 DEF DropOldThumb, Accept, UndoBlob, At
        <5> QED BY <1>t, <5>1 DEF Shaped, ReplacingPoint, OnlyInserts
      <4>4. Ready(h)'
        BY <1>t, <2>1, <4>2, <4>3, <4>5 DEF Ready, Fresh
      <4> QED BY <4>2, <4>4
    <3> QED BY <3>1, <3>2
  <2>3. RowsKept
    BY <2>1 DEF RowsKept
  <2>4. Spared
    <3>1. CASE DropOldThumb(h)
      <4>1. /\ req[h].pc \in {"drop early", "drop late"} /\ blobs' = blobs
            /\ thumbs' = thumbs \ OldThumb(req[h])
        BY <3>1 DEF DropOldThumb, At
      <4>2. \A f \in req[h].rows, e \in files : f.thumb # Null => e.thumb # f.thumb
        BY <1>t, <4>1 DEF Ready, Shaped, ReplacedPoint
      <4>3. ASSUME NEW f \in req[h].rows, f.thumb # Null, NEW g \in Handler, Fresh(g)'
            PROVE  req'[g].thumb # f.thumb
        <5>1. f.thumb \in Key /\ f.id \in Key
          BY <1>t, <4>3, KnownTypes
        <5>2. Known(f.thumb, f.id)
          BY DEF Known
        <5>3. Fresh(g) /\ req'[g].key = req[g].key /\ req'[g].thumb \in {req[g].key, Null}
          BY <4>3 DEF Carried
        <5>4. ~Known(req[g].key, f.id)
          BY <5>1, <5>3 DEF KeyInv, FreshUnknown
        <5> QED BY <4>3, <5>2, <5>3, <5>4
      <4> QED BY <2>1, <4>1, <4>2, <4>3 DEF Spared, OldThumb
    <3>2. CASE Accept(h)
      BY <3>2 DEF Accept, Spared
    <3>3. CASE UndoBlob(h)
      <4>1. /\ Fresh(h) /\ blobs' = blobs \ {req[h].key} /\ thumbs' = thumbs \ {req[h].thumb}
            /\ Finish(h)
        BY <3>3 DEF UndoBlob, At, KeyInv, TypeInv, WriterKnown, WriterPoint, Fresh
      <4>2. /\ req[h].thumb \in {req[h].key, Null} /\ req[h].key \in Key
            /\ \A i \in Key : ~Known(req[h].key, i)
        BY <4>1 DEF KeyInv, TypeInv, WriterKnown, Fresh, Targeted, FreshUnknown
      <4>3. ASSUME NEW g \in Handler, Fresh(g)'
            PROVE  req'[g].key # req[h].key /\ req'[g].thumb # req[h].key
        <5>1. Fresh(g) /\ req'[g].key = req[g].key /\ req'[g].thumb \in {req[g].key, Null}
          BY <4>3 DEF Carried
        <5>2. g # h
          BY <1>t, <4>1, <4>3, FinishFields DEF Fresh
        <5>3. req[g].key # req[h].key
          BY <4>1, <5>1, <5>2 DEF KeyInv, FreshUnknown
        <5>4. req[h].key # Null
          BY <4>2, NullAssumption
        <5> QED BY <5>1, <5>3, <5>4
      <4>4. \A f \in files : f.thumb # req[h].key
        <5>1. \A f \in files : f.id \in Key
          BY <1>t, KnownTypes
        <5>2. \A f \in files : f.thumb = req[h].key => Known(req[h].key, f.id)
          BY DEF Known
        <5> QED BY <4>2, <5>1, <5>2
      <4>5. Null \notin Key
        BY NullAssumption
      <4> QED BY <2>1, <4>1, <4>2, <4>3, <4>4, <4>5 DEF Spared
    <3> QED BY <1>4, <3>1, <3>2, <3>3
  <2>5. \A k \in Key : \A i : Known(k, i)' => Known(k, i)
    BY <1>u, <2>1, KnownShrinks
  <2>6. NewKeysOnly
    BY <1>4, CarriedKeys DEF DropOldThumb, Accept, UndoBlob
  <2> QED BY <2>1, <2>2, <2>3, <2>4, <2>5, <2>6, BytesKept DEF BytesInv, OthersSame
<1> QED BY <1>1, <1>2, <1>3, <1>4

(* A row that takes the key, and maybe the thumbnail, of a write.          *)
LEMMA BytesBorn ==
  ASSUME KeyInv, KeyInv', BytesInv, NEW h \in Handler, Fresh(h), req[h].pc # "put",
         OthersSame(h), Ready(h)', UNCHANGED <<versions, blobs, thumbs>>, NewKeysOnly,
         \A e \in files' :
           \/ \E d \in files : d.id = e.id /\ d.asset = e.asset /\ d.thumb = e.thumb
           \/ /\ \/ e.id = req[h].key
                 \/ \E d \in files : d.id = e.id /\ d.asset = e.asset
              /\ e.thumb = req[h].thumb,
         \A d \in files : \E e \in files' : e.id = d.id,
         \A k \in Key : \A i : Known(k, i)' => Known(k, i) \/ k = req[h].key
  PROVE  BytesInv'
<1>1. /\ req[h].key \in Key /\ req[h].key \in blobs /\ req[h].thumb \in {req[h].key, Null}
      /\ req[h].thumb # Null => req[h].thumb \in thumbs
      /\ \A k \in Key : ~Known(req[h].key, k) /\ ~Known(k, req[h].key)
      /\ req[h].key # Null
  <2>1. Ready(h)
    BY DEF BytesInv
  <2>2. req[h].key \in blobs /\ (req[h].thumb # Null => req[h].thumb \in thumbs)
    BY <2>1 DEF Ready
  <2>3. /\ req[h].thumb \in {req[h].key, Null}
        /\ \A k \in Key : ~Known(req[h].key, k) /\ ~Known(k, req[h].key)
    BY DEF KeyInv, FreshUnknown
  <2>4. req[h].key \in Key
    BY DEF KeyInv, TypeInv, WriterKnown, Fresh, Targeted
  <2> QED BY <2>2, <2>3, <2>4, NullAssumption
<1>2. PICK c \in Key : c = req[h].key
  BY <1>1
<1>3. ASSUME NEW k \in Key, NEW i \in Key, Known(k, i)', NEW f \in files', f.id = i
      PROVE  k \in blobs' \/ GivenUp(f, k)
  <2>1. CASE k = c
    BY <1>1, <1>2, <2>1
  <2>2. CASE Known(k, i)
    <3>1. i # c
      BY <1>1, <1>2, <2>2
    <3>2. PICK d \in files : d.id = i /\ d.asset = f.asset
      BY <1>2, <1>3, <3>1
    <3>3. k \in blobs \/ GivenUp(d, k)
      BY <2>2, <3>2 DEF BytesInv
    <3> QED BY <1>3, <3>2, <3>3 DEF GivenUp
  <2> QED BY <1>2, <1>3, <2>1, <2>2
<1>4. ASSUME NEW f \in files'
      PROVE  f.thumb \in thumbs' \cup {Null} \/ GivenUp(f, f.thumb)
  <2>1. CASE f.thumb = req[h].thumb
    BY <1>1, <2>1
  <2>2. ASSUME NEW d \in files, d.id = f.id, d.asset = f.asset, d.thumb = f.thumb
        PROVE  f.thumb \in thumbs' \cup {Null} \/ GivenUp(f, f.thumb)
    BY <2>2 DEF BytesInv, GivenUp
  <2> QED BY <2>1, <2>2
<1>5. \A v \in versions' : \E f \in files' : f.id = v.file
  BY DEF BytesInv
<1>6. ASSUME NEW g \in Handler, g # h
      PROVE  Ready(g)'
  <2>1. Ready(g) /\ req'[g] = req[g]
    BY <1>6 DEF BytesInv, OthersSame, Same
  <2>2. ASSUME NEW f \in req[g].rows
        PROVE  f.id # c /\ (f.thumb # Null => f.thumb # c)
    <3>1. f.key \in Key /\ f.id \in Key
      BY KnownTypes DEF KeyInv
    <3>2. Known(f.key, f.id) /\ Known(f.thumb, f.id)
      BY DEF Known
    <3> QED BY <1>1, <1>2, <3>1, <3>2
  <2>3. ASSUME Fresh(g)', req[g].pc # "put"
        PROVE  req[g].key \in blobs /\ (req[g].thumb # Null => req[g].thumb \in thumbs)
    BY <2>1, <2>3 DEF Fresh, Ready
  <2>4. ASSUME req[g].pc = "purge blobs"
        PROVE  \A f \in req[g].rows, e \in files' : e.id # f.id
    <3>1. \A f \in req[g].rows, d \in files : d.id # f.id
      BY <2>1, <2>4 DEF Ready
    <3> QED BY <1>2, <2>2, <3>1
  <2>5. ASSUME req[g].pc \in ReplacedPoint, req[g].op \notin KeepsThumb
        PROVE  \A f \in req[g].rows, e \in files' : f.thumb # Null => e.thumb # f.thumb
    <3>1. \A f \in req[g].rows, d \in files : f.thumb # Null => d.thumb # f.thumb
      BY <2>1, <2>5 DEF Ready
    <3> QED BY <1>1, <1>2, <2>2, <3>1
  <2>6. req[g].pc \in {"purge versions", "purge rows", "purge blobs"} =>
          \A v \in req[g].vers : \E f \in req[g].rows : v.file = f.id
    BY <2>1 DEF Ready
  <2>7. Fresh(g)' /\ req'[g].pc # "put" =>
          /\ req'[g].key \in blobs'
          /\ req'[g].thumb # Null => req'[g].thumb \in thumbs'
    BY <2>1, <2>3
  <2>8. /\ req'[g].pc = "purge blobs" => \A f \in req'[g].rows, e \in files' : e.id # f.id
        /\ req'[g].pc \in ReplacedPoint /\ req'[g].op \notin KeepsThumb =>
             \A f \in req'[g].rows, e \in files' : f.thumb # Null => e.thumb # f.thumb
        /\ req'[g].pc \in {"purge versions", "purge rows", "purge blobs"} =>
             \A v \in req'[g].vers : \E f \in req'[g].rows : v.file = f.id
    <3>1. req'[g] = req[g]
      BY <2>1
    <3>2. req[g].pc = "purge blobs" => \A f \in req[g].rows, e \in files' : e.id # f.id
      BY <2>4
    <3>3. req[g].pc \in ReplacedPoint /\ req[g].op \notin KeepsThumb =>
            \A f \in req[g].rows, e \in files' : f.thumb # Null => e.thumb # f.thumb
      BY <2>5
    <3>4. req'[g].pc = "purge blobs" => \A f \in req'[g].rows, e \in files' : e.id # f.id
      BY <3>1, <3>2
    <3>5. req'[g].pc \in ReplacedPoint /\ req'[g].op \notin KeepsThumb =>
            \A f \in req'[g].rows, e \in files' : f.thumb # Null => e.thumb # f.thumb
      BY <3>1, <3>3
    <3>6. req'[g].pc \in {"purge versions", "purge rows", "purge blobs"} =>
            \A v \in req'[g].vers : \E f \in req'[g].rows : v.file = f.id
      BY <2>6, <3>1
    <3> QED BY <3>4, <3>5, <3>6
  <2>9. ASSUME req'[g].pc = "check", req'[g].op = "photo"
        PROVE  PhotoIn(g)'
    <3>1. PhotoIn(g)
      BY <2>1, <2>9 DEF Ready
    <3>2. PICK d \in Key : d = req[g].key
      BY <2>1, <2>9 DEF KeyInv, TypeInv, WriterKnown, Targeted, WritePath
    <3>3. d # c
      BY <1>2, <3>1, <3>2 DEF PhotoIn
    <3>4. \A i : Known(d, i)' => Known(d, i)
      BY <1>2, <3>3
    <3>5. \A f \in files' : f.id = d => \E e \in files : e.id = f.id /\ e.asset = f.asset
      BY <1>2, <3>3
    <3>6. \A i : Known(req[g].key, i)' => Known(req[g].key, i)
      BY <2>1, <3>2, <3>4
    <3> QED BY <2>1, <3>1, <3>2, <3>5, <3>6, PhotoStays DEF Same
  <2> QED BY <2>7, <2>8, <2>9 DEF Ready
<1> QED BY <1>3, <1>4, <1>5, <1>6 DEF BytesInv

LEMMA UpdateRowBytes ==
  ASSUME KeyInv, KeyInv', Carried, BytesInv, NEW h \in Handler, UpdateRow(h),
         \A k \in Key : \A i : Known(k, i)' => Known(k, i) \/ k = req[h].key
  PROVE  BytesInv'
<1>1. PICK f \in req[h].rows :
         /\ files' = {IF g.id = f.id THEN Overwritten(g, f, req[h]) ELSE g : g \in files}
         /\ Goto(h, IF req[h].op \in DropsEarly /\ f.thumb # Null
                    THEN "drop early" ELSE "check")
  BY DEF UpdateRow
<1>2. /\ Fresh(h) /\ req[h].pc = "update" /\ UNCHANGED <<versions, blobs, thumbs>>
      /\ \A e \in req[h].rows : e = f
  BY DEF UpdateRow, At, KeyInv, TypeInv, WriterKnown, WriterPoint, Fresh, Shaped
<1>3. PICK pc \in {"drop early", "check"} : Goto(h, pc)
  BY <1>1
<1>4. /\ OthersSame(h) /\ req'[h].pc = pc /\ req'[h].op = req[h].op /\ req'[h].rows = req[h].rows
  BY <1>3, GotoFields DEF KeyInv
<1>5. f \in FileRow /\ files \subseteq FileRow /\ f.id \in Key
  <2>1. f \in FileRow /\ files \subseteq FileRow
    BY DEF KeyInv, TypeInv, TypeOK, Request
  <2> QED BY <2>1 DEF FileRow
<1>6. \A g \in files :
        /\ Overwritten(g, f, req[h]).id = g.id
        /\ Overwritten(g, f, req[h]).asset = g.asset
        /\ Overwritten(g, f, req[h]).thumb \in {g.thumb, req[h].thumb}
        /\ req[h].op \notin KeepsThumb => Overwritten(g, f, req[h]).thumb = req[h].thumb
  <2> SUFFICES ASSUME NEW g \in files
               PROVE  /\ Overwritten(g, f, req[h]).id = g.id
                      /\ Overwritten(g, f, req[h]).asset = g.asset
                      /\ Overwritten(g, f, req[h]).thumb \in {g.thumb, req[h].thumb}
                      /\ req[h].op \notin KeepsThumb =>
                           Overwritten(g, f, req[h]).thumb = req[h].thumb
    OBVIOUS
  <2>1. g \in FileRow /\ f \in FileRow
    BY <1>5
  <2>2. PICK r : r = req[h]
    OBVIOUS
  <2>3. /\ Overwritten(g, f, r).id = g.id
        /\ Overwritten(g, f, r).asset = g.asset
        /\ Overwritten(g, f, r).thumb \in {g.thumb, r.thumb}
        /\ r.op \notin KeepsThumb => Overwritten(g, f, r).thumb = r.thumb
    BY <2>1, OverwrittenFields
  <2> QED BY <2>2, <2>3
<1>7. \A e \in files' : \E g \in files :
        /\ g.id = e.id /\ g.asset = e.asset
        /\ e.thumb \in {g.thumb, req[h].thumb}
        /\ g.id = f.id /\ req[h].op \notin KeepsThumb => e.thumb = req[h].thumb
        /\ g.id # f.id => e.thumb = g.thumb
  BY <1>1, <1>6
<1>8. \A d \in files : \E e \in files' : e.id = d.id
  BY <1>1, <1>6
<1>9. Ready(h)'
  <2>1. ~Fresh(h)'
    BY <1>4 DEF Fresh
  <2>2. ASSUME req[h].op \notin KeepsThumb, NEW e \in files', f.thumb # Null
        PROVE  e.thumb # f.thumb
    <3>1. f.thumb \in Key /\ Known(f.thumb, f.id)
      BY <2>2, KnownTypes DEF Known, KeyInv
    <3>2. req[h].thumb # f.thumb
      BY <1>2, <1>5, <2>2, <3>1 DEF KeyInv, FreshUnknown
    <3>3. ASSUME NEW g \in files, g.id # f.id
          PROVE  g.thumb # f.thumb
      <4>1. g.id \in Key
        BY KnownTypes DEF KeyInv
      <4>2. g.thumb = f.thumb => Known(f.thumb, g.id)
        BY DEF Known
      <4> QED BY <1>5, <3>1, <3>3, <4>1, <4>2 DEF KeyInv, OneFilePerKey
    <3> QED BY <1>7, <2>2, <3>2, <3>3
  <2>3. req[h].op # "photo"
    BY <1>2 DEF KeyInv, Shaped, ReplacingPoint, OnlyInserts
  <2> QED BY <1>2, <1>4, <2>1, <2>2, <2>3 DEF Ready
<1>10. \A e \in files' :
           \/ \E d \in files : d.id = e.id /\ d.asset = e.asset /\ d.thumb = e.thumb
           \/ /\ \/ e.id = req[h].key
                 \/ \E d \in files : d.id = e.id /\ d.asset = e.asset
              /\ e.thumb = req[h].thumb
  BY <1>7
<1>11. NewKeysOnly
  BY CarriedKeys DEF UpdateRow
<1> QED BY <1>2, <1>4, <1>8, <1>9, <1>10, <1>11, BytesBorn

LEMMA InsertRowBytes ==
  ASSUME KeyInv, KeyInv', Carried, BytesInv, NEW h \in Handler, InsertRow(h),
         \A k \in Key : \A i : Known(k, i)' => Known(k, i) \/ (k = req[h].key /\ i = k)
  PROVE  BytesInv'
<1>1. /\ Fresh(h) /\ req[h].pc = "insert" /\ UNCHANGED <<versions, blobs, thumbs>>
      /\ req[h].rows = {}
  BY DEF InsertRow, At, KeyInv, TypeInv, WriterKnown, WriterPoint, Fresh, Shaped
<1>2. TypeInv /\ Ready(h)
  BY DEF KeyInv, BytesInv
<1>n. NewKeysOnly /\ \A k \in Key : \A i : Known(k, i)' => Known(k, i) \/ k = req[h].key
  BY CarriedKeys DEF InsertRow
<1>3. CASE Goto(h, "undo blob") /\ files' = files
  <2>1. /\ OthersSame(h) /\ req'[h].pc = "undo blob" /\ req'[h].key = req[h].key
        /\ req'[h].thumb = req[h].thumb
    BY <1>2, <1>3, GotoFields
  <2>2. Ready(h)'
    BY <1>1, <1>2, <2>1, ReadyWriter DEF Ready, ReplacedPoint
  <2> QED BY <1>1, <1>n, <1>3, <2>1, <2>2, BytesBorn
<1>4. CASE ~(Goto(h, "undo blob") /\ files' = files)
  <2> DEFINE row == [id |-> req[h].key, name |-> req[h].name,
                     key |-> req[h].key, thumb |-> req[h].thumb,
                     version |-> 1, scan |-> FreshScan, trashed |-> FALSE,
                     asset |-> AssetOf(req[h])]
  <2>1. files' = files \cup {row} /\ Goto(h, "check")
    BY <1>4 DEF InsertRow
  <2>2. row.id = req[h].key /\ row.thumb = req[h].thumb /\ row.asset = AssetOf(req[h])
    OBVIOUS
  <2> HIDE DEF row
  <2>3. Goto(h, "check")
    BY <2>1
  <2>4. /\ OthersSame(h) /\ req'[h].pc = "check" /\ req'[h].rows = {}
        /\ req'[h].op = req[h].op /\ req'[h].key = req[h].key /\ req'[h].thumb = req[h].thumb
    BY <1>1, <1>2, <2>3, GotoFields
  <2>5. ASSUME req[h].op = "photo"
        PROVE  PhotoIn(h)'
    <3>1. PICK c \in Key : c = req[h].key
      BY <1>1 DEF KeyInv, TypeInv, WriterKnown, Fresh, Targeted
    <3>2. /\ c \in minted /\ req[h].thumb \in {c, Null}
          /\ \A i \in Key : ~Known(c, i) /\ ~Known(i, c)
          /\ \A g \in Handler : Fresh(g) /\ req[g].key = c => g = h
      BY <1>1, <3>1 DEF KeyInv, FreshUnknown
    <3>3. \A i \in Key : Known(c, i)' => i = c
      BY <3>1, <3>2
    <3>4. \A f \in files : f.id # c
      <4>1. \A f \in files : f.key \in Key /\ Known(f.key, f.id)
        BY <1>2, KnownTypes DEF Known
      <4> QED BY <3>2, <4>1
    <3>5. row.asset # Null
      BY <1>2, <2>2, <2>5, NullAssumption DEF AssetOf, TypeInv, WriterKnown, Targeted, WritePath
    <3>6. \A f \in files' : f.id = c => f.asset # Null
      BY <2>1, <3>4, <3>5
    <3>7. ASSUME NEW g \in Handler, Fresh(g)'
          PROVE  req'[g].key # c
      <4>1. g # h
        BY <2>4, <3>7 DEF Fresh
      <4>2. Fresh(g) /\ req'[g].key = req[g].key
        BY <3>7 DEF Carried
      <4> QED BY <3>2, <4>1, <4>2
    <3>8. c \in minted'
      BY <3>2 DEF InsertRow
    <3> QED BY <2>4, <3>1, <3>2, <3>3, <3>6, <3>7, <3>8 DEF PhotoIn
  <2>6. Ready(h)'
    BY <2>4, <2>5 DEF Ready, Fresh
  <2> QED BY <1>1, <1>n, <2>1, <2>2, <2>4, <2>6, BytesBorn
<1> QED BY <1>3, <1>4

LEMMA PurgeBytes ==
  ASSUME KeyInv, KeyInv', Carried, BytesInv, NEW h \in Handler, Purge(Ops, h)
  PROVE  BytesInv'
<1>t. TypeInv /\ Ready(h)
  BY DEF KeyInv, BytesInv
<1>n. minted' = minted
  <2> USE DEF BeginEmptyTrash, BeginPurge, BeginHardDelete, BeginMove, ListVersions
  <2> QED BY DEF Purge, PurgeVersions, PurgeRows, DropBlobs, MoveRow
<1>m. NewKeysOnly
  BY <1>n, CarriedKeys
<1>1. ASSUME RowsKept, Spared, OthersSame(h), Ready(h)',
             \A v \in versions' : v \in versions /\ \E f \in files' : f.id = v.file
      PROVE  BytesInv'
  <2>1. \A k \in Key : \A i : Known(k, i)' => Known(k, i)
    <3>1. \A f \in files' : Known(f.key, f.id) /\ (f.thumb = Null \/ Known(f.thumb, f.id))
      BY <1>1 DEF RowsKept, Known
    <3>2. \A v \in versions' : Known(v.key, v.file)
      BY <1>1 DEF Known
    <3> QED BY <3>1, <3>2, KnownShrinks
  <2> QED BY <1>1, <1>m, <2>1, BytesKept DEF OthersSame
<1>2. ASSUME UNCHANGED <<files, versions, blobs, thumbs, minted>>, OthersSame(h), Ready(h)'
      PROVE  BytesInv'
  BY <1>1, <1>2 DEF RowsKept, Spared, BytesInv
<1>3. ASSUME OthersSame(h), req'[h].pc \in {"list versions", "purge rows", "move row"},
             req'[h].vers = {}, UNCHANGED <<files, versions, blobs, thumbs, minted>>
      PROVE  BytesInv'
  <2>1. Ready(h)'
    BY <1>3 DEF Ready, Fresh, ReplacedPoint
  <2> QED BY <1>2, <1>3, <2>1
<1>4. CASE BeginEmptyTrash(h)
  <2>1. OthersSame(h) /\ req'[h].pc = "list versions" /\ req'[h].vers = {}
    BY <1>t, <1>4, BeginRowsFields DEF BeginEmptyTrash
  <2> QED BY <1>3, <1>4, <2>1 DEF BeginEmptyTrash
<1>5. CASE \E f \in files : BeginPurge(h, f)
  <2>1. PICK f \in files : BeginPurge(h, f)
    BY <1>5
  <2>2. OthersSame(h) /\ req'[h].pc = "list versions" /\ req'[h].vers = {}
    BY <1>t, <2>1, BeginRowsFields DEF BeginPurge
  <2> QED BY <1>3, <2>1, <2>2 DEF BeginPurge
<1>6. CASE \E f \in files : BeginHardDelete(h, f)
  <2>1. PICK f \in files : BeginHardDelete(h, f)
    BY <1>6
  <2>2. OthersSame(h) /\ req'[h].pc = "purge rows" /\ req'[h].vers = {}
    BY <1>t, <2>1, BeginRowsFields DEF BeginHardDelete
  <2> QED BY <1>3, <2>1, <2>2 DEF BeginHardDelete
<1>7. CASE \E f \in files, n \in Name : BeginMove(h, f, n)
  <2>1. PICK f \in files, n \in Name : BeginMove(h, f, n)
    BY <1>7
  <2>2. OthersSame(h) /\ req'[h].pc \in {"move row", "purge rows"} /\ req'[h].vers = {}
    BY <1>t, <2>1, BeginMoveFields
  <2> QED BY <1>3, <2>1, <2>2 DEF BeginMove
<1>8. CASE ListVersions(h)
  <2> DEFINE vers == {v \in versions : v.file \in Ids(req[h].rows)}
  <2>1. /\ OthersSame(h) /\ req'[h].pc = "purge versions"
        /\ req'[h].rows = req[h].rows /\ req'[h].vers = vers
    BY <1>t, <1>8, ReadVersionsFields DEF ListVersions
  <2>2. \A v \in vers : \E f \in req[h].rows : v.file = f.id
    BY DEF Ids
  <2>3. Ready(h)'
    BY <2>1, <2>2 DEF Ready, Fresh, ReplacedPoint
  <2> QED BY <1>2, <1>8, <2>1, <2>3 DEF ListVersions
<1>9. CASE PurgeVersions(h)
  <2>1. /\ OthersSame(h) /\ req'[h].pc = "purge rows"
        /\ req'[h].rows = req[h].rows /\ req'[h].vers = req[h].vers
    BY <1>t, <1>9, GotoFields DEF PurgeVersions
  <2>2. req[h].pc = "purge versions" /\ files' = files /\ blobs' = blobs /\ thumbs' = thumbs
        /\ versions' \subseteq versions
    BY <1>9 DEF PurgeVersions, At
  <2>3. Ready(h)'
    BY <1>t, <2>1, <2>2 DEF Ready, Fresh, ReplacedPoint
  <2> QED BY <1>1, <2>1, <2>2, <2>3 DEF RowsKept, Spared, BytesInv
<1>10. CASE PurgeRows(h)
  <2>1. /\ OthersSame(h) /\ req'[h].pc = "purge blobs"
        /\ req'[h].rows = req[h].rows /\ req'[h].vers = req[h].vers
    BY <1>t, <1>10, GotoFields DEF PurgeRows
  <2>2. /\ req[h].pc = "purge rows" /\ blobs' = blobs /\ thumbs' = thumbs
        /\ files' = {f \in files : f.id \notin Ids(req[h].rows)}
        /\ versions' = {v \in versions : v.file \notin Ids(req[h].rows)}
    BY <1>10 DEF PurgeRows, At, DeleteFiles
  <2>3. \A f \in req[h].rows, e \in files' : e.id # f.id
    BY <2>2 DEF Ids
  <2>4. \A v \in req[h].vers : \E f \in req[h].rows : v.file = f.id
    BY <1>t, <2>2 DEF Ready
  <2>5. Ready(h)'
    BY <2>1, <2>3, <2>4 DEF Ready, Fresh, ReplacedPoint
  <2>6. \A v \in versions' : v \in versions /\ \E f \in files' : f.id = v.file
    BY <2>2 DEF BytesInv
  <2>7. RowsKept /\ Spared
    BY <2>2 DEF RowsKept, Spared
  <2> QED BY <1>1, <2>1, <2>5, <2>6, <2>7
<1>11. CASE DropBlobs(h)
  <2>1. /\ req[h].pc = "purge blobs" /\ files' = files /\ versions' = versions
        /\ blobs' = blobs \ ({f.key : f \in req[h].rows} \cup {v.key : v \in req[h].vers})
        /\ \A k \in thumbs : k \notin thumbs' => \E f \in req[h].rows : k = f.thumb
        /\ Finish(h) \/ Goto(h, "move row")
    BY <1>11 DEF DropBlobs, At
  <2>2. /\ \A f \in req[h].rows, e \in files : e.id # f.id
        /\ \A v \in req[h].vers : \E f \in req[h].rows : v.file = f.id
    BY <1>t, <2>1 DEF Ready
  <2>3. OthersSame(h) /\ Ready(h)'
    <3>1. CASE Finish(h)
      BY <1>t, <3>1, FinishReady
    <3>2. CASE Goto(h, "move row")
      <4>1. OthersSame(h) /\ req'[h].pc = "move row"
        BY <1>t, <3>2, GotoFields
      <4> QED BY <4>1 DEF Ready, Fresh, ReplacedPoint
    <3> QED BY <2>1, <3>1, <3>2
  <2>4. ASSUME NEW k \in Key, NEW i \in Key, Known(k, i), i \notin {f.id : f \in files},
               NEW g \in Handler, Fresh(g)'
        PROVE  req'[g].key # k /\ req'[g].thumb # k
    <3>1. Fresh(g) /\ req'[g].key = req[g].key /\ req'[g].thumb \in {req[g].key, Null}
      BY <2>4 DEF Carried
    <3>2. ~Known(req[g].key, i)
      BY <2>4, <3>1 DEF KeyInv, FreshUnknown
    <3> QED BY <2>4, <3>1, <3>2, NullAssumption
  <2>5. ASSUME NEW k \in Key, k \in blobs, k \notin blobs'
        PROVE  /\ \A i \in Key : Known(k, i) => \A f \in files' : f.id # i
               /\ \A g \in Handler : Fresh(g)' => req'[g].key # k
    <3>1. \E i \in Key : Known(k, i) /\ i \notin {f.id : f \in files}
      <4>1. CASE \E f \in req[h].rows : k = f.key
        <5>1. PICK f \in req[h].rows : k = f.key
          BY <4>1
        <5>2. f.id \in Key /\ Known(k, f.id)
          BY <1>t, <5>1, KnownTypes DEF Known
        <5> QED BY <2>2, <5>2
      <4>2. CASE \E v \in req[h].vers : k = v.key
        <5>1. PICK v \in req[h].vers : k = v.key
          BY <4>2
        <5>2. v.file \in Key /\ Known(k, v.file)
          BY <1>t, <5>1, KnownTypes DEF Known
        <5> QED BY <2>2, <5>1, <5>2
      <4> QED BY <2>1, <2>5, <4>1, <4>2
    <3>2. PICK i \in Key : Known(k, i) /\ i \notin {f.id : f \in files}
      BY <3>1
    <3>3. \A j \in Key : Known(k, j) => j = i
      BY <3>2 DEF KeyInv, OneFilePerKey
    <3> QED BY <2>1, <2>4, <3>2, <3>3
  <2>6. ASSUME NEW k \in Key, k \in thumbs, k \notin thumbs'
        PROVE  /\ \A f \in files' : f.thumb # k
               /\ \A g \in Handler : Fresh(g)' => req'[g].thumb # k
    <3>1. PICK f \in req[h].rows : k = f.thumb
      BY <2>1, <2>6
    <3>2. f.id \in Key /\ Known(k, f.id) /\ f.id \notin {e.id : e \in files}
      BY <1>t, <2>2, <3>1, KnownTypes DEF Known
    <3>3. \A e \in files : e.thumb = k => e.id \in Key /\ Known(k, e.id)
      BY <1>t, KnownTypes DEF Known
    <3>4. \A e \in files : e.thumb # k
      BY <3>2, <3>3 DEF KeyInv, OneFilePerKey
    <3> QED BY <2>1, <2>4, <3>2, <3>4
  <2>7. Spared
    BY <2>5, <2>6 DEF Spared
  <2> QED BY <1>1, <2>1, <2>3, <2>7 DEF RowsKept, BytesInv
<1>12. CASE MoveRow(h)
  <2>1. RowsKept /\ \A d \in files : \E e \in files' : d.id = e.id
    <3>1. \A f \in files : LET e == [f EXCEPT !.name = req[h].name]
                           IN /\ e.id = f.id /\ e.key = f.key
                              /\ e.thumb = f.thumb /\ e.asset = f.asset
      BY <1>t DEF TypeInv, TypeOK, FileRow
    <3> QED BY <1>12, <3>1 DEF MoveRow, RowsKept
  <2>2. OthersSame(h) /\ Ready(h)'
    BY <1>t, <1>12, FinishReady DEF MoveRow
  <2>3. UNCHANGED <<versions, blobs, thumbs>>
    BY <1>12 DEF MoveRow
  <2> QED BY <1>1, <2>1, <2>2, <2>3 DEF Spared, BytesInv
<1> QED BY <1>4, <1>5, <1>6, <1>7, <1>8, <1>9, <1>10, <1>11, <1>12 DEF Purge

LEMMA ScanBytesKept ==
  ASSUME KeyInv, KeyInv', Carried, BytesInv, NEW h \in Handler, Scan(h)
  PROVE  BytesInv'
<1>t. TypeInv
  BY DEF KeyInv
<1>n. minted' = minted
  BY DEF Scan, BeginScan, ScanBytes, VerdictOnFile, VerdictOnVersion
<1>m. NewKeysOnly
  BY <1>n, CarriedKeys
<1>1. ASSUME RowsKept, \A d \in files : \E e \in files' : d.id = e.id,
             \A v \in versions' : \E w \in versions : v.file = w.file /\ v.key = w.key,
             OthersSame(h), Ready(h)', UNCHANGED <<blobs, thumbs>>
      PROVE  BytesInv'
  <2>1. \A k \in Key : \A i : Known(k, i)' => Known(k, i)
    <3>1. \A f \in files' : Known(f.key, f.id) /\ (f.thumb = Null \/ Known(f.thumb, f.id))
      BY <1>1 DEF RowsKept, Known
    <3>2. \A v \in versions' : Known(v.key, v.file)
      BY <1>1 DEF Known
    <3> QED BY <3>1, <3>2, KnownShrinks
  <2>2. \A v \in versions' : \E f \in files' : f.id = v.file
    BY <1>1 DEF BytesInv
  <2> QED BY <1>1, <1>m, <2>1, <2>2, BytesKept DEF OthersSame, Spared
<1>2. CASE \E v \in ScanCandidates : BeginScan(h, v)
  <2>1. PICK v \in ScanCandidates : BeginScan(h, v)
    BY <1>2
  <2>2. OthersSame(h) /\ req'[h].pc = "scan bytes"
    BY <1>t, <2>1, BeginScanFields
  <2>3. Ready(h)'
    BY <2>2 DEF Ready, Fresh, ReplacedPoint
  <2> QED BY <1>1, <2>1, <2>2, <2>3 DEF BeginScan, RowsKept
<1>3. CASE ScanBytes(h)
  <2>1. OthersSame(h) /\ req'[h].pc = "verdict on file"
    BY <1>t, <1>3, ScanBytesFields
  <2>2. Ready(h)'
    BY <2>1 DEF Ready, Fresh, ReplacedPoint
  <2> QED BY <1>1, <1>3, <2>1, <2>2 DEF ScanBytes, RowsKept
<1>4. CASE VerdictOnFile(h)
  <2>1. PICK v \in req[h].vers :
          files' = {IF MatchesFile(f, v) THEN [f EXCEPT !.scan = req[h].verdict] ELSE f : f \in files}
    BY <1>4 DEF VerdictOnFile
  <2>2. \A f \in files : LET e == [f EXCEPT !.scan = req[h].verdict]
                         IN /\ e.id = f.id /\ e.key = f.key
                            /\ e.thumb = f.thumb /\ e.asset = f.asset
    BY <1>t DEF TypeInv, TypeOK, FileRow
  <2>3. RowsKept /\ \A d \in files : \E e \in files' : d.id = e.id
    BY <2>1, <2>2 DEF RowsKept
  <2>4. OthersSame(h) /\ req'[h].pc = "verdict on version"
    BY <1>t, <1>4, GotoFields DEF VerdictOnFile
  <2>5. Ready(h)'
    BY <2>4 DEF Ready, Fresh, ReplacedPoint
  <2> QED BY <1>1, <1>4, <2>3, <2>4, <2>5 DEF VerdictOnFile
<1>5. CASE VerdictOnVersion(h)
  <2>1. PICK v \in req[h].vers :
          versions' = {IF MatchesVersion(w, v) THEN [w EXCEPT !.scan = req[h].verdict] ELSE w : w \in versions}
    BY <1>5 DEF VerdictOnVersion
  <2>2. \A u \in versions' : \E w \in versions : u.file = w.file /\ u.key = w.key
    BY <1>t, <2>1 DEF TypeInv, TypeOK, VersionRow
  <2>3. OthersSame(h) /\ Ready(h)'
    BY <1>t, <1>5, FinishReady DEF VerdictOnVersion
  <2> QED BY <1>1, <1>5, <2>2, <2>3 DEF VerdictOnVersion, RowsKept
<1> QED BY <1>2, <1>3, <1>4, <1>5 DEF Scan

LEMMA EditBytes ==
  ASSUME KeyInv, KeyInv', Carried, BytesInv, EditRow
  PROVE  BytesInv'
<1>1. ASSUME NEW f \in files, NEW g, g.id = f.id, g.key = f.key, g.thumb = f.thumb,
             g.asset = f.asset, files' = (files \ {f}) \cup {g},
             UNCHANGED <<versions, blobs, thumbs, minted, req>>
      PROVE  BytesInv'
  <2>1. RowsKept /\ Spared
    BY <1>1 DEF RowsKept, Spared
  <2>2. \A k \in Key : \A i : Known(k, i)' => Known(k, i)
    <3>1. \A e \in files' : Known(e.key, e.id) /\ (e.thumb = Null \/ Known(e.thumb, e.id))
      BY <2>1 DEF RowsKept, Known
    <3>2. \A v \in versions' : Known(v.key, v.file)
      BY <1>1 DEF Known
    <3> QED BY <3>1, <3>2, KnownShrinks
  <2>3. \A v \in versions' : \E e \in files' : e.id = v.file
    BY <1>1 DEF BytesInv
  <2>4. \A h \in Handler : Same(h)
    BY <1>1 DEF Same
  <2>5. NewKeysOnly
    BY <1>1, CarriedKeys
  <2> QED BY <2>1, <2>2, <2>3, <2>4, <2>5, BytesKept
<1>2. CASE \E f \in files, n \in Name : Rename(f, n)
  <2>1. PICK f \in files, n \in Name : Rename(f, n)
    BY <1>2
  <2>2. f \in FileRow
    BY DEF KeyInv, TypeInv, TypeOK
  <2>3. PICK g : g = [f EXCEPT !.name = n]
    OBVIOUS
  <2>4. g.id = f.id /\ g.key = f.key /\ g.thumb = f.thumb /\ g.asset = f.asset
    BY <2>2, <2>3 DEF FileRow
  <2>5. files' = (files \ {f}) \cup {g} /\ UNCHANGED <<versions, blobs, thumbs, minted, req>>
    BY <2>1, <2>3 DEF Rename
  <2> QED BY <1>1, <2>4, <2>5
<1>3. CASE \E f \in files, t \in BOOLEAN : SetTrashed(f, t)
  <2>1. PICK f \in files, t \in BOOLEAN : SetTrashed(f, t)
    BY <1>3
  <2>2. f \in FileRow
    BY DEF KeyInv, TypeInv, TypeOK
  <2>3. PICK g : g = [f EXCEPT !.trashed = t]
    OBVIOUS
  <2>4. g.id = f.id /\ g.key = f.key /\ g.thumb = f.thumb /\ g.asset = f.asset
    BY <2>2, <2>3 DEF FileRow
  <2>5. files' = (files \ {f}) \cup {g} /\ UNCHANGED <<versions, blobs, thumbs, minted, req>>
    BY <2>1, <2>3 DEF SetTrashed
  <2> QED BY <1>1, <2>4, <2>5
<1> QED BY <1>2, <1>3 DEF EditRow

(* A photo upload that throws takes nothing but its own bytes away.        *)
LEMMA FailPhotoBytes ==
  ASSUME KeyInv, KeyInv', BytesInv, Throws, NEW h \in Handler, FailPhoto(h)
  PROVE  BytesInv'
<1>1. /\ req[h].op = "photo" /\ req[h].pc \in {"insert", "check"}
      /\ blobs' = blobs \ {req[h].key} /\ thumbs' = thumbs \ {req[h].thumb}
      /\ Finish(h) /\ files' = files /\ versions' = versions /\ minted' = minted
  BY DEF FailPhoto, KeyInv, Shaped, LoudPoint
<1>2. OthersSame(h) /\ Ready(h)' /\ ~Fresh(h)'
  BY <1>1, FinishReady, FinishFields DEF KeyInv, Fresh
<1>3. Carried
  BY <1>1, FinishCarried
<1>4. PICK c \in Key : c = req[h].key
  BY <1>1 DEF KeyInv, TypeInv, WriterKnown, Targeted, WritePath
<1>5. /\ req[h].thumb \in {c, Null}
      /\ \A i \in Key : Known(c, i) => i = c
      /\ \A f \in files : f.id = c => GivenUp(f, c) \/ ~Known(c, c)
      /\ \A g \in Handler : Fresh(g) /\ req[g].key = c => g = h
  <2>1. CASE req[h].pc = "insert"
    <3>1. Fresh(h)
      BY <1>1, <2>1 DEF Fresh, WritePath
    <3> QED BY <1>4, <3>1 DEF KeyInv, FreshUnknown
  <2>2. CASE req[h].pc = "check"
    <3>1. PhotoIn(h)
      BY <1>1, <2>2 DEF BytesInv, Ready
    <3> QED BY <1>4, <3>1 DEF PhotoIn, GivenUp
  <2> QED BY <1>1, <2>1, <2>2
<1>6. ASSUME NEW g \in Handler, Fresh(g)'
      PROVE  req'[g].key # c /\ req'[g].thumb # c
  <2>1. Fresh(g) /\ req'[g].key = req[g].key /\ req'[g].thumb \in {req[g].key, Null}
    BY <1>3, <1>6 DEF Carried
  <2>2. g # h
    BY <1>2, <1>6
  <2> QED BY <1>5, <2>1, <2>2, NullAssumption
<1>7. Spared
  <2>1. ASSUME NEW k \in Key, k \in blobs, k \notin blobs'
        PROVE  /\ \A i \in Key : Known(k, i) => \A f \in files' : f.id = i => GivenUp(f, k)
               /\ \A g \in Handler : Fresh(g)' => req'[g].key # k
    <3>1. k = c
      BY <1>1, <1>4, <2>1
    <3> QED BY <1>1, <1>5, <1>6, <3>1
  <2>2. ASSUME NEW k \in Key, k \in thumbs, k \notin thumbs'
        PROVE  /\ \A f \in files' : f.thumb = k => GivenUp(f, k)
               /\ \A g \in Handler : Fresh(g)' => req'[g].thumb # k
    <3>1. k = c
      BY <1>1, <1>5, <2>2, NullAssumption
    <3>2. \A f \in files : f.thumb = c => f.id \in Key /\ Known(c, f.id)
      BY KnownTypes DEF KeyInv, Known
    <3>3. \A f \in files : f.thumb = c => GivenUp(f, c)
      BY <1>5, <3>2
    <3> QED BY <1>1, <1>6, <3>1, <3>3
  <2> QED BY <2>1, <2>2 DEF Spared
<1>8. RowsKept
  BY <1>1 DEF RowsKept
<1>9. \A k \in Key : \A i : Known(k, i)' => Known(k, i)
  <2>1. /\ \A f \in files : Known(f.key, f.id) /\ (f.thumb = Null \/ Known(f.thumb, f.id))
        /\ \A v \in versions : Known(v.key, v.file)
    BY DEF Known
  <2> QED BY <1>1, <1>3, <2>1, KnownShrinks
<1>10. NewKeysOnly
  BY <1>1, <1>3, CarriedKeys
<1> QED BY <1>1, <1>2, <1>7, <1>8, <1>9, <1>10, BytesKept DEF BytesInv, OthersSame

LEMMA BytesStep ==
  ASSUME Quiet, KeyInv, BytesInv, Next
  PROVE  BytesInv'
<1>t. KeyInv' /\ TypeInv' /\ TypeInv
  BY KeysStep DEF KeyInv
<1>u. /\ \A f \in files : Known(f.key, f.id) /\ (f.thumb = Null \/ Known(f.thumb, f.id))
      /\ \A v \in versions : Known(v.key, v.file)
  BY DEF Known
<1>1. ASSUME NEW h \in Handler, NEW p \in WritePath, NEW n \in Name, NEW k \in Key,
             BeginWrite(h, p, n, k)
      PROVE  BytesInv'
  <2>1. OthersSame(h) /\ req'[h].pc = "put"
    BY <1>t, <1>1, BeginWriteFields
  <2>2. Ready(h)'
    BY <2>1 DEF Ready, ReplacedPoint
  <2>3. UNCHANGED <<files, versions, blobs, thumbs>>
    BY <1>1 DEF BeginWrite
  <2>4. \A i, j : Known(i, j)' => Known(i, j)
    BY <1>t, <1>1, BeginWriteKeys
  <2>5. k \notin minted /\ minted' = minted \cup {k} /\ req'[h].key = k
    BY <1>t, <1>1, BeginWriteFields DEF BeginWrite
  <2>6. NewKeysOnly
    BY <2>1, <2>5 DEF NewKeysOnly, OthersSame, Same, Fresh
  <2> QED BY <1>t, <2>1, <2>2, <2>3, <2>4, <2>6, BytesKept
          DEF RowsKept, Spared, OthersSame, BytesInv
<1>2. ASSUME NEW h \in Handler,
             PutBytes(h) \/ ReadExisting(h) \/ ArchiveForWrite(h) \/ DropOldThumb(h)
               \/ Accept(h) \/ UndoBlob(h)
      PROVE  BytesInv'
  BY <1>t, <1>2, WriterMovesKeys, WriterMovesBytes
<1>3. ASSUME NEW h \in Handler, UpdateRow(h) PROVE BytesInv'
  BY <1>t, <1>3, UpdateRowKeys, UpdateRowBytes
<1>4. ASSUME NEW h \in Handler, InsertRow(h) PROVE BytesInv'
  BY <1>t, <1>4, InsertRowKeys, InsertRowBytes
<1>5. ASSUME NEW h \in Handler, Purge(Ops, h) PROVE BytesInv'
  BY <1>t, <1>5, PurgeKeys, PurgeBytes
<1>6. ASSUME NEW h \in Handler, Scan(h) PROVE BytesInv'
  BY <1>t, <1>6, ScanKeys, ScanBytesKept
<1>7. ASSUME NEW h \in Handler, Interrupt(h) PROVE BytesInv'
  <2>1. UNCHANGED <<files, versions, blobs, thumbs>> /\ Finish(h)
    BY <1>7 DEF Interrupt
  <2>2. Carried
    BY <2>1, FinishCarried
  <2>3. \A k \in Key : \A i : Known(k, i)' => Known(k, i)
    BY <1>u, <2>1, <2>2, KnownShrinks
  <2>4. OthersSame(h) /\ Ready(h)'
    BY <1>t, <2>1, FinishReady
  <2>5. NewKeysOnly
    BY <1>7, <2>2, CarriedKeys DEF Interrupt
  <2> QED BY <1>t, <2>1, <2>3, <2>4, <2>5, BytesKept DEF RowsKept, Spared, OthersSame, BytesInv
<1>8. ASSUME EditRow PROVE BytesInv'
  BY <1>t, <1>8, EditKeys, EditBytes
<1>9. ASSUME NEW h \in Handler, Throws, FailPhoto(h) PROVE BytesInv'
  BY <1>t, <1>9, FailPhotoBytes
<1> QED BY <1>1, <1>2, <1>3, <1>4, <1>5, <1>6, <1>7, <1>8, <1>9, QuietSteps

LEMMA BytesStutter ==
  ASSUME KeyInv, BytesInv, UNCHANGED vars
  PROVE  BytesInv'
<1>1. \A h \in Handler : Same(h)
  BY DEF vars, Same
<1>2. RowsKept /\ Spared
  BY DEF vars, RowsKept, Spared
<1>3. \A k \in Key : \A i : Known(k, i)' => Known(k, i)
  BY DEF vars, Known
<1>4. NewKeysOnly
  BY CarriedSame, CarriedKeys DEF vars
<1> QED BY <1>1, <1>2, <1>3, <1>4, KeysStutter, BytesKept DEF vars, BytesInv

(* Every row, current or archived, has its bytes in the store and its      *)
(* thumbnail beside them, at every moment, whatever the write paths, the   *)
(* trash, purges, hard deletes, moves and crashes do to each other: as     *)
(* long as no write is undone and no version is restored or deleted.  The  *)
(* one exception is a photo upload of which a statement threw after its    *)
(* INSERT: what its own upload put, and nothing else, may be gone.         *)
THEOREM RowsHaveTheirBytes ==
  ASSUME Quiet
  PROVE  Spec => []NothingDangles
<1>1. Init => KeyInv /\ BytesInv
  <2> SUFFICES ASSUME Init PROVE BytesInv
    BY InitKeys
  <2>1. \A h \in Handler : req[h].pc = "idle"
    BY DEF Init, NoRequest
  <2>2. \A h \in Handler : Ready(h)
    BY <2>1 DEF Ready, Fresh, ReplacedPoint
  <2> QED BY <2>2 DEF Init, BytesInv
<1>2. KeyInv /\ BytesInv /\ [Next]_vars => KeyInv' /\ BytesInv'
  BY KeysStep, KeysStutter, BytesStep, BytesStutter
<1>3. KeyInv /\ BytesInv => NothingDangles
  <2> SUFFICES ASSUME KeyInv, BytesInv PROVE NothingDangles
    OBVIOUS
  <2>1. ASSUME NEW f \in files PROVE f.key \in blobs \/ GivenUp(f, f.key)
    <3>1. f.key \in Key /\ f.id \in Key /\ Known(f.key, f.id)
      BY KnownTypes DEF KeyInv, Known
    <3> QED BY <3>1 DEF BytesInv
  <2>2. ASSUME NEW v \in versions
        PROVE  v.key \in blobs \/ \E f \in ById(v.file) : GivenUp(f, v.key)
    <3>1. v.key \in Key /\ v.file \in Key /\ Known(v.key, v.file)
      BY KnownTypes DEF KeyInv, Known
    <3>2. PICK f \in files : f.id = v.file
      BY DEF BytesInv
    <3> QED BY <3>1, <3>2 DEF BytesInv, ById
  <2> QED BY <2>1, <2>2 DEF BytesInv, NothingDangles
<1> QED BY <1>1, <1>2, <1>3, PTL DEF Spec

---------------------------------------------------------------------------
(* The history of a file *)

(* Nothing takes versions away from a file but with the file.              *)
Keeping == Quiet /\ "purge" \notin Ops

(* Version n of the file i held the bytes k, as a row, an archived version *)
(* or the row some request has read tells.                                 *)
Held(i, n, k) ==
  \/ \E f \in files : f.id = i /\ f.version = n /\ f.key = k
  \/ \E v \in versions : v.file = i /\ v.version = n /\ v.key = k
  \/ \E h \in Handler : \E f \in req[h].rows : f.id = i /\ f.version = n /\ f.key = k

(* A number has one key and a key one number, and no number is ahead of    *)
(* the row's.                                                              *)
OneKeyPerNumber ==
  \A i, k, l \in Key, n \in Nat : Held(i, n, k) /\ Held(i, n, l) => k = l
OneNumberPerKey ==
  \A i, k \in Key, n, m \in Nat : Held(i, n, k) /\ Held(i, m, k) => n = m
NoneAhead ==
  \A i, k \in Key, n \in Nat, f \in files : Held(i, n, k) /\ f.id = i => n <= f.version

UniqueVersions ==
  \A v, w \in versions : v.file = w.file /\ v.version = w.version => v = w

HasVersion(i, n) == \E v \in versions : v.file = i /\ v.version = n

AllBehind == \A f \in files : \A n \in 1 .. f.version - 1 : HasVersion(f.id, n)

(* A request about to overwrite a row has archived the row as it is, and   *)
(* is the only one about to.                                               *)
Storing(h) == \A f \in req[h].rows, g \in files :
  g.id = f.id => g.version = f.version /\ HasVersion(f.id, f.version)

OneStores == \A h, g \in Handler : \A f \in req[h].rows, e \in req[g].rows, d \in files :
  At(h, "update") /\ At(g, "update") /\ f.id = e.id /\ d.id = f.id => h = g

HistInv ==
  /\ OneKeyPerNumber /\ OneNumberPerKey /\ NoneAhead /\ UniqueVersions /\ AllBehind
  /\ \A h \in Handler : At(h, "update") => Storing(h)
  /\ OneStores
  /\ \A h \in Handler : ~At(h, "list versions") /\ ~At(h, "purge versions")

LEMMA NumberTypes ==
  ASSUME TypeInv
  PROVE  /\ \A f \in files : f.version \in Nat \ {0} /\ f.key \in Key /\ f.id \in Key
         /\ \A v \in versions : v.version \in Nat \ {0} /\ v.key \in Key /\ v.file \in Key
         /\ \A h \in Handler : \A f \in req[h].rows :
              f.version \in Nat \ {0} /\ f.key \in Key /\ f.id \in Key
<1>1. /\ files \subseteq FileRow /\ versions \subseteq VersionRow
      /\ \A h \in Handler : req[h].rows \subseteq FileRow
  BY DEF TypeInv, TypeOK, Request
<1> QED BY <1>1 DEF FileRow, VersionRow

LEMMA HeldKnown ==
  ASSUME NEW i, NEW n, NEW k, Held(i, n, k)
  PROVE  Known(k, i)
BY DEF Held, Known

(* A step that stores no row: the rows and versions are some of those      *)
(* before, but for verdicts, names and state, and no version of a file     *)
(* that stays is lost.                                                     *)
RowsStay == \A f \in files' : \E g \in files :
  f.id = g.id /\ f.version = g.version /\ f.key = g.key
VersionsStay == \A v \in versions' : \E w \in versions :
  v.file = w.file /\ v.version = w.version /\ v.key = w.key
NoVersionLost == \A v \in versions : (\E f \in files' : f.id = v.file) =>
  \E w \in versions' : w.file = v.file /\ w.version = v.version
RowsRead == \A g \in Handler : \A f \in req'[g].rows : f \in files \/ f \in req[g].rows
NoneArchives == \A g \in Handler :
  /\ req'[g].pc = "update" => req[g].pc = "update" /\ req'[g].rows = req[g].rows
  /\ req'[g].pc \notin {"list versions", "purge versions"}

LEMMA HeldStays ==
  ASSUME RowsStay, VersionsStay, RowsRead, NEW i, NEW n, NEW k, Held(i, n, k)'
  PROVE  Held(i, n, k)
<1>1. CASE \E f \in files' : f.id = i /\ f.version = n /\ f.key = k
  BY <1>1 DEF Held, RowsStay
<1>2. CASE \E v \in versions' : v.file = i /\ v.version = n /\ v.key = k
  BY <1>2 DEF Held, VersionsStay
<1>3. CASE \E h \in Handler : \E f \in req'[h].rows : f.id = i /\ f.version = n /\ f.key = k
  BY <1>3 DEF Held, RowsRead
<1> QED BY <1>1, <1>2, <1>3 DEF Held

LEMMA HistoryKept ==
  ASSUME KeyInv, HistInv, UniqueVersions', RowsStay, VersionsStay, NoVersionLost, RowsRead,
         NoneArchives
  PROVE  HistInv'
<1>1. \A i, n, k : Held(i, n, k)' => Held(i, n, k)
  BY HeldStays
<1>2. OneKeyPerNumber' /\ OneNumberPerKey'
  BY <1>1 DEF HistInv, OneKeyPerNumber, OneNumberPerKey
<1>3. NoneAhead'
  <2> SUFFICES ASSUME NEW i \in Key, NEW k \in Key, NEW n \in Nat, NEW f \in files',
                      Held(i, n, k)', f.id = i
               PROVE  n <= f.version
    BY DEF NoneAhead
  <2>1. PICK g \in files : f.id = g.id /\ f.version = g.version
    BY DEF RowsStay
  <2> QED BY <1>1, <2>1 DEF HistInv, NoneAhead
<1>4. \A i, n : (\E f \in files' : f.id = i) /\ HasVersion(i, n) => HasVersion(i, n)'
  BY DEF HasVersion, NoVersionLost
<1>5. AllBehind'
  <2> SUFFICES ASSUME NEW f \in files', NEW n \in 1 .. f.version - 1
               PROVE  HasVersion(f.id, n)'
    BY DEF AllBehind
  <2>1. PICK g \in files : f.id = g.id /\ f.version = g.version
    BY DEF RowsStay
  <2>2. HasVersion(f.id, n)
    BY <2>1 DEF HistInv, AllBehind
  <2> QED BY <1>4, <2>2
<1>6. \A h \in Handler : At(h, "update")' => Storing(h)'
  <2> SUFFICES ASSUME NEW h \in Handler, req'[h].pc = "update",
                      NEW f \in req'[h].rows, NEW g \in files', g.id = f.id
               PROVE  g.version = f.version /\ HasVersion(f.id, f.version)'
    BY DEF At, Storing
  <2>1. PICK e \in files : e.id = g.id /\ e.version = g.version
    BY DEF RowsStay
  <2>2. f \in req[h].rows /\ req[h].pc = "update"
    BY DEF NoneArchives
  <2>3. Storing(h)
    BY <2>2 DEF HistInv, At
  <2>4. g.version = f.version /\ HasVersion(f.id, f.version)
    BY <2>1, <2>2, <2>3 DEF Storing
  <2> QED BY <1>4, <2>4
<1>7. OneStores'
  <2> SUFFICES ASSUME NEW h \in Handler, NEW g \in Handler, NEW f \in req'[h].rows,
                      NEW e \in req'[g].rows, NEW d \in files',
                      req'[h].pc = "update", req'[g].pc = "update", f.id = e.id, d.id = f.id
               PROVE  h = g
    BY DEF OneStores, At
  <2>1. PICK c \in files : c.id = d.id
    BY DEF RowsStay
  <2>2. /\ req[h].pc = "update" /\ req[g].pc = "update"
        /\ f \in req[h].rows /\ e \in req[g].rows
    BY DEF NoneArchives
  <2> QED BY <2>1, <2>2 DEF HistInv, OneStores, At
<1>8. \A h \in Handler : ~At(h, "list versions")' /\ ~At(h, "purge versions")'
  BY DEF At, NoneArchives
<1> QED BY <1>2, <1>3, <1>5, <1>6, <1>7, <1>8 DEF HistInv

(* The row a request archives is the row as it is: every number below the  *)
(* current one is taken, so one that is free is the current one.           *)
LEMMA ArchiveHistory ==
  ASSUME KeyInv, KeyInv', HistInv, NEW h \in Handler, NEW f \in req[h].rows,
         At(h, "archive"), \A e \in req[h].rows : e = f, CanInsert(Archived(f)),
         versions' = versions \cup {Archived(f)}, files' = files, Goto(h, "update")
  PROVE  HistInv'
<1>t. TypeInv
  BY DEF KeyInv
<1>1. /\ OthersSame(h) /\ req'[h].pc = "update" /\ req'[h].rows = req[h].rows
  BY <1>t, GotoFields
<1>2. /\ Archived(f).file = f.id /\ Archived(f).version = f.version /\ Archived(f).key = f.key
  BY DEF Archived
<1>3. PICK d \in files : d.id = f.id
  BY <1>2 DEF CanInsert
<1>4. ~HasVersion(f.id, f.version)
  BY <1>2 DEF CanInsert, HasVersion
<1>5. /\ f.version \in Nat \ {0} /\ f.key \in Key /\ f.id \in Key
      /\ d.version \in Nat \ {0}
  BY <1>t, NumberTypes
<1>6. d.version = f.version
  <2>1. Held(f.id, f.version, f.key)
    BY DEF Held
  <2>2. f.version <= d.version
    BY <1>3, <1>5, <2>1 DEF HistInv, NoneAhead
  <2>3. ~(f.version \in 1 .. d.version - 1)
    BY <1>3, <1>4 DEF HistInv, AllBehind
  <2> QED BY <1>5, <2>2, <2>3
<1>7. \A i, n, k : Held(i, n, k)' => Held(i, n, k)
  <2> SUFFICES ASSUME NEW i, NEW n, NEW k, Held(i, n, k)' PROVE Held(i, n, k)
    OBVIOUS
  <2>1. CASE \E e \in files' : e.id = i /\ e.version = n /\ e.key = k
    BY <2>1 DEF Held
  <2>2. CASE \E v \in versions' : v.file = i /\ v.version = n /\ v.key = k
    BY <1>2, <2>2 DEF Held
  <2>3. CASE \E g \in Handler : \E e \in req'[g].rows : e.id = i /\ e.version = n /\ e.key = k
    <3>1. \A g \in Handler : req'[g].rows = req[g].rows
      BY <1>1 DEF OthersSame, Same
    <3> QED BY <2>3, <3>1 DEF Held
  <2> QED BY <2>1, <2>2, <2>3 DEF Held
<1>8. OneKeyPerNumber' /\ OneNumberPerKey'
  BY <1>7 DEF HistInv, OneKeyPerNumber, OneNumberPerKey
<1>9. NoneAhead'
  BY <1>7 DEF HistInv, NoneAhead
<1>10. UniqueVersions'
  <2>1. \A w \in versions : ~(w.file = f.id /\ w.version = f.version)
    BY <1>4 DEF HasVersion
  <2> SUFFICES ASSUME NEW v \in versions', NEW w \in versions',
                      v.file = w.file, v.version = w.version
               PROVE  v = w
    BY DEF UniqueVersions
  <2>2. CASE v \in versions /\ w \in versions
    BY <2>2 DEF HistInv, UniqueVersions
  <2>3. CASE v \notin versions \/ w \notin versions
    BY <1>2, <2>1, <2>3
  <2> QED BY <2>2, <2>3
<1>11. \A i, n : HasVersion(i, n) => HasVersion(i, n)'
  BY DEF HasVersion
<1>12. AllBehind'
  BY <1>11 DEF HistInv, AllBehind
<1>13. \A g \in Handler : At(g, "update")' => Storing(g)'
  <2> SUFFICES ASSUME NEW g \in Handler, req'[g].pc = "update",
                      NEW e \in req'[g].rows, NEW c \in files', c.id = e.id
               PROVE  c.version = e.version /\ HasVersion(e.id, e.version)'
    BY DEF At, Storing
  <2>1. CASE g = h
    <3>1. e = f
      BY <1>1, <2>1
    <3>2. c = d
      BY <1>3, <3>1 DEF KeyInv, OneRowPerId
    <3>3. HasVersion(f.id, f.version)'
      BY <1>2 DEF HasVersion
    <3> QED BY <1>6, <3>1, <3>2, <3>3
  <2>2. CASE g # h
    <3>1. req[g].pc = "update" /\ e \in req[g].rows
      BY <1>1, <2>2 DEF OthersSame, Same
    <3>2. Storing(g)
      BY <3>1 DEF HistInv, At
    <3>3. c.version = e.version /\ HasVersion(e.id, e.version)
      BY <3>1, <3>2 DEF Storing
    <3> QED BY <1>11, <3>3
  <2> QED BY <2>1, <2>2
<1>14. ASSUME NEW g \in Handler, g # h, req[g].pc = "update", NEW e \in req[g].rows
       PROVE  e.id # f.id
  <2> SUFFICES ASSUME e.id = f.id PROVE FALSE
    OBVIOUS
  <2>1. Storing(g)
    BY <1>14 DEF HistInv, At
  <2>2. d.version = e.version /\ HasVersion(e.id, e.version)
    BY <1>3, <2>1 DEF Storing
  <2> QED BY <1>4, <1>6, <2>2
<1>15. OneStores'
  <2> SUFFICES ASSUME NEW g \in Handler, NEW j \in Handler, NEW a \in req'[g].rows,
                      NEW e \in req'[j].rows, NEW c \in files',
                      req'[g].pc = "update", req'[j].pc = "update", a.id = e.id, c.id = a.id
               PROVE  g = j
    BY DEF OneStores, At
  <2>1. CASE g # h /\ j # h
    <3>1. /\ req[g].pc = "update" /\ req[j].pc = "update"
          /\ a \in req[g].rows /\ e \in req[j].rows
      BY <1>1, <2>1 DEF OthersSame, Same
    <3> QED BY <3>1 DEF HistInv, OneStores, At
  <2>2. CASE g = h /\ j # h
    <3>1. req[j].pc = "update" /\ e \in req[j].rows /\ a = f
      BY <1>1, <2>2 DEF OthersSame, Same
    <3> QED BY <1>14, <2>2, <3>1
  <2>3. CASE g # h /\ j = h
    <3>1. req[g].pc = "update" /\ a \in req[g].rows /\ e = f
      BY <1>1, <2>3 DEF OthersSame, Same
    <3> QED BY <1>14, <2>3, <3>1
  <2> QED BY <2>1, <2>2, <2>3
<1>16. \A g \in Handler : ~At(g, "list versions")' /\ ~At(g, "purge versions")'
  BY <1>1 DEF HistInv, At, OthersSame, Same
<1> QED BY <1>8, <1>9, <1>10, <1>12, <1>13, <1>15, <1>16 DEF HistInv

LEMMA StoresStay ==
  ASSUME OneStores, \A d \in files' : \E b \in files : d.id = b.id,
         \A g \in Handler : req'[g].rows = req[g].rows,
         \A g \in Handler : req'[g].pc = "update" => req[g].pc = "update"
  PROVE  OneStores'
<1> SUFFICES ASSUME NEW g \in Handler, NEW j \in Handler, NEW a \in req'[g].rows,
                    NEW e \in req'[j].rows, NEW c \in files',
                    req'[g].pc = "update", req'[j].pc = "update", a.id = e.id, c.id = a.id
             PROVE  g = j
  BY DEF OneStores, At
<1>1. req[g].pc = "update" /\ req[j].pc = "update"
  OBVIOUS
<1>2. a \in req[g].rows /\ e \in req[j].rows
  OBVIOUS
<1> QED BY <1>1, <1>2 DEF OneStores, At

(* The arithmetic of the next number.                                      *)
LEMMA NextNumber ==
  ASSUME NEW m \in Nat
  PROVE  /\ m + 1 \in Nat /\ ~(m + 1 <= m) /\ m + 1 <= m + 1
         /\ \A n \in Nat : n <= m => n <= m + 1
         /\ \A n \in 1 .. (m + 1) - 1 : n = m \/ n \in 1 .. m - 1
OBVIOUS

(* The row takes the key of the write, at the next number.                 *)
LEMMA UpdateHistory ==
  ASSUME KeyInv, KeyInv', HistInv, NEW h \in Handler, UpdateRow(h)
  PROVE  HistInv'
<1>t. TypeInv
  BY DEF KeyInv
<1>1. PICK f \in req[h].rows :
         /\ files' = {IF g.id = f.id THEN Overwritten(g, f, req[h]) ELSE g : g \in files}
         /\ Goto(h, IF req[h].op \in DropsEarly /\ f.thumb # Null
                    THEN "drop early" ELSE "check")
  BY DEF UpdateRow
<1>2. /\ Fresh(h) /\ req[h].pc = "update" /\ versions' = versions
  BY DEF UpdateRow, At, KeyInv, TypeInv, WriterKnown, WriterPoint, Fresh
<1>3. PICK to \in {"drop early", "check"} : Goto(h, to)
  BY <1>1
<1>4. /\ OthersSame(h) /\ req'[h].pc = to /\ req'[h].rows = req[h].rows
  BY <1>3, <1>t, GotoFields
<1>5. f \in FileRow /\ files \subseteq FileRow
  BY <1>t DEF TypeInv, TypeOK, Request
<1>6. /\ f.version \in Nat \ {0} /\ f.key \in Key /\ f.id \in Key
      /\ \A g \in files : g.version \in Nat \ {0} /\ g.id \in Key
  BY <1>t, NumberTypes
<1>7. PICK c \in Key : /\ c = req[h].key
                       /\ \A k \in Key : ~Known(c, k) /\ ~Known(k, c)
  BY <1>2 DEF KeyInv, TypeInv, WriterKnown, Fresh, Targeted, FreshUnknown
<1>v. PICK m \in Nat : m = f.version /\ m # 0
  BY <1>6
<1>w. /\ m + 1 \in Nat /\ ~(m + 1 <= m) /\ m + 1 <= m + 1
      /\ \A n \in Nat : n <= m => n <= m + 1
      /\ \A n \in 1 .. (m + 1) - 1 : n = m \/ n \in 1 .. m - 1
  BY NextNumber
<1>8. \A g \in files : g.id = f.id => g.version = m /\ HasVersion(f.id, m)
  <2>1. Storing(h)
    BY <1>2 DEF HistInv, At
  <2> QED BY <1>v, <2>1 DEF Storing
<1>9. \A e \in files' : \E g \in files :
        /\ e.id = g.id
        /\ g.id = f.id => e.key = c /\ e.version = m + 1
        /\ g.id # f.id => e = g
  <2>1. \A g \in files : /\ Overwritten(g, f, req[h]).id = g.id
                         /\ Overwritten(g, f, req[h]).key = req[h].key
                         /\ Overwritten(g, f, req[h]).version = f.version + 1
    <3> SUFFICES ASSUME NEW g \in files
                 PROVE  /\ Overwritten(g, f, req[h]).id = g.id
                        /\ Overwritten(g, f, req[h]).key = req[h].key
                        /\ Overwritten(g, f, req[h]).version = f.version + 1
      OBVIOUS
    <3>1. g \in FileRow
      BY <1>5
    <3> QED BY <1>5, <3>1, OverwrittenFields
  <2> QED BY <1>1, <1>7, <1>v, <2>1
<1>10. \A g \in Handler : req'[g].rows = req[g].rows
  BY <1>4 DEF OthersSame, Same
<1> DEFINE new(i, n, k) == i = f.id /\ n = m + 1 /\ k = c /\ \E g \in files : g.id = f.id
<1>11. \A i, n, k : Held(i, n, k)' => Held(i, n, k) \/ new(i, n, k)
  <2> SUFFICES ASSUME NEW i, NEW n, NEW k, Held(i, n, k)' PROVE Held(i, n, k) \/ new(i, n, k)
    OBVIOUS
  <2>1. CASE \E e \in files' : e.id = i /\ e.version = n /\ e.key = k
    <3>1. PICK e \in files' : e.id = i /\ e.version = n /\ e.key = k
      BY <2>1
    <3>2. PICK g \in files : /\ e.id = g.id
                             /\ g.id = f.id => e.key = c /\ e.version = m + 1
                             /\ g.id # f.id => e = g
      BY <1>9
    <3>3. CASE g.id = f.id
      BY <3>1, <3>2, <3>3
    <3>4. CASE g.id # f.id
      BY <3>1, <3>2, <3>4 DEF Held
    <3> QED BY <3>3, <3>4
  <2>2. CASE \E v \in versions' : v.file = i /\ v.version = n /\ v.key = k
    BY <1>2, <2>2 DEF Held
  <2>3. CASE \E g \in Handler : \E e \in req'[g].rows : e.id = i /\ e.version = n /\ e.key = k
    BY <1>10, <2>3 DEF Held
  <2> QED BY <2>1, <2>2, <2>3 DEF Held
<1>12. ASSUME NEW n \in Nat, NEW k \in Key, NEW g \in files, g.id = f.id, Held(f.id, n, k)
       PROVE  n <= m /\ k # c
  <2>1. n <= g.version
    BY <1>6, <1>12 DEF HistInv, NoneAhead
  <2>2. Known(k, f.id)
    BY <1>12, HeldKnown
  <2> QED BY <1>6, <1>7, <1>8, <1>12, <2>1, <2>2
<1> HIDE DEF new
<1>13. OneKeyPerNumber'
  <2> SUFFICES ASSUME NEW i \in Key, NEW k \in Key, NEW l \in Key, NEW n \in Nat,
                      Held(i, n, k)', Held(i, n, l)'
               PROVE  k = l
    BY DEF OneKeyPerNumber
  <2>1. CASE Held(i, n, k) /\ Held(i, n, l)
    BY <2>1 DEF HistInv, OneKeyPerNumber
  <2>2. CASE new(i, n, k) /\ Held(i, n, l)
    BY <1>w, <1>12, <2>2 DEF new
  <2>3. CASE new(i, n, l) /\ Held(i, n, k)
    BY <1>w, <1>12, <2>3 DEF new
  <2>4. CASE new(i, n, k) /\ new(i, n, l)
    BY <2>4 DEF new
  <2> QED BY <1>11, <2>1, <2>2, <2>3, <2>4
<1>14. OneNumberPerKey'
  <2> SUFFICES ASSUME NEW i \in Key, NEW k \in Key, NEW o \in Nat, NEW n \in Nat,
                      Held(i, n, k)', Held(i, o, k)'
               PROVE  n = o
    BY DEF OneNumberPerKey
  <2>1. CASE Held(i, n, k) /\ Held(i, o, k)
    BY <2>1 DEF HistInv, OneNumberPerKey
  <2>2. CASE new(i, n, k) /\ Held(i, o, k)
    BY <1>w, <1>12, <2>2 DEF new
  <2>3. CASE new(i, o, k) /\ Held(i, n, k)
    BY <1>w, <1>12, <2>3 DEF new
  <2>4. CASE new(i, n, k) /\ new(i, o, k)
    BY <2>4 DEF new
  <2> QED BY <1>11, <2>1, <2>2, <2>3, <2>4
<1>15. NoneAhead'
  <2> SUFFICES ASSUME NEW i \in Key, NEW k \in Key, NEW n \in Nat, NEW e \in files',
                      Held(i, n, k)', e.id = i
               PROVE  n <= e.version
    BY DEF NoneAhead
  <2>1. PICK g \in files : /\ e.id = g.id
                           /\ g.id = f.id => e.key = c /\ e.version = m + 1
                           /\ g.id # f.id => e = g
    BY <1>9
  <2>2. CASE g.id = f.id
    <3>1. CASE Held(i, n, k)
      <4>1. n <= m
        BY <1>12, <2>1, <2>2, <3>1
      <4> QED BY <1>w, <2>1, <2>2, <4>1
    <3>2. CASE new(i, n, k)
      <4>1. n = m + 1
        BY <3>2 DEF new
      <4>2. e.version = m + 1
        BY <2>1, <2>2
      <4> QED BY <1>w, <4>1, <4>2
    <3> QED BY <1>11, <3>1, <3>2
  <2>3. CASE g.id # f.id
    <3>1. Held(i, n, k)
      BY <1>11, <2>1, <2>3 DEF new
    <3> QED BY <2>1, <2>3, <3>1 DEF HistInv, NoneAhead
  <2> QED BY <2>2, <2>3
<1>16. \A i, n : HasVersion(i, n)' = HasVersion(i, n)
  BY <1>2 DEF HasVersion
<1>17. AllBehind'
  <2> SUFFICES ASSUME NEW e \in files', NEW n \in 1 .. e.version - 1
               PROVE  HasVersion(e.id, n)'
    BY DEF AllBehind
  <2>1. PICK g \in files : /\ e.id = g.id
                           /\ g.id = f.id => e.key = c /\ e.version = m + 1
                           /\ g.id # f.id => e = g
    BY <1>9
  <2>2. CASE g.id = f.id
    <3>1. n = m \/ n \in 1 .. g.version - 1
      <4>1. e.version = m + 1 /\ g.version = m
        BY <1>8, <2>1, <2>2
      <4>2. n \in 1 .. (m + 1) - 1
        BY <4>1
      <4>3. n = m \/ n \in 1 .. m - 1
        BY <1>w, <4>2
      <4> QED BY <4>1, <4>3
    <3>2. n \in 1 .. g.version - 1 => HasVersion(g.id, n)
      BY DEF HistInv, AllBehind
    <3>3. HasVersion(f.id, m)
      BY <1>8, <2>2
    <3> QED BY <1>16, <2>1, <2>2, <3>1, <3>2, <3>3
  <2>3. CASE g.id # f.id
    <3>1. HasVersion(g.id, n)
      BY <2>1, <2>3 DEF HistInv, AllBehind
    <3> QED BY <1>16, <2>1, <3>1
  <2> QED BY <2>2, <2>3
<1>18. \A g \in Handler : req'[g].pc = "update" => g # h /\ req[g].pc = "update"
  BY <1>4 DEF OthersSame, Same
<1>19. \A g \in Handler : At(g, "update")' => Storing(g)'
  <2> SUFFICES ASSUME NEW g \in Handler, req'[g].pc = "update",
                      NEW e \in req'[g].rows, NEW d \in files', d.id = e.id
               PROVE  d.version = e.version /\ HasVersion(e.id, e.version)'
    BY DEF At, Storing
  <2>1. PICK b \in files : /\ d.id = b.id
                           /\ b.id # f.id => d = b
    BY <1>9
  <2>2. e \in req[g].rows /\ req[g].pc = "update" /\ g # h
    BY <1>10, <1>18
  <2>3. b.id # f.id
    BY <1>2, <2>1, <2>2 DEF HistInv, OneStores, At
  <2>4. Storing(g)
    BY <2>2 DEF HistInv, At
  <2>5. b.version = e.version /\ HasVersion(e.id, e.version)
    BY <2>1, <2>2, <2>4 DEF Storing
  <2> QED BY <1>16, <2>1, <2>3, <2>5
<1>20. OneStores'
  <2>1. \A d \in files' : \E b \in files : d.id = b.id
    BY <1>9
  <2>2. OneStores
    BY DEF HistInv
  <2>3. \A g \in Handler : req'[g].pc = "update" => req[g].pc = "update"
    BY <1>18
  <2> QED BY <1>10, <2>1, <2>2, <2>3, StoresStay
<1>21. UniqueVersions'
  BY <1>2 DEF HistInv, UniqueVersions
<1>22. \A g \in Handler : ~At(g, "list versions")' /\ ~At(g, "purge versions")'
  BY <1>4 DEF HistInv, At, OthersSame, Same
<1> QED BY <1>13, <1>14, <1>15, <1>17, <1>19, <1>20, <1>21, <1>22 DEF HistInv

(* Every step but the three above leaves the history as it is: rows keep   *)
(* their numbers and keys, versions stay while their file does, and nobody *)
(* else gets to the point where a row is overwritten.                      *)
RowsRemain == \A f \in files : \E g \in files' : g.id = f.id /\ g.key = f.key
VersionsRemain == \A v \in versions : \E w \in versions' : w.file = v.file /\ w.key = v.key

LeavingPoint == {"purge rows", "purge blobs", "move row"}

Leaves == Ops \cap {"hard delete", "move"} # {}

Unmoved == RowsStay /\ VersionsStay /\ NoVersionLost /\ UniqueVersions'

Passing(h) ==
  /\ Unmoved /\ OthersSame(h)
  /\ \A f \in req'[h].rows : f \in files \/ f \in req[h].rows
  /\ req'[h].pc \notin {"update", "list versions", "purge versions"}
  /\ req[h].pc = "update" => Crashes
  /\ req[h].pc # "purge rows" => RowsRemain /\ VersionsRemain
  /\ req'[h].pc \in LeavingPoint => req[h].pc \in LeavingPoint \/ Leaves

LEMMA TablesRest ==
  ASSUME HistInv, files' = files, versions' = versions
  PROVE  Unmoved /\ RowsRemain /\ VersionsRemain
BY DEF HistInv, Unmoved, RowsStay, VersionsStay, NoVersionLost, UniqueVersions, RowsRemain,
       VersionsRemain

(* Rows and versions that lose no more than a name, a verdict or a state.  *)
LEMMA TablesRepaint ==
  ASSUME HistInv,
         \A f \in files' : \E g \in files : f.id = g.id /\ f.version = g.version /\ f.key = g.key,
         \A g \in files : \E f \in files' : f.id = g.id /\ f.key = g.key,
         versions' = versions
  PROVE  Unmoved /\ RowsRemain /\ VersionsRemain
BY DEF HistInv, Unmoved, RowsStay, VersionsStay, NoVersionLost, UniqueVersions, RowsRemain,
       VersionsRemain

LEMMA WriterPasses ==
  ASSUME KeyInv, HistInv, NEW h \in Handler,
         \/ \E p \in WritePath, n \in Name, k \in Key : BeginWrite(h, p, n, k)
         \/ PutBytes(h) \/ ReadExisting(h) \/ DropOldThumb(h) \/ Accept(h) \/ UndoBlob(h)
         \/ Interrupt(h) /\ Crashes
         \/ FailPhoto(h)
  PROVE  Passing(h)
<1>t. TypeInv
  BY DEF KeyInv
<1>1. UNCHANGED <<files, versions>>
  BY DEF BeginWrite, PutBytes, ReadExisting, DropOldThumb, Accept, UndoBlob, Interrupt, FailPhoto
<1>2. Unmoved /\ RowsRemain /\ VersionsRemain
  BY <1>1, TablesRest
<1>3. ASSUME OthersSame(h),
             \A f \in req'[h].rows : f \in files \/ f \in req[h].rows,
             req'[h].pc \in {"put", "archive", "insert", "read", "idle", "check", "drop late"},
             req[h].pc = "update" => Crashes
      PROVE  Passing(h)
  BY <1>2, <1>3 DEF Passing, LeavingPoint
<1>4. ASSUME Finish(h), req[h].pc = "update" => Crashes
      PROVE  Passing(h)
  <2>1. OthersSame(h) /\ req'[h].rows = {} /\ req'[h].pc = "idle"
    BY <1>t, <1>4, FinishFields
  <2> QED BY <1>3, <1>4, <2>1
<1>5. ASSUME NEW p \in WritePath, NEW n \in Name, NEW k \in Key, BeginWrite(h, p, n, k)
      PROVE  Passing(h)
  <2>1. /\ OthersSame(h) /\ req'[h].pc = "put"
        /\ req'[h].rows \in One(IF p \in ReadsFirst THEN Live(n) ELSE {})
    BY <1>t, <1>5, BeginWriteFields
  <2>2. \A f \in req'[h].rows : f \in files
    BY <2>1 DEF One, Live
  <2>3. req[h].pc = "idle"
    BY <1>5 DEF BeginWrite, At
  <2> QED BY <1>3, <2>1, <2>2, <2>3
<1>6. CASE PutBytes(h)
  <2>1. /\ OthersSame(h) /\ req'[h].pc = AfterPut(req[h]) /\ req'[h].rows = req[h].rows
    BY <1>t, <1>6, PutBytesFields
  <2>2. req[h].pc = "put"
    BY <1>6 DEF PutBytes, At
  <2> QED BY <1>3, <2>1, <2>2 DEF AfterPut
<1>7. CASE ReadExisting(h)
  <2>1. req[h].pc = "read"
    BY <1>7 DEF ReadExisting, At
  <2>2. CASE Finish(h)
    BY <1>4, <2>1, <2>2
  <2>3. CASE ~Finish(h)
    <3>1. /\ OthersSame(h) /\ req'[h].rows \in One(Existing(req[h]))
          /\ req'[h].pc = IF req'[h].rows = {} THEN "insert" ELSE "archive"
      BY <1>t, <1>7, <2>3, ReadExistingFields
    <3>2. \A f \in req'[h].rows : f \in files
      BY <3>1 DEF One, Existing, ById, Live
    <3> QED BY <1>3, <2>1, <3>1, <3>2
  <2> QED BY <2>2, <2>3
<1>8. CASE DropOldThumb(h) \/ Accept(h) \/ UndoBlob(h)
  <2>1. req[h].pc # "update"
    BY <1>8 DEF DropOldThumb, Accept, UndoBlob, At
  <2>2. Finish(h) \/ Goto(h, "check") \/ Goto(h, "drop late")
    BY <1>8 DEF DropOldThumb, Accept, UndoBlob
  <2>3. ASSUME NEW to \in {"check", "drop late"}, Goto(h, to)
        PROVE  Passing(h)
    <3>1. OthersSame(h) /\ req'[h].pc = to /\ req'[h].rows = req[h].rows
      BY <1>t, <2>3, GotoFields
    <3> QED BY <1>3, <2>1, <3>1
  <2> QED BY <1>4, <2>1, <2>2, <2>3
<1>9. CASE Interrupt(h) /\ Crashes
  BY <1>4, <1>9 DEF Interrupt
<1>10. CASE FailPhoto(h)
  BY <1>4, <1>10 DEF FailPhoto
<1> QED BY <1>5, <1>6, <1>7, <1>8, <1>9, <1>10

(* Hard deletes and moves take rows away with all their versions.          *)
LEMMA PurgePasses ==
  ASSUME KeyInv, HistInv, "purge" \notin Ops, NEW h \in Handler, Purge(Ops, h)
  PROVE  Passing(h)
<1>t. TypeInv
  BY DEF KeyInv
<1>0. req[h].pc \notin {"list versions", "purge versions"}
  BY DEF HistInv, At
<1>1. ASSUME files' = files, versions' = versions, OthersSame(h),
             \A f \in req'[h].rows : f \in files,
             req'[h].pc \in {"purge rows", "move row"}, Leaves, req[h].pc = "idle"
      PROVE  Passing(h)
  BY <1>1, TablesRest DEF Passing, LeavingPoint
<1>2. ASSUME NEW f \in files, BeginHardDelete(h, f), "hard delete" \in Ops
      PROVE  Passing(h)
  <2>1. PICK rows \in SUBSET files : rows = {f}
    OBVIOUS
  <2>2. req' = [req EXCEPT ![h] = [NoRequest EXCEPT !.pc = "purge rows", !.op = "hard delete", !.rows = rows]]
    BY <1>2, <2>1 DEF BeginHardDelete
  <2>3. OthersSame(h) /\ req'[h].pc = "purge rows" /\ req'[h].rows = rows
    BY <1>t, <2>2, BeginRowsFields
  <2> QED BY <1>1, <1>2, <2>1, <2>3 DEF BeginHardDelete, Leaves, At
<1>3. ASSUME NEW f \in files, NEW n \in Name, BeginMove(h, f, n), "move" \in Ops
      PROVE  Passing(h)
  <2>1. /\ OthersSame(h) /\ req'[h].rows \in One(Live(n))
        /\ req'[h].pc \in {"move row", "purge rows"}
    BY <1>t, <1>3, BeginMoveFields
  <2>2. \A e \in req'[h].rows : e \in files
    BY <2>1 DEF One, Live
  <2> QED BY <1>1, <1>3, <2>1, <2>2 DEF BeginMove, Leaves, At
<1>4. ASSUME NEW to \in {"purge blobs", "move row", "idle"}, Goto(h, to) \/ Finish(h)
      PROVE  /\ OthersSame(h) /\ req'[h].pc \in {"purge blobs", "move row", "idle"}
             /\ \A f \in req'[h].rows : f \in req[h].rows
  BY <1>t, <1>4, GotoFields, FinishFields
<1>5. CASE PurgeRows(h)
  <2>1. /\ files' = {f \in files : f.id \notin Ids(req[h].rows)}
        /\ versions' = {v \in versions : v.file \notin Ids(req[h].rows)}
        /\ req[h].pc = "purge rows" /\ Goto(h, "purge blobs")
    BY <1>5 DEF PurgeRows, DeleteFiles, At
  <2>2. Unmoved
    BY <2>1 DEF HistInv, Unmoved, RowsStay, VersionsStay, NoVersionLost, UniqueVersions
  <2> QED BY <1>4, <2>1, <2>2 DEF Passing, LeavingPoint
<1>6. CASE DropBlobs(h)
  <2>1. /\ files' = files /\ versions' = versions /\ req[h].pc = "purge blobs"
        /\ Goto(h, "move row") \/ Finish(h)
    BY <1>6 DEF DropBlobs, At
  <2> QED BY <1>4, <2>1, TablesRest DEF Passing, LeavingPoint
<1>7. CASE MoveRow(h)
  <2>1. \A f \in files : LET e == [f EXCEPT !.name = req[h].name]
                         IN e.id = f.id /\ e.key = f.key /\ e.version = f.version
    BY <1>t DEF TypeInv, TypeOK, FileRow
  <2>2. /\ files' = {IF f.id = req[h].key THEN [f EXCEPT !.name = req[h].name] ELSE f : f \in files}
        /\ versions' = versions /\ req[h].pc = "move row" /\ Finish(h)
    BY <1>7 DEF MoveRow, At
  <2>3. Unmoved /\ RowsRemain /\ VersionsRemain
    <3>1. \A f \in files' : \E g \in files :
            f.id = g.id /\ f.version = g.version /\ f.key = g.key
      BY <2>1, <2>2
    <3>2. \A g \in files : \E f \in files' : f.id = g.id /\ f.key = g.key
      BY <2>1, <2>2
    <3> QED BY <2>2, <3>1, <3>2, TablesRepaint
  <2> QED BY <1>4, <2>2, <2>3 DEF Passing, LeavingPoint
<1>8. ~ListVersions(h) /\ ~PurgeVersions(h)
  BY <1>0 DEF ListVersions, PurgeVersions, At
<1> QED BY <1>2, <1>3, <1>5, <1>6, <1>7, <1>8 DEF Purge

LEMMA ScanPasses ==
  ASSUME KeyInv, HistInv, NEW h \in Handler, Scan(h)
  PROVE  Passing(h)
<1>t. TypeInv
  BY DEF KeyInv
<1>1. ASSUME Unmoved, RowsRemain, VersionsRemain, OthersSame(h),
             \A f \in req'[h].rows : f \in req[h].rows,
             req'[h].pc \in {"scan bytes", "verdict on file", "verdict on version", "idle"},
             req[h].pc # "update"
      PROVE  Passing(h)
  BY <1>1 DEF Passing, LeavingPoint
<1>2. ASSUME NEW v \in ScanCandidates, BeginScan(h, v)
      PROVE  Passing(h)
  <2>1. OthersSame(h) /\ req'[h].pc = "scan bytes" /\ req'[h].rows = {}
    BY <1>t, <1>2, BeginScanFields
  <2> QED BY <1>1, <1>2, <2>1, TablesRest DEF BeginScan, At
<1>3. CASE ScanBytes(h)
  <2>1. OthersSame(h) /\ req'[h].pc = "verdict on file" /\ req'[h].rows = req[h].rows
    BY <1>t, <1>3, ScanBytesFields
  <2> QED BY <1>1, <1>3, <2>1, TablesRest DEF ScanBytes, At
<1>4. CASE VerdictOnFile(h)
  <2>1. PICK v \in req[h].vers :
          files' = {IF MatchesFile(f, v) THEN [f EXCEPT !.scan = req[h].verdict] ELSE f : f \in files}
    BY <1>4 DEF VerdictOnFile
  <2>2. \A f \in files : LET e == [f EXCEPT !.scan = req[h].verdict]
                         IN e.id = f.id /\ e.key = f.key /\ e.version = f.version
    BY <1>t DEF TypeInv, TypeOK, FileRow
  <2>3. \A f \in files' : \E g \in files :
          f.id = g.id /\ f.version = g.version /\ f.key = g.key
    BY <2>1, <2>2
  <2>4. \A g \in files : \E f \in files' : f.id = g.id /\ f.key = g.key
    BY <2>1, <2>2
  <2>5. /\ OthersSame(h) /\ req'[h].pc = "verdict on version" /\ req'[h].rows = req[h].rows
        /\ versions' = versions /\ req[h].pc = "verdict on file"
    BY <1>t, <1>4, GotoFields DEF VerdictOnFile, At
  <2> QED BY <1>1, <2>3, <2>4, <2>5, TablesRepaint
<1>5. CASE VerdictOnVersion(h)
  <2>1. PICK v \in req[h].vers :
          versions' = {IF MatchesVersion(w, v) THEN [w EXCEPT !.scan = req[h].verdict] ELSE w : w \in versions}
    BY <1>5 DEF VerdictOnVersion
  <2> DEFINE mark(w) == IF MatchesVersion(w, v) THEN [w EXCEPT !.scan = req[h].verdict] ELSE w
  <2>2. \A w \in versions :
          mark(w).file = w.file /\ mark(w).version = w.version /\ mark(w).key = w.key
    BY <1>t DEF TypeInv, TypeOK, VersionRow
  <2>3. versions' = {mark(w) : w \in versions}
    BY <2>1
  <2> HIDE DEF mark
  <2>4. files' = files /\ Finish(h) /\ req[h].pc = "verdict on version"
    BY <1>5 DEF VerdictOnVersion, At
  <2>5. VersionsStay /\ NoVersionLost /\ VersionsRemain
    BY <2>2, <2>3 DEF VersionsStay, NoVersionLost, VersionsRemain
  <2>6. UniqueVersions'
    <3> SUFFICES ASSUME NEW a \in versions', NEW b \in versions',
                        a.file = b.file, a.version = b.version
                 PROVE  a = b
      BY DEF UniqueVersions
    <3>1. PICK i \in versions : a = mark(i)
      BY <2>3
    <3>2. PICK j \in versions : b = mark(j)
      BY <2>3
    <3>3. i.file = j.file /\ i.version = j.version
      BY <2>2, <3>1, <3>2
    <3>4. i = j
      BY <3>3 DEF HistInv, UniqueVersions
    <3> QED BY <3>1, <3>2, <3>4
  <2>7. RowsStay /\ RowsRemain
    BY <2>4 DEF RowsStay, RowsRemain
  <2>8. OthersSame(h) /\ req'[h].pc = "idle" /\ req'[h].rows = {}
    BY <1>t, <2>4, FinishFields
  <2> QED BY <1>1, <2>4, <2>5, <2>6, <2>7, <2>8 DEF Unmoved
<1> QED BY <1>2, <1>3, <1>4, <1>5 DEF Scan

LEMMA EditMoves ==
  ASSUME KeyInv, HistInv, EditRow
  PROVE  Unmoved /\ RowsRemain /\ VersionsRemain /\ req' = req
<1>1. ASSUME NEW f \in files, NEW g, g.id = f.id, g.key = f.key, g.version = f.version,
             files' = (files \ {f}) \cup {g},
             UNCHANGED <<versions, blobs, thumbs, minted, req>>
      PROVE  Unmoved /\ RowsRemain /\ VersionsRemain /\ req' = req
  BY <1>1, TablesRepaint
<1>2. CASE \E f \in files, n \in Name : Rename(f, n)
  <2>1. PICK f \in files, n \in Name : Rename(f, n)
    BY <1>2
  <2>2. f \in FileRow
    BY DEF KeyInv, TypeInv, TypeOK
  <2>3. PICK g : g = [f EXCEPT !.name = n]
    OBVIOUS
  <2>4. g.id = f.id /\ g.key = f.key /\ g.version = f.version
    BY <2>2, <2>3 DEF FileRow
  <2>5. files' = (files \ {f}) \cup {g} /\ UNCHANGED <<versions, blobs, thumbs, minted, req>>
    BY <2>1, <2>3 DEF Rename
  <2> QED BY <1>1, <2>4, <2>5
<1>3. CASE \E f \in files, t \in BOOLEAN : SetTrashed(f, t)
  <2>1. PICK f \in files, t \in BOOLEAN : SetTrashed(f, t)
    BY <1>3
  <2>2. f \in FileRow
    BY DEF KeyInv, TypeInv, TypeOK
  <2>3. PICK g : g = [f EXCEPT !.trashed = t]
    OBVIOUS
  <2>4. g.id = f.id /\ g.key = f.key /\ g.version = f.version
    BY <2>2, <2>3 DEF FileRow
  <2>5. files' = (files \ {f}) \cup {g} /\ UNCHANGED <<versions, blobs, thumbs, minted, req>>
    BY <2>1, <2>3 DEF SetTrashed
  <2> QED BY <1>1, <2>4, <2>5
<1> QED BY <1>2, <1>3 DEF EditRow

(* The steps that touch the history.                                       *)
Archives(h) ==
  /\ ArchiveForWrite(h)
  /\ \E f \in req[h].rows : /\ CanInsert(Archived(f))
                            /\ versions' = versions \cup {Archived(f)}
                            /\ Goto(h, "update")

Inserts(h) ==
  /\ InsertRow(h) /\ Goto(h, "check")
  /\ \E f \in FileRow : /\ files' = files \cup {f}
                        /\ f.id = req[h].key /\ f.key = req[h].key /\ f.version = 1

LEMMA HistorySteps ==
  ASSUME Keeping, KeyInv, HistInv, TypeInv', Next
  PROVE  \/ \E h \in Handler : Passing(h) \/ Archives(h) \/ UpdateRow(h) \/ Inserts(h)
         \/ Unmoved /\ RowsRemain /\ VersionsRemain /\ req' = req
<1>t. TypeInv /\ Quiet /\ "purge" \notin Ops
  BY DEF KeyInv, Keeping
<1>1. ASSUME NEW h \in Handler, ArchiveForWrite(h)
      PROVE  Passing(h) \/ Archives(h)
  <2>1. CASE Archives(h)
    BY <2>1
  <2>2. CASE ~Archives(h)
    <3>1. Finish(h) /\ versions' = versions /\ files' = files /\ req[h].pc = "archive"
      BY <1>1, <2>2 DEF Archives, ArchiveForWrite, ArchiveCurrent, At
    <3>2. OthersSame(h) /\ req'[h].rows = {} /\ req'[h].pc = "idle"
      BY <1>t, <3>1, FinishFields
    <3> QED BY <3>1, <3>2, TablesRest DEF Passing, LeavingPoint
  <2> QED BY <2>1, <2>2
<1>2. ASSUME NEW h \in Handler, InsertRow(h)
      PROVE  Passing(h) \/ Inserts(h)
  <2>1. CASE files' = files /\ Goto(h, "undo blob")
    <3>1. /\ versions' = versions /\ req[h].pc = "insert"
          /\ OthersSame(h) /\ req'[h].rows = req[h].rows /\ req'[h].pc = "undo blob"
      BY <1>2, <1>t, <2>1, GotoFields DEF InsertRow, At
    <3> QED BY <2>1, <3>1, TablesRest DEF Passing, LeavingPoint
  <2>2. CASE ~(files' = files /\ Goto(h, "undo blob"))
    <3> DEFINE row == [id |-> req[h].key, name |-> req[h].name,
                       key |-> req[h].key, thumb |-> req[h].thumb,
                       version |-> 1, scan |-> FreshScan, trashed |-> FALSE,
                       asset |-> AssetOf(req[h])]
    <3>1. files' = files \cup {row} /\ Goto(h, "check")
      BY <1>2, <2>2 DEF InsertRow
    <3>2. row.id = req[h].key /\ row.key = req[h].key /\ row.version = 1
      OBVIOUS
    <3> HIDE DEF row
    <3>3. row \in FileRow
      BY <3>1 DEF TypeInv, TypeOK
    <3> QED BY <1>2, <3>1, <3>2, <3>3 DEF Inserts
  <2> QED BY <2>1, <2>2
<1>3. ASSUME NEW h \in Handler,
             \/ \E p \in WritePath, n \in Name, k \in Key : BeginWrite(h, p, n, k)
             \/ PutBytes(h) \/ ReadExisting(h) \/ DropOldThumb(h) \/ Accept(h) \/ UndoBlob(h)
             \/ Interrupt(h) /\ Crashes
             \/ FailPhoto(h)
      PROVE  Passing(h)
  BY <1>3, WriterPasses
<1>4. ASSUME NEW h \in Handler, Purge(Ops, h) \/ Scan(h) PROVE Passing(h)
  BY <1>4, <1>t, PurgePasses, ScanPasses
<1>5. ASSUME EditRow PROVE Unmoved /\ RowsRemain /\ VersionsRemain /\ req' = req
  BY <1>5, EditMoves
<1>6. ASSUME NEW h \in Handler,
             \/ \E p \in WritePath, n \in Name, k \in Key : BeginWrite(h, p, n, k)
             \/ PutBytes(h) \/ ReadExisting(h) \/ ArchiveForWrite(h) \/ DropOldThumb(h)
             \/ Accept(h) \/ UndoBlob(h) \/ UpdateRow(h) \/ InsertRow(h)
             \/ Purge(Ops, h)
             \/ "scan" \in Ops /\ Scan(h)
             \/ Crashes /\ Interrupt(h)
             \/ Throws /\ FailPhoto(h)
      PROVE  Passing(h) \/ Archives(h) \/ UpdateRow(h) \/ Inserts(h)
  BY <1>1, <1>2, <1>3, <1>4, <1>6
<1> QED BY <1>t, <1>5, <1>6, QuietSteps

LEMMA PassingHistory ==
  ASSUME KeyInv, HistInv, NEW h \in Handler, Passing(h)
  PROVE  HistInv'
<1>1. RowsStay /\ VersionsStay /\ NoVersionLost /\ UniqueVersions'
  BY DEF Passing, Unmoved
<1>2. RowsRead
  <2> SUFFICES ASSUME NEW g \in Handler, NEW f \in req'[g].rows
               PROVE  f \in files \/ f \in req[g].rows
    BY DEF RowsRead
  <2>1. CASE g = h
    BY <2>1 DEF Passing
  <2>2. CASE g # h
    BY <2>2 DEF Passing, OthersSame, Same
  <2> QED BY <2>1, <2>2
<1>3. NoneArchives
  <2> SUFFICES ASSUME NEW g \in Handler
               PROVE  /\ req'[g].pc = "update" => req[g].pc = "update" /\ req'[g].rows = req[g].rows
                      /\ req'[g].pc \notin {"list versions", "purge versions"}
    BY DEF NoneArchives
  <2>1. CASE g = h
    BY <2>1 DEF Passing
  <2>2. CASE g # h
    BY <2>2 DEF Passing, OthersSame, Same, HistInv, At
  <2> QED BY <2>1, <2>2
<1> QED BY <1>1, <1>2, <1>3, HistoryKept

LEMMA EditHistory ==
  ASSUME KeyInv, HistInv, Unmoved, req' = req
  PROVE  HistInv'
<1>1. RowsStay /\ VersionsStay /\ NoVersionLost /\ UniqueVersions'
  BY DEF Unmoved
<1>2. RowsRead /\ NoneArchives
  BY DEF RowsRead, NoneArchives, HistInv, At
<1> QED BY <1>1, <1>2, HistoryKept

(* A new row is the first version of a file no one has heard of.           *)
LEMMA InsertHistory ==
  ASSUME KeyInv, HistInv, NEW h \in Handler, Inserts(h)
  PROVE  HistInv'
<1>t. TypeInv
  BY DEF KeyInv
<1>1. /\ Fresh(h) /\ versions' = versions /\ Goto(h, "check") /\ req[h].pc = "insert"
  BY DEF Inserts, InsertRow, At, KeyInv, TypeInv, WriterKnown, WriterPoint, Fresh
<1>2. PICK c \in Key : /\ c = req[h].key
                       /\ \A k \in Key : ~Known(c, k) /\ ~Known(k, c)
  BY <1>1 DEF KeyInv, TypeInv, WriterKnown, Fresh, Targeted, FreshUnknown
<1>3. PICK r \in FileRow : files' = files \cup {r} /\ r.id = c /\ r.key = c /\ r.version = 1
  BY <1>2 DEF Inserts
<1>4. /\ OthersSame(h) /\ req'[h].pc = "check" /\ req'[h].rows = req[h].rows
  BY <1>1, <1>t, GotoFields
<1>5. \A g \in Handler : req'[g].rows = req[g].rows
  BY <1>4 DEF OthersSame, Same
<1>6. \A g \in Handler : req'[g].pc = "update" => req[g].pc = "update"
  BY <1>4 DEF OthersSame, Same
<1>7. \A i, n, k : Held(i, n, k)' => Held(i, n, k) \/ (i = c /\ n = 1 /\ k = c)
  <2> SUFFICES ASSUME NEW i, NEW n, NEW k, Held(i, n, k)'
               PROVE  Held(i, n, k) \/ (i = c /\ n = 1 /\ k = c)
    OBVIOUS
  <2>1. CASE \E e \in files' : e.id = i /\ e.version = n /\ e.key = k
    BY <1>3, <2>1 DEF Held
  <2>2. CASE \E v \in versions' : v.file = i /\ v.version = n /\ v.key = k
    BY <1>1, <2>2 DEF Held
  <2>3. CASE \E g \in Handler : \E e \in req'[g].rows : e.id = i /\ e.version = n /\ e.key = k
    BY <1>5, <2>3 DEF Held
  <2> QED BY <2>1, <2>2, <2>3 DEF Held
<1>8. \A i, k \in Key : \A n : Held(i, n, k) => i # c /\ k # c
  BY <1>2, HeldKnown
<1>9. OneKeyPerNumber'
  <2> SUFFICES ASSUME NEW i \in Key, NEW k \in Key, NEW l \in Key, NEW n \in Nat,
                      Held(i, n, k)', Held(i, n, l)'
               PROVE  k = l
    BY DEF OneKeyPerNumber
  <2>1. CASE Held(i, n, k) /\ Held(i, n, l)
    BY <2>1 DEF HistInv, OneKeyPerNumber
  <2> QED BY <1>7, <1>8, <2>1
<1>10. OneNumberPerKey'
  <2> SUFFICES ASSUME NEW i \in Key, NEW k \in Key, NEW n \in Nat, NEW m \in Nat,
                      Held(i, n, k)', Held(i, m, k)'
               PROVE  n = m
    BY DEF OneNumberPerKey
  <2>1. CASE Held(i, n, k) /\ Held(i, m, k)
    BY <2>1 DEF HistInv, OneNumberPerKey
  <2> QED BY <1>7, <1>8, <2>1
<1>11. \A e \in files : e.id # c
  <2>1. \A e \in files : e.key \in Key /\ Known(e.key, e.id)
    BY <1>t, NumberTypes DEF Known
  <2> QED BY <1>2, <2>1
<1>12. NoneAhead'
  <2> SUFFICES ASSUME NEW i \in Key, NEW k \in Key, NEW n \in Nat, NEW e \in files',
                      Held(i, n, k)', e.id = i
               PROVE  n <= e.version
    BY DEF NoneAhead
  <2>1. CASE e \in files
    <3>1. Held(i, n, k)
      BY <1>7, <1>11, <2>1
    <3> QED BY <2>1, <3>1 DEF HistInv, NoneAhead
  <2>2. CASE e = r
    <3>1. n = 1
      BY <1>3, <1>7, <1>8, <2>2
    <3> QED BY <1>3, <2>2, <3>1
  <2> QED BY <1>3, <2>1, <2>2
<1>13. AllBehind'
  <2> SUFFICES ASSUME NEW e \in files', NEW n \in 1 .. e.version - 1
               PROVE  HasVersion(e.id, n)'
    BY DEF AllBehind
  <2>1. CASE e = r
    <3>1. e.version = 1
      BY <1>3, <2>1
    <3> QED BY <3>1
  <2>2. CASE e \in files
    BY <1>1, <2>2 DEF HistInv, AllBehind, HasVersion
  <2> QED BY <1>3, <2>1, <2>2
<1>14. \A g \in Handler : \A e \in req[g].rows : e.id # c
  <2>1. \A g \in Handler : \A e \in req[g].rows : e.key \in Key /\ Known(e.key, e.id)
    BY <1>t, NumberTypes DEF Known
  <2> QED BY <1>2, <2>1
<1>15. \A g \in Handler : At(g, "update")' => Storing(g)'
  <2> SUFFICES ASSUME NEW g \in Handler, req'[g].pc = "update",
                      NEW e \in req'[g].rows, NEW d \in files', d.id = e.id
               PROVE  d.version = e.version /\ HasVersion(e.id, e.version)'
    BY DEF At, Storing
  <2>1. req[g].pc = "update" /\ e \in req[g].rows
    BY <1>5, <1>6
  <2>2. d \in files
    BY <1>3, <1>14, <2>1
  <2>3. Storing(g)
    BY <2>1 DEF HistInv, At
  <2>4. d.version = e.version /\ HasVersion(e.id, e.version)
    BY <2>1, <2>2, <2>3 DEF Storing
  <2> QED BY <1>1, <2>4 DEF HasVersion
<1>16. OneStores'
  <2> SUFFICES ASSUME NEW g \in Handler, NEW j \in Handler, NEW a \in req'[g].rows,
                      NEW e \in req'[j].rows, NEW d \in files',
                      req'[g].pc = "update", req'[j].pc = "update", a.id = e.id, d.id = a.id
               PROVE  g = j
    BY DEF OneStores, At
  <2>1. /\ req[g].pc = "update" /\ req[j].pc = "update"
        /\ a \in req[g].rows /\ e \in req[j].rows
    BY <1>5, <1>6
  <2>2. d \in files
    BY <1>3, <1>14, <2>1
  <2> QED BY <2>1, <2>2 DEF HistInv, OneStores, At
<1>17. UniqueVersions'
  BY <1>1 DEF HistInv, UniqueVersions
<1>18. \A g \in Handler : ~At(g, "list versions")' /\ ~At(g, "purge versions")'
  BY <1>4 DEF HistInv, At, OthersSame, Same
<1> QED BY <1>9, <1>10, <1>12, <1>13, <1>15, <1>16, <1>17, <1>18 DEF HistInv

LEMMA HistoryStep ==
  ASSUME Keeping, KeyInv, HistInv, Next
  PROVE  HistInv'
<1>t. KeyInv' /\ TypeInv' /\ TypeInv
  BY KeysStep DEF KeyInv, Keeping
<1>1. ASSUME NEW h \in Handler, Archives(h) PROVE HistInv'
  <2>1. PICK f \in req[h].rows : /\ CanInsert(Archived(f))
                                 /\ versions' = versions \cup {Archived(f)}
                                 /\ Goto(h, "update")
    BY <1>1 DEF Archives
  <2>2. req[h].op \in WritePath /\ At(h, "archive") /\ files' = files
    BY <1>1 DEF Archives, ArchiveForWrite, ArchiveCurrent
  <2>3. \A e \in req[h].rows : e = f
    BY <2>2 DEF KeyInv, Shaped
  <2> QED BY <1>t, <2>1, <2>2, <2>3, ArchiveHistory
<1>2. ASSUME NEW h \in Handler, Passing(h) PROVE HistInv'
  BY <1>2, PassingHistory
<1>3. ASSUME NEW h \in Handler, UpdateRow(h) PROVE HistInv'
  BY <1>t, <1>3, UpdateHistory
<1>4. ASSUME NEW h \in Handler, Inserts(h) PROVE HistInv'
  BY <1>4, InsertHistory
<1>5. ASSUME Unmoved, req' = req PROVE HistInv'
  BY <1>5, EditHistory
<1> QED BY <1>t, <1>1, <1>2, <1>3, <1>4, <1>5, HistorySteps

LEMMA HistoryStutter ==
  ASSUME KeyInv, HistInv, UNCHANGED vars
  PROVE  HistInv'
BY TablesRest, EditHistory DEF vars

LEMMA InitHistory == Init => HistInv
<1> SUFFICES ASSUME Init PROVE HistInv
  OBVIOUS
<1>1. files = {} /\ versions = {} /\ \A h \in Handler : req[h].pc = "idle" /\ req[h].rows = {}
  BY DEF Init, NoRequest
<1>2. \A i, n, k : ~Held(i, n, k)
  BY <1>1 DEF Held
<1>3. OneKeyPerNumber /\ OneNumberPerKey
  BY <1>2 DEF OneKeyPerNumber, OneNumberPerKey
<1>4. NoneAhead /\ UniqueVersions /\ AllBehind
  BY <1>1 DEF NoneAhead, UniqueVersions, AllBehind
<1>5. OneStores /\ \A h \in Handler : At(h, "update") => Storing(h)
  BY <1>1 DEF OneStores, Storing, At
<1>6. \A h \in Handler : ~At(h, "list versions") /\ ~At(h, "purge versions")
  BY <1>1 DEF At
<1> QED BY <1>3, <1>4, <1>5, <1>6 DEF HistInv

(* Behind a row at version n lie versions 1 .. n-1, none of them lost or   *)
(* stored twice: however writers race, crash halfway through archiving,    *)
(* lose the race for a number, and are hard-deleted, moved or trashed.     *)
THEOREM HistoryStaysComplete ==
  ASSUME Keeping
  PROVE  Spec => []HistoryComplete
<1>1. Init => KeyInv /\ HistInv
  BY InitKeys, InitHistory
<1>2. KeyInv /\ HistInv /\ [Next]_vars => KeyInv' /\ HistInv'
  BY KeysStep, KeysStutter, HistoryStep, HistoryStutter DEF Keeping
<1>3. KeyInv /\ HistInv => HistoryComplete
  <2> SUFFICES ASSUME KeyInv, HistInv, NEW f \in files
               PROVE  LET past == {v \in versions : v.file = f.id /\ v.version < f.version}
                      IN /\ \A n \in 1 .. f.version - 1 : \E v \in past : v.version = n
                         /\ \A v \in past : v.key # f.key
                         /\ \A v, w \in past : v.key = w.key => v = w
    BY DEF HistoryComplete
  <2> DEFINE past == {v \in versions : v.file = f.id /\ v.version < f.version}
  <2>1. /\ f.version \in Nat \ {0} /\ f.key \in Key /\ f.id \in Key
        /\ \A v \in versions : v.version \in Nat \ {0} /\ v.key \in Key /\ v.file \in Key
    BY NumberTypes DEF KeyInv
  <2>2. ASSUME NEW n \in 1 .. f.version - 1 PROVE \E v \in past : v.version = n
    <3>1. PICK v \in versions : v.file = f.id /\ v.version = n
      BY DEF HistInv, AllBehind, HasVersion
    <3>2. n < f.version
      BY <2>1
    <3> QED BY <3>1, <3>2
  <2>3. ASSUME NEW v \in past, v.key = f.key PROVE FALSE
    <3>1. Held(f.id, f.version, f.key) /\ Held(f.id, v.version, f.key)
      BY <2>3 DEF Held
    <3>2. f.version = v.version
      BY <2>1, <3>1 DEF HistInv, OneNumberPerKey
    <3> QED BY <2>1, <3>2
  <2>4. ASSUME NEW v \in past, NEW w \in past, v.key = w.key PROVE v = w
    <3>1. Held(f.id, v.version, v.key) /\ Held(f.id, w.version, v.key)
      BY <2>4 DEF Held
    <3>2. v.version = w.version
      BY <2>1, <3>1 DEF HistInv, OneNumberPerKey
    <3> QED BY <3>2 DEF HistInv, UniqueVersions
  <2> QED BY <2>2, <2>3, <2>4
<1> QED BY <1>1, <1>2, <1>3, PTL DEF Spec

(* A version at the number of its row is waiting for the request that      *)
(* stored it to overwrite the row.                                         *)
Awaited(i) == \E h \in Handler : req[h].pc = "update" /\ \E g \in req[h].rows : g.id = i

Pending == \A f \in files, v \in versions :
  v.file = f.id /\ v.version = f.version => Awaited(f.id)

LEMMA AwaitedStays ==
  ASSUME NEW i, Awaited(i), NEW h \in Handler, OthersSame(h),
         req[h].pc = "update" => \A g \in req[h].rows : g.id # i
  PROVE  Awaited(i)'
BY DEF Awaited, OthersSame, Same

LEMMA PendingStep ==
  ASSUME Keeping, ~Crashes, KeyInv, HistInv, Pending, Next
  PROVE  Pending'
<1>t. KeyInv' /\ TypeInv' /\ TypeInv
  BY KeysStep DEF KeyInv, Keeping
<1>1. ASSUME NEW h \in Handler, Passing(h) PROVE Pending'
  <2> SUFFICES ASSUME NEW f \in files', NEW v \in versions', v.file = f.id, v.version = f.version
               PROVE  Awaited(f.id)'
    BY DEF Pending
  <2>1. PICK g \in files : f.id = g.id /\ f.version = g.version
    BY <1>1 DEF Passing, Unmoved, RowsStay
  <2>2. PICK w \in versions : v.file = w.file /\ v.version = w.version
    BY <1>1 DEF Passing, Unmoved, VersionsStay
  <2>3. Awaited(f.id)
    BY <2>1, <2>2 DEF Pending
  <2>4. OthersSame(h) /\ req[h].pc # "update"
    BY <1>1 DEF Passing
  <2> QED BY <2>3, <2>4, AwaitedStays
<1>2. ASSUME NEW h \in Handler, Archives(h) PROVE Pending'
  <2>1. PICK r \in req[h].rows : versions' = versions \cup {Archived(r)} /\ Goto(h, "update")
    BY <1>2 DEF Archives
  <2>2. files' = files /\ req[h].pc = "archive"
    BY <1>2 DEF Archives, ArchiveForWrite, ArchiveCurrent, At
  <2>3. OthersSame(h) /\ req'[h].pc = "update" /\ req'[h].rows = req[h].rows
    BY <1>t, <2>1, GotoFields
  <2> SUFFICES ASSUME NEW f \in files, NEW v \in versions', v.file = f.id, v.version = f.version
               PROVE  Awaited(f.id)'
    BY <2>2 DEF Pending
  <2>4. CASE v \in versions
    <3>1. Awaited(f.id)
      BY <2>4 DEF Pending
    <3> QED BY <2>2, <2>3, <3>1, AwaitedStays
  <2>5. CASE v = Archived(r)
    <3>1. r.id = f.id
      BY <2>5 DEF Archived
    <3> QED BY <2>3, <3>1 DEF Awaited
  <2> QED BY <2>1, <2>4, <2>5
<1>3. ASSUME NEW h \in Handler, UpdateRow(h) PROVE Pending'
  <2>1. PICK r \in req[h].rows :
          /\ files' = {IF g.id = r.id THEN Overwritten(g, r, req[h]) ELSE g : g \in files}
          /\ Goto(h, IF req[h].op \in DropsEarly /\ r.thumb # Null
                     THEN "drop early" ELSE "check")
    BY <1>3 DEF UpdateRow
  <2>2. versions' = versions /\ req[h].pc = "update" /\ req[h].op \in WritePath
    BY <1>3 DEF UpdateRow, At, KeyInv, TypeInv, WriterKnown, WriterPoint
  <2>3. \A e \in req[h].rows : e = r
    BY <2>2 DEF KeyInv, Shaped
  <2>4. PICK to \in {"drop early", "check"} : Goto(h, to)
    BY <2>1
  <2>5. OthersSame(h)
    BY <1>t, <2>4, GotoFields
  <2> SUFFICES ASSUME NEW f \in files', NEW v \in versions, v.file = f.id, v.version = f.version
               PROVE  Awaited(f.id)'
    BY <2>2 DEF Pending
  <2>6. PICK g \in files : f = IF g.id = r.id THEN Overwritten(g, r, req[h]) ELSE g
    BY <2>1
  <2>7. CASE g.id = r.id
    <3>1. g \in FileRow /\ r \in FileRow
      BY <1>t DEF TypeInv, TypeOK, Request
    <3>2. f.id = g.id /\ f.version = r.version + 1
      BY <2>6, <2>7, <3>1, OverwrittenFields
    <3>3. g.version = r.version
      BY <2>2, <2>7 DEF HistInv, Storing, At
    <3>4. PICK m \in Nat : m = r.version
      BY <3>1 DEF FileRow
    <3>5. v.version <= m
      <4>1. Held(v.file, v.version, v.key)
        BY DEF Held
      <4>2. v.version \in Nat /\ v.key \in Key /\ v.file \in Key
        BY <1>t, NumberTypes
      <4>3. g.id = v.file
        BY <3>2
      <4> QED BY <3>3, <3>4, <4>1, <4>2, <4>3 DEF HistInv, NoneAhead
    <3>6. v.version = m + 1
      BY <3>2, <3>4
    <3> QED BY <3>5, <3>6, NextNumber
  <2>8. CASE g.id # r.id
    <3>1. f = g
      BY <2>6, <2>8
    <3>2. Awaited(f.id)
      BY <3>1 DEF Pending
    <3> QED BY <2>3, <2>5, <2>8, <3>1, <3>2, AwaitedStays
  <2> QED BY <2>7, <2>8
<1>4. ASSUME NEW h \in Handler, Inserts(h) PROVE Pending'
  <2>1. PICK r \in FileRow : files' = files \cup {r} /\ r.id = req[h].key
    BY <1>4 DEF Inserts
  <2>2. versions' = versions /\ req[h].pc = "insert" /\ Goto(h, "check") /\ Fresh(h)
    BY <1>4 DEF Inserts, InsertRow, At, KeyInv, TypeInv, WriterKnown, WriterPoint, Fresh
  <2>3. OthersSame(h)
    BY <1>t, <2>2, GotoFields
  <2> SUFFICES ASSUME NEW f \in files', NEW v \in versions, v.file = f.id, v.version = f.version
               PROVE  Awaited(f.id)'
    BY <2>2 DEF Pending
  <2>4. v.file # req[h].key
    <3>1. v.key \in Key /\ Known(v.key, v.file)
      BY <1>t, NumberTypes DEF Known
    <3>2. ~Known(v.key, req[h].key)
      BY <2>2, <3>1 DEF KeyInv, FreshUnknown
    <3> QED BY <3>1, <3>2
  <2>5. f \in files
    BY <2>1, <2>4
  <2>6. Awaited(f.id)
    BY <2>5 DEF Pending
  <2> QED BY <2>2, <2>3, <2>6, AwaitedStays
<1>5. ASSUME Unmoved, req' = req PROVE Pending'
  <2> SUFFICES ASSUME NEW f \in files', NEW v \in versions', v.file = f.id, v.version = f.version
               PROVE  Awaited(f.id)'
    BY DEF Pending
  <2>1. PICK g \in files : f.id = g.id /\ f.version = g.version
    BY <1>5 DEF Unmoved, RowsStay
  <2>2. PICK w \in versions : v.file = w.file /\ v.version = w.version
    BY <1>5 DEF Unmoved, VersionsStay
  <2>3. Awaited(f.id)
    BY <2>1, <2>2 DEF Pending
  <2> QED BY <1>5, <2>3 DEF Awaited
<1> QED BY <1>t, <1>1, <1>2, <1>3, <1>4, <1>5, HistorySteps

(* No archived version sits at or above the current number, except the one *)
(* a request has just archived and is about to overwrite: two writers that *)
(* race over a row never leave it in a state that blocks the next.         *)
THEOREM FilesStayWritable ==
  ASSUME Keeping, ~Crashes
  PROVE  Spec => []NoBlockedFile
<1>1. Init => KeyInv /\ HistInv /\ Pending
  BY InitKeys, InitHistory DEF Init, Pending
<1>2. KeyInv /\ HistInv /\ Pending /\ [Next]_vars => KeyInv' /\ HistInv' /\ Pending'
  <2>1. KeyInv /\ HistInv /\ Pending /\ Next => KeyInv' /\ HistInv' /\ Pending'
    BY KeysStep, HistoryStep, PendingStep DEF Keeping
  <2>2. KeyInv /\ HistInv /\ Pending /\ UNCHANGED vars => KeyInv' /\ HistInv' /\ Pending'
    BY KeysStutter, HistoryStutter DEF vars, Pending, Awaited
  <2> QED BY <2>1, <2>2
<1>3. KeyInv /\ HistInv /\ Pending => NoBlockedFile
  <2> SUFFICES ASSUME KeyInv, HistInv, Pending,
                      NEW f \in files, NEW v \in versions, v.file = f.id
               PROVE  \/ v.version < f.version
                      \/ v.version = f.version /\ Replacing(f)
    BY DEF NoBlockedFile
  <2>1. /\ f.version \in Nat /\ f.id \in Key
        /\ v.version \in Nat /\ v.key \in Key
    BY NumberTypes DEF KeyInv
  <2>2. Held(f.id, v.version, v.key)
    BY DEF Held
  <2>3. v.version <= f.version
    BY <2>1, <2>2 DEF HistInv, NoneAhead
  <2>4. v.version = f.version => Replacing(f)
    BY DEF Pending, Awaited, Replacing
  <2> QED BY <2>1, <2>3, <2>4
<1> QED BY <1>1, <1>2, <1>3, PTL DEF Spec

(* Nothing takes bytes away where nothing is deleted: a step leaves every  *)
(* key some row names named.                                               *)
NoneLeaves == \A h \in Handler : req[h].pc \notin LeavingPoint

LEMMA NamesStay ==
  ASSUME Keeping, ~Leaves, KeyInv, HistInv, NoneLeaves, Next
  PROVE  NoneLeaves' /\ Named \subseteq Named'
<1>t. KeyInv' /\ TypeInv' /\ TypeInv
  BY KeysStep DEF KeyInv, Keeping
<1>0. ASSUME NEW h \in Handler, OthersSame(h), req'[h].pc \notin LeavingPoint
      PROVE  NoneLeaves'
  BY <1>0 DEF NoneLeaves, OthersSame, Same
<1>n. ASSUME RowsRemain, VersionsRemain PROVE Named \subseteq Named'
  BY <1>n DEF RowsRemain, VersionsRemain, Named
<1>1. ASSUME NEW h \in Handler, Passing(h) PROVE NoneLeaves' /\ Named \subseteq Named'
  <2>1. req[h].pc \notin LeavingPoint
    BY DEF NoneLeaves
  <2>2. req[h].pc # "purge rows"
    BY <2>1 DEF LeavingPoint
  <2>3. OthersSame(h) /\ req'[h].pc \notin LeavingPoint /\ RowsRemain /\ VersionsRemain
    BY <1>1, <2>1, <2>2 DEF Passing
  <2> QED BY <1>0, <1>n, <2>3
<1>2. ASSUME NEW h \in Handler, Archives(h) PROVE NoneLeaves' /\ Named \subseteq Named'
  <2>1. files' = files /\ versions \subseteq versions' /\ Goto(h, "update")
    BY <1>2 DEF Archives, ArchiveForWrite, ArchiveCurrent
  <2>2. OthersSame(h) /\ req'[h].pc = "update"
    BY <1>t, <2>1, GotoFields
  <2>3. req'[h].pc \notin LeavingPoint
    BY <2>2 DEF LeavingPoint
  <2> QED BY <1>0, <2>1, <2>2, <2>3 DEF Named
<1>3. ASSUME NEW h \in Handler, UpdateRow(h) PROVE NoneLeaves' /\ Named \subseteq Named'
  <2>1. PICK r \in req[h].rows :
          /\ files' = {IF g.id = r.id THEN Overwritten(g, r, req[h]) ELSE g : g \in files}
          /\ Goto(h, IF req[h].op \in DropsEarly /\ r.thumb # Null
                     THEN "drop early" ELSE "check")
    BY <1>3 DEF UpdateRow
  <2>2. versions' = versions /\ req[h].pc = "update"
    BY <1>3 DEF UpdateRow, At
  <2>3. PICK to \in {"drop early", "check"} : Goto(h, to)
    BY <2>1
  <2>4. OthersSame(h) /\ req'[h].pc \notin LeavingPoint
    BY <1>t, <2>3, GotoFields DEF LeavingPoint
  <2>5. ASSUME NEW g \in files PROVE g.key \in Named'
    <3>1. CASE g.id = r.id
      <4>1. g.version = r.version /\ HasVersion(r.id, r.version)
        BY <2>2, <3>1 DEF HistInv, Storing, At
      <4>2. PICK v \in versions : v.file = g.id /\ v.version = g.version
        BY <3>1, <4>1 DEF HasVersion
      <4>3. Held(g.id, g.version, g.key) /\ Held(g.id, g.version, v.key)
        BY <4>2 DEF Held
      <4>4. g.id \in Key /\ g.key \in Key /\ v.key \in Key /\ g.version \in Nat
        BY <1>t, NumberTypes
      <4>5. g.key = v.key
        BY <4>3, <4>4 DEF HistInv, OneKeyPerNumber
      <4> QED BY <2>2, <4>5 DEF Named
    <3>2. CASE g.id # r.id
      <4>1. g \in files'
        BY <2>1, <3>2
      <4> QED BY <4>1 DEF Named
    <3> QED BY <3>1, <3>2
  <2>6. Named \subseteq Named'
    BY <2>2, <2>5 DEF Named
  <2> QED BY <1>0, <2>4, <2>6
<1>4. ASSUME NEW h \in Handler, Inserts(h) PROVE NoneLeaves' /\ Named \subseteq Named'
  <2>1. files \subseteq files' /\ versions' = versions /\ Goto(h, "check")
    BY <1>4 DEF Inserts, InsertRow
  <2>2. OthersSame(h) /\ req'[h].pc = "check"
    BY <1>t, <2>1, GotoFields
  <2>3. req'[h].pc \notin LeavingPoint
    BY <2>2 DEF LeavingPoint
  <2> QED BY <1>0, <2>1, <2>2, <2>3 DEF Named
<1>5. ASSUME RowsRemain, VersionsRemain, req' = req PROVE NoneLeaves' /\ Named \subseteq Named'
  BY <1>n, <1>5 DEF NoneLeaves
<1> QED BY <1>t, <1>1, <1>2, <1>3, <1>4, <1>5, HistorySteps

(* Bytes a row has ever named stay behind some row, current or archived,   *)
(* until something deletes them: of two writers that read the same row,    *)
(* neither can overwrite what the other has just stored, and a crash       *)
(* between archiving and overwriting loses nothing.                        *)
THEOREM NothingIsOverwritten ==
  ASSUME Keeping, ~Leaves
  PROVE  Spec => NothingOverwritten
<1>1. Init => KeyInv /\ HistInv /\ NoneLeaves
  <2>1. Init => NoneLeaves
    <3>1. Init => \A h \in Handler : req[h].pc = "idle"
      BY DEF Init, NoRequest
    <3> QED BY <3>1 DEF NoneLeaves, LeavingPoint
  <2> QED BY <2>1, InitKeys, InitHistory
<1>2. KeyInv /\ HistInv /\ NoneLeaves /\ [Next]_vars =>
        KeyInv' /\ HistInv' /\ NoneLeaves' /\ [Named \subseteq Named']_vars
  <2>1. KeyInv /\ HistInv /\ NoneLeaves /\ Next =>
          KeyInv' /\ HistInv' /\ NoneLeaves' /\ Named \subseteq Named'
    BY KeysStep, HistoryStep, NamesStay DEF Keeping
  <2>2. KeyInv /\ HistInv /\ NoneLeaves /\ UNCHANGED vars =>
          KeyInv' /\ HistInv' /\ NoneLeaves'
    BY KeysStutter, HistoryStutter DEF vars, NoneLeaves
  <2> QED BY <2>1, <2>2
<1> QED BY <1>1, <1>2, PTL DEF Spec, NothingOverwritten

---------------------------------------------------------------------------
(* Between requests the store holds what the rows name, and nothing else    *)

(* The write paths that drop a replaced thumbnail once their write stands, *)
(* or that only insert.                                                    *)
Tidy == {"finalize", "mcp", "resize", "copy", "photo"}

(* One request after the other, none of them cut short, each through a     *)
(* write path that drops what it replaces and an operation that drops what *)
(* it deletes.                                                             *)
OneByOne ==
  /\ \E h \in Handler : Handler = {h}
  /\ ~Crashes /\ ~Throws
  /\ Writes \subseteq Tidy
  /\ Ops \cap {"hard delete", "move"} = {}

(* The bytes of a write are in the store and no row names them: not yet,   *)
(* or not any more.                                                        *)
Holding(r) ==
  /\ r.op \in WritePath
  /\ \/ r.pc \in {"read", "archive", "update", "insert", "undo blob"}
     \/ r.pc = "undo version" /\ r.op \in GuardsUndo

(* The row a request read shows other bytes by now, by its own doing.      *)
Overtaken(r) ==
  \/ r.pc \in {"check", "drop late", "undo row", "drop target", "drop thumb"}
  \/ r.pc = "undo version" /\ r.op \notin GuardsUndo

(* The objects in the store that no row names belong to the request.       *)
SpareBlob(r, k) ==
  \/ Holding(r) /\ k = r.key
  \/ r.pc = "undo row" /\ r.op \notin GuardsUndo /\ \E f \in r.rows : k = f.key
  \/ /\ r.pc \in {"drop version blob", "purge rows", "purge blobs"}
     /\ \E v \in r.vers : k = v.key
  \/ r.pc = "purge blobs" /\ \E f \in r.rows : k = f.key

SpareThumb(r, k) ==
  \/ (Holding(r) \/ (r.op = "restore" /\ r.pc \in {"archive", "promote"})) /\ k = r.thumb
  \/ (Overtaken(r) \/ r.pc = "purge blobs") /\ \E f \in r.rows : k = f.thumb

(* Where a key is named: as a row's bytes, a row's thumbnail, a version.   *)
RowKey(k) == \E f \in files : f.key = k
RowThumb(k) == \E f \in files : f.thumb = k
VersionKey(k) == \E v \in versions : v.key = k

(* The store: what the tables name, and what belongs to the request.       *)
StoreIs(r) ==
  \A k \in Key : /\ k \in blobs <=> RowKey(k) \/ VersionKey(k) \/ SpareBlob(r, k)
                 /\ k \in thumbs <=> RowThumb(k) \/ SpareThumb(r, k)

(* The row f is as it was read, but for its name and the trash.            *)
Stands(f) == \E g \in files : /\ g.id = f.id /\ g.key = f.key
                              /\ g.thumb = f.thumb /\ g.version = f.version

(* Turned: it shows the bytes k now, one number on. Kept: the version v is *)
(* there still. Twin: so is the version that the row f was archived as.    *)
Turned(f, k, t) == \E g \in files : /\ g.id = f.id /\ g.key = k /\ g.thumb = t
                                    /\ g.version = f.version + 1
Kept(v) == \E w \in versions : w.file = v.file /\ w.version = v.version /\ w.key = v.key
Twin(f) == Kept(Archived(f))
Unnamed(k) == ~RowKey(k) /\ ~VersionKey(k)

(* Points at which a version holds the bytes its row shows.                *)
Doubling(r) ==
  \/ r.pc \in {"update", "promote"}
  \/ r.pc = "undo version" /\ r.op \in GuardsUndo

(* The version v may hold the bytes of the row f, for the time being.      *)
Doubled(r, f, v) ==
  \/ /\ Doubling(r) /\ v.version = f.version
     /\ \E e \in r.rows : e.id = f.id
  \/ r.pc = "drop target" /\ \E w \in r.vers : SameRow(v, w)

(* Ids, numbers and keys tell rows and versions apart; histories end below *)
(* the row, unless a version doubles it.                                   *)
TablesFit(r) ==
  /\ \A f, g \in files : f.id = g.id \/ f.key = g.key =>
       f.id = g.id /\ f.key = g.key /\ f.thumb = g.thumb /\ f.version = g.version
  /\ \A v, w \in versions : v.key = w.key \/ (v.file = w.file /\ v.version = w.version) =>
       v.key = w.key /\ v.file = w.file /\ v.version = w.version
  /\ \A f \in files : f.thumb \in {f.key, Null} /\ f.id \in minted /\ f.key \in minted
  /\ \A v \in versions : v.file \in minted /\ v.key \in minted
  /\ \A f \in files, v \in versions :
       /\ v.key = f.key => v.file = f.id /\ Doubled(r, f, v)
       /\ v.file = f.id => v.version < f.version \/ (v.key = f.key /\ v.version = f.version)

(* What a write knows of the tables at each of its points: the row it read *)
(* stands, or has its twin and shows the new bytes.                        *)
WriteFits(r) ==
  r.op \in WritePath =>
    /\ r.op \in Tidy /\ r.pc \in WriterPoint \cup {"archive"} /\ r.pc # "drop early"
    /\ r.thumb \in {r.key, Null}
    /\ r.key \in minted
    /\ r.pc \in {"archive", "update", "undo version", "drop late"} => r.rows # {}
    /\ r.pc = "put" \/ Holding(r) => Unnamed(r.key)
    /\ r.pc \in {"put", "read", "insert"} =>
         /\ \A f \in files : f.id # r.key
         /\ \A v \in versions : v.file # r.key
    /\ r.pc = "insert" \/ r.op \in OnlyInserts => r.rows = {}
    /\ r.op = "resize" => r.rows # {}
    /\ r.pc = "read" => r.op \in {"finalize", "mcp"}
    /\ \A f, g \in r.rows : f = g
    /\ r.rows = {} /\ r.pc \in {"check", "undo row"} =>
         /\ \E f \in files : f.id = r.key /\ f.key = r.key /\ f.thumb = r.thumb
         /\ \A v \in versions : v.file # r.key
    /\ \A f \in r.rows :
         /\ f.thumb \in {f.key, Null} /\ f.key \in minted
         /\ r.pc \in {"put", "archive"} \/ Doubling(r) => Stands(f)
         /\ Doubling(r) \/ (Overtaken(r) /\ (r.pc = "undo row" => r.op \in GuardsUndo)) => Twin(f)
         /\ Overtaken(r) => Turned(f, r.key, r.thumb)
         /\ r.pc = "undo row" /\ r.op \notin GuardsUndo =>
              /\ Unnamed(f.key)
              /\ \A v \in versions : ~ (v.file = f.id /\ v.version = f.version)

(* The same for the version handlers, with the version they were asked for.*)
RestoreFits(r) ==
  r.op \in HistoryOp =>
    /\ r.pc \in {"find version", "regenerate", "archive", "promote", "drop target",
                 "drop thumb", "delete version row", "drop version blob"}
    /\ \A f, g \in r.rows : f = g
    /\ \A v, w \in r.vers : v = w
    /\ r.pc \in {"regenerate", "archive", "promote", "drop target", "drop thumb"} =>
         r.op = "restore"
    /\ r.pc \in {"find version", "regenerate"} => r.thumb = Null
    /\ \A v \in r.vers :
         /\ r.pc \in {"archive", "promote"} => r.thumb \in {v.key, Null}
         /\ r.pc \in {"regenerate", "archive", "promote", "drop target", "delete version row"} =>
              Kept(v)
         /\ r.pc = "drop version blob" => Unnamed(v.key)
         /\ \A f \in r.rows :
              /\ r.pc \in {"regenerate", "archive", "promote", "drop target"} =>
                   v.file = f.id /\ v.version # f.version
              /\ r.pc = "drop target" => Turned(f, v.key, r.thumb)
    /\ \A f \in r.rows :
         /\ f.thumb \in {f.key, Null}
         /\ r.pc \in {"find version", "regenerate", "archive", "promote"} => Stands(f)
         /\ r.pc \in {"promote", "drop target", "drop thumb"} => Twin(f)

(* The same for a purge: what it has listed is all there is, then gone.    *)
PurgeFits(r) ==
  r.op = "purge" =>
    /\ r.pc \in {"list versions", "purge versions", "purge rows", "purge blobs"}
    /\ \A f \in r.rows : /\ f.thumb \in {f.key, Null}
                         /\ r.pc # "purge blobs" => Stands(f)
                         /\ r.pc = "purge blobs" => Unnamed(f.key)
    /\ \A v \in r.vers : /\ r.pc = "purge versions" => Kept(v) /\ v.file \in Ids(r.rows)
                         /\ r.pc \in {"purge rows", "purge blobs"} => Unnamed(v.key)
    /\ \A v \in versions :
         v.file \in Ids(r.rows) =>
           /\ r.pc = "purge versions" => \E w \in r.vers : w.key = v.key
           /\ r.pc \notin {"purge rows", "purge blobs"}

(* The tables, the store and the request fit together.                      *)
Account(r) ==
  /\ r.pc # "idle" => r.op \in Tidy \cup HistoryOp \cup {"purge", "scan"}
  /\ r.pc = "idle" => r.op = Null
  /\ r.op = "scan" => r.pc \in {"scan bytes"} \cup VerdictPoint
  /\ TablesFit(r) /\ StoreIs(r) /\ WriteFits(r) /\ RestoreFits(r) /\ PurgeFits(r)

StoreInv == \A h \in Handler : Account(req[h])

(* The only request there is, and all that is known of it.                 *)
Facing(h) == TypeInv /\ StoreInv /\ Handler = {h}

LEMMA AccountOf ==
  ASSUME NEW h, Facing(h)
  PROVE  /\ Account(req[h]) /\ h \in Handler
         /\ req[h] \in Request /\ files \subseteq FileRow /\ versions \subseteq VersionRow
         /\ Null \notin Key /\ Null \notin Operation
BY NullAssumption DEF Facing, StoreInv, TypeInv, TypeOK

LEMMA FinishAccount ==
  ASSUME NEW h, Facing(h), Finish(h),
         UNCHANGED <<files, versions, minted>>,
         \A f \in files, v \in versions : ~ Doubled(req[h], f, v),
         \A k \in Key : /\ k \in blobs' <=> RowKey(k) \/ VersionKey(k)
                        /\ k \in thumbs' <=> RowThumb(k)
  PROVE  Account(req[h])'
<1>1. /\ Account(req[h]) /\ h \in Handler /\ req[h] \in Request
  BY AccountOf
<1>2. req'[h].pc = "idle" /\ req'[h].op = Null /\ Null \notin Operation
  BY <1>1, FinishFields DEF Facing
<1>3. TablesFit(req[h])'
  BY <1>1, <1>2 DEF Account, TablesFit
<1>4. ~ Holding(req'[h]) /\ ~ Overtaken(req'[h])
  BY <1>2 DEF Holding, Overtaken
<1>5. StoreIs(req[h])'
  BY <1>2, <1>4 DEF StoreIs, SpareBlob, SpareThumb, RowKey, VersionKey, RowThumb
<1>6. req'[h].op \notin WritePath \cup HistoryOp \cup {"purge", "scan"}
  BY <1>2 DEF Operation, HistoryOp
<1> QED BY <1>2, <1>3, <1>5, <1>6 DEF Account, WriteFits, RestoreFits, PurgeFits

(* What a request of one kind has to show is what makes its account.       *)
LEMMA WriterAccount ==
  ASSUME NEW h, Facing(h), req'[h].op \in WritePath,
         TablesFit(req[h])', StoreIs(req[h])', WriteFits(req[h])'
  PROVE  Account(req[h])'
BY DEF Account, WriteFits, WriterPoint, RestoreFits, PurgeFits, Tidy, HistoryOp

LEMMA TablesKept ==
  ASSUME NEW h, Account(req[h]), UNCHANGED <<files, versions>>, minted \subseteq minted',
         \A f \in files, v \in versions : Doubled(req[h], f, v) => Doubled(req'[h], f, v)
  PROVE  TablesFit(req[h])'
BY DEF Account, TablesFit

(* Tables as they were show the same rows.                                 *)
LEMMA RowsLook ==
  ASSUME UNCHANGED files, NEW f, NEW k, NEW t
  PROVE  /\ (Stands(f)' <=> Stands(f)) /\ (Turned(f, k, t)' <=> Turned(f, k, t))
         /\ (RowKey(k)' <=> RowKey(k)) /\ (RowThumb(k)' <=> RowThumb(k))
BY DEF Stands, Turned, RowKey, RowThumb

LEMMA VersionsLook ==
  ASSUME UNCHANGED versions, NEW v, NEW k
  PROVE  /\ (Kept(v)' <=> Kept(v)) /\ (VersionKey(k)' <=> VersionKey(k))
         /\ (Twin(v)' <=> Twin(v))
BY DEF Kept, VersionKey, Twin

(* Moving on in the same request, the tables as they are.                  *)
LEMMA AcceptAccount ==
  ASSUME NEW h, Facing(h), Accept(h), req[h].op \in WritePath
  PROVE  Account(req[h])'
<1>1. Account(req[h]) /\ h \in Handler /\ req[h] \in Request /\ Null \notin Key
  BY AccountOf
<1>2. \/ /\ req[h].op \in DropsLate /\ OldThumb(req[h]) # {}
         /\ Goto(h, "drop late")
      \/ /\ ~ (req[h].op \in DropsLate /\ OldThumb(req[h]) # {})
         /\ Finish(h)
  BY DEF Accept
<1>a. UNCHANGED <<files, versions, blobs, thumbs, minted>> /\ req[h].pc = "check"
  BY DEF Accept, At
<1>3. CASE req[h].op \in DropsLate /\ OldThumb(req[h]) # {} /\ Goto(h, "drop late")
  <2>0. /\ req'[h].pc = "drop late" /\ req'[h].op = req[h].op /\ req'[h].key = req[h].key
        /\ req'[h].thumb = req[h].thumb /\ req'[h].rows = req[h].rows /\ req'[h].vers = req[h].vers
    BY <1>1, <1>3, GotoFields DEF Facing
  <2>1. TablesFit(req[h])'
    BY <1>1, <1>a, <2>0 DEF Account, TablesFit, Doubled, Doubling
  <2>2. StoreIs(req[h])'
    BY <1>1, <1>a, <2>0 DEF Account, StoreIs, SpareBlob, SpareThumb, RowKey, VersionKey, RowThumb, Holding, Overtaken
  <2>a. /\ \A f \in req[h].rows : Twin(f) /\ Turned(f, req[h].key, req[h].thumb)
        /\ req[h].rows # {} /\ req[h].key \in minted /\ req[h].thumb \in {req[h].key, Null}
        /\ req[h].op \in Tidy /\ (req[h].op \in OnlyInserts => req[h].rows = {})
        /\ \A f, g \in req[h].rows : f = g
        /\ \A f \in req[h].rows : f.thumb \in {f.key, Null} /\ f.key \in minted
    BY <1>1, <1>a, <1>3, <2>0 DEF Account, WriteFits, Overtaken, OldThumb
  <2>b. \A f \in req'[h].rows : Twin(f)' /\ Turned(f, req[h].key, req[h].thumb)'
    BY <2>a, <2>0, <1>a, RowsLook, VersionsLook
  <2>3. WriteFits(req[h])'
    BY <2>a, <2>b, <2>0, <1>a DEF WriteFits, WriterPoint, Holding, Doubling, Overtaken
  <2>4. RestoreFits(req[h])' /\ PurgeFits(req[h])'
    BY <1>1, <2>0 DEF Account, WritePath, HistoryOp, RestoreFits, PurgeFits
  <2> QED  BY <1>1, <2>0, <2>1, <2>2, <2>3, <2>4 DEF Account, WriteFits, Tidy
<1>4. CASE ~ (req[h].op \in DropsLate /\ OldThumb(req[h]) # {}) /\ Finish(h)
  <2>1. \A f \in req[h].rows : f.thumb \in {Null}
    BY <1>1, <1>4, <1>a DEF Account, WriteFits, Tidy, DropsLate, OldThumb, OnlyInserts
  <2>2. \A f \in files, v \in versions : ~ Doubled(req[h], f, v)
    BY <1>a DEF Doubled, Doubling
  <2>3. \A k \in Key : ~ SpareBlob(req[h], k) /\ ~ SpareThumb(req[h], k)
    BY <1>1, <1>a, <2>1 DEF SpareBlob, SpareThumb, Holding
  <2> QED BY <1>1, <1>4, <1>a, <2>2, <2>3, FinishAccount DEF Account, StoreIs
<1> QED BY <1>2, <1>3, <1>4

LEMMA BeginWriteAccount ==
  ASSUME NEW h, Facing(h), NEW p \in Tidy, NEW n \in Name, NEW k \in Key, BeginWrite(h, p, n, k)
  PROVE  Account(req[h])'
<1>1. Account(req[h]) /\ h \in Handler /\ Null \notin Key /\ files \subseteq FileRow
  BY AccountOf
<1>2. /\ req[h].pc = "idle" /\ k \notin minted /\ minted' = minted \cup {k}
      /\ UNCHANGED <<files, versions, blobs, thumbs>>
      /\ p = "resize" => req'[h].rows # {}
  <2>1. PICK found : /\ p = "resize" => found # {}
                     /\ req' = [req EXCEPT ![h] = [NoRequest EXCEPT
                          !.pc = "put", !.op = p, !.name = n, !.key = k, !.rows = found]]
    BY DEF BeginWrite
  <2>2. req'[h].rows = found
    BY <1>1, <2>1 DEF Facing, TypeInv, TypeOK, NoRequest
  <2> QED BY <2>1, <2>2 DEF BeginWrite, At
<1>3. /\ req'[h].pc = "put" /\ req'[h].op = p /\ req'[h].key = k /\ req'[h].thumb = Null
      /\ req'[h].rows \in One(IF p \in ReadsFirst THEN Live(n) ELSE {})
  BY <1>1, BeginWriteFields DEF Facing
<1>4. /\ \A f, g \in req'[h].rows : f = g
      /\ \A f \in req'[h].rows : f \in files
      /\ p \in OnlyInserts => req'[h].rows = {}
  BY <1>3 DEF One, Live, OnlyInserts, ReadsFirst
<1>5. p \in WritePath
  BY DEF Tidy, WritePath
<1>6. TablesFit(req[h])'
  BY <1>1, <1>2, TablesKept DEF Doubled, Doubling
<1>7. StoreIs(req[h])'
  BY <1>1, <1>2, <1>3 DEF Account, StoreIs, SpareBlob, SpareThumb, RowKey, VersionKey, RowThumb, Holding, Overtaken
<1>8. /\ Unnamed(k)' /\ (\A f \in files : f.id # k) /\ (\A v \in versions : v.file # k)
      /\ \A f \in req'[h].rows : Stands(f)' /\ f.thumb \in {f.key, Null} /\ f.key \in minted'
  BY <1>1, <1>2, <1>4 DEF Account, TablesFit, Unnamed, RowKey, VersionKey, Stands
<1>9. WriteFits(req[h])'
  BY <1>2, <1>3, <1>4, <1>8 DEF WriteFits, WriterPoint, Holding, Doubling, Overtaken
<1> QED BY <1>3, <1>5, <1>6, <1>7, <1>9, WriterAccount

LEMMA PutBytesAccount ==
  ASSUME NEW h, Facing(h), PutBytes(h), req[h].op \in WritePath
  PROVE  Account(req[h])'
<1>1. Account(req[h]) /\ h \in Handler /\ Null \notin Key
  BY AccountOf
<1>2. req[h].pc = "put" /\ UNCHANGED <<files, versions, minted>>
  BY DEF PutBytes, At
<1>3. /\ req'[h].pc = AfterPut(req[h]) /\ req'[h].op = req[h].op /\ req'[h].key = req[h].key
      /\ req'[h].rows = req[h].rows /\ req'[h].thumb \in {req[h].key, Null}
      /\ blobs' = blobs \cup {req[h].key} /\ thumbs' = thumbs \cup ({req'[h].thumb} \ {Null})
  BY <1>1, PutBytesFields DEF Facing
<1>4. /\ Unnamed(req[h].key) /\ (\A f \in files : f.id # req[h].key)
      /\ (\A v \in versions : v.file # req[h].key) /\ (\A f \in req[h].rows : Stands(f))
      /\ req[h].key \in minted /\ req[h].op \in Tidy
      /\ (req[h].op \in OnlyInserts => req[h].rows = {})
      /\ (req[h].op = "resize" => req[h].rows # {})
      /\ \A f, g \in req[h].rows : f = g
      /\ \A f \in req[h].rows : f.thumb \in {f.key, Null} /\ f.key \in minted
  BY <1>1, <1>2 DEF Account, WriteFits
<1>5. \/ req'[h].pc = "archive" /\ req[h].rows # {}
      \/ req'[h].pc = "insert" /\ req[h].rows = {}
      \/ req'[h].pc = "read" /\ req[h].op \in {"finalize", "mcp"}
  BY <1>3, <1>4 DEF AfterPut, Tidy, OnlyInserts
<1>6. TablesFit(req[h])'
  BY <1>1, <1>2, TablesKept DEF Doubled, Doubling
<1>7. StoreIs(req[h])'
  BY <1>1, <1>2, <1>3, <1>5 DEF Account, StoreIs, SpareBlob, SpareThumb, RowKey, VersionKey, RowThumb, Holding, Overtaken
<1>8. /\ Unnamed(req[h].key)' /\ \A f \in req'[h].rows : Stands(f)'
  BY <1>2, <1>3, <1>4 DEF Unnamed, RowKey, VersionKey, Stands
<1>9. WriteFits(req[h])'
  BY <1>2, <1>3, <1>4, <1>5, <1>8 DEF WriteFits, WriterPoint, Holding, Doubling, Overtaken
<1> QED BY <1>3, <1>6, <1>7, <1>9, WriterAccount

LEMMA ReadExistingAccount ==
  ASSUME NEW h, Facing(h), ReadExisting(h), req[h].op \in WritePath
  PROVE  Account(req[h])'
<1>1. Account(req[h]) /\ h \in Handler /\ Null \notin Key
  BY AccountOf
<1>2. req[h].pc = "read" /\ UNCHANGED <<files, versions, blobs, thumbs, minted>>
  BY DEF ReadExisting, At
<1>3. /\ Unnamed(req[h].key) /\ (\A f \in files : f.id # req[h].key)
      /\ (\A v \in versions : v.file # req[h].key)
      /\ req[h].key \in minted /\ req[h].op \in {"finalize", "mcp"}
      /\ req[h].thumb \in {req[h].key, Null}
  BY <1>1, <1>2 DEF Account, WriteFits, Holding
<1>4. /\ req'[h].op = req[h].op /\ req'[h].key = req[h].key /\ req'[h].thumb = req[h].thumb
      /\ req'[h].rows \in One(Live(req[h].name))
      /\ req'[h].pc = IF req'[h].rows = {} THEN "insert" ELSE "archive"
  <2>1. ~ Finish(h) \/ req[h].op = "webdav"
    <3>1. PICK found : \/ req[h].op = "webdav" /\ found = {} /\ Finish(h)
                       \/ req' = [req EXCEPT ![h].rows = found,
                                    ![h].pc = IF found = {} THEN "insert" ELSE "archive"]
      BY DEF ReadExisting
    <3>2. CASE req' = [req EXCEPT ![h].rows = found,
                         ![h].pc = IF found = {} THEN "insert" ELSE "archive"]
      <4>1. req'[h].pc \in {"insert", "archive"}
        BY <1>1, <3>2, AccountOf DEF Facing, TypeInv, TypeOK, Request
      <4> QED BY <4>1, <1>1, FinishFields DEF Facing
    <3> QED BY <3>1, <3>2
  <2> QED BY <1>1, <1>3, <2>1, ReadExistingFields DEF Facing, Existing
<1>5. /\ \A f, g \in req'[h].rows : f = g
      /\ \A f \in req'[h].rows : f \in files /\ f.thumb \in {f.key, Null} /\ f.key \in minted
  <2>1. /\ \A f, g \in req'[h].rows : f = g
        /\ \A f \in req'[h].rows : f \in files
    BY <1>4 DEF One, Live
  <2>2. \A f \in files : f.thumb \in {f.key, Null} /\ f.key \in minted
    BY <1>1 DEF Account, TablesFit
  <2> QED BY <2>1, <2>2
<1>6. TablesFit(req[h])'
  BY <1>1, <1>2, TablesKept DEF Doubled, Doubling
<1>7. StoreIs(req[h])'
  BY <1>1, <1>2, <1>3, <1>4 DEF Account, StoreIs, SpareBlob, SpareThumb, RowKey, VersionKey, RowThumb, Holding, Overtaken
<1>8. /\ Unnamed(req[h].key)' /\ \A f \in req'[h].rows : Stands(f)'
  BY <1>2, <1>3, <1>4, <1>5 DEF Unnamed, RowKey, VersionKey, Stands
<1>9. WriteFits(req[h])'
  BY <1>2, <1>3, <1>4, <1>5, <1>8 DEF WriteFits, WriterPoint, Holding, Doubling, Overtaken, Tidy, OnlyInserts
<1> QED BY <1>3, <1>4, <1>6, <1>7, <1>9, WriterAccount

(* The row as it was read can be archived: nothing is at its number.       *)
LEMMA ArchiveGoesThrough ==
  ASSUME NEW h, Facing(h), req[h].pc = "archive", NEW f \in req[h].rows, Stands(f)
  PROVE  CanInsert(Archived(f)) /\ (\A v \in versions : v.key # f.key)
<1>1. TablesFit(req[h]) /\ files \subseteq FileRow /\ versions \subseteq VersionRow
  BY AccountOf DEF Account
<1>2. PICK g \in files : g.id = f.id /\ g.key = f.key /\ g.version = f.version
  BY DEF Stands
<1>3. \A v \in versions : ~ Doubled(req[h], g, v)
  BY DEF Doubled, Doubling
<1>4. \A v \in versions : v.key # g.key /\ (v.file = g.id => v.version < g.version)
  BY <1>1, <1>3 DEF TablesFit
<1>5. Archived(f).file = f.id /\ Archived(f).version = f.version
  BY DEF Archived
<1>6. g.version \in Nat /\ \A v \in versions : v.version \in Nat
  BY <1>1 DEF FileRow, VersionRow
<1>7. \A v \in versions : ~ (v.file = g.id /\ v.version = g.version)
  BY <1>4, <1>6
<1> QED BY <1>2, <1>4, <1>5, <1>7 DEF CanInsert

(* What archiving does to the tables, whoever does it.                     *)
LEMMA ArchiveTables ==
  ASSUME NEW h, Facing(h), NEW next, ArchiveCurrent(h, next),
         \A f \in req[h].rows : Stands(f), \A f, g \in req[h].rows : f = g,
         next \in {"update", "promote"}
  PROVE  /\ TablesFit(req[h])' /\ Goto(h, next)
         /\ \A f \in req[h].rows : Twin(f)'
         /\ \A f \in req[h].rows, v \in versions : ~ (v.file = f.id /\ v.version = f.version)
         /\ \A k : VersionKey(k)' <=> VersionKey(k) \/ \E f \in req[h].rows : f.key = k
         /\ UNCHANGED <<files, blobs, thumbs, minted>>
         /\ versions \subseteq versions' /\ req[h].rows # {}
<1>1. /\ Account(req[h]) /\ h \in Handler /\ files \subseteq FileRow /\ versions \subseteq VersionRow
      /\ req[h] \in Request
  BY AccountOf
<1>2. req[h].pc = "archive" /\ UNCHANGED <<files, blobs, thumbs, minted>>
  BY DEF ArchiveCurrent, At
<1>3. PICK f \in req[h].rows :
         \/ CanInsert(Archived(f)) /\ versions' = versions \cup {Archived(f)} /\ Goto(h, next)
         \/ ~ CanInsert(Archived(f))
  BY DEF ArchiveCurrent
<1>4. CanInsert(Archived(f)) /\ (\A v \in versions : v.key # f.key)
  BY <1>2, <1>3, ArchiveGoesThrough
<1>5. versions' = versions \cup {Archived(f)} /\ Goto(h, next)
  BY <1>3, <1>4
<1>6. /\ Archived(f).file = f.id /\ Archived(f).version = f.version /\ Archived(f).key = f.key
  BY DEF Archived
<1>7. PICK g \in files : g.id = f.id /\ g.key = f.key /\ g.version = f.version
  BY DEF Stands
<1>8. req'[h].pc = next /\ req'[h].rows = req[h].rows
  BY <1>1, <1>5, GotoFields DEF Facing
<1>9. \A v \in versions : ~ (v.file = f.id /\ v.version = f.version)
  BY <1>4, <1>6 DEF CanInsert
<1>10. TablesFit(req[h])
  BY <1>1 DEF Account
<1>11. \A e \in files : \A v \in versions : v.key # e.key /\ (v.file = e.id => v.version < e.version)
  <2>1. \A e \in files : \A v \in versions : ~ Doubled(req[h], e, v)
    BY <1>2 DEF Doubled, Doubling
  <2> QED BY <1>10, <2>1 DEF TablesFit
<1>12. \A e \in files, v \in versions' :
         /\ v.key = e.key => v.file = e.id /\ Doubled(req'[h], e, v)
         /\ v.file = e.id => v.version < e.version \/ (v.key = e.key /\ v.version = e.version)
  <2> SUFFICES ASSUME NEW e \in files, NEW v \in versions'
               PROVE /\ v.key = e.key => v.file = e.id /\ Doubled(req'[h], e, v)
                     /\ v.file = e.id => v.version < e.version \/ (v.key = e.key /\ v.version = e.version)
    OBVIOUS
  <2>1. CASE v \in versions
    BY <1>11, <2>1
  <2>2. CASE v = Archived(f)
    <3>1. v.key = e.key \/ v.file = e.id => e.id = g.id /\ e.key = g.key /\ e.version = g.version
      BY <1>10, <2>2, <1>6, <1>7 DEF TablesFit
    <3> QED BY <3>1, <2>2, <1>6, <1>7, <1>8, <1>3 DEF Doubled, Doubling
  <2> QED BY <1>5, <2>1, <2>2
<1>13. \A v, w \in versions' : v.key = w.key \/ (v.file = w.file /\ v.version = w.version) =>
         v.key = w.key /\ v.file = w.file /\ v.version = w.version
  BY <1>4, <1>5, <1>6, <1>9, <1>10 DEF TablesFit
<1>14. \A v \in versions' : v.file \in minted /\ v.key \in minted
  BY <1>5, <1>6, <1>7, <1>10 DEF TablesFit
<1>15. TablesFit(req[h])'
  BY <1>2, <1>10, <1>12, <1>13, <1>14 DEF TablesFit
<1>16. Twin(f)'
  BY <1>5 DEF Twin, Kept
<1>17. \A k : VersionKey(k)' <=> VersionKey(k) \/ f.key = k
  BY <1>5, <1>6 DEF VersionKey
<1> QED BY <1>2, <1>3, <1>5, <1>9, <1>15, <1>16, <1>17

LEMMA ArchiveForWriteAccount ==
  ASSUME NEW h, Facing(h), ArchiveForWrite(h), req[h].op \in WritePath
  PROVE  Account(req[h])'
<1>1. /\ Account(req[h]) /\ h \in Handler /\ Null \notin Key
  BY AccountOf
<1>2. req[h].pc = "archive" /\ ArchiveCurrent(h, "update")
  BY DEF ArchiveForWrite, ArchiveCurrent, At
<1>3. /\ Unnamed(req[h].key) /\ (\A f \in req[h].rows : Stands(f))
      /\ req[h].key \in minted /\ req[h].op \in Tidy
      /\ req[h].thumb \in {req[h].key, Null}
      /\ (req[h].op \in OnlyInserts => req[h].rows = {})
      /\ (\A f, g \in req[h].rows : f = g)
      /\ (\A f \in req[h].rows : f.thumb \in {f.key, Null} /\ f.key \in minted)
  BY <1>1, <1>2 DEF Account, WriteFits, Holding
<1>4. /\ TablesFit(req[h])' /\ Goto(h, "update")
      /\ \A f \in req[h].rows : Twin(f)'
      /\ \A k : VersionKey(k)' <=> VersionKey(k) \/ \E f \in req[h].rows : f.key = k
      /\ UNCHANGED <<files, blobs, thumbs, minted>>
      /\ req[h].rows # {}
  BY <1>2, <1>3, ArchiveTables
<1>5. /\ req'[h].pc = "update" /\ req'[h].op = req[h].op /\ req'[h].key = req[h].key
      /\ req'[h].rows = req[h].rows /\ req'[h].thumb = req[h].thumb
  BY <1>1, <1>4, GotoFields DEF Facing
<1>6. \A f \in req[h].rows : RowKey(f.key) /\ f.key # req[h].key
  BY <1>3 DEF Stands, RowKey, Unnamed
<1>7. Unnamed(req[h].key)' /\ \A f \in req'[h].rows : Stands(f)' /\ Twin(f)'
  BY <1>3, <1>4, <1>5, <1>6 DEF Unnamed, RowKey, Stands
<1>8. StoreIs(req[h])'
  <2>1. \A k : RowKey(k)' <=> RowKey(k)
    BY <1>4 DEF RowKey
  <2>2. \A k : RowKey(k)' \/ VersionKey(k)' <=> RowKey(k) \/ VersionKey(k)
    BY <1>4, <1>6, <2>1
  <2>3. \A k : RowThumb(k)' <=> RowThumb(k)
    BY <1>4 DEF RowThumb
  <2>4. \A k : SpareBlob(req[h], k)' <=> SpareBlob(req[h], k)
    BY <1>2, <1>5 DEF SpareBlob, Holding
  <2>5. \A k : SpareThumb(req[h], k)' <=> SpareThumb(req[h], k)
    BY <1>2, <1>5 DEF SpareThumb, Holding, Overtaken
  <2>6. StoreIs(req[h])
    BY <1>1 DEF Account
  <2> QED BY <1>4, <2>2, <2>3, <2>4, <2>5, <2>6 DEF StoreIs
<1>9. WriteFits(req[h])'
  BY <1>3, <1>4, <1>5, <1>7 DEF WriteFits, WriterPoint, Holding, Doubling, Overtaken, Tidy, OnlyInserts
<1> QED BY <1>3, <1>4, <1>5, <1>8, <1>9, WriterAccount

(* The row o gets other contents, and no other row changes.                *)
Rewrites(o, K, T, V) ==
  /\ \A g \in files' : \/ g \in files /\ g.id # o.id
                       \/ g.id = o.id /\ g.key = K /\ g.thumb = T /\ g.version = V
  /\ \A g \in files : g.id # o.id => g \in files'
  /\ \E g \in files' : g.id = o.id

LEMMA RewrittenRows ==
  ASSUME NEW r, TablesFit(r), NEW o \in files, NEW K \in minted, NEW T \in {K, Null}, NEW V,
         Rewrites(o, K, T, V), Null \notin Key, files \subseteq FileRow,
         UNCHANGED minted, \A g \in files : g.key = K => g.id = o.id
  PROVE  /\ \A f, g \in files' : f.id = g.id \/ f.key = g.key =>
               f.id = g.id /\ f.key = g.key /\ f.thumb = g.thumb /\ f.version = g.version
         /\ \A f \in files' : f.thumb \in {f.key, Null} /\ f.id \in minted' /\ f.key \in minted'
         /\ \A k \in Key : RowKey(k)' <=> (RowKey(k) /\ k # o.key) \/ k = K
         /\ \A k \in Key : RowThumb(k)' <=> (RowThumb(k) /\ k # o.thumb) \/ k = T
<1>1. /\ \A f, g \in files : f.id = g.id \/ f.key = g.key =>
           f.id = g.id /\ f.key = g.key /\ f.thumb = g.thumb /\ f.version = g.version
      /\ \A f \in files : f.thumb \in {f.key, Null} /\ f.id \in minted /\ f.key \in minted
  BY DEF TablesFit
<1>2. /\ \A g \in files' : \/ g \in files /\ g.id # o.id
                           \/ g.id = o.id /\ g.key = K /\ g.thumb = T /\ g.version = V
      /\ \A g \in files : g.id # o.id => g \in files'
  BY DEF Rewrites
<1>3. PICK n \in files' : n.id = o.id /\ n.key = K /\ n.thumb = T
  BY <1>2 DEF Rewrites
<1>4. \A f, g \in files' : f.id = g.id \/ f.key = g.key =>
           f.id = g.id /\ f.key = g.key /\ f.thumb = g.thumb /\ f.version = g.version
  BY <1>1, <1>2
<1>5. \A f \in files' : f.thumb \in {f.key, Null} /\ f.id \in minted' /\ f.key \in minted'
  BY <1>1, <1>2
<1>6. \A k \in Key : RowKey(k)' <=> (RowKey(k) /\ k # o.key) \/ k = K
  <2> SUFFICES ASSUME NEW k \in Key
               PROVE (\E f \in files' : f.key = k) <=> ((\E f \in files : f.key = k) /\ k # o.key) \/ k = K
    BY DEF RowKey
  <2>1. ASSUME NEW f \in files', f.key = k, k # K
        PROVE (\E g \in files : g.key = k) /\ k # o.key
    BY <1>1, <1>2, <2>1
  <2>2. ASSUME NEW f \in files, f.key = k, k # o.key
        PROVE \E g \in files' : g.key = k
    BY <1>1, <1>2, <2>2
  <2> QED BY <1>3, <2>1, <2>2
<1>7. \A k \in Key : RowThumb(k)' <=> (RowThumb(k) /\ k # o.thumb) \/ k = T
  <2> SUFFICES ASSUME NEW k \in Key
               PROVE (\E f \in files' : f.thumb = k) <=> ((\E f \in files : f.thumb = k) /\ k # o.thumb) \/ k = T
    BY DEF RowThumb
  <2>1. ASSUME NEW f \in files', f.thumb = k, k # T
        PROVE (\E g \in files : g.thumb = k) /\ k # o.thumb
    BY <1>1, <1>2, <2>1
  <2>2. ASSUME NEW f \in files, f.thumb = k, k # o.thumb
        PROVE \E g \in files' : g.thumb = k
    BY <1>1, <1>2, <2>2
  <2> QED BY <1>3, <2>1, <2>2
<1> QED BY <1>4, <1>5, <1>6, <1>7

LEMMA RewrittenTables ==
  ASSUME NEW h, TablesFit(req[h]), NEW o \in files, NEW K \in minted, NEW T \in {K, Null}, NEW V,
         Rewrites(o, K, T, V), Null \notin Key, files \subseteq FileRow,
         UNCHANGED <<versions, minted>>, \A g \in files : g.key = K => g.id = o.id,
         \A g \in files, v \in versions : g.id # o.id => ~ Doubled(req[h], g, v),
         \A v \in versions : v.key = K => v.file = o.id,
         \A g \in files', v \in versions : v.key = K /\ g.id = o.id => Doubled(req'[h], g, v),
         \A v \in versions : v.file = o.id => v.version < V \/ (v.key = K /\ v.version = V)
  PROVE  TablesFit(req[h])'
<1>1. /\ \A f, g \in files' : f.id = g.id \/ f.key = g.key =>
           f.id = g.id /\ f.key = g.key /\ f.thumb = g.thumb /\ f.version = g.version
      /\ \A f \in files' : f.thumb \in {f.key, Null} /\ f.id \in minted' /\ f.key \in minted'
  BY RewrittenRows
<1>2. \A g \in files' : \/ g \in files /\ g.id # o.id
                        \/ g.id = o.id /\ g.key = K /\ g.thumb = T /\ g.version = V
  BY DEF Rewrites
<1>3. ASSUME NEW g \in files', NEW v \in versions
      PROVE  /\ v.key = g.key => v.file = g.id /\ Doubled(req'[h], g, v)
             /\ v.file = g.id => v.version < g.version \/ (v.key = g.key /\ v.version = g.version)
  <2>1. CASE g \in files /\ g.id # o.id
    BY <2>1 DEF TablesFit
  <2>2. CASE g.id = o.id /\ g.key = K /\ g.version = V
    BY <2>2
  <2> QED BY <1>2, <2>1, <2>2
<1>4. /\ \A v, w \in versions : v.key = w.key \/ (v.file = w.file /\ v.version = w.version) =>
           v.key = w.key /\ v.file = w.file /\ v.version = w.version
      /\ \A v \in versions : v.file \in minted /\ v.key \in minted
  BY DEF TablesFit
<1> QED BY <1>1, <1>3, <1>4 DEF TablesFit

LEMMA UpdateRowAccount ==
  ASSUME NEW h, Facing(h), UpdateRow(h), req[h].op \in WritePath
  PROVE  Account(req[h])'
<1>1. /\ Account(req[h]) /\ h \in Handler /\ Null \notin Key /\ files \subseteq FileRow
      /\ versions \subseteq VersionRow /\ req[h] \in Request
  BY AccountOf
<1>2. req[h].pc = "update" /\ UNCHANGED <<versions, blobs, thumbs, minted>>
  BY DEF UpdateRow, At
<1>3. /\ Unnamed(req[h].key) /\ (\A f \in req[h].rows : Stands(f) /\ Twin(f))
      /\ req[h].key \in minted /\ req[h].op \in Tidy
      /\ req[h].thumb \in {req[h].key, Null}
      /\ (req[h].op \in OnlyInserts => req[h].rows = {})
      /\ (\A f, g \in req[h].rows : f = g) /\ TablesFit(req[h])
      /\ (\A f \in req[h].rows : f.thumb \in {f.key, Null} /\ f.key \in minted)
  BY <1>1, <1>2 DEF Account, WriteFits, Holding, Doubling
<1>4. PICK f \in req[h].rows :
         /\ files' = {IF g.id = f.id THEN Overwritten(g, f, req[h]) ELSE g : g \in files}
         /\ Goto(h, IF req[h].op \in DropsEarly /\ f.thumb # Null THEN "drop early" ELSE "check")
  BY DEF UpdateRow
<1>5. req[h].op \notin DropsEarly /\ req[h].op \notin KeepsThumb
  BY <1>3 DEF Tidy, DropsEarly, KeepsThumb
<1>6. /\ req'[h].pc = "check" /\ req'[h].op = req[h].op /\ req'[h].key = req[h].key
      /\ req'[h].rows = req[h].rows /\ req'[h].thumb = req[h].thumb
  BY <1>1, <1>4, <1>5, GotoFields DEF Facing
<1>7. PICK o \in files : o.id = f.id /\ o.key = f.key /\ o.thumb = f.thumb /\ o.version = f.version
  BY <1>3 DEF Stands
<1> DEFINE V == f.version + 1
<1>8. Rewrites(o, req[h].key, req[h].thumb, V)
  <2>1. \A g \in files : LET n == Overwritten(g, f, req[h]) IN
           n.id = g.id /\ n.key = req[h].key /\ n.thumb = req[h].thumb /\ n.version = V
    BY <1>1, <1>5 DEF Overwritten, FileRow
  <2>2. \A g \in files' : \E e \in files : g = IF e.id = f.id THEN Overwritten(e, f, req[h]) ELSE e
    BY <1>4
  <2>3. \A e \in files : (IF e.id = f.id THEN Overwritten(e, f, req[h]) ELSE e) \in files'
    BY <1>4
  <2>4. Overwritten(o, f, req[h]) \in files'
    BY <2>3, <1>7
  <2> QED BY <1>7, <2>1, <2>2, <2>3, <2>4 DEF Rewrites
<1>9. req[h].key \notin {g.key : g \in files} /\ \A v \in versions : v.key # req[h].key
  BY <1>3 DEF Unnamed, RowKey, VersionKey
<1>10. TablesFit(req[h])'
  <2>1. \A g \in files, v \in versions : g.id # o.id => ~ Doubled(req[h], g, v)
    BY <1>2, <1>3, <1>7 DEF Doubled
  <2>2. \A v \in versions : v.file = o.id => v.version < V
    <3>1. \A v \in versions : v.file = o.id => v.version < o.version \/ v.version = o.version
      BY <1>3 DEF TablesFit
    <3>2. o.version \in Nat /\ \A v \in versions : v.version \in Nat
      BY <1>1 DEF FileRow, VersionRow
    <3> QED BY <3>1, <3>2, <1>7
  <2> HIDE DEF V
  <2> QED BY <1>1, <1>2, <1>3, <1>8, <1>9, <2>1, <2>2, RewrittenTables
<1>11. /\ \A k \in Key : RowKey(k)' <=> (RowKey(k) /\ k # f.key) \/ k = req[h].key
       /\ \A k \in Key : RowThumb(k)' <=> (RowThumb(k) /\ k # f.thumb) \/ k = req[h].thumb
  BY <1>1, <1>2, <1>3, <1>7, <1>8, <1>9, RewrittenRows
<1>12. Twin(f)' /\ Turned(f, req[h].key, req[h].thumb)'
  <2>1. Twin(f)'
    BY <1>2, <1>3, VersionsLook
  <2>2. PICK g \in files' : g.id = o.id
    BY <1>8 DEF Rewrites
  <2>3. g.key = req[h].key /\ g.thumb = req[h].thumb /\ g.version = V
    BY <1>8, <2>2 DEF Rewrites
  <2> QED BY <2>1, <2>2, <2>3, <1>7, <1>6 DEF Turned
<1>13. \A g \in req[h].rows : g = f
  BY <1>3
<1>14. VersionKey(f.key) /\ RowKey(f.key) /\ (f.thumb # Null => RowThumb(f.thumb))
  BY <1>3, <1>7 DEF Twin, Kept, VersionKey, Archived, RowKey, RowThumb
<1>15. StoreIs(req[h])'
  <2>1. \A k : VersionKey(k)' <=> VersionKey(k)
    BY <1>2 DEF VersionKey
  <2>2. \A k \in Key : ~ SpareBlob(req[h], k)' /\ (SpareBlob(req[h], k) <=> k = req[h].key)
    BY <1>2, <1>6, <1>3 DEF SpareBlob, Holding, Tidy, WritePath
  <2>3. \A k \in Key : /\ SpareThumb(req[h], k)' <=> k = f.thumb
                       /\ SpareThumb(req[h], k) <=> k = req[h].thumb
    BY <1>2, <1>3, <1>6, <1>13 DEF SpareThumb, Holding, Overtaken, Tidy, WritePath
  <2>4. StoreIs(req[h])
    BY <1>1 DEF Account
  <2>5. \A k \in Key : k \in blobs <=> RowKey(k)' \/ VersionKey(k)' \/ SpareBlob(req[h], k)'
    BY <2>1, <2>2, <2>4, <1>11, <1>14 DEF StoreIs
  <2>6. \A k \in Key : k \in thumbs <=> RowThumb(k)' \/ SpareThumb(req[h], k)'
    BY <2>3, <2>4, <1>11, <1>14, <1>1 DEF StoreIs
  <2> QED BY <1>2, <2>5, <2>6 DEF StoreIs
<1>16. WriteFits(req[h])'
  BY <1>2, <1>3, <1>6, <1>12, <1>13 DEF WriteFits, WriterPoint, Holding, Doubling, Overtaken, Tidy, OnlyInserts
<1> QED BY <1>3, <1>6, <1>10, <1>15, <1>16, WriterAccount

LEMMA UndoUpdateAccount ==
  ASSUME NEW h, Facing(h), UndoUpdate(h), req[h].op \in WritePath
  PROVE  Account(req[h])'
<1>1. /\ Account(req[h]) /\ h \in Handler /\ Null \notin Key /\ files \subseteq FileRow
      /\ versions \subseteq VersionRow /\ req[h] \in Request
  BY AccountOf
<1>2. req[h].pc = "undo row" /\ UNCHANGED <<versions, blobs, thumbs, minted>>
  BY DEF UndoUpdate, At
<1>3. PICK f \in req[h].rows :
         files' = {IF g \in UndoTarget(req[h]) THEN PutBack(g, f, req[h]) ELSE g : g \in files}
  BY DEF UndoUpdate
<1>4. /\ req[h].key \in minted /\ req[h].op \in Tidy
      /\ req[h].thumb \in {req[h].key, Null}
      /\ (req[h].op \in OnlyInserts => req[h].rows = {})
      /\ (\A g \in req[h].rows : g = f)
      /\ f.thumb \in {f.key, Null} /\ f.key \in minted
      /\ Turned(f, req[h].key, req[h].thumb) /\ TablesFit(req[h]) /\ StoreIs(req[h])
  BY <1>1, <1>2 DEF Account, WriteFits, Overtaken
<1>5. /\ req[h].op \in GuardsUndo => Twin(f)
      /\ req[h].op \notin GuardsUndo =>
              /\ Unnamed(f.key)
              /\ \A v \in versions : ~ (v.file = f.id /\ v.version = f.version)
  BY <1>1, <1>2 DEF Account, WriteFits, Overtaken
<1>6. PICK o \in files : /\ o.id = f.id /\ o.key = req[h].key /\ o.thumb = req[h].thumb
                         /\ o.version = f.version + 1
  BY <1>4 DEF Turned
<1>7. \A g \in files : g \in UndoTarget(req[h]) <=> g.id = f.id
  <2>1. \A g \in files : g.id = f.id => g.key = req[h].key
    BY <1>4, <1>6 DEF TablesFit
  <2> QED BY <1>4, <2>1 DEF UndoTarget
<1>8. Goto(h, IF req[h].op \in GuardsUndo THEN "undo version" ELSE "undo blob")
  BY <1>6, <1>7 DEF UndoUpdate
<1>9. /\ req'[h].pc = (IF req[h].op \in GuardsUndo THEN "undo version" ELSE "undo blob")
      /\ req'[h].op = req[h].op /\ req'[h].key = req[h].key
      /\ req'[h].rows = req[h].rows /\ req'[h].thumb = req[h].thumb
  BY <1>1, <1>8, GotoFields DEF Facing
<1>10. Rewrites(o, f.key, f.thumb, f.version)
  <2>0. req[h].op \notin KeepsThumb
    BY <1>4 DEF Tidy, KeepsThumb
  <2>1. \A g \in files : LET n == PutBack(g, f, req[h]) IN
           n.id = g.id /\ n.key = f.key /\ n.thumb = f.thumb /\ n.version = f.version
    BY <1>1, <2>0 DEF PutBack, FileRow
  <2>2. \A g \in files' : \E e \in files : g = IF e.id = f.id THEN PutBack(e, f, req[h]) ELSE e
    BY <1>3, <1>7
  <2>3. \A e \in files : (IF e.id = f.id THEN PutBack(e, f, req[h]) ELSE e) \in files'
    BY <1>3, <1>7
  <2>4. PutBack(o, f, req[h]) \in files'
    BY <2>3, <1>6
  <2> QED BY <1>6, <2>1, <2>2, <2>3, <2>4 DEF Rewrites
<1>11. \A g \in files, v \in versions : ~ Doubled(req[h], g, v)
  BY <1>2 DEF Doubled, Doubling
<1>12. \A g \in files, v \in versions : v.key # g.key
  BY <1>4, <1>11 DEF TablesFit
<1>13. ASSUME req[h].op \in GuardsUndo
       PROVE  \E w \in versions : w.file = f.id /\ w.version = f.version /\ w.key = f.key
  BY <1>5, <1>13 DEF Twin, Kept, Archived
<1>14. (\A g \in files : g.key # f.key) /\ f.key # req[h].key
  <2>1. CASE req[h].op \in GuardsUndo
    BY <2>1, <1>6, <1>12, <1>13
  <2>2. CASE req[h].op \notin GuardsUndo
    BY <2>2, <1>5, <1>6 DEF Unnamed, RowKey
  <2> QED BY <2>1, <2>2
<1>15. ASSUME NEW v \in versions
       PROVE  /\ v.key = f.key => /\ v.file = o.id /\ v.version = f.version
                                  /\ req[h].op \in GuardsUndo
              /\ v.file = o.id => v.version < f.version \/ (v.key = f.key /\ v.version = f.version)
  <2>1. CASE req[h].op \in GuardsUndo
    <3>1. PICK w \in versions : w.file = f.id /\ w.version = f.version /\ w.key = f.key
      BY <1>13, <2>1
    <3>2. /\ v.key = w.key => v.file = w.file /\ v.version = w.version
          /\ v.file = w.file /\ v.version = w.version => v.key = w.key
      BY <1>4 DEF TablesFit
    <3>3. v.file = o.id => v.version < o.version
      BY <1>4, <1>12 DEF TablesFit
    <3>4. v.version \in Nat /\ w.version \in Nat
      BY <1>1 DEF VersionRow
    <3> QED BY <2>1, <3>1, <3>2, <3>3, <3>4, <1>6
  <2>2. CASE req[h].op \notin GuardsUndo
    <3>1. v.key # f.key /\ ~ (v.file = f.id /\ v.version = f.version)
      BY <2>2, <1>5 DEF Unnamed, VersionKey
    <3>2. v.file = o.id => v.version < o.version
      BY <1>4, <1>12 DEF TablesFit
    <3>3. v.version \in Nat /\ f.version \in Nat
      BY <1>1 DEF VersionRow, Request, FileRow
    <3> QED BY <3>1, <3>2, <3>3, <1>6
  <2> QED BY <2>1, <2>2
<1>16. \A g \in files', v \in versions : v.key = f.key /\ g.id = o.id => Doubled(req'[h], g, v)
  <2>1. \A g \in files' : g.id = o.id => g.version = f.version
    BY <1>10 DEF Rewrites
  <2> QED BY <2>1, <1>6, <1>9, <1>15 DEF Doubled, Doubling
<1>17. TablesFit(req[h])'
  <2> DEFINE K == f.key   T == f.thumb   V == f.version
  <2>1. /\ K \in minted /\ T \in {K, Null} /\ Rewrites(o, K, T, V)
        /\ \A g \in files : g.key = K => g.id = o.id
        /\ \A v \in versions : v.key = K => v.file = o.id
        /\ \A g \in files', v \in versions : v.key = K /\ g.id = o.id => Doubled(req'[h], g, v)
        /\ \A v \in versions : v.file = o.id => v.version < V \/ (v.key = K /\ v.version = V)
    BY <1>4, <1>10, <1>14, <1>15, <1>16
  <2> HIDE DEF K, T, V
  <2>2. /\ TablesFit(req[h]) /\ Null \notin Key /\ files \subseteq FileRow
        /\ UNCHANGED <<versions, minted>>
        /\ \A g \in files, v \in versions : g.id # o.id => ~ Doubled(req[h], g, v)
    BY <1>1, <1>2, <1>4, <1>11
  <2>3. K \in minted
    BY <2>1
  <2>4. T \in {K, Null}
    BY <2>1
  <2> QED BY <2>1, <2>2, <2>3, <2>4, RewrittenTables
<1>18. /\ \A k \in Key : RowKey(k)' <=> (RowKey(k) /\ k # req[h].key) \/ k = f.key
       /\ \A k \in Key : RowThumb(k)' <=> (RowThumb(k) /\ k # req[h].thumb) \/ k = f.thumb
  <2> DEFINE K == f.key   T == f.thumb   V == f.version
  <2>1. /\ K \in minted /\ T \in {K, Null} /\ Rewrites(o, K, T, V)
        /\ \A g \in files : g.key = K => g.id = o.id
    BY <1>4, <1>10, <1>14
  <2>2. /\ \A k \in Key : RowKey(k)' <=> (RowKey(k) /\ k # o.key) \/ k = K
        /\ \A k \in Key : RowThumb(k)' <=> (RowThumb(k) /\ k # o.thumb) \/ k = T
    <3> HIDE DEF K, T, V
    <3>1. TablesFit(req[h]) /\ Null \notin Key /\ files \subseteq FileRow /\ UNCHANGED minted
      BY <1>1, <1>2, <1>4
    <3>2. K \in minted
      BY <2>1
    <3>3. T \in {K, Null}
      BY <2>1
    <3>4. Rewrites(o, K, T, V) /\ \A g \in files : g.key = K => g.id = o.id
      BY <2>1
    <3> QED BY <3>1, <3>2, <3>3, <3>4, RewrittenRows
  <2> QED BY <2>2, <1>6
<1>19. req[h].key \in Key /\ f.key \in Key
  BY <1>1, <1>6 DEF FileRow, Request
<1>20. Unnamed(req[h].key)'
  <2>1. ~ RowKey(req[h].key)'
    BY <1>9, <1>14, <1>18, <1>19
  <2>2. ~ VersionKey(req[h].key)'
    BY <1>2, <1>6, <1>9, <1>12 DEF VersionKey
  <2> QED BY <2>1, <2>2 DEF Unnamed
<1>21. Stands(f)' /\ (req[h].op \in GuardsUndo => Twin(f)')
  <2>1. PICK g \in files' : g.id = o.id
    BY <1>10 DEF Rewrites
  <2>2. g.key = f.key /\ g.thumb = f.thumb /\ g.version = f.version
    BY <1>10, <2>1 DEF Rewrites
  <2> QED BY <2>1, <2>2, <1>2, <1>5, <1>6, VersionsLook DEF Stands
<1>22. StoreIs(req[h])'
  <2>1. \A k : VersionKey(k)' <=> VersionKey(k)
    BY <1>2 DEF VersionKey
  <2>2. \A k \in Key : SpareBlob(req[h], k)' <=> k = req[h].key
    BY <1>4, <1>9 DEF SpareBlob, Holding, Tidy, WritePath
  <2>3. \A k \in Key : SpareBlob(req[h], k) <=> k = f.key /\ req[h].op \notin GuardsUndo
    BY <1>2, <1>4 DEF SpareBlob, Holding
  <2>4. \A k \in Key : /\ SpareThumb(req[h], k)' <=> k = req[h].thumb
                       /\ SpareThumb(req[h], k) <=> k = f.thumb
    BY <1>2, <1>4, <1>9 DEF SpareThumb, Holding, Overtaken, Tidy, WritePath
  <2>5. RowKey(req[h].key) /\ (req[h].op \in GuardsUndo => VersionKey(f.key))
    BY <1>6, <1>13 DEF RowKey, VersionKey
  <2>6. \A k \in Key : k \in blobs <=> RowKey(k)' \/ VersionKey(k)' \/ SpareBlob(req[h], k)'
    BY <2>1, <2>2, <2>3, <2>5, <1>4, <1>18 DEF StoreIs
  <2>7. req[h].thumb # Null => RowThumb(req[h].thumb)
    BY <1>6 DEF RowThumb
  <2>8. \A k \in Key : k \in thumbs <=> RowThumb(k)' \/ SpareThumb(req[h], k)'
    BY <2>4, <2>7, <1>1, <1>4, <1>18 DEF StoreIs
  <2> QED BY <1>2, <2>6, <2>8 DEF StoreIs
<1>23. WriteFits(req[h])'
  BY <1>2, <1>4, <1>9, <1>20, <1>21 DEF WriteFits, WriterPoint, Holding, Doubling, Overtaken, Tidy, OnlyInserts
<1> QED BY <1>4, <1>9, <1>17, <1>22, <1>23, WriterAccount

(* What a request of the write paths knows wherever it is.                 *)
LEMMA WriterKnows ==
  ASSUME NEW h, Facing(h), req[h].op \in WritePath
  PROVE  /\ req[h].op \in Tidy /\ req[h].key \in minted /\ req[h].key \in Key
         /\ req[h].thumb \in {req[h].key, Null}
         /\ req[h].op \in OnlyInserts => req[h].rows = {}
         /\ req[h].op = "resize" => req[h].rows # {}
         /\ \A f, g \in req[h].rows : f = g
         /\ \A f \in req[h].rows : f.thumb \in {f.key, Null} /\ f.key \in minted
         /\ TablesFit(req[h]) /\ StoreIs(req[h])
<1>1. req[h].key \in Key
  BY DEF Facing, StoreInv, TypeInv, WriterKnown, Targeted
<1>2. Account(req[h])
  BY AccountOf
<1> QED BY <1>1, <1>2 DEF Account, WriteFits

LEMMA RejectAccount ==
  ASSUME NEW h, Facing(h), Reject(h), req[h].op \in WritePath
  PROVE  Account(req[h])'
<1>1. Account(req[h]) /\ h \in Handler /\ req[h] \in Request /\ Null \notin Key
  BY AccountOf
<1>2. /\ req[h].pc = "check" /\ UNCHANGED <<files, versions, blobs, thumbs, minted>>
      /\ Goto(h, IF req[h].rows = {} \/ req[h].op \in GuardsUndo THEN "undo row" ELSE "undo version")
  BY DEF Reject, At
<1> DEFINE next == IF req[h].rows = {} \/ req[h].op \in GuardsUndo THEN "undo row" ELSE "undo version"
<1>3. /\ req'[h].pc = next
      /\ req'[h].op = req[h].op /\ req'[h].key = req[h].key
      /\ req'[h].thumb = req[h].thumb /\ req'[h].rows = req[h].rows /\ req'[h].vers = req[h].vers
  BY <1>1, <1>2, GotoFields DEF Facing
<1>4. \/ next = "undo row" /\ (req[h].rows = {} \/ req[h].op \in GuardsUndo)
      \/ next = "undo version" /\ req[h].rows # {} /\ req[h].op \notin GuardsUndo
  OBVIOUS
<1> HIDE DEF next
<1>5. /\ \A f \in req[h].rows : Twin(f) /\ Turned(f, req[h].key, req[h].thumb)
      /\ req[h].rows = {} =>
           /\ \E f \in files : f.id = req[h].key /\ f.key = req[h].key /\ f.thumb = req[h].thumb
           /\ \A v \in versions : v.file # req[h].key
  BY <1>1, <1>2 DEF Account, WriteFits, Overtaken
<1>6. TablesFit(req[h])'
  BY <1>1, <1>2, TablesKept DEF Doubled, Doubling
<1>7. StoreIs(req[h])'
  <2>1. \A k \in Key : SpareBlob(req[h], k)' <=> SpareBlob(req[h], k)
    BY <1>2, <1>3, <1>4 DEF SpareBlob, Holding
  <2>2. \A k \in Key : SpareThumb(req[h], k)' <=> SpareThumb(req[h], k)
    BY <1>2, <1>3, <1>4 DEF SpareThumb, Holding, Overtaken
  <2> QED BY <1>1, <1>2, <2>1, <2>2 DEF Account, StoreIs, RowKey, VersionKey, RowThumb
<1>8. \A f \in req'[h].rows : Twin(f)' /\ Turned(f, req[h].key, req[h].thumb)'
  BY <1>2, <1>3, <1>5, RowsLook, VersionsLook
<1>k. /\ req[h].op \in Tidy /\ req[h].key \in minted
      /\ req[h].thumb \in {req[h].key, Null}
      /\ req[h].op \in OnlyInserts => req[h].rows = {}
      /\ req[h].op = "resize" => req[h].rows # {}
      /\ \A f, g \in req[h].rows : f = g
      /\ \A f \in req[h].rows : f.thumb \in {f.key, Null} /\ f.key \in minted
  BY WriterKnows
<1>9. WriteFits(req[h])'
  BY <1>2, <1>3, <1>4, <1>5, <1>8, <1>k DEF WriteFits, WriterPoint, Holding, Doubling, Overtaken
<1> QED BY <1>3, <1>6, <1>7, <1>9, WriterAccount

LEMMA UndoVersionAccount ==
  ASSUME NEW h, Facing(h), UndoVersion(h), req[h].op \in WritePath
  PROVE  Account(req[h])'
<1>1. /\ Account(req[h]) /\ h \in Handler /\ req[h] \in Request /\ Null \notin Key
      /\ versions \subseteq VersionRow
  BY AccountOf
<1>2. /\ req[h].pc = "undo version" /\ UNCHANGED <<files, blobs, thumbs, minted>>
      /\ Goto(h, IF req[h].op \in GuardsUndo THEN "undo blob" ELSE "undo row")
  BY DEF UndoVersion, At
<1>3. PICK f \in req[h].rows :
         versions' = {v \in versions : ~ (v.file = f.id /\ v.version = f.version)}
  BY DEF UndoVersion
<1> DEFINE next == IF req[h].op \in GuardsUndo THEN "undo blob" ELSE "undo row"
<1>4. /\ req'[h].pc = next
      /\ req'[h].op = req[h].op /\ req'[h].key = req[h].key
      /\ req'[h].thumb = req[h].thumb /\ req'[h].rows = req[h].rows /\ req'[h].vers = req[h].vers
  BY <1>1, <1>2, GotoFields DEF Facing
<1>5. \/ next = "undo blob" /\ req[h].op \in GuardsUndo
      \/ next = "undo row" /\ req[h].op \notin GuardsUndo
  OBVIOUS
<1> HIDE DEF next
<1>6. /\ Twin(f) /\ \A g \in req[h].rows : g = f
      /\ req[h].op \in GuardsUndo => Stands(f) /\ Unnamed(req[h].key)
      /\ req[h].op \notin GuardsUndo => Turned(f, req[h].key, req[h].thumb)
  BY <1>1, <1>2 DEF Account, WriteFits, Overtaken, Doubling, Holding
<1>7. PICK w \in versions : w.file = f.id /\ w.version = f.version /\ w.key = f.key
  BY <1>6 DEF Twin, Kept, Archived
<1>8. \A v \in versions : v.key = f.key <=> v.file = f.id /\ v.version = f.version
  BY <1>7, WriterKnows DEF TablesFit
<1>9. \A k : (\E v \in versions' : v.key = k) <=> (\E v \in versions : v.key = k) /\ k # f.key
  BY <1>3, <1>8
<1>10. /\ req[h].op \in GuardsUndo => \E g \in files : g.key = f.key
       /\ req[h].op \notin GuardsUndo => \A g \in files : g.key # f.key
  <2>1. CASE req[h].op \in GuardsUndo
    BY <1>6, <2>1 DEF Stands
  <2>2. CASE req[h].op \notin GuardsUndo
    <3>1. \A g \in files : ~ Doubled(req[h], g, w)
      BY <1>2, <2>2 DEF Doubled, Doubling
    <3> QED BY <2>2, <3>1, <1>7, WriterKnows DEF TablesFit
  <2> QED BY <2>1, <2>2
<1>11. \A g \in files, v \in versions' : v.key # g.key
  <2> SUFFICES ASSUME NEW g \in files, NEW v \in versions', v.key = g.key
               PROVE  FALSE
    OBVIOUS
  <2>1. v \in versions /\ ~ (v.file = f.id /\ v.version = f.version)
    BY <1>3
  <2>2. v.file = g.id /\ Doubled(req[h], g, v)
    BY <2>1, WriterKnows DEF TablesFit
  <2>3. v.version = g.version /\ g.id = f.id /\ req[h].op \in GuardsUndo
    BY <1>2, <1>6, <2>2 DEF Doubled, Doubling
  <2>4. PICK e \in files : e.id = f.id /\ e.version = f.version
    BY <1>6, <2>3 DEF Stands
  <2>5. g.version = e.version
    BY <2>3, <2>4, WriterKnows DEF TablesFit
  <2> QED BY <2>1, <2>2, <2>3, <2>4, <2>5
<1>12. TablesFit(req[h])'
  <2>1. TablesFit(req[h]) /\ versions' \subseteq versions
    BY <1>3, WriterKnows
  <2> QED BY <1>2, <1>11, <2>1 DEF TablesFit
<1>13. StoreIs(req[h])'
  <2>1. \A k \in Key : SpareBlob(req[h], k)' <=> \/ req[h].op \in GuardsUndo /\ k = req[h].key
                                                 \/ req[h].op \notin GuardsUndo /\ k = f.key
    <3>1. CASE req[h].op \in GuardsUndo
      BY <3>1, <1>4, <1>5 DEF SpareBlob, Holding
    <3>2. CASE req[h].op \notin GuardsUndo
      BY <3>2, <1>4, <1>5, <1>6 DEF SpareBlob, Holding
    <3> QED BY <3>1, <3>2
  <2>2. \A k \in Key : SpareBlob(req[h], k) <=> req[h].op \in GuardsUndo /\ k = req[h].key
    BY <1>2 DEF SpareBlob, Holding
  <2>3. \A k \in Key : SpareThumb(req[h], k)' <=> SpareThumb(req[h], k)
    BY <1>2, <1>4, <1>5 DEF SpareThumb, Holding, Overtaken
  <2>4. \A k \in Key : k \in blobs <=> RowKey(k) \/ (\E v \in versions' : v.key = k) \/ SpareBlob(req[h], k)'
    <3>1. \A k \in Key : k \in blobs <=> RowKey(k) \/ VersionKey(k) \/ SpareBlob(req[h], k)
      BY WriterKnows DEF StoreIs
    <3>2. VersionKey(f.key) /\ \A k : (\E v \in versions' : v.key = k) <=> VersionKey(k) /\ k # f.key
      BY <1>7, <1>9 DEF VersionKey
    <3>3. req[h].op \in GuardsUndo => RowKey(f.key)
      BY <1>10 DEF RowKey
    <3>4. ASSUME NEW k \in Key
          PROVE  k \in blobs <=> \/ RowKey(k) \/ (\E v \in versions' : v.key = k)
                                 \/ req[h].op \in GuardsUndo /\ k = req[h].key
                                 \/ req[h].op \notin GuardsUndo /\ k = f.key
      BY <2>2, <3>1, <3>2, <3>3
    <3> QED BY <2>1, <3>4
  <2>5. \A k \in Key : k \in thumbs <=> RowThumb(k) \/ SpareThumb(req[h], k)'
    BY <2>3, WriterKnows DEF StoreIs
  <2> QED BY <1>2, <2>4, <2>5 DEF StoreIs, RowKey, RowThumb, VersionKey
<1>14. /\ req[h].op \in GuardsUndo => Unnamed(req[h].key)'
       /\ req[h].op \notin GuardsUndo =>
            /\ Unnamed(f.key)' /\ Turned(f, req[h].key, req[h].thumb)'
            /\ \A v \in versions' : ~ (v.file = f.id /\ v.version = f.version)
  <2>1. req[h].op \in GuardsUndo => Unnamed(req[h].key)'
    BY <1>2, <1>4, <1>6, <1>9 DEF Unnamed, RowKey, VersionKey
  <2>2. req[h].op \notin GuardsUndo => Unnamed(f.key)'
    BY <1>2, <1>9, <1>10 DEF Unnamed, RowKey, VersionKey
  <2> QED BY <2>1, <2>2, <1>2, <1>3, <1>4, <1>6, RowsLook
<1>15. WriteFits(req[h])'
  BY <1>2, <1>4, <1>5, <1>6, <1>14, WriterKnows DEF WriteFits, WriterPoint, Holding, Doubling, Overtaken
<1> QED BY <1>4, <1>12, <1>13, <1>15, WriterAccount

LEMMA DropOldThumbAccount ==
  ASSUME NEW h, Facing(h), DropOldThumb(h), req[h].op \in WritePath
  PROVE  Account(req[h])'
<1>1. Account(req[h]) /\ h \in Handler /\ req[h] \in Request /\ Null \notin Key
  BY AccountOf
<1>2. /\ req[h].pc = "drop late" /\ Finish(h) /\ thumbs' = thumbs \ OldThumb(req[h])
      /\ UNCHANGED <<files, versions, blobs, minted>>
  BY <1>1 DEF DropOldThumb, At, Account, WriteFits
<1>3. \A f, g \in req[h].rows : f = g
  BY WriterKnows
<1>4. \A f \in req[h].rows : Twin(f) /\ f.thumb \in {f.key, Null}
  BY <1>1, <1>2 DEF Account, WriteFits, Overtaken
<1>5. \A f \in files, v \in versions : ~ Doubled(req[h], f, v)
  BY <1>2 DEF Doubled, Doubling
<1>6. \A k \in OldThumb(req[h]) : ~ RowThumb(k)
  <2> SUFFICES ASSUME NEW f \in req[h].rows, f.thumb # Null
               PROVE  \A g \in files : g.thumb # f.thumb
    BY DEF OldThumb, RowThumb
  <2>1. PICK v \in versions : v.key = f.key
    BY <1>4 DEF Twin, Kept, Archived
  <2>2. \A g \in files : g.key # f.key
    BY <2>1, <1>5, WriterKnows DEF TablesFit
  <2>3. \A g \in files : g.thumb \in {g.key, Null}
    BY WriterKnows DEF TablesFit
  <2> QED BY <1>4, <2>2, <2>3
<1>7. \A k \in Key : /\ k \in blobs <=> RowKey(k) \/ VersionKey(k)
                     /\ k \in thumbs <=> RowThumb(k) \/ k \in OldThumb(req[h])
  <2>1. \A k \in Key : ~ SpareBlob(req[h], k)
    BY <1>2 DEF SpareBlob, Holding
  <2>2. \A k \in Key : SpareThumb(req[h], k) <=> k \in OldThumb(req[h])
    BY <1>1, <1>2 DEF SpareThumb, Holding, Overtaken, OldThumb
  <2> QED BY <2>1, <2>2, WriterKnows DEF StoreIs
<1>8. \A k \in Key : /\ k \in blobs' <=> RowKey(k) \/ VersionKey(k)
                     /\ k \in thumbs' <=> RowThumb(k)
  BY <1>2, <1>6, <1>7
<1> QED BY <1>2, <1>5, <1>8, FinishAccount

LEMMA UndoBlobAccount ==
  ASSUME NEW h, Facing(h), UndoBlob(h), req[h].op \in WritePath
  PROVE  Account(req[h])'
<1>1. Account(req[h]) /\ h \in Handler /\ req[h] \in Request /\ Null \notin Key
  BY AccountOf
<1>2. /\ req[h].pc = "undo blob" /\ Finish(h) /\ blobs' = blobs \ {req[h].key}
      /\ thumbs' = thumbs \ {req[h].thumb} /\ UNCHANGED <<files, versions, minted>>
  BY DEF UndoBlob, At
<1>3. ~RowKey(req[h].key) /\ ~VersionKey(req[h].key)
  BY <1>1, <1>2 DEF Account, WriteFits, Holding, Unnamed
<1>4. \A f \in files, v \in versions : ~ Doubled(req[h], f, v)
  BY <1>2 DEF Doubled, Doubling
<1>5. \A k \in Key : /\ k \in blobs <=> RowKey(k) \/ VersionKey(k) \/ k = req[h].key
                     /\ k \in thumbs <=> RowThumb(k) \/ k = req[h].thumb
  <2>1. \A k \in Key : SpareBlob(req[h], k) <=> k = req[h].key
    BY <1>2 DEF SpareBlob, Holding
  <2>2. \A k \in Key : SpareThumb(req[h], k) <=> k = req[h].thumb
    BY <1>2 DEF SpareThumb, Holding, Overtaken
  <2> QED BY <2>1, <2>2, WriterKnows DEF StoreIs
<1>6. \A k \in Key : k = req[h].thumb => ~ RowThumb(k)
  <2>1. req[h].thumb \in {req[h].key, Null} /\ \A f \in files : f.thumb \in {f.key, Null}
    BY WriterKnows DEF TablesFit
  <2> QED BY <1>1, <1>3, <2>1 DEF RowThumb, RowKey
<1>7. \A k \in Key : /\ k \in blobs' <=> RowKey(k) \/ VersionKey(k)
                     /\ k \in thumbs' <=> RowThumb(k)
  BY <1>2, <1>3, <1>5, <1>6
<1> QED BY <1>2, <1>4, <1>7, FinishAccount

LEMMA InsertRowAccount ==
  ASSUME NEW h, Facing(h), InsertRow(h), req[h].op \in WritePath
  PROVE  Account(req[h])'
<1>1. /\ Account(req[h]) /\ h \in Handler /\ req[h] \in Request /\ Null \notin Key
  BY AccountOf
<1>2. req[h].pc = "insert" /\ UNCHANGED <<versions, blobs, thumbs, minted>>
  BY DEF InsertRow, At
<1>3. /\ req[h].rows = {} /\ Unnamed(req[h].key) /\ (\A f \in files : f.id # req[h].key)
      /\ \A v \in versions : v.file # req[h].key
  BY <1>1, <1>2 DEF Account, WriteFits, Holding
<1>k. /\ req[h].op \in Tidy /\ req[h].key \in minted
      /\ req[h].thumb \in {req[h].key, Null} /\ req[h].op # "resize"
      /\ TablesFit(req[h]) /\ StoreIs(req[h])
  BY <1>3, WriterKnows
<1> DEFINE new == [id |-> req[h].key, name |-> req[h].name,
                   key |-> req[h].key, thumb |-> req[h].thumb,
                   version |-> 1, scan |-> FreshScan, trashed |-> FALSE,
                   asset |-> AssetOf(req[h])]
<1>4. \/ Goto(h, "undo blob") /\ files' = files
      \/ Goto(h, "check") /\ files' = files \cup {new}
  BY DEF InsertRow
<1>5. /\ new.id = req[h].key /\ new.key = req[h].key /\ new.thumb = req[h].thumb
  OBVIOUS
<1> HIDE DEF new
<1>6. \A f \in files, v \in versions : ~ Doubled(req[h], f, v)
  BY <1>2 DEF Doubled, Doubling
<1>7. \A k \in Key : SpareBlob(req[h], k) <=> k = req[h].key
  BY <1>2 DEF SpareBlob, Holding
<1>8. \A k \in Key : SpareThumb(req[h], k) <=> k = req[h].thumb
  BY <1>2 DEF SpareThumb, Holding, Overtaken
<1>9. CASE Goto(h, "undo blob") /\ files' = files
  <2>1. /\ req'[h].pc = "undo blob" /\ req'[h].op = req[h].op /\ req'[h].key = req[h].key
        /\ req'[h].rows = req[h].rows /\ req'[h].thumb = req[h].thumb
    BY <1>1, <1>9, GotoFields DEF Facing
  <2>2. TablesFit(req[h])'
    BY <1>1, <1>2, <1>6, <1>9, TablesKept
  <2>3. StoreIs(req[h])'
    <3>1. \A k \in Key : SpareBlob(req[h], k)' <=> SpareBlob(req[h], k)
      BY <1>2, <2>1 DEF SpareBlob, Holding
    <3>2. \A k \in Key : SpareThumb(req[h], k)' <=> SpareThumb(req[h], k)
      BY <1>2, <2>1 DEF SpareThumb, Holding, Overtaken
    <3> QED BY <1>2, <1>9, <1>k, <3>1, <3>2 DEF StoreIs, RowKey, VersionKey, RowThumb
  <2>4. Unnamed(req[h].key)'
    BY <1>2, <1>3, <1>9, <2>1 DEF Unnamed, RowKey, VersionKey
  <2>5. WriteFits(req[h])'
    BY <1>2, <1>3, <1>k, <2>1, <2>4 DEF WriteFits, WriterPoint, Holding, Doubling, Overtaken
  <2> QED BY <2>1, <2>2, <2>3, <2>5, WriterAccount
<1>10. CASE Goto(h, "check") /\ files' = files \cup {new}
  <2>1. /\ req'[h].pc = "check" /\ req'[h].op = req[h].op /\ req'[h].key = req[h].key
        /\ req'[h].rows = req[h].rows /\ req'[h].thumb = req[h].thumb
    BY <1>1, <1>10, GotoFields DEF Facing
  <2>2. TablesFit(req[h])'
    <3>1. \A v \in versions, f \in files : v.key # f.key
      BY <1>6, <1>k DEF TablesFit
    <3>2. (\A f \in files : f.key # req[h].key) /\ \A v \in versions : v.key # req[h].key
      BY <1>3 DEF Unnamed, RowKey, VersionKey
    <3>3. \A f, g \in files' : f.id = g.id \/ f.key = g.key =>
            f.id = g.id /\ f.key = g.key /\ f.thumb = g.thumb /\ f.version = g.version
      BY <1>3, <1>5, <1>10, <1>k, <3>2 DEF TablesFit
    <3>4. \A f \in files' : f.thumb \in {f.key, Null} /\ f.id \in minted /\ f.key \in minted
      BY <1>5, <1>10, <1>k DEF TablesFit
    <3>5. \A f \in files', v \in versions :
            v.key # f.key /\ (v.file = f.id => v.version < f.version)
      BY <1>3, <1>5, <1>10, <1>k, <3>1, <3>2 DEF TablesFit
    <3> QED BY <1>2, <1>k, <3>3, <3>4, <3>5 DEF TablesFit
  <2>3. StoreIs(req[h])'
    <3>1. \A k \in Key : ~ SpareBlob(req[h], k)' /\ ~ SpareThumb(req[h], k)'
      BY <1>1, <1>3, <2>1 DEF SpareBlob, SpareThumb, Holding, Overtaken
    <3>2. \A k \in Key : /\ RowKey(k)' <=> RowKey(k) \/ k = req[h].key
                         /\ RowThumb(k)' <=> RowThumb(k) \/ k = req[h].thumb
                         /\ VersionKey(k)' <=> VersionKey(k)
      BY <1>2, <1>5, <1>10 DEF RowKey, RowThumb, VersionKey
    <3> QED BY <1>2, <1>7, <1>8, <1>k, <3>1, <3>2 DEF StoreIs
  <2>4. /\ \E f \in files' : f.id = req[h].key /\ f.key = req[h].key /\ f.thumb = req[h].thumb
    BY <1>5, <1>10
  <2>5. WriteFits(req[h])'
    BY <1>2, <1>3, <1>k, <2>1, <2>4 DEF WriteFits, WriterPoint, Holding, Doubling, Overtaken
  <2> QED BY <2>1, <2>2, <2>3, <2>5, WriterAccount
<1> QED BY <1>4, <1>9, <1>10

LEMMA UndoInsertAccount ==
  ASSUME NEW h, Facing(h), UndoInsert(h), req[h].op \in WritePath
  PROVE  Account(req[h])'
<1>1. /\ Account(req[h]) /\ h \in Handler /\ req[h] \in Request /\ Null \notin Key
  BY AccountOf
<1>2. /\ req[h].pc = "undo row" /\ req[h].rows = {} /\ UNCHANGED <<blobs, thumbs, minted>>
      /\ DeleteFiles({g.id : g \in UndoTarget(req[h])})
      /\ UndoTarget(req[h]) # {} => Goto(h, "undo blob")
  BY DEF UndoInsert, At
<1>3. PICK o \in files : o.id = req[h].key /\ o.key = req[h].key /\ o.thumb = req[h].thumb
  BY <1>1, <1>2 DEF Account, WriteFits
<1>4. \A v \in versions : v.file # req[h].key
  BY <1>1, <1>2 DEF Account, WriteFits
<1>k. /\ req[h].op \in Tidy /\ req[h].key \in minted /\ req[h].key \in Key
      /\ req[h].thumb \in {req[h].key, Null} /\ req[h].op # "resize"
      /\ TablesFit(req[h]) /\ StoreIs(req[h])
  BY <1>2, WriterKnows
<1>5. /\ Goto(h, "undo blob") /\ versions' = versions
      /\ files' = {f \in files : f.id # req[h].key}
  <2>1. \A g \in UndoTarget(req[h]) : g.id = req[h].key
    BY <1>2 DEF UndoTarget
  <2>2. o \in UndoTarget(req[h])
    BY <1>2, <1>3 DEF UndoTarget
  <2>3. {g.id : g \in UndoTarget(req[h])} = {req[h].key}
    BY <2>1, <2>2, <1>3
  <2>4. DeleteFiles({req[h].key})
    BY <1>2, <2>3
  <2>5. versions' = versions /\ files' = {f \in files : f.id # req[h].key}
    BY <1>4, <2>4 DEF DeleteFiles
  <2> QED BY <1>2, <2>2, <2>5
<1>6. /\ req'[h].pc = "undo blob" /\ req'[h].op = req[h].op /\ req'[h].key = req[h].key
      /\ req'[h].rows = req[h].rows /\ req'[h].thumb = req[h].thumb
  BY <1>1, <1>5, GotoFields DEF Facing
<1>7. \A f \in files, v \in versions : ~ Doubled(req[h], f, v)
  BY <1>2 DEF Doubled, Doubling
<1>8. \A f \in files, v \in versions : v.key # f.key
  BY <1>7, <1>k DEF TablesFit
<1>9. TablesFit(req[h])'
  <2>1. \A f \in files, v \in versions :
          v.key # f.key /\ (v.file = f.id => v.version < f.version)
    BY <1>8, <1>k DEF TablesFit
  <2>2. files' \subseteq files
    BY <1>5
  <2>3. /\ \A f, g \in files' : f.id = g.id \/ f.key = g.key =>
             f.id = g.id /\ f.key = g.key /\ f.thumb = g.thumb /\ f.version = g.version
        /\ \A f \in files' : f.thumb \in {f.key, Null} /\ f.id \in minted /\ f.key \in minted
    BY <2>2, <1>k DEF TablesFit
  <2>4. \A f \in files', v \in versions :
          v.key # f.key /\ (v.file = f.id => v.version < f.version)
    BY <2>1, <2>2
  <2>5. versions' = versions /\ minted' = minted
    BY <1>2, <1>5
  <2>6. /\ \A v, w \in versions : v.key = w.key \/ (v.file = w.file /\ v.version = w.version) =>
             v.key = w.key /\ v.file = w.file /\ v.version = w.version
        /\ \A v \in versions : v.file \in minted /\ v.key \in minted
    BY <1>k DEF TablesFit
  <2> QED BY <2>3, <2>4, <2>5, <2>6 DEF TablesFit
<1>10. \A f \in files : f.key = req[h].key \/ f.id = req[h].key => f.id = req[h].key /\ f.key = req[h].key /\ f.thumb = req[h].thumb
  BY <1>3, <1>k DEF TablesFit
<1>11. /\ \A k \in Key : RowKey(k)' <=> RowKey(k) /\ k # req[h].key
       /\ RowKey(req[h].key) /\ \A k : VersionKey(k)' <=> VersionKey(k)
  BY <1>3, <1>5, <1>10 DEF RowKey, VersionKey
<1>12. /\ \A k \in Key : RowThumb(k)' <=> RowThumb(k) /\ k # req[h].thumb
       /\ req[h].thumb # Null => RowThumb(req[h].thumb)
  <2>1. \A f \in files : f.thumb \in {f.key, Null}
    BY <1>k DEF TablesFit
  <2> QED BY <1>1, <1>3, <1>5, <1>10, <1>k, <2>1 DEF RowThumb
<1>13. StoreIs(req[h])'
  <2>1. \A k \in Key : SpareBlob(req[h], k)' <=> k = req[h].key
    BY <1>6 DEF SpareBlob, Holding
  <2>2. \A k \in Key : SpareThumb(req[h], k)' <=> k = req[h].thumb
    BY <1>6 DEF SpareThumb, Holding, Overtaken
  <2>3. \A k \in Key : ~ SpareBlob(req[h], k) /\ ~ SpareThumb(req[h], k)
    BY <1>1, <1>2 DEF SpareBlob, SpareThumb, Holding, Overtaken
  <2>4. \A k \in Key : k \in blobs <=> RowKey(k)' \/ VersionKey(k)' \/ SpareBlob(req[h], k)'
    BY <2>1, <2>3, <1>11, <1>k DEF StoreIs
  <2>5. \A k \in Key : k \in thumbs <=> RowThumb(k)' \/ SpareThumb(req[h], k)'
    BY <2>2, <2>3, <1>1, <1>12, <1>k DEF StoreIs
  <2> QED BY <1>2, <2>4, <2>5 DEF StoreIs
<1>14. Unnamed(req[h].key)'
  <2>1. \A f \in files' : f.key # req[h].key
    BY <1>5, <1>10
  <2>2. \A v \in versions' : v.key # req[h].key
    BY <1>3, <1>5, <1>8
  <2> QED BY <2>1, <2>2, <1>6 DEF Unnamed, RowKey, VersionKey
<1>15. WriteFits(req[h])'
  BY <1>2, <1>6, <1>14, <1>k DEF WriteFits, WriterPoint, Holding, Doubling, Overtaken
<1> QED BY <1>6, <1>9, <1>13, <1>15, WriterAccount

(* --- The version handlers                                                *)

(* A request that begins from rows it has read has no thumbnail to write.  *)
LEMMA BeginRowsThumb ==
  ASSUME TypeInv, NEW h \in Handler, NEW pc, NEW op, NEW rows,
         req' = [req EXCEPT ![h] = [NoRequest EXCEPT !.pc = pc, !.op = op, !.rows = rows]]
  PROVE  req'[h].thumb = Null
<1> DEFINE r == [NoRequest EXCEPT !.pc = pc, !.op = op, !.rows = rows]
<1>1. r.thumb = Null
  BY DEF NoRequest
<1>2. req' = [req EXCEPT ![h] = r]
  OBVIOUS
<1> HIDE DEF r
<1> QED BY <1>1, <1>2, BeginFields

LEMMA RestorerAccount ==
  ASSUME NEW h, Facing(h), req'[h].op \in HistoryOp,
         TablesFit(req[h])', StoreIs(req[h])', RestoreFits(req[h])'
  PROVE  Account(req[h])'
BY DEF Account, WriteFits, RestoreFits, PurgeFits, WritePath, HistoryOp

(* A request that ends, whatever it has just done to the tables.           *)
LEMMA EndAccount ==
  ASSUME NEW h, Facing(h), Finish(h), TablesFit(req[h])',
         \A k \in Key : /\ k \in blobs' <=> RowKey(k)' \/ VersionKey(k)'
                        /\ k \in thumbs' <=> RowThumb(k)'
  PROVE  Account(req[h])'
<1>1. /\ Account(req[h]) /\ h \in Handler /\ req[h] \in Request
  BY AccountOf
<1>2. req'[h].pc = "idle" /\ req'[h].op = Null /\ Null \notin Operation
  BY <1>1, FinishFields DEF Facing
<1>4. ~ Holding(req'[h]) /\ ~ Overtaken(req'[h])
  BY <1>2 DEF Holding, Overtaken
<1>5. StoreIs(req[h])'
  BY <1>2, <1>4 DEF StoreIs, SpareBlob, SpareThumb
<1>6. req'[h].op \notin WritePath \cup HistoryOp \cup {"purge", "scan"}
  BY <1>2 DEF Operation, HistoryOp
<1> QED BY <1>2, <1>5, <1>6 DEF Account, WriteFits, RestoreFits, PurgeFits

LEMMA RestorerKnows ==
  ASSUME NEW h, Facing(h), req[h].op \in HistoryOp
  PROVE  /\ \A f, g \in req[h].rows : f = g
         /\ \A v, w \in req[h].vers : v = w
         /\ \A f \in req[h].rows : f.thumb \in {f.key, Null}
         /\ req[h].op \notin WritePath
         /\ TablesFit(req[h]) /\ StoreIs(req[h])
<1>1. Account(req[h])
  BY AccountOf
<1> QED BY <1>1 DEF Account, RestoreFits, HistoryOp, WritePath

(* Where a request is tells what it does.                                  *)
LEMMA PointTells ==
  ASSUME NEW h, Facing(h)
  PROVE  /\ req[h].pc \in {"find version", "regenerate", "promote", "drop target", "drop thumb",
                           "delete version row", "drop version blob"} =>
              req[h].op \in HistoryOp
         /\ req[h].pc \in {"list versions", "purge versions", "purge rows", "purge blobs"} =>
              req[h].op = "purge"
         /\ req[h].pc \in {"scan bytes"} \cup VerdictPoint => req[h].op = "scan"
         /\ req[h].op # "move"
<1>1. Account(req[h])
  BY AccountOf
<1>2. req[h].op \in WritePath => req[h].pc \in WriterPoint \cup {"archive"}
  BY <1>1 DEF Account, WriteFits
<1>3. req[h].op \in HistoryOp =>
        req[h].pc \in {"find version", "regenerate", "archive", "promote", "drop target",
                 "drop thumb", "delete version row", "drop version blob"}
  BY <1>1 DEF Account, RestoreFits
<1>4. req[h].op = "purge" =>
        req[h].pc \in {"list versions", "purge versions", "purge rows", "purge blobs"}
  BY <1>1 DEF Account, PurgeFits
<1>5. req[h].op = "scan" => req[h].pc \in {"scan bytes"} \cup VerdictPoint
  BY <1>1 DEF Account
<1>6. /\ req[h].pc = "idle" => req[h].op = Null
      /\ req[h].pc # "idle" => req[h].op \in WritePath \cup HistoryOp \cup {"purge", "scan"}
  BY <1>1 DEF Account, Tidy, WritePath
<1>7. Null # "move"
  BY NullAssumption DEF Operation
<1>8. "move" \notin WritePath \cup HistoryOp \cup {"purge", "scan"}
  BY DEF WritePath, HistoryOp
<1> QED BY <1>2, <1>3, <1>4, <1>5, <1>6, <1>7, <1>8 DEF WriterPoint, VerdictPoint

LEMMA BeginHistoryAccount ==
  ASSUME NEW h, Facing(h), NEW op \in HistoryOp, NEW f, BeginHistory(h, op, f)
  PROVE  Account(req[h])'
<1>1. Account(req[h]) /\ h \in Handler
  BY AccountOf
<1>2. /\ req[h].pc = "idle" /\ f \in files /\ UNCHANGED <<files, versions, blobs, thumbs, minted>>
      /\ req' = [req EXCEPT ![h] = [NoRequest EXCEPT
               !.pc = "find version", !.op = op, !.rows = {f}]]
  BY DEF BeginHistory, At
<1>3. /\ req'[h].pc = "find version" /\ req'[h].op = op /\ req'[h].rows = {f}
      /\ req'[h].vers = {} /\ req'[h].thumb = Null
  <2>1. PICK rows : rows = {f}
    OBVIOUS
  <2>2. req' = [req EXCEPT ![h] = [NoRequest EXCEPT !.pc = "find version", !.op = op, !.rows = rows]]
    BY <1>2, <2>1
  <2> QED BY <1>1, <2>1, <2>2, BeginRowsFields, BeginRowsThumb DEF Facing
<1>4. TablesFit(req[h])'
  BY <1>1, <1>2, TablesKept DEF Doubled, Doubling
<1>5. StoreIs(req[h])'
  BY <1>1, <1>2, <1>3 DEF Account, StoreIs, SpareBlob, SpareThumb, RowKey, VersionKey, RowThumb, Holding, Overtaken
<1>6. Stands(f)' /\ f.thumb \in {f.key, Null}
  BY <1>1, <1>2 DEF Account, TablesFit, Stands
<1>7. RestoreFits(req[h])'
  BY <1>3, <1>6 DEF RestoreFits
<1> QED BY <1>3, <1>4, <1>5, <1>7, RestorerAccount

LEMMA FindVersionAccount ==
  ASSUME NEW h, Facing(h), FindVersion(h)
  PROVE  Account(req[h])'
<1>1. Account(req[h]) /\ h \in Handler
  BY AccountOf
<1>2. req[h].pc = "find version" /\ UNCHANGED <<files, versions, blobs, thumbs, minted>>
  BY DEF FindVersion, At
<1>3. req[h].op \in HistoryOp /\ req[h].thumb = Null
  BY <1>1, <1>2, PointTells DEF Account, RestoreFits
<1>k. /\ \A f, g \in req[h].rows : f = g
      /\ \A f \in req[h].rows : f.thumb \in {f.key, Null} /\ Stands(f)
      /\ req[h].op \notin WritePath
      /\ TablesFit(req[h]) /\ StoreIs(req[h])
  BY <1>1, <1>2, <1>3, RestorerKnows DEF Account, RestoreFits
<1> DEFINE next == IF req[h].op = "restore" THEN "regenerate" ELSE "delete version row"
<1>4. PICK f \in req[h].rows :
         \/ \E v \in {w \in versions : Eligible(f, w)} :
              req' = [req EXCEPT ![h].vers = {v}, ![h].pc = next]
         \/ Finish(h)
  BY DEF FindVersion
<1>5. \A e \in files, v \in versions : ~ Doubled(req[h], e, v)
  BY <1>2 DEF Doubled, Doubling
<1>6. \A k \in Key : ~ SpareBlob(req[h], k) /\ ~ SpareThumb(req[h], k)
  BY <1>2 DEF SpareBlob, SpareThumb, Holding, Overtaken
<1>7. CASE Finish(h)
  BY <1>2, <1>5, <1>6, <1>7, <1>k, FinishAccount DEF StoreIs
<1>8. ASSUME NEW v \in versions, Eligible(f, v),
             req' = [req EXCEPT ![h].vers = {v}, ![h].pc = next]
      PROVE  Account(req[h])'
  <2>1. \/ next = "regenerate" /\ req[h].op = "restore"
        \/ next = "delete version row"
    OBVIOUS
  <2> HIDE DEF next
  <2>2. /\ req'[h].pc = next /\ req'[h].op = req[h].op /\ req'[h].rows = req[h].rows
        /\ req'[h].vers = {v} /\ req'[h].thumb = Null
    BY <1>1, <1>3, <1>8, ReadVersionsFields DEF Facing
  <2>3. TablesFit(req[h])'
    BY <1>1, <1>2, <1>5, TablesKept
  <2>4. StoreIs(req[h])'
    <3>1. \A k \in Key : ~ SpareBlob(req[h], k)' /\ ~ SpareThumb(req[h], k)'
      BY <1>k, <2>1, <2>2 DEF SpareBlob, SpareThumb, Holding, Overtaken
    <3> QED BY <1>2, <1>6, <1>k, <3>1 DEF StoreIs, RowKey, VersionKey, RowThumb
  <2>5. \A w \in req'[h].vers : w = v /\ Kept(w)' /\ w.file = f.id /\ w.version # f.version
    BY <1>2, <1>8, <2>2 DEF Kept, Eligible
  <2>6. \A e \in req'[h].rows : e = f /\ Stands(e)' /\ e.thumb \in {e.key, Null}
    BY <1>2, <1>k, <2>2 DEF Stands
  <2>7. RestoreFits(req[h])'
    BY <2>1, <2>2, <2>5, <2>6 DEF RestoreFits
  <2> QED BY <1>3, <2>2, <2>3, <2>4, <2>7, RestorerAccount
<1> QED BY <1>4, <1>7, <1>8

LEMMA RegenerateThumbAccount ==
  ASSUME NEW h, Facing(h), RegenerateThumb(h)
  PROVE  Account(req[h])'
<1>1. Account(req[h]) /\ h \in Handler /\ Null \notin Key
  BY AccountOf
<1>2. req[h].pc = "regenerate" /\ UNCHANGED <<files, versions, blobs, minted>>
  BY DEF RegenerateThumb, At
<1>3. req[h].op = "restore" /\ req[h].op \in HistoryOp /\ req[h].thumb = Null
  BY <1>1, <1>2, PointTells DEF Account, RestoreFits
<1>k. /\ \A f, g \in req[h].rows : f = g
      /\ \A v, w \in req[h].vers : v = w
      /\ \A f \in req[h].rows : f.thumb \in {f.key, Null} /\ Stands(f)
      /\ \A v \in req[h].vers : Kept(v) /\ \A f \in req[h].rows : v.file = f.id /\ v.version # f.version
      /\ req[h].op \notin WritePath
      /\ TablesFit(req[h]) /\ StoreIs(req[h])
  BY <1>1, <1>2, <1>3, RestorerKnows DEF Account, RestoreFits
<1>4. \A e \in files, v \in versions : ~ Doubled(req[h], e, v)
  BY <1>2 DEF Doubled, Doubling
<1>5. \A k \in Key : ~ SpareBlob(req[h], k) /\ ~ SpareThumb(req[h], k)
  BY <1>2 DEF SpareBlob, SpareThumb, Holding, Overtaken
<1>6. CASE Finish(h) /\ thumbs' = thumbs
  BY <1>2, <1>4, <1>5, <1>6, <1>k, FinishAccount DEF StoreIs
<1>7. CASE /\ req'[h].pc = "archive" /\ req'[h].op = req[h].op
           /\ req'[h].rows = req[h].rows /\ req'[h].vers = req[h].vers
           /\ \/ thumbs' = thumbs /\ req'[h].thumb = req[h].thumb
              \/ \E v \in req[h].vers :
                    /\ req'[h].thumb \in {v.key, Null}
                    /\ thumbs' = thumbs \cup ({req'[h].thumb} \ {Null})
  <2>1. thumbs' = thumbs \cup ({req'[h].thumb} \ {Null})
    BY <1>3, <1>7
  <2>2. \A v \in req[h].vers : req'[h].thumb \in {v.key, Null}
    BY <1>3, <1>7, <1>k
  <2>3. TablesFit(req[h])'
    BY <1>1, <1>2, <1>4, TablesKept
  <2>4. StoreIs(req[h])'
    <3>1. \A k \in Key : /\ ~ SpareBlob(req[h], k)'
                         /\ SpareThumb(req[h], k)' <=> k = req'[h].thumb
      BY <1>k, <1>3, <1>7 DEF SpareBlob, SpareThumb, Holding, Overtaken, WritePath
    <3> QED BY <1>1, <1>2, <1>5, <1>k, <2>1, <3>1 DEF StoreIs, RowKey, VersionKey, RowThumb
  <2>5. /\ \A v \in req[h].vers : Kept(v)'
        /\ \A f \in req[h].rows : Stands(f)'
    BY <1>2, <1>k DEF Kept, Stands
  <2>6. RestoreFits(req[h])'
    BY <1>3, <1>7, <1>k, <2>2, <2>5 DEF RestoreFits
  <2> QED BY <1>3, <1>7, <2>3, <2>4, <2>6, RestorerAccount
<1> QED BY <1>1, <1>6, <1>7, RegenerateFields DEF Facing

LEMMA ArchiveForRestoreAccount ==
  ASSUME NEW h, Facing(h), ArchiveForRestore(h)
  PROVE  Account(req[h])'
<1>1. Account(req[h]) /\ h \in Handler /\ Null \notin Key
  BY AccountOf
<1>2. req[h].pc = "archive" /\ req[h].op = "restore" /\ ArchiveCurrent(h, "promote")
  BY DEF ArchiveForRestore, ArchiveCurrent, At
<1>3. req[h].op \in HistoryOp
  BY <1>2 DEF HistoryOp
<1>k. /\ \A f, g \in req[h].rows : f = g
      /\ \A v, w \in req[h].vers : v = w
      /\ \A f \in req[h].rows : f.thumb \in {f.key, Null} /\ Stands(f)
      /\ \A v \in req[h].vers :
           /\ Kept(v) /\ req[h].thumb \in {v.key, Null}
           /\ \A f \in req[h].rows : v.file = f.id /\ v.version # f.version
      /\ req[h].op \notin WritePath
      /\ TablesFit(req[h]) /\ StoreIs(req[h])
  BY <1>1, <1>2, <1>3, RestorerKnows DEF Account, RestoreFits
<1>4. /\ TablesFit(req[h])' /\ Goto(h, "promote")
      /\ \A f \in req[h].rows : Twin(f)'
      /\ \A k : VersionKey(k)' <=> VersionKey(k) \/ \E f \in req[h].rows : f.key = k
      /\ UNCHANGED <<files, blobs, thumbs, minted>>
      /\ versions \subseteq versions'
  BY <1>2, <1>k, ArchiveTables
<1>5. /\ req'[h].pc = "promote" /\ req'[h].op = req[h].op /\ req'[h].thumb = req[h].thumb
      /\ req'[h].rows = req[h].rows /\ req'[h].vers = req[h].vers
  BY <1>1, <1>4, GotoFields DEF Facing
<1>6. \A f \in req[h].rows : RowKey(f.key)
  BY <1>k DEF Stands, RowKey
<1>7. /\ \A f \in req'[h].rows : Stands(f)' /\ Twin(f)'
      /\ \A v \in req'[h].vers : Kept(v)'
  BY <1>4, <1>5, <1>k DEF Stands, Kept
<1>8. StoreIs(req[h])'
  <2>1. \A k : RowKey(k)' <=> RowKey(k)
    BY <1>4 DEF RowKey
  <2>2. \A k : RowKey(k)' \/ VersionKey(k)' <=> RowKey(k) \/ VersionKey(k)
    BY <1>4, <1>6, <2>1
  <2>3. \A k : RowThumb(k)' <=> RowThumb(k)
    BY <1>4 DEF RowThumb
  <2>4. \A k : SpareBlob(req[h], k)' <=> SpareBlob(req[h], k)
    BY <1>2, <1>5, <1>k DEF SpareBlob, Holding
  <2>5. \A k : SpareThumb(req[h], k)' <=> SpareThumb(req[h], k)
    BY <1>2, <1>5, <1>k DEF SpareThumb, Holding, Overtaken
  <2> QED BY <1>4, <1>k, <2>2, <2>3, <2>4, <2>5 DEF StoreIs
<1>9. RestoreFits(req[h])'
  BY <1>2, <1>5, <1>7, <1>k DEF RestoreFits
<1> QED BY <1>3, <1>4, <1>5, <1>8, <1>9, RestorerAccount

LEMMA PromoteVersionAccount ==
  ASSUME NEW h, Facing(h), PromoteVersion(h)
  PROVE  Account(req[h])'
<1>1. /\ Account(req[h]) /\ h \in Handler /\ Null \notin Key /\ files \subseteq FileRow
      /\ versions \subseteq VersionRow /\ req[h] \in Request
  BY AccountOf
<1>2. /\ req[h].pc = "promote" /\ Goto(h, "drop target")
      /\ UNCHANGED <<versions, blobs, thumbs, minted>>
  BY DEF PromoteVersion, At
<1>3. PICK f \in req[h].rows, v \in req[h].vers :
         files' = {IF g.id = f.id THEN Promoted(g, f, v, req[h]) ELSE g : g \in files}
  BY DEF PromoteVersion
<1>4. req[h].op \in HistoryOp /\ req[h].op = "restore"
  BY <1>1, <1>2, PointTells DEF Account, RestoreFits
<1>k. /\ \A g \in req[h].rows : g = f
      /\ \A w \in req[h].vers : w = v
      /\ f.thumb \in {f.key, Null} /\ Stands(f) /\ Twin(f)
      /\ Kept(v) /\ req[h].thumb \in {v.key, Null} /\ v.file = f.id /\ v.version # f.version
      /\ req[h].op \notin WritePath
      /\ TablesFit(req[h]) /\ StoreIs(req[h])
  BY <1>1, <1>2, <1>4, RestorerKnows DEF Account, RestoreFits, Doubling
<1>5. /\ req'[h].pc = "drop target" /\ req'[h].op = req[h].op /\ req'[h].thumb = req[h].thumb
      /\ req'[h].rows = req[h].rows /\ req'[h].vers = req[h].vers
  BY <1>1, <1>2, GotoFields DEF Facing
<1>6. PICK o \in files : o.id = f.id /\ o.key = f.key /\ o.thumb = f.thumb /\ o.version = f.version
  BY <1>k DEF Stands
<1>7. PICK w \in versions : w.file = v.file /\ w.version = v.version /\ w.key = v.key
  BY <1>k DEF Kept
<1> DEFINE K == v.key   T == req[h].thumb   V == f.version + 1
<1>8. Rewrites(o, K, T, V)
  <2>1. \A g \in files : LET n == Promoted(g, f, v, req[h]) IN
           n.id = g.id /\ n.key = K /\ n.thumb = T /\ n.version = V
    BY <1>1 DEF Promoted, FileRow
  <2>2. \A g \in files' : \E e \in files : g = IF e.id = f.id THEN Promoted(e, f, v, req[h]) ELSE e
    BY <1>3
  <2>3. \A e \in files : (IF e.id = f.id THEN Promoted(e, f, v, req[h]) ELSE e) \in files'
    BY <1>3
  <2>4. Promoted(o, f, v, req[h]) \in files'
    BY <2>3, <1>6
  <2> QED BY <1>6, <2>1, <2>2, <2>3, <2>4 DEF Rewrites
<1>9. /\ K \in minted /\ T \in {K, Null}
      /\ \A g \in files : g.key = K => g.id = o.id
      /\ \A u \in versions : u.key = K => /\ u.file = o.id /\ u.file = v.file
                                          /\ u.version = v.version
  BY <1>6, <1>7, <1>k DEF TablesFit
<1>10. TablesFit(req[h])'
  <2>1. \A g \in files, u \in versions : g.id # o.id => ~ Doubled(req[h], g, u)
    BY <1>2, <1>6, <1>k DEF Doubled
  <2>2. \A u \in versions : u.file = o.id => u.version < V
    <3>1. \A u \in versions : u.file = o.id => u.version < o.version \/ u.version = o.version
      BY <1>k DEF TablesFit
    <3>2. o.version \in Nat /\ \A u \in versions : u.version \in Nat
      BY <1>1 DEF FileRow, VersionRow
    <3> QED BY <3>1, <3>2, <1>6
  <2>3. \A g \in files', u \in versions : u.key = K /\ g.id = o.id => Doubled(req'[h], g, u)
    BY <1>5, <1>9 DEF Doubled, SameRow
  <2>4. /\ TablesFit(req[h]) /\ Null \notin Key /\ files \subseteq FileRow
        /\ UNCHANGED <<versions, minted>>
    BY <1>1, <1>2, <1>k
  <2>5. K \in minted
    BY <1>9
  <2>6. T \in {K, Null}
    BY <1>9
  <2> HIDE DEF K, T, V
  <2> QED BY <1>8, <1>9, <2>1, <2>2, <2>3, <2>4, <2>5, <2>6, RewrittenTables
<1>11. /\ \A k \in Key : RowKey(k)' <=> (RowKey(k) /\ k # o.key) \/ k = K
       /\ \A k \in Key : RowThumb(k)' <=> (RowThumb(k) /\ k # o.thumb) \/ k = T
  <2>1. TablesFit(req[h]) /\ Null \notin Key /\ files \subseteq FileRow /\ UNCHANGED minted
    BY <1>1, <1>2, <1>k
  <2>2. K \in minted
    BY <1>9
  <2>3. T \in {K, Null}
    BY <1>9
  <2>4. \A g \in files : g.key = K => g.id = o.id
    BY <1>9
  <2> HIDE DEF K, T, V
  <2> QED BY <1>8, <2>1, <2>2, <2>3, <2>4, RewrittenRows
<1>12. Twin(f)' /\ Kept(v)'
  BY <1>2, <1>k, VersionsLook
<1>13. \E g \in files' : g.id = f.id /\ g.key = v.key /\ g.thumb = req[h].thumb /\ g.version = f.version + 1
  <2>1. PICK g \in files' : g.id = o.id
    BY <1>8 DEF Rewrites
  <2>2. g.key = K /\ g.thumb = T /\ g.version = V
    BY <1>8, <2>1 DEF Rewrites
  <2> QED BY <2>1, <2>2, <1>6
<1>14. /\ \A e \in req'[h].rows : e = f /\ Twin(e)'
       /\ \A u \in req'[h].vers :
            /\ u = v /\ Kept(u)'
            /\ \A e \in req'[h].rows : Turned(e, u.key, req[h].thumb)'
  BY <1>5, <1>12, <1>13, <1>k, <1>2 DEF Turned, Twin, Kept
<1>15. VersionKey(f.key) /\ VersionKey(v.key) /\ (f.thumb # Null => RowThumb(f.thumb))
  BY <1>6, <1>7, <1>k DEF Twin, Kept, VersionKey, Archived, RowThumb
<1>16. StoreIs(req[h])'
  <2>1. \A k : VersionKey(k)' <=> VersionKey(k)
    BY <1>2 DEF VersionKey
  <2>2. \A k \in Key : ~ SpareBlob(req[h], k)' /\ ~ SpareBlob(req[h], k)
    BY <1>2, <1>5, <1>k DEF SpareBlob, Holding
  <2>3. \A k \in Key : /\ SpareThumb(req[h], k)' <=> k = f.thumb
                       /\ SpareThumb(req[h], k) <=> k = req[h].thumb
    BY <1>2, <1>4, <1>5, <1>k DEF SpareThumb, Holding, Overtaken
  <2>4. \A k \in Key : k \in blobs <=> RowKey(k)' \/ VersionKey(k)' \/ SpareBlob(req[h], k)'
    BY <2>1, <2>2, <1>6, <1>11, <1>15, <1>k DEF StoreIs
  <2>5. \A k \in Key : k \in thumbs <=> RowThumb(k)' \/ SpareThumb(req[h], k)'
    BY <2>3, <1>1, <1>6, <1>11, <1>15, <1>k DEF StoreIs
  <2> QED BY <1>2, <2>4, <2>5 DEF StoreIs
<1>17. RestoreFits(req[h])'
  BY <1>4, <1>5, <1>14, <1>k DEF RestoreFits
<1> QED BY <1>4, <1>5, <1>10, <1>16, <1>17, RestorerAccount

(* Once its bytes are those of no version, a row's number is free too.     *)
LEMMA ShrunkTables ==
  ASSUME NEW h, TablesFit(req[h]), UNCHANGED <<files, minted>>, versions' \subseteq versions,
         \A f \in files, v \in versions' : v.key # f.key
  PROVE  TablesFit(req[h])'
<1>1. \A f \in files, v \in versions' : v.file = f.id => v.version < f.version
  BY DEF TablesFit
<1>2. /\ \A v, w \in versions' : v.key = w.key \/ (v.file = w.file /\ v.version = w.version) =>
           v.key = w.key /\ v.file = w.file /\ v.version = w.version
      /\ \A v \in versions' : v.file \in minted /\ v.key \in minted
  BY DEF TablesFit
<1>3. /\ \A f, g \in files : f.id = g.id \/ f.key = g.key =>
           f.id = g.id /\ f.key = g.key /\ f.thumb = g.thumb /\ f.version = g.version
      /\ \A f \in files : f.thumb \in {f.key, Null} /\ f.id \in minted /\ f.key \in minted
  BY DEF TablesFit
<1> QED BY <1>1, <1>2, <1>3 DEF TablesFit

LEMMA DropTargetAccount ==
  ASSUME NEW h, Facing(h), DropTarget(h)
  PROVE  Account(req[h])'
<1>1. /\ Account(req[h]) /\ h \in Handler /\ Null \notin Key
  BY AccountOf
<1>2. /\ req[h].pc = "drop target" /\ UNCHANGED <<files, blobs, thumbs, minted>>
  BY DEF DropTarget, At
<1>3. PICK v \in req[h].vers : versions' = {w \in versions : ~ SameRow(v, w)}
  BY DEF DropTarget
<1>4. PICK f \in req[h].rows : IF f.thumb = Null THEN Finish(h) ELSE Goto(h, "drop thumb")
  BY DEF DropTarget
<1>5. req[h].op \in HistoryOp /\ req[h].op = "restore"
  BY <1>1, <1>2, PointTells DEF Account, RestoreFits
<1>k. /\ \A g \in req[h].rows : g = f
      /\ \A w \in req[h].vers : w = v
      /\ f.thumb \in {f.key, Null} /\ Twin(f)
      /\ Kept(v) /\ v.file = f.id /\ v.version # f.version
      /\ Turned(f, v.key, req[h].thumb)
      /\ req[h].op \notin WritePath
      /\ TablesFit(req[h]) /\ StoreIs(req[h])
  BY <1>1, <1>2, <1>5, RestorerKnows DEF Account, RestoreFits, Doubling
<1>6. PICK u \in versions : u.file = v.file /\ u.version = v.version /\ u.key = v.key
  BY <1>k DEF Kept
<1>7. \A w \in versions : SameRow(v, w) <=> w.key = v.key
  BY <1>6, <1>k DEF TablesFit, SameRow
<1>8. PICK t \in versions : t.file = f.id /\ t.version = f.version /\ t.key = f.key
  BY <1>k DEF Twin, Kept, Archived
<1>9. t \in versions'
  BY <1>3, <1>8, <1>k DEF SameRow
<1>10. \A g \in files, w \in versions' : w.key # g.key
  <2> SUFFICES ASSUME NEW g \in files, NEW w \in versions', w.key = g.key
               PROVE  FALSE
    OBVIOUS
  <2>1. w \in versions /\ ~ SameRow(v, w)
    BY <1>3
  <2>2. Doubled(req[h], g, w)
    BY <2>1, <1>k DEF TablesFit
  <2>3. SameRow(w, v)
    BY <1>2, <1>k, <2>2 DEF Doubled, Doubling
  <2> QED BY <2>1, <2>3 DEF SameRow
<1>11. versions' \subseteq versions
  BY <1>3
<1>12. TablesFit(req[h])'
  BY <1>2, <1>10, <1>11, <1>k, ShrunkTables
<1>13. /\ \A k : VersionKey(k)' <=> VersionKey(k) /\ k # v.key
       /\ RowKey(v.key) /\ \A k : (RowKey(k)' <=> RowKey(k)) /\ (RowThumb(k)' <=> RowThumb(k))
  BY <1>2, <1>3, <1>7, <1>k DEF VersionKey, RowKey, RowThumb, Turned
<1>14. \A k \in Key : ~ SpareBlob(req[h], k) /\ (SpareThumb(req[h], k) <=> k = f.thumb)
  BY <1>2, <1>5, <1>k DEF SpareBlob, SpareThumb, Holding, Overtaken
<1>15. \A k \in Key : /\ k \in blobs' <=> RowKey(k)' \/ VersionKey(k)'
                      /\ k \in thumbs' <=> RowThumb(k)' \/ k = f.thumb
  BY <1>2, <1>13, <1>14, <1>k DEF StoreIs
<1>16. CASE f.thumb = Null /\ Finish(h)
  BY <1>1, <1>12, <1>15, <1>16, EndAccount
<1>17. CASE f.thumb # Null /\ Goto(h, "drop thumb")
  <2>1. /\ req'[h].pc = "drop thumb" /\ req'[h].op = req[h].op /\ req'[h].thumb = req[h].thumb
        /\ req'[h].rows = req[h].rows /\ req'[h].vers = req[h].vers
    BY <1>1, <1>17, GotoFields DEF Facing
  <2>2. StoreIs(req[h])'
    <3>1. \A k \in Key : ~ SpareBlob(req[h], k)' /\ (SpareThumb(req[h], k)' <=> k = f.thumb)
      BY <1>5, <1>k, <2>1 DEF SpareBlob, SpareThumb, Holding, Overtaken
    <3> QED BY <1>15, <3>1 DEF StoreIs
  <2>3. \A g \in req'[h].rows : g = f /\ Twin(g)'
    BY <1>8, <1>9, <1>k, <2>1 DEF Twin, Kept, Archived
  <2>4. RestoreFits(req[h])'
    BY <1>5, <1>k, <2>1, <2>3 DEF RestoreFits
  <2> QED BY <1>5, <1>12, <2>1, <2>2, <2>4, RestorerAccount
<1> QED BY <1>4, <1>16, <1>17

LEMMA DropReplacedThumbAccount ==
  ASSUME NEW h, Facing(h), DropReplacedThumb(h)
  PROVE  Account(req[h])'
<1>1. /\ Account(req[h]) /\ h \in Handler /\ Null \notin Key
  BY AccountOf
<1>2. /\ req[h].pc = "drop thumb" /\ UNCHANGED <<files, versions, blobs, minted>> /\ Finish(h)
  BY DEF DropReplacedThumb, At
<1>3. PICK f \in req[h].rows : thumbs' = thumbs \ {f.thumb}
  BY DEF DropReplacedThumb
<1>4. req[h].op \in HistoryOp
  BY <1>2, PointTells
<1>k. /\ \A g \in req[h].rows : g = f
      /\ f.thumb \in {f.key, Null} /\ Twin(f)
      /\ req[h].op \notin WritePath
      /\ TablesFit(req[h]) /\ StoreIs(req[h])
  BY <1>1, <1>2, <1>4, RestorerKnows DEF Account, RestoreFits
<1>5. \A e \in files, v \in versions : ~ Doubled(req[h], e, v)
  BY <1>2 DEF Doubled, Doubling
<1>6. \A e \in files : e.key # f.key
  <2>1. PICK t \in versions : t.key = f.key
    BY <1>k DEF Twin, Kept, Archived
  <2> QED BY <2>1, <1>5, <1>k DEF TablesFit
<1>7. f.thumb # Null => ~ RowThumb(f.thumb)
  BY <1>6, <1>k DEF TablesFit, RowThumb
<1>8. \A k \in Key : ~ SpareBlob(req[h], k) /\ (SpareThumb(req[h], k) <=> k = f.thumb)
  BY <1>2, <1>k DEF SpareBlob, SpareThumb, Holding, Overtaken
<1>9. \A k \in Key : /\ k \in blobs' <=> RowKey(k) \/ VersionKey(k)
                     /\ k \in thumbs' <=> RowThumb(k)
  BY <1>1, <1>2, <1>3, <1>7, <1>8, <1>k DEF StoreIs
<1> QED BY <1>2, <1>5, <1>9, FinishAccount

LEMMA DeleteVersionRowAccount ==
  ASSUME NEW h, Facing(h), DeleteVersionRow(h)
  PROVE  Account(req[h])'
<1>1. /\ Account(req[h]) /\ h \in Handler /\ Null \notin Key
  BY AccountOf
<1>2. /\ req[h].pc = "delete version row" /\ UNCHANGED <<files, blobs, thumbs, minted>>
      /\ Goto(h, "drop version blob")
  BY DEF DeleteVersionRow, At
<1>3. PICK v \in req[h].vers :
         versions' = {w \in versions : ~ (w.file = v.file /\ w.version = v.version)}
  BY DEF DeleteVersionRow
<1>4. req[h].op \in HistoryOp
  BY <1>2, PointTells
<1>k. /\ \A f, g \in req[h].rows : f = g
      /\ \A f \in req[h].rows : f.thumb \in {f.key, Null}
      /\ \A w \in req[h].vers : w = v
      /\ Kept(v)
      /\ req[h].op \notin WritePath
      /\ TablesFit(req[h]) /\ StoreIs(req[h])
  BY <1>1, <1>2, <1>4, RestorerKnows DEF Account, RestoreFits
<1>5. PICK u \in versions : u.file = v.file /\ u.version = v.version /\ u.key = v.key
  BY <1>k DEF Kept
<1>6. \A w \in versions : w.file = v.file /\ w.version = v.version <=> w.key = v.key
  BY <1>5, <1>k DEF TablesFit
<1>7. \A e \in files, w \in versions : ~ Doubled(req[h], e, w)
  BY <1>2 DEF Doubled, Doubling
<1>8. \A e \in files, w \in versions : w.key # e.key
  BY <1>7, <1>k DEF TablesFit
<1>9. versions' \subseteq versions
  BY <1>3
<1>10. TablesFit(req[h])'
  BY <1>2, <1>8, <1>9, <1>k, ShrunkTables
<1>11. /\ req'[h].pc = "drop version blob" /\ req'[h].op = req[h].op /\ req'[h].thumb = req[h].thumb
       /\ req'[h].rows = req[h].rows /\ req'[h].vers = req[h].vers
  BY <1>1, <1>2, GotoFields DEF Facing
<1>12. /\ \A k : VersionKey(k)' <=> VersionKey(k) /\ k # v.key
       /\ VersionKey(v.key) /\ \A k : (RowKey(k)' <=> RowKey(k)) /\ (RowThumb(k)' <=> RowThumb(k))
  BY <1>2, <1>3, <1>5, <1>6 DEF VersionKey, RowKey, RowThumb
<1>13. \A w \in req'[h].vers : w = v /\ Unnamed(w.key)'
  <2>1. \A e \in files' : e.key # v.key
    BY <1>2, <1>5, <1>8
  <2>2. \A w \in versions' : w.key # v.key
    BY <1>3, <1>6
  <2> QED BY <2>1, <2>2, <1>11, <1>k DEF Unnamed, RowKey, VersionKey
<1>14. StoreIs(req[h])'
  <2>1. \A k \in Key : ~ SpareBlob(req[h], k) /\ ~ SpareThumb(req[h], k)
    BY <1>2 DEF SpareBlob, SpareThumb, Holding, Overtaken
  <2>2. \A k \in Key : (SpareBlob(req[h], k)' <=> k = v.key) /\ ~ SpareThumb(req[h], k)'
    BY <1>11, <1>k DEF SpareBlob, SpareThumb, Holding, Overtaken
  <2>3. \A k \in Key : k \in blobs <=> RowKey(k)' \/ VersionKey(k)' \/ SpareBlob(req[h], k)'
    BY <2>1, <2>2, <1>12, <1>k DEF StoreIs
  <2>4. \A k \in Key : k \in thumbs <=> RowThumb(k)' \/ SpareThumb(req[h], k)'
    BY <2>1, <2>2, <1>12, <1>k DEF StoreIs
  <2> QED BY <1>2, <2>3, <2>4 DEF StoreIs
<1>15. RestoreFits(req[h])'
  BY <1>11, <1>13, <1>k DEF RestoreFits
<1> QED BY <1>4, <1>10, <1>11, <1>14, <1>15, RestorerAccount

LEMMA DropVersionBlobAccount ==
  ASSUME NEW h, Facing(h), DropVersionBlob(h)
  PROVE  Account(req[h])'
<1>1. /\ Account(req[h]) /\ h \in Handler /\ Null \notin Key
  BY AccountOf
<1>2. /\ req[h].pc = "drop version blob" /\ UNCHANGED <<files, versions, thumbs, minted>> /\ Finish(h)
  BY DEF DropVersionBlob, At
<1>3. PICK v \in req[h].vers : blobs' = blobs \ {v.key}
  BY DEF DropVersionBlob
<1>4. req[h].op \in HistoryOp
  BY <1>2, PointTells
<1>k. /\ \A w \in req[h].vers : w = v
      /\ Unnamed(v.key) /\ StoreIs(req[h])
  BY <1>1, <1>2, <1>4, RestorerKnows DEF Account, RestoreFits
<1>5. \A e \in files, w \in versions : ~ Doubled(req[h], e, w)
  BY <1>2 DEF Doubled, Doubling
<1>6. \A k \in Key : (SpareBlob(req[h], k) <=> k = v.key) /\ ~ SpareThumb(req[h], k)
  BY <1>2, <1>k DEF SpareBlob, SpareThumb, Holding, Overtaken
<1>7. \A k \in Key : /\ k \in blobs' <=> RowKey(k) \/ VersionKey(k)
                     /\ k \in thumbs' <=> RowThumb(k)
  BY <1>2, <1>3, <1>6, <1>k DEF StoreIs, Unnamed
<1> QED BY <1>2, <1>5, <1>7, FinishAccount

(* --- The purge                                                           *)

LEMMA PurgerAccount ==
  ASSUME NEW h, Facing(h), req'[h].op = "purge",
         TablesFit(req[h])', StoreIs(req[h])', PurgeFits(req[h])'
  PROVE  Account(req[h])'
BY DEF Account, WriteFits, RestoreFits, PurgeFits, WritePath, HistoryOp

LEMMA PurgerKnows ==
  ASSUME NEW h, Facing(h), req[h].op = "purge"
  PROVE  /\ req[h].op \notin WritePath /\ \A f \in req[h].rows : f.thumb \in {f.key, Null}
         /\ \A f \in files, v \in versions : ~ Doubled(req[h], f, v)
         /\ \A f \in files, v \in versions : v.key # f.key
         /\ TablesFit(req[h]) /\ StoreIs(req[h]) /\ PurgeFits(req[h])
<1>1. Account(req[h])
  BY AccountOf
<1>2. req[h].op \notin WritePath /\ req[h].op \notin GuardsUndo
  BY DEF WritePath, GuardsUndo
<1>3. req[h].pc \in {"list versions", "purge versions", "purge rows", "purge blobs"}
  BY <1>1 DEF Account, PurgeFits
<1>4. \A f \in files, v \in versions : ~ Doubled(req[h], f, v)
  BY <1>2, <1>3 DEF Doubled, Doubling
<1>5. TablesFit(req[h]) /\ StoreIs(req[h]) /\ PurgeFits(req[h])
  BY <1>1 DEF Account
<1>6. \A f \in files, v \in versions : v.key # f.key
  BY <1>4, <1>5 DEF TablesFit
<1>7. \A f \in req[h].rows : f.thumb \in {f.key, Null}
  BY <1>5 DEF PurgeFits
<1> QED BY <1>2, <1>4, <1>5, <1>6, <1>7

LEMMA BeginPurgeAccount ==
  ASSUME NEW h, Facing(h), BeginEmptyTrash(h) \/ \E f \in files : BeginPurge(h, f)
  PROVE  Account(req[h])'
<1>1. Account(req[h]) /\ h \in Handler
  BY AccountOf
<1>2. PICK rows :
        /\ rows \subseteq files
        /\ req' = [req EXCEPT ![h] = [NoRequest EXCEPT
                     !.pc = "list versions", !.op = "purge", !.rows = rows]]
        /\ req[h].pc = "idle" /\ UNCHANGED <<files, versions, blobs, thumbs, minted>>
  <2>1. CASE BeginEmptyTrash(h)
    <3>1. Trashed \subseteq files
      BY DEF Trashed
    <3> QED BY <2>1, <3>1 DEF BeginEmptyTrash, At
  <2>2. CASE \E f \in files : BeginPurge(h, f)
    <3>1. PICK f \in files : BeginPurge(h, f)
      BY <2>2
    <3>2. PICK rows : rows \subseteq files /\ rows = {f}
      OBVIOUS
    <3> QED BY <3>1, <3>2 DEF BeginPurge, At
  <2> QED BY <2>1, <2>2
<1>3. /\ OthersSame(h) /\ req'[h].pc = "list versions" /\ req'[h].op = "purge"
      /\ req'[h].rows = rows /\ req'[h].vers = {} /\ req'[h].thumb = Null
  <2>1. TypeInv /\ h \in Handler
    BY <1>1 DEF Facing
  <2>2. req' = [req EXCEPT ![h] = [NoRequest EXCEPT
                  !.pc = "list versions", !.op = "purge", !.rows = rows]]
    BY <1>2
  <2> QED BY <2>1, <2>2, BeginRowsFields, BeginRowsThumb
<1>4. TablesFit(req[h])'
  BY <1>1, <1>2, TablesKept DEF Doubled, Doubling
<1>5. StoreIs(req[h])'
  BY <1>1, <1>2, <1>3 DEF Account, StoreIs, SpareBlob, SpareThumb, RowKey, VersionKey, RowThumb, Holding, Overtaken
<1>6. \A f \in req'[h].rows : Stands(f)' /\ f.thumb \in {f.key, Null}
  BY <1>1, <1>2, <1>3 DEF Account, TablesFit, Stands
<1>7. PurgeFits(req[h])'
  BY <1>3, <1>6 DEF PurgeFits
<1> QED BY <1>3, <1>4, <1>5, <1>7, PurgerAccount

LEMMA ListVersionsAccount ==
  ASSUME NEW h, Facing(h), ListVersions(h)
  PROVE  Account(req[h])'
<1>1. Account(req[h]) /\ h \in Handler
  BY AccountOf
<1>2. /\ req[h].pc = "list versions" /\ UNCHANGED <<files, versions, blobs, thumbs, minted>>
  BY DEF ListVersions, At
<1>3. PICK found : /\ found = {v \in versions : v.file \in Ids(req[h].rows)}
                   /\ req' = [req EXCEPT ![h].vers = found, ![h].pc = "purge versions"]
  BY DEF ListVersions
<1>4. req[h].op = "purge"
  BY <1>2, PointTells
<1>k. /\ \A f \in req[h].rows : f.thumb \in {f.key, Null} /\ Stands(f)
      /\ \A f \in files, v \in versions : ~ Doubled(req[h], f, v)
      /\ StoreIs(req[h])
  BY <1>2, <1>4, PurgerKnows DEF PurgeFits
<1>5. \A v : v \in found <=> v \in versions /\ v.file \in Ids(req[h].rows)
  BY <1>3
<1>6. /\ req'[h].pc = "purge versions" /\ req'[h].op = "purge" /\ req'[h].rows = req[h].rows
      /\ req'[h].vers = found
  BY <1>1, <1>3, <1>4, ReadVersionsFields DEF Facing
<1>7. TablesFit(req[h])'
  BY <1>1, <1>2, <1>k, TablesKept
<1>8. StoreIs(req[h])'
  <2>1. \A k \in Key : /\ ~ SpareBlob(req[h], k) /\ ~ SpareThumb(req[h], k)
                       /\ ~ SpareBlob(req[h], k)' /\ ~ SpareThumb(req[h], k)'
    BY <1>2, <1>4, <1>6 DEF SpareBlob, SpareThumb, Holding, Overtaken, WritePath
  <2> QED BY <1>2, <1>k, <2>1 DEF StoreIs, RowKey, VersionKey, RowThumb
<1>9. /\ \A f \in req'[h].rows : Stands(f)'
      /\ \A v \in req'[h].vers : Kept(v)' /\ v.file \in Ids(req[h].rows)
      /\ \A v \in versions' : v.file \in Ids(req[h].rows) => v \in req'[h].vers
  BY <1>2, <1>5, <1>6, <1>k DEF Stands, Kept
<1>10. Ids(req'[h].rows) = Ids(req[h].rows)
  BY <1>6
<1>11. PurgeFits(req[h])'
  BY <1>6, <1>9, <1>10, <1>k DEF PurgeFits
<1> QED BY <1>6, <1>7, <1>8, <1>11, PurgerAccount

LEMMA PurgeVersionsAccount ==
  ASSUME NEW h, Facing(h), PurgeVersions(h)
  PROVE  Account(req[h])'
<1>1. Account(req[h]) /\ h \in Handler
  BY AccountOf
<1>2. /\ req[h].pc = "purge versions" /\ UNCHANGED <<files, blobs, thumbs, minted>>
      /\ versions' = {v \in versions : v.file \notin Ids(req[h].rows)}
      /\ Goto(h, "purge rows")
  BY DEF PurgeVersions, At
<1>4. req[h].op = "purge"
  BY <1>2, PointTells
<1>k. /\ \A f \in req[h].rows : f.thumb \in {f.key, Null} /\ Stands(f)
      /\ \A v \in req[h].vers : Kept(v) /\ v.file \in Ids(req[h].rows)
      /\ \A v \in versions : v.file \in Ids(req[h].rows) => \E w \in req[h].vers : w.key = v.key
      /\ \A f \in files, v \in versions : v.key # f.key
      /\ TablesFit(req[h]) /\ StoreIs(req[h])
  BY <1>2, <1>4, PurgerKnows DEF PurgeFits
<1>6. /\ req'[h].pc = "purge rows" /\ req'[h].op = "purge" /\ req'[h].rows = req[h].rows
      /\ req'[h].vers = req[h].vers
  BY <1>1, <1>2, <1>4, GotoFields DEF Facing
<1>7. versions' \subseteq versions /\ \A f \in files, v \in versions' : v.key # f.key
  BY <1>2, <1>k
<1>8. TablesFit(req[h])'
  BY <1>2, <1>7, <1>k, ShrunkTables
<1>9. \A v \in req[h].vers :
        /\ \A f \in files : f.key # v.key
        /\ \A w \in versions' : w.key # v.key
        /\ \E w \in versions : w.key = v.key
  <2> TAKE v \in req[h].vers
  <2>1. PICK u \in versions : u.file = v.file /\ u.key = v.key
    BY <1>k DEF Kept
  <2>2. \A w \in versions : w.key = v.key => w.file = v.file
    BY <2>1, <1>k DEF TablesFit
  <2> QED BY <2>1, <2>2, <1>2, <1>k
<1>10. \A v \in req'[h].vers : Unnamed(v.key)'
  BY <1>2, <1>6, <1>9 DEF Unnamed, RowKey, VersionKey
<1>11. \A k \in Key : VersionKey(k) <=> VersionKey(k)' \/ \E v \in req[h].vers : k = v.key
  BY <1>2, <1>9, <1>k DEF VersionKey
<1>12. StoreIs(req[h])'
  <2>1. \A k \in Key : ~ SpareBlob(req[h], k) /\ ~ SpareThumb(req[h], k)
    BY <1>2, <1>4 DEF SpareBlob, SpareThumb, Holding, Overtaken, WritePath
  <2>2. \A k \in Key : /\ SpareBlob(req[h], k)' <=> \E v \in req[h].vers : k = v.key
                       /\ ~ SpareThumb(req[h], k)'
    BY <1>4, <1>6 DEF SpareBlob, SpareThumb, Holding, Overtaken, WritePath
  <2>3. \A k \in Key : (RowKey(k)' <=> RowKey(k)) /\ (RowThumb(k)' <=> RowThumb(k))
    BY <1>2 DEF RowKey, RowThumb
  <2>4. \A k \in Key : k \in blobs <=> RowKey(k)' \/ VersionKey(k)' \/ SpareBlob(req[h], k)'
    BY <2>1, <2>2, <2>3, <1>11, <1>k DEF StoreIs
  <2>5. \A k \in Key : k \in thumbs <=> RowThumb(k)' \/ SpareThumb(req[h], k)'
    BY <2>1, <2>2, <2>3, <1>k DEF StoreIs
  <2> QED BY <1>2, <2>4, <2>5 DEF StoreIs
<1>13. \A f \in req'[h].rows : Stands(f)' /\ f.thumb \in {f.key, Null}
  BY <1>2, <1>6, <1>k DEF Stands
<1>14. \A v \in versions' : v.file \notin Ids(req'[h].rows)
  BY <1>2, <1>6
<1>15. PurgeFits(req[h])'
  BY <1>6, <1>10, <1>13, <1>14 DEF PurgeFits
<1> QED BY <1>6, <1>8, <1>12, <1>15, PurgerAccount

LEMMA PurgeRowsAccount ==
  ASSUME NEW h, Facing(h), PurgeRows(h)
  PROVE  Account(req[h])'
<1>1. Account(req[h]) /\ h \in Handler /\ Null \notin Key
  BY AccountOf
<1>2. /\ req[h].pc = "purge rows" /\ UNCHANGED <<blobs, thumbs, minted>>
      /\ DeleteFiles(Ids(req[h].rows)) /\ Goto(h, "purge blobs")
  BY DEF PurgeRows, At
<1>4. req[h].op = "purge"
  BY <1>2, PointTells
<1>k. /\ \A f \in req[h].rows : f.thumb \in {f.key, Null} /\ Stands(f)
      /\ \A v \in req[h].vers : Unnamed(v.key)
      /\ \A v \in versions : v.file \notin Ids(req[h].rows)
      /\ \A f \in files, v \in versions : v.key # f.key
      /\ TablesFit(req[h]) /\ StoreIs(req[h])
  BY <1>2, <1>4, PurgerKnows DEF PurgeFits
<1>5. /\ files' = {f \in files : f.id \notin Ids(req[h].rows)} /\ versions' = versions
  BY <1>2, <1>k DEF DeleteFiles
<1>6. /\ req'[h].pc = "purge blobs" /\ req'[h].op = "purge" /\ req'[h].rows = req[h].rows
      /\ req'[h].vers = req[h].vers
  BY <1>1, <1>2, <1>4, GotoFields DEF Facing
<1>7. TablesFit(req[h])'
  <2>1. \A f \in files, v \in versions :
          v.key # f.key /\ (v.file = f.id => v.version < f.version)
    BY <1>k DEF TablesFit
  <2>2. files' \subseteq files
    BY <1>5
  <2>3. /\ \A f, g \in files' : f.id = g.id \/ f.key = g.key =>
             f.id = g.id /\ f.key = g.key /\ f.thumb = g.thumb /\ f.version = g.version
        /\ \A f \in files' : f.thumb \in {f.key, Null} /\ f.id \in minted /\ f.key \in minted
    BY <2>2, <1>k DEF TablesFit
  <2>4. \A f \in files', v \in versions :
          v.key # f.key /\ (v.file = f.id => v.version < f.version)
    BY <2>1, <2>2
  <2>5. /\ \A v, w \in versions : v.key = w.key \/ (v.file = w.file /\ v.version = w.version) =>
             v.key = w.key /\ v.file = w.file /\ v.version = w.version
        /\ \A v \in versions : v.file \in minted /\ v.key \in minted
    BY <1>k DEF TablesFit
  <2> QED BY <1>2, <1>5, <2>3, <2>4, <2>5 DEF TablesFit
<1>8. \A f \in req[h].rows :
        /\ \A g \in files : g.key = f.key \/ g.id = f.id => /\ g.id = f.id /\ g.key = f.key
                                                           /\ g.thumb = f.thumb
        /\ \E g \in files : g.key = f.key /\ g.id = f.id /\ g.thumb = f.thumb
  BY <1>k DEF Stands, TablesFit
<1>9. \A g \in files : g \in files' <=> \A f \in req[h].rows : g.id # f.id
  BY <1>5 DEF Ids
<1>10. \A f \in req[h].rows : (\A g \in files' : g.key # f.key) /\ \A v \in versions : v.key # f.key
  BY <1>5, <1>8, <1>9, <1>k
<1>11. /\ \A f \in req'[h].rows : Unnamed(f.key)'
       /\ \A v \in req'[h].vers : Unnamed(v.key)'
  BY <1>5, <1>6, <1>10, <1>k DEF Unnamed, RowKey, VersionKey
<1>12. \A k \in Key : RowKey(k) <=> RowKey(k)' \/ \E f \in req[h].rows : k = f.key
  BY <1>5, <1>8, <1>9 DEF RowKey
<1>13. \A k \in Key : RowThumb(k) <=> RowThumb(k)' \/ \E f \in req[h].rows : k = f.thumb
  BY <1>5, <1>8, <1>9 DEF RowThumb
<1>14. StoreIs(req[h])'
  <2>1. \A k \in Key : /\ SpareBlob(req[h], k) <=> \E v \in req[h].vers : k = v.key
                       /\ ~ SpareThumb(req[h], k)
    BY <1>2, <1>4 DEF SpareBlob, SpareThumb, Holding, Overtaken, WritePath
  <2>2. \A k \in Key : /\ SpareBlob(req[h], k)' <=> \/ \E v \in req[h].vers : k = v.key
                                                    \/ \E f \in req[h].rows : k = f.key
                       /\ SpareThumb(req[h], k)' <=> \E f \in req[h].rows : k = f.thumb
    BY <1>4, <1>6 DEF SpareBlob, SpareThumb, Holding, Overtaken, WritePath
  <2>3. \A k \in Key : VersionKey(k)' <=> VersionKey(k)
    BY <1>5 DEF VersionKey
  <2>4. \A k \in Key : k \in blobs <=> RowKey(k)' \/ VersionKey(k)' \/ SpareBlob(req[h], k)'
    BY <2>1, <2>2, <2>3, <1>12, <1>k DEF StoreIs
  <2>5. \A k \in Key : k \in thumbs <=> RowThumb(k)' \/ SpareThumb(req[h], k)'
    BY <2>1, <2>2, <1>13, <1>k DEF StoreIs
  <2> QED BY <1>2, <2>4, <2>5 DEF StoreIs
<1>15. \A v \in versions' : v.file \notin Ids(req'[h].rows)
  BY <1>5, <1>6, <1>k
<1>16. PurgeFits(req[h])'
  BY <1>6, <1>11, <1>15, <1>k DEF PurgeFits
<1> QED BY <1>6, <1>7, <1>14, <1>16, PurgerAccount

LEMMA DropBlobsAccount ==
  ASSUME NEW h, Facing(h), DropBlobs(h)
  PROVE  Account(req[h])'
<1>1. Account(req[h]) /\ h \in Handler /\ Null \notin Key
  BY AccountOf
<1>2. req[h].pc = "purge blobs" /\ UNCHANGED <<files, versions, minted>>
  BY DEF DropBlobs, At
<1>3. req[h].op = "purge"
  BY <1>2, PointTells
<1>4. /\ blobs' = blobs \ ({f.key : f \in req[h].rows} \cup {v.key : v \in req[h].vers})
      /\ thumbs' = thumbs \ {f.thumb : f \in req[h].rows}
      /\ Finish(h)
  BY <1>3 DEF DropBlobs
<1>k. /\ \A f \in req[h].rows : f.thumb \in {f.key, Null} /\ Unnamed(f.key)
      /\ \A v \in req[h].vers : Unnamed(v.key)
      /\ \A f \in files, v \in versions : ~ Doubled(req[h], f, v)
      /\ TablesFit(req[h]) /\ StoreIs(req[h])
  BY <1>2, <1>3, PurgerKnows DEF PurgeFits
<1>5. \A k \in Key : /\ SpareBlob(req[h], k) <=> \/ \E v \in req[h].vers : k = v.key
                                                \/ \E f \in req[h].rows : k = f.key
                     /\ SpareThumb(req[h], k) <=> \E f \in req[h].rows : k = f.thumb
  BY <1>2, <1>3 DEF SpareBlob, SpareThumb, Holding, Overtaken, WritePath
<1>6. \A f \in req[h].rows : f.thumb \in Key => ~ RowThumb(f.thumb)
  <2>1. \A g \in files : g.thumb \in {g.key, Null}
    BY <1>k DEF TablesFit
  <2> QED BY <2>1, <1>1, <1>k DEF RowThumb, RowKey, Unnamed
<1>7. \A k \in Key : k \in blobs' <=> RowKey(k) \/ VersionKey(k)
  BY <1>4, <1>5, <1>k DEF StoreIs, Unnamed
<1>8. \A k \in Key : k \in thumbs' <=> RowThumb(k)
  BY <1>4, <1>5, <1>6, <1>k DEF StoreIs
<1> QED BY <1>2, <1>4, <1>7, <1>8, <1>k, FinishAccount

(* --- The sweep and the edits: the tables look as they did                *)

(* Rows may change their name, trash and verdict without the account noticing.*)
AlikeRows(f, g) == f.id = g.id /\ f.key = g.key /\ f.thumb = g.thumb /\ f.version = g.version

SameLook ==
  /\ \A f \in files : \E g \in files' : AlikeRows(f, g)
  /\ \A g \in files' : \E f \in files : AlikeRows(f, g)
  /\ \A v \in versions : \E w \in versions' : SameRow(v, w)
  /\ \A w \in versions' : \E v \in versions : SameRow(v, w)

LEMMA LooksKept ==
  ASSUME SameLook
  PROVE  /\ \A k : /\ RowKey(k)' <=> RowKey(k)
                   /\ RowThumb(k)' <=> RowThumb(k)
                   /\ VersionKey(k)' <=> VersionKey(k)
                   /\ Unnamed(k)' <=> Unnamed(k)
         /\ \A f : (Stands(f)' <=> Stands(f)) /\ (Twin(f)' <=> Twin(f))
         /\ \A f, k, t : Turned(f, k, t)' <=> Turned(f, k, t)
         /\ \A v : Kept(v)' <=> Kept(v)
<1>1. /\ \A f \in files : \E g \in files' : AlikeRows(f, g)
      /\ \A g \in files' : \E f \in files : AlikeRows(f, g)
      /\ \A v \in versions : \E w \in versions' : SameRow(v, w)
      /\ \A w \in versions' : \E v \in versions : SameRow(v, w)
  BY DEF SameLook
<1>2. \A k : /\ (\E g \in files' : g.key = k) <=> (\E f \in files : f.key = k)
             /\ (\E g \in files' : g.thumb = k) <=> (\E f \in files : f.thumb = k)
             /\ (\E g \in versions' : g.key = k) <=> (\E f \in versions : f.key = k)
  BY <1>1 DEF AlikeRows, SameRow
<1>3. \A i, k, t, n :
        (\E g \in files' : g.id = i /\ g.key = k /\ g.thumb = t /\ g.version = n)
          <=> (\E g \in files : g.id = i /\ g.key = k /\ g.thumb = t /\ g.version = n)
  BY <1>1 DEF AlikeRows
<1>4. \A i, k, n :
        (\E w \in versions' : w.file = i /\ w.version = n /\ w.key = k)
          <=> (\E w \in versions : w.file = i /\ w.version = n /\ w.key = k)
  BY <1>1 DEF SameRow
<1>5. \A k : /\ RowKey(k)' <=> RowKey(k)
             /\ RowThumb(k)' <=> RowThumb(k)
             /\ VersionKey(k)' <=> VersionKey(k)
  BY <1>2 DEF RowKey, RowThumb, VersionKey
<1>6. \A k : Unnamed(k)' <=> Unnamed(k)
  BY <1>2 DEF Unnamed, RowKey, VersionKey
<1>7. \A f : Stands(f)' <=> Stands(f)
  BY <1>3 DEF Stands
<1>8. \A f, k, t : Turned(f, k, t)' <=> Turned(f, k, t)
  <2> TAKE f, k, t
  <2>1. PICK n : n = f.version + 1
    OBVIOUS
  <2>2. (\E g \in files' : g.id = f.id /\ g.key = k /\ g.thumb = t /\ g.version = n)
          <=> (\E g \in files : g.id = f.id /\ g.key = k /\ g.thumb = t /\ g.version = n)
    BY <1>3
  <2> QED BY <2>1, <2>2 DEF Turned
<1>9. \A v : Kept(v)' <=> Kept(v)
  BY <1>4 DEF Kept
<1>10. \A f : Twin(f)' <=> Twin(f)
  BY <1>4 DEF Twin, Kept
<1> QED BY <1>5, <1>6, <1>7, <1>8, <1>9, <1>10

LEMMA LookedTables ==
  ASSUME NEW h, SameLook, UNCHANGED minted, TablesFit(req[h]),
         \A f \in files, g \in files', v \in versions, w \in versions' :
           AlikeRows(f, g) /\ SameRow(v, w) /\ Doubled(req[h], f, v) => Doubled(req'[h], g, w)
  PROVE  TablesFit(req[h])'
<1>1. \A g \in files' : \E f \in files : AlikeRows(f, g)
  BY DEF SameLook
<1>2. \A w \in versions' : \E v \in versions : SameRow(v, w)
  BY DEF SameLook
<1>3. \A f, g \in files' : f.id = g.id \/ f.key = g.key =>
        f.id = g.id /\ f.key = g.key /\ f.thumb = g.thumb /\ f.version = g.version
  <2> SUFFICES ASSUME NEW f \in files', NEW g \in files', f.id = g.id \/ f.key = g.key
               PROVE  f.id = g.id /\ f.key = g.key /\ f.thumb = g.thumb /\ f.version = g.version
    OBVIOUS
  <2>1. PICK a \in files : AlikeRows(a, f)
    BY <1>1
  <2>2. PICK b \in files : AlikeRows(b, g)
    BY <1>1
  <2>3. a.id = b.id \/ a.key = b.key => AlikeRows(a, b)
    BY DEF TablesFit, AlikeRows
  <2> QED BY <2>1, <2>2, <2>3 DEF AlikeRows
<1>4. \A v, w \in versions' : v.key = w.key \/ (v.file = w.file /\ v.version = w.version) =>
        v.key = w.key /\ v.file = w.file /\ v.version = w.version
  <2> SUFFICES ASSUME NEW v \in versions', NEW w \in versions',
                      v.key = w.key \/ (v.file = w.file /\ v.version = w.version)
               PROVE  SameRow(v, w)
    BY DEF SameRow
  <2>1. PICK a \in versions : SameRow(a, v)
    BY <1>2
  <2>2. PICK b \in versions : SameRow(b, w)
    BY <1>2
  <2>3. a.key = b.key \/ (a.file = b.file /\ a.version = b.version) => SameRow(a, b)
    BY DEF TablesFit, SameRow
  <2> QED BY <2>1, <2>2, <2>3 DEF SameRow
<1>5. \A f \in files' : f.thumb \in {f.key, Null} /\ f.id \in minted' /\ f.key \in minted'
  BY <1>1 DEF TablesFit, AlikeRows
<1>6. \A v \in versions' : v.file \in minted' /\ v.key \in minted'
  BY <1>2 DEF TablesFit, SameRow
<1>7. ASSUME NEW g \in files', NEW w \in versions'
      PROVE  /\ w.key = g.key => w.file = g.id /\ Doubled(req'[h], g, w)
             /\ w.file = g.id => w.version < g.version \/ (w.key = g.key /\ w.version = g.version)
  <2>1. PICK f \in files : AlikeRows(f, g)
    BY <1>1
  <2>2. PICK v \in versions : SameRow(v, w)
    BY <1>2
  <2>3. /\ v.key = f.key => v.file = f.id /\ Doubled(req[h], f, v)
        /\ v.file = f.id => v.version < f.version \/ (v.key = f.key /\ v.version = f.version)
    BY DEF TablesFit
  <2>4. Doubled(req[h], f, v) => Doubled(req'[h], g, w)
    BY <2>1, <2>2
  <2>5. f.id = g.id /\ f.key = g.key /\ f.version = g.version
    BY <2>1 DEF AlikeRows
  <2>6. v.file = w.file /\ v.key = w.key /\ v.version = w.version
    BY <2>2 DEF SameRow
  <2> QED BY <2>3, <2>4, <2>5, <2>6
<1> QED BY <1>3, <1>4, <1>5, <1>6, <1>7 DEF TablesFit

(* A request that waits keeps its account over such a step.                *)
LEMMA WaitingAccount ==
  ASSUME NEW h, Facing(h), SameLook, UNCHANGED <<blobs, thumbs, minted, req>>
  PROVE  Account(req[h])'
<1>1. Account(req[h])
  BY AccountOf
<1>2. TablesFit(req[h])'
  <2>1. \A f \in files, g \in files', v \in versions, w \in versions' :
           AlikeRows(f, g) /\ SameRow(v, w) /\ Doubled(req[h], f, v) => Doubled(req'[h], g, w)
    <3> SUFFICES ASSUME NEW f \in files, NEW g \in files', NEW v \in versions, NEW w \in versions',
                        AlikeRows(f, g), SameRow(v, w), Doubled(req[h], f, v)
                 PROVE  Doubled(req'[h], g, w)
      OBVIOUS
    <3>1. /\ f.id = g.id /\ f.version = g.version /\ v.version = w.version
          /\ \A u : SameRow(v, u) => SameRow(w, u)
      BY DEF AlikeRows, SameRow
    <3>2. CASE /\ Doubling(req[h]) /\ v.version = f.version
               /\ \E e \in req[h].rows : e.id = f.id
      BY <3>1, <3>2 DEF Doubled
    <3>3. CASE req[h].pc = "drop target" /\ \E u \in req[h].vers : SameRow(v, u)
      BY <3>1, <3>3 DEF Doubled
    <3> QED BY <3>2, <3>3 DEF Doubled
  <2> QED BY <1>1, <2>1, LookedTables DEF Account
<1>3. StoreIs(req[h])'
  <2>1. \A k \in Key : /\ SpareBlob(req[h], k)' <=> SpareBlob(req[h], k)
                       /\ SpareThumb(req[h], k)' <=> SpareThumb(req[h], k)
    BY DEF SpareBlob, SpareThumb, Holding, Overtaken
  <2> QED BY <1>1, <2>1, LooksKept DEF Account, StoreIs
<1>4. /\ \A i : (\A f \in files' : f.id # i) <=> (\A f \in files : f.id # i)
      /\ \A i : (\A v \in versions' : v.file # i) <=> (\A v \in versions : v.file # i)
      /\ \A i, n : (\A v \in versions' : ~ (v.file = i /\ v.version = n))
                     <=> (\A v \in versions : ~ (v.file = i /\ v.version = n))
  BY DEF SameLook, AlikeRows, SameRow
<1>5. WriteFits(req[h])'
  <2> SUFFICES ASSUME req[h].op \in WritePath
               PROVE  WriteFits(req[h])'
    BY DEF WriteFits
  <2>1. WriteFits(req[h]) /\ req' = req /\ minted' = minted
    BY <1>1 DEF Account
  <2>2. PICK r : r = req[h]
    OBVIOUS
  <2>3. /\ r.pc = "put" \/ Holding(r) => Unnamed(r.key)'
        /\ r.pc \in {"put", "read", "insert"} =>
             /\ \A f \in files' : f.id # r.key
             /\ \A v \in versions' : v.file # r.key
        /\ r.rows = {} /\ r.pc \in {"check", "undo row"} =>
             /\ \E f \in files' : f.id = r.key /\ f.key = r.key /\ f.thumb = r.thumb
             /\ \A v \in versions' : v.file # r.key
    <3>1. /\ r.pc = "put" \/ Holding(r) => Unnamed(r.key)
          /\ r.pc \in {"put", "read", "insert"} =>
               /\ \A f \in files : f.id # r.key
               /\ \A v \in versions : v.file # r.key
          /\ r.rows = {} /\ r.pc \in {"check", "undo row"} =>
               /\ \E f \in files : f.id = r.key /\ f.key = r.key /\ f.thumb = r.thumb
               /\ \A v \in versions : v.file # r.key
      BY <2>1, <2>2 DEF WriteFits
    <3>2. /\ (\A f \in files' : f.id # r.key) <=> (\A f \in files : f.id # r.key)
          /\ (\A v \in versions' : v.file # r.key) <=> (\A v \in versions : v.file # r.key)
      BY <1>4
    <3>4. (\E f \in files : f.id = r.key /\ f.key = r.key /\ f.thumb = r.thumb)
            => (\E f \in files' : f.id = r.key /\ f.key = r.key /\ f.thumb = r.thumb)
      BY DEF SameLook, AlikeRows
    <3>3. Unnamed(r.key)' <=> Unnamed(r.key)
      BY LooksKept
    <3> QED BY <3>1, <3>2, <3>3, <3>4
  <2>4. ASSUME NEW f \in r.rows
        PROVE  /\ f.thumb \in {f.key, Null} /\ f.key \in minted
               /\ r.pc \in {"put", "archive"} \/ Doubling(r) => Stands(f)'
               /\ Doubling(r) \/ (Overtaken(r) /\ (r.pc = "undo row" => r.op \in GuardsUndo)) => Twin(f)'
               /\ Overtaken(r) => Turned(f, r.key, r.thumb)'
               /\ r.pc = "undo row" /\ r.op \notin GuardsUndo =>
                    /\ Unnamed(f.key)'
                    /\ \A v \in versions' : ~ (v.file = f.id /\ v.version = f.version)
    <3>1. /\ f.thumb \in {f.key, Null} /\ f.key \in minted
          /\ r.pc \in {"put", "archive"} \/ Doubling(r) => Stands(f)
          /\ Doubling(r) \/ (Overtaken(r) /\ (r.pc = "undo row" => r.op \in GuardsUndo)) => Twin(f)
          /\ Overtaken(r) => Turned(f, r.key, r.thumb)
          /\ r.pc = "undo row" /\ r.op \notin GuardsUndo =>
               /\ Unnamed(f.key)
               /\ \A v \in versions : ~ (v.file = f.id /\ v.version = f.version)
      BY <2>1, <2>2 DEF WriteFits
    <3>2. (\A v \in versions' : ~ (v.file = f.id /\ v.version = f.version))
            <=> (\A v \in versions : ~ (v.file = f.id /\ v.version = f.version))
      BY <1>4
    <3> QED BY <3>1, <3>2, LooksKept
  <2>5. /\ r.op \in Tidy /\ r.pc \in WriterPoint \cup {"archive"} /\ r.pc # "drop early"
        /\ r.thumb \in {r.key, Null}
        /\ r.key \in minted
        /\ r.pc \in {"archive", "update", "undo version", "drop late"} => r.rows # {}
        /\ r.pc = "insert" \/ r.op \in OnlyInserts => r.rows = {}
        /\ r.op = "resize" => r.rows # {}
        /\ r.pc = "read" => r.op \in {"finalize", "mcp"}
        /\ \A f, g \in r.rows : f = g
    BY <2>1, <2>2 DEF WriteFits
  <2>6. req'[h] = r
    BY <2>1, <2>2
  <2> QED BY <2>1, <2>3, <2>4, <2>5, <2>6 DEF WriteFits
<1>6. RestoreFits(req[h])'
  BY <1>1, LooksKept DEF Account, RestoreFits
<1>7. PurgeFits(req[h])'
  <2> SUFFICES ASSUME req[h].op = "purge"
               PROVE  PurgeFits(req[h])'
    BY DEF PurgeFits
  <2>1. PurgeFits(req[h])
    BY <1>1 DEF Account
  <2>2. \A v \in versions' : v.file \in Ids(req[h].rows) =>
           /\ req[h].pc = "purge versions" => \E w \in req[h].vers : w.key = v.key
           /\ req[h].pc \notin {"purge rows", "purge blobs"}
    <3> TAKE w \in versions'
    <3>1. PICK v \in versions : SameRow(v, w)
      BY DEF SameLook
    <3>2. v.file \in Ids(req[h].rows) =>
           /\ req[h].pc = "purge versions" => \E u \in req[h].vers : u.key = v.key
           /\ req[h].pc \notin {"purge rows", "purge blobs"}
      BY <2>1 DEF PurgeFits
    <3> QED BY <3>1, <3>2 DEF SameRow
  <2>3. Ids(req[h].rows)' = Ids(req[h].rows)
    OBVIOUS
  <2> QED BY <2>1, <2>2, <2>3, LooksKept DEF PurgeFits
<1> QED BY <1>1, <1>2, <1>3, <1>5, <1>6, <1>7 DEF Account

(* A step of the sweep, whose request holds nothing.                       *)
LEMMA SweepAccount ==
  ASSUME NEW h, Facing(h), SameLook, UNCHANGED <<blobs, thumbs, minted>>,
         req[h].pc \in {"idle", "scan bytes"} \cup VerdictPoint,
         \/ req'[h].op = "scan" /\ req'[h].pc \in {"scan bytes"} \cup VerdictPoint
         \/ Finish(h)
  PROVE  Account(req[h])'
<1>1. Account(req[h]) /\ h \in Handler /\ req[h] \in Request
  BY AccountOf
<1>2. \A f \in files, v \in versions : ~ Doubled(req[h], f, v)
  BY DEF Doubled, Doubling, VerdictPoint
<1>3. \A k \in Key : ~ SpareBlob(req[h], k) /\ ~ SpareThumb(req[h], k)
  BY DEF SpareBlob, SpareThumb, Holding, Overtaken, VerdictPoint
<1>4. TablesFit(req[h])'
  BY <1>1, <1>2, LookedTables DEF Account
<1>5. \A k \in Key : /\ k \in blobs' <=> RowKey(k)' \/ VersionKey(k)'
                     /\ k \in thumbs' <=> RowThumb(k)'
  BY <1>1, <1>3, LooksKept DEF Account, StoreIs
<1>6. CASE Finish(h)
  BY <1>4, <1>5, <1>6, EndAccount
<1>7. CASE req'[h].op = "scan" /\ req'[h].pc \in {"scan bytes"} \cup VerdictPoint
  <2>1. \A k \in Key : ~ SpareBlob(req[h], k)' /\ ~ SpareThumb(req[h], k)'
    BY <1>7 DEF SpareBlob, SpareThumb, Holding, Overtaken, VerdictPoint, WritePath
  <2>2. StoreIs(req[h])'
    BY <1>5, <2>1 DEF StoreIs
  <2>3. req'[h].op \notin WritePath \cup HistoryOp \cup {"purge"}
    BY <1>7 DEF WritePath, HistoryOp
  <2>4. req'[h].pc # "idle"
    BY <1>7 DEF VerdictPoint
  <2> QED BY <1>4, <1>7, <2>2, <2>3, <2>4 DEF Account, WriteFits, RestoreFits, PurgeFits
<1> QED BY <1>6, <1>7

LEMMA ScanAccount ==
  ASSUME NEW h, Facing(h), Scan(h)
  PROVE  Account(req[h])'
<1>1. Account(req[h]) /\ h \in Handler /\ TypeInv
  BY AccountOf DEF Facing
<1>2. /\ UNCHANGED files => (\A f \in files : \E g \in files' : AlikeRows(f, g))
                           /\ (\A g \in files' : \E f \in files : AlikeRows(f, g))
      /\ UNCHANGED versions => (\A v \in versions : \E w \in versions' : SameRow(v, w))
                              /\ (\A w \in versions' : \E v \in versions : SameRow(v, w))
  BY DEF AlikeRows, SameRow
<1>3. CASE \E v \in ScanCandidates : BeginScan(h, v)
  <2>1. PICK v : BeginScan(h, v)
    BY <1>3
  <2>2. req[h].pc = "idle" /\ UNCHANGED <<files, versions, blobs, thumbs, minted>>
    BY <2>1 DEF BeginScan, At
  <2>3. req'[h].pc = "scan bytes" /\ req'[h].op = "scan"
    BY <1>1, <2>1, BeginScanFields
  <2> QED BY <1>2, <2>2, <2>3, SweepAccount DEF SameLook
<1>4. CASE ScanBytes(h)
  <2>1. req[h].pc = "scan bytes" /\ UNCHANGED <<files, versions, blobs, thumbs, minted>>
    BY <1>4 DEF ScanBytes, At
  <2>2. req'[h].pc = "verdict on file" /\ req'[h].op = "scan"
    BY <1>1, <1>4, <2>1, ScanBytesFields, PointTells
  <2> QED BY <1>2, <2>1, <2>2, SweepAccount DEF SameLook, VerdictPoint
<1>5. CASE VerdictOnFile(h)
  <2>1. /\ req[h].pc = "verdict on file" /\ UNCHANGED <<versions, blobs, thumbs, minted>>
        /\ Goto(h, "verdict on version")
    BY <1>5 DEF VerdictOnFile, At
  <2>2. req'[h].pc = "verdict on version" /\ req'[h].op = "scan"
    BY <1>1, <2>1, GotoFields, PointTells DEF VerdictPoint
  <2>3. PICK v : files' = {IF MatchesFile(f, v) THEN [f EXCEPT !.scan = req[h].verdict] ELSE f : f \in files}
    BY <1>5 DEF VerdictOnFile
  <2>4. \A f \in files : AlikeRows(f, IF MatchesFile(f, v) THEN [f EXCEPT !.scan = req[h].verdict] ELSE f)
    BY AccountOf DEF FileRow, AlikeRows
  <2>5. /\ \A f \in files : \E g \in files' : AlikeRows(f, g)
        /\ \A g \in files' : \E f \in files : AlikeRows(f, g)
    BY <2>3, <2>4
  <2> QED BY <1>2, <2>1, <2>2, <2>5, SweepAccount DEF SameLook, VerdictPoint
<1>6. CASE VerdictOnVersion(h)
  <2>1. /\ req[h].pc = "verdict on version" /\ UNCHANGED <<files, blobs, thumbs, minted>>
        /\ Finish(h)
    BY <1>6 DEF VerdictOnVersion, At
  <2>3. PICK v : versions' = {IF MatchesVersion(w, v) THEN [w EXCEPT !.scan = req[h].verdict] ELSE w : w \in versions}
    BY <1>6 DEF VerdictOnVersion
  <2>4. \A w \in versions : SameRow(w, IF MatchesVersion(w, v) THEN [w EXCEPT !.scan = req[h].verdict] ELSE w)
    BY AccountOf DEF VersionRow, SameRow
  <2>5. /\ \A u \in versions : \E w \in versions' : SameRow(u, w)
        /\ \A w \in versions' : \E u \in versions : SameRow(u, w)
    BY <2>3, <2>4
  <2> QED BY <1>2, <2>1, <2>5, SweepAccount DEF SameLook, VerdictPoint
<1> QED BY <1>3, <1>4, <1>5, <1>6 DEF Scan

LEMMA EditAccount ==
  ASSUME NEW h, Facing(h), EditRow
  PROVE  Account(req[h])'
<1>1. ASSUME NEW f \in files, NEW g, AlikeRows(f, g), files' = (files \ {f}) \cup {g},
             UNCHANGED <<versions, blobs, thumbs, minted, req>>
      PROVE  Account(req[h])'
  <2>1. \A e \in files : AlikeRows(e, e)
    BY DEF AlikeRows
  <2>2. \A v \in versions : SameRow(v, v)
    BY DEF SameRow
  <2> QED BY <1>1, <2>1, <2>2, WaitingAccount DEF SameLook
<1>2. CASE \E f \in files, n \in Name : Rename(f, n)
  <2>1. PICK f \in files, n \in Name : Rename(f, n)
    BY <1>2
  <2>2. PICK g : g = [f EXCEPT !.name = n]
    OBVIOUS
  <2>3. AlikeRows(f, g)
    BY <2>2, AccountOf DEF FileRow, AlikeRows
  <2> QED BY <1>1, <2>1, <2>2, <2>3 DEF Rename
<1>3. CASE \E f \in files, t \in BOOLEAN : SetTrashed(f, t)
  <2>1. PICK f \in files, t \in BOOLEAN : SetTrashed(f, t)
    BY <1>3
  <2>2. PICK g : g = [f EXCEPT !.trashed = t]
    OBVIOUS
  <2>3. AlikeRows(f, g)
    BY <2>2, AccountOf DEF FileRow, AlikeRows
  <2> QED BY <1>1, <2>1, <2>2, <2>3 DEF SetTrashed
<1> QED BY <1>2, <1>3 DEF EditRow

LEMMA WriteAccount ==
  ASSUME NEW h, Facing(h), Writes \subseteq Tidy, Write(h)
  PROVE  Account(req[h])'
<1>1. h \in Handler /\ TypeInv
  BY AccountOf DEF Facing
<1>2. \/ \E p \in Writes, n \in Name, k \in Key : BeginWrite(h, p, n, k)
      \/ PutBytes(h) \/ ReadExisting(h) \/ ArchiveForWrite(h)
      \/ UpdateRow(h) \/ InsertRow(h) \/ DropOldThumb(h)
      \/ Accept(h) \/ Reject(h)
      \/ UndoVersion(h) \/ UndoInsert(h) \/ UndoUpdate(h) \/ UndoBlob(h)
  BY <1>1, WriteSteps
<1>3. CASE \E p \in Writes, n \in Name, k \in Key : BeginWrite(h, p, n, k)
  BY <1>3, BeginWriteAccount
<1>4. CASE ArchiveForWrite(h)
  BY <1>4, ArchiveForWriteAccount DEF ArchiveForWrite
<1>5. req[h].pc \in WriterPoint => req[h].op \in WritePath
  BY <1>1 DEF TypeInv, WriterKnown
<1>6. CASE \/ PutBytes(h) \/ ReadExisting(h) \/ UpdateRow(h) \/ InsertRow(h) \/ DropOldThumb(h)
  <2>1. req[h].op \in WritePath
    BY <1>5, <1>6 DEF PutBytes, ReadExisting, UpdateRow, InsertRow, DropOldThumb, At, WriterPoint
  <2> QED BY <1>6, <2>1, PutBytesAccount, ReadExistingAccount, UpdateRowAccount, InsertRowAccount,
             DropOldThumbAccount
<1>7. CASE \/ Accept(h) \/ Reject(h) \/ UndoVersion(h) \/ UndoInsert(h) \/ UndoUpdate(h)
           \/ UndoBlob(h)
  <2>1. req[h].op \in WritePath
    BY <1>5, <1>7 DEF Accept, Reject, UndoVersion, UndoInsert, UndoUpdate, UndoBlob, At, WriterPoint
  <2> QED BY <1>7, <2>1, AcceptAccount, RejectAccount, UndoVersionAccount, UndoInsertAccount,
             UndoUpdateAccount, UndoBlobAccount
<1> QED BY <1>2, <1>3, <1>4, <1>6, <1>7

LEMMA AccountStep ==
  ASSUME OneByOne, TypeInv, StoreInv, Next, NEW h \in Handler
  PROVE  Account(req[h])'
<1>1. Facing(h) /\ ~Crashes /\ ~Throws /\ Writes \subseteq Tidy /\ Ops \cap {"hard delete", "move"} = {}
  BY DEF OneByOne, Facing
<1>2. \/ Write(h) \/ History(Ops, h) \/ Purge(Ops, h) \/ Scan(h)
      \/ EditRow
  BY <1>1 DEF Next, Facing
<1>3. CASE History(Ops, h)
  <2>1. \/ \E op \in HistoryOp, f \in files : BeginHistory(h, op, f)
        \/ FindVersion(h) \/ RegenerateThumb(h) \/ ArchiveForRestore(h)
        \/ PromoteVersion(h) \/ DropTarget(h) \/ DropReplacedThumb(h)
        \/ DeleteVersionRow(h) \/ DropVersionBlob(h)
    BY <1>3 DEF History
  <2> QED BY <1>1, <2>1, BeginHistoryAccount, FindVersionAccount, RegenerateThumbAccount,
             ArchiveForRestoreAccount, PromoteVersionAccount, DropTargetAccount,
             DropReplacedThumbAccount, DeleteVersionRowAccount, DropVersionBlobAccount
<1>4. CASE Purge(Ops, h)
  <2>1. \/ BeginEmptyTrash(h) \/ \E f \in files : BeginPurge(h, f)
        \/ ListVersions(h) \/ PurgeVersions(h) \/ PurgeRows(h) \/ DropBlobs(h)
        \/ MoveRow(h)
    BY <1>1, <1>4 DEF Purge
  <2>2. ~ MoveRow(h)
    BY <1>1, PointTells DEF MoveRow
  <2> QED BY <1>1, <2>1, <2>2, BeginPurgeAccount, ListVersionsAccount, PurgeVersionsAccount,
             PurgeRowsAccount, DropBlobsAccount
<1> QED BY <1>1, <1>2, <1>3, <1>4, WriteAccount, ScanAccount, EditAccount

(* Between requests the store holds the bytes and the thumbnails of the    *)
(* rows and nothing else, however many files, versions and rejected writes *)
(* there have been: no write path that drops what it replaces, no restore, *)
(* purge or deletion of a version, and no undo leaves an object behind or  *)
(* takes one away from a row.                                              *)
THEOREM NothingLeaks ==
  ASSUME OneByOne
  PROVE  Spec => []NoLeakAtRest
<1>1. Init => TypeInv /\ StoreInv
  <2> SUFFICES ASSUME Init
               PROVE  TypeInv /\ StoreInv
    OBVIOUS
  <2>1. TypeInv
    BY NoRequestType DEF Init, TypeInv, TypeOK, WriterKnown
  <2>2. ASSUME NEW h \in Handler
        PROVE  Account(req[h])
    <3>1. /\ req[h].pc = "idle" /\ req[h].op = Null /\ req[h].rows = {} /\ Null \notin Operation
      BY NullAssumption DEF Init, NoRequest
    <3>2. req[h].op \notin WritePath \cup HistoryOp \cup {"purge", "scan"}
      BY <3>1 DEF Operation, HistoryOp
    <3>3. TablesFit(req[h])
      BY DEF Init, TablesFit
    <3>4. StoreIs(req[h])
      BY <3>1 DEF Init, StoreIs, SpareBlob, SpareThumb, Holding, Overtaken, RowKey, RowThumb, VersionKey
    <3> QED BY <3>1, <3>2, <3>3, <3>4 DEF Account, WriteFits, RestoreFits, PurgeFits
  <2> QED BY <2>1, <2>2 DEF StoreInv
<1>2. TypeInv /\ StoreInv /\ [Next]_vars => TypeInv' /\ StoreInv'
  <2> SUFFICES ASSUME TypeInv, StoreInv, [Next]_vars
               PROVE  TypeInv' /\ StoreInv'
    OBVIOUS
  <2>1. CASE Next
    BY <2>1, NextType, AccountStep DEF StoreInv
  <2>2. CASE UNCHANGED vars
    <3>1. SameLook /\ UNCHANGED <<blobs, thumbs, minted, req>>
      BY <2>2 DEF vars, SameLook, AlikeRows, SameRow
    <3>2. \A h \in Handler : Facing(h)
      BY DEF OneByOne, Facing
    <3> QED BY <3>1, <3>2, WaitingAccount, NextType DEF StoreInv
  <2> QED BY <2>1, <2>2
<1>3. TypeInv /\ StoreInv => NoLeakAtRest
  <2> SUFFICES ASSUME TypeInv, StoreInv, AtRest
               PROVE  /\ blobs = {f.key : f \in files} \cup {v.key : v \in versions}
                      /\ thumbs = {f.thumb : f \in files} \ {Null}
    BY DEF NoLeakAtRest
  <2>1. PICK h : Facing(h) /\ req[h].pc = "idle"
    BY DEF OneByOne, Facing, AtRest, At
  <2>2. StoreIs(req[h]) /\ \A k \in Key : ~ SpareBlob(req[h], k) /\ ~ SpareThumb(req[h], k)
    BY <2>1, AccountOf DEF Account, SpareBlob, SpareThumb, Holding, Overtaken
  <2>3. /\ blobs \subseteq Key /\ thumbs \subseteq Key /\ Null \notin Key
        /\ \A f \in files : f.key \in Key /\ f.thumb \in Key \cup {Null}
        /\ \A v \in versions : v.key \in Key
    BY NullAssumption DEF TypeInv, TypeOK, FileRow, VersionRow
  <2> QED BY <2>2, <2>3 DEF StoreIs, RowKey, RowThumb, VersionKey
<1> QED BY <1>1, <1>2, <1>3, PTL DEF Spec
=============================================================================
