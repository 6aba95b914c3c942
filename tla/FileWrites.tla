----------------------------- MODULE FileWrites -----------------------------
(***************************************************************************)
(* The handlers that write a file's bytes, one per protocol:               *)
(*   "post"      POST /files                       files/index.ts          *)
(*   "finalize"  finalizeUpload, chunked uploads   uploads/finalize.ts     *)
(*   "webdav"    PUT /webdav/...                   webdav/index.ts         *)
(*   "s3"        PUT /s3/:bucket/...               s3/index.ts             *)
(*   "mcp"       the upload_file tool              mcp/tools/write.ts      *)
(*   "resize"    the resize folder action          actions/stohr/resize.ts *)
(*   "copy"      COPY /webdav/...                  webdav/index.ts         *)
(*   "photo"     POST /photos/upload               photos/index.ts         *)
(* Each puts the bytes, then inserts a row or archives the current version *)
(* and overwrites the row, then reads usage again and undoes its write     *)
(* when a cap is exceeded.  They differ in the order of their reads, in    *)
(* their thumbnails, and in how careful the undo is.                       *)
(*                                                                         *)
(* Whether the second usage read exceeds a cap is left open: the team cap  *)
(* is measured against every member's usage, which this module does not    *)
(* hold (Quota models the arithmetic).                                     *)
(***************************************************************************)
EXTENDS FileStore

CONSTANTS
  Writes,  \* the write paths in use
  Capped   \* some storage cap applies to the owner

ASSUME FileWritesAssumption == Writes \subseteq WritePath /\ Capped \in BOOLEAN

(* The target row is looked up before the bytes are put, not after. *)
ReadsFirst == {"webdav", "resize"}

(* The handler inserts a row of its own, over no other. *)
OnlyInserts == {"copy", "photo"}

(* A thumbnail of the new bytes is put beside them. *)
MakesThumb == {"post", "finalize", "resize", "photo"}

(* The old thumbnail is dropped before, or only after, the usage re-check. *)
DropsEarly == {"post"}
DropsLate == {"finalize", "mcp", "resize"}

(* Mutant: no UPDATE sets thumb_key. *)
KeepsThumbAlways == WritePath

(* thumb_key is not among the columns the UPDATE sets. *)
KeepsThumb == {"webdav"}

(* The undo touches the row only while it still holds this write's key. *)
GuardsUndo == {"mcp", "resize"}

---------------------------------------------------------------------------
(* A photo whose asset has a live row is answered with that row, and       *)
(* nothing is written; a copy is made of a live file's bytes.              *)
MayBegin(p, n, k) ==
  CASE p = "photo" -> OfAsset(n) = {}
    [] p = "copy"  -> \E f \in files :
         /\ ~f.trashed /\ f.key \in blobs
         /\ (k \in Infected) = (f.key \in Infected)
         /\ (k \in Oversize) = (f.key \in Oversize)
    [] OTHER       -> TRUE

(* Request accepted by the first usage check; the key is drawn.            *)
BeginWrite(h, p, n, k) ==
  /\ At(h, "idle")
  /\ k \notin minted
  /\ MayBegin(p, n, k)
  /\ \E found \in One(IF p \in ReadsFirst THEN Live(n) ELSE {}) :
       /\ p = "resize" => found # {}
       /\ req' = [req EXCEPT ![h] = [NoRequest EXCEPT
                    !.pc = "put", !.op = p, !.name = n, !.key = k,
                    !.rows = found]]
  /\ minted' = minted \cup {k}
  /\ UNCHANGED <<files, versions, blobs, thumbs>>

(* A thumbnail that cannot be made or put is done without.                 *)
ThumbFor(p, k) == IF p \in MakesThumb /\ k \in Thumbable THEN {k, Null} ELSE {Null}

AfterPut(r) ==
  CASE r.op = "resize"                   -> "archive"
    [] r.op = "webdav" /\ r.rows = {}    -> "insert"
    [] r.op \in OnlyInserts              -> "insert"
    [] OTHER                             -> "read"

PutBytes(h) ==
  /\ At(h, "put")
  /\ blobs' = blobs \cup {req[h].key}
  /\ \E t \in ThumbFor(req[h].op, req[h].key) :
       /\ thumbs' = thumbs \cup ({t} \ {Null})
       /\ req' = [req EXCEPT ![h].thumb = t, ![h].pc = AfterPut(req[h])]
  /\ UNCHANGED <<files, versions, minted>>

(* The row the write will replace, if any.  WebDAV reads it by the id it   *)
(* resolved earlier, and answers 404 when that row is gone by now.         *)
Existing(r) ==
  IF r.op = "webdav" THEN UNION {ById(f.id) : f \in r.rows} ELSE Live(r.name)

ReadExisting(h) ==
  /\ At(h, "read")
  /\ \E found \in One(Existing(req[h])) :
       \/ /\ req[h].op = "webdav" /\ found = {}
          /\ Finish(h)
       \/ /\ req[h].op # "webdav" \/ found # {}
          /\ req' = [req EXCEPT
               ![h].rows = found,
               ![h].pc = IF found = {} THEN "insert" ELSE "archive"]
  /\ UNCHANGED <<files, versions, blobs, thumbs, minted>>

ArchiveForWrite(h) == req[h].op \in WritePath /\ ArchiveCurrent(h, "update")

(* Mutant: the UPDATE forgets version + 1. *)
OverwrittenInPlace(g, f, r) ==
  [g EXCEPT !.key = r.key, !.thumb = r.thumb, !.scan = FreshScan]

(* UPDATE files: g is the row as stored, f the row as this request read    *)
(* it.  The resize action also writes back the name it read.               *)
Overwritten(g, f, r) ==
  [g EXCEPT !.key = r.key,
            !.thumb = IF r.op \in KeepsThumb THEN g.thumb ELSE r.thumb,
            !.name = IF r.op = "resize" THEN f.name ELSE g.name,
            !.version = f.version + 1,
            !.scan = FreshScan]

UpdateRow(h) ==
  /\ At(h, "update")
  /\ \E f \in req[h].rows :
       /\ files' = {IF g.id = f.id THEN Overwritten(g, f, req[h]) ELSE g : g \in files}
       /\ Goto(h, IF req[h].op \in DropsEarly /\ f.thumb # Null
                  THEN "drop early" ELSE "check")
  /\ UNCHANGED <<versions, blobs, thumbs, minted>>

AssetOf(r) == IF r.op = "photo" THEN r.name ELSE Null

(* A second upload of the same asset meets the unique index: it drops what *)
(* it has put and is answered with the row that is there.                  *)
InsertRow(h) ==
  /\ At(h, "insert")
  /\ \/ /\ AssetOf(req[h]) # Null /\ OfAsset(AssetOf(req[h])) # {}
        /\ Goto(h, "undo blob")
        /\ files' = files
     \/ /\ AssetOf(req[h]) = Null \/ OfAsset(AssetOf(req[h])) = {}
        /\ files' = files \cup {[id |-> req[h].key, name |-> req[h].name,
                                 key |-> req[h].key, thumb |-> req[h].thumb,
                                 version |-> 1, scan |-> FreshScan, trashed |-> FALSE,
                                 asset |-> AssetOf(req[h])]}
        /\ Goto(h, "check")
  /\ UNCHANGED <<versions, blobs, thumbs, minted>>

OldThumb(r) == {f.thumb : f \in r.rows} \ {Null}

DropOldThumb(h) ==
  /\ \/ At(h, "drop early") /\ Goto(h, "check")
     \/ At(h, "drop late") /\ Finish(h)
  /\ thumbs' = thumbs \ OldThumb(req[h])
  /\ UNCHANGED <<files, versions, blobs, minted>>

(* Usage is within the caps: the write stands. *)
Accept(h) ==
  /\ At(h, "check")
  /\ IF req[h].op \in DropsLate /\ OldThumb(req[h]) # {}
     THEN Goto(h, "drop late")
     ELSE Finish(h)
  /\ UNCHANGED <<files, versions, blobs, thumbs, minted>>

(* A cap is exceeded: the request is answered 402 once its write is undone.*)
Reject(h) ==
  /\ At(h, "check")
  /\ Capped
  /\ Goto(h, IF req[h].rows = {} \/ req[h].op \in GuardsUndo
             THEN "undo row" ELSE "undo version")
  /\ UNCHANGED <<files, versions, blobs, thumbs, minted>>

(* DELETE FROM file_versions WHERE file_id = ... AND version = ...         *)
UndoVersion(h) ==
  /\ At(h, "undo version")
  /\ \E f \in req[h].rows :
       versions' = {v \in versions : ~ (v.file = f.id /\ v.version = f.version)}
  /\ Goto(h, IF req[h].op \in GuardsUndo THEN "undo blob" ELSE "undo row")
  /\ UNCHANGED <<files, blobs, thumbs, minted>>

(* The rows the undo of request r applies to. *)
UndoTarget(r) ==
  {g \in files : /\ r.op \in GuardsUndo => g.key = r.key
                 /\ \/ r.rows = {} /\ g.id = r.key
                    \/ \E f \in r.rows : g.id = f.id}

(* Mutant: the undo counts the version down instead of restoring it. *)
PutBackOneLess(g, f, r) ==
  [g EXCEPT !.key = f.key, !.thumb = f.thumb, !.version = f.version - 1]

(* The row gets the values the request read when it took its snapshot. *)
PutBack(g, f, r) ==
  [g EXCEPT !.key = f.key,
            !.thumb = IF r.op \in KeepsThumb THEN g.thumb ELSE f.thumb,
            !.name = IF r.op = "resize" THEN f.name ELSE g.name,
            !.version = f.version,
            !.scan = f.scan]

(* The inserted row is deleted again. *)
UndoInsert(h) ==
  /\ At(h, "undo row")
  /\ req[h].rows = {}
  /\ DeleteFiles({g.id : g \in UndoTarget(req[h])})
  /\ IF req[h].op \in GuardsUndo /\ UndoTarget(req[h]) = {}
     THEN Finish(h)
     ELSE Goto(h, "undo blob")
  /\ UNCHANGED <<blobs, thumbs, minted>>

(* The overwritten row gets back the values the request had read. *)
UndoUpdate(h) ==
  /\ At(h, "undo row")
  /\ \E f \in req[h].rows :
       files' = {IF g \in UndoTarget(req[h]) THEN PutBack(g, f, req[h]) ELSE g : g \in files}
  /\ CASE req[h].op \notin GuardsUndo -> Goto(h, "undo blob")
       [] req[h].op \in GuardsUndo /\ UndoTarget(req[h]) = {} -> Finish(h)
       [] OTHER -> Goto(h, "undo version")
  /\ UNCHANGED <<versions, blobs, thumbs, minted>>

(* Mutant: the undo leaves the rejected write's thumbnail behind. *)
UndoBlobOnly(h) ==
  /\ At(h, "undo blob")
  /\ blobs' = blobs \ {req[h].key}
  /\ Finish(h)
  /\ UNCHANGED <<files, versions, thumbs, minted>>

(* Mutant: the undo puts the row back but keeps the rejected bytes. *)
UndoBlobNever(h) ==
  /\ At(h, "undo blob")
  /\ Finish(h)
  /\ UNCHANGED <<files, versions, blobs, thumbs, minted>>

(* dropNew: the rejected bytes and their thumbnail. *)
UndoBlob(h) ==
  /\ At(h, "undo blob")
  /\ blobs' = blobs \ {req[h].key}
  /\ thumbs' = thumbs \ {req[h].thumb}
  /\ Finish(h)
  /\ UNCHANGED <<files, versions, minted>>

(* A statement of the photo handler throws.  Its catch drops the key and   *)
(* the thumbnail whichever of the statements it was, the ones after the    *)
(* committed INSERT included, and the row, if there is one, stays.         *)
FailPhoto(h) ==
  /\ req[h].op = "photo"
  /\ req[h].pc \in {"insert", "check", "undo row"}
  /\ blobs' = blobs \ {req[h].key}
  /\ thumbs' = thumbs \ {req[h].thumb}
  /\ Finish(h)
  /\ UNCHANGED <<files, versions, minted>>

---------------------------------------------------------------------------
(* The handlers, each with the steps it takes                              *)

Begin(h, p) == p \in Writes /\ \E n \in Name, k \in Key : BeginWrite(h, p, n, k)

Insert(h) == InsertRow(h) \/ UndoInsert(h)

Overwrite(h) ==
  ReadExisting(h) \/ ArchiveForWrite(h) \/ UpdateRow(h) \/ UndoVersion(h) \/ UndoUpdate(h)

(* The usage re-check and the end of the undo.                             *)
Settle(h) == Accept(h) \/ Reject(h) \/ UndoBlob(h)

PostFiles(h) ==
  \/ Begin(h, "post")
  \/ /\ req[h].op = "post"
     /\ PutBytes(h) \/ Insert(h) \/ Overwrite(h) \/ DropOldThumb(h) \/ Settle(h)

FinalizeUpload(h) ==
  \/ Begin(h, "finalize")
  \/ /\ req[h].op = "finalize"
     /\ PutBytes(h) \/ Insert(h) \/ Overwrite(h) \/ DropOldThumb(h) \/ Settle(h)

UploadFile(h) ==
  \/ Begin(h, "mcp")
  \/ /\ req[h].op = "mcp"
     /\ PutBytes(h) \/ Insert(h) \/ Overwrite(h) \/ DropOldThumb(h) \/ Settle(h)

(* The gateways leave the replaced row's thumbnail where it is.            *)
DavPut(h) ==
  \/ Begin(h, "webdav")
  \/ /\ req[h].op = "webdav"
     /\ PutBytes(h) \/ Insert(h) \/ Overwrite(h) \/ Settle(h)

PutObject(h) ==
  \/ Begin(h, "s3")
  \/ /\ req[h].op = "s3"
     /\ PutBytes(h) \/ Insert(h) \/ Overwrite(h) \/ Settle(h)

Resize(h) ==
  \/ Begin(h, "resize")
  \/ /\ req[h].op = "resize"
     /\ PutBytes(h) \/ Overwrite(h) \/ DropOldThumb(h) \/ Settle(h)

DavCopy(h) ==
  \/ Begin(h, "copy")
  \/ req[h].op = "copy" /\ (PutBytes(h) \/ Insert(h) \/ Settle(h))

UploadPhoto(h) ==
  \/ Begin(h, "photo")
  \/ req[h].op = "photo" /\ (PutBytes(h) \/ Insert(h) \/ Settle(h))

Write(h) ==
  \/ PostFiles(h) \/ FinalizeUpload(h) \/ UploadFile(h) \/ DavPut(h)
  \/ PutObject(h) \/ Resize(h) \/ DavCopy(h) \/ UploadPhoto(h)
=============================================================================
