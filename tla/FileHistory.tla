---------------------------- MODULE FileHistory ----------------------------
(***************************************************************************)
(* The handlers on archived versions: POST and DELETE                      *)
(* /files/:id/versions/:version[/restore]  (files/index.ts).               *)
(***************************************************************************)
EXTENDS FileStore

HistoryOp == {"restore", "delete version"}

(* fileAccess: the live row, read before anything else. *)
BeginHistory(h, op, f) ==
  /\ At(h, "idle")
  /\ f \in files /\ ~f.trashed
  /\ op = "restore" => f.version < MaxVersion
  /\ req' = [req EXCEPT ![h] = [NoRequest EXCEPT
               !.pc = "find version", !.op = op, !.rows = {f}]]
  /\ UNCHANGED <<files, versions, blobs, thumbs, minted>>

(* The archived version the request names; 422 when it is the current one. *)
Eligible(f, v) == v.file = f.id /\ v.version # f.version

FindVersion(h) ==
  /\ At(h, "find version")
  /\ \E f \in req[h].rows :
       \/ \E v \in {w \in versions : Eligible(f, w)} :
            req' = [req EXCEPT ![h].vers = {v},
                               ![h].pc = IF req[h].op = "restore" THEN "regenerate"
                                         ELSE "delete version row"]
       \/ Finish(h)
  /\ UNCHANGED <<files, versions, blobs, thumbs, minted>>

(* The thumbnail of the bytes coming back is made again from the object    *)
(* when they are an image not known to be infected; reading an object that *)
(* is gone throws.                                                         *)
RegenerateThumb(h) ==
  /\ At(h, "regenerate")
  /\ \E v \in req[h].vers :
       IF v.key \in Thumbable /\ v.scan # "infected"
       THEN \/ /\ v.key \notin blobs
               /\ Finish(h)
               /\ thumbs' = thumbs
            \/ /\ v.key \in blobs
               /\ \E t \in {v.key, Null} :
                    /\ thumbs' = thumbs \cup ({t} \ {Null})
                    /\ req' = [req EXCEPT ![h].thumb = t, ![h].pc = "archive"]
       ELSE Goto(h, "archive") /\ thumbs' = thumbs
  /\ UNCHANGED <<files, versions, blobs, minted>>

ArchiveForRestore(h) == req[h].op = "restore" /\ ArchiveCurrent(h, "promote")

(* An infected version stays infected; any other comes back unscanned.     *)
RestoredScan(v) == IF v.scan = "infected" THEN "infected" ELSE FreshScan

Promoted(g, f, v, r) ==
  [g EXCEPT !.key = v.key, !.thumb = r.thumb,
            !.version = f.version + 1, !.scan = RestoredScan(v)]

PromoteVersion(h) ==
  /\ At(h, "promote")
  /\ \E f \in req[h].rows, v \in req[h].vers :
       files' = {IF g.id = f.id THEN Promoted(g, f, v, req[h]) ELSE g : g \in files}
  /\ Goto(h, "drop target")
  /\ UNCHANGED <<versions, blobs, thumbs, minted>>

(* The restored version's row goes, by its primary key. *)
SameRow(v, w) == v.file = w.file /\ v.version = w.version /\ v.key = w.key

DropTarget(h) ==
  /\ At(h, "drop target")
  /\ \E v \in req[h].vers : versions' = {w \in versions : ~ SameRow(v, w)}
  /\ \E f \in req[h].rows :
       IF f.thumb = Null THEN Finish(h) ELSE Goto(h, "drop thumb")
  /\ UNCHANGED <<files, blobs, thumbs, minted>>

DropReplacedThumb(h) ==
  /\ At(h, "drop thumb")
  /\ \E f \in req[h].rows : thumbs' = thumbs \ {f.thumb}
  /\ Finish(h)
  /\ UNCHANGED <<files, versions, blobs, minted>>

(* DELETE: the row by (file_id, version), then the object of the row read. *)
DeleteVersionRow(h) ==
  /\ At(h, "delete version row")
  /\ \E v \in req[h].vers :
       versions' = {w \in versions : ~ (w.file = v.file /\ w.version = v.version)}
  /\ Goto(h, "drop version blob")
  /\ UNCHANGED <<files, blobs, thumbs, minted>>

DropVersionBlob(h) ==
  /\ At(h, "drop version blob")
  /\ \E v \in req[h].vers : blobs' = blobs \ {v.key}
  /\ Finish(h)
  /\ UNCHANGED <<files, versions, thumbs, minted>>

History(ops, h) ==
  \/ \E op \in ops \cap HistoryOp, f \in files : BeginHistory(h, op, f)
  \/ FindVersion(h) \/ RegenerateThumb(h) \/ ArchiveForRestore(h)
  \/ PromoteVersion(h) \/ DropTarget(h) \/ DropReplacedThumb(h)
  \/ DeleteVersionRow(h) \/ DropVersionBlob(h)
=============================================================================
