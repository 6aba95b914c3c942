----------------------------- MODULE FileTrash -----------------------------
(***************************************************************************)
(* Rename, the trash, and the three ways a file goes for good: purge of    *)
(* one file, emptying the trash, and the hard delete of the S3 and WebDAV  *)
(* gateways  (files/index.ts, trash/index.ts, s3/index.ts, webdav/index.ts)*)
(***************************************************************************)
EXTENDS FileStore

(* PATCH, DELETE and restore write a row by id whatever happened to it     *)
(* since the access check, so each is one step on any row there is.        *)
Rename(f, n) ==
  /\ f \in files
  /\ files' = (files \ {f}) \cup {[f EXCEPT !.name = n]}
  /\ UNCHANGED <<versions, blobs, thumbs, minted, req>>

(* Restoring a photo whose asset was uploaded again fails on the index.   *)
SetTrashed(f, t) ==
  /\ f \in files /\ f.trashed # t
  /\ ~t /\ f.asset # Null => OfAsset(f.asset) = {}
  /\ files' = (files \ {f}) \cup {[f EXCEPT !.trashed = t]}
  /\ UNCHANGED <<versions, blobs, thumbs, minted, req>>

(* Purge accepts a row whether or not it is in the trash. *)
BeginPurge(h, f) ==
  /\ At(h, "idle")
  /\ f \in files
  /\ req' = [req EXCEPT ![h] = [NoRequest EXCEPT
               !.pc = "list versions", !.op = "purge", !.rows = {f}]]
  /\ UNCHANGED <<files, versions, blobs, thumbs, minted>>

Trashed == {f \in files : f.trashed}

BeginEmptyTrash(h) ==
  /\ At(h, "idle")
  /\ Trashed # {}
  /\ req' = [req EXCEPT ![h] = [NoRequest EXCEPT
               !.pc = "list versions", !.op = "purge", !.rows = Trashed]]
  /\ UNCHANGED <<files, versions, blobs, thumbs, minted>>

(* Look the live file up by path; its row goes without its versions'       *)
(* objects and without its thumbnail.                                      *)
BeginHardDelete(h, f) ==
  /\ At(h, "idle")
  /\ f \in files /\ ~f.trashed
  /\ req' = [req EXCEPT ![h] = [NoRequest EXCEPT
               !.pc = "purge rows", !.op = "hard delete", !.rows = {f}]]
  /\ UNCHANGED <<files, versions, blobs, thumbs, minted>>

Ids(rows) == {f.id : f \in rows}

ListVersions(h) ==
  /\ At(h, "list versions")
  /\ req' = [req EXCEPT
       ![h].vers = {v \in versions : v.file \in Ids(req[h].rows)},
       ![h].pc = "purge versions"]
  /\ UNCHANGED <<files, versions, blobs, thumbs, minted>>

PurgeVersions(h) ==
  /\ At(h, "purge versions")
  /\ versions' = {v \in versions : v.file \notin Ids(req[h].rows)}
  /\ Goto(h, "purge rows")
  /\ UNCHANGED <<files, blobs, thumbs, minted>>

PurgeRows(h) ==
  /\ At(h, "purge rows")
  /\ DeleteFiles(Ids(req[h].rows))
  /\ Goto(h, "purge blobs")
  /\ UNCHANGED <<blobs, thumbs, minted>>

(* The objects of the rows and versions as they were read. *)
DropBlobs(h) ==
  /\ At(h, "purge blobs")
  /\ blobs' = blobs \ ({f.key : f \in req[h].rows} \cup {v.key : v \in req[h].vers})
  /\ thumbs' = IF req[h].op = "purge"
               THEN thumbs \ {f.thumb : f \in req[h].rows} ELSE thumbs
  /\ IF req[h].op = "move" THEN Goto(h, "move row") ELSE Finish(h)
  /\ UNCHANGED <<files, versions, minted>>

(* MOVE resolves both paths first: what is at the destination (the source  *)
(* itself, when both are the same) goes as by a hard delete, then the      *)
(* source's row is renamed.                                                *)
BeginMove(h, f, n) ==
  /\ At(h, "idle")
  /\ f \in files /\ ~f.trashed
  /\ \E found \in One(Live(n)) :
       req' = [req EXCEPT ![h] = [NoRequest EXCEPT
                 !.pc = IF found = {} THEN "move row" ELSE "purge rows",
                 !.op = "move", !.name = n, !.key = f.id, !.rows = found]]
  /\ UNCHANGED <<files, versions, blobs, thumbs, minted>>

MoveRow(h) ==
  /\ At(h, "move row") /\ req[h].op = "move"
  /\ files' = {IF f.id = req[h].key THEN [f EXCEPT !.name = req[h].name] ELSE f : f \in files}
  /\ Finish(h)
  /\ UNCHANGED <<versions, blobs, thumbs, minted>>

Purge(ops, h) ==
  \/ "purge" \in ops /\ (BeginEmptyTrash(h) \/ \E f \in files : BeginPurge(h, f))
  \/ "hard delete" \in ops /\ \E f \in files : BeginHardDelete(h, f)
  \/ "move" \in ops /\ \E f \in files, n \in Name : BeginMove(h, f, n)
  \/ ListVersions(h) \/ PurgeVersions(h) \/ PurgeRows(h) \/ DropBlobs(h) \/ MoveRow(h)
=============================================================================
