------------------------------- MODULE Files -------------------------------
(***************************************************************************)
(* Everything that touches a user's files, composed: the write paths, the  *)
(* version handlers, the trash and the antivirus sweep over one store.     *)
(***************************************************************************)
EXTENDS FileWrites, FileHistory, FileTrash, FileScan

CONSTANTS
  Ops,     \* the operations in use besides the write paths
  Crashes, \* requests may be cut short
  Throws   \* a statement of the photo handler may throw into its catch

ASSUME FilesAssumption ==
  /\ Ops \subseteq {"restore", "delete version", "purge", "hard delete",
                    "move", "scan", "trash", "rename"}
  /\ Crashes \in BOOLEAN
  /\ Throws \in BOOLEAN

EditRow ==
  \/ "rename" \in Ops /\ \E f \in files, n \in Name : n # f.name /\ Rename(f, n)
  \/ "trash" \in Ops /\ \E f \in files, t \in BOOLEAN : SetTrashed(f, t)

Next ==
  \/ \E h \in Handler : \/ Write(h)
                        \/ History(Ops, h)
                        \/ Purge(Ops, h)
                        \/ "scan" \in Ops /\ Scan(h)
                        \/ Crashes /\ Interrupt(h)
                        \/ Throws /\ FailPhoto(h)
  \/ EditRow

Spec == Init /\ [][Next]_vars

(* Requests in flight are carried on by the event loop.  A row waiting for *)
(* a verdict is selected time and again: the sweep runs on an interval and *)
(* orders by scanned_at with never-scanned rows first; and clamd, asked    *)
(* again and again about bytes the store has, answers in the end.          *)
Continue(h) == Write(h) \/ History({}, h) \/ Purge({}, h) \/ Scan(h)

Judged(h, k) ==
  ScanBytes(h) /\ req'[h].verdict # "error" /\ \E v \in req[h].vers : v.key = k

FairSpec ==
  /\ Spec
  /\ \A h \in Handler : WF_vars(~ At(h, "idle") /\ Continue(h))
  /\ \A k \in Key :
       /\ SF_vars(\E h \in Handler, v \in ScanCandidates : v.key = k /\ BeginScan(h, v))
       /\ SF_vars(\E h \in Handler : Judged(h, k))

---------------------------------------------------------------------------
(* Bytes are only ever marked clean when clamd found them clean: no        *)
(* verdict reaches bytes other than those it was given for, however the    *)
(* sweep, replacements, archiving, restores and undos interleave, and what *)
(* is too large to be scanned is never taken for clean.  This is what lets *)
(* isScanBlocked gate on the row's status alone.                           *)
ScanSound ==
  /\ \A f \in files : f.scan = "clean" => f.key \notin Infected \cup Oversize
  /\ \A v \in versions : v.scan = "clean" => v.key \notin Infected \cup Oversize

(* k is what the photo f was uploaded as.  When a statement after the      *)
(* INSERT throws, the upload fails and takes its bytes away again, and the *)
(* row is left naming them (photos/index.ts:254-271).                      *)
GivenUp(f, k) == Throws /\ f.asset # Null /\ k = f.id

(* Every row, current or archived, has its bytes in the store, and a       *)
(* thumb_key names a thumbnail that exists, at every moment.  The only     *)
(* objects that may be missing are those of a photo's own upload, and only *)
(* where a statement of that upload may throw.                             *)
NothingDangles ==
  /\ \A f \in files : /\ f.key \in blobs \/ GivenUp(f, f.key)
                      /\ f.thumb \in thumbs \cup {Null} \/ GivenUp(f, f.thumb)
  /\ \A v \in versions :
       v.key \in blobs \/ \E f \in ById(v.file) : GivenUp(f, v.key)

AtRest == \A h \in Handler : At(h, "idle")

(* Between requests the store holds the bytes and thumbnails of the rows   *)
(* and nothing else: whichever way a write ended, accepted or undone step  *)
(* by step, it neither lost what a row needs nor left what no row names.   *)
NoLeakAtRest ==
  AtRest =>
    /\ blobs = {f.key : f \in files} \cup {v.key : v \in versions}
    /\ thumbs = {f.thumb : f \in files} \ {Null}

(* Re-uploading archives the previous live version: behind a row at        *)
(* version n lie versions 1 .. n-1, none of them lost or stored twice.     *)
HistoryComplete ==
  \A f \in files :
    LET past == {v \in versions : v.file = f.id /\ v.version < f.version}
    IN /\ \A n \in 1 .. f.version - 1 : \E v \in past : v.version = n
       /\ \A v \in past : v.key # f.key
       /\ \A v, w \in past : v.key = w.key => v = w

(* Bytes a row has ever named stay behind some row, current or archived,   *)
(* until something deletes them: of two writers that read the same row,    *)
(* one cannot overwrite what the other has just stored.                    *)
Named == {f.key : f \in files} \cup {v.key : v \in versions}

NothingOverwritten == [][Named \subseteq Named']_vars

(* No archived version sits at or above the current number, except the one *)
(* a request has just archived and is about to overwrite.  Such a version  *)
(* blocks every later write to the file on UNIQUE (file_id, version).      *)
Replacing(f) ==
  \E h \in Handler : /\ req[h].pc \in {"update", "promote"}
                     /\ \E g \in req[h].rows : g.id = f.id

NoBlockedFile ==
  \A f \in files, v \in versions :
    v.file = f.id => \/ v.version < f.version
                     \/ v.version = f.version /\ Replacing(f)

(* An undo gives up its own write only: it never changes or deletes a row  *)
(* that a later writer owns by now.                                        *)
UndoesOwnWrite ==
  [][\A h \in Handler :
       req[h].pc = "undo row" /\ req'[h].pc # "undo row" =>
         \A f \in files : f \notin files' => f.key = req[h].key]_vars

(* Every object waiting for a verdict, current or archived, gets one or    *)
(* goes away: nothing stays blocked because the sweep overlooked it.  What *)
(* is over CLAMD_MAX_BYTES is the exception the code means to make: it     *)
(* stays unavailable while scanning is on.                                 *)
Waiting(k) ==
  \E f \in files : /\ ~f.trashed
                   /\ \E b \in {Archived(f)} \cup {v \in versions : v.file = f.id} :
                        b.key = k /\ b.scan \in Unscanned

EventuallyJudged == \A k \in Key \ Oversize : Waiting(k) ~> ~Waiting(k)
=============================================================================
