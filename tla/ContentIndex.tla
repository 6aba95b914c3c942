---------------------------- MODULE ContentIndex ----------------------------
(***************************************************************************)
(* The text index of file contents (search/content/indexer.ts).  A worker  *)
(* takes a row whose indexed version is behind, reads the bytes, extracts  *)
(* their text and records it, on the condition that the row still has the  *)
(* version it took.  Writers replace the bytes meanwhile, each under the   *)
(* version after the one it read; FileWrites has their other effects.      *)
(***************************************************************************)
EXTENDS Naturals, FiniteSets

CONSTANTS
  Writer,    \* requests that replace the bytes, each made once
  Key,       \* storage keys
  Scanning,  \* clamd is configured
  Null

VARIABLES
  row,       \* the row of files
  archived,  \* file_versions: the key kept under each version, or Null
  writer,    \* what each writer read and what it does next
  worker,    \* the row the indexer took
  reused     \* history: a version number was given out a second time

vars == <<row, archived, writer, worker, reused>>

Version == 1..Cardinality(Writer) + 1
FileRow == [key : Key, version : Version, scan : {"pending", "clean", "infected"},
            trashed : BOOLEAN, indexed : Version \cup {0}, text : Key \cup {Null}]
WriterState == [at : {"idle", "archive", "update", "check", "done"},
                key : Key \cup {Null}, from : Version \cup {0}, read : FileRow \cup {Null}]
WorkerState == [at : {"idle", "fetch", "record"}, key : Key \cup {Null},
                version : Version \cup {0}, text : Key \cup {Null}]

TypeOK ==
  /\ row \in FileRow
  /\ archived \in [Version -> Key \cup {Null}]
  /\ writer \in [Writer -> WriterState]
  /\ worker \in WorkerState
  /\ reused \in BOOLEAN

Resting == [at |-> "idle", key |-> Null, version |-> 0, text |-> Null]

Init ==
  /\ row \in {[key |-> k, version |-> 1, scan |-> "pending", trashed |-> FALSE,
               indexed |-> 0, text |-> Null] : k \in Key}
  /\ archived = [v \in Version |-> Null]
  /\ writer = [w \in Writer |-> [at |-> "idle", key |-> Null, from |-> 0, read |-> Null]]
  /\ worker = Resting
  /\ reused = FALSE

---------------------------------------------------------------------------
(* The writers.                                                             *)
Fresh(k) ==
  /\ k # row.key
  /\ \A v \in Version : archived[v] # k
  /\ \A w \in Writer : writer[w].key # k

PutBytes(w, k) ==  \* the bytes are put, the row is read
  /\ writer[w].at = "idle" /\ Fresh(k)
  /\ writer' = [writer EXCEPT ![w] = [at |-> "archive", key |-> k, from |-> 0, read |-> row]]
  /\ UNCHANGED <<row, archived, worker, reused>>

RestoreVersion(w, v) ==  \* POST /files/:id/versions/:version/restore
  /\ writer[w].at = "idle" /\ archived[v] # Null /\ v # row.version
  /\ writer' = [writer EXCEPT ![w] =
       [at |-> "archive", key |-> archived[v], from |-> v, read |-> row]]
  /\ UNCHANGED <<row, archived, worker, reused>>

ArchiveCurrent(w) ==  \* unique per file and version: the insert fails for the later one
  /\ writer[w].at = "archive"
  /\ LET r == writer[w].read IN
     IF archived[r.version] = Null
     THEN /\ archived' = [archived EXCEPT ![r.version] = r.key]
          /\ writer' = [writer EXCEPT ![w].at = "update"]
     ELSE /\ writer' = [writer EXCEPT ![w].at = "done"]
          /\ UNCHANGED archived
  /\ UNCHANGED <<row, worker, reused>>

(* A version flagged before it was archived comes back flagged.             *)
NextVersion(w) == writer[w].read.version + 1
NextScan(w) ==
  IF ~Scanning THEN {"clean"} ELSE IF writer[w].from = 0 THEN {"pending"} ELSE {"pending", "infected"}

UpdateRow(w) ==  \* the indexed version and the text are left alone
  /\ writer[w].at = "update" /\ NextVersion(w) \in Version
  /\ \E s \in NextScan(w) :
       row' = [row EXCEPT !.key = writer[w].key, !.version = NextVersion(w), !.scan = s]
  /\ reused' = (reused \/ NextVersion(w) <= row.version)
  /\ archived' = IF writer[w].from = 0 THEN archived ELSE [archived EXCEPT ![writer[w].from] = Null]
  /\ writer' = [writer EXCEPT ![w].at = IF writer[w].from = 0 THEN "check" ELSE "done"]
  /\ UNCHANGED worker

Accept(w) ==
  /\ writer[w].at = "check"
  /\ writer' = [writer EXCEPT ![w].at = "done"]
  /\ UNCHANGED <<row, archived, worker, reused>>

Undo(w) ==  \* over the cap after all: the version it read is put back
  /\ writer[w].at = "check"
  /\ LET r == writer[w].read IN
     /\ row' = [row EXCEPT !.key = r.key, !.version = r.version, !.scan = r.scan]
     /\ archived' = [archived EXCEPT ![r.version] = Null]
  /\ reused' = TRUE
  /\ writer' = [writer EXCEPT ![w].at = "done"]
  /\ UNCHANGED worker

DeleteVersion(v) ==  \* DELETE /files/:id/versions/:version
  /\ v # row.version /\ archived[v] # Null
  /\ archived' = [archived EXCEPT ![v] = Null]
  /\ UNCHANGED <<row, writer, worker, reused>>

Trash ==  \* and restore
  /\ row' = [row EXCEPT !.trashed = ~@]
  /\ UNCHANGED <<archived, writer, worker, reused>>

Scan ==  \* the sweep's verdict on the current bytes
  /\ Scanning /\ row.scan = "pending"
  /\ \E verdict \in {"clean", "infected"} : row' = [row EXCEPT !.scan = verdict]
  /\ UNCHANGED <<archived, writer, worker, reused>>

---------------------------------------------------------------------------
(* The worker: one at a time, guarded by the timer that starts it.          *)
Pending(r) ==
  /\ ~r.trashed
  /\ r.scan # "infected" /\ (Scanning => r.scan = "clean")
  /\ r.indexed < r.version

Claim ==
  /\ worker.at = "idle" /\ Pending(row)
  /\ worker' = [at |-> "fetch", key |-> row.key, version |-> row.version, text |-> Null]
  /\ UNCHANGED <<row, archived, writer, reused>>

Fetch ==  \* the text of the bytes; none when the read or the extraction fails or is skipped
  /\ worker.at = "fetch"
  /\ \E t \in {worker.key, Null} : worker' = [worker EXCEPT !.at = "record", !.text = t]
  /\ UNCHANGED <<row, archived, writer, reused>>

(* Mutant: whatever version the row has meanwhile is marked as indexed.     *)
RecordedAnyVersion(r, j) == [r EXCEPT !.text = j.text, !.indexed = r.version]

Recorded(r, j) ==
  IF r.version = j.version THEN [r EXCEPT !.text = j.text, !.indexed = j.version] ELSE r

RecordExtraction ==
  /\ worker.at = "record"
  /\ row' = Recorded(row, worker)
  /\ worker' = Resting
  /\ UNCHANGED <<archived, writer, reused>>

Next ==
  \/ \E w \in Writer :
       \/ \E k \in Key : PutBytes(w, k)
       \/ \E v \in Version : RestoreVersion(w, v)
       \/ ArchiveCurrent(w) \/ UpdateRow(w) \/ Accept(w) \/ Undo(w)
  \/ \E v \in Version : DeleteVersion(v)
  \/ Trash \/ Scan
  \/ Claim \/ Fetch \/ RecordExtraction

Spec == Init /\ [][Next]_vars

---------------------------------------------------------------------------
(* As long as the row's version has only grown, the text recorded for its   *)
(* current version is the text of its current bytes: a writer that replaced *)
(* them while the worker read has moved the version on                      *)
(* (search/content/indexer.ts:80).                                          *)
IndexedBytes == ~reused /\ row.indexed = row.version => row.text \in {row.key, Null}
=============================================================================
