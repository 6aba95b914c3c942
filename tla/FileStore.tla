----------------------------- MODULE FileStore -----------------------------
(***************************************************************************)
(* The state every file handler shares: the tables `files` and             *)
(* `file_versions`, and the object store with its blobs and thumbnails.    *)
(*                                                                         *)
(* A handler is an async function; every awaited SQL statement or object   *)
(* store call is one atomic step, and the steps of different handlers      *)
(* interleave.  What a handler read earlier it keeps in req[h], however    *)
(* stale it has become.                                                    *)
(*                                                                         *)
(* One owner's files are modelled.  A Name stands for a (folder, file      *)
(* name) pair, and for the asset a photo backup gives that name to; the    *)
(* bytes of an object are identified with the storage key they were put    *)
(* under (makeKey draws a random one), and a row's serial id with the key  *)
(* of the write that inserted it.                                          *)
(***************************************************************************)
EXTENDS Naturals, FiniteSets

CONSTANTS
  Handler,    \* requests that can be in flight at the same time
  Key,        \* storage keys makeKey can draw: bounds the number of writes
  Name,       \* (folder, file name) pairs
  Infected,   \* the keys whose bytes clamd flags
  Oversize,   \* the keys whose bytes are over CLAMD_MAX_BYTES
  Thumbable,  \* the keys whose bytes yield a thumbnail
  Scanning,   \* CLAMD_HOST is set
  MaxVersion, \* bound on a row's version, for version restores
  Null        \* SQL NULL

ASSUME FileStoreAssumption ==
  /\ Infected \subseteq Key
  /\ Oversize \subseteq Key
  /\ Thumbable \subseteq Key
  /\ Scanning \in BOOLEAN
  /\ MaxVersion \in Nat \ {0}

VARIABLES
  files,     \* the rows of files
  versions,  \* the rows of file_versions
  blobs,     \* keys with an object in the store
  thumbs,    \* keys whose thumbnail object (thumbKeyFor) is in the store
  minted,    \* keys makeKey has returned
  req        \* what each handler is doing, and what it has read

vars == <<files, versions, blobs, thumbs, minted, req>>

---------------------------------------------------------------------------
(* Rows and handlers *)

ScanStatus == {"pending", "clean", "infected", "error", "skipped"}

FileRow == [id : Key, name : Name, key : Key, thumb : Key \cup {Null},
            version : Nat \ {0}, scan : ScanStatus, trashed : BOOLEAN,
            asset : Name \cup {Null}]

VersionRow == [file : Key, version : Nat \ {0}, key : Key, scan : ScanStatus]

WritePath == {"post", "finalize", "webdav", "s3", "mcp", "resize", "copy", "photo"}

Operation == WritePath \cup {"restore", "delete version", "purge",
                             "hard delete", "move", "scan"}

ASSUME NullAssumption == Null \notin Key \cup Name \cup Operation

ProgramPoint ==
  {"idle",
   "put", "read", "archive", "update", "insert", "drop early", "check",
   "drop late", "undo version", "undo row", "undo blob",
   "find version", "regenerate", "promote", "drop target", "drop thumb",
   "delete version row", "drop version blob",
   "list versions", "purge versions", "purge rows", "purge blobs", "move row",
   "scan bytes", "verdict on file", "verdict on version"}

Request == [pc : ProgramPoint, op : Operation \cup {Null},
            name : Name \cup {Null}, key : Key \cup {Null},
            thumb : Key \cup {Null}, rows : SUBSET FileRow,
            vers : SUBSET VersionRow, verdict : ScanStatus]

NoRequest == [pc |-> "idle", op |-> Null, name |-> Null, key |-> Null,
              thumb |-> Null, rows |-> {}, vers |-> {}, verdict |-> "pending"]

TypeOK ==
  /\ files \subseteq FileRow
  /\ versions \subseteq VersionRow
  /\ blobs \subseteq Key
  /\ thumbs \subseteq Key
  /\ minted \subseteq Key
  /\ req \in [Handler -> Request]

Init ==
  /\ files = {}
  /\ versions = {}
  /\ blobs = {}
  /\ thumbs = {}
  /\ minted = {}
  /\ req = [h \in Handler |-> NoRequest]

---------------------------------------------------------------------------
(* Queries and statements the handlers share *)

Live(n) == {f \in files : f.name = n /\ ~f.trashed}

ById(id) == {f \in files : f.id = id}

(* The live row the unique index on (user_id, photo_asset_id) holds. *)
OfAsset(a) == {f \in files : f.asset = a /\ ~f.trashed}

(* db.one: some row of the result, or none when there is none. *)
One(rows) == IF rows = {} THEN {{}} ELSE {{f} : f \in rows}

(* The verdict fresh bytes start with. *)
FreshScan == IF Scanning THEN "pending" ELSE "skipped"

(* Mutant: a version is given the number of the row that replaces it. *)
ArchivedAhead(f) ==
  [file |-> f.id, version |-> f.version + 1, key |-> f.key, scan |-> f.scan]

(* The file_versions row that archives the bytes a files row now holds. *)
Archived(f) ==
  [file |-> f.id, version |-> f.version, key |-> f.key, scan |-> f.scan]

(* Mutant: no UNIQUE (file_id, version) index. *)
CanInsertTwice(v) == \E f \in files : f.id = v.file

(* INSERT INTO file_versions goes through: UNIQUE (file_id, version) and   *)
(* the foreign key on files hold.                                          *)
CanInsert(v) ==
  /\ \E f \in files : f.id = v.file
  /\ ~ \E w \in versions : w.file = v.file /\ w.version = v.version

(* Mutant: no ON DELETE CASCADE on file_versions. *)
DeleteFilesOnly(ids) ==
  /\ files' = {f \in files : f.id \notin ids}
  /\ versions' = versions

(* Removing rows of files takes their versions along: ON DELETE CASCADE.   *)
DeleteFiles(ids) ==
  /\ files' = {f \in files : f.id \notin ids}
  /\ versions' = {v \in versions : v.file \notin ids}

At(h, pc) == req[h].pc = pc
Goto(h, pc) == req' = [req EXCEPT ![h].pc = pc]
Finish(h) == req' = [req EXCEPT ![h] = NoRequest]

(* archiveCurrent: the row as the handler read it becomes a version; when  *)
(* the insert violates a constraint it throws and the request ends with    *)
(* what it did so far left in place.                                       *)
ArchiveCurrent(h, next) ==
  /\ At(h, "archive")
  /\ \E f \in req[h].rows :
       \/ /\ CanInsert(Archived(f))
          /\ versions' = versions \cup {Archived(f)}
          /\ Goto(h, next)
       \/ /\ ~ CanInsert(Archived(f))
          /\ versions' = versions
          /\ Finish(h)
  /\ UNCHANGED <<files, blobs, thumbs, minted>>

(* The server stops, or a call of a handler that catches nothing throws:   *)
(* the request is gone, and nothing undoes the statements it has already   *)
(* executed.                                                               *)
Interrupt(h) ==
  /\ ~ At(h, "idle")
  /\ Finish(h)
  /\ UNCHANGED <<files, versions, blobs, thumbs, minted>>
=============================================================================
