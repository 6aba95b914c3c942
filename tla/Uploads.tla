------------------------------ MODULE Uploads ------------------------------
(***************************************************************************)
(* Resumable uploads: init, chunk, finalize, abort and the hourly sweep    *)
(* (uploads/index.ts), over the S3 driver (a multipart upload per session) *)
(* and the local one (an object per part).                                 *)
(*                                                                         *)
(* A handler reads the session row once and works with that snapshot; the  *)
(* statements of concurrent requests interleave.  What finalizeUpload does *)
(* to the file tables is the subject of FileWrites; here it either files   *)
(* the object or is refused and drops it.  All sessions count against one  *)
(* owner.                                                                  *)
(***************************************************************************)
EXTENDS Naturals, FiniteSets, FiniteSetsExt, Functions

CONSTANTS
  Session,      \* session ids; each is minted once
  Handler,      \* requests that can be under way at once
  Sweeper,      \* the sweep, which never stacks up on itself
  ChunkSize,
  Pieces,       \* the number of pieces the client's file is cut into ...
  LastPiece,    \* ... and the length of the last one
  Cap,          \* the owner's quota in bytes
  MaxSessions,  \* MAX_SESSIONS_PER_USER
  Null

ASSUME UploadsAssumption ==
  /\ ChunkSize \in Nat \ {0}
  /\ Pieces \in [Session -> Nat \ {0}]
  /\ LastPiece \in [Session -> 1..ChunkSize]
  /\ Cap \in Nat
  /\ MaxSessions \in Nat
  /\ Sweeper \notin Handler
  /\ Null \notin Session \cup Nat

VARIABLES
  driver,    \* STORAGE_DRIVER
  numbered,  \* whether the client names the part of a chunk, ?part=
  minted,  \* session ids in use or used
  row,     \* upload_sessions
  stage,   \* the multipart upload; for local parts, whether anyone has begun
           \* to drop them
  parts,   \* what is staged: part number -> piece of the client's file
  blob,    \* the object at the session's storage key: position -> piece
  filed,   \* how many files or file_versions rows name that key
  req      \* the local variables of each request

vars == <<driver, numbered, minted, row, stage, parts, blob, filed, req>>

Process == Handler \cup {Sweeper}
Piece == UNION {1..Pieces[s] : s \in Session}
PartMap == UNION {[S -> Piece] : S \in SUBSET Piece}

Empty == <<>>
Put(f, i, x) == [j \in DOMAIN f \cup {i} |-> IF j = i THEN x ELSE f[j]]

Total(s) == (Pieces[s] - 1) * ChunkSize + LastPiece[s]
Length(s, c) == IF c = Pieces[s] THEN LastPiece[s] ELSE ChunkSize

Row == [received : Nat, offset : Nat, etags : PartMap, expired : BOOLEAN]

ASSUME NullIsNoValue == Null \notin Row \cup PartMap

Point == {"idle", "reserve", "room", "open", "insert", "store", "save",
          "complete", "fetch", "drop parts", "file", "close", "purge"}

Idle == [at |-> "idle", s |-> Null, row |-> Null, part |-> 0, piece |-> 0,
         reserved |-> 0, got |-> Empty]

Request == [at : Point, s : Session \cup {Null}, row : Row \cup {Null},
            part : Nat, piece : Nat, reserved : Nat, got : PartMap]

TypeOK ==
  /\ driver \in {"s3", "local"}
  /\ numbered \in BOOLEAN
  /\ minted \subseteq Session
  /\ row \in [Session -> Row \cup {Null}]
  /\ \A s \in Session : row[s] # Null =>
       row[s].received <= Pieces[s] /\ row[s].offset <= Total(s)
  /\ stage \in [Session -> {"none", "open", "closed"}]
  /\ parts \in [Session -> PartMap]
  /\ blob \in [Session -> PartMap \cup {Null}]
  /\ filed \in [Session -> Nat]
  /\ req \in [Process -> Request]

Init ==
  /\ driver \in {"s3", "local"}
  /\ numbered \in BOOLEAN
  /\ minted = {}
  /\ row = [s \in Session |-> Null]
  /\ stage = [s \in Session |-> "none"]
  /\ parts = [s \in Session |-> Empty]
  /\ blob = [s \in Session |-> Null]
  /\ filed = [s \in Session |-> 0]
  /\ req = [p \in Process |-> Idle]

---------------------------------------------------------------------------
Is(p, at) == req[p].at = at
Becomes(p, r) == req' = [req EXCEPT ![p] = r]
GoTo(p, at) == Becomes(p, [req[p] EXCEPT !.at = at])
Answer(p) == Becomes(p, Idle)
Begin(p, at, s) == Is(p, "idle") /\ Becomes(p, [Idle EXCEPT !.at = at, !.s = s, !.row = row[s]])

Active(s) == row[s] # Null /\ ~row[s].expired
Open == {s \in Session : Active(s)}

Used == MapThenSumSet(LAMBDA s : filed[s] * Total(s), Session)
Reserved == MapThenSumSet(Total, Open)

---------------------------------------------------------------------------
(* POST /files/upload/init *)

BeginInit(h, s) ==
  /\ s \notin minted
  /\ Cardinality(Open) < MaxSessions
  /\ Begin(h, "reserve", s)
  /\ minted' = minted \cup {s}
  /\ UNCHANGED <<driver, numbered, row, stage, parts, blob, filed>>

ReadReserved(h) ==
  /\ Is(h, "reserve")
  /\ Becomes(h, [req[h] EXCEPT !.at = "room", !.reserved = Reserved])
  /\ UNCHANGED <<driver, numbered, minted, row, stage, parts, blob, filed>>

Fits(bytes) == Cap = 0 \/ bytes <= Cap

CheckRoom(h) ==
  /\ Is(h, "room")
  /\ IF Fits(Used + Total(req[h].s) + req[h].reserved)
     THEN GoTo(h, "open") ELSE Answer(h)
  /\ UNCHANGED <<driver, numbered, minted, row, stage, parts, blob, filed>>

(* Over S3; a local session has nothing to open.                           *)
InitiateMultipart(s) == stage' = [stage EXCEPT ![s] = "open"]

OpenStage(h) ==
  /\ Is(h, "open")
  /\ InitiateMultipart(req[h].s)
  /\ GoTo(h, "insert")
  /\ UNCHANGED <<driver, numbered, minted, row, parts, blob, filed>>

InsertSession(h) ==
  /\ Is(h, "insert")
  /\ row' = [row EXCEPT ![req[h].s] =
       [received |-> 0, offset |-> 0, etags |-> Empty, expired |-> FALSE]]
  /\ Answer(h)
  /\ UNCHANGED <<driver, numbered, minted, stage, parts, blob, filed>>

---------------------------------------------------------------------------
(* POST /files/upload/:id/chunk: piece c of the file, as ?part=n *)

(* Mutant: the number is ignored, so a retry is taken for the next part.   *)
NextPart(s, n) == row[s].received + 1

Part(s, n) == IF n = Null THEN row[s].received + 1 ELSE n

BeginChunk(h, s, c, n) ==
  LET end == row[s].offset + Length(s, c) IN
  /\ Active(s)
  /\ Part(s, n) = row[s].received + 1
  /\ end <= Total(s)
  /\ end < Total(s) => Length(s, c) = ChunkSize
  /\ Is(h, "idle")
  /\ Becomes(h, [Idle EXCEPT !.at = "store", !.s = s, !.row = row[s],
                             !.part = Part(s, n), !.piece = c])
  /\ UNCHANGED <<driver, numbered, minted, row, stage, parts, blob, filed>>

(* Mutant: a part the store refused is counted all the same. *)
StorePartOrNot(h) ==
  /\ Is(h, "store")
  /\ \/ parts' = [parts EXCEPT ![req[h].s] = Put(@, req[h].part, req[h].piece)]
     \/ UNCHANGED parts
  /\ GoTo(h, "save")
  /\ UNCHANGED <<driver, numbered, minted, row, stage, blob, filed>>

(* The S3 store takes no part for an upload that is no longer open.        *)
UploadPart(s, i, c) ==
  /\ driver = "s3" => stage[s] = "open"
  /\ parts' = [parts EXCEPT ![s] = Put(@, i, c)]

StorePart(h) ==
  /\ Is(h, "store")
  /\ UploadPart(req[h].s, req[h].part, req[h].piece)
  /\ GoTo(h, "save")
  /\ UNCHANGED <<driver, numbered, minted, row, stage, blob, filed>>

(* s3_part_etags; S3 answers a part with a hash of what it was sent.       *)
Etags(h) ==
  IF driver = "s3" THEN Put(req[h].row.etags, req[h].part, req[h].piece) ELSE req[h].row.etags

Saved(h, r) ==
  [r EXCEPT !.received = req[h].part,
            !.offset = req[h].row.offset + Length(req[h].s, req[h].piece),
            !.etags = Etags(h)]

SaveCursor(h) ==
  LET s == req[h].s IN
  /\ Is(h, "save")
  /\ row' = [row EXCEPT ![s] = IF @ = Null THEN Null ELSE Saved(h, @)]
  /\ Answer(h)
  /\ UNCHANGED <<driver, numbered, minted, stage, parts, blob, filed>>

---------------------------------------------------------------------------
(* POST /files/upload/:id/finalize *)

(* Mutant: finalize does not ask whether every byte has arrived. *)
CompleteEnough(s) == TRUE

Complete(s) == row[s].offset >= Total(s)

BeginFinalize(h, s) ==
  /\ Active(s) /\ Complete(s)
  /\ Begin(h, IF driver = "s3" THEN "complete" ELSE "fetch", s)
  /\ UNCHANGED <<driver, numbered, minted, row, stage, parts, blob, filed>>

(* Write access to the target folder was revoked since init. *)
BeginRevoked(h, s) ==
  /\ Active(s) /\ Complete(s)
  /\ Begin(h, "purge", s)
  /\ UNCHANGED <<driver, numbered, minted, row, stage, parts, blob, filed>>

Listed(h) == req[h].row.etags

(* Mutant: completing an upload that is no longer open is let pass, the    *)
(* way aborting one is.                                                    *)
CompleteTolerant(h) ==
  LET s == req[h].s IN
  /\ Is(h, "complete")
  /\ blob' = [blob EXCEPT ![s] = Listed(h)]
  /\ parts' = [parts EXCEPT ![s] = Empty]
  /\ stage' = [stage EXCEPT ![s] = "closed"]
  /\ GoTo(h, "file")
  /\ UNCHANGED <<driver, numbered, minted, row, filed>>

CompleteMultipart(h) ==
  LET s == req[h].s IN
  /\ Is(h, "complete")
  /\ stage[s] = "open"
  /\ \A i \in DOMAIN Listed(h) : i \in DOMAIN parts[s] /\ parts[s][i] = Listed(h)[i]
  /\ blob' = [blob EXCEPT ![s] = Listed(h)]
  /\ parts' = [parts EXCEPT ![s] = Empty]
  /\ stage' = [stage EXCEPT ![s] = "closed"]
  /\ GoTo(h, "file")
  /\ UNCHANGED <<driver, numbered, minted, row, filed>>

Fetched(h) == Cardinality(DOMAIN req[h].got)

FetchPart(h) ==
  LET i == Fetched(h) + 1 IN
  /\ Is(h, "fetch") /\ i <= req[h].row.received
  /\ i \in DOMAIN parts[req[h].s]
  /\ Becomes(h, [req[h] EXCEPT !.got = Put(@, i, parts[req[h].s][i])])
  /\ UNCHANGED <<driver, numbered, minted, row, stage, parts, blob, filed>>

PutMerged(h) ==
  /\ Is(h, "fetch") /\ Fetched(h) = req[h].row.received
  /\ blob' = [blob EXCEPT ![req[h].s] = req[h].got]
  /\ GoTo(h, "drop parts")
  /\ UNCHANGED <<driver, numbered, minted, row, stage, parts, filed>>

Beyond(f, n) == Restrict(f, {i \in DOMAIN f : i > n})

DropParts(h) ==
  /\ Is(h, "drop parts")
  /\ parts' = [parts EXCEPT ![req[h].s] = Beyond(@, req[h].row.received)]
  /\ stage' = [stage EXCEPT ![req[h].s] = "closed"]
  /\ GoTo(h, "file")
  /\ UNCHANGED <<driver, numbered, minted, row, blob, filed>>

(* finalizeUpload, within the quota as its re-check sees it ... *)
File(h) ==
  LET s == req[h].s IN
  /\ Is(h, "file")
  /\ Fits(Used + Total(s))
  /\ filed' = [filed EXCEPT ![s] = @ + 1]
  /\ GoTo(h, "close")
  /\ UNCHANGED <<driver, numbered, minted, row, stage, parts, blob>>

(* ... or over it, counting rows of other requests that will be undone.    *)
Refuse(h) ==
  /\ Is(h, "file")
  /\ blob' = [blob EXCEPT ![req[h].s] = Null]
  /\ GoTo(h, "close")
  /\ UNCHANGED <<driver, numbered, minted, row, stage, parts, filed>>

CloseSession(p) ==
  /\ Is(p, "close")
  /\ row' = [row EXCEPT ![req[p].s] = Null]
  /\ Answer(p)
  /\ UNCHANGED <<driver, numbered, minted, stage, parts, blob, filed>>

---------------------------------------------------------------------------
(* DELETE /files/upload/:id and the sweep: purgeSession *)

BeginAbort(h, s) ==
  /\ row[s] # Null
  /\ Begin(h, "purge", s)
  /\ UNCHANGED <<driver, numbered, minted, row, stage, parts, blob, filed>>

BeginSweep(s) ==
  /\ row[s] # Null /\ row[s].expired
  /\ Begin(Sweeper, "purge", s)
  /\ UNCHANGED <<driver, numbered, minted, row, stage, parts, blob, filed>>

(* An upload that is gone already is aborted as well.                      *)
AbortMultipart(s) == parts' = [parts EXCEPT ![s] = Empty]

DropStaged(p) ==
  LET s == req[p].s IN
  /\ Is(p, "purge")
  /\ IF driver = "s3" THEN AbortMultipart(s)
     ELSE parts' = [parts EXCEPT ![s] = Beyond(@, req[p].row.received)]
  /\ stage' = [stage EXCEPT ![s] = "closed"]
  /\ GoTo(p, "close")
  /\ UNCHANGED <<driver, numbered, minted, row, blob, filed>>

(* Mutant: a failed abort or drop is not caught. *)
DropThrows(p) ==
  /\ Is(p, "purge")
  /\ Answer(p)
  /\ UNCHANGED <<driver, numbered, minted, row, stage, parts, blob, filed>>

(* The abort or the drops fail: logged, and the row goes nonetheless. *)
DropFails(p) ==
  /\ Is(p, "purge")
  /\ GoTo(p, "close")
  /\ UNCHANGED <<driver, numbered, minted, row, stage, parts, blob, filed>>

---------------------------------------------------------------------------
(* Its time runs out, SESSION_TTL_MS after init. *)
Expire(s) ==
  /\ Active(s)
  /\ row' = [row EXCEPT ![s].expired = TRUE]
  /\ UNCHANGED <<driver, numbered, minted, stage, parts, blob, filed, req>>

(* A store or database call of a request throws, as one on parts or on a   *)
(* multipart upload that are gone must, or the process ends.               *)
Interrupt(h) ==
  /\ ~Is(h, "idle")
  /\ Answer(h)
  /\ UNCHANGED <<driver, numbered, minted, row, stage, parts, blob, filed>>

Purge(p) == DropStaged(p) \/ DropFails(p) \/ CloseSession(p)

Arrive(h, s) ==
  \/ BeginInit(h, s) \/ BeginFinalize(h, s) \/ BeginRevoked(h, s) \/ BeginAbort(h, s)
  \/ \E c \in 1..Pieces[s] : BeginChunk(h, s, c, IF numbered THEN c ELSE Null)

Continue(h) ==
  \/ ReadReserved(h) \/ CheckRoom(h) \/ OpenStage(h) \/ InsertSession(h)
  \/ StorePart(h) \/ SaveCursor(h)
  \/ CompleteMultipart(h) \/ FetchPart(h) \/ PutMerged(h) \/ DropParts(h)
  \/ File(h) \/ Refuse(h)

Next ==
  \/ \E h \in Handler : Continue(h) \/ Interrupt(h) \/ \E s \in Session : Arrive(h, s)
  \/ \E p \in Process : Purge(p)
  \/ \E s \in Session : BeginSweep(s) \/ Expire(s)

Spec == Init /\ [][Next]_vars

(* Time passes, and the sweep comes round every hour and carries on with   *)
(* the next session whatever a purge throws.                               *)
Fairness ==
  /\ \A s \in Session : WF_vars(Expire(s)) /\ WF_vars(BeginSweep(s))
  /\ WF_vars(Purge(Sweeper))

FairSpec == Spec /\ Fairness

---------------------------------------------------------------------------
Fitted(s, f) == DOMAIN f = 1..Pieces[s] /\ \A i \in DOMAIN f : Length(s, f[i]) = Length(s, i)
InOrder(f) == \A i \in DOMAIN f : f[i] = i

(* Whatever is retried, delayed, aborted or cut short, the object that     *)
(* finalize puts under a session's key is the client's file, every piece   *)
(* once and in order.  A client that does not number its chunks is only    *)
(* owed an object of the length it declared.                               *)
Assembled ==
  \A s \in Session : blob[s] # Null =>
    Fitted(s, blob[s]) /\ (numbered => InOrder(blob[s]))

(* The cursor that /status reports never promises a part that is not       *)
(* staged, even after a late duplicate of a chunk has moved it back, until *)
(* finalize, abort or the sweep has begun to drop the parts.               *)
CursorBacked ==
  \A s \in Session : row[s] # Null /\ stage[s] = "open" =>
    \A i \in 1..row[s].received :
      /\ i \in DOMAIN parts[s]
      /\ Length(s, parts[s][i]) = Length(s, i)
      /\ numbered => parts[s][i] = i

(* Over S3 two racing finalizes of one session file its object once, and a *)
(* refused one never drops the object of the one that was filed.           *)
FiledOnce ==
  driver = "s3" =>
    \A s \in Session : filed[s] = 0 \/ (filed[s] = 1 /\ blob[s] # Null)

(* No session row stays for ever, even if its abort fails every time. *)
EventuallyGone == \A s \in Session : row[s] # Null ~> row[s] = Null

(* What open sessions have been promised fits the quota beside the files.  *)
PromisesFit == Fits(Used + Reserved)
=============================================================================
