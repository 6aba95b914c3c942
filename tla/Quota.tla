------------------------------- MODULE Quota -------------------------------
(***************************************************************************)
(* The arithmetic of the storage caps  (usage/index.ts, uploads/quota.ts). *)
(* Every write path reads usage, writes its row, reads usage again and     *)
(* undoes its own write when a cap is exceeded; nothing is locked, so the  *)
(* reads and writes of concurrent uploads interleave.                      *)
(*                                                                         *)
(* Usage is what SUM(size) yields over the rows there are: the bytes of    *)
(* `files` rows plus the bytes of `file_versions` rows.  An upload either  *)
(* inserts a row or replaces one, archiving the bytes it held.  Trashed    *)
(* rows count like others.  Requests on one and the same file do not       *)
(* overlap here (FileWrites is about those), and caps do not change.       *)
(*                                                                         *)
(* Four of the write paths remove the version before they put the row back *)
(* when they undo a replacement, so that for one statement the replaced    *)
(* bytes are in neither table.  What a check made meanwhile lets in is     *)
(* remembered in "slipped", which no action reads.                         *)
(***************************************************************************)
EXTENDS Naturals, FiniteSets

CONSTANTS
  Upload, User, Team, Owner, TeamOf, Byte, Bytes, UserCap, TeamCap,
  RowFirst,  \* uploads whose undo puts the row back before it removes the
             \* version: the mcp tool and the actions; the others, POST
             \* /files, finalize, WebDAV and S3, remove the version first
  None

ASSUME QuotaAssumption ==
  /\ Owner \in [Upload -> User]
  /\ TeamOf \in [User -> Team]
  /\ IsFiniteSet(Byte)
  /\ Bytes \in [Upload -> SUBSET Byte]
  /\ \A u, v \in Upload : u # v => Bytes[u] \cap Bytes[v] = {}
  /\ UserCap \in [User -> Nat]
  /\ TeamCap \in [Team -> Nat]
  /\ RowFirst \subseteq Upload
  /\ None \notin Upload

VARIABLES
  pc,        \* how far each upload's request has come
  target,    \* the upload whose bytes it replaces, or None
  current,   \* uploads whose bytes a files row holds
  archived,  \* uploads whose bytes a file_versions row holds
  slipped    \* history: uploads whose check counted too little

vars == <<pc, target, current, archived, slipped>>

Point == {"idle", "pre team", "write", "overwrite", "user check", "team check",
          "undo row", "undo version", "stored", "rejected", "cut off", "gone",
          "lost"}

InFlight == {"pre team", "write", "overwrite", "user check", "team check",
             "undo row", "undo version"}

TypeOK ==
  /\ pc \in [Upload -> Point]
  /\ target \in [Upload -> Upload \cup {None}]
  /\ current \subseteq Upload
  /\ archived \subseteq Upload
  /\ slipped \subseteq Upload

Init ==
  /\ pc = [u \in Upload |-> "idle"]
  /\ target = [u \in Upload |-> None]
  /\ current = {}
  /\ archived = {}
  /\ slipped = {}

---------------------------------------------------------------------------
(* computeUsage and computeTeamUsage *)

BytesIn(S) == UNION {Bytes[u] : u \in S}

OfUser(S, o) == {u \in S : Owner[u] = o}
OfTeam(S, t) == {u \in S : TeamOf[Owner[u]] = t}

(* Mutant: archived versions are not counted. *)
CurrentUsage(o) == Cardinality(BytesIn(OfUser(current, o)))

UserUsage(o) ==
  Cardinality(BytesIn(OfUser(current, o))) + Cardinality(BytesIn(OfUser(archived, o)))

TeamUsage(t) ==
  Cardinality(BytesIn(OfTeam(current, t))) + Cardinality(BytesIn(OfTeam(archived, t)))

Size(u) == Cardinality(Bytes[u])

(* The version is removed and the row not yet put back: the replaced bytes *)
(* are in neither table.                                                   *)
InGap(w) == pc[w] = "undo row" /\ w \notin RowFirst /\ target[w] # None
Hidden == {target[w] : w \in {x \in Upload : InGap(x)}}

(* A check that ran while some of what it should have counted was hidden.  *)
Slips(u, hidden) == slipped' = IF hidden = {} THEN slipped ELSE slipped \cup {u}

---------------------------------------------------------------------------
Step(u, from, to) == pc[u] = from /\ pc' = [pc EXCEPT ![u] = to]

(* checkQuota before the write: the user's cap, then the team's. *)
PreCheckUser(u) ==
  /\ Step(u, "idle", IF UserCap[Owner[u]] > 0 /\ UserUsage(Owner[u]) + Size(u) > UserCap[Owner[u]]
                     THEN "rejected" ELSE "pre team")
  /\ UNCHANGED <<target, current, archived, slipped>>

PreCheckTeam(u) ==
  LET t == TeamOf[Owner[u]] IN
  /\ Step(u, "pre team", IF TeamCap[t] > 0 /\ TeamUsage(t) + Size(u) > TeamCap[t]
                         THEN "rejected" ELSE "write")
  /\ UNCHANGED <<target, current, archived, slipped>>

Insert(u) ==
  /\ Step(u, "write", "user check")
  /\ current' = current \cup {u}
  /\ UNCHANGED <<target, archived, slipped>>

(* The file replaced is one no other request is busy with. *)
Free(r) == \A w \in Upload : pc[w] \in InFlight => target[w] # r

(* Mutant: the replaced bytes are not archived. *)
ArchiveNothing(u, r) ==
  /\ Step(u, "write", "overwrite")
  /\ pc[r] = "stored" /\ r \in current \ archived
  /\ Owner[r] = Owner[u] /\ Free(r)
  /\ target' = [target EXCEPT ![u] = r]
  /\ UNCHANGED <<current, archived, slipped>>

(* archiveCurrent: the bytes of the row to be replaced become a version.   *)
Archive(u, r) ==
  /\ Step(u, "write", "overwrite")
  /\ pc[r] = "stored" /\ r \in current \ archived
  /\ Owner[r] = Owner[u] /\ Free(r)
  /\ target' = [target EXCEPT ![u] = r]
  /\ archived' = archived \cup {r}
  /\ UNCHANGED <<current, slipped>>

Overwrite(u) ==
  /\ Step(u, "overwrite", "user check")
  /\ current' = (current \ {target[u]}) \cup {u}
  /\ UNCHANGED <<target, archived, slipped>>

(* Mutant: the version goes first even where the row must. *)
UndoVersionFirst(u) == IF target[u] = None THEN "undo row" ELSE "undo version"

(* Where the undo of a rejected write starts. *)
UndoStart(u) == IF target[u] = None \/ u \in RowFirst THEN "undo row" ELSE "undo version"

(* Mutant: the limit itself is taken for an overflow's start, one byte off.*)
UserOverByOne(o) == UserCap[o] > 0 /\ UserUsage(o) > UserCap[o] + 1

UserOver(o) == UserCap[o] > 0 /\ UserUsage(o) > UserCap[o]

(* Mutant: no second read for the team, as before quotaAfterWrite. *)
TeamNeverOver(t) == FALSE

TeamOver(t) == TeamCap[t] > 0 /\ TeamUsage(t) > TeamCap[t]

(* quotaAfterWrite: the same caps against what is in the tables now. *)
CheckUser(u) ==
  /\ Step(u, "user check", IF UserOver(Owner[u]) THEN UndoStart(u) ELSE "team check")
  /\ Slips(u, OfUser(Hidden, Owner[u]))
  /\ UNCHANGED <<target, current, archived>>

CheckTeam(u) ==
  /\ Step(u, "team check", IF TeamOver(TeamOf[Owner[u]]) THEN UndoStart(u) ELSE "stored")
  /\ Slips(u, OfTeam(Hidden, TeamOf[Owner[u]]))
  /\ UNCHANGED <<target, current, archived>>

(* The inserted row goes, or the replaced bytes come back into theirs. *)
UndoRow(u) ==
  /\ Step(u, "undo row", IF target[u] # None /\ u \in RowFirst
                         THEN "undo version" ELSE "rejected")
  /\ current' = (current \ {u}) \cup ({target[u]} \ {None})
  /\ UNCHANGED <<target, archived, slipped>>

UndoVersion(u) ==
  /\ Step(u, "undo version", IF u \in RowFirst THEN "rejected" ELSE "undo row")
  /\ archived' = archived \ {target[u]}
  /\ UNCHANGED <<target, current, slipped>>

(* The request dies; its rows stay as they are.  When the replaced bytes   *)
(* are hidden just then, no row will ever name them again.                 *)
CutOff(u) ==
  /\ pc[u] \in InFlight
  /\ pc' = [w \in Upload |-> IF w = u THEN "cut off"
                             ELSE IF InGap(u) /\ w = target[u] THEN "lost"
                             ELSE pc[w]]
  /\ UNCHANGED <<target, current, archived, slipped>>

(* Purge, version delete: stored bytes leave the tables. *)
Remove(u) ==
  /\ Step(u, "stored", "gone")
  /\ Free(u)
  /\ current' = current \ {u}
  /\ archived' = archived \ {u}
  /\ UNCHANGED <<target, slipped>>

Next ==
  \E u \in Upload :
    \/ PreCheckUser(u) \/ PreCheckTeam(u)
    \/ Insert(u) \/ (\E r \in Upload : Archive(u, r)) \/ Overwrite(u)
    \/ CheckUser(u) \/ CheckTeam(u)
    \/ UndoRow(u) \/ UndoVersion(u)
    \/ CutOff(u) \/ Remove(u)

Spec == Init /\ [][Next]_vars

---------------------------------------------------------------------------
Stored == {u \in Upload : pc[u] = "stored"}

(* However many uploads race through the two checks, the bytes answered    *)
(* with 201, and neither removed nor lost since, never exceed the owner's  *)
(* cap: "rolled back if the post-write usage check exceeds either cap"     *)
(* (docs/CONFIGURATION.md:210).                                            *)
UserCapKept ==
  \A o \in User : UserCap[o] > 0 =>
    Cardinality(BytesIn(OfUser(Stored, o))) <= UserCap[o]

(* What of it holds whichever way writes are undone: the cap is exceeded   *)
(* by no more than the uploads that were checked while an undo of the same *)
(* owner, or team, stood between its two statements.                       *)
Vetted == Stored \ slipped

FitsUserCap ==
  \A o \in User : UserCap[o] > 0 =>
    Cardinality(BytesIn(OfUser(Vetted, o))) <= UserCap[o]

(* Likewise the cap of the owner's team, over every member's bytes.        *)
FitsTeamCap ==
  \A t \in Team : TeamCap[t] > 0 =>
    Cardinality(BytesIn(OfTeam(Vetted, t))) <= TeamCap[t]

(* No replacement or undo makes stored bytes disappear from the tables, but *)
(* for the one statement between the removal of a version and the return   *)
(* of its bytes to the row.                                                *)
StoredIsCounted == Stored \subseteq current \cup archived \cup Hidden

Ledger == INSTANCE StorageLedger WITH held <- Vetted

(* But for what slips in, the tables with their unlocked reads behave like *)
(* a ledger that admits an upload only if it fits both caps.               *)
KeepsLedger == Ledger!Spec
=============================================================================
