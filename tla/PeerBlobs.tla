------------------------------ MODULE PeerBlobs ------------------------------
(***************************************************************************)
(* One blob (or one erasure-coded shard) of a federation, as this instance *)
(* sees it (federation/files.ts, placement.ts): the rows that say who has  *)
(* a copy, and the objects this instance stores.  Peers are external: they *)
(* push copies to us, ask us to delete them, and answer a push of ours     *)
(* with anything, or with nothing.  A handler is a sequence of statements  *)
(* and storage calls that may stop anywhere.                               *)
(***************************************************************************)
EXTENDS Naturals, FiniteSets

CONSTANTS
  Local,   \* members of the federation that are users here
  Remote,  \* its other members
  Key,     \* storage keys: makeKey gives every attempt its own
  Job,     \* handlers, each run once
  Null

VARIABLES
  sharded,   \* is the row unique for its shard, or for its shard and peer?
  left,      \* federation_members: the local members that are leaving
  copy,      \* federation_blobs: where a member's copy is; Null: no row
  owner,     \* the owner_pubkey our own row carries
  stored,    \* the objects in the store
  drawn,     \* the keys given out
  listed,    \* is there a files row for the blob, owned by a user here?
  job,       \* the local state of each handler
  condemned  \* history: the objects a deletion asked for by the owner dropped

vars == <<sharded, left, copy, owner, stored, drawn, listed, job, condemned>>

Here == "here"  \* this instance's public key: every local member has it
Away == "away"  \* a row without a local key: the member has the bytes
Holder == {Here} \cup Remote
Point == {"idle", "put", "insert", "caught", "place", "file", "drop", "rows",
          "push", "answered", "moved", "done"}
Work == [at : Point, key : Key \cup {Null}, targets : SUBSET (Local \cup Remote),
         to : Remote \cup {Null}, from : Holder \cup {Null}, by : Holder]

TypeOK ==
  /\ sharded \in BOOLEAN /\ listed \in BOOLEAN
  /\ left \subseteq Local
  /\ copy \in [Holder -> Key \cup {Away, Null}]
  /\ owner \in Holder \cup {Null}
  /\ stored \subseteq drawn /\ drawn \subseteq Key /\ condemned \subseteq Key
  /\ job \in [Job -> Work]

Idle == [at |-> "idle", key |-> Null, targets |-> {}, to |-> Null, from |-> Null,
         by |-> Here]

Init ==
  /\ sharded \in BOOLEAN
  /\ left = {} /\ copy = [p \in Holder |-> Null] /\ owner = Null
  /\ stored = {} /\ drawn = {} /\ condemned = {} /\ listed = FALSE
  /\ job = [j \in Job |-> Idle]

At(j, p) == job[j].at = p
Goto(j, p) == job' = [job EXCEPT ![j].at = p]
Answer(j) == Goto(j, "done")
Holds(p) == copy[p] # Null
Rows == {p \in Holder : Holds(p)}
Kept == UNCHANGED <<sharded, left>>

(* The unique index the insert of a row meets.                              *)
Conflict(p) == IF sharded THEN Rows # {} ELSE Holds(p)

(* storage/index.ts: put under a key of its own.                            *)
Put(k) ==
  /\ k \notin drawn
  /\ drawn' = drawn \cup {k} /\ stored' = stored \cup {k}

InsertRow(p, where, by) ==
  /\ copy' = [copy EXCEPT ![p] = where]
  /\ owner' = IF p = Here THEN by ELSE owner

----------------------------------------------------------------------------
(* A user uploads a file here: selectPlacement takes members that are not   *)
(* leaving and have room, one for a shard, and each gets a copy in turn.    *)
(* Two local members are one instance: the second row conflicts, and the    *)
(* upload fails with the first copy left behind.                            *)
SelectPlacement(j) ==
  /\ \A i \in Job : job[i] = Idle  \* the blob's id is new
  /\ \E t \in SUBSET ((Local \ left) \cup Remote) :
       /\ sharded => Cardinality(t) <= 1
       /\ job' = [job EXCEPT ![j] =
            [Idle EXCEPT !.at = "place", !.targets = t, !.from = Here]]
  /\ UNCHANGED <<copy, owner, stored, drawn, listed, condemned>> /\ Kept

PlaceLocal(j) ==
  /\ At(j, "place")
  /\ \E m \in job[j].targets \cap Local, k \in Key :
       /\ Put(k)
       /\ job' = [job EXCEPT ![j].at = "insert", ![j].key = k,
                             ![j].targets = @ \ {m}]
  /\ UNCHANGED <<copy, owner, listed, condemned>> /\ Kept

PlaceLocalRow(j) ==
  /\ At(j, "insert") /\ job[j].from = Here
  /\ IF Conflict(Here)
     THEN Answer(j) /\ UNCHANGED <<copy, owner>>
     ELSE InsertRow(Here, job[j].key, Here) /\ Goto(j, "place")
  /\ UNCHANGED <<stored, drawn, listed, condemned>> /\ Kept

(* pushBlobToPeer: a refusal and an answer that is lost are the same.       *)
PlaceRemote(j) ==
  /\ At(j, "place")
  /\ \E m \in job[j].targets \cap Remote, ok \in BOOLEAN :
       IF ok /\ Conflict(m)
       THEN Answer(j) /\ UNCHANGED <<copy, owner>>
       ELSE /\ job' = [job EXCEPT ![j].targets = @ \ {m}]
            /\ IF ok THEN InsertRow(m, Away, Here) ELSE UNCHANGED <<copy, owner>>
  /\ UNCHANGED <<stored, drawn, listed, condemned>> /\ Kept

(* The files row is made even if no member took a copy.                     *)
ListFile(j) ==
  /\ At(j, "place") /\ job[j].targets = {}
  /\ listed' = TRUE /\ Answer(j)
  /\ UNCHANGED <<copy, owner, stored, drawn, condemned>> /\ Kept

----------------------------------------------------------------------------
(* The owner deletes the file (DELETE of the file, or its purge): the rows  *)
(* are read, the bytes of the local one dropped and the peers asked, with   *)
(* no regard to their answers; then every row goes, and the file's.         *)
ReadRows(j) ==
  /\ At(j, "idle") /\ listed
  /\ job' = [job EXCEPT ![j] =
       [Idle EXCEPT !.at = "drop", !.from = Here,
                    !.key = IF copy[Here] \in Key THEN copy[Here] ELSE Null]]
  /\ UNCHANGED <<copy, owner, stored, drawn, listed, condemned>> /\ Kept

(* A peer asks us to delete our copy: only the one whose blob it is.        *)
PeerDelete(j) ==
  /\ At(j, "idle") /\ copy[Here] \in Key
  /\ \E p \in Remote :
       /\ owner = p
       /\ job' = [job EXCEPT ![j] =
            [Idle EXCEPT !.at = "drop", !.from = p, !.key = copy[Here]]]
  /\ UNCHANGED <<copy, owner, stored, drawn, listed, condemned>> /\ Kept

(* A drop that fails is not looked at: the object may stay.                 *)
DropBytes(j) ==
  /\ At(j, "drop")
  /\ stored' \in {stored, stored \ {job[j].key}}
  /\ condemned' = condemned \cup ({job[j].key} \ {Null})
  /\ Goto(j, "rows")
  /\ UNCHANGED <<copy, owner, drawn, listed>> /\ Kept

DeleteRows(j) ==
  /\ At(j, "rows")
  /\ copy' = IF job[j].from = Here
             THEN [p \in Holder |-> Null] ELSE [copy EXCEPT ![Here] = Null]
  /\ owner' = Null
  /\ listed' = (listed /\ job[j].from # Here)
  /\ Answer(j)
  /\ UNCHANGED <<stored, drawn, condemned>> /\ Kept

----------------------------------------------------------------------------
(* A peer pushes a copy to us, naming the owner.  A copy we have is refused *)
(* before anything is written; so is one no local member has room for.      *)
Receive(j) ==
  /\ At(j, "idle")
  /\ IF Conflict(Here) THEN Answer(j)
     ELSE \E p \in Remote, o \in Holder : job' = [job EXCEPT ![j] =
            [Idle EXCEPT !.at = "put", !.from = p, !.by = o]]
  /\ UNCHANGED <<copy, owner, stored, drawn, listed, condemned>> /\ Kept

ReceivePut(j) ==
  /\ At(j, "put")
  /\ \E k \in Key : Put(k) /\ job' = [job EXCEPT ![j].at = "insert", ![j].key = k]
  /\ UNCHANGED <<copy, owner, listed, condemned>> /\ Kept

(* The insert fails if another placement won, and may be reported as failed *)
(* although it was done: either way the handler looks at what is there.     *)
ReceiveRow(j) ==
  /\ At(j, "insert") /\ job[j].from \in Remote
  /\ IF Conflict(Here)
     THEN Goto(j, "caught") /\ UNCHANGED <<copy, owner>>
     ELSE /\ InsertRow(Here, job[j].key, job[j].by)
          /\ \/ Answer(j)
             \/ Goto(j, "caught")
  /\ UNCHANGED <<stored, drawn, listed, condemned>> /\ Kept

(* Mutant: the attempt's object is dropped whatever row survived. *)
NoSurvivor(j) == FALSE

(* The row that survived is the handler's own.                              *)
Survivor(j) == copy[Here] = job[j].key

CleanUp(j) ==
  /\ At(j, "caught")
  /\ stored' \in (IF Survivor(j) THEN {stored} ELSE {stored, stored \ {job[j].key}})
  /\ Answer(j)
  /\ UNCHANGED <<copy, owner, drawn, listed, condemned>> /\ Kept

----------------------------------------------------------------------------
(* A local user leaves the federation, and the sweep moves the copies this  *)
(* instance has to another member: the row follows only a push that was     *)
(* answered well, and the bytes are dropped after the row.                  *)
Leave(m) ==
  /\ m \in Local \ left
  /\ left' = left \cup {m}
  /\ UNCHANGED <<sharded, copy, owner, stored, drawn, listed, job, condemned>>

DrainRead(j) ==
  /\ At(j, "idle") /\ left # {} /\ copy[Here] \in Key
  /\ \E t \in Remote : job' = [job EXCEPT ![j] =
       [Idle EXCEPT !.at = "push", !.key = copy[Here], !.to = t]]
  /\ UNCHANGED <<copy, owner, stored, drawn, listed, condemned>> /\ Kept

(* The bytes must be there to be pushed.                                    *)
DrainPush(j) ==
  /\ At(j, "push")
  /\ \/ job[j].key \in stored /\ Goto(j, "answered")
     \/ Answer(j)
  /\ UNCHANGED <<copy, owner, stored, drawn, listed, condemned>> /\ Kept

(* The row is found by its id; a copy the member had already is a conflict, *)
(* and the sweep ends.                                                      *)
DrainMove(j) ==
  /\ At(j, "answered")
  /\ IF copy[Here] = job[j].key
     THEN IF Holds(job[j].to)
          THEN Answer(j) /\ UNCHANGED copy
          ELSE /\ copy' = [copy EXCEPT ![Here] = Null, ![job[j].to] = Away]
               /\ Goto(j, "moved")
     ELSE Goto(j, "moved") /\ UNCHANGED copy
  /\ UNCHANGED <<owner, stored, drawn, listed, condemned>> /\ Kept

DrainDrop(j) ==
  /\ At(j, "moved")
  /\ stored' \in {stored, stored \ {job[j].key}}
  /\ Answer(j)
  /\ UNCHANGED <<copy, owner, drawn, listed, condemned>> /\ Kept

(* The process ends: what a handler had done stays.                         *)
Crash(j) ==
  /\ job[j].at \notin {"idle", "done"}
  /\ Answer(j)
  /\ UNCHANGED <<copy, owner, stored, drawn, listed, condemned>> /\ Kept

Next ==
  \/ \E m \in Local : Leave(m)
  \/ \E j \in Job :
       \/ SelectPlacement(j) \/ PlaceLocal(j) \/ PlaceLocalRow(j)
       \/ PlaceRemote(j) \/ ListFile(j)
       \/ ReadRows(j) \/ PeerDelete(j) \/ DropBytes(j) \/ DeleteRows(j)
       \/ Receive(j) \/ ReceivePut(j) \/ ReceiveRow(j) \/ CleanUp(j)
       \/ DrainRead(j) \/ DrainPush(j) \/ DrainMove(j) \/ DrainDrop(j)
       \/ Crash(j)

Spec == Init /\ [][Next]_vars

----------------------------------------------------------------------------
(* A copy this instance's row says it has is in its store, unless the owner *)
(* asked for its deletion: no concurrent placement, insert reported as      *)
(* failed, move to another member or crash takes the bytes from under a row *)
(* (federation/files.ts:878).                                               *)
HeldBytes == copy[Here] \in Key \ condemned => copy[Here] \in stored
=============================================================================
