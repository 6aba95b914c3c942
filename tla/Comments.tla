------------------------------ MODULE Comments ------------------------------
(***************************************************************************)
(* Comments on files and folders (comments/index.ts) and who is told of    *)
(* them (notifications/emit.ts).                                           *)
(*                                                                         *)
(* Every handler reads first - the access to the resource, the parent, the *)
(* row - and writes in a statement of its own; a new comment is announced  *)
(* after it is there, to one person after the other, from the list of the  *)
(* commenters read last.  Access comes and goes at any time (FolderTree):  *)
(* here anybody may turn out to have it, and the owner always does.        *)
(***************************************************************************)
EXTENDS Naturals

CONSTANTS
  Person,    \* users
  Resource,  \* files and folders, none purged
  Remarks,   \* comments there can ever be
  Posting,   \* requests that can be under way at once
  Owner,     \* the one of them who owns the resources
  Null

VARIABLES
  comment,   \* the comments, by id, in the order they were made
  told,      \* notifications: <<person, comment>>
  announced, \* comments of which everybody was told who was to be
  posting    \* the local variables of each request

vars == <<comment, told, announced, posting>>

Remark == 1..Remarks
Comment == [on : Resource, by : Person, parent : Remark \cup {0}, text : {"new", "edited", "deleted"}]
Idle == [at |-> "idle", by |-> Null, on |-> Null, id |-> 0, todo |-> {}, missed |-> FALSE]

TypeOK ==
  /\ comment \in [Remark -> Comment \cup {Null}]
  /\ told \in SUBSET (Person \X Remark)
  /\ announced \in SUBSET Remark
  /\ posting \in [Posting ->
       [at : {"idle", "insert", "participants", "emit", "update", "delete"},
        by : Person \cup {Null}, on : Resource \cup {Null}, id : Remark \cup {0},
        todo : SUBSET Person, missed : BOOLEAN]]

Init ==
  /\ comment = [c \in Remark |-> Null]
  /\ told = {} /\ announced = {}
  /\ posting = [r \in Posting |-> Idle]

----------------------------------------------------------------------------
There(c) == comment[c] # Null
Stands(c) == There(c) /\ comment[c].text # "deleted"
On(c, x) == There(c) /\ comment[c].on = x
At(r, at) == posting[r].at = at
Goto(r, p, at, id, x) ==
  posting' = [posting EXCEPT ![r] = [Idle EXCEPT !.at = at, !.by = p, !.id = id, !.on = x]]
Answer(r) == posting' = [posting EXCEPT ![r] = Idle]

(* POST /files/:id/comments and /folders/:id/comments                       *)
ParentOn(parent, x) == parent # 0 => On(parent, x)

AskCreate(r, p, x, parent) ==
  /\ At(r, "idle")
  /\ ParentOn(parent, x)
  /\ Goto(r, p, "insert", parent, x)
  /\ UNCHANGED <<comment, told, announced>>

InsertComment(r, c) ==
  /\ At(r, "insert")
  /\ ~There(c) /\ \A d \in 1..(c - 1) : There(d)
  /\ comment' = [comment EXCEPT ![c] =
       [on |-> posting[r].on, by |-> posting[r].by, parent |-> posting[r].id,
        text |-> "new"]]
  /\ posting' = [posting EXCEPT ![r].at = "participants", ![r].id = c]
  /\ UNCHANGED <<told, announced>>

(* Mutant: the commenters of every resource are told.                       *)
AllParticipants(x) == {comment[d].by : d \in {d \in Remark : Stands(d)}}

(* participantsFor: who has a comment there that is not deleted             *)
ParticipantsFor(x) == {comment[d].by : d \in {d \in Remark : On(d, x) /\ Stands(d)}}

Recipients(r) == ({Owner} \cup ParticipantsFor(posting[r].on)) \ {posting[r].by}

ReadParticipants(r) ==
  /\ At(r, "participants")
  /\ posting' = [posting EXCEPT ![r] =
       [Idle EXCEPT !.at = "emit", !.id = posting[r].id, !.todo = Recipients(r)]]
  /\ UNCHANGED <<comment, told, announced>>

(* emitMany: one insert after the other; one that fails is logged.          *)
Emit(r, p) ==
  /\ At(r, "emit") /\ p \in posting[r].todo
  /\ \/ told' = told \cup {<<p, posting[r].id>>} /\ posting' = [posting EXCEPT ![r].todo = @ \ {p}]
     \/ UNCHANGED told /\ posting' = [posting EXCEPT ![r].todo = @ \ {p}, ![r].missed = TRUE]
  /\ UNCHANGED <<comment, announced>>

Created(r) ==
  /\ At(r, "emit") /\ posting[r].todo = {}
  /\ announced' = IF posting[r].missed THEN announced ELSE announced \cup {posting[r].id}
  /\ Answer(r)
  /\ UNCHANGED <<comment, told>>

(* PATCH /comments/:id: the author, if they still see the resource          *)
AskEdit(r, p, c) ==
  /\ At(r, "idle")
  /\ Stands(c)
  /\ comment[c].by = p
  /\ Goto(r, Null, "update", c, Null)
  /\ UNCHANGED <<comment, told, announced>>

(* The UPDATE is by id alone: it may reach a comment deleted meanwhile,     *)
(* whose text nobody is shown.                                              *)
Edit(r) ==
  /\ At(r, "update")
  /\ comment' = [comment EXCEPT ![posting[r].id].text = IF @ = "deleted" THEN @ ELSE "edited"]
  /\ Answer(r)
  /\ UNCHANGED <<told, announced>>

(* DELETE /comments/:id: the author, or the owner of the resource           *)
AskDelete(r, p, c) ==
  /\ At(r, "idle")
  /\ Stands(c)
  /\ p \in {comment[c].by, Owner}
  /\ Goto(r, Null, "delete", c, Null)
  /\ UNCHANGED <<comment, told, announced>>

Delete(r) ==
  /\ At(r, "delete")
  /\ comment' = [comment EXCEPT ![posting[r].id].text = "deleted"]
  /\ Answer(r)
  /\ UNCHANGED <<told, announced>>

(* A statement throws, or the process ends.                                 *)
Interrupt(r) ==
  /\ ~At(r, "idle")
  /\ Answer(r)
  /\ UNCHANGED <<comment, told, announced>>

Next ==
  \E r \in Posting :
    \/ \E p \in Person, x \in Resource, parent \in Remark \cup {0} : AskCreate(r, p, x, parent)
    \/ \E c \in Remark : InsertComment(r, c)
    \/ ReadParticipants(r) \/ Created(r) \/ Edit(r) \/ Delete(r) \/ Interrupt(r)
    \/ \E p \in Person : Emit(r, p)
    \/ \E p \in Person, c \in Remark : AskEdit(r, p, c) \/ AskDelete(r, p, c)

Spec == Init /\ [][Next]_vars

----------------------------------------------------------------------------
(* A discussion stays on its resource, and those who take part in it hear   *)
(* of what is said: only its owner and its commenters are told of a comment *)
(* and never its author, and once a comment was announced without a failed  *)
(* insert, the owner and everybody with a comment before it that still      *)
(* stands have been told, however the requests interleaved                  *)
(* (comments/index.ts:259).                                                 *)
ToldConcerned ==
  /\ \A c \in Remark : There(c) /\ comment[c].parent # 0 => On(comment[c].parent, comment[c].on)
  /\ \A n \in told :
       /\ n[1] # comment[n[2]].by
       /\ n[1] = Owner \/ \E d \in Remark : On(d, comment[n[2]].on) /\ comment[d].by = n[1]
  /\ \A c \in announced :
       \A p \in {Owner} \cup {comment[d].by : d \in {d \in 1..c : On(d, comment[c].on) /\ Stands(d)}} :
         p = comment[c].by \/ <<p, c>> \in told
=============================================================================
