---------------------------- MODULE Contributions ----------------------------
(***************************************************************************)
(* What a user contributes to federations: a folder is tied to one with a  *)
(* quota, and the member row promises that many bytes to the peers         *)
(* (federation/folders.ts).  The two rows are written by two statements,   *)
(* after checks made by others; requests interleave and may stop anywhere. *)
(* Everything is one user's.                                               *)
(***************************************************************************)
EXTENDS Naturals

CONSTANTS
  Federation,
  Folder,
  Request,
  MaxQuota,  \* MAX_QUOTA, in units of MIN_QUOTA
  Null

VARIABLES
  tie,       \* folders: the federation columns and deleted_at; Null: no row
  promised,  \* federation_members: contributed_bytes
  deed,      \* the local state of each request
  whole      \* history: requests came one at a time and each was finished,
             \* and no contribution was put in the trash

vars == <<tie, promised, deed, whole>>

Role == {"contribution", "mount", "none"}
Tie == [fed : Federation \cup {Null}, role : Role, quota : 0..MaxQuota, live : BOOLEAN]
Idle == [at |-> "idle", fed |-> Null, folder |-> Null, quota |-> 0]
Deed == [at : {"idle", "existing", "find", "requota", "untie", "tie", "promise", "mount"},
         fed : Federation \cup {Null}, folder : Folder \cup {Null}, quota : 0..MaxQuota]

TypeOK ==
  /\ tie \in [Folder -> Tie \cup {Null}]
  /\ promised \in [Federation -> 0..MaxQuota]
  /\ deed \in [Request -> Deed]
  /\ whole \in BOOLEAN

Free(l) == [fed |-> Null, role |-> "none", quota |-> 0, live |-> l]

(* Each folder is an ordinary one, or an id not used yet.                  *)
Init ==
  /\ tie \in [Folder -> {Free(TRUE), Null}]
  /\ promised = [f \in Federation |-> 0]
  /\ deed = [r \in Request |-> Idle]
  /\ whole = TRUE

At(r, p) == deed[r].at = p
Goto(r, p) == deed' = [deed EXCEPT ![r].at = p]
Answer(r) == deed' = [deed EXCEPT ![r] = Idle]
Quiet == \A r \in Request : At(r, "idle")

Live(d) == tie[d] # Null /\ tie[d].live
Tied(role, f) == {d \in Folder : Live(d) /\ tie[d].role = role /\ tie[d].fed = f}

Begin(r, p, f, d, q) ==
  /\ At(r, "idle")
  /\ deed' = [deed EXCEPT ![r] = [at |-> p, fed |-> f, folder |-> d, quota |-> q]]
  /\ whole' = (whole /\ Quiet)
  /\ UNCHANGED <<tie, promised>>

----------------------------------------------------------------------------
(* POST .../contribute: the folder is free or this federation's already ... *)
AskContribute(r, f, d, q) ==
  /\ Live(d)
  /\ tie[d].fed \in {Null, f}
  /\ Begin(r, "existing", f, d, q)

(* ... and no other folder is the contribution.                            *)
CheckExisting(r) ==
  /\ At(r, "existing")
  /\ IF Tied("contribution", deed[r].fed) \subseteq {deed[r].folder}
     THEN Goto(r, "tie") ELSE Answer(r)
  /\ UNCHANGED <<tie, promised, whole>>

(* Mutant: there is no unique index. *)
NoIndex(d, f) == FALSE

(* idx_folders_one_contribution_per_user_fed *)
Taken(d, f) == Tied("contribution", f) \ {d} # {}

TieFolder(r) ==
  LET d == deed[r].folder f == deed[r].fed IN
  /\ At(r, "tie")
  /\ IF Live(d) /\ Taken(d, f)
     THEN Answer(r) /\ UNCHANGED tie
     ELSE /\ tie' = [tie EXCEPT ![d] = [fed |-> f, role |-> "contribution",
                                        quota |-> deed[r].quota, live |-> tie[d].live]]
          /\ Goto(r, "promise")
  /\ UNCHANGED <<promised, whole>>

(* Mutant: a release leaves the member's promise. *)
PromiseSome(r) ==
  /\ At(r, "promise")
  /\ promised' = IF deed[r].quota = 0 THEN promised
                 ELSE [promised EXCEPT ![deed[r].fed] = deed[r].quota]
  /\ Answer(r)
  /\ UNCHANGED <<tie, whole>>

(* The update of the member row, with the quota or, for a release, none.   *)
Promise(r) ==
  /\ At(r, "promise")
  /\ promised' = [promised EXCEPT ![deed[r].fed] = deed[r].quota]
  /\ Answer(r)
  /\ UNCHANGED <<tie, whole>>

(* PATCH and DELETE .../contribute, unless the member row says that more   *)
(* is in use than would be left.  What is in use is left open: these may   *)
(* be refused at any time.                                                 *)
AskResize(r, f, d, q) == Begin(r, "find", f, d, q)
AskRelease(r, f, d) == Begin(r, "find", f, d, 0)

FindContribution(r) ==
  /\ At(r, "find")
  /\ IF deed[r].folder \in Tied("contribution", deed[r].fed)
     THEN Goto(r, IF deed[r].quota = 0 THEN "untie" ELSE "requota") ELSE Answer(r)
  /\ UNCHANGED <<tie, promised, whole>>

(* The folder is found by its id, whatever it is tied to by now.           *)
Requota(r) ==
  /\ At(r, "requota")
  /\ tie' = [tie EXCEPT ![deed[r].folder].quota = deed[r].quota]
  /\ Goto(r, "promise")
  /\ UNCHANGED <<promised, whole>>

Untie(r) ==
  /\ At(r, "untie")
  /\ tie' = [tie EXCEPT ![deed[r].folder] = Free(tie[deed[r].folder].live)]
  /\ Goto(r, "promise")
  /\ UNCHANGED <<promised, whole>>

----------------------------------------------------------------------------
(* POST .../folders/mount: the mount there is, or else a new folder.       *)
AskMount(r, f) ==
  /\ Tied("mount", f) = {}
  /\ Begin(r, "mount", f, Null, 0)

InsertMount(r) ==
  /\ At(r, "mount")
  /\ \E d \in Folder :
       /\ tie[d] = Null
       /\ tie' = [tie EXCEPT ![d] = [fed |-> deed[r].fed, role |-> "mount",
                                     quota |-> 0, live |-> TRUE]]
  /\ Answer(r)
  /\ UNCHANGED <<promised, whole>>

----------------------------------------------------------------------------
(* The folder is trashed, which the member row does not hear of, or comes  *)
(* back, if the index lets it.                                             *)
Trash(d) ==
  /\ Live(d)
  /\ tie' = [tie EXCEPT ![d].live = FALSE]
  /\ whole' = (whole /\ Quiet /\ tie[d].role # "contribution")
  /\ UNCHANGED <<promised, deed>>

RestoreFolder(d) ==
  /\ tie[d] # Null /\ ~tie[d].live
  /\ tie[d].role = "contribution" => ~Taken(d, tie[d].fed)
  /\ tie' = [tie EXCEPT ![d].live = TRUE]
  /\ UNCHANGED <<promised, deed, whole>>

Interrupt(r) ==
  /\ ~At(r, "idle")
  /\ Answer(r)
  /\ whole' = FALSE
  /\ UNCHANGED <<tie, promised>>

Next ==
  \/ \E r \in Request :
       \/ \E f \in Federation, d \in Folder :
            \/ \E q \in 1..MaxQuota : AskContribute(r, f, d, q) \/ AskResize(r, f, d, q)
            \/ AskRelease(r, f, d)
       \/ \E f \in Federation : AskMount(r, f)
       \/ CheckExisting(r) \/ FindContribution(r) \/ TieFolder(r)
       \/ Requota(r) \/ Untie(r) \/ Promise(r)
       \/ InsertMount(r) \/ Interrupt(r)
  \/ \E d \in Folder : Trash(d) \/ RestoreFolder(d)

Spec == Init /\ [][Next]_vars

----------------------------------------------------------------------------
QuotaOf(f) == {tie[d].quota : d \in Tied("contribution", f)}

(* A federation is never contributed two folders, whatever requests race   *)
(* and whatever is restored; and as long as requests come one at a time,   *)
(* the member row promises what the folder is tied with, to resizes,       *)
(* repeated contributions and releases (federation/folders.ts:76, :103).   *)
PromisesAgree == \A f \in Federation :
  /\ \A d, e \in Tied("contribution", f) : d = e
  /\ whole /\ Quiet => QuotaOf(f) \subseteq {promised[f]} /\ (QuotaOf(f) = {} => promised[f] = 0)
=============================================================================
