----------------------------- MODULE FolderTree -----------------------------
(***************************************************************************)
(* Folders, the files in them, spaces and collaborations, and the routes   *)
(* that move, trash, restore and delete them: folders, spaces, collabs,    *)
(* trash, permissions, WebDAV, the mcp tools, and the organize action.     *)
(*                                                                         *)
(* A request reads and checks (Ask...), then writes; what it read may have *)
(* changed by then.  The local state of a request is a tuple: the pending  *)
(* statement and its arguments.  Users are of one team.                    *)
(***************************************************************************)
EXTENDS Naturals, FiniteSets

CONSTANTS User, Folder, File, Space, Request, Null,
  Gone  \* a deleted row, whose id is not used again

VARIABLES
  folder,  \* folders: space_id, user_id, parent_id, deleted_at
  file,    \* files: user_id, folder_id, deleted_at; home: the space at first
  space,   \* spaces: owner_id, deleted_at
  member,  \* space_members
  grant,   \* collaborations
  req      \* the pending statement of each request

vars == <<folder, file, space, member, grant, req>>

Row == [space : Space \cup {Null}, owner : User, parent : Folder \cup {Null},
        live : BOOLEAN]
FileRow == [owner : User, folder : Folder \cup {Null}, live : BOOLEAN,
            home : Space \cup {Null}]
Role == {"owner", "editor", "viewer"}
Thing == Folder \cup File

TypeOK ==
  /\ folder \in [Folder -> Row \cup {Null, Gone}]
  /\ file \in [File -> FileRow \cup {Null}]
  /\ space \in [Space -> [owner : User, live : BOOLEAN] \cup {Null}]
  /\ member \in [Space -> [User -> Role \cup {Null}]]
  /\ grant \in [Thing \X User -> (Role \ {"owner"}) \cup {Null}]
  /\ DOMAIN req = Request

----------------------------------------------------------------------------
(* The tree.  What is above a folder, itself included, is the least set     *)
(* that has the folder and holds parents: what the recursive queries find,  *)
(* whose limit of 64 levels is left out.                                    *)
HoldsParents(P) ==
  \A g \in P : folder[g] \notin {Null, Gone} /\ folder[g].parent # Null => folder[g].parent \in P

Ancestors(f) ==
  {g \in Folder : \A P \in SUBSET Folder : f \in P /\ HoldsParents(P) => g \in P}

Is(f) == f # Null /\ folder[f] \notin {Null, Gone}
Live(f) == Is(f) /\ folder[f].live
Subtree(f) == {g \in Folder : Is(g) /\ f \in Ancestors(g)}
FilesIn(F) == {x \in File : file[x] # Null /\ file[x].folder \in F}
SpaceOf(f) == IF f = Null THEN Null ELSE folder[f].space

----------------------------------------------------------------------------
(* permissions/index.ts                                                     *)
SpaceRole(u, s) ==
  IF space[s] = Null \/ ~space[s].live THEN Null ELSE member[s][u]

(* The nearest grant on the way up, a chain never longer than the folders.  *)
Up(f) ==
  LET chain[n \in 0..Cardinality(Folder)] ==
        IF n = 0 THEN f
        ELSE IF chain[n - 1] = Null THEN Null ELSE folder[chain[n - 1]].parent
  IN chain

InheritedFolderRole(u, f) ==
  LET up == Up(f)
      at == {n \in DOMAIN up : up[n] # Null /\ grant[<<up[n], u>>] # Null}
  IN IF at = {} THEN Null
     ELSE grant[<<up[CHOOSE n \in at : \A k \in at : n <= k], u>>]

(* folderAccess, and trashedFolderAccess, which no grant reaches.           *)
TrashedFolderRole(u, f) ==
  IF ~Is(f) THEN Null
  ELSE IF SpaceOf(f) # Null THEN SpaceRole(u, SpaceOf(f))
  ELSE IF folder[f].owner = u THEN "owner" ELSE Null

FolderRole(u, f) ==
  IF ~Live(f) THEN Null
  ELSE IF SpaceOf(f) = Null /\ folder[f].owner # u THEN InheritedFolderRole(u, f)
  ELSE TrashedFolderRole(u, f)

TrashedFileRole(u, x) ==
  IF file[x] = Null THEN Null
  ELSE IF SpaceOf(file[x].folder) # Null THEN SpaceRole(u, SpaceOf(file[x].folder))
  ELSE IF file[x].owner = u THEN "owner" ELSE Null

FileRole(u, x) ==
  IF file[x] = Null \/ ~file[x].live THEN Null
  ELSE IF SpaceOf(file[x].folder) # Null \/ file[x].owner = u THEN TrashedFileRole(u, x)
  ELSE IF grant[<<x, u>>] # Null THEN grant[<<x, u>>]
  ELSE IF file[x].folder = Null THEN Null
  ELSE InheritedFolderRole(u, file[x].folder)

CanWrite(role) == role \in {"owner", "editor"}

(* Reached by a WebDAV or S3 path: the caller's own, outside every space,   *)
(* live up to the root.                                                     *)
Personal(u, f) ==
  Is(f) /\ \A g \in Ancestors(f) : Live(g) /\ folder[g].space = Null /\ folder[g].owner = u

----------------------------------------------------------------------------
(* Requests.                                                                *)
Idle(r) == req[r] = <<"idle">>
Ask(r, stmt) == Idle(r) /\ req' = [req EXCEPT ![r] = stmt]
Then(r, stmt) == req' = [req EXCEPT ![r] = stmt]
Done(r) == Then(r, <<"done">>)
Reads == UNCHANGED <<folder, file, space, member, grant>>

NewRow(s, u, p) == [space |-> s, owner |-> u, parent |-> p, live |-> TRUE]

(* What exists at first: a personal folder and one in a space, of one user, *)
(* the second user a member or not, with a file in either; the other ids    *)
(* are free, or personal folders beside the first or in it.                 *)
Init ==
  \E u \in User, s \in Space, p, q \in Folder, role \in {"editor", "viewer", Null} :
    /\ p # q
    /\ \E other \in {Null, NewRow(Null, u, Null), NewRow(Null, u, p)} :
         folder = [f \in Folder |->
           IF f = p THEN NewRow(Null, u, Null) ELSE IF f = q THEN NewRow(s, u, Null) ELSE other]
    /\ \E at \in {p, q} : file = [x \in File |->
         [owner |-> u, folder |-> at, live |-> TRUE, home |-> IF at = q THEN s ELSE Null]]
    /\ space = [t \in Space |-> IF t = s THEN [owner |-> u, live |-> TRUE] ELSE Null]
    /\ member = [t \in Space |-> [v \in User |->
         IF t # s THEN Null ELSE IF v = u THEN "owner" ELSE role]]
    /\ grant = [g \in Thing \X User |-> Null]
    /\ req = [r \in Request |-> <<"idle">>]

(* INSERT INTO folders; a parent gone by then fails it.                     *)
Insert(r, row) ==
  /\ \E f \in Folder :
       /\ folder[f] = Null
       /\ folder' = IF row.parent = Null \/ Is(row.parent)
                    THEN [folder EXCEPT ![f] = row] ELSE folder
  /\ UNCHANGED <<file, space, member, grant>>

----------------------------------------------------------------------------
(* Creating a folder.                                                       *)
AskCreate(r, u, p) ==  \* POST /folders: the parent's owner
  /\ p = Null \/ CanWrite(FolderRole(u, p))
  /\ Ask(r, <<"create", NewRow(SpaceOf(p), IF p = Null THEN u ELSE folder[p].owner, p)>>)
  /\ Reads

McpCreate(r, u, p) ==  \* create_folder: the caller, whoever owns the parent
  /\ p = Null \/ CanWrite(FolderRole(u, p))
  /\ Ask(r, <<"create", NewRow(SpaceOf(p), u, p)>>)
  /\ Reads

SpaceCreate(r, u, s) ==  \* POST /spaces/:id/folders
  /\ CanWrite(SpaceRole(u, s))
  /\ Ask(r, <<"create", NewRow(s, u, Null)>>)
  /\ Reads

PathCreate(r, u, p) ==  \* MKCOL, ensureFolderPath
  /\ p = Null \/ Personal(u, p)
  /\ Ask(r, <<"create", NewRow(Null, u, p)>>)
  /\ Reads

Mount(r, u, p) ==  \* POST /me/federations/:id/folders/mount
  /\ p = Null \/ (Live(p) /\ SpaceOf(p) = Null /\ folder[p].owner = u)
  /\ Ask(r, <<"create", NewRow(Null, u, p)>>)
  /\ Reads

Create(r) ==
  /\ req[r][1] = "create"
  /\ Insert(r, req[r][2])
  /\ Done(r)

----------------------------------------------------------------------------
(* Moving a folder.                                                         *)
Owned(f, g) == folder[f].space # Null \/ folder[f].owner = folder[g].owner

SameTree(f, g) == SpaceOf(f) = SpaceOf(g) /\ Owned(f, g)

AskMove(r, u, f, g) ==  \* PATCH /folders/:id
  /\ CanWrite(FolderRole(u, f))
  /\ IF g = Null THEN FolderRole(u, f) = "owner"
     ELSE CanWrite(FolderRole(u, g)) /\ SameTree(f, g) /\ g \notin Subtree(f)
  /\ Ask(r, <<"move", f, g>>)
  /\ Reads

McpMove(r, u, f, g) ==  \* move_folder
  /\ FolderRole(u, f) = "owner"
  /\ IF g = Null THEN SpaceOf(f) = Null
     ELSE FolderRole(u, g) = "owner" /\ SameTree(f, g) /\ f \notin Ancestors(g)
  /\ Ask(r, <<"move", f, g>>)
  /\ Reads

DavMove(r, u, f, g) ==  \* MOVE of a collection
  /\ Personal(u, f)
  /\ g = Null \/ (Personal(u, g) /\ g \notin Subtree(f))
  /\ Ask(r, <<"move", f, g>>)
  /\ Reads

Move(r) ==
  /\ req[r][1] = "move"
  /\ LET f == req[r][2]  g == req[r][3] IN
       folder' = IF Is(f) /\ (g = Null \/ Is(g))
                 THEN [folder EXCEPT ![f].parent = g] ELSE folder
  /\ Done(r)
  /\ UNCHANGED <<file, space, member, grant>>

----------------------------------------------------------------------------
(* Trash and restore.                                                       *)
Stamp(F, live) ==
  folder' = [f \in Folder |-> IF f \in F /\ Is(f) THEN [folder[f] EXCEPT !.live = live]
                              ELSE folder[f]]

StampFiles(X) ==
  file' = [x \in File |-> IF x \in X THEN [file[x] EXCEPT !.live = FALSE] ELSE file[x]]

AskTrash(r, u, f) ==  \* DELETE /folders/:id
  /\ CanWrite(FolderRole(u, f))
  /\ Ask(r, <<"trash", Subtree(f)>>)
  /\ Reads

McpTrash(r, u, f) ==  \* trash_folder: the folder alone
  /\ FolderRole(u, f) = "owner"
  /\ Ask(r, <<"trashed", {f}, {}>>)
  /\ Reads

Trash(r) ==
  /\ req[r][1] = "trash"
  /\ Stamp(req[r][2], FALSE)
  /\ Then(r, <<"trashFiles", req[r][2]>>)
  /\ UNCHANGED <<file, space, member, grant>>

TrashAlone(r) ==
  /\ req[r][1] = "trashed"
  /\ Stamp(req[r][2], FALSE)
  /\ Done(r)
  /\ UNCHANGED <<file, space, member, grant>>

TrashFiles(r) ==
  /\ req[r][1] = "trashFiles"
  /\ StampFiles(FilesIn(req[r][2]))
  /\ Done(r)
  /\ UNCHANGED <<folder, space, member, grant>>

AskRestore(r, u, f) ==  \* POST /folders/:id/restore
  /\ CanWrite(TrashedFolderRole(u, f)) /\ ~folder[f].live
  /\ Ask(r, <<"restore", f, IF Live(folder[f].parent) THEN folder[f].parent ELSE Null>>)
  /\ Reads

McpRestore(r, u, f) ==  \* restore_folder
  /\ TrashedFolderRole(u, f) = "owner" /\ ~folder[f].live
  /\ folder[f].parent # Null /\ SpaceOf(f) # Null => Live(folder[f].parent)
  /\ Ask(r, <<"restore", f, IF Live(folder[f].parent) THEN folder[f].parent ELSE Null>>)
  /\ Reads

Restore(r) ==
  /\ req[r][1] = "restore"
  /\ LET f == req[r][2]  g == req[r][3] IN
       folder' = IF Is(f) /\ (g = Null \/ Is(g))
                 THEN [folder EXCEPT ![f].live = TRUE, ![f].parent = g] ELSE folder
  /\ Done(r)
  /\ UNCHANGED <<file, space, member, grant>>

----------------------------------------------------------------------------
(* Deleting for good: the grants, the files, then the folders; by the       *)
(* foreign keys, what is still below a deleted folder goes with it.         *)
AskPurge(r, u, f) ==  \* DELETE /folders/:id/purge
  /\ TrashedFolderRole(u, f) = "owner"
  /\ Ask(r, <<"purge", Subtree(f), FilesIn(Subtree(f))>>)
  /\ Reads

AskEmpty(r, u) ==  \* DELETE /trash
  /\ Ask(r, <<"empty",
       {f \in Folder : Is(f) /\ ~folder[f].live /\ folder[f].owner = u /\ SpaceOf(f) = Null},
       {x \in File : file[x] # Null /\ ~file[x].live /\ file[x].owner = u
                       /\ SpaceOf(file[x].folder) = Null}>>)
  /\ Reads

DavDelete(r, u, f) ==  \* DELETE of a collection: the grants stay
  /\ Personal(u, f)
  /\ Ask(r, <<"deleteFiles", Subtree(f)>>)
  /\ Reads

Revoke(T) ==
  grant' = [g \in Thing \X User |-> IF g[1] \in T THEN Null ELSE grant[g]]

DropFiles(X) == file' = [x \in File |-> IF x \in X THEN Null ELSE file[x]]

PurgeGrants(r) ==
  /\ req[r][1] \in {"purge", "empty"}
  /\ Revoke(req[r][2] \cup req[r][3])
  /\ Then(r, IF req[r][1] = "purge" THEN <<"deleteFiles", req[r][2]>>
                                    ELSE <<"deleteTrash", req[r][2], req[r][3]>>)
  /\ UNCHANGED <<folder, file, space, member>>

DeleteFiles(r) ==  \* by folder, whatever is in it now ...
  /\ req[r][1] = "deleteFiles"
  /\ DropFiles(FilesIn(req[r][2]))
  /\ Then(r, <<"delete", req[r][2]>>)
  /\ UNCHANGED <<folder, space, member, grant>>

DeleteTrash(r) ==  \* ... and by id
  /\ req[r][1] = "deleteTrash"
  /\ DropFiles(req[r][3])
  /\ Then(r, <<"delete", req[r][2]>>)
  /\ UNCHANGED <<folder, space, member, grant>>

Delete(r) ==
  /\ req[r][1] = "delete"
  /\ LET gone == UNION {Subtree(f) : f \in req[r][2]} IN
       /\ folder' = [f \in Folder |-> IF f \in gone THEN Gone ELSE folder[f]]
       /\ DropFiles(FilesIn(gone))
  /\ Done(r)
  /\ UNCHANGED <<space, member, grant>>

----------------------------------------------------------------------------
(* Files.  A moved file may start the target's actions.                     *)
AskMoveFile(r, u, x, g) ==  \* PATCH /files/:id, move_file
  /\ CanWrite(FileRole(u, x))
  /\ IF g = Null
     THEN SpaceOf(file[x].folder) = Null /\ FileRole(u, x) = "owner"
     ELSE /\ CanWrite(FolderRole(u, g))
          /\ SpaceOf(g) = SpaceOf(file[x].folder)
          /\ SpaceOf(g) # Null \/ folder[g].owner = file[x].owner
  /\ Ask(r, <<"moveFile", x, g, g # Null>>)
  /\ Reads

(* A file of that name there is deleted first, x itself when it is already  *)
(* there; no action is started.                                             *)
DavMoveFile(r, u, x, g) ==  \* MOVE of a file
  /\ file[x] # Null /\ file[x].live /\ file[x].owner = u
  /\ file[x].folder = Null \/ Personal(u, file[x].folder)
  /\ g = Null \/ Personal(u, g)
  /\ \E Y \in {{}} \cup {{y} : y \in {z \in FilesIn({g}) : file[z].live /\ file[z].owner = u}} :
       DropFiles(Y)
  /\ Ask(r, <<"moveFile", x, g, FALSE>>)
  /\ UNCHANGED <<folder, space, member, grant>>

SetFolder(x, g, live) ==
  file' = IF file[x] # Null /\ (g = Null \/ Is(g))
          THEN [file EXCEPT ![x].folder = g, ![x].live = live] ELSE file

MoveFile(r) ==
  /\ req[r][1] = "moveFile"
  /\ LET x == req[r][2]  g == req[r][3] IN
       /\ SetFolder(x, g, file[x] # Null /\ file[x].live)
       /\ Done(r) \/ (req[r][4] /\ Then(r, <<"organize", x, g>>))
  /\ UNCHANGED <<folder, space, member, grant>>

(* organize-by-date: a child of the action's folder is found or made, and   *)
(* the file moved there, wherever it is by then.                            *)
(* Mutant: the child is made outside the space. *)
OutsideSpace(p) == NewRow(Null, folder[p].owner, p)

ChildOf(p) == NewRow(SpaceOf(p), folder[p].owner, p)

Organize(r) ==
  /\ req[r][1] = "organize" /\ Is(req[r][3])
  /\ LET p == req[r][3] IN
       \/ \E g \in Folder :
            /\ Live(g) /\ folder[g].parent = p /\ folder[g].owner = folder[p].owner
            /\ Then(r, <<"file", req[r][2], g>>)
            /\ UNCHANGED folder
       \/ \E g \in Folder :
            /\ folder[g] = Null
            /\ folder' = [folder EXCEPT ![g] = ChildOf(p)]
            /\ Then(r, <<"file", req[r][2], g>>)
  /\ UNCHANGED <<file, space, member, grant>>

FileAway(r) ==
  /\ req[r][1] = "file"
  /\ SetFolder(req[r][2], req[r][3], file[req[r][2]] # Null /\ file[req[r][2]].live)
  /\ Done(r)
  /\ UNCHANGED <<folder, space, member, grant>>

TrashFile(r, u, x) ==  \* DELETE /files/:id, trash_file
  /\ Idle(r) /\ CanWrite(FileRole(u, x))
  /\ StampFiles({x})
  /\ Done(r)
  /\ UNCHANGED <<folder, space, member, grant>>

AskRestoreFile(r, u, x) ==  \* POST /files/:id/restore, restore_file
  /\ CanWrite(TrashedFileRole(u, x)) /\ ~file[x].live
  /\ LET f == file[x].folder IN
       /\ SpaceOf(f) # Null => Live(f)
       /\ Ask(r, <<"restoreFile", x, IF Live(f) THEN f ELSE Null>>)
  /\ Reads

RestoreFile(r) ==
  /\ req[r][1] = "restoreFile"
  /\ SetFolder(req[r][2], req[r][3], TRUE)
  /\ Done(r)
  /\ UNCHANGED <<folder, space, member, grant>>

----------------------------------------------------------------------------
(* Spaces and their members; collaborations.                                *)
CreateSpace(r, u, s) ==  \* POST /spaces: the row, then the admin's
  /\ Idle(r) /\ space[s] = Null
  /\ space' = [space EXCEPT ![s] = [owner |-> u, live |-> TRUE]]
  /\ Then(r, <<"member", s, u, "owner", FALSE>>)
  /\ UNCHANGED <<folder, file, member, grant>>

DeleteSpace(r, u, s) ==  \* DELETE /spaces/:id
  /\ Idle(r) /\ SpaceRole(u, s) # Null /\ space[s].owner = u
  /\ space' = [space EXCEPT ![s].live = FALSE]
  /\ Then(r, <<"deleteSpace", s>>)
  /\ UNCHANGED <<folder, file, member, grant>>

ListSpace(r) ==
  /\ req[r][1] = "deleteSpace"
  /\ Then(r, <<"trash",
       UNION {Subtree(f) : f \in {g \in Folder : Is(g) /\ SpaceOf(g) = req[r][2]}}>>)
  /\ Reads

AskMember(r, u, s, v, role) ==  \* POST and PATCH /spaces/:id/members
  /\ SpaceRole(u, s) = "owner"
  /\ v = space[s].owner => role = "owner"
  /\ Ask(r, <<"member", s, v, role, member[s][v] # Null>>)
  /\ Reads

(* An update finds no row, and an insert one, that another request left.    *)
SetMember(r) ==
  /\ req[r][1] = "member"
  /\ LET s == req[r][2]  v == req[r][3] IN
       member' = IF (member[s][v] # Null) = req[r][5]
                 THEN [member EXCEPT ![s][v] = req[r][4]] ELSE member
  /\ Done(r)
  /\ UNCHANGED <<folder, file, space, grant>>

RemoveMember(r, u, s, v) ==  \* DELETE /spaces/:id/members/:memberId
  /\ Idle(r) /\ SpaceRole(u, s) # Null
  /\ u = v \/ SpaceRole(u, s) = "owner"
  /\ v # space[s].owner
  /\ member' = [member EXCEPT ![s][v] = Null]
  /\ Done(r)
  /\ UNCHANGED <<folder, file, space, grant>>

RoleOn(u, t) == IF t \in Folder THEN FolderRole(u, t) ELSE FileRole(u, t)

AddCollab(r, u, t, v, role) ==  \* POST /folders/:id/collaborators, /files/...
  /\ Idle(r) /\ RoleOn(u, t) = "owner" /\ u # v
  /\ SpaceOf(IF t \in Folder THEN t ELSE file[t].folder) = Null
  /\ grant' = [grant EXCEPT ![<<t, v>>] = role]
  /\ Done(r)
  /\ UNCHANGED <<folder, file, space, member>>

RemoveCollab(r, u, t, v) ==
  /\ Idle(r) /\ RoleOn(u, t) = "owner" /\ grant[<<t, v>>] # Null
  /\ grant' = [grant EXCEPT ![<<t, v>>] = Null]
  /\ Done(r)
  /\ UNCHANGED <<folder, file, space, member>>

----------------------------------------------------------------------------
AskFolder(r, u) ==
  \/ \E p \in Folder \cup {Null} :
       AskCreate(r, u, p) \/ McpCreate(r, u, p) \/ PathCreate(r, u, p) \/ Mount(r, u, p)
  \/ \E f \in Folder :
       /\ Is(f)
       /\ \/ \E g \in (Folder \cup {Null}) \ {f} :
               AskMove(r, u, f, g) \/ McpMove(r, u, f, g) \/ DavMove(r, u, f, g)
          \/ AskTrash(r, u, f) \/ McpTrash(r, u, f)
          \/ AskRestore(r, u, f) \/ McpRestore(r, u, f)
          \/ AskPurge(r, u, f) \/ DavDelete(r, u, f)
  \/ AskEmpty(r, u)

AskFile(r, u, x) ==
  \/ \E g \in Folder \cup {Null} : AskMoveFile(r, u, x, g) \/ DavMoveFile(r, u, x, g)
  \/ TrashFile(r, u, x) \/ AskRestoreFile(r, u, x)

Sharing(r, u) ==
  \/ \E s \in Space :
       \/ SpaceCreate(r, u, s) \/ CreateSpace(r, u, s) \/ DeleteSpace(r, u, s)
       \/ \E v \in User :
            RemoveMember(r, u, s, v) \/ \E role \in Role : AskMember(r, u, s, v, role)
  \/ \E t \in Thing, v \in User :
       RemoveCollab(r, u, t, v)
         \/ \E role \in {"editor", "viewer"} : AddCollab(r, u, t, v, role)

Write(r) ==
  \/ Create(r) \/ Move(r) \/ Trash(r) \/ TrashAlone(r) \/ TrashFiles(r) \/ Restore(r)
  \/ PurgeGrants(r) \/ DeleteFiles(r) \/ DeleteTrash(r) \/ Delete(r) \/ MoveFile(r) \/ Organize(r)
  \/ FileAway(r) \/ RestoreFile(r) \/ ListSpace(r) \/ SetMember(r)

Next ==
  \E r \in Request :
    \/ Idle(r) /\ \E u \in User : AskFolder(r, u) \/ Sharing(r, u)
                                    \/ \E x \in File : AskFile(r, u, x)
    \/ Write(r)

Spec == Init /\ [][Next]_vars

----------------------------------------------------------------------------
(* A folder is in its parent's space, and a file in the space it was first  *)
(* in, whatever is moved, restored, organized, trashed or deleted meanwhile:*)
(* access is decided by the nearest folder's space alone                    *)
(* (permissions/index.ts:84, folders/index.ts:173).                         *)
OneSpacePerTree ==
  /\ \A f \in Folder : Is(f) /\ folder[f].parent # Null =>
       folder[folder[f].parent].space = folder[f].space
  /\ \A x \in File : file[x] # Null => SpaceOf(file[x].folder) = file[x].home
=============================================================================
