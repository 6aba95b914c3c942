------------------------------ MODULE WebFiles ------------------------------
(***************************************************************************)
(* The Files page of the browser client (web/app.tsx, component Files):    *)
(* which folder is open, what is listed, selected and under way.           *)
(*                                                                         *)
(* Every handler runs with the folder that was open when it was clicked    *)
(* (its closure), calls the server and then lists that folder again.  A    *)
(* listing is numbered and only the newest may be shown; answers come back *)
(* in any order, also after the user went to another folder.               *)
(*                                                                         *)
(* One key stands for the items of a folder.  That a folder may be read    *)
(* only is left out: the server refuses what the page offers too much.     *)
(***************************************************************************)
EXTENDS Naturals, FiniteSets

CONSTANTS
  Folder,    \* folders that can be opened
  Loads,     \* bound on the listings asked for
  Works,     \* bound on the handlers under way at once
  Null

VARIABLES
  at,        \* currentId: the folder that is open
  rows,      \* folders, files: pages of folders
  loading,   \* a listing is awaited
  failed,    \* loadError
  newest,    \* loadId: the number of the newest listing
  loads,     \* listings on their way
  more,      \* the next page on its way
  busy,      \* a handler that wants to be alone is under way
  selected,  \* the folders of the selected keys
  works,     \* handlers under way: calls to the server
  strayed    \* the newest listing is of a folder that was left

vars == <<at, rows, loading, failed, newest, loads, more, busy, selected, works, strayed>>
page == <<at, rows, selected>>

Kind == {"bulk", "create", "rename", "delete", "upload", "capture"}
(* setBusy(true) ... finally setBusy(false)                                 *)
Alone == {"bulk", "create", "rename"}

Load == [id : 1..(Loads + 1), of : Folder, frees : BOOLEAN]
Work == [kind : Kind, of : Folder, keys : SUBSET Folder]

TypeOK ==
  /\ at \in Folder
  /\ rows \in SUBSET (Folder \X {1, 2})
  /\ loading \in BOOLEAN /\ failed \in BOOLEAN /\ busy \in BOOLEAN /\ strayed \in BOOLEAN
  /\ newest \in 1..(Loads + 1)
  /\ loads \in SUBSET Load
  /\ more \in [id : 1..(Loads + 1), of : Folder] \cup {Null}
  /\ selected \in SUBSET Folder
  /\ works \in SUBSET Work

(* The page opens and lists its folder.                                     *)
Init ==
  /\ at \in Folder
  /\ rows = {} /\ loading = TRUE /\ failed = FALSE
  /\ newest = 1 /\ loads = {[id |-> 1, of |-> at, frees |-> FALSE]} /\ more = Null
  /\ busy = FALSE /\ selected = {} /\ works = {} /\ strayed = FALSE

----------------------------------------------------------------------------
CanEdit == ~loading /\ ~failed
Listed == {x[1] : x \in rows}

(* load: the folder is the one of the closure it is called from.            *)
Ask(id, of, frees) ==
  /\ id <= Loads
  /\ newest' = id
  /\ loads' = loads \cup {[id |-> id, of |-> of, frees |-> frees]}
  /\ loading' = TRUE /\ failed' = FALSE

(* A folder is opened: the effects drop the listing on its way, ask for the *)
(* new one and clear the selection.                                         *)
Open(f) ==
  /\ f # at /\ at' = f
  /\ Ask(newest + 2, f, FALSE)
  /\ selected' = {} /\ strayed' = FALSE
  /\ UNCHANGED <<rows, more, busy, works>>

(* "Try again"                                                              *)
Retry ==
  /\ failed
  /\ Ask(newest + 1, at, FALSE)
  /\ strayed' = FALSE
  /\ UNCHANGED <<page, more, busy, works>>

(* Mutant: whatever answers is shown.                                       *)
AnyAnswer(id) == TRUE

Newest(id) == id = newest

(* The rest of load, and of the handler that waits for it.                  *)
LoadAnswers(l, ok) ==
  /\ loads' = loads \ {l}
  /\ busy' = (busy /\ ~l.frees)
  /\ IF Newest(l.id)
     THEN /\ loading' = FALSE
          /\ IF ok THEN rows' = {<<l.of, 1>>} /\ UNCHANGED failed
                   ELSE failed' = TRUE /\ UNCHANGED rows
     ELSE UNCHANGED <<rows, loading, failed>>
  /\ UNCHANGED <<at, newest, more, selected, works, strayed>>

(* loadMore: the page after what is listed, for the listing as it is now.   *)
LoadMore ==
  /\ more = Null /\ CanEdit
  /\ <<at, 2>> \notin rows
  /\ more' = [id |-> newest, of |-> at]
  /\ UNCHANGED <<page, loading, failed, newest, loads, busy, works, strayed>>

MoreAnswers(ok) ==
  /\ more # Null /\ more' = Null
  /\ rows' = IF ok /\ Newest(more.id) THEN rows \cup {<<more.of, 2>>} ELSE rows
  /\ UNCHANGED <<at, selected, loading, failed, newest, loads, busy, works, strayed>>

(* toggleSelect, selectAll, clearSelection                                  *)
Toggle(f) ==
  /\ CanEdit /\ f \in Listed
  /\ selected' = IF f \in selected THEN selected \ {f} ELSE selected \cup {f}
  /\ UNCHANGED <<at, rows, loading, failed, newest, loads, more, busy, works, strayed>>

SelectAll ==
  /\ CanEdit
  /\ selected' = IF selected = Listed THEN {} ELSE Listed
  /\ UNCHANGED <<at, rows, loading, failed, newest, loads, more, busy, works, strayed>>

(* A handler starts: those that want to be alone while none is busy, a      *)
(* screenshot at any time.                                                  *)
Start(kind) ==
  /\ Cardinality(works) < Works
  /\ kind = "capture" \/ CanEdit
  /\ kind \in Alone => ~busy
  /\ kind = "bulk" => selected # {}
  /\ works' = works \cup {[kind |-> kind, of |-> at, keys |-> IF kind = "bulk" THEN selected ELSE {}]}
  /\ busy' = (busy \/ kind \in Alone)
  /\ UNCHANGED <<page, loading, failed, newest, loads, more, strayed>>

Over(w) == works' = works \ {w} /\ UNCHANGED <<at, rows, more>>

(* It lists the folder of its closure.                                      *)
Relist(w, frees) ==
  /\ Ask(newest + 1, w.of, frees)
  /\ strayed' = (w.of # at)

(* bulkOperation: what could not be moved or deleted is selected again.     *)
BulkEnds(w, left) ==
  /\ w.kind = "bulk" /\ Over(w)
  /\ busy' = FALSE /\ selected' = left
  /\ Relist(w, FALSE)

(* createFolder, rename, del, captureScreenshot, when the call succeeds     *)
Succeeds(w) ==
  /\ w.kind \in {"create", "rename", "delete", "capture"} /\ Over(w)
  /\ Relist(w, w.kind \in Alone)
  /\ UNCHANGED <<busy, selected>>

Fails(w) ==
  /\ w.kind \in {"create", "rename", "delete", "capture"} /\ Over(w)
  /\ busy' = (busy /\ w.kind \notin Alone)
  /\ UNCHANGED <<selected, loading, failed, newest, loads, strayed>>

(* upload lists the folder only if it is still open (uploadFolder).         *)
Uploaded(w) ==
  /\ w.kind = "upload" /\ Over(w)
  /\ IF w.of = at THEN Relist(w, FALSE) ELSE UNCHANGED <<newest, loads, loading, failed, strayed>>
  /\ UNCHANGED <<busy, selected>>

Next ==
  \/ \E f \in Folder : Open(f) \/ Toggle(f)
  \/ Retry \/ LoadMore \/ SelectAll
  \/ \E l \in loads, ok \in BOOLEAN : LoadAnswers(l, ok)
  \/ \E ok \in BOOLEAN : MoreAnswers(ok)
  \/ \E kind \in Kind : Start(kind)
  \/ \E w \in works :
       \/ \E left \in SUBSET w.keys : BulkEnds(w, left)
       \/ Succeeds(w) \/ Fails(w) \/ Uploaded(w)

Spec == Init /\ [][Next]_vars

----------------------------------------------------------------------------
(* The page never waits for what will not come, and never shows the wrong   *)
(* folder: while it is loading the newest listing is on its way, a busy     *)
(* page has a handler to free it, and once an answer is shown all its rows  *)
(* are of the open folder - whatever came late from another - unless a      *)
(* handler of a folder that was left listed that one last                   *)
(* (web/app.tsx:1314).                                                      *)
ListingIsOfFolder ==
  /\ loading => \E l \in loads : Newest(l.id)
  /\ busy => (\E w \in works : w.kind \in Alone) \/ (\E l \in loads : l.frees)
  /\ CanEdit /\ ~strayed => <<at, 1>> \in rows /\ Listed = {at}
=============================================================================
