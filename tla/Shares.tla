------------------------------- MODULE Shares -------------------------------
(***************************************************************************)
(* Share links (shares/index.ts): a link to a file, with an expiry, perhaps *)
(* a password, perhaps burnt when it is first viewed by anyone but its     *)
(* owner.  A viewing is a sequence of statements and fetches; the owner,   *)
(* the sweep and other viewers act in between.                             *)
(***************************************************************************)
EXTENDS Naturals, FiniteSets

CONSTANTS
  Link,     \* rows of shares
  Viewing,  \* GET /s/:token requests, each made once
  Tries,    \* password attempts a link allows in a window
  Null

VARIABLES
  link,    \* shares: how each link was made; Null before
  ended,   \* who deleted the row: a viewing, another route, or Null
  state,   \* the file they all point at
  tries,   \* rate_limits: attempts on each link in the window
  view,    \* the local state of each viewing
  shown    \* history: which viewing was sent the bytes of which link

vars == <<link, ended, state, tries, view, shown>>

Row == [burn : BOOLEAN, password : BOOLEAN, expired : BOOLEAN]
Step == {"idle", "read", "checked", "fetch", "done"}
View == [at : Step, link : Link \cup {Null}, row : Row \cup {Null}, owner : BOOLEAN]

TypeOK ==
  /\ link \in [Link -> Row \cup {Null}]
  /\ ended \in [Link -> Viewing \cup {"route", Null}]
  /\ state \in {"live", "blocked", "trashed", "purged"}
  /\ tries \in [Link -> 0..Tries]
  /\ view \in [Viewing -> View]
  /\ shown \subseteq Viewing \X Link

Unread == [at |-> "idle", link |-> Null, row |-> Null, owner |-> FALSE]

Init ==
  /\ link = [l \in Link |-> Null]
  /\ ended = [l \in Link |-> Null]
  /\ state = "live"
  /\ tries = [l \in Link |-> 0]
  /\ view = [v \in Viewing |-> Unread]
  /\ shown = {}

There(l) == link[l] # Null /\ ended[l] = Null
Delete(l, who) == ended' = IF There(l) THEN [ended EXCEPT ![l] = who] ELSE ended
Goto(v, p) == view' = [view EXCEPT ![v].at = p]
Answer(v) == Goto(v, "done")

----------------------------------------------------------------------------
(* The owner.                                                               *)
CreateShare(l) ==  \* POST /shares
  /\ link[l] = Null /\ state \in {"live", "blocked"}
  /\ \E b, p \in BOOLEAN : link' = [link EXCEPT ![l] =
       [burn |-> b, password |-> p, expired |-> FALSE]]
  /\ UNCHANGED <<ended, state, tries, view, shown>>

DeleteShare(l) ==  \* DELETE /shares/:id
  /\ There(l)
  /\ Delete(l, "route")
  /\ UNCHANGED <<link, state, tries, view, shown>>

(* The file: scanned, trashed, restored, and purged with its links.         *)
ChangeFile ==
  /\ state # "purged" /\ state' \in {"live", "blocked", "trashed", "purged"} \ {state}
  /\ IF state' = "purged"
     THEN ended' = [l \in Link |-> IF There(l) THEN "route" ELSE ended[l]]
     ELSE UNCHANGED ended
  /\ UNCHANGED <<link, tries, view, shown>>

(* Time: a link expires and the sweep deletes it; a rate window passes.     *)
Expire(l) ==
  /\ There(l) /\ ~link[l].expired
  /\ link' = [link EXCEPT ![l].expired = TRUE]
  /\ UNCHANGED <<ended, state, tries, view, shown>>

SweepExpiredShares ==
  /\ \E l \in Link : There(l) /\ link[l].expired
  /\ ended' = [l \in Link |->
       IF There(l) /\ link[l].expired THEN "route" ELSE ended[l]]
  /\ UNCHANGED <<link, state, tries, view, shown>>

NewWindow ==
  /\ \E l \in Link : tries[l] # 0
  /\ tries' = [l \in Link |-> 0]
  /\ UNCHANGED <<link, ended, state, view, shown>>

----------------------------------------------------------------------------
(* GET /s/:token, without meta=1, which reads only.                         *)
ReadLink(v) ==
  /\ view[v].at = "idle"
  /\ \E l \in Link, mine \in BOOLEAN :
       /\ There(l)
       /\ IF link[l].expired
          THEN Delete(l, "route") /\ Answer(v)
          ELSE /\ view' = [view EXCEPT ![v] =
                    [at |-> "read", link |-> l, row |-> link[l], owner |-> mine]]
               /\ UNCHANGED ended
  /\ UNCHANGED <<link, state, tries, shown>>

ReadFile(v) ==
  /\ view[v].at = "read"
  /\ IF state = "live" THEN Goto(v, "checked") ELSE Answer(v)
  /\ UNCHANGED <<link, ended, state, tries, shown>>

(* checkRate: attempts a link has left in the window.                       *)
Allowed(l) == tries[l] < Tries

(* The attempt is counted before the password is compared.                  *)
Password(v) ==
  /\ view[v].at = "checked" /\ view[v].row.password
  /\ IF Allowed(view[v].link)
     THEN /\ tries' = [tries EXCEPT ![view[v].link] = @ + 1]
          /\ \/ view' = [view EXCEPT ![v].row.password = FALSE]  \* it matches
             \/ Answer(v)
     ELSE Answer(v) /\ UNCHANGED tries
  /\ UNCHANGED <<link, ended, state, shown>>

(* Mutant: the row is deleted, and whether it was there is not looked at. *)
AnyRow(v) == TRUE

(* DELETE ... RETURNING: the row was still there.                           *)
Taken(v) == There(view[v].link)

Claim(v) ==
  /\ view[v].at = "checked" /\ ~view[v].row.password
  /\ IF view[v].row.burn /\ ~view[v].owner
     THEN /\ Delete(view[v].link, v)
          /\ IF Taken(v) THEN Goto(v, "fetch") ELSE Answer(v)
     ELSE Goto(v, "fetch") /\ UNCHANGED ended
  /\ UNCHANGED <<link, state, tries, shown>>

(* The fetch can fail: the link is spent all the same.                      *)
Fetch(v) ==
  /\ view[v].at = "fetch"
  /\ shown' \in {shown, shown \cup {<<v, view[v].link>>}}
  /\ Answer(v)
  /\ UNCHANGED <<link, ended, state, tries>>

Next ==
  \/ \E l \in Link : CreateShare(l) \/ DeleteShare(l) \/ Expire(l)
  \/ ChangeFile \/ SweepExpiredShares \/ NewWindow
  \/ \E v \in Viewing : ReadLink(v) \/ ReadFile(v) \/ Password(v) \/ Claim(v) \/ Fetch(v)

Spec == Init /\ [][Next]_vars

----------------------------------------------------------------------------
(* The bytes behind a burn-on-view link go to one viewer, the one whose     *)
(* statement deleted it: to nobody else who had read the row, and to nobody *)
(* once the owner, the sweep or the file's purge has taken it away          *)
(* (shares/index.ts:332).                                                   *)
BurnShownOnce ==
  \A p \in shown : link[p[2]].burn /\ ~view[p[1]].owner => ended[p[2]] = p[1]
=============================================================================
