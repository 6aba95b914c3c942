----------------------------- MODULE Membership -----------------------------
(***************************************************************************)
(* Who belongs to a team and who runs it: creation and purge of the team,  *)
(* bootstrap, invites, sign-up and external sign-in, members made by an    *)
(* admin, promotion, demotion, suspension and removal (auth/index.ts,      *)
(* auth/external.ts, invites, teams/, admin/users.ts).                     *)
(*                                                                         *)
(* A handler reads the row it acts on before it decides how to write.      *)
(* "holder" is the request that holds the team's row FOR UPDATE; plain     *)
(* updates of a user do not wait for it.                                   *)
(***************************************************************************)
EXTENDS Naturals

CONSTANTS
  User,     \* accounts; the name of one that is gone may be given again
  Invite,   \* invites, each minted once
  Job,      \* requests that can be under way at once
  Null

VARIABLES
  root,     \* whether this is the root team
  team,     \* teams: its life
  listed,   \* local to the sweep: the members it found, Null between sweeps
  member,   \* users of the team
  invite,   \* invites; spent: used or deleted
  holder,   \* who holds the team's row
  job,      \* the local state of each request
  bypass    \* history: an active admin went without the last-admin check

vars == <<root, team, listed, member, invite, holder, job, bypass>>

Row == [owner : BOOLEAN, admin : BOOLEAN, suspended : BOOLEAN,
        deleted : BOOLEAN, by : Invite \cup {Null}]
Op == {"demote", "suspend", "remove"}
Idle == [at |-> "idle", op |-> Null, on |-> Null, checked |-> FALSE]

TypeOK ==
  /\ root \in BOOLEAN
  /\ team \in {"none", "bare", "live", "deleted", "lapsed", "gone"}
  /\ listed \in (SUBSET User) \cup {Null}
  /\ member \in [User -> Row \cup {Null}]
  /\ invite \in [Invite -> {"none", "open", "spent"}]
  /\ holder \in Job \cup {Null}
  /\ job \in [Job ->
       [at : {"idle", "join", "insert", "found", "counted", "purge"},
        op : Op \cup {"founder", Null}, on : Invite \cup User \cup {Null},
        checked : BOOLEAN]]
  /\ bypass \in BOOLEAN

Init ==
  /\ root \in BOOLEAN
  /\ team = IF root THEN "live" ELSE "none"
  /\ listed = Null
  /\ member = [u \in User |-> Null]
  /\ invite = [i \in Invite |-> "none"]
  /\ holder = Null
  /\ job = [r \in Job |-> Idle]
  /\ bypass = FALSE

Member(u) == member[u] # Null
Active(row) == (row.admin \/ row.owner) /\ ~row.suspended /\ ~row.deleted
Admins == {u \in User : Member(u) /\ Active(member[u])}
(* Mutant: the sign-up and the count do not lock the team. *)
Unlocked == TRUE

Free == holder = Null
Begin(r, at, op, on, checked) ==
  /\ job[r] = Idle /\ team = "live"
  /\ job' = [job EXCEPT ![r] =
       [at |-> at, op |-> op, on |-> on, checked |-> checked]]
End(r) == job' = [job EXCEPT ![r] = Idle]
NewUser(u, owner, admin, by) ==
  /\ member[u] = Null
  /\ listed # Null => u \notin listed
  /\ \A r \in Job : job[r].on # u
  /\ member' = [member EXCEPT ![u] = [owner |-> owner, admin |-> admin,
       suspended |-> FALSE, deleted |-> FALSE, by |-> by]]

----------------------------------------------------------------------------
(* The owner creates the team and its first admin; a refused admin undoes   *)
(* the team, one lost to a race leaves it bare.                             *)
CreateTeam ==
  /\ team = "none"
  /\ team' = "bare"
  /\ UNCHANGED <<root, listed, member, invite, holder, job, bypass>>

CreateFirstAdmin ==
  /\ team = "bare"
  /\ \/ team' = "live" /\ \E u \in User : NewUser(u, FALSE, TRUE, Null)
     \/ team' = "none" /\ UNCHANGED member
  /\ UNCHANGED <<root, listed, invite, holder, job, bypass>>

(* Soft delete and restore of the team, and the sweep after the window: its *)
(* members as listed, one by one, then the row if no one is left.           *)
DeleteTeam ==
  /\ ~root
  /\ \/ team = "live" /\ team' = "deleted"
     \/ team \in {"deleted", "lapsed"} /\ team' = "live"  \* restore
     \/ /\ team = "deleted" /\ team' = "lapsed"           \* the window closes,
        /\ \A r \in Job : job[r] = Idle     \* longer than any request lasts
  /\ UNCHANGED <<root, listed, member, invite, holder, job, bypass>>

ListTeam ==
  /\ team = "lapsed" /\ listed = Null
  /\ listed' = {u \in User : Member(u)}
  /\ UNCHANGED <<root, team, member, invite, holder, job, bypass>>

PurgeMember ==
  /\ listed # Null
  /\ \E u \in listed :
       /\ listed' = listed \ {u}
       /\ member' = [member EXCEPT ![u] = Null]
       /\ bypass' = (bypass \/ u \in Admins)
  /\ UNCHANGED <<root, team, invite, holder, job>>

DropTeam ==
  /\ listed = {}
  /\ listed' = Null
  /\ IF \E u \in User : Member(u)
     THEN UNCHANGED <<team, invite>>  \* the foreign key; the next sweep retries
     ELSE /\ team' = "gone"
          /\ invite' = [i \in Invite |->
               IF invite[i] = "none" THEN "none" ELSE "spent"]
  /\ UNCHANGED <<root, member, holder, job, bypass>>

----------------------------------------------------------------------------
(* Invites: anyone's on root, an admin's on a tenant.  DELETE reads the row *)
(* as unused and deletes it as it is.                                       *)
CreateInvite(i) ==
  /\ invite[i] = "none" /\ team = "live"
  /\ IF root THEN \E u \in User : Member(u) ELSE Admins # {}
  /\ invite' = [invite EXCEPT ![i] = "open"]
  /\ UNCHANGED <<root, team, listed, member, holder, job, bypass>>

DeleteInvite(i) ==
  /\ invite[i] = "open"
  /\ invite' = [invite EXCEPT ![i] = "spent"]
  /\ UNCHANGED <<root, team, listed, member, holder, job, bypass>>

(* POST /signup, and the external sign-in that provisions an account (on    *)
(* root, with no invite): the team is locked, the checks made, the account  *)
(* inserted and the invite used.                                            *)
Join(r) ==
  /\ \E i \in Invite \cup {Null} :
       (i # Null \/ root) /\ Begin(r, "join", Null, i, FALSE)
  /\ UNCHANGED <<root, team, listed, member, invite, holder, bypass>>

Empty == \A u \in User : ~Member(u)

(* Mutant: a used invite is let pass. *)
Exists(i) == invite[i] \in {"open", "spent"}

Unused(i) == invite[i] = "open"

CheckJoin(r) ==
  /\ job[r].at = "join" /\ Free
  /\ LET i == job[r].on IN
       IF i = Null THEN root ELSE Unused(i) \/ (root /\ Empty)
  /\ holder' = r
  /\ job' = [job EXCEPT ![r].at = "insert",
                        ![r].op = IF root /\ Empty THEN "founder" ELSE Null]
  /\ UNCHANGED <<root, team, listed, member, invite, bypass>>

Insert(r) ==
  /\ job[r].at = "insert"
  /\ LET founder == job[r].op = "founder"
         i == IF founder THEN Null ELSE job[r].on
     IN  /\ \E u \in User : NewUser(u, founder, FALSE, i)
         /\ invite' = IF i # Null /\ invite[i] = "open"
                      THEN [invite EXCEPT ![i] = "spent"] ELSE invite
  /\ holder' = Null
  /\ End(r)
  /\ UNCHANGED <<root, team, listed, bypass>>

Refused(r) ==  \* a bad or used invite, a name that is taken
  /\ job[r].at = "join"
  /\ End(r)
  /\ UNCHANGED <<root, team, listed, member, invite, holder, bypass>>

(* POST /team/users: no lock.                                               *)
CreateMember ==
  /\ team = "live" /\ Admins # {}
  /\ \E u \in User, admin \in BOOLEAN : NewUser(u, FALSE, admin, Null)
  /\ UNCHANGED <<root, team, listed, invite, holder, job, bypass>>

----------------------------------------------------------------------------
(* Promotion and unsuspension: whatever the row has become since it was     *)
(* found, the write sets what was wanted then, or changes nothing.          *)
Raise ==
  /\ team = "live" /\ Admins # {}
  /\ \E u \in User :
       /\ Member(u)
       /\ \/ member' = [member EXCEPT ![u].admin = TRUE]
          \/ member' = [member EXCEPT ![u].suspended = FALSE]
  /\ UNCHANGED <<root, team, listed, invite, holder, job, bypass>>

(* The admin routes that take something away: the row is found ...          *)
Wanted(op, row) ==
  CASE op = "demote" -> row.admin
    [] op = "suspend" -> ~row.owner /\ ~row.suspended
    [] op = "remove" -> ~row.owner

(* unlessLastAdmin is for an admin found active; the removal of any other   *)
(* goes straight to its purge.                                              *)
Checked(row) == row.admin /\ ~row.suspended /\ ~row.deleted

Find(r) ==
  /\ \E u \in User, op \in Op :
       /\ Member(u) /\ Wanted(op, member[u])
       /\ \E a \in Admins : a = u => op = "demote"
       /\ IF op # "remove" \/ Checked(member[u])
          THEN Begin(r, "found", op, u, Checked(member[u]))
          ELSE Begin(r, "purge", Null, u, FALSE)
  /\ UNCHANGED <<root, team, listed, member, invite, holder, bypass>>

(* ... a checked write counts the others under the lock, and follows ...    *)
(* Mutant: the suspended and the leaving are counted. *)
AnyOther(u) ==
  \E v \in User \ {u} : Member(v) /\ (member[v].admin \/ member[v].owner)

Enough(u) == Admins \ {u} # {}

CountAdmins(r) ==
  /\ job[r].at = "found" /\ job[r].checked /\ Free
  /\ IF Enough(job[r].on)
     THEN holder' = r /\ job' = [job EXCEPT ![r].at = "counted"]
     ELSE UNCHANGED holder /\ End(r)
  /\ UNCHANGED <<root, team, listed, member, invite, bypass>>

Written(op, row) ==
  CASE op = "demote" -> [row EXCEPT !.admin = FALSE]
    [] op = "suspend" -> [row EXCEPT !.suspended = TRUE]
    [] op = "remove" -> [row EXCEPT !.deleted = TRUE]

WriteChecked(r) ==
  /\ job[r].at = "counted"
  /\ LET u == job[r].on IN
       member' = IF Member(u)
                  THEN [member EXCEPT ![u] = Written(job[r].op, @)] ELSE member
  /\ holder' = Null
  /\ job' = [job EXCEPT ![r] = IF job[r].op # "remove" THEN Idle ELSE
       [at |-> "purge", op |-> Null, on |-> job[r].on, checked |-> FALSE]]
  /\ UNCHANGED <<root, team, listed, invite, bypass>>

(* ... any other write is a plain one, right or wrong by now.               *)
WritePlain(r) ==
  /\ job[r].at = "found" /\ ~job[r].checked
  /\ LET u == job[r].on IN
       /\ member' = IF Member(u)
                    THEN [member EXCEPT ![u] = Written(job[r].op, @)] ELSE member
       /\ bypass' = (bypass \/ u \in Admins)
  /\ End(r)
  /\ UNCHANGED <<root, team, listed, invite, holder>>

Purge(r) ==
  /\ job[r].at = "purge"
  /\ LET u == job[r].on IN
       /\ member' = [member EXCEPT ![u] = Null]
       /\ bypass' = (bypass \/ u \in Admins)
  /\ End(r)
  /\ UNCHANGED <<root, team, listed, invite, holder>>

(* A member's own DELETE /me, its cancel link, and the purge that follows;  *)
(* none asks who else is left.                                              *)
LeaveOrReturn ==
  /\ \E u \in User :
       /\ Member(u)
       /\ \/ member' = [member EXCEPT ![u].deleted = ~@]
          \/ member[u].deleted /\ member' = [member EXCEPT ![u] = Null]
       /\ bypass' = (bypass \/ u \in Admins)
  /\ UNCHANGED <<root, team, listed, invite, holder, job>>

----------------------------------------------------------------------------
Next ==
  \/ CreateTeam \/ CreateFirstAdmin \/ DeleteTeam \/ ListTeam \/ PurgeMember
  \/ DropTeam \/ CreateMember \/ Raise \/ LeaveOrReturn
  \/ \E i \in Invite : CreateInvite(i) \/ DeleteInvite(i)
  \/ \E r \in Job :
       \/ Join(r) \/ CheckJoin(r) \/ Insert(r) \/ Refused(r)
       \/ Find(r) \/ CountAdmins(r) \/ WriteChecked(r) \/ WritePlain(r)
       \/ Purge(r)

Spec == Init /\ [][Next]_vars

(* An invite admits one account, however many sign up with it at once, and  *)
(* sign-ups and external sign-ins that race on an empty instance make one   *)
(* owner (auth/index.ts:220, auth/external.ts:149).                         *)
AdmittedOnce ==
  \A u, v \in User : Member(u) /\ Member(v) /\ u # v =>
    /\ member[u].by # Null => member[u].by # member[v].by
    /\ ~(member[u].owner /\ member[v].owner)

(* Admins who demote, suspend and remove each other at the same time leave  *)
(* one who can act, unless one left on its own account or was written to on *)
(* a row read before it became an admin (teams/members.ts:97).              *)
AdminRemains == team = "live" /\ ~root /\ ~bypass => Admins # {}
=============================================================================
