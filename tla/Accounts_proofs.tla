-------------------------- MODULE Accounts_proofs --------------------------
(***************************************************************************)
(* The components around an account, for any number of requests, tokens,   *)
(* people, teams and names.  Each part states the component's inductive    *)
(* invariant by named conjuncts, what the actions keep of them, one lemma  *)
(* per action or kind of action, and the theorems.                         *)
(***************************************************************************)
EXTENDS MCAccounts, TLAPS

(* A domain that is verified was found published with its very token; the   *)
(* invariant is inductive once the rows are typed.                          *)
DomainInv == D!TypeOK /\ D!DomainsAreProven

LEMMA DomainInit == ASSUME D!Init PROVE DomainInv
  BY NoRowIsNull DEF D!Init, DomainInv, D!TypeOK, D!DomainsAreProven

LEMMA DomainStep == ASSUME DomainInv, [D!Next]_domains PROVE DomainInv'
<1> USE NoRowIsNull
<1>t D!TypeOK /\ D!DomainsAreProven
  BY DEF DomainInv
<1>1 ASSUME NEW t \in Team, D!RemoveDomain(t) PROVE DomainInv'
  BY <1>t, <1>1 DEF D!RemoveDomain, DomainInv, D!TypeOK, D!DomainsAreProven
<1>2 ASSUME NEW t \in Team, NEW n \in Name, D!SetDomain(t, n) PROVE DomainInv'
  <2>1 last + 1 \in 1..Tokens
    BY <1>t, <1>2 DEF D!SetDomain, D!TypeOK
  <2> DEFINE w == [name |-> n, token |-> last + 1, verified |-> FALSE]
  <2>2 w \in D!Row /\ ~w.verified
    BY <2>1 DEF D!Row
  <2> HIDE DEF w
  <2>3 domain' = [domain EXCEPT ![t] = w] /\ last' = last + 1
    BY <1>2 DEF D!SetDomain, w
  <2>4 asked' = asked /\ proven' = proven /\ last' \in 0..Tokens
    BY <1>2, <1>t, <2>1, <2>3 DEF D!SetDomain
  <2>5 D!TypeOK'
    BY <1>t, <2>2, <2>3, <2>4 DEF D!TypeOK
  <2>6 D!DomainsAreProven'
    BY <1>t, <2>2, <2>3, <2>4 DEF D!TypeOK, D!DomainsAreProven
  <2> QED
    BY <2>5, <2>6 DEF DomainInv
<1>3 ASSUME NEW r \in Lookup, D!ReadDomain(r) PROVE DomainInv'
  <2>1 PICK t \in Team : domain[t] # Null
         /\ asked' = [asked EXCEPT ![r] =
              [team |-> t, name |-> domain[t].name, token |-> domain[t].token]]
    BY <1>3 DEF D!ReadDomain
  <2>2 domain[t].name \in Name /\ domain[t].token \in 1..Tokens
    BY <1>t, <2>1 DEF D!TypeOK, D!Row
  <2> QED
    BY <1>t, <1>3, <2>1, <2>2 DEF D!ReadDomain, DomainInv, D!TypeOK, D!DomainsAreProven
<1>4 ASSUME NEW r \in Lookup, D!Verify(r) PROVE DomainInv'
  <2>1 PICK q \in [team : Team, name : Name, token : 1..Tokens] : q = asked[r]
    BY <1>t, <1>4 DEF D!Verify, D!TypeOK
  <2>2 q.team \in Team /\ <<q.name, q.token>> \in Name \X (1..Tokens)
    OBVIOUS
  <2>3 asked' = [asked EXCEPT ![r] = Null] /\ last' = last
    BY <1>4 DEF D!Verify
  <2>4 CASE /\ proven' = proven \cup {<<q.name, q.token>>}
            /\ D!SameDomain(domain[q.team], q)
            /\ domain' = [domain EXCEPT ![q.team].verified = TRUE]
    <3>1 domain[q.team] \in D!Row
      BY <1>t, <2>2, <2>4 DEF D!TypeOK, D!SameDomain
    <3>2 PICK v \in D!Row : v = domain[q.team]
      BY <3>1
    <3> DEFINE w == [v EXCEPT !.verified = TRUE]
    <3>3 w \in D!Row /\ w.name = v.name /\ w.token = v.token
      BY DEF D!Row
    <3> HIDE DEF w
    <3>4 domain' = [domain EXCEPT ![q.team] = w]
      BY <2>4, <3>2 DEF w
    <3>5 w.name = q.name /\ w.token = q.token
      BY <2>4, <3>2, <3>3 DEF D!SameDomain
    <3> QED
      BY <1>t, <2>2, <2>3, <2>4, <3>3, <3>4, <3>5 DEF DomainInv, D!TypeOK, D!DomainsAreProven
  <2>5 CASE domain' = domain /\ (proven' = proven \cup {<<q.name, q.token>>} \/ proven' = proven)
    BY <1>t, <2>2, <2>3, <2>5 DEF DomainInv, D!TypeOK, D!DomainsAreProven
  <2> QED
    BY <1>4, <2>1, <2>4, <2>5 DEF D!Verify
<1>5 CASE UNCHANGED domains
  BY <1>t, <1>5 DEF domains, DomainInv, D!TypeOK, D!DomainsAreProven
<1> QED
  BY <1>1, <1>2, <1>3, <1>4, <1>5 DEF D!Next

(* A host is routed to a team only if its name was found published with the *)
(* token that team was last given (teams/domains.ts:140).                   *)
THEOREM DomainsAreProvenOnce == Spec => []DomainsAreProven
<1> DEFINE Inv == focus = "domains" => DomainInv
<1>1 Init => Inv
  BY DomainInit DEF Init
<1>2 Inv /\ [Next]_vars => Inv'
  BY DomainStep DEF Next, vars
<1>3 Inv => DomainsAreProven
  BY DEF DomainInv, DomainsAreProven
<1> QED
  BY <1>1, <1>2, <1>3, PTL DEF Spec

(* What a request holds fits the point it is at. *)
JobsFit == \A r \in Job :
  /\ job[r].at \in {"join", "insert"} => job[r].on \in Invite \cup {Null}
  /\ job[r].at = "insert" => job[r].op \in {"founder", Null}
  /\ job[r].at \in {"found", "counted"} => job[r].on \in User /\ job[r].op \in M!Op
  /\ job[r].at = "purge" => job[r].on \in User

MemberTypes == M!TypeOK /\ JobsFit

(* A request that checked under the lock still holds it. *)
OneHolder == \A r \in Job : job[r].at \in {"insert", "counted"} => holder = r

(* An invite that admitted someone is spent, and admitted no one else. *)
UsedInvites == \A u \in User :
  member[u] # Null /\ member[u].by # Null => invite[member[u].by] = "spent"
ByOne == \A u, v \in User :
  /\ member[u] # Null /\ member[v] # Null
  /\ member[u].by # Null /\ member[u].by = member[v].by
  => u = v

(* The invite a sign-up was let pass with has admitted no one yet. *)
NotYet == \A r \in Job :
  job[r].at = "insert" /\ job[r].op # "founder" /\ job[r].on # Null =>
    /\ invite[job[r].on] # "none"
    /\ \A u \in User : member[u] # Null => member[u].by # job[r].on

(* The root team is live and never swept; a founder's sign-up finds it      *)
(* empty to the end.                                                        *)
RootLives == root => team = "live" /\ listed = Null
Founds == \A r \in Job : job[r].at = "insert" /\ job[r].op = "founder" =>
  root /\ \A u \in User : member[u] = Null
OneOwner == \A u, v \in User :
  member[u] # Null /\ member[v] # Null /\ member[u].owner /\ member[v].owner => u = v

(* A tenant that is not purged has an admin; a counted write leaves another. *)
AdminLeft ==
  team \in {"live", "deleted", "lapsed"} /\ ~root /\ ~bypass => M!Admins # {}
OtherLeft == \A r \in Job :
  job[r].at = "counted" /\ ~bypass => M!Admins \ {job[r].on} # {}

MemberInv ==
  /\ MemberTypes
  /\ OneHolder /\ UsedInvites /\ ByOne /\ NotYet
  /\ RootLives /\ Founds /\ OneOwner
  /\ AdminLeft /\ OtherLeft

(* What most steps do to the members: some change, some leave, and those    *)
(* who come bring no invite and own nothing.                                *)
Plain == \A u \in User : member'[u] # Null =>
  \/ member[u] # Null /\ member'[u].by = member[u].by /\ member'[u].owner = member[u].owner
  \/ member'[u].by = Null /\ ~member'[u].owner

(* An empty root team stays empty; an admin who can no longer act left the  *)
(* mark.                                                                    *)
Settled ==
  /\ root /\ (\A u \in User : member[u] = Null) => \A u \in User : member'[u] = Null
  /\ bypass => bypass'
  /\ bypass' \/ M!Admins \subseteq M!Admins'

InvitesLast == \A i \in Invite :
  /\ invite[i] = "spent" => invite'[i] = "spent"
  /\ invite[i] # "none" => invite'[i] # "none"

TeamLasts ==
  /\ root' = root
  /\ root /\ team = "live" /\ listed = Null => team' = "live" /\ listed' = Null
  /\ team' \in {"live", "deleted", "lapsed"} /\ ~root =>
       team \in {"live", "deleted", "lapsed"} \/ M!Admins' # {}

LockLasts ==
  /\ holder' = holder
  /\ \A r \in Job : job'[r].at \in {"insert", "counted"} => job'[r] = job[r]

Quiet == Plain /\ Settled /\ InvitesLast /\ TeamLasts /\ LockLasts

(* Such steps keep the invariant. *)
LEMMA QuietKeeps ==
  ASSUME MemberInv, MemberTypes', Quiet
  PROVE  MemberInv'
<1> USE NoRowIsNull
<1>t MemberTypes /\ M!TypeOK
  BY DEF MemberInv, MemberTypes
<1>1 OneHolder'
  BY DEF MemberInv, OneHolder, Quiet, LockLasts
<1>2 \A u \in User : member[u] # Null => member[u].by \in Invite \cup {Null}
  BY <1>t DEF M!TypeOK, M!Row
<1>3 UsedInvites'
  <2> SUFFICES ASSUME NEW u \in User, member'[u] # Null, member'[u].by # Null
               PROVE  invite'[member'[u].by] = "spent"
    BY DEF UsedInvites
  <2>1 member[u] # Null /\ member'[u].by = member[u].by
    BY DEF Quiet, Plain
  <2>2 member[u].by \in Invite /\ invite[member[u].by] = "spent"
    BY <1>2, <2>1 DEF MemberInv, UsedInvites
  <2> QED
    BY <2>1, <2>2 DEF Quiet, InvitesLast
<1>4 ByOne'
  <2> SUFFICES ASSUME NEW u \in User, NEW v \in User, member'[u] # Null, member'[v] # Null,
                      member'[u].by # Null, member'[u].by = member'[v].by
               PROVE  u = v
    BY DEF ByOne
  <2>1 member[u] # Null /\ member'[u].by = member[u].by
    BY DEF Quiet, Plain
  <2>2 member[v] # Null /\ member'[v].by = member[v].by
    BY DEF Quiet, Plain
  <2> QED
    BY <2>1, <2>2 DEF MemberInv, ByOne
<1>5 NotYet'
  <2> SUFFICES ASSUME NEW r \in Job, job'[r].at = "insert", job'[r].op # "founder",
                      job'[r].on # Null
               PROVE  /\ invite'[job'[r].on] # "none"
                      /\ \A u \in User : member'[u] # Null => member'[u].by # job'[r].on
    BY DEF NotYet
  <2>1 job'[r] = job[r]
    BY DEF Quiet, LockLasts
  <2>2 job[r].on \in Invite
    BY <1>t, <2>1 DEF MemberTypes, JobsFit
  <2>3 invite'[job[r].on] # "none"
    BY <2>1, <2>2 DEF MemberInv, NotYet, Quiet, InvitesLast
  <2>4 ASSUME NEW u \in User, member'[u] # Null, member'[u].by = job[r].on
       PROVE  FALSE
    <3>1 member[u] # Null /\ member'[u].by = member[u].by
      BY <2>1, <2>4 DEF Quiet, Plain
    <3> QED
      BY <2>1, <2>4, <3>1 DEF MemberInv, NotYet
  <2> QED
    BY <2>1, <2>3, <2>4
<1>6 RootLives'
  BY DEF MemberInv, RootLives, Quiet, TeamLasts
<1>7 Founds'
  BY DEF MemberInv, Founds, Quiet, LockLasts, Settled, TeamLasts
<1>8 OneOwner'
  <2> SUFFICES ASSUME NEW u \in User, NEW v \in User, member'[u] # Null, member'[v] # Null,
                      member'[u].owner, member'[v].owner
               PROVE  u = v
    BY DEF OneOwner
  <2>1 member[u] # Null /\ member[u].owner
    BY DEF Quiet, Plain
  <2>2 member[v] # Null /\ member[v].owner
    BY DEF Quiet, Plain
  <2> QED
    BY <2>1, <2>2 DEF MemberInv, OneOwner
<1>9 AdminLeft'
  BY DEF MemberInv, AdminLeft, Quiet, TeamLasts, Settled
<1>10 OtherLeft'
  BY DEF MemberInv, OtherLeft, Quiet, LockLasts, Settled
<1> QED
  BY <1>1, <1>3, <1>4, <1>5, <1>6, <1>7, <1>8, <1>9, <1>10 DEF MemberInv

LEMMA MemberInit == ASSUME M!Init PROVE MemberInv
<1> USE NoRowIsNull DEF M!Init
<1>1 M!TypeOK
  BY DEF M!TypeOK, M!Idle
<1>2 \A u \in User : member[u] = Null
  OBVIOUS
<1>3 \A r \in Job : job[r].at = "idle"
  BY DEF M!Idle
<1>4 AdminLeft
  BY DEF AdminLeft
<1> QED
  BY <1>1, <1>2, <1>3, <1>4 DEF MemberInv, MemberTypes, JobsFit, OneHolder, UsedInvites, ByOne,
    NotYet, RootLives, Founds, OneOwner, OtherLeft

(* Frames: what a step leaves alone, and the change of one row.             *)
LEMMA SameMembers ==
  ASSUME member' = member, bypass => bypass'
  PROVE  Plain /\ Settled /\ M!Admins' = M!Admins
<1>1 M!Admins' = M!Admins
  BY DEF M!Admins, M!Member, M!Active
<1> QED
  BY <1>1 DEF Plain, Settled

LEMMA RowChanges ==
  ASSUME MemberTypes, NEW u \in User, NEW w \in M!Row \cup {Null},
         member' = [member EXCEPT ![u] = w], bypass => bypass',
         w # Null => member[u] # Null /\ w.by = member[u].by /\ w.owner = member[u].owner,
         bypass' \/ (u \in M!Admins => w # Null /\ M!Active(w))
  PROVE  Plain /\ Settled
<1> USE NoRowIsNull
<1>1 member'[u] = w /\ \A v \in User : v # u => member'[v] = member[v]
  BY DEF MemberTypes, M!TypeOK
<1>2 Plain
  BY <1>1 DEF Plain
<1>3 ASSUME NEW v \in User, v \in M!Admins, ~bypass' PROVE v \in M!Admins'
  <2>1 CASE v = u
    BY <1>1, <1>3, <2>1 DEF M!Admins, M!Member, M!Active
  <2>2 CASE v # u
    BY <1>1, <1>3, <2>2 DEF M!Admins, M!Member, M!Active
  <2> QED
    BY <2>1, <2>2
<1>4 bypass' \/ M!Admins \subseteq M!Admins'
  BY <1>3 DEF M!Admins
<1>5 (\A v \in User : member[v] = Null) => \A v \in User : member'[v] = Null
  BY <1>1
<1> QED
  BY <1>2, <1>4, <1>5 DEF Settled

(* Someone new who brings no invite, to a team that is not an empty root.   *)
LEMMA RowComes ==
  ASSUME MemberTypes, NEW u \in User, NEW w \in M!Row, member[u] = Null,
         member' = [member EXCEPT ![u] = w], bypass' = bypass, w.by = Null, ~w.owner,
         ~root \/ \E v \in User : member[v] # Null
  PROVE  Plain /\ Settled
<1> USE NoRowIsNull
<1>1 member'[u] = w /\ \A v \in User : v # u => member'[v] = member[v]
  BY DEF MemberTypes, M!TypeOK
<1>2 Plain
  BY <1>1 DEF Plain
<1>3 ASSUME NEW v \in User, v \in M!Admins PROVE v \in M!Admins'
  <2>1 v # u
    BY <1>3 DEF M!Admins, M!Member
  <2> QED
    BY <1>1, <1>3, <2>1 DEF M!Admins, M!Member, M!Active
<1>4 M!Admins \subseteq M!Admins'
  BY <1>3 DEF M!Admins
<1> QED
  BY <1>2, <1>4 DEF Settled

LEMMA RowTypes ==
  ASSUME MemberTypes, NEW u \in User, NEW w \in M!Row \cup {Null},
         member' = [member EXCEPT ![u] = w]
  PROVE  member' \in [User -> M!Row \cup {Null}]
  BY DEF MemberTypes, M!TypeOK

LEMMA JobTypes ==
  ASSUME MemberTypes, NEW r \in Job,
         NEW w \in [at : {"idle", "join", "insert", "found", "counted", "purge"},
                    op : M!Op \cup {"founder", Null}, on : Invite \cup User \cup {Null},
                    checked : BOOLEAN],
         job' = [job EXCEPT ![r] = w],
         w.at \in {"join", "insert"} => w.on \in Invite \cup {Null},
         w.at = "insert" => w.op \in {"founder", Null},
         w.at \in {"found", "counted"} => w.on \in User /\ w.op \in M!Op,
         w.at = "purge" => w.on \in User
  PROVE  /\ JobsFit'
         /\ job' \in [Job ->
              [at : {"idle", "join", "insert", "found", "counted", "purge"},
               op : M!Op \cup {"founder", Null}, on : Invite \cup User \cup {Null},
               checked : BOOLEAN]]
<1>1 job'[r] = w /\ \A x \in Job : x # r => job'[x] = job[x]
  BY DEF MemberTypes, M!TypeOK
<1>2 ASSUME NEW x \in Job
     PROVE  /\ job'[x].at \in {"join", "insert"} => job'[x].on \in Invite \cup {Null}
            /\ job'[x].at = "insert" => job'[x].op \in {"founder", Null}
            /\ job'[x].at \in {"found", "counted"} => job'[x].on \in User /\ job'[x].op \in M!Op
            /\ job'[x].at = "purge" => job'[x].on \in User
  <2>1 CASE x = r
    BY <1>1, <2>1
  <2>2 CASE x # r
    BY <1>1, <2>2 DEF MemberTypes, JobsFit
  <2> QED
    BY <2>1, <2>2
<1>3 JobsFit'
  BY <1>2 DEF JobsFit, M!Op
<1> QED
  BY <1>3 DEF MemberTypes, M!TypeOK

(* A request that goes to a point outside the lock, or ends.                *)
LEMMA LockStays ==
  ASSUME MemberTypes, NEW r \in Job, NEW w, w.at \notin {"insert", "counted"},
         job' = [job EXCEPT ![r] = w], holder' = holder
  PROVE  LockLasts
  BY DEF MemberTypes, M!TypeOK, LockLasts

LEMMA IdleFits ==
  M!Idle \in [at : {"idle", "join", "insert", "found", "counted", "purge"},
              op : M!Op \cup {"founder", Null}, on : Invite \cup User \cup {Null},
              checked : BOOLEAN] /\ M!Idle.at = "idle"
  BY DEF M!Idle

(* The steps that only write to the team, its sweep or its invites.         *)
LEMMA TeamSteps ==
  ASSUME MemberInv,
         M!CreateTeam \/ M!DeleteTeam \/ M!ListTeam \/ M!DropTeam
           \/ (\E i \in Invite : M!CreateInvite(i) \/ M!DeleteInvite(i)) \/ UNCHANGED members
  PROVE  MemberInv'
<1> USE NoRowIsNull
<1>t MemberTypes /\ M!TypeOK /\ JobsFit /\ RootLives
  BY DEF MemberInv, MemberTypes
<1>1 member' = member /\ bypass' = bypass /\ job' = job /\ holder' = holder /\ root' = root
  BY DEF M!CreateTeam, M!DeleteTeam, M!ListTeam, M!DropTeam, M!CreateInvite, M!DeleteInvite, members
<1>2 Plain /\ Settled /\ M!Admins' = M!Admins
  BY <1>1, SameMembers
<1>3 LockLasts
  BY <1>1 DEF LockLasts
<1>4 team' \in {"none", "bare", "live", "deleted", "lapsed", "gone"} /\ TeamLasts
  <2>1 CASE M!CreateTeam \/ M!DeleteTeam
    BY <1>t, <1>1, <2>1 DEF M!TypeOK, TeamLasts, M!CreateTeam, M!DeleteTeam
  <2>2 CASE M!ListTeam
    BY <1>t, <1>1, <2>2 DEF M!TypeOK, TeamLasts, M!ListTeam
  <2>3 CASE M!DropTeam
    <3>1 listed # Null
      BY <2>3 DEF M!DropTeam
    <3> QED
      BY <1>t, <1>1, <2>3, <3>1 DEF M!TypeOK, TeamLasts, M!DropTeam
  <2>4 CASE (\E i \in Invite : M!CreateInvite(i) \/ M!DeleteInvite(i)) \/ UNCHANGED members
    BY <1>t, <1>1, <2>4 DEF M!TypeOK, TeamLasts, M!CreateInvite, M!DeleteInvite, members
  <2> QED
    BY <2>1, <2>2, <2>3, <2>4
<1>5 listed' \in (SUBSET User) \cup {Null}
  BY <1>t DEF M!TypeOK,
    M!CreateTeam, M!DeleteTeam, M!ListTeam, M!DropTeam, M!CreateInvite, M!DeleteInvite, members
<1>6 invite' \in [Invite -> {"none", "open", "spent"}] /\ InvitesLast
  BY <1>t DEF M!TypeOK, InvitesLast,
    M!CreateTeam, M!DeleteTeam, M!ListTeam, M!DropTeam, M!CreateInvite, M!DeleteInvite, members
<1>7 M!TypeOK' /\ JobsFit'
  BY <1>t, <1>1, <1>4, <1>5, <1>6 DEF M!TypeOK, JobsFit
<1>8 Quiet /\ MemberTypes'
  BY <1>2, <1>3, <1>4, <1>6, <1>7 DEF Quiet, MemberTypes
<1> QED
  BY <1>8, QuietKeeps

(* The steps that write one member's row and nothing of a request or an     *)
(* invite.                                                                  *)
LEMMA CreateFirstAdminKeeps == ASSUME MemberInv, M!CreateFirstAdmin PROVE MemberInv'
<1> USE NoRowIsNull
<1>t MemberTypes /\ M!TypeOK /\ JobsFit /\ RootLives
  BY DEF MemberInv, MemberTypes
<1>1 /\ team = "bare" /\ ~root /\ root' = root /\ listed' = listed /\ invite' = invite
     /\ holder' = holder /\ job' = job /\ bypass' = bypass
  BY <1>t DEF M!CreateFirstAdmin, RootLives
<1>2 LockLasts /\ InvitesLast
  BY <1>1 DEF LockLasts, InvitesLast
<1>3 CASE team' = "none" /\ member' = member
  <2>1 Plain /\ Settled
    BY <1>1, <1>3, SameMembers
  <2>2 TeamLasts /\ MemberTypes'
    BY <1>t, <1>1, <1>3 DEF TeamLasts, MemberTypes, M!TypeOK, JobsFit
  <2> QED
    BY <1>2, <2>1, <2>2, QuietKeeps DEF Quiet
<1>4 ASSUME team' = "live", NEW u \in User, M!NewUser(u, FALSE, TRUE, Null)
     PROVE  MemberInv'
  <2> DEFINE w == [owner |-> FALSE, admin |-> TRUE, suspended |-> FALSE,
                   deleted |-> FALSE, by |-> Null]
  <2>1 w \in M!Row /\ w.by = Null /\ ~w.owner /\ M!Active(w)
    BY DEF M!Row, M!Active
  <2> HIDE DEF w
  <2>2 member[u] = Null /\ member' = [member EXCEPT ![u] = w]
    BY <1>4 DEF M!NewUser, w
  <2>3 Plain /\ Settled
    BY <1>t, <1>1, <2>1, <2>2, RowComes
  <2>4 member' \in [User -> M!Row \cup {Null}]
    BY <1>t, <2>1, <2>2, RowTypes
  <2>5 member'[u] = w
    BY <1>t, <2>2 DEF M!TypeOK
  <2>6 u \in M!Admins'
    BY <2>1, <2>5 DEF M!Admins, M!Member, M!Active
  <2>7 TeamLasts
    BY <1>1, <1>4, <2>6 DEF TeamLasts
  <2>8 MemberTypes'
    BY <1>t, <1>1, <1>4, <2>4 DEF MemberTypes, M!TypeOK, JobsFit
  <2> QED
    BY <1>2, <2>3, <2>7, <2>8, QuietKeeps DEF Quiet
<1> QED
  BY <1>3, <1>4 DEF M!CreateFirstAdmin

(* Where only the members and the mark change, the rest of Quiet is a frame.*)
LEMMA OnlyMembers ==
  ASSUME MemberInv, Plain, Settled, member' \in [User -> M!Row \cup {Null}],
         root' = root, team' = team, invite' = invite, holder' = holder, job' = job,
         listed' \in (SUBSET User) \cup {Null}, bypass' \in BOOLEAN,
         listed = Null => listed' = Null
  PROVE  MemberInv'
<1>1 M!TypeOK /\ JobsFit
  BY DEF MemberInv, MemberTypes
<1>2 MemberTypes'
  BY <1>1 DEF MemberTypes, M!TypeOK, JobsFit
<1>3 InvitesLast /\ TeamLasts /\ LockLasts
  BY DEF InvitesLast, TeamLasts, LockLasts
<1> QED
  BY <1>2, <1>3, QuietKeeps DEF Quiet

LEMMA CreateMemberKeeps == ASSUME MemberInv, M!CreateMember PROVE MemberInv'
<1> USE NoRowIsNull
<1>t MemberTypes /\ M!TypeOK
  BY DEF MemberInv, MemberTypes
<1>1 PICK u \in User, b \in BOOLEAN : M!NewUser(u, FALSE, b, Null)
  BY DEF M!CreateMember
<1> DEFINE w == [owner |-> FALSE, admin |-> b, suspended |-> FALSE,
                 deleted |-> FALSE, by |-> Null]
<1>2 w \in M!Row /\ w.by = Null /\ ~w.owner
  BY DEF M!Row
<1>3 member' = [member EXCEPT ![u] = w] /\ member[u] = Null
  BY <1>1 DEF M!NewUser
<1> HIDE DEF w
<1>4 \E v \in User : member[v] # Null
  BY DEF M!CreateMember, M!Admins, M!Member
<1>5 root' = root /\ team' = team /\ listed' = listed /\ invite' = invite /\ holder' = holder
     /\ job' = job /\ bypass' = bypass
  BY DEF M!CreateMember
<1>6 Plain /\ Settled
  BY <1>t, <1>2, <1>3, <1>4, <1>5, RowComes
<1>7 member' \in [User -> M!Row \cup {Null}]
  BY <1>t, <1>2, <1>3, RowTypes
<1>8 listed' \in (SUBSET User) \cup {Null} /\ bypass' \in BOOLEAN
  BY <1>t, <1>5 DEF M!TypeOK
<1> QED
  BY <1>5, <1>6, <1>7, <1>8, OnlyMembers

LEMMA RaiseKeeps == ASSUME MemberInv, M!Raise PROVE MemberInv'
<1> USE NoRowIsNull
<1>t MemberTypes /\ M!TypeOK
  BY DEF MemberInv, MemberTypes
<1>1 PICK u \in User : /\ M!Member(u)
       /\ \/ member' = [member EXCEPT ![u].admin = TRUE]
          \/ member' = [member EXCEPT ![u].suspended = FALSE]
  BY DEF M!Raise
<1>2 PICK v \in M!Row : v = member[u]
  BY <1>t, <1>1 DEF M!TypeOK, M!Member
<1>3 PICK w \in M!Row : /\ w.by = v.by /\ w.owner = v.owner
       /\ (M!Active(v) => M!Active(w))
       /\ member' = [member EXCEPT ![u] = w]
  <2>1 CASE member' = [member EXCEPT ![u].admin = TRUE]
    <3> DEFINE w == [v EXCEPT !.admin = TRUE]
    <3>1 w \in M!Row /\ w.by = v.by /\ w.owner = v.owner /\ w.admin
         /\ w.suspended = v.suspended /\ w.deleted = v.deleted
      BY DEF M!Row
    <3>2 member' = [member EXCEPT ![u] = w]
      BY <1>2, <2>1
    <3> HIDE DEF w
    <3> QED
      BY <3>1, <3>2 DEF M!Active
  <2>2 CASE member' = [member EXCEPT ![u].suspended = FALSE]
    <3> DEFINE w == [v EXCEPT !.suspended = FALSE]
    <3>1 w \in M!Row /\ w.by = v.by /\ w.owner = v.owner /\ w.admin = v.admin
         /\ ~w.suspended /\ w.deleted = v.deleted
      BY DEF M!Row
    <3>2 member' = [member EXCEPT ![u] = w]
      BY <1>2, <2>2
    <3> HIDE DEF w
    <3> QED
      BY <3>1, <3>2 DEF M!Active
  <2> QED
    BY <1>1, <2>1, <2>2
<1>4 root' = root /\ team' = team /\ listed' = listed /\ invite' = invite /\ holder' = holder
     /\ job' = job /\ bypass' = bypass
  BY DEF M!Raise
<1>5 w # Null /\ member[u] # Null /\ (u \in M!Admins => M!Active(w))
  BY <1>1, <1>2, <1>3 DEF M!Admins, M!Member, M!Active
<1>6 Plain /\ Settled
  BY <1>t, <1>2, <1>3, <1>4, <1>5, RowChanges
<1>7 member' \in [User -> M!Row \cup {Null}]
  BY <1>t, <1>3, RowTypes
<1>8 listed' \in (SUBSET User) \cup {Null} /\ bypass' \in BOOLEAN
  BY <1>t, <1>4 DEF M!TypeOK
<1> QED
  BY <1>4, <1>6, <1>7, <1>8, OnlyMembers

(* A write that takes something away, or a purge, marks what it did to an   *)
(* active admin.                                                            *)
LEMMA MarkTypes ==
  ASSUME MemberTypes, NEW u \in User, bypass' = (bypass \/ u \in M!Admins)
  PROVE  bypass' \in BOOLEAN /\ (bypass => bypass') /\ (bypass' \/ u \notin M!Admins)
<1>1 bypass \in BOOLEAN
  BY DEF MemberTypes, M!TypeOK
<1> QED
  BY <1>1

LEMMA PurgeMemberKeeps == ASSUME MemberInv, M!PurgeMember PROVE MemberInv'
<1> USE NoRowIsNull
<1>t MemberTypes /\ M!TypeOK
  BY DEF MemberInv, MemberTypes
<1>1 PICK u \in listed : /\ listed' = listed \ {u}
       /\ member' = [member EXCEPT ![u] = Null] /\ bypass' = (bypass \/ u \in M!Admins)
  BY DEF M!PurgeMember
<1>0 listed # Null
  BY DEF M!PurgeMember
<1>2 u \in User /\ listed' \in (SUBSET User) \cup {Null}
  BY <1>t, <1>1 DEF M!TypeOK, M!PurgeMember
<1>3 bypass' \in BOOLEAN /\ (bypass => bypass') /\ (bypass' \/ u \notin M!Admins)
  BY <1>t, <1>1, <1>2, MarkTypes
<1>4 Plain /\ Settled
  BY <1>t, <1>1, <1>2, <1>3, RowChanges
<1>5 member' \in [User -> M!Row \cup {Null}]
  BY <1>t, <1>1, <1>2, RowTypes
<1>6 root' = root /\ team' = team /\ invite' = invite /\ holder' = holder /\ job' = job
  BY DEF M!PurgeMember
<1> QED
  BY <1>0, <1>2, <1>3, <1>4, <1>5, <1>6, OnlyMembers

LEMMA LeaveOrReturnKeeps == ASSUME MemberInv, M!LeaveOrReturn PROVE MemberInv'
<1> USE NoRowIsNull
<1>t MemberTypes /\ M!TypeOK
  BY DEF MemberInv, MemberTypes
<1>1 PICK u \in User : /\ M!Member(u)
       /\ \/ member' = [member EXCEPT ![u].deleted = ~@]
          \/ member' = [member EXCEPT ![u] = Null]
       /\ bypass' = (bypass \/ u \in M!Admins)
  BY DEF M!LeaveOrReturn
<1>2 PICK v \in M!Row : v = member[u]
  BY <1>t, <1>1 DEF M!TypeOK, M!Member
<1>3 PICK w \in M!Row \cup {Null} :
       /\ w # Null => w.by = v.by /\ w.owner = v.owner
       /\ member' = [member EXCEPT ![u] = w]
  <2>1 CASE member' = [member EXCEPT ![u].deleted = ~@]
    <3> DEFINE w == [v EXCEPT !.deleted = ~@]
    <3>1 w \in M!Row /\ w.by = v.by /\ w.owner = v.owner
      BY DEF M!Row
    <3>2 member' = [member EXCEPT ![u] = w]
      BY <1>2, <2>1
    <3> HIDE DEF w
    <3> QED
      BY <3>1, <3>2
  <2> QED
    BY <1>1, <2>1
<1>4 bypass' \in BOOLEAN /\ (bypass => bypass') /\ (bypass' \/ u \notin M!Admins)
  BY <1>t, <1>1, MarkTypes
<1>5 Plain /\ Settled
  BY <1>t, <1>1, <1>2, <1>3, <1>4, RowChanges DEF M!Member
<1>6 member' \in [User -> M!Row \cup {Null}]
  BY <1>t, <1>3, RowTypes
<1>7 root' = root /\ team' = team /\ listed' = listed /\ invite' = invite /\ holder' = holder
     /\ job' = job
  BY DEF M!LeaveOrReturn
<1>8 listed' \in (SUBSET User) \cup {Null}
  BY <1>t, <1>7 DEF M!TypeOK
<1> QED
  BY <1>4, <1>5, <1>6, <1>7, <1>8, OnlyMembers

----------------------------------------------------------------------------
(* The steps of a request that neither take nor give up the lock.           *)
JobType == [Job ->
  [at : {"idle", "join", "insert", "found", "counted", "purge"},
   op : M!Op \cup {"founder", Null}, on : Invite \cup User \cup {Null},
   checked : BOOLEAN]]

LEMMA OutsideLock ==
  ASSUME MemberInv, Plain, Settled, member' \in [User -> M!Row \cup {Null}], LockLasts,
         JobsFit', job' \in JobType, bypass' \in BOOLEAN,
         root' = root, team' = team, invite' = invite, listed' = listed
  PROVE  MemberInv'
<1>1 M!TypeOK
  BY DEF MemberInv, MemberTypes
<1>2 holder' = holder
  BY DEF LockLasts
<1>3 M!TypeOK'
  BY <1>1, <1>2 DEF M!TypeOK, JobType
<1>4 InvitesLast /\ TeamLasts
  BY DEF InvitesLast, TeamLasts
<1> QED
  BY <1>3, <1>4, QuietKeeps DEF Quiet, MemberTypes

LEMMA BeginFits ==
  ASSUME MemberTypes, NEW r \in Job, NEW p \in {"join", "found", "purge"},
         NEW o \in M!Op \cup {Null}, NEW x \in Invite \cup User \cup {Null},
         NEW c \in BOOLEAN, M!Begin(r, p, o, x, c), holder' = holder,
         p = "join" => x \in Invite \cup {Null},
         p = "found" => x \in User /\ o \in M!Op,
         p = "purge" => x \in User
  PROVE  JobsFit' /\ job' \in JobType /\ LockLasts
<1> DEFINE w == [at |-> p, op |-> o, on |-> x, checked |-> c]
<1>1 w \in [at : {"idle", "join", "insert", "found", "counted", "purge"},
            op : M!Op \cup {"founder", Null}, on : Invite \cup User \cup {Null},
            checked : BOOLEAN]
     /\ w.at = p /\ w.op = o /\ w.on = x
  OBVIOUS
<1>2 job' = [job EXCEPT ![r] = w]
  BY DEF M!Begin
<1> HIDE DEF w
<1>3 JobsFit' /\ job' \in JobType
  BY <1>1, <1>2, JobTypes DEF JobType
<1>4 LockLasts
  BY <1>1, <1>2, LockStays
<1> QED
  BY <1>3, <1>4

LEMMA EndFits ==
  ASSUME MemberTypes, NEW r \in Job, M!End(r), holder' = holder
  PROVE  JobsFit' /\ job' \in JobType /\ LockLasts
<1>1 job' = [job EXCEPT ![r] = M!Idle]
  BY DEF M!End
<1>2 JobsFit' /\ job' \in JobType
  BY <1>1, IdleFits, JobTypes DEF JobType
<1>3 LockLasts
  BY <1>1, IdleFits, LockStays
<1> QED
  BY <1>2, <1>3

LEMMA JoinKeeps ==
  ASSUME MemberInv, NEW r \in Job, M!Join(r) \/ M!Refused(r) \/ M!Find(r)
  PROVE  MemberInv'
<1> USE NoRowIsNull
<1>t MemberTypes /\ M!TypeOK
  BY DEF MemberInv, MemberTypes
<1>1 /\ root' = root /\ team' = team /\ listed' = listed /\ member' = member
     /\ invite' = invite /\ holder' = holder /\ bypass' = bypass
  BY DEF M!Join, M!Refused, M!Find
<1>2 Plain /\ Settled
  BY <1>1, SameMembers
<1>3 member' \in [User -> M!Row \cup {Null}] /\ bypass' \in BOOLEAN
  BY <1>t, <1>1 DEF M!TypeOK
<1>4 CASE M!Join(r)
  <2>1 PICK i \in Invite \cup {Null} : M!Begin(r, "join", Null, i, FALSE)
    BY <1>4 DEF M!Join
  <2>2 "join" \in {"join", "found", "purge"}
    OBVIOUS
  <2>3 i \in Invite \cup User \cup {Null} /\ Null \in M!Op \cup {Null} /\ FALSE \in BOOLEAN
    OBVIOUS
  <2>4 JobsFit' /\ job' \in JobType /\ LockLasts
    BY <1>t, <1>1, <2>1, <2>2, <2>3, BeginFits
  <2> QED
    BY <1>1, <1>2, <1>3, <2>4, OutsideLock
<1>5 CASE M!Refused(r)
  <2>1 JobsFit' /\ job' \in JobType /\ LockLasts
    BY <1>t, <1>1, <1>5, EndFits DEF M!Refused
  <2> QED
    BY <1>1, <1>2, <1>3, <2>1, OutsideLock
<1>6 CASE M!Find(r)
  <2>1 PICK u \in User, o \in M!Op :
         /\ M!Member(u)
         /\ IF o # "remove" \/ M!Checked(member[u])
            THEN M!Begin(r, "found", o, u, M!Checked(member[u]))
            ELSE M!Begin(r, "purge", Null, u, FALSE)
    BY <1>6 DEF M!Find
  <2>2 PICK v \in M!Row : v = member[u]
    BY <1>t, <2>1 DEF M!TypeOK, M!Member
  <2>3 PICK c \in BOOLEAN : c = M!Checked(member[u])
    BY <2>2 DEF M!Checked, M!Row
  <2>4 M!Begin(r, "found", o, u, c) \/ M!Begin(r, "purge", Null, u, FALSE)
    BY <2>1, <2>3
  <2>5 "found" \in {"join", "found", "purge"} /\ "purge" \in {"join", "found", "purge"}
    OBVIOUS
  <2>6 u \in Invite \cup User \cup {Null} /\ Null \in M!Op \cup {Null} /\ FALSE \in BOOLEAN
       /\ o \in M!Op \cup {Null}
    OBVIOUS
  <2>7 CASE M!Begin(r, "found", o, u, c)
    <3>1 JobsFit' /\ job' \in JobType /\ LockLasts
      BY <1>t, <1>1, <2>5, <2>6, <2>7, BeginFits
    <3> QED
      BY <1>1, <1>2, <1>3, <3>1, OutsideLock
  <2>8 CASE M!Begin(r, "purge", Null, u, FALSE)
    <3>1 JobsFit' /\ job' \in JobType /\ LockLasts
      BY <1>t, <1>1, <2>5, <2>6, <2>8, BeginFits
    <3> QED
      BY <1>1, <1>2, <1>3, <3>1, OutsideLock
  <2> QED
    BY <2>4, <2>7, <2>8
<1> QED
  BY <1>4, <1>5, <1>6

(* What a write makes of a row. *)
LEMMA WrittenIs ==
  ASSUME NEW o \in M!Op, NEW v \in M!Row
  PROVE  /\ M!Written(o, v) \in M!Row
         /\ M!Written(o, v).by = v.by /\ M!Written(o, v).owner = v.owner
<1>1 CASE o = "demote"
  <2>1 M!Written(o, v) = [v EXCEPT !.admin = FALSE]
    BY <1>1 DEF M!Written
  <2> QED
    BY <2>1 DEF M!Row
<1>2 CASE o = "suspend"
  <2>1 M!Written(o, v) = [v EXCEPT !.suspended = TRUE]
    BY <1>2 DEF M!Written
  <2> QED
    BY <2>1 DEF M!Row
<1>3 CASE o = "remove"
  <2>1 M!Written(o, v) = [v EXCEPT !.deleted = TRUE]
    BY <1>3 DEF M!Written
  <2> QED
    BY <2>1 DEF M!Row
<1> QED
  BY <1>1, <1>2, <1>3 DEF M!Op

(* The row a request writes, whether or not it is still there. *)
LEMMA WriteRow ==
  ASSUME MemberTypes, NEW r \in Job, job[r].at \in {"found", "counted"},
         member' = IF M!Member(job[r].on)
                   THEN [member EXCEPT ![job[r].on] = M!Written(job[r].op, @)] ELSE member
  PROVE  \/ member' = member
         \/ \E w \in M!Row : /\ member[job[r].on] # Null
                             /\ member' = [member EXCEPT ![job[r].on] = w]
                             /\ w.by = member[job[r].on].by
                             /\ w.owner = member[job[r].on].owner
<1> USE NoRowIsNull
<1>t M!TypeOK /\ JobsFit
  BY DEF MemberTypes
<1>1 job[r].on \in User /\ job[r].op \in M!Op
  BY <1>t DEF JobsFit
<1>2 CASE M!Member(job[r].on)
  <2>1 PICK v \in M!Row : v = member[job[r].on]
    BY <1>t, <1>1, <1>2 DEF M!TypeOK, M!Member
  <2>2 PICK o \in M!Op : o = job[r].op
    BY <1>1
  <2>3 PICK w : w = M!Written(o, v)
    OBVIOUS
  <2>4 w \in M!Row /\ w.by = v.by /\ w.owner = v.owner
    BY <2>3, WrittenIs
  <2>5 member' = [member EXCEPT ![job[r].on] = w]
    BY <1>2, <2>1, <2>2, <2>3
  <2> QED
    BY <1>2, <2>1, <2>4, <2>5 DEF M!Member
<1> QED
  BY <1>2

LEMMA WritePlainKeeps == ASSUME MemberInv, NEW r \in Job, M!WritePlain(r) PROVE MemberInv'
<1> USE NoRowIsNull
<1>t MemberTypes /\ M!TypeOK /\ JobsFit
  BY DEF MemberInv, MemberTypes
<1>1 PICK u \in User : u = job[r].on
  BY <1>t DEF JobsFit, M!WritePlain
<1>2 /\ root' = root /\ team' = team /\ listed' = listed /\ invite' = invite
     /\ holder' = holder /\ M!End(r) /\ bypass' = (bypass \/ u \in M!Admins)
     /\ member' = IF M!Member(job[r].on)
                  THEN [member EXCEPT ![job[r].on] = M!Written(job[r].op, @)] ELSE member
     /\ job[r].at \in {"found", "counted"}
  BY <1>1 DEF M!WritePlain
<1>3 bypass' \in BOOLEAN /\ (bypass => bypass') /\ (bypass' \/ u \notin M!Admins)
  BY <1>t, <1>2, MarkTypes
<1>4 JobsFit' /\ job' \in JobType /\ LockLasts
  BY <1>t, <1>2, EndFits
<1>5 CASE member' = member
  <2>1 Plain /\ Settled
    BY <1>3, <1>5, SameMembers
  <2> QED
    BY <1>t, <1>2, <1>3, <1>4, <1>5, <2>1, OutsideLock DEF M!TypeOK
<1>6 ASSUME NEW w \in M!Row, member[u] # Null, member' = [member EXCEPT ![u] = w],
            w.by = member[u].by, w.owner = member[u].owner
     PROVE  MemberInv'
  <2>0 w \in M!Row \cup {Null}
    OBVIOUS
  <2>1 Plain /\ Settled
    BY <1>t, <1>3, <1>6, <2>0, RowChanges
  <2>2 member' \in [User -> M!Row \cup {Null}]
    BY <1>t, <1>6, <2>0, RowTypes
  <2> QED
    BY <1>2, <1>3, <1>4, <2>1, <2>2, OutsideLock
<1> QED
  BY <1>t, <1>1, <1>2, <1>5, <1>6, WriteRow

LEMMA PurgeKeeps == ASSUME MemberInv, NEW r \in Job, M!Purge(r) PROVE MemberInv'
<1> USE NoRowIsNull
<1>t MemberTypes /\ M!TypeOK /\ JobsFit
  BY DEF MemberInv, MemberTypes
<1>1 PICK u \in User : u = job[r].on
  BY <1>t DEF JobsFit, M!Purge
<1>2 /\ root' = root /\ team' = team /\ listed' = listed /\ invite' = invite
     /\ holder' = holder /\ M!End(r) /\ bypass' = (bypass \/ u \in M!Admins)
     /\ member' = [member EXCEPT ![u] = Null]
  BY <1>1 DEF M!Purge
<1>3 bypass' \in BOOLEAN /\ (bypass => bypass') /\ (bypass' \/ u \notin M!Admins)
  BY <1>t, <1>2, MarkTypes
<1>4 JobsFit' /\ job' \in JobType /\ LockLasts
  BY <1>t, <1>2, EndFits
<1>5 Plain /\ Settled
  BY <1>t, <1>2, <1>3, RowChanges
<1>6 member' \in [User -> M!Row \cup {Null}]
  BY <1>t, <1>2, RowTypes
<1> QED
  BY <1>2, <1>3, <1>4, <1>5, <1>6, OutsideLock

----------------------------------------------------------------------------
(* A request takes the lock when no one has it: the others are outside.     *)
LEMMA Locking ==
  ASSUME MemberInv, holder = Null
  PROVE  \A x \in Job : job[x].at \notin {"insert", "counted"}
  BY NoRowIsNull DEF MemberInv, OneHolder

LEMMA CheckJoinKeeps == ASSUME MemberInv, NEW r \in Job, M!CheckJoin(r) PROVE MemberInv'
<1> USE NoRowIsNull
<1>t MemberTypes /\ M!TypeOK /\ JobsFit
  BY DEF MemberInv, MemberTypes
<1>0 /\ root' = root /\ team' = team /\ listed' = listed /\ member' = member
     /\ invite' = invite /\ bypass' = bypass /\ holder' = r
  BY DEF M!CheckJoin
<1>1 \A x \in Job : job[x].at \notin {"insert", "counted"}
  BY Locking DEF M!CheckJoin, M!Free
<1>2 PICK v \in [at : {"idle", "join", "insert", "found", "counted", "purge"},
                 op : M!Op \cup {"founder", Null}, on : Invite \cup User \cup {Null},
                 checked : BOOLEAN] : v = job[r]
  BY <1>t DEF M!TypeOK
<1>3 PICK o \in {"founder", Null} :
       /\ o = IF root /\ M!Empty THEN "founder" ELSE Null
       /\ job' = [job EXCEPT ![r] = [v EXCEPT !.at = "insert", !.op = o]]
  <2> DEFINE o == IF root /\ M!Empty THEN "founder" ELSE Null
  <2>1 job' = [job EXCEPT ![r].at = "insert", ![r].op = o]
    BY DEF M!CheckJoin
  <2>2 o \in {"founder", Null}
    OBVIOUS
  <2> HIDE DEF o
  <2>3 job' = [job EXCEPT ![r] = [v EXCEPT !.at = "insert", !.op = o]]
    BY <1>2, <2>1, <1>t DEF M!TypeOK
  <2> QED
    BY <2>2, <2>3 DEF o
<1>4 PICK w : w = [v EXCEPT !.at = "insert", !.op = o]
  OBVIOUS
<1>5 /\ w \in [at : {"idle", "join", "insert", "found", "counted", "purge"},
               op : M!Op \cup {"founder", Null}, on : Invite \cup User \cup {Null},
               checked : BOOLEAN]
     /\ w.at = "insert" /\ w.op = o /\ w.on = v.on
  BY <1>4
<1>6 v.on \in Invite \cup {Null}
  BY <1>t, <1>2 DEF JobsFit, M!CheckJoin
<1>7 job' = [job EXCEPT ![r] = w]
  BY <1>3, <1>4
<1>8 JobsFit' /\ job' \in JobType
  BY <1>t, <1>5, <1>6, <1>7, JobTypes DEF JobType
<1>9 job'[r] = w /\ \A x \in Job : x # r => job'[x] = job[x]
  BY <1>t, <1>7 DEF M!TypeOK
<1>10 MemberTypes'
  BY <1>t, <1>0, <1>8 DEF MemberTypes, M!TypeOK, JobType
<1>11 OneHolder'
  BY <1>0, <1>1, <1>9 DEF OneHolder
<1>12 NotYet'
  <2>1 ASSUME o # "founder", v.on # Null
       PROVE  /\ invite[v.on] # "none"
              /\ \A u \in User : member[u] # Null => member[u].by # v.on
    <3>1 ~(root /\ M!Empty)
      BY <1>3, <2>1
    <3>2 invite[v.on] = "open"
      BY <1>2, <2>1, <3>1 DEF M!CheckJoin, M!Unused
    <3> QED
      BY <2>1, <3>2 DEF MemberInv, UsedInvites
  <2> QED
    BY <1>0, <1>1, <1>5, <1>9, <2>1 DEF NotYet
<1>13 Founds'
  <2>1 ASSUME o = "founder" PROVE root /\ \A u \in User : member[u] = Null
    BY <1>3, <2>1 DEF M!Empty, M!Member
  <2> QED
    BY <1>0, <1>1, <1>5, <1>9, <2>1 DEF Founds
<1>14 UsedInvites' /\ ByOne' /\ RootLives' /\ OneOwner'
  BY <1>0 DEF MemberInv, UsedInvites, ByOne, RootLives, OneOwner
<1>15 M!Admins' = M!Admins
  BY <1>0, SameMembers
<1>16 AdminLeft' /\ OtherLeft'
  BY <1>0, <1>1, <1>5, <1>9, <1>15 DEF MemberInv, AdminLeft, OtherLeft
<1> QED
  BY <1>10, <1>11, <1>12, <1>13, <1>14, <1>16 DEF MemberInv

LEMMA CountAdminsKeeps == ASSUME MemberInv, NEW r \in Job, M!CountAdmins(r) PROVE MemberInv'
<1> USE NoRowIsNull
<1>t MemberTypes /\ M!TypeOK /\ JobsFit
  BY DEF MemberInv, MemberTypes
<1>0 /\ root' = root /\ team' = team /\ listed' = listed /\ member' = member
     /\ invite' = invite /\ bypass' = bypass
  BY DEF M!CountAdmins
<1>1 Plain /\ Settled /\ M!Admins' = M!Admins
  BY <1>0, SameMembers
<1>2 CASE holder' = holder /\ M!End(r)
  <2>1 JobsFit' /\ job' \in JobType /\ LockLasts
    BY <1>t, <1>2, EndFits
  <2> QED
    BY <1>t, <1>0, <1>1, <2>1, OutsideLock DEF M!TypeOK
<1>3 CASE M!Enough(job[r].on) /\ holder' = r /\ job' = [job EXCEPT ![r].at = "counted"]
  <2>1 \A x \in Job : job[x].at \notin {"insert", "counted"}
    BY Locking DEF M!CountAdmins, M!Free
  <2>2 PICK v \in [at : {"idle", "join", "insert", "found", "counted", "purge"},
                   op : M!Op \cup {"founder", Null}, on : Invite \cup User \cup {Null},
                   checked : BOOLEAN] : v = job[r]
    BY <1>t DEF M!TypeOK
  <2>3 PICK w : w = [v EXCEPT !.at = "counted"]
    OBVIOUS
  <2>4 /\ w \in [at : {"idle", "join", "insert", "found", "counted", "purge"},
                 op : M!Op \cup {"founder", Null}, on : Invite \cup User \cup {Null},
                 checked : BOOLEAN]
       /\ w.at = "counted" /\ w.op = v.op /\ w.on = v.on
    BY <2>3
  <2>5 v.on \in User /\ v.op \in M!Op
    BY <1>t, <2>2 DEF JobsFit, M!CountAdmins
  <2>6 job' = [job EXCEPT ![r] = w]
    BY <1>3, <2>2, <2>3
  <2>7 JobsFit' /\ job' \in JobType
    BY <1>t, <2>4, <2>5, <2>6, JobTypes DEF JobType
  <2>8 job'[r] = w /\ \A x \in Job : x # r => job'[x] = job[x]
    BY <1>t, <2>6 DEF M!TypeOK
  <2>9 MemberTypes'
    BY <1>t, <1>0, <1>3, <2>7 DEF MemberTypes, M!TypeOK, JobType
  <2>10 OneHolder'
    BY <1>3, <2>1, <2>8 DEF OneHolder
  <2>11 NotYet' /\ Founds'
    BY <2>1, <2>4, <2>8 DEF NotYet, Founds
  <2>12 UsedInvites' /\ ByOne' /\ RootLives' /\ OneOwner' /\ AdminLeft'
    BY <1>0, <1>1 DEF MemberInv, UsedInvites, ByOne, RootLives, OneOwner, AdminLeft
  <2>13 M!Admins \ {v.on} # {}
    BY <1>3, <2>2 DEF M!Enough
  <2>14 OtherLeft'
    BY <1>1, <2>1, <2>4, <2>8, <2>13 DEF OtherLeft
  <2> QED
    BY <2>9, <2>10, <2>11, <2>12, <2>14 DEF MemberInv
<1> QED
  BY <1>2, <1>3 DEF M!CountAdmins

(* The holder that lets go was alone inside.                                *)
LEMMA Unlocking ==
  ASSUME MemberInv, NEW r \in Job, job[r].at \in {"insert", "counted"},
         NEW w, w.at \notin {"insert", "counted"}, job' = [job EXCEPT ![r] = w]
  PROVE  /\ \A x \in Job : job'[x].at \notin {"insert", "counted"}
         /\ OneHolder' /\ NotYet' /\ Founds' /\ OtherLeft'
<1>1 job'[r] = w /\ \A x \in Job : x # r => job'[x] = job[x]
  BY DEF MemberInv, MemberTypes, M!TypeOK
<1>2 \A x \in Job : job'[x].at \notin {"insert", "counted"}
  BY <1>1 DEF MemberInv, OneHolder
<1> QED
  BY <1>2 DEF OneHolder, NotYet, Founds, OtherLeft

LEMMA InsertKeeps == ASSUME MemberInv, NEW r \in Job, M!Insert(r) PROVE MemberInv'
<1> USE NoRowIsNull
<1>t MemberTypes /\ M!TypeOK /\ JobsFit
  BY DEF MemberInv, MemberTypes
<1>0 /\ root' = root /\ team' = team /\ listed' = listed /\ bypass' = bypass
     /\ holder' = Null /\ job[r].at = "insert"
  BY DEF M!Insert
<1>1 PICK i \in Invite \cup {Null} : i = IF job[r].op = "founder" THEN Null ELSE job[r].on
  BY <1>t, <1>0 DEF JobsFit
<1>2 PICK u \in User : M!NewUser(u, job[r].op = "founder", FALSE, i)
  BY <1>1 DEF M!Insert
<1>3 invite' = IF i # Null /\ invite[i] = "open"
               THEN [invite EXCEPT ![i] = "spent"] ELSE invite
  BY <1>1 DEF M!Insert
<1>4 PICK w : w = [owner |-> job[r].op = "founder", admin |-> FALSE,
                   suspended |-> FALSE, deleted |-> FALSE, by |-> i]
  OBVIOUS
<1>5 w \in M!Row /\ w.by = i /\ (w.owner => job[r].op = "founder")
  BY <1>4 DEF M!Row
<1>6 member[u] = Null /\ member' = [member EXCEPT ![u] = w]
  BY <1>2, <1>4 DEF M!NewUser
<1>7 member'[u] = w /\ \A v \in User : v # u => member'[v] = member[v]
  BY <1>t, <1>6 DEF M!TypeOK
<1>8 job' = [job EXCEPT ![r] = M!Idle] /\ M!Idle.at \notin {"insert", "counted"}
  BY IdleFits DEF M!Insert, M!End
<1>9 OneHolder' /\ NotYet' /\ Founds' /\ OtherLeft'
  BY <1>0, <1>8, Unlocking
<1>10 i # Null =>
        /\ invite[i] # "none"
        /\ \A v \in User : member[v] # Null => member[v].by # i
  BY <1>0, <1>1 DEF MemberInv, NotYet
<1>11 invite' \in [Invite -> {"none", "open", "spent"}] /\ InvitesLast
      /\ (i # Null => invite'[i] = "spent")
  BY <1>t, <1>1, <1>3, <1>10 DEF M!TypeOK, InvitesLast
<1>12 MemberTypes'
  <2>1 JobsFit' /\ job' \in JobType
    BY <1>t, <1>8, IdleFits, JobTypes DEF JobType
  <2>2 member' \in [User -> M!Row \cup {Null}]
    BY <1>t, <1>5, <1>6, RowTypes
  <2> QED
    BY <1>t, <1>0, <1>11, <2>1, <2>2 DEF MemberTypes, M!TypeOK, JobType
<1>13 \A v \in User : member[v] # Null => member[v].by \in Invite \cup {Null}
  BY <1>t DEF M!TypeOK, M!Row
<1>14 UsedInvites'
  <2>1 ASSUME NEW v \in User, member'[v] # Null, member'[v].by # Null
       PROVE  invite'[member'[v].by] = "spent"
    <3>1 CASE v = u
      BY <1>5, <1>7, <1>11, <2>1, <3>1
    <3>2 CASE v # u
      BY <1>7, <1>11, <1>13, <2>1, <3>2 DEF MemberInv, UsedInvites, InvitesLast
    <3> QED
      BY <3>1, <3>2
  <2> QED
    BY <2>1 DEF UsedInvites
<1>15 ByOne'
  <2>1 ASSUME NEW v \in User, v # u, member'[v] # Null, i # Null, member'[v].by = i
       PROVE  FALSE
    BY <1>7, <1>10, <2>1
  <2>2 ASSUME NEW v \in User, NEW x \in User, member'[v] # Null, member'[x] # Null,
              member'[v].by # Null, member'[v].by = member'[x].by
       PROVE  v = x
    <3>1 CASE v # u /\ x # u
      BY <1>7, <2>2, <3>1 DEF MemberInv, ByOne
    <3>2 CASE v = u /\ x # u
      BY <1>5, <1>7, <2>1, <2>2, <3>2
    <3>3 CASE v # u /\ x = u
      BY <1>5, <1>7, <2>1, <2>2, <3>3
    <3> QED
      BY <3>1, <3>2, <3>3
  <2> QED
    BY <2>2 DEF ByOne
<1>16 OneOwner'
  <2>1 CASE job[r].op = "founder"
    <3>1 \A v \in User : v # u => member'[v] = Null
      BY <1>0, <1>7, <2>1 DEF MemberInv, Founds
    <3> QED
      BY <3>1 DEF OneOwner
  <2>2 CASE job[r].op # "founder"
    <3>1 ~w.owner
      BY <1>5, <2>2
    <3> QED
      BY <1>7, <3>1 DEF MemberInv, OneOwner
  <2> QED
    BY <2>1, <2>2
<1>17 RootLives'
  BY <1>0 DEF MemberInv, RootLives
<1>18 M!Admins \subseteq M!Admins'
  <2>1 ASSUME NEW v \in User, v \in M!Admins PROVE v \in M!Admins'
    <3>1 v # u
      BY <1>6, <2>1 DEF M!Admins, M!Member
    <3> QED
      BY <1>7, <2>1, <3>1 DEF M!Admins, M!Member, M!Active
  <2> QED
    BY <2>1 DEF M!Admins
<1>19 AdminLeft'
  BY <1>0, <1>18 DEF MemberInv, AdminLeft
<1> QED
  BY <1>9, <1>12, <1>14, <1>15, <1>16, <1>17, <1>19 DEF MemberInv

LEMMA WriteCheckedKeeps ==
  ASSUME MemberInv, NEW r \in Job, M!WriteChecked(r) PROVE MemberInv'
<1> USE NoRowIsNull
<1>t MemberTypes /\ M!TypeOK /\ JobsFit
  BY DEF MemberInv, MemberTypes
<1>0 /\ root' = root /\ team' = team /\ listed' = listed /\ bypass' = bypass
     /\ invite' = invite /\ holder' = Null /\ job[r].at = "counted"
     /\ member' = IF M!Member(job[r].on)
                  THEN [member EXCEPT ![job[r].on] = M!Written(job[r].op, @)] ELSE member
  BY DEF M!WriteChecked
<1>1 PICK u \in User : u = job[r].on
  BY <1>t, <1>0 DEF JobsFit
<1>2 PICK w \in [at : {"idle", "join", "insert", "found", "counted", "purge"},
                 op : M!Op \cup {"founder", Null}, on : Invite \cup User \cup {Null},
                 checked : BOOLEAN] :
       /\ w = M!Idle \/ w = [at |-> "purge", op |-> Null, on |-> u, checked |-> FALSE]
       /\ job' = [job EXCEPT ![r] = w]
  <2>1 M!Idle \in [at : {"idle", "join", "insert", "found", "counted", "purge"},
                   op : M!Op \cup {"founder", Null}, on : Invite \cup User \cup {Null},
                   checked : BOOLEAN]
    BY IdleFits
  <2>2 [at |-> "purge", op |-> Null, on |-> u, checked |-> FALSE] \in
         [at : {"idle", "join", "insert", "found", "counted", "purge"},
          op : M!Op \cup {"founder", Null}, on : Invite \cup User \cup {Null},
          checked : BOOLEAN]
    OBVIOUS
  <2>3 \/ job' = [job EXCEPT ![r] = M!Idle]
       \/ job' = [job EXCEPT ![r] = [at |-> "purge", op |-> Null, on |-> u, checked |-> FALSE]]
    BY <1>1 DEF M!WriteChecked
  <2> QED
    BY <2>1, <2>2, <2>3
<1>3 w.at \in {"idle", "purge"} /\ (w.at = "purge" => w.on = u)
  BY <1>2, IdleFits
<1>4 OneHolder' /\ NotYet' /\ Founds' /\ OtherLeft'
  BY <1>0, <1>2, <1>3, Unlocking
<1>5 JobsFit' /\ job' \in JobType
  BY <1>t, <1>2, <1>3, JobTypes DEF JobType
<1>6 \/ member' = member
     \/ \E x \in M!Row : /\ member[u] # Null /\ member' = [member EXCEPT ![u] = x]
                         /\ x.by = member[u].by /\ x.owner = member[u].owner
  BY <1>t, <1>0, <1>1, WriteRow
<1>7 member' \in [User -> M!Row \cup {Null}] /\ \A v \in User : v # u => member'[v] = member[v]
  BY <1>t, <1>6 DEF M!TypeOK
<1>8 \A v \in User : member'[v] # Null =>
       member[v] # Null /\ member'[v].by = member[v].by /\ member'[v].owner = member[v].owner
  BY <1>t, <1>6 DEF M!TypeOK
<1>9 MemberTypes'
  BY <1>t, <1>0, <1>5, <1>7 DEF MemberTypes, M!TypeOK, JobType
<1>10 UsedInvites'
  BY <1>0, <1>8 DEF MemberInv, UsedInvites
<1>11 ByOne' /\ OneOwner'
  BY <1>8 DEF MemberInv, ByOne, OneOwner
<1>12 RootLives'
  BY <1>0 DEF MemberInv, RootLives
<1>13 M!Admins \ {u} \subseteq M!Admins'
  <2>1 ASSUME NEW v \in User, v \in M!Admins, v # u PROVE v \in M!Admins'
    BY <1>7, <2>1 DEF M!Admins, M!Member, M!Active
  <2> QED
    BY <2>1 DEF M!Admins
<1>14 AdminLeft'
  BY <1>0, <1>1, <1>13 DEF MemberInv, OtherLeft, AdminLeft
<1> QED
  BY <1>4, <1>9, <1>10, <1>11, <1>12, <1>14 DEF MemberInv

LEMMA MemberStep == ASSUME MemberInv, [M!Next]_members PROVE MemberInv'
<1>1 CASE M!CreateTeam \/ M!DeleteTeam \/ M!ListTeam \/ M!DropTeam
            \/ (\E i \in Invite : M!CreateInvite(i) \/ M!DeleteInvite(i)) \/ UNCHANGED members
  BY <1>1, TeamSteps
<1>2 CASE M!CreateFirstAdmin \/ M!PurgeMember \/ M!CreateMember \/ M!Raise \/ M!LeaveOrReturn
  BY <1>2, CreateFirstAdminKeeps, PurgeMemberKeeps, CreateMemberKeeps, RaiseKeeps,
     LeaveOrReturnKeeps
<1>3 ASSUME NEW r \in Job,
            M!Join(r) \/ M!CheckJoin(r) \/ M!Insert(r) \/ M!Refused(r) \/ M!Find(r)
              \/ M!CountAdmins(r) \/ M!WriteChecked(r) \/ M!WritePlain(r) \/ M!Purge(r)
     PROVE  MemberInv'
  BY <1>3, JoinKeeps, CheckJoinKeeps, InsertKeeps, CountAdminsKeeps, WriteCheckedKeeps,
     WritePlainKeeps, PurgeKeeps
<1> QED
  BY <1>1, <1>2, <1>3 DEF M!Next

(* However sign-ups, external sign-ins, deletions of invites and purges of  *)
(* members interleave, an invite admits one account and an empty instance   *)
(* gets one owner (auth/index.ts:220, auth/external.ts:149).                *)
THEOREM MembersAreAdmittedOnce == Spec => []AdmittedOnce
<1> DEFINE Inv == focus = "members" => MemberInv
<1>1 Init => Inv
  BY MemberInit DEF Init
<1>2 Inv /\ [Next]_vars => Inv'
  BY MemberStep DEF Next, vars
<1>3 Inv => AdmittedOnce
  BY DEF MemberInv, ByOne, OneOwner, AdmittedOnce, M!AdmittedOnce, M!Member
<1> QED
  BY <1>1, <1>2, <1>3, PTL DEF Spec

(* Any number of admins acting on each other leave one who can act, unless  *)
(* one went without the check (teams/members.ts:97).                        *)
THEOREM TenantsKeepAnAdmin == Spec => []AdminRemains
<1> DEFINE Inv == focus = "members" => MemberInv
<1>1 Init => Inv
  BY MemberInit DEF Init
<1>2 Inv /\ [Next]_vars => Inv'
  BY MemberStep DEF Next, vars
<1>3 Inv => AdminRemains
  BY DEF MemberInv, AdminLeft, AdminRemains, M!AdminRemains
<1> QED
  BY <1>1, <1>2, <1>3, PTL DEF Spec

(* The steps of a request after which it has no more to show, and after     *)
(* which what it made has its name.                                         *)
Late == {"enabling", "disabling", "others", "done"}
Ending == {"others", "done"}

AcctType ==
  [pw : C!Id, totp : {"off", "pending", "on"},
   secret : C!Id \cup {Null}, step : 0..MaxStep, codes : SUBSET C!Id,
   deleted : BOOLEAN, lapsed : BOOLEAN, cancel : C!Id \cup {Null},
   suspended : BOOLEAN, listed : BOOLEAN, gone : BOOLEAN]
ReqType == [at : C!Point, by : C!Id \cup {Null}, saw : C!Saw]

(* A request that claims a code has read a secret; one that logs in has     *)
(* read a hash.                                                             *)
HasRead ==
  \A r \in Request :
    /\ req[r].at \in {"enable", "disable", "enabling"} => req[r].saw.secret # Null
    /\ req[r].at \in {"verified", "challenged"} => req[r].saw.pw # Null

CredTypes ==
  /\ C!TypeOK /\ HasRead
  /\ accepted \subseteq ((C!Id \X (0..MaxStep)) \X Request)

Password(i) == session[i] # Null /\ session[i].from = "password"

(* A login that waits for its second factor verified the current password.  *)
WaitsCurrent ==
  \A r \in Request :
    req[r].at = "challenged" /\ r \in challenge => req[r].saw.pw = acct.pw

(* A session without the factor is still to be revoked by a request that    *)
(* keeps another.                                                           *)
FactorFollows ==
  acct.totp = "on" => \A i \in C!Id : Password(i) /\ ~session[i].mfa =>
    \E r \in Request : req[r].at = "others" /\ req[r].by # i

(* Who had a factor accepted has no more to show; what was accepted, and    *)
(* every code and secret in force, was made by a request at its end.        *)
Shown ==
  \A a \in accepted :
    \/ req[a[2]].at \in Late
    \/ req[a[2]].at = "challenged" /\ a[2] \notin challenge
Minted(x) == x = First \/ (x \in Request /\ req[x].at \in Ending)
AllMinted ==
  /\ \A a \in accepted : Minted(a[1][1])
  /\ \A c \in acct.codes : Minted(c)
  /\ acct.secret # Null => Minted(acct.secret)
Unclaimed ==
  /\ \A a \in accepted : a[1][1] = acct.secret => a[1][2] <= acct.step
  /\ \A a \in accepted, c \in acct.codes : a[1] # <<c, 0>>

FactorInv == Shown /\ AllMinted /\ Unclaimed /\ C!FactorSpentOnce
PasswordInv == C!PasswordSessionsCurrent /\ WaitsCurrent

CredInv ==
  /\ CredTypes /\ PasswordInv /\ C!NoLoginToEndedAccount
  /\ FactorFollows /\ FactorInv

(* What a step of any kind does to the points of the requests.              *)
MovesOn ==
  \A r \in Request :
    /\ req[r].at \in Late => req'[r].at \in Late
    /\ req[r].at \in Ending => req'[r].at \in Ending
    /\ req[r].at = "challenged" => req'[r].at \in {"challenged", "done"}
    /\ req[r].at = "challenged" /\ r \notin challenge => r \notin challenge'

(* Sessions are revoked, marked as having the factor, or opened without a   *)
(* password.                                                                *)
Fewer ==
  \A i \in C!Id : session'[i] # Null =>
    \/ session'[i].from # "password"
    \/ /\ session[i] # Null /\ session'[i].from = session[i].from
       /\ session'[i].pw = session[i].pw
       /\ session[i].mfa => session'[i].mfa

LEMMA PasswordKept ==
  ASSUME PasswordInv, Fewer, acct'.pw = acct.pw,
         \A r \in Request : req'[r].at = "challenged" /\ r \in challenge' =>
           req[r].at = "challenged" /\ r \in challenge /\ req'[r].saw.pw = req[r].saw.pw
  PROVE  PasswordInv'
<1>1 C!PasswordSessionsCurrent'
  BY DEF PasswordInv, C!PasswordSessionsCurrent, Fewer
<1>2 WaitsCurrent'
  BY DEF PasswordInv, WaitsCurrent
<1> QED
  BY <1>1, <1>2 DEF PasswordInv

LEMMA EndKept ==
  ASSUME C!NoLoginToEndedAccount, Fewer,
         C!Open => C!Open' \/ \E r \in Request : req'[r].at = "end",
         \A r \in Request : req[r].at = "end" => req'[r].at = "end"
  PROVE  C!NoLoginToEndedAccount'
<1> SUFFICES ASSUME ~C!Open', \A r \in Request : req'[r].at # "end",
                    NEW i \in C!Id, session'[i] # Null, session'[i].from = "password"
             PROVE  FALSE
  BY DEF C!NoLoginToEndedAccount, C!At
<1>1 session[i] # Null /\ session[i].from = "password"
  BY DEF Fewer
<1>2 ~C!Open /\ \A r \in Request : req[r].at # "end"
  OBVIOUS
<1> QED
  BY <1>1, <1>2 DEF C!NoLoginToEndedAccount, C!At

LEMMA FollowsKept ==
  ASSUME CredTypes, CredTypes', FactorFollows, Fewer, acct'.totp = "on" => acct.totp = "on",
         \A r \in Request : req[r].at = "others" => req'[r] = req[r]
  PROVE  FactorFollows'
<1> SUFFICES ASSUME acct'.totp = "on", NEW i \in C!Id, session'[i] # Null,
                    session'[i].from = "password", ~session'[i].mfa
             PROVE  \E r \in Request : req'[r].at = "others" /\ req'[r].by # i
  BY DEF FactorFollows, Password
<1>1 Password(i) /\ ~session[i].mfa
  BY DEF Fewer, Password
<1>2 PICK r \in Request : req[r].at = "others" /\ req[r].by # i
  BY <1>1 DEF FactorFollows
<1> QED
  BY <1>2

LEMMA MintedStays == ASSUME MovesOn, NEW x, Minted(x) PROVE Minted(x)'
  BY DEF MovesOn, Minted

LEMMA ShownStays ==
  ASSUME CredTypes, MovesOn, Shown, NEW a \in accepted
  PROVE  \/ req'[a[2]].at \in Late
         \/ req'[a[2]].at = "challenged" /\ a[2] \notin challenge'
<1>1 PICK r \in Request : r = a[2]
  BY DEF CredTypes
<1>2 req[r].at \in Late \/ (req[r].at = "challenged" /\ r \notin challenge)
  BY <1>1 DEF Shown
<1>3 req'[r].at \in Late \/ (req'[r].at = "challenged" /\ r \notin challenge')
  BY <1>2 DEF MovesOn, Late
<1> QED
  BY <1>1, <1>3

(* Nothing is accepted; the secret and the codes stay, or are new, or go.   *)
LEMMA FactorKept ==
  ASSUME CredTypes, CredTypes', FactorInv, MovesOn, accepted' = accepted,
         \/ acct'.secret = acct.secret /\ acct'.step = acct.step
         \/ acct'.secret = Null
         \/ acct'.secret \in Request /\ req[acct'.secret].at \notin Ending
            /\ req'[acct'.secret].at \in Ending,
         \A c \in acct'.codes : \/ c \in acct.codes
                                \/ /\ c \in Request /\ req[c].at \notin Ending
                                   /\ req'[c].at \in Ending
  PROVE  FactorInv'
<1> USE NoRowIsNull
<1>t Shown /\ AllMinted /\ Unclaimed /\ C!FactorSpentOnce
  BY DEF FactorInv
<1>1 Shown'
  BY <1>t, ShownStays DEF Shown
<1>2 ASSUME NEW a \in accepted PROVE Minted(a[1][1]) /\ Minted(a[1][1])' /\ a[1][1] \in C!Id
  <2>1 Minted(a[1][1])
    BY <1>t DEF AllMinted
  <2>2 a[1][1] \in C!Id
    BY <2>1 DEF Minted, C!Id
  <2> QED
    BY <2>1, <2>2, MintedStays
<1>3 ASSUME NEW c \in acct.codes PROVE Minted(c)'
  BY <1>t, MintedStays DEF AllMinted
<1>4 ASSUME NEW x \in Request, req'[x].at \in Ending PROVE Minted(x)'
  BY <1>4 DEF Minted
<1>6 AllMinted'
  <2>1 \A a \in accepted' : (a[1][1] = First \/ (a[1][1] \in Request /\ req'[a[1][1]].at \in Ending))
    BY <1>2 DEF Minted
  <2>2 \A c \in acct'.codes : (c = First \/ (c \in Request /\ req'[c].at \in Ending))
    BY <1>3 DEF Minted
  <2>3 acct'.secret # Null =>
         (acct'.secret = First \/ (acct'.secret \in Request /\ req'[acct'.secret].at \in Ending))
    <3>1 acct.secret # Null =>
           (acct.secret = First \/ (acct.secret \in Request /\ req'[acct.secret].at \in Ending))
      <4>1 PICK x : x = acct.secret
        OBVIOUS
      <4>2 x # Null => Minted(x)
        BY <1>t, <4>1 DEF AllMinted
      <4>3 x # Null => (x = First \/ (x \in Request /\ req'[x].at \in Ending))
        BY <4>2, MintedStays DEF Minted
      <4> QED
        BY <4>1, <4>3
    <3> QED
      BY <3>1
  <2> QED
    BY <2>1, <2>2, <2>3 DEF AllMinted, Minted
<1>7 \A a \in accepted' : a[1][1] = acct'.secret => a[1][2] <= acct'.step
  <2> SUFFICES ASSUME NEW a \in accepted, a[1][1] = acct'.secret
               PROVE  a[1][2] <= acct'.step
    OBVIOUS
  <2>1 a[1][1] # Null /\ Minted(a[1][1])
    BY <1>2
  <2>2 ~(acct'.secret \in Request /\ req[acct'.secret].at \notin Ending)
    BY <2>1 DEF Minted
  <2>3 acct'.secret = acct.secret /\ acct'.step = acct.step
    BY <2>1, <2>2
  <2> QED
    BY <1>t, <2>3 DEF Unclaimed
<1>8 \A a \in accepted', c \in acct'.codes : a[1] # <<c, 0>>
  <2> SUFFICES ASSUME NEW a \in accepted, NEW c \in acct'.codes, a[1] = <<c, 0>>
               PROVE  FALSE
    OBVIOUS
  <2>1 a[1][1] = c
    OBVIOUS
  <2>2 Minted(c)
    BY <1>2, <2>1
  <2>3 c \in acct.codes
    BY <2>2 DEF Minted
  <2> QED
    BY <1>t, <2>3 DEF Unclaimed
<1>9 C!FactorSpentOnce'
  BY <1>t DEF C!FactorSpentOnce
<1> QED
  BY <1>1, <1>6, <1>7, <1>8, <1>9 DEF FactorInv, Unclaimed

----------------------------------------------------------------------------
(* The four parts of the invariant, for a step that takes one request from  *)
(* a point where it has shown nothing to another.                           *)
Early == C!Point \ {"challenged", "end", "others", "done", "enabling", "disabling"}

LEMMA ReqTypes ==
  ASSUME CredTypes, NEW r \in Request, NEW w \in ReqType, req' = [req EXCEPT ![r] = w],
         w.at \in {"enable", "disable", "enabling"} => w.saw.secret # Null,
         w.at \in {"verified", "challenged"} => w.saw.pw # Null
  PROVE  /\ req' \in [Request -> ReqType] /\ HasRead'
         /\ req'[r] = w /\ \A x \in Request : x # r => req'[x] = req[x]
<1>1 req \in [Request -> ReqType]
  BY DEF CredTypes, C!TypeOK, ReqType
<1>2 req' \in [Request -> ReqType]
     /\ req'[r] = w /\ \A x \in Request : x # r => req'[x] = req[x]
  BY <1>1
<1>3 HasRead'
  BY <1>2 DEF HasRead, CredTypes
<1> QED
  BY <1>2, <1>3

LEMMA EarlyMoves ==
  ASSUME CredTypes, NEW r \in Request, NEW w \in ReqType, req' = [req EXCEPT ![r] = w],
         req[r].at \in Early, w.at # "challenged", challenge' \subseteq challenge \cup {r}
  PROVE  /\ MovesOn
         /\ \A x \in Request : req'[x].at = "challenged" /\ x \in challenge' =>
              req[x].at = "challenged" /\ x \in challenge /\ req'[x].saw.pw = req[x].saw.pw
         /\ \A x \in Request : req[x].at = "end" => req'[x].at = "end"
         /\ \A x \in Request : req[x].at = "others" => req'[x] = req[x]
<1>1 req'[r] = w /\ \A x \in Request : x # r => req'[x] = req[x]
  BY DEF CredTypes, C!TypeOK
<1>2 req[r].at \notin {"challenged", "end", "others", "done", "enabling", "disabling"}
  BY DEF Early
<1>3 MovesOn
  BY <1>1, <1>2 DEF MovesOn, Late, Ending
<1> QED
  BY <1>1, <1>2, <1>3

LEMMA CredTyped ==
  ASSUME acct' \in AcctType, acct'.totp # "off" => acct'.secret # Null,
         session' \in [C!Id -> C!Session \cup {Null}], challenge' \subseteq Request,
         link' \subseteq C!Id, key' \subseteq {"app", "s3"}, passkey' \in BOOLEAN,
         req' \in [Request -> ReqType], HasRead',
         accepted' \subseteq ((C!Id \X (0..MaxStep)) \X Request)
  PROVE  CredTypes'
  BY DEF CredTypes, C!TypeOK, AcctType, ReqType

(* The account's flags may change; it ends only if the request goes on to   *)
(* end its sessions.                                                        *)
LEMMA EarlyKeeps ==
  ASSUME CredInv, NEW r \in Request, NEW w \in ReqType, req' = [req EXCEPT ![r] = w],
         req[r].at \in Early, w.at # "challenged", challenge' \subseteq challenge \cup {r},
         w.at \in {"enable", "disable", "enabling"} => w.saw.secret # Null,
         w.at = "verified" => w.saw.pw # Null,
         Fewer, session' \in [C!Id -> C!Session \cup {Null}],
         link' \subseteq C!Id, key' \subseteq {"app", "s3"}, passkey' \in BOOLEAN,
         acct' \in AcctType, acct'.pw = acct.pw, acct'.totp = acct.totp,
         acct'.secret = acct.secret, acct'.step = acct.step, acct'.codes = acct.codes,
         C!Open => C!Open' \/ w.at = "end",
         accepted' = accepted
  PROVE  CredInv'
<1> USE NoRowIsNull
<1>t CredTypes /\ PasswordInv /\ C!NoLoginToEndedAccount /\ FactorFollows /\ FactorInv
  BY DEF CredInv
<1>1 req' \in [Request -> ReqType] /\ HasRead' /\ req'[r] = w
  BY <1>t, ReqTypes
<1>2 /\ challenge' \subseteq Request
     /\ acct'.totp # "off" => acct'.secret # Null
     /\ accepted' \subseteq ((C!Id \X (0..MaxStep)) \X Request)
  BY <1>t DEF CredTypes, C!TypeOK
<1>3 CredTypes'
  BY <1>1, <1>2, CredTyped
<1>4 /\ MovesOn
     /\ \A x \in Request : req'[x].at = "challenged" /\ x \in challenge' =>
          req[x].at = "challenged" /\ x \in challenge /\ req'[x].saw.pw = req[x].saw.pw
     /\ \A x \in Request : req[x].at = "end" => req'[x].at = "end"
     /\ \A x \in Request : req[x].at = "others" => req'[x] = req[x]
  BY <1>t, EarlyMoves
<1>5 PasswordInv'
  BY <1>t, <1>4, PasswordKept
<1>6 C!Open => C!Open' \/ \E x \in Request : req'[x].at = "end"
  BY <1>1
<1>7 C!NoLoginToEndedAccount'
  BY <1>t, <1>4, <1>6, EndKept
<1>8 FactorFollows'
  BY <1>t, <1>3, <1>4, FollowsKept
<1>9 FactorInv'
  BY <1>t, <1>3, <1>4, FactorKept
<1> QED
  BY <1>3, <1>5, <1>7, <1>8, <1>9 DEF CredInv

(* What becomes of a request that goes on, or ends.                         *)
LEMMA GoesTo ==
  ASSUME CredTypes, NEW r \in Request, NEW p \in C!Point, C!Goto(r, p)
  PROVE  \E w \in ReqType : /\ req' = [req EXCEPT ![r] = w]
                            /\ w.at = p /\ w.by = req[r].by /\ w.saw = req[r].saw
<1>1 PICK v \in ReqType : v = req[r]
  BY DEF CredTypes, C!TypeOK, ReqType
<1> DEFINE w == [v EXCEPT !.at = p]
<1>2 w \in ReqType /\ w.at = p /\ w.by = v.by /\ w.saw = v.saw
  BY DEF ReqType
<1>3 req' = [req EXCEPT ![r] = w]
  BY <1>1 DEF C!Goto
<1> HIDE DEF w
<1> QED
  BY <1>1, <1>2, <1>3

LEMMA Finishes ==
  ASSUME CredTypes, NEW r \in Request, C!Finish(r)
  PROVE  \E w \in ReqType : req' = [req EXCEPT ![r] = w] /\ w.at = "done"
<1> DEFINE w == [at |-> "done", by |-> Null, saw |-> C!Unseen]
<1>1 w \in ReqType /\ w.at = "done"
  BY DEF ReqType, C!Point, C!Saw, C!Unseen
<1>2 req' = [req EXCEPT ![r] = w]
  BY DEF C!Finish
<1> HIDE DEF w
<1> QED
  BY <1>1, <1>2

(* Sessions: as they are, but for some, or with one more.                   *)
LEMMA SessionsSame ==
  ASSUME CredTypes, session' = session
  PROVE  Fewer /\ session' \in [C!Id -> C!Session \cup {Null}]
  BY DEF CredTypes, C!TypeOK, Fewer

LEMMA SessionsRevoked ==
  ASSUME CredTypes, NEW s, C!RevokeSessions(s)
  PROVE  /\ Fewer /\ session' \in [C!Id -> C!Session \cup {Null}]
         /\ \A i \in C!Id : session'[i] = IF i = s THEN session[i] ELSE Null
<1>1 \A i \in C!Id : session'[i] = IF i = s THEN session[i] ELSE Null
  BY DEF C!RevokeSessions
<1>2 session' \in [C!Id -> C!Session \cup {Null}]
  BY DEF CredTypes, C!TypeOK, C!RevokeSessions
<1> QED
  BY <1>1, <1>2 DEF Fewer

LEMMA SessionOpened ==
  ASSUME CredTypes, NEW r \in Request, NEW how \in {"profile", "passkey", "restore"},
         NEW m \in BOOLEAN, C!Issue(r, how, acct.pw, m)
  PROVE  Fewer /\ session' \in [C!Id -> C!Session \cup {Null}]
<1> DEFINE n == [from |-> how, pw |-> acct.pw, mfa |-> m]
<1>1 n \in C!Session /\ n.from # "password"
  BY DEF CredTypes, C!TypeOK, C!Session
<1>2 session' = [session EXCEPT ![r] = n]
  BY DEF C!Issue
<1> HIDE DEF n
<1>3 session \in [C!Id -> C!Session \cup {Null}] /\ r \in C!Id
  BY DEF CredTypes, C!TypeOK, C!Id
<1>4 session'[r] = n /\ \A i \in C!Id : i # r => session'[i] = session[i]
  BY <1>2, <1>3
<1> QED
  BY <1>1, <1>2, <1>3, <1>4 DEF Fewer

LEMMA SessionEnded ==
  ASSUME CredTypes, NEW i \in C!Id, session' = [session EXCEPT ![i] = Null]
  PROVE  Fewer /\ session' \in [C!Id -> C!Session \cup {Null}]
<1>1 session \in [C!Id -> C!Session \cup {Null}]
  BY DEF CredTypes, C!TypeOK
<1>2 session'[i] = Null /\ \A x \in C!Id : x # i => session'[x] = session[x]
  BY <1>1
<1> QED
  BY <1>1, <1>2 DEF Fewer

----------------------------------------------------------------------------
(* The steps that leave the account's row alone.                            *)
LEMMA EarlySame ==
  ASSUME CredInv, NEW r \in Request, NEW w \in ReqType, req' = [req EXCEPT ![r] = w],
         req[r].at \in Early, w.at # "challenged", challenge' \subseteq challenge \cup {r},
         w.at \in {"enable", "disable", "enabling"} => w.saw.secret # Null,
         w.at = "verified" => w.saw.pw # Null,
         Fewer, session' \in [C!Id -> C!Session \cup {Null}],
         link' \subseteq C!Id, key' \subseteq {"app", "s3"}, passkey' \in BOOLEAN,
         acct' = acct, accepted' = accepted
  PROVE  CredInv'
<1>1 acct' \in AcctType /\ (C!Open' <=> C!Open)
  BY DEF CredInv, CredTypes, C!TypeOK, AcctType, C!Open
<1> QED
  BY <1>1, EarlyKeeps

LEMMA Typed ==
  ASSUME CredInv
  PROVE  /\ CredTypes /\ acct \in AcctType /\ acct.pw \in C!Id
         /\ session \in [C!Id -> C!Session \cup {Null}]
         /\ challenge \subseteq Request /\ link \subseteq C!Id
         /\ key \subseteq {"app", "s3"} /\ passkey \in BOOLEAN
         /\ req \in [Request -> ReqType]
         /\ Request \subseteq C!Id
  BY DEF CredInv, CredTypes, C!TypeOK, AcctType, ReqType, C!Id

(* Requests that read, ask or mint, and go on or end.                       *)
LEMMA PlainSteps ==
  ASSUME CredInv, NEW r \in Request,
         \/ C!Rename(r) \/ C!Reissue(r) \/ C!Prune(r) \/ (\E s \in C!Id : C!RevokeOne(r, s))
         \/ C!CreateKey(r) \/ C!DeleteKey(r)
         \/ C!StartPasskey(r) \/ C!FinishPasskey(r) \/ C!StorePasskey(r) \/ C!RemovePasskey(r)
         \/ C!AssertPasskey(r) \/ C!AdmitPasskey(r) \/ C!PasskeySession(r)
         \/ C!ForgotPassword(r) \/ C!IssuePasswordReset(r)
         \/ C!FindToSuspend(r) \/ C!ReadCancelLink(r) \/ C!RestoredSession(r)
  PROVE  CredInv'
<1> USE NoRowIsNull
<1>t /\ CredTypes /\ session \in [C!Id -> C!Session \cup {Null}]
     /\ challenge \subseteq Request /\ link \subseteq C!Id
     /\ key \subseteq {"app", "s3"} /\ passkey \in BOOLEAN /\ Request \subseteq C!Id
  BY Typed
<1>1 acct' = acct /\ accepted' = accepted
  BY DEF C!Rename, C!Reissue, C!Prune, C!RevokeOne, C!CreateKey, C!DeleteKey, C!StartPasskey,
    C!FinishPasskey, C!StorePasskey, C!RemovePasskey, C!AssertPasskey, C!AdmitPasskey,
    C!PasskeySession, C!ForgotPassword, C!IssuePasswordReset, C!FindToSuspend,
    C!ReadCancelLink, C!RestoredSession
<1>2 req[r].at \in Early
  BY DEF Early, C!Point, C!At, C!Rename, C!Reissue, C!Prune, C!RevokeOne, C!CreateKey,
    C!DeleteKey, C!StartPasskey, C!FinishPasskey, C!StorePasskey, C!RemovePasskey,
    C!AssertPasskey, C!AdmitPasskey, C!PasskeySession, C!ForgotPassword,
    C!IssuePasswordReset, C!FindToSuspend, C!ReadCancelLink, C!RestoredSession
<1>3 C!Finish(r) \/ \E p \in C!Point \ {"challenged", "enable", "disable", "enabling", "verified"} : C!Goto(r, p)
  <2>1 {"reissue", "prune", "registering", "store", "others", "asserted", "admitted",
        "mail", "suspend", "restore"} \subseteq
         C!Point \ {"challenged", "enable", "disable", "enabling", "verified"}
    BY DEF C!Point
  <2> QED
    BY <2>1 DEF C!Rename, C!Reissue, C!Prune, C!RevokeOne, C!CreateKey, C!DeleteKey,
      C!StartPasskey, C!FinishPasskey, C!StorePasskey, C!RemovePasskey, C!AssertPasskey,
      C!AdmitPasskey, C!PasskeySession, C!ForgotPassword, C!IssuePasswordReset,
      C!FindToSuspend, C!ReadCancelLink, C!RestoredSession
<1>4 PICK w \in ReqType : req' = [req EXCEPT ![r] = w]
       /\ w.at \notin {"challenged", "enable", "disable", "enabling", "verified"}
  BY <1>t, <1>3, GoesTo, Finishes
<1>5 challenge' \subseteq challenge \cup {r}
  BY DEF C!Rename, C!Reissue, C!Prune, C!RevokeOne, C!CreateKey, C!DeleteKey, C!StartPasskey,
    C!FinishPasskey, C!StorePasskey, C!RemovePasskey, C!AssertPasskey, C!AdmitPasskey,
    C!PasskeySession, C!ForgotPassword, C!IssuePasswordReset, C!FindToSuspend,
    C!ReadCancelLink, C!RestoredSession, C!RevokeCredentials, C!ConsumeMfaChallenge
<1>6 link' \subseteq C!Id /\ key' \subseteq {"app", "s3"} /\ passkey' \in BOOLEAN
  <2>1 CASE C!Rename(r) \/ C!CreateKey(r) \/ C!DeleteKey(r) \/ C!StorePasskey(r)
              \/ C!RemovePasskey(r) \/ C!IssuePasswordReset(r)
    BY <1>t, <2>1 DEF C!Rename, C!RevokeCredentials, C!CreateKey, C!DeleteKey,
      C!StorePasskey, C!RemovePasskey, C!IssuePasswordReset
  <2>2 CASE \/ C!Reissue(r) \/ C!Prune(r) \/ (\E s \in C!Id : C!RevokeOne(r, s))
            \/ C!StartPasskey(r) \/ C!FinishPasskey(r)
            \/ C!AssertPasskey(r) \/ C!AdmitPasskey(r) \/ C!PasskeySession(r)
            \/ C!ForgotPassword(r)
            \/ C!FindToSuspend(r) \/ C!ReadCancelLink(r) \/ C!RestoredSession(r)
    BY <1>t, <2>2 DEF C!Reissue, C!Prune, C!RevokeOne, C!StartPasskey, C!FinishPasskey,
      C!AssertPasskey, C!AdmitPasskey, C!PasskeySession, C!ForgotPassword, C!FindToSuspend,
      C!ReadCancelLink, C!RestoredSession
  <2> QED
    BY <2>1, <2>2
<1>7 Fewer /\ session' \in [C!Id -> C!Session \cup {Null}]
  <2>1 CASE C!Reissue(r)
    <3>1 session' = session \/ C!Issue(r, "profile", acct.pw, FALSE)
      BY <2>1 DEF C!Reissue
    <3>2 "profile" \in {"profile", "passkey", "restore"} /\ FALSE \in BOOLEAN
      OBVIOUS
    <3> QED
      BY <1>t, <3>1, <3>2, SessionsSame, SessionOpened
  <2>2 CASE C!PasskeySession(r)
    <3>1 C!Issue(r, "passkey", acct.pw, TRUE)
      BY <2>2 DEF C!PasskeySession
    <3>2 "passkey" \in {"profile", "passkey", "restore"} /\ TRUE \in BOOLEAN
      OBVIOUS
    <3> QED
      BY <1>t, <3>1, <3>2, SessionOpened
  <2>3 CASE C!RestoredSession(r)
    <3>1 C!Issue(r, "restore", acct.pw, FALSE)
      BY <2>3 DEF C!RestoredSession
    <3>2 "restore" \in {"profile", "passkey", "restore"} /\ FALSE \in BOOLEAN
      OBVIOUS
    <3> QED
      BY <1>t, <3>1, <3>2, SessionOpened
  <2>4 CASE C!Prune(r)
    BY <1>t, <2>4, SessionsRevoked DEF C!Prune
  <2>5 ASSUME NEW s \in C!Id, C!RevokeOne(r, s)
       PROVE  Fewer /\ session' \in [C!Id -> C!Session \cup {Null}]
    BY <1>t, <2>5, SessionEnded DEF C!RevokeOne
  <2>6 CASE \/ C!Rename(r) \/ C!CreateKey(r) \/ C!DeleteKey(r)
            \/ C!StartPasskey(r) \/ C!FinishPasskey(r) \/ C!StorePasskey(r)
            \/ C!RemovePasskey(r) \/ C!AssertPasskey(r) \/ C!AdmitPasskey(r)
            \/ C!ForgotPassword(r) \/ C!IssuePasswordReset(r)
            \/ C!FindToSuspend(r) \/ C!ReadCancelLink(r)
    <3>1 session' = session
      BY <2>6 DEF C!Rename, C!CreateKey, C!DeleteKey, C!StartPasskey, C!FinishPasskey,
        C!StorePasskey, C!RemovePasskey, C!AssertPasskey, C!AdmitPasskey, C!ForgotPassword,
        C!IssuePasswordReset, C!FindToSuspend, C!ReadCancelLink
    <3> QED
      BY <1>t, <3>1, SessionsSame
  <2> QED
    BY <2>1, <2>2, <2>3, <2>4, <2>5, <2>6
<1> QED
  BY <1>1, <1>2, <1>4, <1>5, <1>6, <1>7, EarlySame

(* The steps that put what they read in the request.                        *)
LEMMA LoginKeeps == ASSUME CredInv, NEW r \in Request, C!Login(r) PROVE CredInv'
<1> USE NoRowIsNull
<1>t CredTypes /\ acct.pw \in C!Id /\ req \in [Request -> ReqType] /\ link \subseteq C!Id
     /\ key \subseteq {"app", "s3"} /\ passkey \in BOOLEAN
  BY Typed
<1>1 PICK v \in ReqType : v = req[r]
  BY <1>t
<1>2 PICK q \in C!Saw : q = v.saw
  BY DEF ReqType
<1> DEFINE w == [v EXCEPT !.at = "verified", !.saw = [q EXCEPT !.pw = acct.pw]]
<1>3 w \in ReqType /\ w.at = "verified" /\ w.saw.pw # Null
  <2>1 [q EXCEPT !.pw = acct.pw] \in C!Saw /\ [q EXCEPT !.pw = acct.pw].pw = acct.pw
    BY <1>t DEF C!Saw
  <2>2 acct.pw # Null /\ "verified" \in C!Point
    BY <1>t DEF C!Point
  <2> QED
    BY <2>1, <2>2 DEF ReqType
<1>4 req' = [req EXCEPT ![r] = w]
  BY <1>1, <1>2, <1>t DEF C!Login, ReqType
<1> HIDE DEF w
<1>5 /\ req[r].at \in Early /\ acct' = acct /\ session' = session /\ challenge' = challenge
     /\ link' = link /\ key' = key /\ passkey' = passkey /\ accepted' = accepted
  BY DEF C!Login, C!At, Early, C!Point
<1>6 Fewer /\ session' \in [C!Id -> C!Session \cup {Null}]
  BY <1>t, <1>5, SessionsSame
<1> QED
  BY <1>t, <1>3, <1>4, <1>5, <1>6, EarlySame

LEMMA ReadLinkKeeps == ASSUME CredInv, NEW r \in Request, C!ReadLink(r) PROVE CredInv'
<1> USE NoRowIsNull
<1>t CredTypes /\ req \in [Request -> ReqType] /\ link \subseteq C!Id
     /\ key \subseteq {"app", "s3"} /\ passkey \in BOOLEAN
  BY Typed
<1>1 PICK v \in ReqType : v = req[r]
  BY <1>t
<1>2 PICK q \in C!Saw : q = v.saw
  BY DEF ReqType
<1>3 PICK l \in link : req' = [req EXCEPT ![r].at = "reset", ![r].saw.link = l]
  BY DEF C!ReadLink
<1> DEFINE w == [v EXCEPT !.at = "reset", !.saw = [q EXCEPT !.link = l]]
<1>4 w \in ReqType /\ w.at = "reset"
  <2>1 [q EXCEPT !.link = l] \in C!Saw /\ "reset" \in C!Point
    BY <1>t DEF C!Saw, C!Point
  <2> QED
    BY <2>1 DEF ReqType
<1>5 req' = [req EXCEPT ![r] = w]
  BY <1>1, <1>2, <1>3, <1>t DEF ReqType
<1> HIDE DEF w
<1>6 /\ req[r].at \in Early /\ acct' = acct /\ session' = session /\ challenge' = challenge
     /\ link' = link /\ key' = key /\ passkey' = passkey /\ accepted' = accepted
  BY DEF C!ReadLink, C!At, Early, C!Point
<1>7 Fewer /\ session' \in [C!Id -> C!Session \cup {Null}]
  BY <1>t, <1>6, SessionsSame
<1> QED
  BY <1>t, <1>4, <1>5, <1>6, <1>7, EarlySame

LEMMA BeginKeeps ==
  ASSUME CredInv, NEW r \in Request, NEW s \in C!Id \cup {Null}, C!Begin(r, s)
  PROVE  CredInv'
<1> USE NoRowIsNull
<1>t CredTypes /\ acct \in AcctType /\ req \in [Request -> ReqType] /\ link \subseteq C!Id
     /\ key \subseteq {"app", "s3"} /\ passkey \in BOOLEAN
  BY Typed
<1>1 PICK o \in {"rename", "reissue", "password", "delete", "setup", "enable",
                 "disable", "codes", "others", "signout", "key", "register", "remove"} :
       /\ C!Ready(o)
       /\ req' = [req EXCEPT ![r] =
            [at |-> o, by |-> IF o \in C!Lasting THEN s ELSE Null,
             saw |-> [C!Unseen EXCEPT
               !.pw = IF o = "password" THEN acct.pw ELSE Null,
               !.secret = IF o \in {"enable", "disable"} THEN acct.secret ELSE Null]]]
  BY DEF C!Begin
<1>2 PICK b \in C!Id \cup {Null} : b = IF o \in C!Lasting THEN s ELSE Null
  OBVIOUS
<1>3 PICK p \in C!Id \cup {Null} : p = IF o = "password" THEN acct.pw ELSE Null
  BY <1>t DEF AcctType
<1>4 PICK c \in C!Id \cup {Null} : c = IF o \in {"enable", "disable"} THEN acct.secret ELSE Null
  BY <1>t DEF AcctType
<1> DEFINE q == [C!Unseen EXCEPT !.pw = p, !.secret = c]
           w == [at |-> o, by |-> b, saw |-> q]
<1>5 q \in C!Saw /\ q.secret = c
  BY DEF C!Saw, C!Unseen
<1>6 req' = [req EXCEPT ![r] = w]
  BY <1>1, <1>2, <1>3, <1>4
<1> HIDE DEF q
<1>7 w \in ReqType /\ w.at = o /\ w.saw = q
  BY <1>5 DEF ReqType, C!Point
<1> HIDE DEF w
<1>8 o \in {"enable", "disable"} => c # Null
  BY <1>t, <1>1, <1>4 DEF C!Ready, CredTypes, C!TypeOK
<1>9 /\ req[r].at \in Early /\ acct' = acct /\ session' = session /\ challenge' = challenge
     /\ link' = link /\ key' = key /\ passkey' = passkey /\ accepted' = accepted
  BY DEF C!Begin, C!At, Early, C!Point
<1>10 Fewer /\ session' \in [C!Id -> C!Session \cup {Null}]
  BY <1>t, <1>9, SessionsSame
<1>11 w.at \in {"enable", "disable", "enabling"} => w.saw.secret # Null
  BY <1>5, <1>7, <1>8
<1>12 w.at # "challenged" /\ w.at # "verified"
  BY <1>7
<1> QED
  BY <1>t, <1>6, <1>7, <1>9, <1>10, <1>11, <1>12, EarlySame

----------------------------------------------------------------------------
(* The steps that close or reopen the account.                              *)
LEMMA FlagSteps ==
  ASSUME CredInv, NEW r \in Request,
         C!ScheduleDeletion(r) \/ C!Suspend(r) \/ C!Unsuspend(r) \/ C!Restore(r)
  PROVE  CredInv'
<1> USE NoRowIsNull
<1>t /\ CredTypes /\ acct \in AcctType
     /\ link \subseteq C!Id /\ key \subseteq {"app", "s3"} /\ passkey \in BOOLEAN
     /\ Request \subseteq C!Id
  BY Typed
<1>1 /\ accepted' = accepted /\ session' = session /\ challenge' = challenge
     /\ link' = link /\ key' = key /\ passkey' = passkey
  BY DEF C!ScheduleDeletion, C!Suspend, C!Unsuspend, C!Restore
<1>2 Fewer /\ session' \in [C!Id -> C!Session \cup {Null}]
  BY <1>t, <1>1, SessionsSame
<1>3 req[r].at \in Early
  BY DEF Early, C!Point, C!At, C!ScheduleDeletion, C!Suspend, C!Unsuspend, C!Restore
<1>a PICK a \in AcctType : a = acct
  BY <1>t
<1>4 /\ acct' \in AcctType /\ acct'.pw = acct.pw /\ acct'.totp = acct.totp
     /\ acct'.secret = acct.secret /\ acct'.step = acct.step /\ acct'.codes = acct.codes
  <2>1 CASE C!ScheduleDeletion(r)
    <3>1 acct' = [a EXCEPT !.deleted = TRUE, !.lapsed = FALSE, !.cancel = r]
      BY <1>a, <2>1 DEF C!ScheduleDeletion
    <3> QED
      BY <1>a, <1>t, <3>1 DEF AcctType
  <2>2 CASE C!Suspend(r)
    <3>1 acct' = [a EXCEPT !.suspended = TRUE]
      BY <1>a, <2>2 DEF C!Suspend
    <3> QED
      BY <1>a, <1>t, <3>1 DEF AcctType
  <2>3 CASE C!Unsuspend(r)
    <3>1 acct' = [a EXCEPT !.suspended = FALSE]
      BY <1>a, <2>3 DEF C!Unsuspend
    <3> QED
      BY <1>a, <1>t, <3>1 DEF AcctType
  <2>4 CASE C!Restore(r)
    <3>1 acct' = [a EXCEPT !.deleted = FALSE, !.lapsed = FALSE, !.cancel = Null]
      BY <1>a, <2>4 DEF C!Restore
    <3> QED
      BY <1>a, <1>t, <3>1 DEF AcctType
  <2> QED
    BY <2>1, <2>2, <2>3, <2>4
<1>5 CASE C!ScheduleDeletion(r) \/ C!Suspend(r)
  <2>1 "end" \in C!Point /\ C!Goto(r, "end")
    BY <1>5 DEF C!Point, C!ScheduleDeletion, C!Suspend
  <2>2 PICK w \in ReqType : req' = [req EXCEPT ![r] = w] /\ w.at = "end"
    BY <1>t, <2>1, GoesTo
  <2> QED
    BY <1>t, <1>1, <1>2, <1>3, <1>4, <2>2, EarlyKeeps
<1>6 CASE C!Unsuspend(r) \/ C!Restore(r)
  <2>1 "restored" \in C!Point /\ (C!Finish(r) \/ C!Goto(r, "restored"))
    BY <1>6 DEF C!Point, C!Unsuspend, C!Restore
  <2>2 PICK w \in ReqType : req' = [req EXCEPT ![r] = w] /\ w.at \in {"done", "restored"}
    BY <1>t, <2>1, GoesTo, Finishes
  <2>3 C!Open => C!Open'
    BY <1>t, <1>6 DEF AcctType, C!Unsuspend, C!Restore, C!Open
  <2> QED
    BY <1>t, <1>1, <1>2, <1>3, <1>4, <2>2, <2>3, EarlyKeeps
<1> QED
  BY <1>5, <1>6

(* Time and sweeps: no request moves.                                       *)
LEMMA TimeSteps ==
  ASSUME CredInv, C!Lapse \/ C!Expire \/ C!ListExpired \/ UNCHANGED credentials
  PROVE  CredInv'
<1> USE NoRowIsNull
<1>t /\ CredTypes /\ acct \in AcctType /\ session \in [C!Id -> C!Session \cup {Null}]
     /\ challenge \subseteq Request /\ link \subseteq C!Id
     /\ key \subseteq {"app", "s3"} /\ passkey \in BOOLEAN /\ req \in [Request -> ReqType]
  BY Typed
<1>i PasswordInv /\ C!NoLoginToEndedAccount /\ FactorFollows /\ FactorInv
  BY DEF CredInv
<1>1 req' = req /\ accepted' = accepted /\ key' = key /\ passkey' = passkey
  BY DEF C!Lapse, C!Expire, C!ListExpired, credentials
<1>2 challenge' \subseteq challenge /\ link' \subseteq link
  BY DEF C!Lapse, C!Expire, C!ListExpired, credentials
<1>a PICK a \in AcctType : a = acct
  BY <1>t
<1>3 /\ acct' \in AcctType /\ acct'.pw = acct.pw /\ acct'.totp = acct.totp
     /\ acct'.secret = acct.secret /\ acct'.step = acct.step /\ acct'.codes = acct.codes
     /\ (C!Open => C!Open')
  <2>1 CASE C!Lapse
    <3>1 acct' = [a EXCEPT !.lapsed = TRUE]
      BY <1>a, <2>1 DEF C!Lapse
    <3> QED
      BY <1>a, <3>1 DEF AcctType, C!Open
  <2>2 CASE C!ListExpired
    <3>1 acct' = [a EXCEPT !.listed = TRUE]
      BY <1>a, <2>2 DEF C!ListExpired
    <3> QED
      BY <1>a, <3>1 DEF AcctType, C!Open
  <2>3 CASE C!Expire \/ UNCHANGED credentials
    BY <1>t, <2>3 DEF C!Expire, credentials, C!Open
  <2> QED
    BY <2>1, <2>2, <2>3
<1>4 Fewer /\ session' \in [C!Id -> C!Session \cup {Null}]
  <2>1 session' = session \/ \E i \in C!Id : session' = [session EXCEPT ![i] = Null]
    BY DEF C!Lapse, C!Expire, C!ListExpired, credentials
  <2> QED
    BY <1>t, <2>1, SessionsSame, SessionEnded
<1>5 CredTypes'
  <2>1 HasRead' /\ (acct'.totp # "off" => acct'.secret # Null)
       /\ accepted' \subseteq ((C!Id \X (0..MaxStep)) \X Request)
    BY <1>t, <1>1, <1>3 DEF CredTypes, HasRead, C!TypeOK
  <2> QED
    BY <1>t, <1>1, <1>2, <1>3, <1>4, <2>1, CredTyped
<1>6 MovesOn
  BY <1>1, <1>2 DEF MovesOn
<1>7 PasswordInv'
  BY <1>i, <1>1, <1>2, <1>3, <1>4, PasswordKept
<1>8 C!NoLoginToEndedAccount'
  BY <1>i, <1>1, <1>3, <1>4, EndKept
<1>9 FactorFollows'
  BY <1>t, <1>i, <1>1, <1>3, <1>4, <1>5, FollowsKept
<1>10 FactorInv'
  BY <1>t, <1>i, <1>1, <1>3, <1>5, <1>6, FactorKept
<1> QED
  BY <1>5, <1>7, <1>8, <1>9, <1>10 DEF CredInv

(* The purge leaves no session, and no request with a step to take.         *)
LEMMA PurgeUserKeeps == ASSUME CredInv, C!PurgeUser PROVE CredInv'
<1> USE NoRowIsNull
<1>t CredTypes /\ acct \in AcctType /\ req \in [Request -> ReqType]
  BY Typed
<1>1 /\ \A i \in C!Id : session'[i] = Null
     /\ \A r \in Request : req'[r].at = "done"
     /\ challenge' = {} /\ key' = {} /\ link' = {} /\ passkey' = FALSE /\ accepted' = accepted
  BY DEF C!PurgeUser
<1>2 /\ acct' \in AcctType /\ acct'.pw = acct.pw /\ acct'.totp = acct.totp
     /\ acct'.secret = acct.secret /\ acct'.step = acct.step /\ acct'.codes = acct.codes
  BY <1>t DEF AcctType, C!PurgeUser
<1>3 session' \in [C!Id -> C!Session \cup {Null}]
  BY DEF C!PurgeUser
<1>4 req' \in [Request -> ReqType]
  <2>1 [at |-> "done", by |-> Null, saw |-> C!Unseen] \in ReqType
    BY DEF ReqType, C!Point, C!Saw, C!Unseen
  <2> QED
    BY <2>1 DEF C!PurgeUser
<1>5 HasRead' /\ (acct'.totp # "off" => acct'.secret # Null)
     /\ accepted' \subseteq ((C!Id \X (0..MaxStep)) \X Request)
  BY <1>t, <1>1, <1>2 DEF CredTypes, HasRead, C!TypeOK
<1>6 challenge' \subseteq Request /\ link' \subseteq C!Id /\ key' \subseteq {"app", "s3"}
     /\ passkey' \in BOOLEAN
  BY <1>1
<1>7 CredTypes'
  BY <1>2, <1>3, <1>4, <1>5, <1>6, CredTyped
<1>8 PasswordInv' /\ C!NoLoginToEndedAccount' /\ FactorFollows'
  BY <1>1 DEF PasswordInv, C!PasswordSessionsCurrent, WaitsCurrent, C!NoLoginToEndedAccount,
    FactorFollows, Password
<1>9 MovesOn
  BY <1>1 DEF MovesOn, Late, Ending
<1>10 FactorInv'
  BY <1>t, <1>1, <1>2, <1>7, <1>9, FactorKept DEF CredInv
<1> QED
  BY <1>7, <1>8, <1>10 DEF CredInv

----------------------------------------------------------------------------
(* Steps of one request from any point, with what each part needs.          *)
LEMMA OtherMoves ==
  ASSUME CredTypes, NEW r \in Request, NEW w \in ReqType, req' = [req EXCEPT ![r] = w],
         req[r].at \in Late => w.at \in Late,
         req[r].at \in Ending => w.at \in Ending,
         req[r].at = "challenged" => w.at \in {"challenged", "done"},
         challenge' \subseteq challenge \/ (req[r].at # "challenged" /\ challenge' \subseteq challenge \cup {r})
  PROVE  MovesOn
<1>1 req'[r] = w /\ \A x \in Request : x # r => req'[x] = req[x]
  BY DEF CredTypes, C!TypeOK
<1> QED
  BY <1>1 DEF MovesOn

LEMMA RowsTyped ==
  ASSUME CredTypes, NEW r \in Request, NEW w \in ReqType, req' = [req EXCEPT ![r] = w],
         w.at \in {"enable", "disable", "enabling"} => w.saw.secret # Null,
         w.at = "challenged" => req[r].at \in {"verified", "challenged"} /\ w.saw = req[r].saw,
         w.at # "verified",
         acct' \in AcctType, acct'.totp # "off" => acct'.secret # Null,
         session' \in [C!Id -> C!Session \cup {Null}], challenge' \subseteq Request,
         link' \subseteq link, key' \subseteq key, passkey' = passkey,
         accepted' \subseteq ((C!Id \X (0..MaxStep)) \X Request)
  PROVE  CredTypes' /\ req'[r] = w /\ \A x \in Request : x # r => req'[x] = req[x]
<1>1 w.at \in {"verified", "challenged"} => w.saw.pw # Null
  BY DEF CredTypes, HasRead
<1>2 /\ req' \in [Request -> ReqType] /\ HasRead'
     /\ req'[r] = w /\ \A x \in Request : x # r => req'[x] = req[x]
  BY <1>1, ReqTypes
<1>3 link' \subseteq C!Id /\ key' \subseteq {"app", "s3"} /\ passkey' \in BOOLEAN
  BY DEF CredTypes, C!TypeOK
<1>4 CredTypes'
  BY <1>2, <1>3, CredTyped
<1> QED
  BY <1>2, <1>4

(* A login opens a session with the password it verified, if it is still    *)
(* the one, or waits for the second factor.                                 *)
LEMMA FinishLoginKeeps == ASSUME CredInv, NEW r \in Request, C!FinishLogin(r) PROVE CredInv'
<1> USE NoRowIsNull
<1>t /\ CredTypes /\ acct \in AcctType /\ acct.pw \in C!Id
     /\ session \in [C!Id -> C!Session \cup {Null}]
     /\ challenge \subseteq Request /\ link \subseteq C!Id
     /\ key \subseteq {"app", "s3"} /\ passkey \in BOOLEAN /\ Request \subseteq C!Id
  BY Typed
<1>i PasswordInv /\ C!NoLoginToEndedAccount /\ FactorFollows /\ FactorInv
  BY DEF CredInv
<1>1 /\ req[r].at = "verified" /\ acct' = acct /\ link' = link /\ key' = key
     /\ passkey' = passkey /\ accepted' = accepted
  BY DEF C!FinishLogin, C!At
<1>2 CASE /\ C!Admits(r) /\ acct.totp = "on" /\ challenge' = challenge \cup {r}
          /\ C!Goto(r, "challenged") /\ session' = session
  <2>1 "challenged" \in C!Point
    BY DEF C!Point
  <2>2 PICK w \in ReqType : req' = [req EXCEPT ![r] = w] /\ w.at = "challenged"
         /\ w.saw = req[r].saw
    BY <1>t, <1>2, <2>1, GoesTo
  <2>3 Fewer /\ session' \in [C!Id -> C!Session \cup {Null}]
    BY <1>t, <1>2, SessionsSame
  <2>4 challenge' \subseteq Request /\ (acct'.totp # "off" => acct'.secret # Null)
       /\ accepted' \subseteq ((C!Id \X (0..MaxStep)) \X Request) /\ acct' \in AcctType
    BY <1>t, <1>1, <1>2 DEF CredTypes, C!TypeOK
  <2>5 CredTypes' /\ req'[r] = w /\ \A x \in Request : x # r => req'[x] = req[x]
    BY <1>t, <1>1, <2>2, <2>3, <2>4, RowsTyped
  <2>6 MovesOn
    BY <1>t, <1>1, <1>2, <2>2, OtherMoves DEF Late, Ending
  <2>7 PasswordInv'
    <3>1 C!PasswordSessionsCurrent'
      BY <1>i, <1>1, <1>2 DEF PasswordInv, C!PasswordSessionsCurrent
    <3>2 w.saw.pw = acct.pw
      BY <1>2, <2>2 DEF C!Admits, C!SamePassword
    <3>3 WaitsCurrent'
      BY <1>i, <1>1, <1>2, <2>2, <2>5, <3>2 DEF PasswordInv, WaitsCurrent
    <3> QED
      BY <3>1, <3>3 DEF PasswordInv
  <2>8 C!NoLoginToEndedAccount'
    <3>1 \A x \in Request : req[x].at = "end" => req'[x].at = "end"
      BY <1>1, <2>5
    <3>2 C!Open => C!Open'
      BY <1>1 DEF C!Open
    <3> QED
      BY <1>i, <2>3, <3>1, <3>2, EndKept
  <2>9 \A x \in Request : req[x].at = "others" => req'[x] = req[x]
    BY <1>1, <2>5
  <2>10 FactorFollows'
    BY <1>t, <1>i, <1>1, <2>3, <2>5, <2>9, FollowsKept
  <2>11 FactorInv'
    BY <1>t, <1>i, <1>1, <2>5, <2>6, FactorKept
  <2> QED
    BY <2>5, <2>7, <2>8, <2>10, <2>11 DEF CredInv
<1>3 CASE /\ C!Admits(r) /\ acct.totp # "on" /\ C!Issue(r, "password", req[r].saw.pw, FALSE)
          /\ C!Finish(r) /\ challenge' = challenge
  <2>1 PICK w \in ReqType : req' = [req EXCEPT ![r] = w] /\ w.at = "done"
    BY <1>t, <1>3, Finishes
  <2> DEFINE n == [from |-> "password", pw |-> acct.pw, mfa |-> FALSE]
  <2>2 n \in C!Session /\ n.pw = acct.pw
    BY <1>t DEF C!Session
  <2>3 session' = [session EXCEPT ![r] = n]
    BY <1>3 DEF C!Issue, C!Admits, C!SamePassword
  <2> HIDE DEF n
  <2>4 session' \in [C!Id -> C!Session \cup {Null}]
       /\ session'[r] = n /\ \A i \in C!Id : i # r => session'[i] = session[i]
    BY <1>t, <2>2, <2>3
  <2>5 challenge' \subseteq Request /\ (acct'.totp # "off" => acct'.secret # Null)
       /\ accepted' \subseteq ((C!Id \X (0..MaxStep)) \X Request) /\ acct' \in AcctType
    BY <1>t, <1>1, <1>3 DEF CredTypes, C!TypeOK
  <2>6 CredTypes' /\ req'[r] = w /\ \A x \in Request : x # r => req'[x] = req[x]
    BY <1>t, <1>1, <2>1, <2>4, <2>5, RowsTyped
  <2>7 MovesOn
    BY <1>t, <1>1, <1>3, <2>1, OtherMoves DEF Late, Ending
  <2>8 PasswordInv'
    <3>1 C!PasswordSessionsCurrent'
      BY <1>i, <1>1, <2>2, <2>4 DEF PasswordInv, C!PasswordSessionsCurrent
    <3>2 WaitsCurrent'
      BY <1>i, <1>1, <1>3, <2>1, <2>6 DEF PasswordInv, WaitsCurrent
    <3> QED
      BY <3>1, <3>2 DEF PasswordInv
  <2>9 C!NoLoginToEndedAccount'
    <3>1 C!Open'
      BY <1>1, <1>3 DEF C!Admits, C!Open
    <3> QED
      BY <3>1 DEF C!NoLoginToEndedAccount
  <2>10 FactorFollows'
    BY <1>1, <1>3 DEF FactorFollows
  <2>11 FactorInv'
    BY <1>t, <1>i, <1>1, <2>6, <2>7, FactorKept
  <2> QED
    BY <2>6, <2>8, <2>9, <2>10, <2>11 DEF CredInv
<1>4 CASE C!Finish(r) /\ session' = session /\ challenge' = challenge
  <2>1 PICK w \in ReqType : req' = [req EXCEPT ![r] = w] /\ w.at = "done"
    BY <1>t, <1>4, Finishes
  <2>2 Fewer /\ session' \in [C!Id -> C!Session \cup {Null}]
    BY <1>t, <1>4, SessionsSame
  <2>3 req[r].at \in Early
    BY <1>1 DEF Early, C!Point
  <2> QED
    BY <1>t, <1>1, <1>4, <2>1, <2>2, <2>3, EarlySame
<1> QED
  BY <1>2, <1>3, <1>4 DEF C!FinishLogin

----------------------------------------------------------------------------
(* A request that can still show a factor has shown none.                   *)
LEMMA Showing ==
  ASSUME CredTypes, Shown, NEW r \in Request, req[r].at \notin Late,
         req[r].at = "challenged" => r \in challenge
  PROVE  \A a \in accepted : a[2] # r
  BY DEF Shown

(* A later step of the secret in force is accepted.                         *)
LEMMA StepAccepted ==
  ASSUME CredTypes, FactorInv, MovesOn, NEW r \in Request, req[r].at \notin Late,
         req[r].at = "challenged" => r \in challenge,
         \/ req'[r].at \in Late
         \/ req'[r].at = "challenged" /\ r \notin challenge',
         acct.secret # Null, NEW n \in 1..MaxStep, n > acct.step,
         acct'.secret = acct.secret, acct'.step = n, acct'.codes = acct.codes,
         accepted' = accepted \cup {<<<<acct.secret, n>>, r>>}
  PROVE  FactorInv'
<1> USE NoRowIsNull
<1>t Shown /\ AllMinted /\ Unclaimed /\ C!FactorSpentOnce /\ acct.step \in 0..MaxStep
  BY DEF FactorInv, CredTypes, C!TypeOK
<1>0 PICK s : s = acct.secret
  OBVIOUS
<1> DEFINE b == <<<<s, n>>, r>>
<1>1 b[1] = <<s, n>> /\ b[2] = r /\ b[1][1] = s /\ b[1][2] = n
  OBVIOUS
<1>2 accepted' = accepted \cup {b}
  BY <1>0
<1> HIDE DEF b
<1>3 Shown'
  <2>1 \A a \in accepted : \/ req'[a[2]].at \in Late
                           \/ req'[a[2]].at = "challenged" /\ a[2] \notin challenge'
    BY <1>t, ShownStays
  <2> QED
    BY <1>1, <1>2, <2>1 DEF Shown
<1>4 Minted(s)
  BY <1>t, <1>0 DEF AllMinted
<1>5 \A x : Minted(x) => (x = First \/ (x \in Request /\ req'[x].at \in Ending))
  BY MintedStays DEF Minted
<1>6 AllMinted'
  <2>1 \A a \in accepted' : a[1][1] = First \/ (a[1][1] \in Request /\ req'[a[1][1]].at \in Ending)
    BY <1>t, <1>1, <1>2, <1>4, <1>5 DEF AllMinted
  <2>2 \A c \in acct'.codes : c = First \/ (c \in Request /\ req'[c].at \in Ending)
    BY <1>t, <1>5 DEF AllMinted
  <2>3 acct'.secret = First \/ (acct'.secret \in Request /\ req'[acct'.secret].at \in Ending)
    BY <1>0, <1>4, <1>5
  <2> QED
    BY <2>1, <2>2, <2>3 DEF AllMinted, Minted
<1>7 \A a \in accepted' : a[1][1] = acct'.secret => a[1][2] <= acct'.step
  <2>1 ASSUME NEW a \in accepted, a[1][1] = s PROVE a[1][2] <= n
    <3>1 a[1][2] \in 0..MaxStep /\ a[1][2] <= acct.step
      BY <1>t, <1>0, <2>1 DEF CredTypes, Unclaimed
    <3> QED
      BY <1>t, <3>1
  <2> QED
    BY <1>0, <1>1, <1>2, <2>1
<1>8 \A a \in accepted', c \in acct'.codes : a[1] # <<c, 0>>
  <2>1 \A c : b[1] # <<c, 0>>
    BY <1>1
  <2> QED
    BY <1>t, <1>2, <2>1 DEF Unclaimed
<1>9 C!FactorSpentOnce'
  <2>1 ASSUME NEW a \in accepted PROVE a[1] # b[1] /\ a[2] # b[2]
    <3>1 a[2] # r
      BY <1>t, Showing
    <3>2 a[1] # <<s, n>>
      <4>1 SUFFICES ASSUME a[1] = <<s, n>> PROVE FALSE
        OBVIOUS
      <4>2 a[1][1] = s /\ a[1][2] = n
        BY <4>1
      <4> QED
        BY <1>t, <1>0, <4>2 DEF Unclaimed
    <3> QED
      BY <1>1, <3>1, <3>2
  <2> QED
    BY <1>t, <1>2, <2>1 DEF C!FactorSpentOnce
<1> QED
  BY <1>3, <1>6, <1>7, <1>8, <1>9 DEF FactorInv, Unclaimed

(* A backup code is accepted, and taken from those in force.                *)
LEMMA CodeAccepted ==
  ASSUME CredTypes, FactorInv, MovesOn, NEW r \in Request, req[r].at \notin Late,
         req[r].at = "challenged" => r \in challenge,
         \/ req'[r].at \in Late
         \/ req'[r].at = "challenged" /\ r \notin challenge',
         NEW c \in acct.codes,
         acct'.secret = acct.secret, acct'.step = acct.step, acct'.codes = acct.codes \ {c},
         accepted' = accepted \cup {<<<<c, 0>>, r>>}
  PROVE  FactorInv'
<1> USE NoRowIsNull
<1>t Shown /\ AllMinted /\ Unclaimed /\ C!FactorSpentOnce /\ acct.step \in 0..MaxStep
  BY DEF FactorInv, CredTypes, C!TypeOK
<1> DEFINE b == <<<<c, 0>>, r>>
<1>1 b[1] = <<c, 0>> /\ b[2] = r /\ b[1][1] = c /\ b[1][2] = 0
  OBVIOUS
<1>2 accepted' = accepted \cup {b}
  OBVIOUS
<1> HIDE DEF b
<1>3 Shown'
  <2>1 \A a \in accepted : \/ req'[a[2]].at \in Late
                           \/ req'[a[2]].at = "challenged" /\ a[2] \notin challenge'
    BY <1>t, ShownStays
  <2> QED
    BY <1>1, <1>2, <2>1 DEF Shown
<1>4 Minted(c)
  BY <1>t DEF AllMinted
<1>5 \A x : Minted(x) => (x = First \/ (x \in Request /\ req'[x].at \in Ending))
  BY MintedStays DEF Minted
<1>6 AllMinted'
  <2>1 \A a \in accepted' : a[1][1] = First \/ (a[1][1] \in Request /\ req'[a[1][1]].at \in Ending)
    BY <1>t, <1>1, <1>2, <1>4, <1>5 DEF AllMinted
  <2>2 \A d \in acct'.codes : d = First \/ (d \in Request /\ req'[d].at \in Ending)
    BY <1>t, <1>5 DEF AllMinted
  <2>3 acct'.secret # Null =>
         acct'.secret = First \/ (acct'.secret \in Request /\ req'[acct'.secret].at \in Ending)
    <3>1 PICK s : s = acct.secret
      OBVIOUS
    <3>2 s # Null => Minted(s)
      BY <1>t, <3>1 DEF AllMinted
    <3> QED
      BY <1>5, <3>1, <3>2
  <2> QED
    BY <2>1, <2>2, <2>3 DEF AllMinted, Minted
<1>7 \A a \in accepted' : a[1][1] = acct'.secret => a[1][2] <= acct'.step
  BY <1>t, <1>1, <1>2 DEF Unclaimed
<1>8 \A a \in accepted', d \in acct'.codes : a[1] # <<d, 0>>
  <2>1 \A d \in acct'.codes : b[1] # <<d, 0>>
    BY <1>1
  <2> QED
    BY <1>t, <1>2, <2>1 DEF Unclaimed
<1>9 C!FactorSpentOnce'
  <2>1 ASSUME NEW a \in accepted PROVE a[1] # b[1] /\ a[2] # b[2]
    <3>1 a[2] # r
      BY <1>t, Showing
    <3>2 a[1] # <<c, 0>>
      BY <1>t DEF Unclaimed
    <3> QED
      BY <1>1, <3>1, <3>2
  <2> QED
    BY <1>t, <1>2, <2>1 DEF C!FactorSpentOnce
<1> QED
  BY <1>3, <1>6, <1>7, <1>8, <1>9 DEF FactorInv, Unclaimed

(* A login that shows its factor gets a session with the password it        *)
(* verified, which its challenge says is the current one.                   *)
LEMMA LoginMfaKeeps == ASSUME CredInv, NEW r \in Request, C!LoginMfa(r) PROVE CredInv'
<1> USE NoRowIsNull
<1>t /\ CredTypes /\ acct \in AcctType /\ acct.pw \in C!Id
     /\ session \in [C!Id -> C!Session \cup {Null}]
     /\ challenge \subseteq Request /\ link \subseteq C!Id
     /\ key \subseteq {"app", "s3"} /\ passkey \in BOOLEAN /\ Request \subseteq C!Id
     /\ req \in [Request -> ReqType]
  BY Typed
<1>i PasswordInv /\ C!NoLoginToEndedAccount /\ FactorFollows /\ FactorInv
  BY DEF CredInv
<1>1 /\ req[r].at = "challenged" /\ r \in challenge /\ challenge' = challenge \ {r}
     /\ acct.totp = "on" /\ C!Open /\ req' = req
     /\ link' = link /\ key' = key /\ passkey' = passkey
     /\ C!Issue(r, "password", req[r].saw.pw, TRUE)
  BY DEF C!LoginMfa, C!At, C!ConsumeMfaChallenge
<1>2 req[r].saw.pw = acct.pw
  BY <1>i, <1>1 DEF PasswordInv, WaitsCurrent
<1>a PICK a \in AcctType : a = acct
  BY <1>t
<1>3 \/ \E n \in 1..MaxStep :
          /\ n > a.step /\ acct' = [a EXCEPT !.step = n]
          /\ accepted' = accepted \cup {<<<<a.secret, n>>, r>>}
     \/ \E c \in a.codes :
          /\ acct' = [a EXCEPT !.codes = @ \ {c}]
          /\ accepted' = accepted \cup {<<<<c, 0>>, r>>}
  BY <1>a DEF C!LoginMfa, C!Claims
<1>4 a.secret \in C!Id /\ MaxStep \in Nat
  BY <1>t, <1>a, <1>1 DEF AcctType, CredTypes, C!TypeOK
<1>5 /\ acct' \in AcctType /\ acct'.pw = acct.pw /\ acct'.totp = acct.totp
     /\ acct'.secret = acct.secret /\ (C!Open => C!Open')
  <2>1 ASSUME NEW n \in 1..MaxStep, acct' = [a EXCEPT !.step = n]
       PROVE  /\ acct' \in AcctType /\ acct'.pw = acct.pw /\ acct'.totp = acct.totp
              /\ acct'.secret = acct.secret /\ (C!Open => C!Open')
    BY <1>a, <1>4, <2>1 DEF AcctType, C!Open
  <2>2 ASSUME NEW c \in a.codes, acct' = [a EXCEPT !.codes = @ \ {c}]
       PROVE  /\ acct' \in AcctType /\ acct'.pw = acct.pw /\ acct'.totp = acct.totp
              /\ acct'.secret = acct.secret /\ (C!Open => C!Open')
    BY <1>a, <2>2 DEF AcctType, C!Open
  <2> QED
    BY <1>3, <2>1, <2>2
<1>6 accepted' \subseteq ((C!Id \X (0..MaxStep)) \X Request)
  <2>1 \A n \in 1..MaxStep : <<<<a.secret, n>>, r>> \in ((C!Id \X (0..MaxStep)) \X Request)
    BY <1>4
  <2>2 \A c \in a.codes : <<<<c, 0>>, r>> \in ((C!Id \X (0..MaxStep)) \X Request)
    BY <1>4 DEF AcctType
  <2> QED
    BY <1>t, <1>3, <2>1, <2>2 DEF CredTypes
<1> DEFINE n1 == [from |-> "password", pw |-> acct.pw, mfa |-> TRUE]
<1>7 n1 \in C!Session /\ n1.pw = acct.pw /\ n1.mfa
  BY <1>t DEF C!Session
<1>8 session' = [session EXCEPT ![r] = n1]
  BY <1>1, <1>2 DEF C!Issue
<1> HIDE DEF n1
<1>9 session' \in [C!Id -> C!Session \cup {Null}]
     /\ session'[r] = n1 /\ \A i \in C!Id : i # r => session'[i] = session[i]
  BY <1>t, <1>7, <1>8
<1>10 CredTypes'
  <2>1 HasRead' /\ (acct'.totp # "off" => acct'.secret # Null) /\ challenge' \subseteq Request
    BY <1>t, <1>1, <1>5 DEF CredTypes, HasRead, C!TypeOK
  <2> QED
    BY <1>t, <1>1, <1>5, <1>6, <1>9, <2>1, CredTyped
<1>11 MovesOn
  BY <1>1 DEF MovesOn
<1>12 PasswordInv'
  <2>1 C!PasswordSessionsCurrent'
    BY <1>i, <1>5, <1>7, <1>9 DEF PasswordInv, C!PasswordSessionsCurrent
  <2>2 WaitsCurrent'
    BY <1>i, <1>1, <1>5 DEF PasswordInv, WaitsCurrent
  <2> QED
    BY <2>1, <2>2 DEF PasswordInv
<1>13 C!NoLoginToEndedAccount'
  BY <1>1, <1>5 DEF C!NoLoginToEndedAccount
<1>14 FactorFollows'
  BY <1>i, <1>1, <1>5, <1>7, <1>9 DEF FactorFollows, Password
<1>15 FactorInv'
  <2>1 req[r].at \notin Late /\ req'[r].at = "challenged" /\ r \notin challenge'
    BY <1>1 DEF Late
  <2>2 ASSUME NEW n \in 1..MaxStep, n > a.step, acct' = [a EXCEPT !.step = n],
              accepted' = accepted \cup {<<<<a.secret, n>>, r>>}
       PROVE  FactorInv'
    <3>1 acct'.step = n /\ acct'.codes = acct.codes
      BY <1>a, <2>2 DEF AcctType
    <3>2 acct.secret # Null
      BY <1>a, <1>4
    <3> QED
      BY <1>t, <1>i, <1>a, <1>1, <1>5, <1>11, <2>1, <2>2, <3>1, <3>2, StepAccepted
  <2>3 ASSUME NEW c \in a.codes, acct' = [a EXCEPT !.codes = @ \ {c}],
              accepted' = accepted \cup {<<<<c, 0>>, r>>}
       PROVE  FactorInv'
    <3>1 acct'.step = acct.step /\ acct'.codes = acct.codes \ {c} /\ c \in acct.codes
      BY <1>a, <2>3 DEF AcctType
    <3> QED
      BY <1>t, <1>i, <1>1, <1>5, <1>11, <2>1, <2>3, <3>1, CodeAccepted
  <2> QED
    BY <1>3, <2>2, <2>3
<1> QED
  BY <1>10, <1>12, <1>13, <1>14, <1>15 DEF CredInv

(* A code is claimed, of the secret that was read and is still in force.    *)
LEMMA ClaimCodeKeeps == ASSUME CredInv, NEW r \in Request, C!ClaimCode(r) PROVE CredInv'
<1> USE NoRowIsNull
<1>t /\ CredTypes /\ acct \in AcctType
     /\ session \in [C!Id -> C!Session \cup {Null}]
     /\ challenge \subseteq Request /\ req \in [Request -> ReqType]
  BY Typed
<1>i PasswordInv /\ C!NoLoginToEndedAccount /\ FactorFollows /\ FactorInv
  BY DEF CredInv
<1>1 /\ req[r].at \in {"enable", "disable"} /\ session' = session /\ challenge' = challenge
     /\ link' = link /\ key' = key /\ passkey' = passkey
  BY DEF C!ClaimCode
<1>a PICK a \in AcctType : a = acct
  BY <1>t
<1>2 PICK n \in 1..MaxStep :
       /\ a.secret = req[r].saw.secret /\ n > a.step /\ acct' = [a EXCEPT !.step = n]
       /\ accepted' = accepted \cup {<<<<a.secret, n>>, r>>}
  BY <1>a DEF C!ClaimCode, C!Claims
<1>3 a.secret # Null /\ a.secret \in C!Id
  BY <1>t, <1>1, <1>2 DEF CredTypes, HasRead, AcctType
<1>4 /\ acct' \in AcctType /\ acct'.pw = acct.pw /\ acct'.totp = acct.totp
     /\ acct'.secret = acct.secret /\ acct'.step = n /\ acct'.codes = acct.codes
     /\ (C!Open => C!Open')
  BY <1>a, <1>2 DEF AcctType, C!Open
<1>5 PICK w \in ReqType : req' = [req EXCEPT ![r] = w] /\ w.at \in {"enabling", "disabling"}
       /\ w.saw = req[r].saw
  <2>1 {"enabling", "disabling"} \subseteq C!Point
    BY DEF C!Point
  <2>2 \E p \in {"enabling", "disabling"} : C!Goto(r, p)
    BY DEF C!ClaimCode
  <2> QED
    BY <1>t, <2>1, <2>2, GoesTo
<1>6 Fewer /\ session' \in [C!Id -> C!Session \cup {Null}]
  BY <1>t, <1>1, SessionsSame
<1>7 accepted' \subseteq ((C!Id \X (0..MaxStep)) \X Request)
  <2>1 <<<<a.secret, n>>, r>> \in ((C!Id \X (0..MaxStep)) \X Request)
    BY <1>3
  <2> QED
    BY <1>t, <1>2, <2>1 DEF CredTypes
<1>8 (acct'.totp # "off" => acct'.secret # Null) /\ challenge' \subseteq Request
  BY <1>t, <1>1, <1>4 DEF CredTypes, C!TypeOK
<1>0 w.saw.secret # Null
  BY <1>2, <1>3, <1>5
<1>9 CredTypes' /\ req'[r] = w /\ \A x \in Request : x # r => req'[x] = req[x]
  BY <1>t, <1>0, <1>1, <1>4, <1>5, <1>6, <1>7, <1>8, RowsTyped
<1>10 MovesOn
  BY <1>t, <1>1, <1>5, OtherMoves DEF Late, Ending
<1>11 PasswordInv'
  <2>1 \A x \in Request : req'[x].at = "challenged" /\ x \in challenge' =>
         req[x].at = "challenged" /\ x \in challenge /\ req'[x].saw.pw = req[x].saw.pw
    BY <1>1, <1>5, <1>9
  <2> QED
    BY <1>i, <1>4, <1>6, <2>1, PasswordKept
<1>12 C!NoLoginToEndedAccount'
  <2>1 \A x \in Request : req[x].at = "end" => req'[x].at = "end"
    BY <1>1, <1>9
  <2> QED
    BY <1>i, <1>4, <1>6, <2>1, EndKept
<1>13 FactorFollows'
  <2>1 \A x \in Request : req[x].at = "others" => req'[x] = req[x]
    BY <1>1, <1>9
  <2> QED
    BY <1>t, <1>i, <1>4, <1>6, <1>9, <2>1, FollowsKept
<1>14 FactorInv'
  <2>1 req[r].at \notin Late /\ req[r].at # "challenged" /\ req'[r].at \in Late
    BY <1>1, <1>5, <1>9 DEF Late
  <2>2 n > acct.step /\ acct.secret # Null
       /\ accepted' = accepted \cup {<<<<acct.secret, n>>, r>>}
    BY <1>a, <1>2, <1>3
  <2> QED
    BY <1>t, <1>i, <1>4, <1>10, <2>1, <2>2, StepAccepted
<1> QED
  BY <1>9, <1>11, <1>12, <1>13, <1>14 DEF CredInv

(* A new secret, or new backup codes, bear the name of a request that has   *)
(* shown nothing under it yet.                                              *)
LEMMA SetupMfaKeeps ==
  ASSUME CredInv, NEW r \in Request, C!SetupMfa(r) \/ C!NewBackupCodes(r) PROVE CredInv'
<1> USE NoRowIsNull
<1>t /\ CredTypes /\ acct \in AcctType
     /\ session \in [C!Id -> C!Session \cup {Null}]
     /\ challenge \subseteq Request /\ req \in [Request -> ReqType] /\ Request \subseteq C!Id
  BY Typed
<1>i PasswordInv /\ C!NoLoginToEndedAccount /\ FactorFollows /\ FactorInv
  BY DEF CredInv
<1>1 /\ req[r].at \in {"setup", "codes"} /\ session' = session /\ challenge' = challenge
     /\ link' = link /\ key' = key /\ passkey' = passkey /\ accepted' = accepted
     /\ C!Finish(r)
  BY DEF C!SetupMfa, C!NewBackupCodes, C!At
<1>a PICK a \in AcctType : a = acct
  BY <1>t
<1>2 \/ acct' = [a EXCEPT !.totp = "pending", !.secret = r, !.step = 0]
     \/ acct' = [a EXCEPT !.codes = {r}]
     \/ acct' = a
  BY <1>a DEF C!SetupMfa, C!NewBackupCodes
<1>3 /\ acct' \in AcctType /\ acct'.pw = acct.pw /\ (acct'.totp = "on" => acct.totp = "on")
     /\ (acct'.totp # "off" => acct'.secret # Null) /\ (C!Open => C!Open')
     /\ \/ acct'.secret = acct.secret /\ acct'.step = acct.step
        \/ acct'.secret = r
     /\ acct'.codes = acct.codes \/ acct'.codes = {r}
  <2>1 CASE acct' = [a EXCEPT !.totp = "pending", !.secret = r, !.step = 0]
    <3>1 0 \in 0..MaxStep /\ r \in C!Id /\ r # Null
      BY <1>t
    <3>2 acct' \in AcctType
      BY <2>1, <3>1 DEF AcctType
    <3>3 /\ acct'.pw = acct.pw /\ acct'.totp = "pending" /\ acct'.secret = r
         /\ acct'.codes = acct.codes
         /\ acct'.deleted = acct.deleted /\ acct'.suspended = acct.suspended
      BY <1>a, <2>1 DEF AcctType
    <3> QED
      BY <3>1, <3>2, <3>3 DEF C!Open
  <2>2 CASE acct' = [a EXCEPT !.codes = {r}]
    BY <1>a, <1>t, <2>2 DEF AcctType, C!Open, CredTypes, C!TypeOK
  <2>3 CASE acct' = a
    BY <1>a, <1>t, <2>3 DEF C!Open, CredTypes, C!TypeOK
  <2> QED
    BY <1>2, <2>1, <2>2, <2>3
<1>5 PICK w \in ReqType : req' = [req EXCEPT ![r] = w] /\ w.at = "done"
  BY <1>t, <1>1, Finishes
<1>6 Fewer /\ session' \in [C!Id -> C!Session \cup {Null}]
  BY <1>t, <1>1, SessionsSame
<1>7 accepted' \subseteq ((C!Id \X (0..MaxStep)) \X Request) /\ challenge' \subseteq Request
  BY <1>t, <1>1 DEF CredTypes
<1>9 CredTypes' /\ req'[r] = w /\ \A x \in Request : x # r => req'[x] = req[x]
  BY <1>t, <1>1, <1>3, <1>5, <1>6, <1>7, RowsTyped
<1>10 MovesOn
  BY <1>t, <1>1, <1>5, OtherMoves DEF Late, Ending
<1>11 PasswordInv'
  <2>1 \A x \in Request : req'[x].at = "challenged" /\ x \in challenge' =>
         req[x].at = "challenged" /\ x \in challenge /\ req'[x].saw.pw = req[x].saw.pw
    BY <1>1, <1>5, <1>9
  <2> QED
    BY <1>i, <1>3, <1>6, <2>1, PasswordKept
<1>12 C!NoLoginToEndedAccount'
  <2>1 \A x \in Request : req[x].at = "end" => req'[x].at = "end"
    BY <1>1, <1>9
  <2> QED
    BY <1>i, <1>3, <1>6, <2>1, EndKept
<1>13 FactorFollows'
  <2>1 \A x \in Request : req[x].at = "others" => req'[x] = req[x]
    BY <1>1, <1>9
  <2> QED
    BY <1>t, <1>i, <1>3, <1>6, <1>9, <2>1, FollowsKept
<1>14 FactorInv'
  <2>1 req[r].at \notin Ending /\ req'[r].at \in Ending
    BY <1>1, <1>5, <1>9 DEF Ending
  <2>2 \/ acct'.secret = acct.secret /\ acct'.step = acct.step
       \/ acct'.secret \in Request /\ req[acct'.secret].at \notin Ending
          /\ req'[acct'.secret].at \in Ending
    BY <1>3, <2>1
  <2>3 \A c \in acct'.codes : \/ c \in acct.codes
                              \/ /\ c \in Request /\ req[c].at \notin Ending
                                 /\ req'[c].at \in Ending
    BY <1>3, <2>1
  <2> QED
    BY <1>t, <1>i, <1>1, <1>9, <1>10, <2>2, <2>3, FactorKept
<1> QED
  BY <1>9, <1>11, <1>12, <1>13, <1>14 DEF CredInv

(* Enabling marks the session that showed the code and goes on to revoke    *)
(* the others.                                                              *)
LEMMA EnableMfaKeeps == ASSUME CredInv, NEW r \in Request, C!EnableMfa(r) PROVE CredInv'
<1> USE NoRowIsNull
<1>t /\ CredTypes /\ acct \in AcctType
     /\ session \in [C!Id -> C!Session \cup {Null}]
     /\ challenge \subseteq Request /\ req \in [Request -> ReqType] /\ Request \subseteq C!Id
  BY Typed
<1>i PasswordInv /\ C!NoLoginToEndedAccount /\ FactorFollows /\ FactorInv
  BY DEF CredInv
<1>1 /\ req[r].at = "enabling" /\ challenge' = challenge
     /\ link' = link /\ key' = key /\ passkey' = passkey /\ accepted' = accepted
  BY DEF C!EnableMfa, C!At
<1>a PICK a \in AcctType : a = acct
  BY <1>t
<1>2 CASE /\ a.totp # "on" /\ a.secret = req[r].saw.secret
          /\ acct' = [a EXCEPT !.totp = "on", !.codes = {r}]
          /\ session' = [i \in C!Id |-> IF i # req[r].by \/ session[i] = Null
               THEN session[i] ELSE [session[i] EXCEPT !.mfa = TRUE]]
          /\ C!Goto(r, "others") /\ a.secret # Null
  <2>1 /\ acct' \in AcctType /\ acct'.pw = acct.pw /\ acct'.secret = acct.secret
       /\ acct'.step = acct.step /\ acct'.codes = {r} /\ (C!Open => C!Open')
       /\ (acct'.totp # "off" => acct'.secret # Null)
    BY <1>a, <1>t, <1>2 DEF AcctType, C!Open
  <2>2 PICK w \in ReqType : req' = [req EXCEPT ![r] = w] /\ w.at = "others"
         /\ w.by = req[r].by
    <3>1 "others" \in C!Point
      BY DEF C!Point
    <3> QED
      BY <1>t, <1>2, <3>1, GoesTo
  <2>3 ASSUME NEW i \in C!Id
       PROVE  /\ session'[i] \in C!Session \cup {Null}
              /\ (session'[i] # Null => session[i] # Null /\ session'[i].from = session[i].from
                    /\ session'[i].pw = session[i].pw
                    /\ (session[i].mfa => session'[i].mfa)
                    /\ (i = req[r].by => session'[i].mfa))
    <3>1 CASE i # req[r].by \/ session[i] = Null
      <4>1 session'[i] = session[i]
        BY <1>2, <3>1
      <4> QED
        BY <1>t, <3>1, <4>1
    <3>2 CASE i = req[r].by /\ session[i] # Null
      <4>1 PICK q \in C!Session : q = session[i]
        BY <1>t, <3>2
      <4> DEFINE n == [q EXCEPT !.mfa = TRUE]
      <4>2 n \in C!Session /\ n.from = q.from /\ n.pw = q.pw /\ n.mfa
        BY DEF C!Session
      <4>3 session'[i] = n
        BY <1>2, <3>2, <4>1
      <4> HIDE DEF n
      <4> QED
        BY <3>2, <4>1, <4>2, <4>3
    <3> QED
      BY <3>1, <3>2
  <2>4 Fewer
    BY <2>3 DEF Fewer
  <2>5 session' \in [C!Id -> C!Session \cup {Null}]
    <3>1 session' = [i \in C!Id |-> session'[i]]
      BY <1>2
    <3> QED
      BY <2>3, <3>1
  <2>6 accepted' \subseteq ((C!Id \X (0..MaxStep)) \X Request) /\ challenge' \subseteq Request
    BY <1>t, <1>1 DEF CredTypes
  <2>7 CredTypes' /\ req'[r] = w /\ \A x \in Request : x # r => req'[x] = req[x]
    BY <1>t, <1>1, <2>1, <2>2, <2>5, <2>6, RowsTyped
  <2>8 MovesOn
    BY <1>t, <1>1, <2>2, OtherMoves DEF Late, Ending
  <2>9 PasswordInv'
    <3>1 \A x \in Request : req'[x].at = "challenged" /\ x \in challenge' =>
           req[x].at = "challenged" /\ x \in challenge /\ req'[x].saw.pw = req[x].saw.pw
      BY <1>1, <2>2, <2>7
    <3> QED
      BY <1>i, <2>1, <2>4, <3>1, PasswordKept
  <2>10 C!NoLoginToEndedAccount'
    <3>1 \A x \in Request : req[x].at = "end" => req'[x].at = "end"
      BY <1>1, <2>7
    <3> QED
      BY <1>i, <2>1, <2>4, <3>1, EndKept
  <2>11 FactorFollows'
    BY <2>2, <2>3, <2>7 DEF FactorFollows, Password
  <2>12 FactorInv'
    <3>1 req[r].at \notin Ending /\ req'[r].at \in Ending
      BY <1>1, <2>2, <2>7 DEF Ending
    <3>2 \A c \in acct'.codes : \/ c \in acct.codes
                                \/ /\ c \in Request /\ req[c].at \notin Ending
                                   /\ req'[c].at \in Ending
      BY <2>1, <3>1
    <3> QED
      BY <1>t, <1>i, <1>1, <2>1, <2>7, <2>8, <3>2, FactorKept
  <2> QED
    BY <2>7, <2>9, <2>10, <2>11, <2>12 DEF CredInv
<1>3 CASE acct' = acct /\ session' = session /\ C!Finish(r)
  <2>1 PICK w \in ReqType : req' = [req EXCEPT ![r] = w] /\ w.at = "done"
    BY <1>t, <1>3, Finishes
  <2>2 Fewer /\ session' \in [C!Id -> C!Session \cup {Null}]
    BY <1>t, <1>3, SessionsSame
  <2>3 /\ accepted' \subseteq ((C!Id \X (0..MaxStep)) \X Request) /\ challenge' \subseteq Request
       /\ acct' \in AcctType /\ (acct'.totp # "off" => acct'.secret # Null)
       /\ (C!Open => C!Open')
    BY <1>t, <1>1, <1>3 DEF CredTypes, C!TypeOK, C!Open
  <2>4 CredTypes' /\ req'[r] = w /\ \A x \in Request : x # r => req'[x] = req[x]
    BY <1>t, <1>1, <2>1, <2>2, <2>3, RowsTyped
  <2>5 MovesOn
    BY <1>t, <1>1, <2>1, OtherMoves DEF Late, Ending
  <2>6 /\ \A x \in Request : req'[x].at = "challenged" /\ x \in challenge' =>
            req[x].at = "challenged" /\ x \in challenge /\ req'[x].saw.pw = req[x].saw.pw
       /\ \A x \in Request : req[x].at = "end" => req'[x].at = "end"
       /\ \A x \in Request : req[x].at = "others" => req'[x] = req[x]
    BY <1>1, <2>1, <2>4
  <2>7 PasswordInv'
    BY <1>i, <1>3, <2>2, <2>6, PasswordKept
  <2>8 C!NoLoginToEndedAccount'
    BY <1>i, <2>2, <2>3, <2>6, EndKept
  <2>9 FactorFollows'
    BY <1>t, <1>i, <1>3, <2>2, <2>4, <2>6, FollowsKept
  <2>10 FactorInv'
    BY <1>t, <1>i, <1>1, <1>3, <2>4, <2>5, FactorKept
  <2> QED
    BY <2>4, <2>7, <2>8, <2>9, <2>10 DEF CredInv
<1>5 req[r].saw.secret # Null
  BY <1>t, <1>1 DEF CredTypes, HasRead
<1> QED
  BY <1>a, <1>2, <1>3, <1>5 DEF C!EnableMfa

LEMMA DisableMfaKeeps == ASSUME CredInv, NEW r \in Request, C!DisableMfa(r) PROVE CredInv'
<1> USE NoRowIsNull
<1>t /\ CredTypes /\ acct \in AcctType
     /\ challenge \subseteq Request /\ req \in [Request -> ReqType]
  BY Typed
<1>i PasswordInv /\ C!NoLoginToEndedAccount /\ FactorFollows /\ FactorInv
  BY DEF CredInv
<1>1 /\ req[r].at = "disabling" /\ session' = session /\ challenge' = challenge
     /\ link' = link /\ key' = key /\ passkey' = passkey /\ accepted' = accepted
     /\ C!Goto(r, "others")
  BY DEF C!DisableMfa, C!At
<1>a PICK a \in AcctType : a = acct
  BY <1>t
<1>2 acct' = [a EXCEPT !.totp = "off", !.secret = Null, !.step = 0, !.codes = {}]
  BY <1>a DEF C!DisableMfa
<1>3 /\ acct' \in AcctType /\ acct'.pw = acct.pw /\ acct'.totp = "off"
     /\ acct'.secret = Null /\ acct'.codes = {} /\ (C!Open => C!Open')
  <2>1 0 \in 0..MaxStep
    OBVIOUS
  <2>2 acct' \in AcctType
    BY <1>2, <2>1 DEF AcctType
  <2>3 /\ acct'.pw = acct.pw /\ acct'.totp = "off" /\ acct'.secret = Null /\ acct'.codes = {}
       /\ acct'.deleted = acct.deleted /\ acct'.suspended = acct.suspended
    BY <1>a, <1>2 DEF AcctType
  <2> QED
    BY <2>2, <2>3 DEF C!Open
<1>4 PICK w \in ReqType : req' = [req EXCEPT ![r] = w] /\ w.at = "others"
  <2>1 "others" \in C!Point
    BY DEF C!Point
  <2> QED
    BY <1>t, <1>1, <2>1, GoesTo
<1>5 Fewer /\ session' \in [C!Id -> C!Session \cup {Null}]
  BY <1>t, <1>1, SessionsSame
<1>6 /\ accepted' \subseteq ((C!Id \X (0..MaxStep)) \X Request) /\ challenge' \subseteq Request
     /\ (acct'.totp # "off" => acct'.secret # Null) /\ acct'.totp # "on"
  BY <1>t, <1>1, <1>3 DEF CredTypes
<1>7 CredTypes' /\ req'[r] = w /\ \A x \in Request : x # r => req'[x] = req[x]
  BY <1>t, <1>1, <1>3, <1>4, <1>5, <1>6, RowsTyped
<1>8 MovesOn
  BY <1>t, <1>1, <1>4, OtherMoves DEF Late, Ending
<1>9 PasswordInv'
  <2>1 \A x \in Request : req'[x].at = "challenged" /\ x \in challenge' =>
         req[x].at = "challenged" /\ x \in challenge /\ req'[x].saw.pw = req[x].saw.pw
    BY <1>1, <1>4, <1>7
  <2> QED
    BY <1>i, <1>3, <1>5, <2>1, PasswordKept
<1>10 C!NoLoginToEndedAccount'
  <2>1 \A x \in Request : req[x].at = "end" => req'[x].at = "end"
    BY <1>1, <1>7
  <2> QED
    BY <1>i, <1>3, <1>5, <2>1, EndKept
<1>11 FactorFollows'
  BY <1>6 DEF FactorFollows
<1>12 FactorInv'
  <2>1 acct'.secret = Null /\ \A c \in acct'.codes : c \in acct.codes
    BY <1>3
  <2> QED
    BY <1>t, <1>i, <1>1, <1>7, <1>8, <2>1, FactorKept
<1> QED
  BY <1>7, <1>9, <1>10, <1>11, <1>12 DEF CredInv

(* Sessions go: all, when an account ends; all but the caller's, otherwise. *)
(* A session without the factor that the caller keeps is still in the way   *)
(* of whoever enabled it.                                                   *)
LEMMA RevokeKeeps ==
  ASSUME CredInv, NEW r \in Request, C!EndSessions(r) \/ C!RevokeOthers(r) PROVE CredInv'
<1> USE NoRowIsNull
<1>t /\ CredTypes /\ acct \in AcctType
     /\ challenge \subseteq Request /\ req \in [Request -> ReqType]
  BY Typed
<1>i PasswordInv /\ C!NoLoginToEndedAccount /\ FactorFollows /\ FactorInv
  BY DEF CredInv
<1>1 /\ req[r].at \in {"end", "others"} /\ acct' = acct /\ challenge' = challenge
     /\ link' = link /\ key' = key /\ passkey' = passkey /\ accepted' = accepted
     /\ C!Finish(r)
  BY DEF C!EndSessions, C!RevokeOthers, C!At
<1>2 PICK s \in C!Id \cup {Null} :
       /\ C!RevokeSessions(s)
       /\ req[r].at = "end" => s = Null
       /\ req[r].at = "others" => s = req[r].by
  <2>1 req[r].by \in C!Id \cup {Null}
    BY <1>t DEF ReqType
  <2> QED
    BY <2>1 DEF C!EndSessions, C!RevokeOthers, C!At
<1>3 /\ Fewer /\ session' \in [C!Id -> C!Session \cup {Null}]
     /\ \A i \in C!Id : session'[i] = IF i = s THEN session[i] ELSE Null
  BY <1>t, <1>2, SessionsRevoked
<1>4 PICK w \in ReqType : req' = [req EXCEPT ![r] = w] /\ w.at = "done"
  BY <1>t, <1>1, Finishes
<1>5 /\ accepted' \subseteq ((C!Id \X (0..MaxStep)) \X Request) /\ challenge' \subseteq Request
     /\ acct' \in AcctType /\ (acct'.totp # "off" => acct'.secret # Null)
     /\ (C!Open => C!Open')
  BY <1>t, <1>1 DEF CredTypes, C!TypeOK, C!Open
<1>6 CredTypes' /\ req'[r] = w /\ \A x \in Request : x # r => req'[x] = req[x]
  BY <1>t, <1>1, <1>3, <1>4, <1>5, RowsTyped
<1>7 MovesOn
  BY <1>t, <1>1, <1>4, OtherMoves DEF Late, Ending
<1>8 PasswordInv'
  <2>1 \A x \in Request : req'[x].at = "challenged" /\ x \in challenge' =>
         req[x].at = "challenged" /\ x \in challenge /\ req'[x].saw.pw = req[x].saw.pw
    BY <1>1, <1>4, <1>6
  <2> QED
    BY <1>i, <1>1, <1>3, <2>1, PasswordKept
<1>9 C!NoLoginToEndedAccount'
  <2>1 CASE req[r].at = "end"
    <3>1 \A i \in C!Id : session'[i] = Null
      BY <1>2, <1>3, <2>1
    <3> QED
      BY <3>1 DEF C!NoLoginToEndedAccount
  <2>2 CASE req[r].at = "others"
    <3>1 \A x \in Request : req[x].at = "end" => req'[x].at = "end"
      BY <1>6, <2>2
    <3> QED
      BY <1>i, <1>3, <1>5, <3>1, EndKept
  <2> QED
    BY <1>1, <2>1, <2>2
<1>10 FactorFollows'
  <2> SUFFICES ASSUME acct.totp = "on", NEW i \in C!Id, session'[i] # Null,
                      session'[i].from = "password", ~session'[i].mfa
               PROVE  \E x \in Request : req'[x].at = "others" /\ req'[x].by # i
    BY <1>1 DEF FactorFollows, Password
  <2>1 i = s /\ Password(i) /\ ~session[i].mfa
    BY <1>3 DEF Password
  <2>2 PICK x \in Request : req[x].at = "others" /\ req[x].by # i
    BY <1>i, <2>1 DEF FactorFollows
  <2>3 x # r
    BY <1>2, <2>1, <2>2
  <2> QED
    BY <1>6, <2>2, <2>3
<1>11 FactorInv'
  BY <1>t, <1>i, <1>1, <1>6, <1>7, FactorKept
<1> QED
  BY <1>6, <1>8, <1>9, <1>10, <1>11 DEF CredInv

(* The password changes: every other session and every challenge goes.      *)
LEMMA NewPasswordKeeps ==
  ASSUME CredInv, NEW r \in Request, C!ChangePassword(r) \/ C!ResetPassword(r) PROVE CredInv'
<1> USE NoRowIsNull
<1>t /\ CredTypes /\ acct \in AcctType /\ session \in [C!Id -> C!Session \cup {Null}]
     /\ challenge \subseteq Request /\ req \in [Request -> ReqType] /\ Request \subseteq C!Id
     /\ link \subseteq C!Id /\ key \subseteq {"app", "s3"} /\ passkey \in BOOLEAN
  BY Typed
<1>i PasswordInv /\ C!NoLoginToEndedAccount /\ FactorFollows /\ FactorInv
  BY DEF CredInv
<1>1 /\ req[r].at \in {"password", "reset"} /\ passkey' = passkey /\ accepted' = accepted
     /\ C!Finish(r)
  BY DEF C!ChangePassword, C!ResetPassword, C!At
<1>4 PICK w \in ReqType : req' = [req EXCEPT ![r] = w] /\ w.at = "done"
  BY <1>t, <1>1, Finishes
<1>2 CASE UNCHANGED <<acct, session, challenge, link, key>>
  <2>1 Fewer /\ session' \in [C!Id -> C!Session \cup {Null}]
    BY <1>t, <1>2, SessionsSame
  <2>2 req[r].at \in Early
    BY <1>1 DEF Early, C!Point
  <2> QED
    BY <1>t, <1>1, <1>2, <1>4, <2>1, <2>2, EarlySame
<1>3 ASSUME challenge' = {}, key' = {}, link' = {}, acct' = [acct EXCEPT !.pw = r],
            NEW b \in C!Id \cup {Null},
            session' = [i \in C!Id |-> IF i = b /\ session[i] # Null
                        THEN [session[i] EXCEPT !.pw = r] ELSE Null]
     PROVE  CredInv'
  <2>a PICK a \in AcctType : a = acct
    BY <1>t
  <2>1 /\ acct' \in AcctType /\ acct'.pw = r /\ acct'.totp = acct.totp
       /\ acct'.secret = acct.secret /\ acct'.step = acct.step /\ acct'.codes = acct.codes
       /\ (C!Open => C!Open') /\ (C!Open' => C!Open)
    BY <1>t, <1>3, <2>a DEF AcctType, C!Open
  <2>2 ASSUME NEW i \in C!Id
       PROVE  /\ session'[i] \in C!Session \cup {Null}
              /\ (session'[i] # Null => session[i] # Null /\ session'[i].from = session[i].from
                    /\ session'[i].pw = r /\ session'[i].mfa = session[i].mfa)
    <3>1 CASE i = b /\ session[i] # Null
      <4>1 PICK q \in C!Session : q = session[i]
        BY <1>t, <3>1
      <4> DEFINE n == [q EXCEPT !.pw = r]
      <4>2 n \in C!Session /\ n.from = q.from /\ n.pw = r /\ n.mfa = q.mfa
        BY <1>t DEF C!Session
      <4>3 session'[i] = n
        BY <1>3, <3>1, <4>1
      <4> HIDE DEF n
      <4> QED
        BY <3>1, <4>1, <4>2, <4>3
    <3>2 CASE ~(i = b /\ session[i] # Null)
      BY <1>3, <3>2
    <3> QED
      BY <3>1, <3>2
  <2>3 session' \in [C!Id -> C!Session \cup {Null}]
    <3>1 session' = [i \in C!Id |-> session'[i]]
      BY <1>3
    <3> QED
      BY <2>2, <3>1
  <2>4 /\ accepted' \subseteq ((C!Id \X (0..MaxStep)) \X Request) /\ challenge' \subseteq Request
       /\ link' \subseteq link /\ key' \subseteq key
       /\ (acct'.totp # "off" => acct'.secret # Null)
    BY <1>t, <1>1, <1>3, <2>1 DEF CredTypes, C!TypeOK
  <2>5 CredTypes' /\ req'[r] = w /\ \A x \in Request : x # r => req'[x] = req[x]
    BY <1>t, <1>1, <1>4, <2>1, <2>3, <2>4, RowsTyped
  <2>6 MovesOn
    BY <1>t, <1>1, <1>3, <1>4, OtherMoves DEF Late, Ending
  <2>7 PasswordInv'
    BY <1>3, <2>1, <2>2 DEF PasswordInv, C!PasswordSessionsCurrent, WaitsCurrent
  <2>8 C!NoLoginToEndedAccount'
    <3>1 \A x \in Request : req[x].at = "end" => req'[x].at = "end"
      BY <1>1, <2>5
    <3> QED
      BY <1>i, <2>1, <2>2, <3>1 DEF C!NoLoginToEndedAccount, C!At
  <2>9 FactorFollows'
    <3> SUFFICES ASSUME acct.totp = "on", NEW i \in C!Id, session'[i] # Null,
                        session'[i].from = "password", ~session'[i].mfa
                 PROVE  \E x \in Request : req'[x].at = "others" /\ req'[x].by # i
      BY <2>1 DEF FactorFollows, Password
    <3>1 Password(i) /\ ~session[i].mfa
      BY <2>2 DEF Password
    <3>2 PICK x \in Request : req[x].at = "others" /\ req[x].by # i
      BY <1>i, <3>1 DEF FactorFollows
    <3> QED
      BY <1>1, <2>5, <3>2
  <2>10 FactorInv'
    BY <1>t, <1>i, <1>1, <2>1, <2>5, <2>6, FactorKept
  <2> QED
    BY <2>5, <2>7, <2>8, <2>9, <2>10 DEF CredInv
<1>5 CASE C!ChangePassword(r)
  <2>1 PICK b \in C!Id \cup {Null} : b = req[r].by
    BY <1>t DEF ReqType
  <2> QED
    BY <1>2, <1>3, <1>5, <2>1 DEF C!ChangePassword, C!RevokeCredentials
<1>6 CASE C!ResetPassword(r)
  <2>1 CASE C!LinkClaimed(req[r].saw.link)
    <3>1 session' = [i \in C!Id |-> IF i = Null THEN session[i] ELSE Null]
      BY <1>6, <2>1 DEF C!ResetPassword, C!RevokeSessions
    <3>2 session' = [i \in C!Id |-> IF i = Null /\ session[i] # Null
                     THEN [session[i] EXCEPT !.pw = r] ELSE Null]
      BY <3>1
    <3> QED
      BY <1>3, <1>6, <2>1, <3>2 DEF C!ResetPassword, C!RevokeCredentials
  <2>2 CASE ~C!LinkClaimed(req[r].saw.link)
    BY <1>2, <1>6, <2>2 DEF C!ResetPassword
  <2> QED
    BY <2>1, <2>2
<1> QED
  BY <1>5, <1>6

----------------------------------------------------------------------------
LEMMA CredInit == ASSUME C!Init PROVE CredInv
<1> USE NoRowIsNull
<1>1 PICK t \in {"off", "on"} :
       /\ acct = [pw |-> First, totp |-> t,
                  secret |-> IF t = "on" THEN First ELSE Null, step |-> 0,
                  codes |-> IF t = "on" THEN {First} ELSE {},
                  deleted |-> FALSE, lapsed |-> FALSE, cancel |-> Null,
                  suspended |-> FALSE, listed |-> FALSE, gone |-> FALSE]
       /\ session = [i \in C!Id |-> IF i = First
            THEN [from |-> "password", pw |-> First, mfa |-> t = "on"]
            ELSE Null]
  BY DEF C!Init
<1>2 First \in C!Id /\ First # Null /\ 0 \in 0..MaxStep
  BY DEF C!Id
<1>3 /\ acct \in AcctType /\ acct.pw = First /\ acct.totp = t
     /\ (acct.totp # "off" => acct.secret # Null) /\ ~acct.deleted /\ ~acct.suspended
     /\ acct.secret \in {First, Null} /\ acct.codes \subseteq {First}
  BY <1>1, <1>2 DEF AcctType
<1>4 /\ session \in [C!Id -> C!Session \cup {Null}]
     /\ \A i \in C!Id : session[i] # Null => session[i].pw = First /\ (session[i].mfa <=> t = "on")
  BY <1>1, <1>2 DEF C!Session
<1>5 /\ challenge = {} /\ link = {First} /\ key = {"app"} /\ passkey = TRUE /\ accepted = {}
     /\ req = [r \in Request |-> [at |-> "idle", by |-> Null, saw |-> C!Unseen]]
  BY DEF C!Init
<1>6 req \in [Request -> ReqType] /\ \A r \in Request : req[r].at = "idle"
  BY <1>5 DEF ReqType, C!Point, C!Saw, C!Unseen
<1>7 CredTypes
  BY <1>2, <1>3, <1>4, <1>5, <1>6 DEF CredTypes, C!TypeOK, HasRead, AcctType, ReqType
<1>8 PasswordInv
  BY <1>3, <1>4, <1>5 DEF PasswordInv, C!PasswordSessionsCurrent, WaitsCurrent
<1>9 C!NoLoginToEndedAccount
  BY <1>3 DEF C!NoLoginToEndedAccount, C!Open
<1>10 FactorFollows
  BY <1>3, <1>4 DEF FactorFollows, Password
<1>11 FactorInv
  BY <1>3, <1>5 DEF FactorInv, Shown, AllMinted, Minted, Unclaimed, C!FactorSpentOnce
<1> QED
  BY <1>7, <1>8, <1>9, <1>10, <1>11 DEF CredInv

LEMMA CredStep == ASSUME CredInv, [C!Next]_credentials PROVE CredInv'
<1>1 ASSUME NEW r \in Request, C!LoginSteps(r) PROVE CredInv'
  BY <1>1, LoginKeeps, FinishLoginKeeps, LoginMfaKeeps DEF C!LoginSteps
<1>2 ASSUME NEW r \in Request, C!ProfileSteps(r) PROVE CredInv'
  BY <1>2, BeginKeeps, PlainSteps, NewPasswordKeeps, FlagSteps, RevokeKeeps DEF C!ProfileSteps
<1>3 ASSUME NEW r \in Request, C!FactorSteps(r) PROVE CredInv'
  BY <1>3, SetupMfaKeeps, ClaimCodeKeeps, EnableMfaKeeps, DisableMfaKeeps, RevokeKeeps,
     PlainSteps DEF C!FactorSteps
<1>4 ASSUME NEW r \in Request, C!AccountSteps(r) PROVE CredInv'
  BY <1>4, PlainSteps, ReadLinkKeeps, NewPasswordKeeps, FlagSteps DEF C!AccountSteps
<1>5 CASE C!Lapse \/ C!Expire \/ C!ListExpired \/ UNCHANGED credentials
  BY <1>5, TimeSteps
<1>6 CASE C!PurgeUser
  BY <1>6, PurgeUserKeeps
<1> QED
  BY <1>1, <1>2, <1>3, <1>4, <1>5, <1>6 DEF C!Next

(* What the invariant is for.                                               *)
LEMMA CredentialsHold ==
  Spec => [](focus = "credentials" => CredInv)
<1> DEFINE Inv == focus = "credentials" => CredInv
<1>1 Init => Inv
  BY CredInit DEF Init
<1>2 Inv /\ [Next]_vars => Inv'
  BY CredStep DEF Next, vars
<1> QED
  BY <1>1, <1>2, PTL DEF Spec

(* However logins, changes of the password, resets, suspensions, deletions  *)
(* and restores interleave, no password session outlives the password it    *)
(* was opened with or the end of its account (auth/index.ts:412,            *)
(* users/index.ts:310, admin/users.ts:262).                                 *)
THEOREM SessionsStayCurrent == Spec => []SessionsAreCurrent
<1>1 (focus = "credentials" => CredInv) => SessionsAreCurrent
  BY DEF CredInv, PasswordInv, SessionsAreCurrent
<1> QED
  BY <1>1, CredentialsHold, PTL

(* Once enabling is over, every password session has shown the factor       *)
(* (auth/mfa.ts:110).                                                       *)
THEOREM SecondFactorKept == Spec => []SecondFactorHolds
<1>1 (focus = "credentials" => CredInv) => SecondFactorHolds
  BY DEF CredInv, FactorFollows, Password, SecondFactorHolds, C!SecondFactorHolds, C!At
<1> QED
  BY <1>1, CredentialsHold, PTL

(* A code or a challenge is accepted for one request (totpclaims.ts:4).     *)
THEOREM FactorsAreSpentOnce == Spec => []FactorSpentOnce
<1>1 (focus = "credentials" => CredInv) => FactorSpentOnce
  BY DEF CredInv, FactorInv, FactorSpentOnce
<1> QED
  BY <1>1, CredentialsHold, PTL

(* What a request to the token endpoint holds.                              *)
CallsFit == \A c \in Caller :
  /\ call[c].at \in {"code", "poll", "undecided", "issue"} =>
       call[c].on \in Grant /\ grant[call[c].on] # Null
  /\ call[c].at \in {"refresh", "rotate"} =>
       call[c].on \in Token /\ refresh[call[c].on] # Null

GrantTypes == O!TypeOK /\ CallsFit

(* A rotation holds the user's row; a change that holds it may be made.     *)
UserLocked ==
  /\ \A c \in Caller : call[c].at = "rotate" => locker = c
  /\ locker = "change" => user.epoch < Changes

(* A claimed device code is one poll's; a code that paid is used up.        *)
ClaimedByOne == \A c \in Caller : call[c].at = "issue" =>
  /\ grant[call[c].on].kind = "device" /\ grant[call[c].on].st = "claimed"
  /\ \A d \in Caller : call[d].at = "issue" /\ call[d].on = call[c].on => c = d
RootsUsed == \A t \in Token : refresh[t] # Null /\ refresh[t].parent = Null =>
  grant[refresh[t].root] # Null /\ grant[refresh[t].root].st \in {"used", "gone"}

RootInv == ClaimedByOne /\ RootsUsed /\ O!CodePaysOnce

(* What a token replaces is there and no longer good, and no other replaces *)
(* it; what is being rotated is not replaced yet.                           *)
Replaces == \A t \in Token : refresh[t] # Null /\ refresh[t].parent # Null =>
  /\ refresh[refresh[t].parent] # Null
  /\ refresh[refresh[t].parent].st # "live"
  /\ refresh[t].scope \subseteq refresh[refresh[t].parent].scope
  /\ \A u \in Token : refresh[u] # Null /\ refresh[u].parent = refresh[t].parent => t = u
NotReplaced == \A c \in Caller : call[c].at = "rotate" =>
  \A t \in Token : refresh[t] # Null => refresh[t].parent # call[c].on

ChainInv == Replaces /\ NotReplaced

(* What is good, or is being rotated, is of the user's current epoch.       *)
AllCurrent ==
  /\ \A t \in Token : refresh[t] # Null /\ refresh[t].st = "live" =>
       refresh[t].epoch = user.epoch
  /\ \A g \in Grant : grant[g] # Null /\ grant[g].st \in {"approved", "claimed"} =>
       grant[g].epoch = user.epoch
  /\ \A c \in Caller : call[c].at = "rotate" => refresh[call[c].on].epoch = user.epoch

(* The tokens presented after their revocation, and a set around them that  *)
(* holds all that descends from it, nothing good and nothing in rotation.   *)
Tainted(T) ==
  /\ replayed \subseteq T
  /\ \A t \in T : refresh[t] # Null /\ refresh[t].st # "live"
  /\ \A t \in Token : refresh[t] # Null /\ refresh[t].parent \in T => t \in T
  /\ \A c \in Caller : call[c].at = "rotate" => call[c].on \notin T
TaintInv == \E T \in SUBSET Token : Tainted(T)

GrantInv ==
  /\ GrantTypes /\ UserLocked /\ RootInv /\ ChainInv /\ AllCurrent /\ TaintInv

(* The rows of tokens stay what they are but for their state, which is      *)
(* never good again; n, if it is a token, is the one that may be new.       *)
FadeBut(n) == \A t \in Token : t # n =>
  /\ refresh[t] = Null => refresh'[t] = Null
  /\ refresh[t] # Null =>
       /\ refresh'[t] # Null
       /\ refresh'[t].root = refresh[t].root /\ refresh'[t].parent = refresh[t].parent
       /\ refresh'[t].epoch = refresh[t].epoch /\ refresh'[t].scope = refresh[t].scope
       /\ refresh'[t].st = "live" => refresh[t].st = "live"

(* A code that is used up stays so; one that can be redeemed is current.    *)
CodesMove ==
  /\ \A g \in Grant : grant[g] # Null /\ grant[g].st \in {"used", "gone"} =>
       grant'[g] # Null /\ grant'[g].st \in {"used", "gone"}
  /\ \A g \in Grant : grant'[g] # Null /\ grant'[g].st \in {"approved", "claimed"} =>
       grant'[g].epoch = user'.epoch
PollsLast ==
  \A c \in Caller : call'[c].at = "issue" =>
    /\ call'[c] = call[c]
    /\ grant'[call[c].on].kind = "device" /\ grant'[call[c].on].st = "claimed"
RotationsLast ==
  \A c \in Caller : call'[c].at = "rotate" => call'[c] = call[c]

LEMMA RowTyped ==
  ASSUME GrantTypes, NEW t \in Token, refresh[t] # Null
  PROVE  /\ refresh[t] \in O!RefreshRow
         /\ refresh[t].root \in Grant /\ refresh[t].parent \in Token \cup {Null}
         /\ refresh[t].epoch \in 0..Changes /\ refresh[t].scope \in O!Scopes
  BY DEF GrantTypes, O!TypeOK, O!RefreshRow

(* The part about the roots, when no new token is a root.                   *)
LEMMA RootsKept ==
  ASSUME GrantTypes, RootInv, CodesMove, PollsLast, NEW n, FadeBut(n),
         n \in Token => refresh'[n].parent # Null
  PROVE  RootInv'
<1> USE NoRowIsNull
<1>0 \A t \in Token : refresh'[t] # Null /\ refresh'[t].parent = Null =>
       /\ t # n /\ refresh[t] # Null /\ refresh[t].parent = Null
       /\ refresh'[t].root = refresh[t].root
  BY DEF FadeBut
<1>1 ClaimedByOne'
  BY DEF RootInv, ClaimedByOne, PollsLast
<1>2 RootsUsed'
  <2> SUFFICES ASSUME NEW t \in Token, refresh'[t] # Null, refresh'[t].parent = Null
               PROVE  /\ grant'[refresh'[t].root] # Null
                      /\ grant'[refresh'[t].root].st \in {"used", "gone"}
    BY DEF RootsUsed
  <2>1 /\ refresh[t] # Null /\ refresh[t].parent = Null /\ refresh'[t].root = refresh[t].root
    BY <1>0
  <2>2 PICK g \in Grant : g = refresh[t].root
    BY <2>1, RowTyped
  <2>3 grant[g] # Null /\ grant[g].st \in {"used", "gone"}
    BY <2>1, <2>2 DEF RootInv, RootsUsed
  <2> QED
    BY <2>1, <2>2, <2>3 DEF CodesMove
<1>3 O!CodePaysOnce'
  BY <1>0 DEF RootInv, O!CodePaysOnce
<1> QED
  BY <1>1, <1>2, <1>3 DEF RootInv

(* The part about the chain, when every new token is a root.                *)
LEMMA ChainKept ==
  ASSUME GrantTypes, CallsFit', ChainInv, RotationsLast, NEW n, FadeBut(n),
         n \in Token => refresh[n] = Null /\ refresh'[n].parent = Null
  PROVE  ChainInv'
<1> USE NoRowIsNull
<1>0 \A t \in Token : refresh'[t] # Null /\ refresh'[t].parent # Null =>
       /\ t # n /\ refresh[t] # Null /\ refresh'[t].parent = refresh[t].parent
       /\ refresh'[t].scope = refresh[t].scope
  BY DEF FadeBut
<1>1 Replaces'
  <2> SUFFICES ASSUME NEW t \in Token, refresh'[t] # Null, refresh'[t].parent # Null
               PROVE  /\ refresh'[refresh'[t].parent] # Null
                      /\ refresh'[refresh'[t].parent].st # "live"
                      /\ refresh'[t].scope \subseteq refresh'[refresh'[t].parent].scope
                      /\ \A u \in Token : refresh'[u] # Null /\ refresh'[u].parent = refresh'[t].parent => t = u
    BY DEF Replaces
  <2>1 /\ refresh[t] # Null /\ refresh'[t].parent = refresh[t].parent
       /\ refresh'[t].scope = refresh[t].scope
    BY <1>0
  <2>2 PICK p \in Token : p = refresh[t].parent
    BY <2>1, RowTyped
  <2>3 /\ refresh[p] # Null /\ refresh[p].st # "live" /\ refresh[t].scope \subseteq refresh[p].scope
       /\ \A u \in Token : refresh[u] # Null /\ refresh[u].parent = p => t = u
    BY <2>1, <2>2 DEF ChainInv, Replaces
  <2>4 p # n
    BY <2>3
  <2>5 refresh'[p] # Null /\ refresh'[p].st # "live" /\ refresh'[p].scope = refresh[p].scope
    BY <2>3, <2>4 DEF FadeBut
  <2>6 ASSUME NEW u \in Token, refresh'[u] # Null, refresh'[u].parent = p PROVE t = u
    BY <1>0, <2>2, <2>3, <2>6
  <2> QED
    BY <2>1, <2>2, <2>3, <2>5, <2>6
<1>2 NotReplaced'
  <2> SUFFICES ASSUME NEW c \in Caller, call'[c].at = "rotate",
                      NEW t \in Token, refresh'[t] # Null, refresh'[t].parent = call'[c].on
               PROVE  FALSE
    BY DEF NotReplaced
  <2>1 call'[c] = call[c] /\ call[c].on \in Token
    BY DEF RotationsLast, CallsFit
  <2>2 refresh[t] # Null /\ refresh[t].parent = call[c].on
    BY <1>0, <2>1
  <2> QED
    BY <2>1, <2>2 DEF ChainInv, NotReplaced
<1> QED
  BY <1>1, <1>2 DEF ChainInv

(* The part about epochs, when the user's does not change.                  *)
LEMMA CurrentKept ==
  ASSUME GrantTypes, AllCurrent, CodesMove, RotationsLast, user'.epoch = user.epoch,
         NEW n, FadeBut(n), n \in Token => refresh[n] = Null /\ refresh'[n].epoch = user.epoch
  PROVE  AllCurrent'
<1> USE NoRowIsNull
<1>1 ASSUME NEW t \in Token, refresh'[t] # Null, refresh'[t].st = "live"
     PROVE  refresh'[t].epoch = user'.epoch
  <2>1 CASE t = n
    BY <2>1
  <2>2 CASE t # n
    <3>1 refresh[t] # Null /\ refresh[t].st = "live" /\ refresh'[t].epoch = refresh[t].epoch
      BY <1>1, <2>2 DEF FadeBut
    <3> QED
      BY <3>1 DEF AllCurrent
  <2> QED
    BY <2>1, <2>2
<1>2 \A g \in Grant : grant'[g] # Null /\ grant'[g].st \in {"approved", "claimed"} =>
       grant'[g].epoch = user'.epoch
  BY DEF CodesMove
<1>3 ASSUME NEW c \in Caller, call'[c].at = "rotate"
     PROVE  refresh'[call'[c].on].epoch = user'.epoch
  <2>1 call'[c] = call[c]
    BY <1>3 DEF RotationsLast
  <2>2 PICK t \in Token : t = call[c].on /\ refresh[t] # Null
    BY <1>3, <2>1 DEF GrantTypes, CallsFit
  <2>3 refresh[t].epoch = user.epoch
    BY <1>3, <2>1, <2>2 DEF AllCurrent
  <2>4 t # n
    BY <2>2
  <2> QED
    BY <2>1, <2>2, <2>3, <2>4 DEF FadeBut
<1> QED
  BY <1>1, <1>2, <1>3 DEF AllCurrent

(* The part about replays, when nothing is presented and no new token comes *)
(* of a tainted one.                                                        *)
LEMMA TaintKept ==
  ASSUME GrantTypes, TaintInv, RotationsLast, replayed' = replayed, NEW n, FadeBut(n),
         n \in Token => refresh[n] = Null /\ (\/ refresh'[n].parent = Null
                                              \/ \E c \in Caller : call[c].at = "rotate" /\ refresh'[n].parent = call[c].on)
  PROVE  TaintInv'
<1> USE NoRowIsNull
<1>1 PICK T \in SUBSET Token : Tainted(T)
  BY DEF TaintInv
<1>2 \A t \in T : t # n /\ t \in Token /\ refresh[t] # Null /\ refresh[t].st # "live"
  BY <1>1 DEF Tainted
<1>3 \A t \in T : refresh'[t] # Null /\ refresh'[t].st # "live"
  BY <1>2 DEF FadeBut
<1>4 ASSUME NEW t \in Token, refresh'[t] # Null, refresh'[t].parent \in T PROVE t \in T
  <2>1 CASE t = n
    BY <1>1, <1>4, <2>1 DEF Tainted
  <2>2 CASE t # n
    <3>1 refresh[t] # Null /\ refresh[t].parent \in T
      BY <1>4, <2>2 DEF FadeBut
    <3> QED
      BY <1>1, <3>1 DEF Tainted
  <2> QED
    BY <2>1, <2>2
<1>5 ASSUME NEW c \in Caller, call'[c].at = "rotate" PROVE call'[c].on \notin T
  BY <1>1, <1>5 DEF RotationsLast, Tainted
<1>6 replayed' \subseteq T
  BY <1>1 DEF Tainted
<1>7 Tainted(T)'
  BY <1>3, <1>4, <1>5, <1>6 DEF Tainted
<1> QED
  BY <1>7 DEF TaintInv

(* A step that makes no token, gives no lock and presents nothing.          *)
LEMMA QuietGrants ==
  ASSUME GrantInv, GrantTypes', FadeBut(Null), CodesMove, PollsLast, RotationsLast,
         user'.epoch = user.epoch, replayed' = replayed,
         \A c \in Caller : call'[c].at = "rotate" => locker' = locker,
         locker' = "change" => user.epoch < Changes
  PROVE  GrantInv'
<1> USE NoRowIsNull
<1>t GrantTypes /\ UserLocked /\ RootInv /\ ChainInv /\ AllCurrent /\ TaintInv
  BY DEF GrantInv
<1>1 UserLocked'
  BY <1>t DEF UserLocked, RotationsLast
<1>2 RootInv'
  BY <1>t, RootsKept
<1>3 ChainInv'
  BY <1>t, ChainKept DEF GrantTypes
<1>4 AllCurrent'
  BY <1>t, CurrentKept
<1>5 TaintInv'
  BY <1>t, TaintKept
<1> QED
  BY <1>1, <1>2, <1>3, <1>4, <1>5 DEF GrantInv

LEMMA GrantInit ==
  ASSUME O!Init
  PROVE  GrantInv
<1> USE NoRowIsNull
<1> USE DEF O!Init, O!Idle
<1>1 GrantTypes
  BY DEF GrantTypes, O!TypeOK, CallsFit, O!Scopes
<1>2 UserLocked /\ RootInv /\ ChainInv
  BY DEF UserLocked, RootInv, ClaimedByOne, RootsUsed, O!CodePaysOnce, ChainInv, Replaces,
         NotReplaced
<1>3 AllCurrent
  BY DEF AllCurrent
<1>4 Tainted({})
  BY DEF Tainted
<1> QED
  BY <1>1, <1>2, <1>3, <1>4 DEF GrantInv, TaintInv

(* Revoking tokens: rows of the same kind, of which those of S are not good.*)
LEMMA RevokedTyped ==
  ASSUME GrantTypes, NEW S
  PROVE  /\ O!Revoked(S) \in [Token -> O!RefreshRow \cup {Null}]
         /\ \A t \in Token :
              /\ refresh[t] = Null => O!Revoked(S)[t] = Null
              /\ refresh[t] # Null =>
                   LET w == O!Revoked(S)[t] IN
                   /\ w # Null /\ w.root = refresh[t].root /\ w.parent = refresh[t].parent
                   /\ w.epoch = refresh[t].epoch /\ w.scope = refresh[t].scope
                   /\ w.st = "live" => refresh[t].st = "live" /\ t \notin S
<1> USE NoRowIsNull
<1>1 ASSUME NEW t \in Token
     PROVE  /\ O!Revoked(S)[t] \in O!RefreshRow \cup {Null}
            /\ refresh[t] = Null => O!Revoked(S)[t] = Null
            /\ refresh[t] # Null =>
                 /\ O!Revoked(S)[t] # Null
                 /\ O!Revoked(S)[t].root = refresh[t].root
                 /\ O!Revoked(S)[t].parent = refresh[t].parent
                 /\ O!Revoked(S)[t].epoch = refresh[t].epoch
                 /\ O!Revoked(S)[t].scope = refresh[t].scope
                 /\ O!Revoked(S)[t].st = "live" => refresh[t].st = "live" /\ t \notin S
  <2>0 O!Revoked(S)[t] = IF t \in S /\ O!Live(t)
                         THEN [refresh[t] EXCEPT !.st = "revoked"] ELSE refresh[t]
    BY DEF O!Revoked
  <2>1 CASE t \in S /\ O!Live(t)
    <3>1 PICK v \in O!RefreshRow : v = refresh[t]
      BY <2>1, RowTyped DEF O!Live
    <3> DEFINE w == [v EXCEPT !.st = "revoked"]
    <3>2 /\ w \in O!RefreshRow /\ w.st = "revoked" /\ w.root = v.root /\ w.parent = v.parent
         /\ w.epoch = v.epoch /\ w.scope = v.scope
      BY DEF O!RefreshRow
    <3>3 O!Revoked(S)[t] = w
      BY <2>0, <2>1, <3>1
    <3> HIDE DEF w
    <3>4 refresh[t] # Null
      BY <2>1 DEF O!Live
    <3> QED
      BY <3>1, <3>2, <3>3, <3>4
  <2>2 CASE ~(t \in S /\ O!Live(t))
    <3>1 O!Revoked(S)[t] = refresh[t]
      BY <2>0, <2>2
    <3>2 refresh[t] \in O!RefreshRow \cup {Null}
      BY DEF GrantTypes, O!TypeOK
    <3> QED
      BY <3>1, <3>2, <2>2 DEF O!Live
  <2> QED
    BY <2>1, <2>2
<1>2 O!Revoked(S) = [t \in Token |-> O!Revoked(S)[t]]
  BY DEF O!Revoked
<1>3 O!Revoked(S) \in [Token -> O!RefreshRow \cup {Null}]
  BY <1>1, <1>2
<1> QED
  BY <1>1, <1>3

LEMMA Revoking ==
  ASSUME GrantTypes, NEW S, refresh' = O!Revoked(S)
  PROVE  /\ refresh' \in [Token -> O!RefreshRow \cup {Null}] /\ FadeBut(Null)
         /\ \A t \in Token : refresh[t] # Null => refresh'[t] # Null
  BY RevokedTyped DEF FadeBut

(* Marking a code: a code of the same kind, epoch and scopes.               *)
LEMMA Marking ==
  ASSUME GrantTypes, NEW g \in Grant, grant[g] # Null, NEW st,
         st \in {"asked", "approved", "denied", "claimed", "used", "gone"}, O!Mark(g, st)
  PROVE  /\ grant' \in [Grant -> O!Code \cup {Null}]
         /\ \A h \in Grant : h # g => grant'[h] = grant[h]
         /\ grant'[g] # Null /\ grant'[g].st = st
         /\ grant'[g].kind = grant[g].kind /\ grant'[g].epoch = grant[g].epoch
         /\ grant'[g].scope = grant[g].scope
<1> USE NoRowIsNull
<1>0 grant \in [Grant -> O!Code \cup {Null}]
  BY DEF GrantTypes, O!TypeOK
<1>1 PICK v \in O!Code : v = grant[g]
  BY <1>0
<1> DEFINE w == [v EXCEPT !.st = st]
<1>2 w \in O!Code /\ w.st = st /\ w.kind = v.kind /\ w.epoch = v.epoch /\ w.scope = v.scope
  BY DEF O!Code
<1>3 grant' = [grant EXCEPT ![g] = w]
  BY <1>0, <1>1 DEF O!Mark
<1> HIDE DEF w
<1> QED
  BY <1>0, <1>1, <1>2, <1>3

(* A call that ends holds nothing.                                          *)
LEMMA Hanging ==
  ASSUME GrantTypes, NEW c \in Caller, O!Hangup(c)
  PROVE  /\ call' \in [Caller ->
              [at : {"idle", "code", "poll", "undecided", "issue", "refresh", "rotate"},
               on : Grant \cup Token \cup {Null}]]
         /\ call'[c].at = "idle" /\ \A d \in Caller : d # c => call'[d] = call[d]
         /\ RotationsLast
         /\ \A d \in Caller : call'[d].at # "idle" => call'[d] = call[d]
<1>0 call \in [Caller ->
       [at : {"idle", "code", "poll", "undecided", "issue", "refresh", "rotate"},
        on : Grant \cup Token \cup {Null}]]
  BY DEF GrantTypes, O!TypeOK
<1>1 call' = [call EXCEPT ![c] = O!Idle] /\ O!Idle.at = "idle"
     /\ O!Idle \in [at : {"idle", "code", "poll", "undecided", "issue", "refresh", "rotate"},
                    on : Grant \cup Token \cup {Null}]
  BY DEF O!Hangup, O!Idle
<1>2 call'[c] = O!Idle /\ \A d \in Caller : d # c => call'[d] = call[d]
  BY <1>0, <1>1
<1>3 RotationsLast
  BY <1>1, <1>2 DEF RotationsLast
<1> QED
  BY <1>0, <1>1, <1>2, <1>3

(* No row disappears: what the requests hold that go on is still there.     *)
LEMMA CallsStay ==
  ASSUME CallsFit,
         \A g \in Grant : grant[g] # Null => grant'[g] # Null,
         \A t \in Token : refresh[t] # Null => refresh'[t] # Null,
         \A c \in Caller : call'[c].at # "idle" => call'[c] = call[c]
  PROVE  CallsFit'
<1> SUFFICES ASSUME NEW c \in Caller
             PROVE  /\ call'[c].at \in {"code", "poll", "undecided", "issue"} =>
                         call'[c].on \in Grant /\ grant'[call'[c].on] # Null
                    /\ call'[c].at \in {"refresh", "rotate"} =>
                         call'[c].on \in Token /\ refresh'[call'[c].on] # Null
  BY DEF CallsFit
<1>1 CASE call'[c].at = "idle"
  BY <1>1
<1>2 CASE call'[c].at # "idle"
  BY <1>2 DEF CallsFit
<1> QED
  BY <1>1, <1>2

LEMMA CodesStay ==
  ASSUME GrantInv, grant' = grant, user'.epoch = user.epoch,
         \A c \in Caller : call'[c].at = "issue" => call'[c] = call[c]
  PROVE  CodesMove /\ PollsLast
<1>1 CodesMove
  BY DEF GrantInv, AllCurrent, CodesMove
<1>2 PollsLast
  BY DEF GrantInv, RootInv, ClaimedByOne, PollsLast
<1> QED
  BY <1>1, <1>2

(* A code is used up, or gone, while no poll that goes on has claimed it.   *)
LEMMA CodeSpent ==
  ASSUME GrantInv, NEW g \in Grant, grant[g] # Null, NEW st \in {"used", "gone"},
         O!Mark(g, st), user'.epoch = user.epoch,
         \A c \in Caller : call'[c].at = "issue" => call'[c] = call[c] /\ call[c].on # g
  PROVE  CodesMove /\ PollsLast
<1> USE NoRowIsNull
<1>0 /\ \A h \in Grant : h # g => grant'[h] = grant[h]
     /\ grant'[g] # Null /\ grant'[g].st = st
  BY Marking DEF GrantInv
<1>1 CodesMove
  BY <1>0 DEF GrantInv, AllCurrent, CodesMove
<1>2 PollsLast
  <2> SUFFICES ASSUME NEW c \in Caller, call'[c].at = "issue"
               PROVE  /\ call'[c] = call[c] /\ grant'[call[c].on].kind = "device"
                      /\ grant'[call[c].on].st = "claimed"
    BY DEF PollsLast
  <2>1 call'[c] = call[c] /\ call[c].on # g
    OBVIOUS
  <2>2 call[c].on \in Grant
    BY <2>1 DEF GrantInv, GrantTypes, CallsFit
  <2>3 grant[call[c].on].kind = "device" /\ grant[call[c].on].st = "claimed"
    BY <2>1 DEF GrantInv, RootInv, ClaimedByOne
  <2> QED
    BY <1>0, <2>1, <2>2, <2>3
<1> QED
  BY <1>1, <1>2

(* The client alone, or who may sign in, changes.                           *)
LEMMA GrantAside ==
  ASSUME GrantInv,
         \/ O!RegisterClient \/ O!EditClient \/ O!DeleteClient \/ O!RotateSecret \/ O!Bar
  PROVE  GrantInv'
<1> USE NoRowIsNull
<1>0 UNCHANGED <<grant, refresh, locker, call, replayed>>
  BY DEF O!RegisterClient, O!EditClient, O!DeleteClient, O!RotateSecret, O!Bar
<1>1 user' \in [epoch : 0..Changes, open : BOOLEAN] /\ user'.epoch = user.epoch
  <2>1 CASE O!Bar
    BY <2>1 DEF O!Bar, GrantInv, GrantTypes, O!TypeOK
  <2>2 CASE UNCHANGED user
    BY <2>2 DEF GrantInv, GrantTypes, O!TypeOK
  <2> QED
    BY <2>1, <2>2 DEF O!RegisterClient, O!EditClient, O!DeleteClient, O!RotateSecret
<1>2 client' \in [allowed : O!Scopes \cup {{}}, live : BOOLEAN, revoking : BOOLEAN]
  <2>0 client \in [allowed : O!Scopes \cup {{}}, live : BOOLEAN, revoking : BOOLEAN]
    BY DEF GrantInv, GrantTypes, O!TypeOK
  <2>1 CASE O!RegisterClient
    BY <2>0, <2>1 DEF O!RegisterClient
  <2>2 CASE O!EditClient
    BY <2>0, <2>2 DEF O!EditClient
  <2>3 CASE O!DeleteClient
    BY <2>0, <2>3 DEF O!DeleteClient
  <2>4 CASE O!RotateSecret
    BY <2>0, <2>4 DEF O!RotateSecret
  <2>5 CASE O!Bar
    BY <2>0, <2>5 DEF O!Bar
  <2> QED
    BY <2>1, <2>2, <2>3, <2>4, <2>5
<1>3 GrantTypes'
  BY <1>0, <1>1, <1>2 DEF GrantInv, GrantTypes, O!TypeOK, O!Code, O!RefreshRow, CallsFit
<1>4 FadeBut(Null) /\ RotationsLast /\ CodesMove /\ PollsLast
  BY <1>0, <1>1, CodesStay DEF FadeBut, RotationsLast
<1>5 locker' = "change" => user.epoch < Changes
  BY <1>0 DEF GrantInv, UserLocked
<1> QED
  BY <1>0, <1>1, <1>3, <1>4, <1>5, QuietGrants

(* A change of credentials begins.                                          *)
LEMMA GrantLocked ==
  ASSUME GrantInv, O!LockUser
  PROVE  GrantInv'
<1> USE NoRowIsNull
<1> USE DEF O!LockUser
<1>3 GrantTypes'
  BY DEF GrantInv, GrantTypes, O!TypeOK, O!Code, O!RefreshRow, CallsFit, O!Change
<1>4 FadeBut(Null) /\ RotationsLast /\ CodesMove /\ PollsLast
  BY CodesStay DEF FadeBut, RotationsLast
<1>5 \A c \in Caller : call'[c].at # "rotate"
  BY DEF GrantInv, UserLocked, O!Free
<1> QED
  BY <1>3, <1>4, <1>5, QuietGrants

(* A code is asked for, approved or denied.                                 *)
LEMMA GrantWritten ==
  ASSUME GrantInv, NEW g \in Grant,
         \/ O!ApproveCode(g) \/ O!AuthorizeDevice(g) \/ O!DecideDevice(g)
  PROVE  GrantInv'
<1> USE NoRowIsNull
<1>0 UNCHANGED <<user, client, refresh, locker, call, replayed>>
  BY DEF O!ApproveCode, O!AuthorizeDevice, O!DecideDevice
<1>a grant \in [Grant -> O!Code \cup {Null}] /\ user.epoch \in 0..Changes /\ 0 \in 0..Changes
  BY DEF GrantInv, GrantTypes, O!TypeOK
<1>b \A scopes \in O!Offered : scopes \in O!Scopes
  BY DEF O!Offered
<1>1 PICK w \in O!Code :
       /\ grant' = [grant EXCEPT ![g] = w]
       /\ w.st \in {"approved", "claimed"} => w.st = "approved" /\ w.epoch = user.epoch
       /\ grant[g] = Null \/ grant[g].st = "asked"
  <2>1 CASE O!ApproveCode(g)
    <3>1 PICK scopes \in O!Offered : grant' = [grant EXCEPT ![g] =
           [kind |-> "code", st |-> "approved", scope |-> scopes, epoch |-> user.epoch]]
      BY <2>1 DEF O!ApproveCode
    <3> DEFINE w == [kind |-> "code", st |-> "approved", scope |-> scopes, epoch |-> user.epoch]
    <3>2 w \in O!Code /\ w.st = "approved" /\ w.epoch = user.epoch
      BY <1>a, <1>b DEF O!Code
    <3>3 grant' = [grant EXCEPT ![g] = w] /\ grant[g] = Null
      BY <2>1, <3>1 DEF O!ApproveCode
    <3> HIDE DEF w
    <3> QED
      BY <3>2, <3>3
  <2>2 CASE O!AuthorizeDevice(g)
    <3>1 PICK scopes \in O!Offered : grant' = [grant EXCEPT ![g] =
           [kind |-> "device", st |-> "asked", scope |-> scopes, epoch |-> 0]]
      BY <2>2 DEF O!AuthorizeDevice
    <3> DEFINE w == [kind |-> "device", st |-> "asked", scope |-> scopes, epoch |-> 0]
    <3>2 w \in O!Code /\ w.st = "asked"
      BY <1>a, <1>b DEF O!Code
    <3>3 grant' = [grant EXCEPT ![g] = w] /\ grant[g] = Null
      BY <2>2, <3>1 DEF O!AuthorizeDevice
    <3> HIDE DEF w
    <3> QED
      BY <3>2, <3>3
  <2>3 CASE O!DecideDevice(g)
    <3>1 PICK st \in {"approved", "denied"} :
           grant' = [grant EXCEPT ![g].st = st, ![g].epoch = user.epoch]
      BY <2>3 DEF O!DecideDevice
    <3>2 PICK v \in O!Code : v = grant[g] /\ v.st = "asked"
      BY <1>a, <2>3 DEF O!DecideDevice, O!Is
    <3> DEFINE w == [v EXCEPT !.st = st, !.epoch = user.epoch]
    <3>3 w \in O!Code /\ w.st = st /\ w.epoch = user.epoch
      BY <1>a DEF O!Code
    <3>4 grant' = [grant EXCEPT ![g] = w]
      BY <1>a, <3>1, <3>2
    <3> HIDE DEF w
    <3> QED
      BY <3>2, <3>3, <3>4
  <2> QED
    BY <2>1, <2>2, <2>3
<1>2 /\ grant' \in [Grant -> O!Code \cup {Null}] /\ grant'[g] = w /\ w # Null
     /\ \A h \in Grant : h # g => grant'[h] = grant[h]
  BY <1>a, <1>1
<1>3 GrantTypes'
  <2>1 CallsFit'
    BY <1>0, <1>2, CallsStay DEF GrantInv, GrantTypes
  <2> QED
    BY <1>0, <1>2, <2>1 DEF GrantInv, GrantTypes, O!TypeOK, O!Code, O!RefreshRow
<1>4 CodesMove
  BY <1>0, <1>1, <1>2 DEF GrantInv, AllCurrent, CodesMove
<1>5 PollsLast
  <2> SUFFICES ASSUME NEW c \in Caller, call[c].at = "issue"
               PROVE  grant'[call[c].on].kind = "device" /\ grant'[call[c].on].st = "claimed"
    BY <1>0 DEF PollsLast
  <2>1 /\ call[c].on \in Grant /\ grant[call[c].on] # Null
       /\ grant[call[c].on].kind = "device" /\ grant[call[c].on].st = "claimed"
    BY DEF GrantInv, GrantTypes, CallsFit, RootInv, ClaimedByOne
  <2>2 call[c].on # g
    BY <1>1, <2>1
  <2> QED
    BY <1>2, <2>1, <2>2
<1>6 FadeBut(Null) /\ RotationsLast
  BY <1>0 DEF FadeBut, RotationsLast
<1>7 locker' = "change" => user.epoch < Changes
  BY <1>0 DEF GrantInv, UserLocked
<1> QED
  BY <1>0, <1>3, <1>4, <1>5, <1>6, <1>7, QuietGrants

(* A code expires.                                                          *)
LEMMA GrantSwept ==
  ASSUME GrantInv, NEW g \in Grant,
         O!SweepExpiredAuthCodes(g) \/ O!SweepExpiredDeviceCodes(g)
  PROVE  GrantInv'
<1> USE NoRowIsNull
<1>0 /\ UNCHANGED <<user, client, refresh, locker, call, replayed>>
     /\ grant[g] # Null /\ O!Mark(g, "gone") /\ ~(grant[g].kind = "device" /\ grant[g].st = "claimed")
  BY DEF O!SweepExpiredAuthCodes, O!SweepExpiredDeviceCodes
<1>1 /\ grant' \in [Grant -> O!Code \cup {Null}] /\ grant'[g] # Null
     /\ \A h \in Grant : h # g => grant'[h] = grant[h]
  BY <1>0, Marking DEF GrantInv
<1>3 GrantTypes'
  <2>1 CallsFit'
    BY <1>0, <1>1, CallsStay DEF GrantInv, GrantTypes
  <2> QED
    BY <1>0, <1>1, <2>1 DEF GrantInv, GrantTypes, O!TypeOK, O!Code, O!RefreshRow
<1>4 \A c \in Caller : call[c].at = "issue" => call[c].on # g
  BY <1>0 DEF GrantInv, RootInv, ClaimedByOne
<1>5 CodesMove /\ PollsLast
  BY <1>0, <1>4, CodeSpent
<1>6 FadeBut(Null) /\ RotationsLast
  BY <1>0 DEF FadeBut, RotationsLast
<1>7 locker' = "change" => user.epoch < Changes
  BY <1>0 DEF GrantInv, UserLocked
<1> QED
  BY <1>0, <1>3, <1>5, <1>6, <1>7, QuietGrants

(* Tokens are revoked, of themselves or with their client, or expire.       *)
LEMMA GrantRevoked ==
  ASSUME GrantInv,
         \/ O!RevokeClientTokens
         \/ \E t \in Token : O!RevokeToken(t) \/ O!SweepExpiredRefreshTokens(t)
  PROVE  GrantInv'
<1> USE NoRowIsNull
<1>0 UNCHANGED <<user, grant, locker, call, replayed>>
  BY DEF O!RevokeClientTokens, O!RevokeToken, O!SweepExpiredRefreshTokens
<1>1 client' \in [allowed : O!Scopes \cup {{}}, live : BOOLEAN, revoking : BOOLEAN]
  <2>0 client \in [allowed : O!Scopes \cup {{}}, live : BOOLEAN, revoking : BOOLEAN]
    BY DEF GrantInv, GrantTypes, O!TypeOK
  <2>1 CASE O!RevokeClientTokens
    BY <2>0, <2>1 DEF O!RevokeClientTokens
  <2>2 CASE ~O!RevokeClientTokens
    BY <2>0, <2>2 DEF O!RevokeToken, O!SweepExpiredRefreshTokens
  <2> QED
    BY <2>1, <2>2
<1>2 /\ refresh' \in [Token -> O!RefreshRow \cup {Null}] /\ FadeBut(Null)
     /\ \A t \in Token : refresh[t] # Null => refresh'[t] # Null
  <2>1 CASE \E S : refresh' = O!Revoked(S)
    BY <2>1, Revoking DEF GrantInv
  <2>2 CASE \E t \in Token : O!SweepExpiredRefreshTokens(t)
    <3>1 PICK t \in Token : refresh[t] # Null /\ refresh' = [refresh EXCEPT ![t].st = "gone"]
      BY <2>2 DEF O!SweepExpiredRefreshTokens
    <3>2 PICK v \in O!RefreshRow : v = refresh[t]
      BY <3>1, RowTyped DEF GrantInv
    <3> DEFINE w == [v EXCEPT !.st = "gone"]
    <3>3 /\ w \in O!RefreshRow /\ w.st = "gone" /\ w.root = v.root /\ w.parent = v.parent
         /\ w.epoch = v.epoch /\ w.scope = v.scope
      BY DEF O!RefreshRow
    <3>4 refresh \in [Token -> O!RefreshRow \cup {Null}]
      BY DEF GrantInv, GrantTypes, O!TypeOK
    <3>5 refresh' = [refresh EXCEPT ![t] = w]
      BY <3>1, <3>2, <3>4
    <3> HIDE DEF w
    <3>6 /\ refresh'[t] = w /\ w # Null /\ \A u \in Token : u # t => refresh'[u] = refresh[u]
         /\ refresh' \in [Token -> O!RefreshRow \cup {Null}]
      BY <3>3, <3>4, <3>5
    <3>7 FadeBut(Null)
      BY <3>1, <3>2, <3>3, <3>6 DEF FadeBut
    <3> QED
      BY <3>6, <3>7
  <2>3 (\E S : refresh' = O!Revoked(S)) \/ (\E t \in Token : O!SweepExpiredRefreshTokens(t))
    BY DEF O!RevokeClientTokens, O!RevokeToken
  <2> QED
    BY <2>1, <2>2, <2>3
<1>3 GrantTypes'
  <2>1 CallsFit'
    BY <1>0, <1>2, CallsStay DEF GrantInv, GrantTypes
  <2> QED
    BY <1>0, <1>1, <1>2, <2>1 DEF GrantInv, GrantTypes, O!TypeOK, O!Code, O!RefreshRow
<1>4 CodesMove /\ PollsLast /\ RotationsLast
  BY <1>0, CodesStay DEF RotationsLast
<1>5 locker' = "change" => user.epoch < Changes
  BY <1>0 DEF GrantInv, UserLocked
<1> QED
  BY <1>0, <1>2, <1>3, <1>4, <1>5, QuietGrants

(* A request comes to the token endpoint.                                   *)
LEMMA GrantPresented ==
  ASSUME GrantInv, NEW c \in Caller, O!Present(c)
  PROVE  GrantInv'
<1> USE NoRowIsNull
<1>0 UNCHANGED <<user, client, grant, refresh, locker, replayed>>
  BY DEF O!Present
<1>a call \in [Caller ->
       [at : {"idle", "code", "poll", "undecided", "issue", "refresh", "rotate"},
        on : Grant \cup Token \cup {Null}]]
  BY DEF GrantInv, GrantTypes, O!TypeOK
<1>1 PICK w \in [at : {"code", "poll", "undecided", "refresh"}, on : Grant \cup Token] :
       /\ call' = [call EXCEPT ![c] = w]
       /\ w.at = "refresh" => w.on \in Token /\ refresh[w.on] # Null
       /\ w.at # "refresh" => w.on \in Grant /\ grant[w.on] # Null
  <2>1 CASE \E t \in Token : refresh[t] # Null
              /\ call' = [call EXCEPT ![c] = [at |-> "refresh", on |-> t]]
    <3>1 PICK t \in Token : refresh[t] # Null
              /\ call' = [call EXCEPT ![c] = [at |-> "refresh", on |-> t]]
      BY <2>1
    <3> DEFINE w == [at |-> "refresh", on |-> t]
    <3>2 /\ w \in [at : {"code", "poll", "undecided", "refresh"}, on : Grant \cup Token]
         /\ w.at = "refresh" /\ w.on = t
      OBVIOUS
    <3>3 call' = [call EXCEPT ![c] = w]
      BY <3>1
    <3> HIDE DEF w
    <3> QED
      BY <3>1, <3>2, <3>3
  <2>2 ASSUME NEW g \in Grant, grant[g] # Null,
              call' = [call EXCEPT ![c] =
                [at |-> IF grant[g].kind = "code" THEN "code"
                        ELSE IF grant[g].st = "asked" THEN "undecided" ELSE "poll",
                 on |-> g]]
       PROVE  \E w \in [at : {"code", "poll", "undecided", "refresh"}, on : Grant \cup Token] :
                /\ call' = [call EXCEPT ![c] = w]
                /\ w.at = "refresh" => w.on \in Token /\ refresh[w.on] # Null
                /\ w.at # "refresh" => w.on \in Grant /\ grant[w.on] # Null
    <3> DEFINE at == IF grant[g].kind = "code" THEN "code"
                     ELSE IF grant[g].st = "asked" THEN "undecided" ELSE "poll"
    <3>1 at \in {"code", "poll", "undecided"}
      OBVIOUS
    <3>2 call' = [call EXCEPT ![c] = [at |-> at, on |-> g]]
      BY <2>2
    <3> HIDE DEF at
    <3> DEFINE w == [at |-> at, on |-> g]
    <3>3 /\ w \in [at : {"code", "poll", "undecided", "refresh"}, on : Grant \cup Token]
         /\ w.at # "refresh" /\ w.on = g
      BY <3>1
    <3>4 call' = [call EXCEPT ![c] = w]
      BY <3>2
    <3> HIDE DEF w
    <3> QED
      BY <2>2, <3>3, <3>4
  <2> QED
    BY <2>1, <2>2 DEF O!Present
<1>2 /\ call'[c] = w /\ \A d \in Caller : d # c => call'[d] = call[d]
     /\ call' \in [Caller ->
         [at : {"idle", "code", "poll", "undecided", "issue", "refresh", "rotate"},
          on : Grant \cup Token \cup {Null}]]
  BY <1>a, <1>1
<1>3 GrantTypes'
  <2>1 CallsFit'
    <3> SUFFICES ASSUME NEW d \in Caller
                 PROVE  /\ call'[d].at \in {"code", "poll", "undecided", "issue"} =>
                             call'[d].on \in Grant /\ grant[call'[d].on] # Null
                        /\ call'[d].at \in {"refresh", "rotate"} =>
                             call'[d].on \in Token /\ refresh[call'[d].on] # Null
      BY <1>0 DEF CallsFit
    <3>1 CASE d = c
      BY <1>1, <1>2, <3>1
    <3>2 CASE d # c
      BY <1>2, <3>2 DEF GrantInv, GrantTypes, CallsFit
    <3> QED
      BY <3>1, <3>2
  <2> QED
    BY <1>0, <1>2, <2>1 DEF GrantInv, GrantTypes, O!TypeOK, O!Code, O!RefreshRow
<1>4 \A d \in Caller : call'[d].at \in {"issue", "rotate"} => call'[d] = call[d]
  BY <1>1, <1>2
<1>5 CodesMove /\ PollsLast /\ RotationsLast
  BY <1>0, <1>4, CodesStay DEF RotationsLast
<1>6 FadeBut(Null) /\ (locker' = "change" => user.epoch < Changes)
  BY <1>0 DEF FadeBut, GrantInv, UserLocked
<1> QED
  BY <1>0, <1>3, <1>5, <1>6, QuietGrants

(* A request ends with nothing but, perhaps, the code it presented spent.   *)
LEMMA GrantRefused ==
  ASSUME GrantInv, NEW c \in Caller, O!Hangup(c),
         UNCHANGED <<user, client, refresh, replayed>>,
         \/ UNCHANGED locker
         \/ locker' = Null /\ call[c].at # "issue" /\ \A d \in Caller : call[d].at # "rotate",
         \/ UNCHANGED grant
         \/ \E g \in Grant : O!Is(g, "code", "approved") /\ O!Mark(g, "used")
  PROVE  GrantInv'
<1> USE NoRowIsNull
<1>1 /\ call' \in [Caller ->
              [at : {"idle", "code", "poll", "undecided", "issue", "refresh", "rotate"},
               on : Grant \cup Token \cup {Null}]]
     /\ RotationsLast /\ \A d \in Caller : call'[d].at # "idle" => call'[d] = call[d]
  BY Hanging DEF GrantInv
<1>2 /\ CodesMove /\ PollsLast /\ grant' \in [Grant -> O!Code \cup {Null}]
     /\ \A g \in Grant : grant[g] # Null => grant'[g] # Null
  <2>1 CASE UNCHANGED grant
    BY <1>1, <2>1, CodesStay DEF GrantInv, GrantTypes, O!TypeOK
  <2>2 ASSUME NEW g \in Grant, O!Is(g, "code", "approved"), O!Mark(g, "used")
       PROVE  /\ CodesMove /\ PollsLast /\ grant' \in [Grant -> O!Code \cup {Null}]
              /\ \A h \in Grant : grant[h] # Null => grant'[h] # Null
    <3>1 grant[g] # Null /\ grant[g].kind = "code"
      BY <2>2 DEF O!Is
    <3>2 /\ grant' \in [Grant -> O!Code \cup {Null}] /\ grant'[g] # Null
         /\ \A h \in Grant : h # g => grant'[h] = grant[h]
      BY <2>2, <3>1, Marking DEF GrantInv
    <3>3 \A d \in Caller : call'[d].at = "issue" => call'[d] = call[d] /\ call[d].on # g
      BY <1>1, <3>1 DEF GrantInv, RootInv, ClaimedByOne
    <3>4 CodesMove /\ PollsLast
      BY <2>2, <3>1, <3>3, CodeSpent
    <3> QED
      BY <3>2, <3>4
  <2> QED
    BY <2>1, <2>2
<1>3 GrantTypes'
  <2>1 CallsFit'
    BY <1>1, <1>2, CallsStay DEF GrantInv, GrantTypes
  <2> QED
    BY <1>1, <1>2, <2>1 DEF GrantInv, GrantTypes, O!TypeOK, O!Code, O!RefreshRow
<1>4 FadeBut(Null)
  BY DEF FadeBut
<1>5 locker' = "change" => user.epoch < Changes
  BY DEF GrantInv, UserLocked
<1>6 \A d \in Caller : call'[d].at = "rotate" => locker' = locker
  BY <1>1
<1> QED
  BY <1>1, <1>2, <1>3, <1>4, <1>5, <1>6, QuietGrants

(* issueTokens: one row is new, the rest is as "rows" has it.               *)
LEMMA Issuing ==
  ASSUME GrantTypes, NEW rows \in [Token -> O!RefreshRow \cup {Null}],
         \A t \in Token :
           /\ refresh[t] = Null => rows[t] = Null
           /\ refresh[t] # Null =>
                /\ rows[t] # Null
                /\ rows[t].root = refresh[t].root /\ rows[t].parent = refresh[t].parent
                /\ rows[t].epoch = refresh[t].epoch /\ rows[t].scope = refresh[t].scope
                /\ rows[t].st = "live" => refresh[t].st = "live",
         NEW g \in Grant, NEW parent \in Token \cup {Null}, NEW epoch \in 0..Changes,
         NEW scope \in O!Scopes, O!IssueTokens(rows, g, parent, epoch, scope)
  PROVE  /\ refresh' \in [Token -> O!RefreshRow \cup {Null}]
         /\ \A t \in Token : refresh[t] # Null => refresh'[t] # Null
         /\ \E n \in Token :
              /\ refresh[n] = Null /\ refresh'[n] # Null /\ FadeBut(n)
              /\ refresh'[n].root = g /\ refresh'[n].parent = parent
              /\ refresh'[n].epoch = epoch /\ refresh'[n].scope = scope
              /\ \A t \in Token : t # n => refresh'[t] = rows[t]
<1> USE NoRowIsNull
<1>1 PICK n \in Token : /\ refresh[n] = Null
       /\ refresh' = [rows EXCEPT ![n] =
            [root |-> g, parent |-> parent, epoch |-> epoch, scope |-> scope, st |-> "live"]]
  BY DEF O!IssueTokens
<1> DEFINE w == [root |-> g, parent |-> parent, epoch |-> epoch, scope |-> scope, st |-> "live"]
<1>2 /\ w \in O!RefreshRow /\ w.root = g /\ w.parent = parent /\ w.epoch = epoch
     /\ w.scope = scope
  BY DEF O!RefreshRow
<1>3 refresh' = [rows EXCEPT ![n] = w]
  BY <1>1
<1> HIDE DEF w
<1>4 /\ refresh'[n] = w /\ w # Null /\ \A t \in Token : t # n => refresh'[t] = rows[t]
     /\ refresh' \in [Token -> O!RefreshRow \cup {Null}]
  BY <1>2, <1>3
<1>5 FadeBut(n)
  BY <1>4 DEF FadeBut
<1>6 \A t \in Token : refresh[t] # Null => refresh'[t] # Null
  BY <1>1, <1>4
<1> QED
  BY <1>1, <1>2, <1>4, <1>5, <1>6

(* A code pays: it is used up, and a root token is there.                   *)
LEMMA GrantPaid ==
  ASSUME GrantInv, NEW c \in Caller, NEW g \in Grant, O!Hangup(c),
         UNCHANGED <<user, client, locker, replayed>>,
         grant[g] # Null, grant[g].st \in {"approved", "claimed"},
         grant[g].st = "claimed" => call[c].at = "issue" /\ call[c].on = g,
         O!Mark(g, "used"), O!TokensFor(g)
  PROVE  GrantInv'
<1> USE NoRowIsNull
<1>0 GrantTypes /\ UserLocked /\ RootInv /\ ChainInv /\ AllCurrent /\ TaintInv
  BY DEF GrantInv
<1>1 /\ call' \in [Caller ->
              [at : {"idle", "code", "poll", "undecided", "issue", "refresh", "rotate"},
               on : Grant \cup Token \cup {Null}]]
     /\ call'[c].at = "idle" /\ RotationsLast
     /\ \A d \in Caller : call'[d].at # "idle" => call'[d] = call[d]
  BY <1>0, Hanging
<1>2 /\ grant' \in [Grant -> O!Code \cup {Null}] /\ grant'[g] # Null /\ grant'[g].st = "used"
     /\ \A h \in Grant : h # g => grant'[h] = grant[h]
  BY <1>0, Marking
<1>3 \A d \in Caller : call'[d].at = "issue" => call'[d] = call[d] /\ call[d].on # g
  <2> SUFFICES ASSUME NEW d \in Caller, call'[d].at = "issue", call[d].on = g PROVE FALSE
    BY <1>1
  <2>1 call[d].at = "issue" /\ d # c
    BY <1>1
  <2>2 grant[g].st = "claimed" /\ (call[c].at = "issue" /\ call[c].on = g => c = d)
    BY <1>0, <2>1 DEF RootInv, ClaimedByOne
  <2> QED
    BY <2>1, <2>2
<1>4 CodesMove /\ PollsLast
  BY <1>3, CodeSpent
<1>5 /\ refresh \in [Token -> O!RefreshRow \cup {Null}] /\ grant[g].epoch \in 0..Changes
     /\ grant[g].scope \in O!Scopes
  <2>1 grant[g] \in O!Code /\ refresh \in [Token -> O!RefreshRow \cup {Null}]
    BY <1>0 DEF GrantTypes, O!TypeOK
  <2> QED
    BY <2>1 DEF O!Code
<1>6 /\ refresh' \in [Token -> O!RefreshRow \cup {Null}]
     /\ \A t \in Token : refresh[t] # Null => refresh'[t] # Null
     /\ \E n \in Token :
          /\ refresh[n] = Null /\ refresh'[n] # Null /\ FadeBut(n)
          /\ refresh'[n].root = g /\ refresh'[n].parent = Null
          /\ refresh'[n].epoch = grant[g].epoch
  BY <1>0, <1>5, Issuing DEF O!TokensFor
<1>7 PICK n \in Token :
       /\ refresh[n] = Null /\ refresh'[n] # Null /\ FadeBut(n)
       /\ refresh'[n].root = g /\ refresh'[n].parent = Null
       /\ refresh'[n].epoch = grant[g].epoch
  BY <1>6
<1>8 GrantTypes'
  <2>0 \A h \in Grant : grant[h] # Null => grant'[h] # Null
    BY <1>2
  <2>1 CallsFit'
    BY <1>0, <1>1, <1>6, <2>0, CallsStay DEF GrantTypes
  <2> QED
    BY <1>0, <1>1, <1>2, <1>6, <2>1 DEF GrantTypes, O!TypeOK, O!Code, O!RefreshRow
<1>a UserLocked'
  BY <1>0, <1>1 DEF UserLocked
<1>b RootInv'
  <2>0 \A t \in Token : t # n /\ refresh'[t] # Null /\ refresh'[t].parent = Null =>
         /\ refresh[t] # Null /\ refresh[t].parent = Null /\ refresh'[t].root = refresh[t].root
    BY <1>7 DEF FadeBut
  <2>1 ClaimedByOne'
    BY <1>0, <1>4 DEF RootInv, ClaimedByOne, PollsLast
  <2>2 RootsUsed'
    <3> SUFFICES ASSUME NEW t \in Token, refresh'[t] # Null, refresh'[t].parent = Null
                 PROVE  /\ grant'[refresh'[t].root] # Null
                        /\ grant'[refresh'[t].root].st \in {"used", "gone"}
      BY DEF RootsUsed
    <3>1 CASE t = n
      BY <1>2, <1>7, <3>1
    <3>2 CASE t # n
      <4>1 PICK h \in Grant : h = refresh[t].root
        BY <1>0, <2>0, <3>2, RowTyped
      <4>2 grant[h] # Null /\ grant[h].st \in {"used", "gone"}
        BY <1>0, <2>0, <3>2, <4>1 DEF RootInv, RootsUsed
      <4> QED
        BY <1>4, <2>0, <3>2, <4>1, <4>2 DEF CodesMove
    <3> QED
      BY <3>1, <3>2
  <2>3 \A t \in Token : t # n /\ refresh'[t] # Null /\ refresh'[t].parent = Null =>
         refresh'[t].root # g
    BY <1>0, <2>0 DEF RootInv, RootsUsed
  <2>4 O!CodePaysOnce'
    BY <1>0, <1>7, <2>0, <2>3 DEF RootInv, O!CodePaysOnce
  <2> QED
    BY <2>1, <2>2, <2>4 DEF RootInv
<1>c ChainInv'
  BY <1>0, <1>1, <1>7, <1>8, ChainKept DEF GrantTypes
<1>d AllCurrent'
  <2>1 grant[g].epoch = user.epoch
    BY <1>0 DEF AllCurrent
  <2> QED
    BY <1>0, <1>1, <1>4, <1>7, <2>1, CurrentKept
<1>e TaintInv'
  BY <1>0, <1>1, <1>7, TaintKept
<1> QED
  BY <1>8, <1>a, <1>b, <1>c, <1>d, <1>e DEF GrantInv

(* A poll claims an approved code without the lock.                         *)
LEMMA GrantClaimed ==
  ASSUME GrantInv, NEW c \in Caller, O!PollClaim(c)
  PROVE  GrantInv'
<1> USE NoRowIsNull
<1>0 /\ GrantTypes /\ UserLocked /\ RootInv /\ ChainInv /\ AllCurrent /\ TaintInv
     /\ UNCHANGED <<user, client, refresh, locker, replayed>>
  BY DEF GrantInv, O!PollClaim
<1>1 PICK g \in Grant : g = call[c].on
  BY <1>0 DEF GrantTypes, CallsFit, O!PollClaim
<1>2 /\ grant[g] # Null /\ grant[g].kind = "device" /\ grant[g].st = "approved"
     /\ O!Mark(g, "claimed")
  BY <1>1 DEF O!PollClaim, O!Is
<1>3 /\ grant' \in [Grant -> O!Code \cup {Null}]
     /\ \A h \in Grant : h # g => grant'[h] = grant[h]
     /\ grant'[g] # Null /\ grant'[g].st = "claimed" /\ grant'[g].kind = "device"
     /\ grant'[g].epoch = grant[g].epoch
  BY <1>0, <1>2, Marking
<1>4 /\ call' \in [Caller ->
         [at : {"idle", "code", "poll", "undecided", "issue", "refresh", "rotate"},
          on : Grant \cup Token \cup {Null}]]
     /\ call'[c].at = "issue" /\ call'[c].on = g /\ \A d \in Caller : d # c => call'[d] = call[d]
  <2>1 call \in [Caller ->
         [at : {"idle", "code", "poll", "undecided", "issue", "refresh", "rotate"},
          on : Grant \cup Token \cup {Null}]]
    BY <1>0 DEF GrantTypes, O!TypeOK
  <2>2 PICK v \in [at : {"idle", "code", "poll", "undecided", "issue", "refresh", "rotate"},
                   on : Grant \cup Token \cup {Null}] : v = call[c]
    BY <2>1
  <2> DEFINE w == [v EXCEPT !.at = "issue"]
  <2>3 /\ w \in [at : {"idle", "code", "poll", "undecided", "issue", "refresh", "rotate"},
                 on : Grant \cup Token \cup {Null}]
       /\ w.at = "issue" /\ w.on = v.on
    OBVIOUS
  <2>4 call' = [call EXCEPT ![c] = w]
    BY <2>1, <2>2 DEF O!PollClaim
  <2> HIDE DEF w
  <2> QED
    BY <1>1, <2>1, <2>2, <2>3, <2>4
<1>5 GrantTypes'
  <2>1 CallsFit'
    <3> SUFFICES ASSUME NEW d \in Caller
                 PROVE  /\ call'[d].at \in {"code", "poll", "undecided", "issue"} =>
                             call'[d].on \in Grant /\ grant'[call'[d].on] # Null
                        /\ call'[d].at \in {"refresh", "rotate"} =>
                             call'[d].on \in Token /\ refresh[call'[d].on] # Null
      BY <1>0 DEF CallsFit
    <3>1 CASE d = c
      BY <1>3, <1>4, <3>1
    <3>2 CASE d # c
      <4>1 \A h \in Grant : grant[h] # Null => grant'[h] # Null
        BY <1>3
      <4> QED
        BY <1>0, <1>4, <3>2, <4>1 DEF GrantTypes, CallsFit
    <3> QED
      BY <3>1, <3>2
  <2> QED
    BY <1>0, <1>3, <1>4, <2>1 DEF GrantTypes, O!TypeOK, O!Code, O!RefreshRow
<1>6 RotationsLast /\ FadeBut(Null)
  BY <1>0, <1>4 DEF RotationsLast, FadeBut
<1>7 CodesMove
  BY <1>0, <1>2, <1>3 DEF CodesMove, AllCurrent
<1>8 UserLocked'
  BY <1>0, <1>6 DEF UserLocked, RotationsLast
<1>9 RootInv'
  <2>1 ASSUME NEW d \in Caller, call'[d].at = "issue"
       PROVE  /\ grant'[call'[d].on].kind = "device" /\ grant'[call'[d].on].st = "claimed"
              /\ call'[d].on = g => d = c
    <3>1 CASE d = c
      BY <1>3, <1>4, <3>1
    <3>2 CASE d # c
      <4>1 /\ call'[d] = call[d] /\ call[d].on \in Grant
           /\ grant[call[d].on].kind = "device" /\ grant[call[d].on].st = "claimed"
        BY <1>0, <1>4, <2>1, <3>2 DEF GrantTypes, CallsFit, RootInv, ClaimedByOne
      <4>2 call[d].on # g
        BY <1>2, <4>1
      <4> QED
        BY <1>3, <4>1, <4>2
    <3> QED
      BY <3>1, <3>2
  <2>2 ClaimedByOne'
    <3> SUFFICES ASSUME NEW d \in Caller, call'[d].at = "issue",
                        NEW e \in Caller, call'[e].at = "issue", call'[e].on = call'[d].on
                 PROVE  d = e
      BY <2>1 DEF ClaimedByOne
    <3>1 CASE call'[d].on = g
      BY <2>1, <3>1
    <3>2 CASE call'[d].on # g
      <4>1 d # c /\ e # c
        BY <1>4, <3>2
      <4> QED
        BY <1>0, <1>4, <4>1 DEF RootInv, ClaimedByOne
    <3> QED
      BY <3>1, <3>2
  <2>3 RootsUsed'
    <3> SUFFICES ASSUME NEW t \in Token, refresh[t] # Null, refresh[t].parent = Null
                 PROVE  /\ grant'[refresh[t].root] # Null
                        /\ grant'[refresh[t].root].st \in {"used", "gone"}
      BY <1>0 DEF RootsUsed
    <3>1 PICK h \in Grant : h = refresh[t].root
      BY <1>0, RowTyped
    <3>2 grant[h] # Null /\ grant[h].st \in {"used", "gone"}
      BY <1>0, <3>1 DEF RootInv, RootsUsed
    <3> QED
      BY <1>7, <3>1, <3>2 DEF CodesMove
  <2> QED
    BY <1>0, <2>2, <2>3 DEF RootInv, O!CodePaysOnce
<1>10 ChainInv'
  BY <1>0, <1>5, <1>6, ChainKept DEF GrantTypes
<1>11 AllCurrent'
  BY <1>0, <1>6, <1>7, CurrentKept
<1>12 TaintInv'
  BY <1>0, <1>6, TaintKept
<1> QED
  BY <1>5, <1>8, <1>9, <1>10, <1>11, <1>12 DEF GrantInv

(* A poll and a change of credentials wait for each other; one is undone.   *)
LEMMA GrantAborted ==
  ASSUME GrantInv, NEW c \in Caller, O!DeadlockAbort(c)
  PROVE  GrantInv'
<1> USE NoRowIsNull
<1>0 /\ GrantTypes /\ UserLocked /\ RootInv /\ AllCurrent
     /\ UNCHANGED <<user, client, refresh, replayed>>
     /\ locker = "change" /\ call[c].at = "issue"
  BY DEF GrantInv, O!DeadlockAbort, O!Change
<1>1 FadeBut(Null)
  BY <1>0 DEF FadeBut
<1>2 \A d \in Caller : call[d].at # "rotate"
  BY <1>0 DEF UserLocked
<1>3 user.epoch < Changes
  BY <1>0 DEF UserLocked
<1>4 CASE locker' = Null /\ UNCHANGED <<grant, call>>
  <2>1 GrantTypes'
    BY <1>0, <1>4 DEF GrantTypes, O!TypeOK, O!Code, O!RefreshRow, CallsFit
  <2>2 CodesMove /\ PollsLast /\ RotationsLast
    BY <1>0, <1>4, CodesStay DEF RotationsLast
  <2> QED
    BY <1>0, <1>1, <1>2, <1>3, <1>4, <2>1, <2>2, QuietGrants
<1>5 CASE O!Mark(call[c].on, "approved") /\ O!Hangup(c) /\ UNCHANGED locker
  <2>1 PICK g \in Grant : g = call[c].on
    BY <1>0 DEF GrantTypes, CallsFit
  <2>2 grant[g] # Null /\ grant[g].st = "claimed" /\ grant[g].kind = "device"
    BY <1>0, <2>1 DEF GrantTypes, CallsFit, RootInv, ClaimedByOne
  <2>3 /\ grant' \in [Grant -> O!Code \cup {Null}]
       /\ \A h \in Grant : h # g => grant'[h] = grant[h]
       /\ grant'[g] # Null /\ grant'[g].st = "approved" /\ grant'[g].epoch = grant[g].epoch
    BY <1>0, <1>5, <2>1, <2>2, Marking
  <2>4 /\ call' \in [Caller ->
                [at : {"idle", "code", "poll", "undecided", "issue", "refresh", "rotate"},
                 on : Grant \cup Token \cup {Null}]]
       /\ call'[c].at = "idle" /\ RotationsLast
       /\ \A d \in Caller : call'[d].at # "idle" => call'[d] = call[d]
    BY <1>0, <1>5, Hanging
  <2>5 GrantTypes'
    <3>0 \A h \in Grant : grant[h] # Null => grant'[h] # Null
      BY <2>3
    <3>1 CallsFit'
      BY <1>0, <2>4, <3>0, CallsStay DEF GrantTypes
    <3> QED
      BY <1>0, <1>5, <2>3, <2>4, <3>1 DEF GrantTypes, O!TypeOK, O!Code, O!RefreshRow
  <2>6 CodesMove
    BY <1>0, <2>2, <2>3 DEF CodesMove, AllCurrent
  <2>7 PollsLast
    <3> SUFFICES ASSUME NEW d \in Caller, call'[d].at = "issue"
                 PROVE  /\ call'[d] = call[d] /\ grant'[call[d].on].kind = "device"
                        /\ grant'[call[d].on].st = "claimed"
      BY DEF PollsLast
    <3>1 call'[d] = call[d] /\ d # c
      BY <2>4
    <3>2 /\ call[d].on \in Grant /\ grant[call[d].on].kind = "device"
         /\ grant[call[d].on].st = "claimed" /\ call[d].on # g
      BY <1>0, <2>1, <3>1 DEF GrantTypes, CallsFit, RootInv, ClaimedByOne
    <3> QED
      BY <2>3, <3>1, <3>2
  <2> QED
    BY <1>0, <1>1, <1>2, <1>3, <1>5, <2>4, <2>5, <2>6, <2>7, QuietGrants
<1> QED
  BY <1>4, <1>5 DEF O!DeadlockAbort

(* The user's credentials change.                                           *)
LEMMA GrantEnded ==
  ASSUME GrantInv, O!RevokeCredentials
  PROVE  GrantInv'
<1> USE NoRowIsNull
<1>0 /\ GrantTypes /\ UserLocked /\ RootInv /\ ChainInv /\ AllCurrent /\ TaintInv
     /\ locker = "change" /\ locker' = Null /\ UNCHANGED <<client, call, replayed>>
     /\ refresh' = O!Revoked(Token)
  BY DEF GrantInv, O!RevokeCredentials, O!Change
<1>1 \A d \in Caller : call[d].at # "rotate"
  BY <1>0 DEF UserLocked
<1>2 user' \in [epoch : 0..Changes, open : BOOLEAN]
  <2>1 user \in [epoch : 0..Changes, open : BOOLEAN] /\ user.epoch < Changes
    BY <1>0 DEF GrantTypes, O!TypeOK, UserLocked
  <2>2 PICK n \in 0..Changes : n = user.epoch
    BY <2>1
  <2>3 n + 1 \in 0..Changes
    BY <2>1, <2>2
  <2>4 user' = [user EXCEPT !.epoch = n + 1]
    BY <2>2 DEF O!RevokeCredentials
  <2> QED
    BY <2>1, <2>3, <2>4
<1>3 /\ refresh' \in [Token -> O!RefreshRow \cup {Null}] /\ FadeBut(Null)
     /\ \A t \in Token : refresh[t] # Null => refresh'[t] # Null
  BY <1>0, Revoking
<1>4 \A t \in Token : refresh'[t] # Null => refresh'[t].st # "live"
  BY <1>0, RevokedTyped
<1>5 ASSUME NEW g \in Grant
     PROVE  /\ grant'[g] \in O!Code \cup {Null} /\ (grant[g] # Null => grant'[g] # Null)
            /\ grant[g] # Null /\ grant[g].st \in {"used", "gone"} =>
                 grant'[g].st \in {"used", "gone"}
            /\ grant'[g] # Null => grant'[g].st \in {"asked", "gone"}
  <2>0 /\ grant'[g] = IF O!Ended(g) THEN [grant[g] EXCEPT !.st = "gone"] ELSE grant[g]
       /\ grant[g] \in O!Code \cup {Null}
    BY <1>0 DEF O!RevokeCredentials, GrantTypes, O!TypeOK
  <2>1 CASE O!Ended(g)
    <3>1 PICK v \in O!Code : v = grant[g]
      BY <2>0, <2>1 DEF O!Ended
    <3> DEFINE w == [v EXCEPT !.st = "gone"]
    <3>2 w \in O!Code /\ w.st = "gone"
      BY DEF O!Code
    <3>3 grant'[g] = w
      BY <2>0, <2>1, <3>1
    <3> HIDE DEF w
    <3> QED
      BY <3>2, <3>3
  <2>2 CASE ~O!Ended(g)
    BY <2>0, <2>2 DEF O!Ended, O!Is
  <2> QED
    BY <2>1, <2>2
<1>6 grant' \in [Grant -> O!Code \cup {Null}]
  <2>1 grant' = [g \in Grant |->
         IF O!Ended(g) THEN [grant[g] EXCEPT !.st = "gone"] ELSE grant[g]]
    BY DEF O!RevokeCredentials
  <2>2 grant' = [g \in Grant |-> grant'[g]]
    BY <2>1
  <2> QED
    BY <1>5, <2>2
<1>7 GrantTypes'
  <2>1 CallsFit'
    BY <1>0, <1>3, <1>5, CallsStay DEF GrantTypes
  <2> QED
    BY <1>0, <1>2, <1>3, <1>6, <2>1 DEF GrantTypes, O!TypeOK, O!Code, O!RefreshRow
<1>8 CodesMove /\ RotationsLast
  BY <1>0, <1>5 DEF CodesMove, RotationsLast
<1>9 PollsLast
  <2>1 \A d \in Caller : call[d].at # "issue"
    BY <1>0 DEF O!RevokeCredentials, O!Is, GrantTypes, CallsFit, RootInv, ClaimedByOne
  <2> QED
    BY <1>0, <2>1 DEF PollsLast
<1>10 UserLocked'
  BY <1>0, <1>1 DEF UserLocked
<1>11 RootInv'
  BY <1>0, <1>3, <1>8, <1>9, RootsKept
<1>12 ChainInv'
  BY <1>0, <1>3, <1>7, <1>8, ChainKept DEF GrantTypes
<1>13 AllCurrent'
  BY <1>0, <1>1, <1>4, <1>5 DEF AllCurrent
<1>14 TaintInv'
  BY <1>0, <1>3, <1>8, TaintKept
<1> QED
  BY <1>7, <1>10, <1>11, <1>12, <1>13, <1>14 DEF GrantInv

(* A refresh token is read under the lock: it is to be rotated, its replay  *)
(* ends all there is, or it is refused.                                     *)
LEMMA GrantRead ==
  ASSUME GrantInv, NEW c \in Caller, O!RefreshRead(c)
  PROVE  GrantInv'
<1> USE NoRowIsNull
<1>0 /\ GrantTypes /\ UserLocked /\ RootInv /\ ChainInv /\ AllCurrent /\ TaintInv
     /\ UNCHANGED <<user, client, grant>> /\ locker = Null /\ call[c].at = "refresh"
  BY DEF GrantInv, O!RefreshRead, O!Free
<1>1 PICK t \in Token : t = call[c].on /\ refresh[t] # Null
  BY <1>0 DEF GrantTypes, CallsFit
<1>2 \A d \in Caller : call[d].at # "rotate"
  BY <1>0 DEF UserLocked
<1>3 PICK T \in SUBSET Token : Tainted(T)
  BY <1>0 DEF TaintInv
<1>4 CASE /\ O!Live(t) /\ locker' = c /\ call' = [call EXCEPT ![c].at = "rotate"]
          /\ UNCHANGED <<refresh, replayed>>
  <2>1 /\ call' \in [Caller ->
           [at : {"idle", "code", "poll", "undecided", "issue", "refresh", "rotate"},
            on : Grant \cup Token \cup {Null}]]
       /\ call'[c].at = "rotate" /\ call'[c].on = t
       /\ \A d \in Caller : d # c => call'[d] = call[d]
    <3>1 call \in [Caller ->
           [at : {"idle", "code", "poll", "undecided", "issue", "refresh", "rotate"},
            on : Grant \cup Token \cup {Null}]]
      BY <1>0 DEF GrantTypes, O!TypeOK
    <3>2 PICK v \in [at : {"idle", "code", "poll", "undecided", "issue", "refresh", "rotate"},
                     on : Grant \cup Token \cup {Null}] : v = call[c]
      BY <3>1
    <3> DEFINE w == [v EXCEPT !.at = "rotate"]
    <3>3 /\ w \in [at : {"idle", "code", "poll", "undecided", "issue", "refresh", "rotate"},
                   on : Grant \cup Token \cup {Null}]
         /\ w.at = "rotate" /\ w.on = v.on
      OBVIOUS
    <3>4 call' = [call EXCEPT ![c] = w]
      BY <1>4, <3>1, <3>2
    <3> HIDE DEF w
    <3> QED
      BY <1>1, <3>1, <3>2, <3>3, <3>4
  <2>2 GrantTypes'
    <3>1 CallsFit'
      <4> SUFFICES ASSUME NEW d \in Caller
                   PROVE  /\ call'[d].at \in {"code", "poll", "undecided", "issue"} =>
                               call'[d].on \in Grant /\ grant[call'[d].on] # Null
                          /\ call'[d].at \in {"refresh", "rotate"} =>
                               call'[d].on \in Token /\ refresh[call'[d].on] # Null
        BY <1>0, <1>4 DEF CallsFit
      <4>1 CASE d = c
        BY <1>1, <2>1, <4>1
      <4>2 CASE d # c
        BY <1>0, <2>1, <4>2 DEF GrantTypes, CallsFit
      <4> QED
        BY <4>1, <4>2
    <3> QED
      BY <1>0, <1>4, <2>1, <3>1 DEF GrantTypes, O!TypeOK, O!Code, O!RefreshRow
  <2>3 CodesMove /\ PollsLast
    <3>1 \A d \in Caller : call'[d].at = "issue" => call'[d] = call[d]
      BY <2>1
    <3> QED
      BY <1>0, <3>1, CodesStay
  <2>4 \A d \in Caller : call'[d].at = "rotate" => d = c
    BY <1>2, <2>1
  <2>5 UserLocked'
    BY <1>0, <1>4, <2>4 DEF UserLocked
  <2>6 FadeBut(Null)
    BY <1>4 DEF FadeBut
  <2>7 RootInv'
    BY <1>0, <2>3, <2>6, RootsKept
  <2>8 refresh[t].st = "live" /\ refresh[t].epoch = user.epoch
    BY <1>0, <1>4 DEF O!Live, AllCurrent
  <2>9 ChainInv'
    <3>1 \A u \in Token : refresh[u] # Null => refresh[u].parent # t
      BY <1>0, <2>8 DEF ChainInv, Replaces
    <3>2 NotReplaced'
      BY <1>4, <2>1, <2>4, <3>1 DEF NotReplaced
    <3> QED
      BY <1>0, <1>4, <3>2 DEF ChainInv, Replaces
  <2>10 AllCurrent'
    BY <1>0, <1>4, <2>1, <2>4, <2>8 DEF AllCurrent
  <2>11 Tainted(T)'
    <3>1 t \notin T
      BY <1>3, <2>8 DEF Tainted
    <3> QED
      BY <1>3, <1>4, <2>1, <2>4, <3>1 DEF Tainted
  <2> QED
    BY <2>2, <2>5, <2>7, <2>9, <2>10, <2>11 DEF GrantInv, TaintInv
<1>5 CASE /\ refresh' = O!Revoked(Token) /\ replayed' = replayed \cup {t}
          /\ O!Hangup(c) /\ UNCHANGED locker
  <2>1 /\ refresh' \in [Token -> O!RefreshRow \cup {Null}] /\ FadeBut(Null)
       /\ \A u \in Token : refresh[u] # Null => refresh'[u] # Null
    BY <1>0, <1>5, Revoking
  <2>2 \A u \in Token : refresh'[u] # Null => refresh'[u].st # "live"
    BY <1>0, <1>5, RevokedTyped
  <2>3 /\ call' \in [Caller ->
              [at : {"idle", "code", "poll", "undecided", "issue", "refresh", "rotate"},
               on : Grant \cup Token \cup {Null}]]
       /\ RotationsLast /\ \A d \in Caller : call'[d].at # "idle" => call'[d] = call[d]
    BY <1>0, <1>5, Hanging
  <2>4 GrantTypes'
    <3>0 \A h \in Grant : grant[h] # Null => grant'[h] # Null
      BY <1>0
    <3>1 CallsFit'
      BY <1>0, <2>1, <2>3, <3>0, CallsStay DEF GrantTypes
    <3> QED
      BY <1>0, <1>5, <2>1, <2>3, <3>1 DEF GrantTypes, O!TypeOK, O!Code, O!RefreshRow
  <2>5 CodesMove /\ PollsLast
    <3>1 \A d \in Caller : call'[d].at = "issue" => call'[d] = call[d]
      BY <2>3
    <3> QED
      BY <1>0, <3>1, CodesStay
  <2>6 \A d \in Caller : call'[d].at # "rotate"
    BY <1>2, <2>3 DEF RotationsLast
  <2>7 UserLocked'
    BY <1>0, <1>5, <2>6 DEF UserLocked
  <2>8 RootInv'
    BY <1>0, <2>1, <2>5, RootsKept
  <2>9 ChainInv'
    BY <1>0, <2>1, <2>3, <2>4, ChainKept DEF GrantTypes
  <2>10 AllCurrent'
    BY <1>0, <2>1, <2>3, <2>5, CurrentKept
  <2>11 PICK E \in SUBSET Token : \A u \in Token : u \in E <=> refresh'[u] # Null
    <3>1 {u \in Token : refresh'[u] # Null} \in SUBSET Token
      OBVIOUS
    <3> QED
      BY <3>1
  <2>12 Tainted(E)'
    <3>1 \A u \in T : u \in Token /\ refresh'[u] # Null
      BY <1>3, <2>1 DEF Tainted
    <3>2 replayed' \subseteq E
      BY <1>1, <1>3, <1>5, <2>1, <2>11, <3>1 DEF Tainted
    <3> QED
      BY <2>2, <2>6, <2>11, <3>2 DEF Tainted
  <2> QED
    BY <2>4, <2>7, <2>8, <2>9, <2>10, <2>12 DEF GrantInv, TaintInv
<1>6 CASE O!Hangup(c) /\ UNCHANGED <<refresh, locker, replayed>>
  BY <1>0, <1>6, GrantRefused
<1> QED
  BY <1>1, <1>4, <1>5, <1>6 DEF O!RefreshRead, O!Compromised

(* A rotation under the lock: the token is spent, and one may replace it.   *)
LEMMA GrantRotated ==
  ASSUME GrantInv, NEW c \in Caller, O!RefreshRotate(c)
  PROVE  GrantInv'
<1> USE NoRowIsNull
<1>0 /\ GrantTypes /\ UserLocked /\ RootInv /\ ChainInv /\ AllCurrent /\ TaintInv
     /\ UNCHANGED <<user, client, grant, replayed>> /\ locker' = Null /\ O!Hangup(c)
     /\ call[c].at = "rotate" /\ locker = c
  BY DEF GrantInv, O!RefreshRotate, UserLocked
<1>1 PICK t \in Token : t = call[c].on /\ refresh[t] # Null
  BY <1>0 DEF GrantTypes, CallsFit
<1>2 /\ call' \in [Caller ->
            [at : {"idle", "code", "poll", "undecided", "issue", "refresh", "rotate"},
             on : Grant \cup Token \cup {Null}]]
     /\ call'[c].at = "idle" /\ RotationsLast
     /\ \A d \in Caller : call'[d].at # "idle" => call'[d] = call[d]
  BY <1>0, Hanging
<1>3 \A d \in Caller : call'[d].at # "rotate"
  BY <1>0, <1>2 DEF UserLocked, RotationsLast
<1>4 CodesMove /\ PollsLast
  <2>1 \A d \in Caller : call'[d].at = "issue" => call'[d] = call[d]
    BY <1>2
  <2> QED
    BY <1>0, <2>1, CodesStay
<1>5 ASSUME refresh' \in [Token -> O!RefreshRow \cup {Null}],
            \A u \in Token : refresh[u] # Null => refresh'[u] # Null
     PROVE  GrantTypes'
  <2>0 \A h \in Grant : grant[h] # Null => grant'[h] # Null
    BY <1>0
  <2>1 CallsFit'
    BY <1>0, <1>2, <1>5, <2>0, CallsStay DEF GrantTypes
  <2> QED
    BY <1>0, <1>2, <1>5, <2>1 DEF GrantTypes, O!TypeOK, O!Code, O!RefreshRow
<1>6 CASE refresh' = O!Revoked({t})
  <2>1 /\ refresh' \in [Token -> O!RefreshRow \cup {Null}] /\ FadeBut(Null)
       /\ \A u \in Token : refresh[u] # Null => refresh'[u] # Null
    BY <1>0, <1>6, Revoking
  <2>2 GrantTypes'
    BY <1>5, <2>1
  <2> QED
    BY <1>0, <1>2, <1>3, <1>4, <2>1, <2>2, QuietGrants
<1>7 ASSUME NEW scope \in O!Scopes, scope \subseteq refresh[t].scope,
            O!Successor(O!Revoked({t}), t, scope)
     PROVE  GrantInv'
  <2>1 /\ refresh[t].root \in Grant /\ refresh[t].epoch \in 0..Changes
       /\ refresh[t].epoch = user.epoch
    BY <1>0, <1>1, RowTyped DEF AllCurrent
  <2>2 /\ refresh' \in [Token -> O!RefreshRow \cup {Null}]
       /\ \A u \in Token : refresh[u] # Null => refresh'[u] # Null
       /\ \E n \in Token :
            /\ refresh[n] = Null /\ refresh'[n] # Null /\ FadeBut(n)
            /\ refresh'[n].root = refresh[t].root /\ refresh'[n].parent = t
            /\ refresh'[n].epoch = refresh[t].epoch /\ refresh'[n].scope = scope
            /\ \A u \in Token : u # n => refresh'[u] = O!Revoked({t})[u]
    <3> DEFINE rows == O!Revoked({t})
               g == refresh[t].root
               epoch == refresh[t].epoch
    <3>1 /\ rows \in [Token -> O!RefreshRow \cup {Null}]
         /\ \A u \in Token :
              /\ refresh[u] = Null => rows[u] = Null
              /\ refresh[u] # Null =>
                   /\ rows[u] # Null
                   /\ rows[u].root = refresh[u].root /\ rows[u].parent = refresh[u].parent
                   /\ rows[u].epoch = refresh[u].epoch /\ rows[u].scope = refresh[u].scope
                   /\ rows[u].st = "live" => refresh[u].st = "live"
      BY <1>0, RevokedTyped
    <3>2 O!IssueTokens(rows, g, t, epoch, scope)
      BY <1>7 DEF O!Successor
    <3>3 t \in Token \cup {Null} /\ g \in Grant /\ epoch \in 0..Changes
      BY <2>1
    <3> HIDE DEF rows, g, epoch
    <3>4 /\ refresh' \in [Token -> O!RefreshRow \cup {Null}]
         /\ \A u \in Token : refresh[u] # Null => refresh'[u] # Null
         /\ \E n \in Token :
              /\ refresh[n] = Null /\ refresh'[n] # Null /\ FadeBut(n)
              /\ refresh'[n].root = g /\ refresh'[n].parent = t
              /\ refresh'[n].epoch = epoch /\ refresh'[n].scope = scope
              /\ \A u \in Token : u # n => refresh'[u] = rows[u]
      BY <1>0, <3>1, <3>2, <3>3, Issuing
    <3> QED
      BY <3>4 DEF rows, g, epoch
  <2>3 PICK n \in Token :
         /\ refresh[n] = Null /\ refresh'[n] # Null /\ FadeBut(n)
         /\ refresh'[n].root = refresh[t].root /\ refresh'[n].parent = t
         /\ refresh'[n].epoch = refresh[t].epoch /\ refresh'[n].scope = scope
         /\ \A u \in Token : u # n => refresh'[u] = O!Revoked({t})[u]
    BY <2>2
  <2>4 GrantTypes'
    BY <1>5, <2>2
  <2>5 UserLocked'
    BY <1>0, <1>3 DEF UserLocked
  <2>6 RootInv'
    BY <1>0, <1>4, <2>3, RootsKept
  <2>7 /\ t # n /\ refresh'[t] # Null /\ refresh'[t].st # "live"
       /\ refresh'[t].scope = refresh[t].scope
    <3>1 t # n
      BY <1>1, <2>3
    <3>2 refresh'[t] = O!Revoked({t})[t]
      BY <2>3, <3>1
    <3> QED
      BY <1>0, <1>1, <3>1, <3>2, RevokedTyped
  <2>8 \A u \in Token : u # n /\ refresh'[u] # Null =>
         /\ refresh[u] # Null /\ refresh'[u].parent = refresh[u].parent
         /\ refresh'[u].scope = refresh[u].scope /\ refresh[u].parent # t
    BY <1>0, <1>1, <2>3 DEF FadeBut, ChainInv, NotReplaced
  <2>9 Replaces'
    <3> SUFFICES ASSUME NEW s \in Token, refresh'[s] # Null, refresh'[s].parent # Null
                 PROVE  /\ refresh'[refresh'[s].parent] # Null
                        /\ refresh'[refresh'[s].parent].st # "live"
                        /\ refresh'[s].scope \subseteq refresh'[refresh'[s].parent].scope
                        /\ \A u \in Token : refresh'[u] # Null /\ refresh'[u].parent = refresh'[s].parent
                             => s = u
      BY DEF Replaces
    <3>1 CASE s = n
      <4>1 refresh'[s].parent = t /\ refresh'[s].scope = scope
        BY <2>3, <3>1
      <4>2 \A u \in Token : refresh'[u] # Null /\ refresh'[u].parent = t => u = n
        BY <2>8
      <4> QED
        BY <1>7, <2>7, <3>1, <4>1, <4>2
    <3>2 CASE s # n
      <4>1 /\ refresh[s] # Null /\ refresh'[s].parent = refresh[s].parent
           /\ refresh'[s].scope = refresh[s].scope /\ refresh[s].parent # t
        BY <2>8, <3>2
      <4>2 PICK p \in Token : p = refresh[s].parent
        BY <1>0, <4>1, RowTyped
      <4>3 /\ refresh[p] # Null /\ refresh[p].st # "live" /\ refresh[s].scope \subseteq refresh[p].scope
           /\ \A u \in Token : refresh[u] # Null /\ refresh[u].parent = p => s = u
        BY <1>0, <4>1, <4>2 DEF ChainInv, Replaces
      <4>4 p # n
        BY <2>3, <4>3
      <4>5 refresh'[p] # Null /\ refresh'[p].st # "live" /\ refresh'[p].scope = refresh[p].scope
        BY <2>3, <4>3, <4>4 DEF FadeBut
      <4>6 ASSUME NEW u \in Token, refresh'[u] # Null, refresh'[u].parent = p PROVE s = u
        <5>1 u # n
          BY <2>3, <4>1, <4>2, <4>6
        <5> QED
          BY <2>8, <4>3, <4>6, <5>1
      <4> QED
        BY <4>1, <4>2, <4>3, <4>5, <4>6
    <3> QED
      BY <3>1, <3>2
  <2>10 ChainInv'
    BY <1>3, <2>9 DEF ChainInv, NotReplaced
  <2>11 AllCurrent'
    BY <1>0, <1>2, <1>4, <2>1, <2>3, CurrentKept
  <2>12 TaintInv'
    BY <1>0, <1>1, <1>2, <2>3, TaintKept
  <2> QED
    BY <2>4, <2>5, <2>6, <2>10, <2>11, <2>12 DEF GrantInv
<1>8 refresh[t].scope \in O!Scopes
  BY <1>0, <1>1, RowTyped
<1>9 CASE O!Successor(O!Revoked({t}), t, refresh[t].scope)
  BY <1>7, <1>8, <1>9
<1>10 ASSUME NEW wanted \in O!Scopes,
             IF O!Narrowed(t, wanted) = {}
             THEN refresh' = O!Revoked({t})
             ELSE O!Successor(O!Revoked({t}), t, O!Narrowed(t, wanted))
      PROVE  GrantInv'
  <2>1 CASE O!Narrowed(t, wanted) = {}
    BY <1>6, <1>10, <2>1
  <2>2 CASE O!Narrowed(t, wanted) # {}
    <3>1 O!Narrowed(t, wanted) \in O!Scopes /\ O!Narrowed(t, wanted) \subseteq refresh[t].scope
      BY <1>8, <2>2 DEF O!Narrowed, O!Scopes
    <3>2 O!Successor(O!Revoked({t}), t, O!Narrowed(t, wanted))
      BY <1>10, <2>2
    <3> DEFINE narrow == O!Narrowed(t, wanted)
    <3> HIDE DEF narrow
    <3>3 narrow \in O!Scopes /\ narrow \subseteq refresh[t].scope
         /\ O!Successor(O!Revoked({t}), t, narrow)
      BY <3>1, <3>2 DEF narrow
    <3> QED
      BY <1>7, <3>3
  <2> QED
    BY <2>1, <2>2
<1> QED
  BY <1>1, <1>9, <1>10 DEF O!RefreshRotate

(* The token endpoint, one request at a time.                               *)
LEMMA GrantCalled ==
  ASSUME GrantInv, NEW c \in Caller,
         \/ O!Present(c) \/ O!RedeemCode(c) \/ O!PollLocked(c) \/ O!PollClaim(c)
         \/ O!PollIssue(c) \/ O!PollLater(c) \/ O!RefreshRead(c) \/ O!RefreshRotate(c)
         \/ O!DeadlockAbort(c)
  PROVE  GrantInv'
<1>0 /\ GrantTypes /\ RootInv
  BY DEF GrantInv
<1>1 CASE O!RedeemCode(c)
  <2>1 PICK g \in Grant : g = call[c].on /\ grant[g] # Null
    BY <1>0, <1>1 DEF GrantTypes, CallsFit, O!RedeemCode
  <2>2 O!Hangup(c) /\ UNCHANGED <<user, client, locker, replayed>>
    BY <1>1 DEF O!RedeemCode
  <2>3 CASE O!Claimable(g) /\ O!Mark(g, "used") /\ O!TokensFor(g)
    <3>1 grant[g].st = "approved"
      BY <2>3 DEF O!Claimable, O!Is
    <3> QED
      BY <2>1, <2>2, <2>3, <3>1, GrantPaid
  <2>4 CASE O!Claimable(g) /\ O!Mark(g, "used") /\ UNCHANGED refresh
    BY <2>2, <2>4, GrantRefused DEF O!Claimable
  <2>5 CASE UNCHANGED <<grant, refresh>>
    BY <2>2, <2>5, GrantRefused
  <2> QED
    BY <1>1, <2>1, <2>3, <2>4, <2>5 DEF O!RedeemCode
<1>2 CASE O!PollLocked(c)
  <2>1 PICK g \in Grant : g = call[c].on /\ grant[g] # Null
    BY <1>0, <1>2 DEF GrantTypes, CallsFit, O!PollLocked
  <2>2 /\ O!Hangup(c) /\ UNCHANGED <<user, client, locker, replayed>>
       /\ grant[g].st = "approved" /\ O!Mark(g, "used") /\ O!TokensFor(g)
    BY <1>2, <2>1 DEF O!PollLocked, O!Is
  <2> QED
    BY <2>1, <2>2, GrantPaid
<1>3 CASE O!PollIssue(c)
  <2>1 PICK g \in Grant : g = call[c].on /\ grant[g] # Null /\ call[c].at = "issue"
    BY <1>0, <1>3 DEF GrantTypes, CallsFit, O!PollIssue
  <2>2 /\ O!Hangup(c) /\ UNCHANGED <<user, client, locker, replayed>>
       /\ grant[g].st = "claimed" /\ O!Mark(g, "used") /\ O!TokensFor(g)
    BY <1>0, <1>3, <2>1 DEF O!PollIssue, RootInv, ClaimedByOne
  <2> QED
    BY <2>1, <2>2, GrantPaid
<1>4 CASE O!PollLater(c)
  BY <1>4, GrantRefused DEF O!PollLater
<1> QED
  BY <1>1, <1>2, <1>3, <1>4, GrantPresented, GrantClaimed, GrantRead, GrantRotated, GrantAborted

LEMMA GrantStep ==
  ASSUME GrantInv, O!Next
  PROVE  GrantInv'
<1>1 CASE \E g \in Grant :
       \/ O!ApproveCode(g) \/ O!AuthorizeDevice(g) \/ O!DecideDevice(g)
       \/ O!SweepExpiredAuthCodes(g) \/ O!SweepExpiredDeviceCodes(g)
  BY <1>1, GrantWritten, GrantSwept
<1>2 CASE \E c \in Caller :
       \/ O!Present(c) \/ O!RedeemCode(c) \/ O!PollLocked(c) \/ O!PollClaim(c)
       \/ O!PollIssue(c) \/ O!PollLater(c) \/ O!RefreshRead(c) \/ O!RefreshRotate(c)
       \/ O!DeadlockAbort(c)
  BY <1>2, GrantCalled
<1>3 CASE \/ O!RevokeClientTokens
          \/ \E t \in Token : O!RevokeToken(t) \/ O!SweepExpiredRefreshTokens(t)
  BY <1>3, GrantRevoked
<1>4 CASE \/ O!RegisterClient \/ O!EditClient \/ O!DeleteClient \/ O!RotateSecret \/ O!Bar
  BY <1>4, GrantAside
<1>5 CASE O!LockUser
  BY <1>5, GrantLocked
<1>6 CASE O!RevokeCredentials
  BY <1>6, GrantEnded
<1> QED
  BY <1>1, <1>2, <1>3, <1>4, <1>5, <1>6 DEF O!Next

LEMMA GrantStutter ==
  ASSUME GrantInv, UNCHANGED grants
  PROVE  GrantInv'
<1> USE NoRowIsNull
<1>0 UNCHANGED <<user, client, grant, refresh, locker, call, replayed>>
  BY DEF grants
<1>1 GrantTypes' /\ UserLocked'
  BY <1>0 DEF GrantInv, GrantTypes, O!TypeOK, O!Code, O!RefreshRow, CallsFit, UserLocked
<1>2 RootInv' /\ ChainInv'
  BY <1>0 DEF GrantInv, RootInv, ClaimedByOne, RootsUsed, O!CodePaysOnce, ChainInv, Replaces,
              NotReplaced
<1>3 AllCurrent' /\ TaintInv'
  BY <1>0 DEF GrantInv, AllCurrent, TaintInv, Tainted
<1> QED
  BY <1>1, <1>2, <1>3 DEF GrantInv

LEMMA GrantsHold == Spec => [](focus = "grants" => GrantInv)
<1> DEFINE Inv == focus = "grants" => GrantInv
<1>1 Init => Inv
  BY GrantInit DEF Init
<1>2 Inv /\ [Next]_vars => Inv'
  <2>1 ASSUME Inv, [Next]_vars, focus' = "grants" PROVE GrantInv'
    <3>1 focus = "grants" /\ GrantInv
      BY <2>1 DEF Next, vars
    <3>2 CASE O!Next
      BY <3>1, <3>2, GrantStep
    <3>3 CASE UNCHANGED grants
      BY <3>1, <3>3, GrantStutter
    <3> QED
      BY <2>1, <3>1, <3>2, <3>3 DEF Next, vars
  <2> QED
    BY <2>1
<1> QED
  BY <1>1, <1>2, PTL DEF Spec

(* No more is in a token's line than what is not tainted, when it is not:   *)
(* what is not tainted holds the parents of what it holds.                  *)
LEMMA LineIsClean ==
  ASSUME GrantInv, NEW t \in Token, O!Live(t)
  PROVE  O!Line(t) \cap replayed = {}
<1> USE NoRowIsNull
<1>1 PICK T \in SUBSET Token : Tainted(T)
  BY DEF GrantInv, TaintInv
<1> DEFINE clean == Token \ T
<1>2 t \in clean
  BY <1>1 DEF Tainted, O!Live
<1>3 O!HoldsParents(clean)
  <2> SUFFICES ASSUME NEW s \in clean, refresh[s] # Null, refresh[s].parent # Null
               PROVE  refresh[s].parent \in clean
    BY DEF O!HoldsParents
  <2>1 refresh[s].parent \in Token
    BY RowTyped DEF GrantInv
  <2> QED
    BY <1>1, <2>1 DEF Tainted
<1>4 O!Line(t) \subseteq clean
  BY <1>2, <1>3 DEF O!Line
<1> QED
  BY <1>1, <1>4 DEF Tainted

(* A grant roots one chain of refresh tokens, each replaced once, dead when *)
(* it is replaced, and by one of no wider scope; nothing that descends from *)
(* a replayed token is good (oauth/token.ts:178, :247, :275, :293): however *)
(* many requests present the codes and tokens at once.                      *)
THEOREM GrantsAreFamilies == Spec => []GrantIsOneFamily
<1>1 GrantInv => O!GrantRootsOneChain /\ O!ReplayEndsFamily
  <2> SUFFICES ASSUME GrantInv PROVE O!GrantRootsOneChain /\ O!ReplayEndsFamily
    OBVIOUS
  <2>1 O!CodePaysOnce
    BY DEF GrantInv, RootInv
  <2>2 O!RotationIsAChain
    BY DEF GrantInv, ChainInv, Replaces, O!RotationIsAChain, O!Live
  <2>3 O!ReplayEndsFamily
    BY LineIsClean DEF O!ReplayEndsFamily
  <2> QED
    BY <2>1, <2>2, <2>3 DEF O!GrantRootsOneChain
<1>2 (focus = "grants" => GrantInv) => GrantIsOneFamily
  BY <1>1 DEF GrantIsOneFamily
<1> QED
  BY <1>2, GrantsHold, PTL

(* What was granted before a change of credentials is over with it          *)
(* (security/credentials.ts:9), a poll that claimed its code without the    *)
(* lock (oauth/token.ts:342) included.                                      *)
THEOREM GrantsAreCurrent == Spec => []GrantsEndWithCredentials
<1>1 (focus = "grants" => GrantInv) => GrantsEndWithCredentials
  BY DEF GrantsEndWithCredentials, O!GrantsEndWithCredentials, GrantInv, AllCurrent, O!Live
<1> QED
  BY <1>1, GrantsHold, PTL
=============================================================================
