----------------------------- MODULE MCAccounts -----------------------------
(***************************************************************************)
(* Four components around an account that share no variable: credentials,  *)
(* OAuth grants, team membership and team domains.  Their behaviours are   *)
(* explored side by side, each from its own initial states: "focus" is the *)
(* one that moves, the variables of the others are Null.                   *)
(***************************************************************************)
EXTENDS Naturals, FiniteSets, TLC

CONSTANTS
  Request, First, MaxStep,         \* Credentials
  Grant, Token, Caller, Changes, Scope,  \* OAuthGrants
  User, Invite, Job,               \* Membership
  Team, Name, Lookup, Tokens,      \* TeamDomain
  Null

VARIABLES
  focus,
  acct, session, challenge, link, key, passkey, req, accepted,
  user, client, grant, refresh, locker, call, replayed,
  root, team, listed, member, invite, holder, job, bypass,
  domain, last, asked, proven

C == INSTANCE Credentials
O == INSTANCE OAuthGrants
M == INSTANCE Membership
D == INSTANCE TeamDomain

credentials == <<acct, session, challenge, link, key, passkey, req, accepted>>
grants == <<user, client, grant, refresh, locker, call, replayed>>
members == <<root, team, listed, member, invite, holder, job, bypass>>
domains == <<domain, last, asked, proven>>

vars == <<focus, credentials, grants, members, domains>>

(* Null stands for what is not there: no row, name or mark is it.  What was *)
(* before the requests is none of theirs.                                   *)
ASSUME NoRowIsNull ==
  /\ Null \notin C!Session /\ Null \notin C!Id /\ First \notin Request
  /\ MaxStep \in Nat
  /\ Null \notin O!Code /\ Null \notin O!RefreshRow /\ Changes \in Nat
  /\ Null \notin Grant /\ Null \notin Token /\ Null \notin Caller
  /\ Null # "change" /\ "change" \notin Caller
  /\ Null \notin M!Row /\ Null # {} /\ Null # "founder"
  /\ Null \notin User /\ Null \notin Invite /\ Null \notin Job
  /\ Null \notin D!Row /\ Tokens \in Nat
  /\ Null \notin [team : Team, name : Name, token : 1..Tokens]

NoCredentials ==
  /\ acct = Null /\ session = Null /\ challenge = Null /\ link = Null
  /\ key = Null /\ passkey = Null /\ req = Null /\ accepted = Null

NoGrants ==
  /\ user = Null /\ client = Null /\ grant = Null /\ refresh = Null
  /\ locker = Null /\ call = Null /\ replayed = Null

NoMembers ==
  /\ root = Null /\ team = Null /\ listed = Null /\ member = Null
  /\ invite = Null /\ holder = Null /\ job = Null /\ bypass = Null

NoDomains == domain = Null /\ last = Null /\ asked = Null /\ proven = Null

Init ==
  \/ focus = "credentials" /\ C!Init /\ NoGrants /\ NoMembers /\ NoDomains
  \/ focus = "grants" /\ O!Init /\ NoCredentials /\ NoMembers /\ NoDomains
  \/ focus = "members" /\ M!Init /\ NoCredentials /\ NoGrants /\ NoDomains
  \/ focus = "domains" /\ D!Init /\ NoCredentials /\ NoGrants /\ NoMembers

Next ==
  /\ \/ focus = "credentials" /\ C!Next /\ UNCHANGED <<grants, members, domains>>
     \/ focus = "grants" /\ O!Next /\ UNCHANGED <<credentials, members, domains>>
     \/ focus = "members" /\ M!Next /\ UNCHANGED <<credentials, grants, domains>>
     \/ focus = "domains" /\ D!Next /\ UNCHANGED <<credentials, grants, members>>
  /\ UNCHANGED focus

Spec == Init /\ [][Next]_vars

(* The components share their model values, so that the group stays small.  *)
Symmetry ==
  Permutations(Request \cup Token) \cup Permutations(Caller \cup Job \cup Lookup)
    \cup Permutations(User \cup Team)

(* No password session outlives a change of the password it was opened      *)
(* with, or the suspension or deletion of its account (auth/index.ts:412,   *)
(* users/index.ts:310, admin/users.ts:262).                                 *)
SessionsAreCurrent ==
  focus = "credentials" => C!PasswordSessionsCurrent /\ C!NoLoginToEndedAccount

(* Enabling the second factor leaves no password session without it         *)
(* (auth/mfa.ts:110).                                                       *)
SecondFactorHolds == focus = "credentials" => C!SecondFactorHolds

(* A TOTP code or a login challenge is accepted once                        *)
(* (security/totpclaims.ts:4).                                              *)
FactorSpentOnce == focus = "credentials" => C!FactorSpentOnce

(* A grant roots one chain of refresh tokens, each replaced once and by one *)
(* of no wider scope, and a replayed one ends its descendants               *)
(* (oauth/token.ts:178, :247, :275, :293).                                  *)
GrantIsOneFamily == focus = "grants" => O!GrantRootsOneChain /\ O!ReplayEndsFamily

(* Grants end with the credentials they were given under                    *)
(* (security/credentials.ts:9).                                             *)
GrantsEndWithCredentials == focus = "grants" => O!GrantsEndWithCredentials

(* An invite admits one account, and an empty instance gets one owner       *)
(* (auth/index.ts:220).                                                     *)
AdmittedOnce == focus = "members" => M!AdmittedOnce

(* Admins acting on each other leave one (teams/members.ts:97).             *)
AdminRemains == focus = "members" => M!AdminRemains

(* A routed domain was proven for its team's token (teams/domains.ts:140).  *)
DomainsAreProven == focus = "domains" => D!DomainsAreProven
=============================================================================
