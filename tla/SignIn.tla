------------------------------- MODULE SignIn -------------------------------
(***************************************************************************)
(* Sign-in through an identity provider: OIDC, Google and GitHub with a    *)
(* stored state that binds the redirect to the browser that started it,    *)
(* LDAP with a bind, and the Castle SSO client with its backchannel        *)
(* logout.  All end in upsertFromExternal, which finds, links or creates   *)
(* the root team's account under the lock of the team's row.               *)
(*                                                                         *)
(* The providers, and the state table of the SSO client, are external:     *)
(* what they answer is a choice.                                           *)
(***************************************************************************)
EXTENDS Naturals

CONSTANTS
  Accounts,     \* how many ids rows of users can get
  Subject,      \* people at the providers
  Via,          \* Via[p]: the provider that knows p
  Email,
  Login,        \* sign-in requests, each made once
  Ticket,       \* states a start can draw
  Browser,
  LogoutToken,  \* logout tokens the SSO issuer has signed
  Null, Gone

VARIABLES
  user,      \* users of the root team by id; Gone once deleted
  identity,  \* external_identities: the account a subject is linked to, or Null
  ticket,    \* oidc_states
  cookie,    \* the state each browser's stohr_sso_state cookie names
  login,     \* the local state of each sign-in
  lock,      \* the sign-in whose transaction holds the team's row
  session,   \* sessions: the one each sign-in was given
  logout     \* the ids of logout tokens, claimed in webauthn_challenges

vars == <<user, identity, ticket, cookie, login, lock, session, logout>>

Stored == {"oidc", "google", "github"}     \* providers whose state this code keeps
Account == 1..Accounts
Provider == Stored \cup {"ldap", "sso"}
(* is_owner is set but for "no"; history: by the first sign-in or by Castle.*)
Ownership == {"no", "first", "named"}
Row == [email : Email, owner : Ownership, closed : BOOLEAN]
Entry == [via : Stored, status : {"open", "stale", "gone"}]
Step == {"idle", "exchange", "lock", "match", "link", "create", "check", "session", "done"}
LoginState == [at : Step, ticket : Ticket \cup {Null}, browser : Browser \cup {Null},
               subject : Subject \cup {Null}, email : Email \cup {Null},
               user : Account \cup {Null}, first : BOOLEAN, closed : BOOLEAN, pass : 1..2]
SessionRow == [user : Account, live : BOOLEAN,
               ticket : Ticket \cup {Null}]  \* history: the state it was given for

TypeOK ==
  /\ user \in [Account -> Row \cup {Null, Gone}]
  /\ identity \in [Subject -> Account \cup {Null}]
  /\ ticket \in [Ticket -> Entry \cup {Null}]
  /\ cookie \in [Browser -> Ticket \cup {Null}]
  /\ login \in [Login -> LoginState]
  /\ lock \in Login \cup {Null}
  /\ session \in [Login -> SessionRow \cup {Null}]
  /\ logout \subseteq LogoutToken

Waiting == [at |-> "idle", ticket |-> Null, browser |-> Null, subject |-> Null, email |-> Null,
            user |-> Null, first |-> FALSE, closed |-> FALSE, pass |-> 1]

Init ==
  /\ user = [a \in Account |-> Null]
  /\ identity = [p \in Subject |-> Null]
  /\ ticket = [t \in Ticket |-> Null]
  /\ cookie = [b \in Browser |-> Null]
  /\ login = [r \in Login |-> Waiting]
  /\ lock = Null
  /\ session = [r \in Login |-> Null]
  /\ logout = {}

At(r, p) == login[r].at = p
Answer(r) == login' = [login EXCEPT ![r] = [Waiting EXCEPT !.at = "done"]]
There(a) == user[a] \notin {Null, Gone}
Holding(a) == {p \in Subject : identity[p] = a}
With(e) == {a \in Account : There(a) /\ user[a].email = e}

---------------------------------------------------------------------------
(* The redirect dance.                                                      *)
Start(b, t, via) ==  \* GET /auth/oidc/start, /auth/google/start, /auth/github/start
  /\ ticket[t] = Null
  /\ ticket' = [ticket EXCEPT ![t] = [via |-> via, status |-> "open"]]
  /\ cookie' = [cookie EXCEPT ![b] = t]
  /\ UNCHANGED <<user, identity, login, lock, session, logout>>

Expire(t) ==
  /\ ticket[t] # Null /\ ticket[t].status = "open"
  /\ ticket' = [ticket EXCEPT ![t].status = "stale"]
  /\ UNCHANGED <<user, identity, cookie, login, lock, session, logout>>

SweepExpiredOidcStates ==
  /\ \E t \in Ticket : ticket[t] # Null /\ ticket[t].status = "stale"
  /\ ticket' = [t \in Ticket |-> IF ticket[t] # Null /\ ticket[t].status = "stale"
                                 THEN [ticket[t] EXCEPT !.status = "gone"] ELSE ticket[t]]
  /\ UNCHANGED <<user, identity, cookie, login, lock, session, logout>>

(* Mutant: the state is read, and left for the sweep.                       *)
ReadOnly(t) == ticket

(* DELETE ... RETURNING: the row is gone whatever becomes of the sign-in.   *)
Taken(t) == [ticket EXCEPT ![t].status = "gone"]

(* The callback of one provider, in the browser whose cookie names the      *)
(* state.  A state of another provider, or an old one, is spent for         *)
(* nothing (the OIDC callback finds the mismatch in the ID token's nonce).  *)
Callback(r, b, via) ==
  /\ At(r, "idle") /\ cookie[b] # Null
  /\ LET t == cookie[b] IN
     /\ ticket[t].status # "gone"
     /\ ticket' = Taken(t)
     /\ login' = [login EXCEPT ![r] =
          IF ticket[t] = [via |-> via, status |-> "open"]
          THEN [Waiting EXCEPT !.at = "exchange", !.ticket = t, !.browser = b]
          ELSE [Waiting EXCEPT !.at = "done"]]
  /\ UNCHANGED <<user, identity, cookie, lock, session, logout>>

(* The provider's answer: nothing, or who signed in and the address it      *)
(* vouches for, if any.                                                     *)
Profile(r, p, e) ==
  login' = [login EXCEPT ![r].subject = p, ![r].email = e, ![r].at = "lock"]

Exchange(r, p, e) ==
  /\ At(r, "exchange") /\ Via[p] = ticket[login[r].ticket].via
  /\ Profile(r, p, e)
  /\ UNCHANGED <<user, identity, ticket, cookie, lock, session, logout>>

ExchangeFails(r) ==
  /\ At(r, "exchange") /\ Answer(r)
  /\ UNCHANGED <<user, identity, ticket, cookie, lock, session, logout>>

DirectLogin(r, p, e) ==  \* POST /auth/ldap/login; the SSO client's callback
  /\ At(r, "idle") /\ Via[p] \in {"ldap", "sso"}
  /\ Profile(r, p, e)
  /\ UNCHANGED <<user, identity, ticket, cookie, lock, session, logout>>

---------------------------------------------------------------------------
(* upsertFromExternal, one transaction per pass.                            *)
Again(r) == Via[login[r].subject] = "sso" /\ login[r].pass = 1  \* the other hook follows

Resolved(r, a, shut) ==
  [login EXCEPT ![r].user = a, ![r].closed = shut, ![r].at = "check",
                ![r].email = IF Again(r) THEN @ ELSE Null, ![r].first = FALSE]

Free(r) == lock \in {Null, r}

FindIdentity(r) ==  \* SELECT ... FOR UPDATE on the team, then the identity
  /\ At(r, "lock") /\ Free(r)
  /\ LET a == identity[login[r].subject] IN
     IF a # Null
     THEN login' = Resolved(r, a, user[a].closed) /\ UNCHANGED lock
     ELSE login' = [login EXCEPT ![r].at = "match"] /\ lock' = r
  /\ UNCHANGED <<user, identity, ticket, cookie, session, logout>>

(* Without an address the provider vouches for, or with auto-provision off, *)
(* no account is made.                                                      *)
MatchEmail(r) ==
  /\ At(r, "match")
  /\ LET e == login[r].email  found == IF e = Null THEN {} ELSE With(e) IN
     \/ /\ found # {}
        /\ \E a \in found : login' = [login EXCEPT ![r].user = a, ![r].at = "link"]
        /\ UNCHANGED lock
     \/ /\ found = {} /\ e # Null
        /\ login' = [login EXCEPT ![r].at = "create",
                       ![r].first = \A a \in Account : ~There(a)]
        /\ UNCHANGED lock
     \/ /\ found = {} /\ (e = Null \/ Via[login[r].subject] # "sso")
        /\ Answer(r) /\ lock' = Null
  /\ UNCHANGED <<user, identity, ticket, cookie, session, logout>>

Rollback(r) == Answer(r) /\ UNCHANGED <<user, identity>>

LinkIdentity(r) ==
  /\ At(r, "link")
  /\ LET a == login[r].user  p == login[r].subject IN
     IF There(a) /\ identity[p] = Null
     THEN identity' = [identity EXCEPT ![p] = a] /\ login' = Resolved(r, a, user[a].closed) /\ UNCHANGED user
     ELSE Rollback(r)
  /\ lock' = Null
  /\ UNCHANGED <<ticket, cookie, session, logout>>

NextId(a) == user[a] = Null /\ \A b \in 1..a - 1 : user[b] # Null

Founding(r) == IF login[r].first THEN "first" ELSE "no"

CreateAccount(r) ==  \* addresses and identities are unique
  /\ At(r, "create")
  /\ LET e == login[r].email  p == login[r].subject IN
     IF With(e) = {} /\ identity[p] = Null
     THEN \E a \in Account :
            /\ NextId(a)
            /\ user' = [user EXCEPT ![a] = [email |-> e, owner |-> Founding(r), closed |-> FALSE]]
            /\ identity' = [identity EXCEPT ![p] = a]
            /\ login' = Resolved(r, a, FALSE)
     ELSE Rollback(r)
  /\ lock' = Null
  /\ UNCHANGED <<ticket, cookie, session, logout>>

(* An account closed when the row was read gets no session.  The SSO client *)
(* resolves the account once in each of its two hooks.                      *)
CheckAccount(r) ==
  /\ At(r, "check")
  /\ IF login[r].closed THEN Answer(r)
     ELSE login' = [login EXCEPT ![r].pass = 2, ![r].closed = FALSE, ![r].at =
            IF Again(r) THEN "lock" ELSE "session"]
  /\ UNCHANGED <<user, identity, ticket, cookie, lock, session, logout>>

IssueSession(r) ==
  /\ At(r, "session")
  /\ LET a == login[r].user  b == login[r].browser IN
     IF There(a)
     THEN /\ session' = [session EXCEPT ![r] =
               [user |-> a, live |-> TRUE, ticket |-> login[r].ticket]]
          /\ cookie' = IF b = Null THEN cookie ELSE [cookie EXCEPT ![b] = Null]
     ELSE UNCHANGED <<session, cookie>>
  /\ Answer(r)
  /\ UNCHANGED <<user, identity, ticket, lock, logout>>

---------------------------------------------------------------------------
(* The account meanwhile.                                                   *)
Ended(a) == [r \in Login |-> IF session[r] # Null /\ session[r].user = a
                             THEN [session[r] EXCEPT !.live = FALSE] ELSE session[r]]

Close(a) ==  \* suspended, or scheduled for deletion, and its sessions revoked
  /\ There(a) /\ ~user[a].closed
  /\ user' = [user EXCEPT ![a].closed = TRUE]
  /\ session' = Ended(a)
  /\ UNCHANGED <<identity, ticket, cookie, login, lock, logout>>

Reopen(a) ==
  /\ There(a) /\ user[a].closed
  /\ user' = [user EXCEPT ![a].closed = FALSE]
  /\ UNCHANGED <<identity, ticket, cookie, login, lock, session, logout>>

(* POST /castle/users, without the team's lock.  is_owner may be in it.     *)
CastleCreate(a, e, own) ==
  /\ NextId(a) /\ With(e) = {} /\ own \in {"no", "named"}
  /\ user' = [user EXCEPT ![a] = [email |-> e, owner |-> own, closed |-> FALSE]]
  /\ UNCHANGED <<identity, ticket, cookie, login, lock, session, logout>>

CastleUpdate(a, e, own) ==  \* found by address, or by username: the address moves
  /\ There(a) /\ With(e) \subseteq {a}
  /\ own \in {user[a].owner, "no"} \/ (user[a].owner = "no" /\ own = "named")
  /\ user' = [user EXCEPT ![a].email = e, ![a].owner = own]
  /\ UNCHANGED <<identity, ticket, cookie, login, lock, session, logout>>

CastleRevoke(a) ==  \* the hash it sent was another one
  /\ There(a) /\ session # Ended(a)
  /\ session' = Ended(a)
  /\ UNCHANGED <<user, identity, ticket, cookie, login, lock, logout>>

CastleDelete(a) ==  \* DELETE /castle/users/by-email/:email, with what refers to the row
  /\ There(a)
  /\ user' = [user EXCEPT ![a] = Gone]
  /\ identity' = [p \in Subject |-> IF p \in Holding(a) THEN Null ELSE identity[p]]
  /\ session' = [r \in Login |-> IF Ended(a)[r] = session[r] THEN session[r] ELSE Null]
  /\ UNCHANGED <<ticket, cookie, login, lock, logout>>

(* Backchannel logout: the token's id is claimed, and the sessions of its   *)
(* subject's account revoked.                                               *)
BackchannelLogout(t, p) ==
  /\ Via[p] = "sso" /\ t \notin logout
  /\ logout' = logout \cup {t}
  /\ session' = IF identity[p] = Null THEN session ELSE Ended(identity[p])
  /\ UNCHANGED <<user, identity, ticket, cookie, login, lock>>

---------------------------------------------------------------------------
Redirects ==
  \/ \E b \in Browser, t \in Ticket, via \in Stored : Start(b, t, via)
  \/ \E t \in Ticket : Expire(t)
  \/ SweepExpiredOidcStates
  \/ \E r \in Login, b \in Browser, via \in Stored : Callback(r, b, via)

SignsIn(r) ==
  \/ \E p \in Subject, e \in Email \cup {Null} : Exchange(r, p, e) \/ DirectLogin(r, p, e)
  \/ ExchangeFails(r)
  \/ FindIdentity(r) \/ MatchEmail(r) \/ LinkIdentity(r) \/ CreateAccount(r)
  \/ CheckAccount(r) \/ IssueSession(r)

Changes ==
  \/ \E a \in Account : Close(a) \/ Reopen(a) \/ CastleRevoke(a) \/ CastleDelete(a)
  \/ \E a \in Account, e \in Email, own \in Ownership :
       CastleCreate(a, e, own) \/ CastleUpdate(a, e, own)
  \/ \E t \in LogoutToken, p \in Subject : BackchannelLogout(t, p)

Next == Redirects \/ (\E r \in Login : SignsIn(r)) \/ Changes

Spec == Init /\ [][Next]_vars

---------------------------------------------------------------------------
(* A state a redirect carried admits one session however often it comes     *)
(* back, and people who sign in to an empty instance at the same time make  *)
(* one owner, whoever else Castle makes one (auth/external.ts:88,           *)
(* auth/oidc/index.ts:155).                                                 *)
SignInOnce ==
  /\ \A r, q \in Login :
       r # q /\ session[r] # Null /\ session[q] # Null =>
         session[r].ticket # session[q].ticket \/ session[r].ticket = Null
  /\ \A a, b \in Account :
       There(a) /\ There(b) /\ user[a].owner = "first" /\ user[b].owner = "first" => a = b
=============================================================================
