---------------------------- MODULE Credentials ----------------------------
(***************************************************************************)
(* The credentials of one account and what they open: password, second     *)
(* factor, passkeys, reset links, app and S3 keys, sessions, suspension    *)
(* and deletion (auth/*.ts, users/index.ts, security/*.ts, apps, s3keys).  *)
(*                                                                         *)
(* Each request is used once.  What a request makes (a password, a secret, *)
(* a session, a link, a key) bears the request's name.  A handler behind   *)
(* requireAuth begins with its guard and its reads; every transaction that *)
(* locks the user's row is one step, and so is every lone statement.       *)
(***************************************************************************)
EXTENDS Naturals

CONSTANTS
  Request,  \* requests, each handled once
  First,    \* what exists before them: a session, a link, a passkey ...
  MaxStep,  \* TOTP time steps 1..MaxStep; 0 is no step
  Null

VARIABLES
  acct,       \* the users row; listed: the sweep's list names it
  session,    \* sessions not revoked: how each was opened
  challenge,  \* webauthn_challenges: ceremonies and MFA challenges open
  link,       \* password_resets not used
  key,        \* apps and s3_access_keys: the kinds there are rows of
  passkey,    \* webauthn_credentials: whether there are any
  req,        \* the local state of each request
  accepted    \* history: which factor was accepted for which request

vars == <<acct, session, challenge, link, key, passkey, req, accepted>>

Id == Request \cup {First}

Session == [from : {"password", "profile", "passkey", "restore"},
            pw : Id, mfa : BOOLEAN]
Saw == [pw : Id \cup {Null}, secret : Id \cup {Null}, link : Id \cup {Null}]

Point ==
  {"idle", "done", "verified", "challenged", "rename", "reissue", "prune",
   "password", "delete", "suspend", "end", "restore", "restored", "mail",
   "reset", "setup", "enable", "enabling", "disable", "disabling", "codes",
   "others", "signout", "key", "register", "registering", "store", "remove",
   "asserted", "admitted"}

TypeOK ==
  /\ acct \in [pw : Id, totp : {"off", "pending", "on"},
               secret : Id \cup {Null}, step : 0..MaxStep, codes : SUBSET Id,
               deleted : BOOLEAN, lapsed : BOOLEAN, cancel : Id \cup {Null},
               suspended : BOOLEAN, listed : BOOLEAN, gone : BOOLEAN]
  /\ acct.totp # "off" => acct.secret # Null
  /\ session \in [Id -> Session \cup {Null}]
  /\ challenge \subseteq Request
  /\ link \subseteq Id
  /\ key \subseteq {"app", "s3"}
  /\ passkey \in BOOLEAN
  /\ req \in [Request -> [at : Point, by : Id \cup {Null}, saw : Saw]]

Unseen == [pw |-> Null, secret |-> Null, link |-> Null]

Init ==
  /\ \E t \in {"off", "on"} :
       /\ acct = [pw |-> First, totp |-> t,
                  secret |-> IF t = "on" THEN First ELSE Null, step |-> 0,
                  codes |-> IF t = "on" THEN {First} ELSE {},
                  deleted |-> FALSE, lapsed |-> FALSE, cancel |-> Null,
                  suspended |-> FALSE, listed |-> FALSE, gone |-> FALSE]
       /\ session = [i \in Id |-> IF i = First
            THEN [from |-> "password", pw |-> First, mfa |-> t = "on"]
            ELSE Null]
  /\ challenge = {}
  /\ link = {First}
  /\ key = {"app"}
  /\ passkey = TRUE
  /\ req = [r \in Request |-> [at |-> "idle", by |-> Null, saw |-> Unseen]]
  /\ accepted = {}

----------------------------------------------------------------------------
(* Helpers: the guard and the revocations.                                  *)

Open == ~acct.deleted /\ ~acct.suspended

(* requireAuth: a session not revoked, or an app token (Null), of an open   *)
(* account.                                                                 *)
Guard(s) ==
  /\ Open
  /\ IF s = Null THEN "app" \in key ELSE session[s] # Null

At(r, p) == req[r].at = p
Goto(r, p) == req' = [req EXCEPT ![r].at = p]
Finish(r) == req' = [req EXCEPT ![r] = [at |-> "done", by |-> Null, saw |-> Unseen]]

(* issueSession *)
Issue(r, how, pw, mfa) ==
  session' = [session EXCEPT ![r] = [from |-> how, pw |-> pw, mfa |-> mfa]]

(* Mutant: no session is revoked. *)
KeepSessions(s) == UNCHANGED session

(* revokeAllSessions: every session but s; every one, when s is Null.       *)
RevokeSessions(s) ==
  session' = [i \in Id |-> IF i = s THEN session[i] ELSE Null]

(* revokeCredentials, run under the user's row lock.                        *)
RevokeCredentials ==
  /\ challenge' = {}
  /\ key' = {}
  /\ link' = {}

(* Mutant: the last step may be claimed again. *)
ClaimsAgain(secret, n) ==
  acct.secret = secret /\ n >= acct.step

(* claimTotp: the step must be later than the last, of the secret read.     *)
Claims(secret, n) == acct.secret = secret /\ n > acct.step

----------------------------------------------------------------------------
(* POST /login verifies the password before the lock; under it the hash     *)
(* must be the same one.                                                    *)
Login(r) ==
  /\ At(r, "idle")
  /\ req' = [req EXCEPT ![r].at = "verified", ![r].saw.pw = acct.pw]
  /\ UNCHANGED <<acct, session, challenge, link, key, passkey, accepted>>

SamePassword(r) == acct.pw = req[r].saw.pw

(* Mutant: the password is not compared again under the lock. *)
AdmitsVerified(r) == Open

Admits(r) == Open /\ SamePassword(r)

FinishLogin(r) ==
  /\ At(r, "verified")
  /\ \/ /\ Admits(r) /\ acct.totp = "on"
        /\ challenge' = challenge \cup {r}
        /\ Goto(r, "challenged")
        /\ UNCHANGED session
     \/ /\ Admits(r) /\ acct.totp # "on"
        /\ Issue(r, "password", req[r].saw.pw, FALSE)
        /\ Finish(r)
        /\ UNCHANGED challenge
     \/ /\ ~Admits(r)
        /\ Finish(r)
        /\ UNCHANGED <<session, challenge>>
  /\ UNCHANGED <<acct, link, key, passkey, accepted>>

(* POST /login/mfa, one transaction under the lock.  The client keeps its   *)
(* challenge token and may send it again.                                   *)
ConsumeMfaChallenge(r) ==
  /\ r \in challenge
  /\ challenge' = challenge \ {r}

LoginMfa(r) ==
  /\ At(r, "challenged")
  /\ Open /\ acct.totp = "on"
  /\ ConsumeMfaChallenge(r)
  /\ \/ \E n \in 1..MaxStep :
          /\ Claims(acct.secret, n)
          /\ acct' = [acct EXCEPT !.step = n]
          /\ accepted' = accepted \cup {<<<<acct.secret, n>>, r>>}
     \/ \E c \in acct.codes :
          /\ acct' = [acct EXCEPT !.codes = @ \ {c}]
          /\ accepted' = accepted \cup {<<<<c, 0>>, r>>}
  /\ Issue(r, "password", req[r].saw.pw, TRUE)
  /\ UNCHANGED <<link, key, passkey, req>>

----------------------------------------------------------------------------
(* The routes behind requireAuth.  Begin is the guard, the reads and the    *)
(* password check; the caller s is a session, or Null for an app token.     *)
Ready(op) ==
  CASE op = "setup" -> acct.totp # "on"
    [] op = "enable" -> acct.totp = "pending"
    [] op \in {"disable", "codes"} -> acct.totp = "on"
    [] OTHER -> TRUE

(* The operations that go on to use the caller's session. *)
Lasting == {"rename", "reissue", "password", "enable", "disable", "others",
            "register", "remove"}

Begin(r, s) ==
  /\ At(r, "idle") /\ Guard(s)
  /\ \E op \in {"rename", "reissue", "password", "delete", "setup", "enable",
                "disable", "codes", "others", "signout", "key",
                "register", "remove"} :
       /\ Ready(op)
       /\ req' = [req EXCEPT ![r] =
            [at |-> op, by |-> IF op \in Lasting THEN s ELSE Null,
             saw |-> [Unseen EXCEPT
               !.pw = IF op = "password" THEN acct.pw ELSE Null,
               !.secret = IF op \in {"enable", "disable"}
                          THEN acct.secret ELSE Null]]]
  /\ UNCHANGED <<acct, session, challenge, link, key, passkey, accepted>>

(* PATCH /me of an email or username: the password verified in Begin is not *)
(* compared again under the lock.                                           *)
Rename(r) ==
  /\ At(r, "rename")
  /\ RevokeCredentials
  /\ Goto(r, "reissue")
  /\ UNCHANGED <<acct, session, passkey, accepted>>

(* ... and of any name: outside the transaction a session caller gets a new *)
(* session, an app token none; then the other sessions go.                  *)
Reissue(r) ==
  /\ At(r, "reissue")
  /\ IF req[r].by = Null THEN UNCHANGED session
                         ELSE Issue(r, "profile", acct.pw, FALSE)
  /\ Goto(r, "prune")
  /\ UNCHANGED <<acct, challenge, link, key, passkey, accepted>>

Prune(r) ==
  /\ At(r, "prune")
  /\ RevokeSessions(r)
  /\ Finish(r)
  /\ UNCHANGED <<acct, challenge, link, key, passkey, accepted>>

(* POST /me/password: the transaction requires the hash that was verified.  *)
(* The caller's session stays, now vouched for by the new password's owner. *)
ChangePassword(r) ==
  /\ At(r, "password")
  /\ IF SamePassword(r)
     THEN /\ RevokeCredentials
          /\ acct' = [acct EXCEPT !.pw = r]
          /\ session' = [i \in Id |->
               IF i = req[r].by /\ session[i] # Null
               THEN [session[i] EXCEPT !.pw = r] ELSE Null]
     ELSE UNCHANGED <<acct, session, challenge, link, key>>
  /\ Finish(r)
  /\ UNCHANGED <<passkey, accepted>>

(* DELETE /me: scheduleDeletion, then every session goes.                   *)
ScheduleDeletion(r) ==
  /\ At(r, "delete")
  /\ acct' = [acct EXCEPT !.deleted = TRUE, !.lapsed = FALSE, !.cancel = r]
  /\ Goto(r, "end")
  /\ UNCHANGED <<session, challenge, link, key, passkey, accepted>>

EndSessions(r) ==
  /\ At(r, "end")
  /\ RevokeSessions(Null)
  /\ Finish(r)
  /\ UNCHANGED <<acct, challenge, link, key, passkey, accepted>>

----------------------------------------------------------------------------
(* auth/mfa.ts.  Setup's update is conditional, so it is one step with its  *)
(* reply; enable and disable claim a code first and write afterwards.       *)
SetupMfa(r) ==
  /\ At(r, "setup")
  /\ IF acct.totp # "on"
     THEN acct' = [acct EXCEPT !.totp = "pending", !.secret = r, !.step = 0]
     ELSE UNCHANGED acct
  /\ Finish(r)
  /\ UNCHANGED <<session, challenge, link, key, passkey, accepted>>

ClaimCode(r) ==
  /\ req[r].at \in {"enable", "disable"}
  /\ \E n \in 1..MaxStep :
       /\ Claims(req[r].saw.secret, n)
       /\ acct' = [acct EXCEPT !.step = n]
       /\ accepted' = accepted \cup {<<<<acct.secret, n>>, r>>}
  /\ Goto(r, IF At(r, "enable") THEN "enabling" ELSE "disabling")
  /\ UNCHANGED <<session, challenge, link, key, passkey>>

(* The caller of enable has shown the new factor; its session is kept.     *)
EnableMfa(r) ==
  /\ At(r, "enabling")
  /\ IF acct.secret = req[r].saw.secret /\ acct.totp # "on"
     THEN /\ acct' = [acct EXCEPT !.totp = "on", !.codes = {r}]
          /\ session' = [i \in Id |-> IF i # req[r].by \/ session[i] = Null
               THEN session[i] ELSE [session[i] EXCEPT !.mfa = TRUE]]
          /\ Goto(r, "others")
     ELSE UNCHANGED <<acct, session>> /\ Finish(r)
  /\ UNCHANGED <<challenge, link, key, passkey, accepted>>

DisableMfa(r) ==
  /\ At(r, "disabling")
  /\ acct' = [acct EXCEPT !.totp = "off", !.secret = Null, !.step = 0,
                !.codes = {}]
  /\ Goto(r, "others")
  /\ UNCHANGED <<session, challenge, link, key, passkey, accepted>>

NewBackupCodes(r) ==
  /\ At(r, "codes")
  /\ acct' = [acct EXCEPT !.codes = {r}]
  /\ Finish(r)
  /\ UNCHANGED <<session, challenge, link, key, passkey, accepted>>

(* Mutant: the other sessions stay. *)
RevokeNone(r) ==
  /\ At(r, "others")
  /\ Finish(r)
  /\ UNCHANGED <<acct, session, challenge, link, key, passkey, accepted>>

(* The last step of several handlers, and POST /me/sessions/revoke-others.  *)
RevokeOthers(r) ==
  /\ At(r, "others")
  /\ RevokeSessions(req[r].by)
  /\ Finish(r)
  /\ UNCHANGED <<acct, challenge, link, key, passkey, accepted>>

RevokeOne(r, s) ==  \* DELETE /me/sessions/:id
  /\ At(r, "signout")
  /\ session' = [session EXCEPT ![s] = Null]
  /\ Finish(r)
  /\ UNCHANGED <<acct, challenge, link, key, passkey, accepted>>

----------------------------------------------------------------------------
(* POST /me/apps and /me/s3-keys insert without the lock; DELETE takes one  *)
(* away.                                                                    *)
CreateKey(r) ==
  /\ At(r, "key")
  /\ \E kind \in {"app", "s3"} : key' = key \cup {kind}
  /\ Finish(r)
  /\ UNCHANGED <<acct, session, challenge, link, passkey, accepted>>

DeleteKey(r) ==
  /\ At(r, "key")
  /\ \E kind \in key : key' \in {key, key \ {kind}}  \* one of several, or the last
  /\ Finish(r)
  /\ UNCHANGED <<acct, session, challenge, link, passkey, accepted>>

(* auth/passkeys.ts: the ceremony is opened in the account's name ...       *)
StartPasskey(r) ==
  /\ At(r, "register")
  /\ challenge' = challenge \cup {r}
  /\ Goto(r, "registering")
  /\ UNCHANGED <<acct, session, link, key, passkey, accepted>>

(* ... and its challenge is consumed, by a caller who passes the guard      *)
(* again, before the credential is stored and the other sessions go.        *)
FinishPasskey(r) ==
  /\ At(r, "registering")
  /\ Guard(req[r].by)
  /\ ConsumeMfaChallenge(r)
  /\ Goto(r, "store")
  /\ UNCHANGED <<acct, session, link, key, passkey, accepted>>

StorePasskey(r) ==
  /\ At(r, "store")
  /\ passkey' = TRUE
  /\ Goto(r, "others")
  /\ UNCHANGED <<acct, session, challenge, link, key, accepted>>

RemovePasskey(r) ==
  /\ At(r, "remove")
  /\ passkey /\ passkey' \in BOOLEAN  \* the last, or one of several
  /\ Goto(r, "others")
  /\ UNCHANGED <<acct, session, challenge, link, key, accepted>>

(* Passkey login: the assertion, the account's status, the session: three   *)
(* statements, none under the lock.                                         *)
AssertPasskey(r) ==
  /\ At(r, "idle") /\ passkey
  /\ Goto(r, "asserted")
  /\ UNCHANGED <<acct, session, challenge, link, key, passkey, accepted>>

AdmitPasskey(r) ==
  /\ At(r, "asserted")
  /\ IF Open THEN Goto(r, "admitted") ELSE Finish(r)
  /\ UNCHANGED <<acct, session, challenge, link, key, passkey, accepted>>

PasskeySession(r) ==
  /\ At(r, "admitted")
  /\ Issue(r, "passkey", acct.pw, TRUE)
  /\ Finish(r)
  /\ UNCHANGED <<acct, challenge, link, key, passkey, accepted>>

----------------------------------------------------------------------------
(* Reset links.  The forgot-password reply and the admin's reset read the   *)
(* account and mint the link afterwards.                                    *)
ForgotPassword(r) ==
  /\ At(r, "idle") /\ ~acct.deleted
  /\ Goto(r, "mail")
  /\ UNCHANGED <<acct, session, challenge, link, key, passkey, accepted>>

IssuePasswordReset(r) ==
  /\ At(r, "mail")
  /\ link' = link \cup {r}
  /\ Finish(r)
  /\ UNCHANGED <<acct, session, challenge, key, passkey, accepted>>

ReadLink(r) ==
  /\ At(r, "idle")
  /\ \E l \in link :
       req' = [req EXCEPT ![r].at = "reset", ![r].saw.link = l]
  /\ UNCHANGED <<acct, session, challenge, link, key, passkey, accepted>>

(* POST /password/reset: the link is claimed, and the password set, under   *)
(* the lock.                                                                *)
LinkClaimed(l) == l \in link

ResetPassword(r) ==
  /\ At(r, "reset")
  /\ IF LinkClaimed(req[r].saw.link)
     THEN /\ acct' = [acct EXCEPT !.pw = r]
          /\ RevokeCredentials
          /\ RevokeSessions(Null)
     ELSE UNCHANGED <<acct, session, challenge, link, key>>
  /\ Finish(r)
  /\ UNCHANGED <<passkey, accepted>>

----------------------------------------------------------------------------
(* Suspension: found not suspended, then written, then the sessions go.     *)
FindToSuspend(r) ==
  /\ At(r, "idle") /\ ~acct.suspended
  /\ Goto(r, "suspend")
  /\ UNCHANGED <<acct, session, challenge, link, key, passkey, accepted>>

Suspend(r) ==
  /\ At(r, "suspend")
  /\ acct' = [acct EXCEPT !.suspended = TRUE]
  /\ Goto(r, "end")
  /\ UNCHANGED <<session, challenge, link, key, passkey, accepted>>

Unsuspend(r) ==
  /\ At(r, "idle") /\ acct.suspended
  /\ acct' = [acct EXCEPT !.suspended = FALSE]
  /\ Finish(r)
  /\ UNCHANGED <<session, challenge, link, key, passkey, accepted>>

(* The cancel link, read while the grace window is open; the row is then    *)
(* restored whatever has become of it, and a session issued.                *)
ReadCancelLink(r) ==
  /\ At(r, "idle") /\ acct.deleted /\ ~acct.lapsed
  /\ Goto(r, "restore")
  /\ UNCHANGED <<acct, session, challenge, link, key, passkey, accepted>>

Restore(r) ==
  /\ At(r, "restore")
  /\ acct' = [acct EXCEPT !.deleted = FALSE, !.lapsed = FALSE, !.cancel = Null]
  /\ Goto(r, "restored")
  /\ UNCHANGED <<session, challenge, link, key, passkey, accepted>>

RestoredSession(r) ==
  /\ At(r, "restored")
  /\ Issue(r, "restore", acct.pw, FALSE)
  /\ Finish(r)
  /\ UNCHANGED <<acct, challenge, link, key, passkey, accepted>>

----------------------------------------------------------------------------
(* Time: the grace window closes; the sweeps drop what has expired.         *)
Lapse ==
  /\ acct.deleted /\ ~acct.lapsed
  /\ acct' = [acct EXCEPT !.lapsed = TRUE]
  /\ UNCHANGED <<session, challenge, link, key, passkey, req, accepted>>

Expire ==
  /\ \/ /\ \E i \in Id : session[i] # Null /\ session' = [session EXCEPT ![i] = Null]
        /\ UNCHANGED <<challenge, link>>
     \/ /\ \E r \in challenge : challenge' = challenge \ {r}
        /\ UNCHANGED <<session, link>>
     \/ /\ \E i \in link : link' = link \ {i}
        /\ UNCHANGED <<session, challenge>>
  /\ UNCHANGED <<acct, key, passkey, req, accepted>>

(* sweepDeletedAccounts selects the accounts past their window and then     *)
(* purges each, whatever has become of it; the rows that name it go too and *)
(* the statements of its requests find none.                                *)
ListExpired ==
  /\ acct.deleted /\ acct.lapsed /\ ~acct.listed
  /\ acct' = [acct EXCEPT !.listed = TRUE]
  /\ UNCHANGED <<session, challenge, link, key, passkey, req, accepted>>

PurgeUser ==
  /\ acct.listed
  /\ acct' = [acct EXCEPT !.listed = FALSE, !.gone = TRUE, !.deleted = FALSE]
  /\ session' = [i \in Id |-> Null]
  /\ challenge' = {} /\ key' = {} /\ passkey' = FALSE
  /\ link' = {}
  /\ req' = [r \in Request |-> [at |-> "done", by |-> Null, saw |-> Unseen]]
  /\ UNCHANGED accepted

----------------------------------------------------------------------------
LoginSteps(r) == Login(r) \/ FinishLogin(r) \/ LoginMfa(r)

ProfileSteps(r) ==
  \/ \E s \in Id \cup {Null} : Begin(r, s)
  \/ Rename(r) \/ Reissue(r) \/ Prune(r) \/ ChangePassword(r)
  \/ ScheduleDeletion(r) \/ EndSessions(r)

FactorSteps(r) ==
  \/ SetupMfa(r) \/ ClaimCode(r) \/ EnableMfa(r) \/ DisableMfa(r)
  \/ NewBackupCodes(r) \/ RevokeOthers(r) \/ \E s \in Id : RevokeOne(r, s)
  \/ CreateKey(r) \/ DeleteKey(r)
  \/ StartPasskey(r) \/ FinishPasskey(r) \/ StorePasskey(r) \/ RemovePasskey(r)
  \/ AssertPasskey(r) \/ AdmitPasskey(r) \/ PasskeySession(r)

AccountSteps(r) ==
  \/ ForgotPassword(r) \/ IssuePasswordReset(r) \/ ReadLink(r)
  \/ ResetPassword(r) \/ FindToSuspend(r) \/ Suspend(r) \/ Unsuspend(r)
  \/ ReadCancelLink(r) \/ Restore(r) \/ RestoredSession(r)

Next ==
  \/ \E r \in Request :
       LoginSteps(r) \/ ProfileSteps(r) \/ FactorSteps(r) \/ AccountSteps(r)
  \/ Lapse \/ Expire \/ ListExpired \/ PurgeUser

Spec == Init /\ [][Next]_vars

----------------------------------------------------------------------------
(* A session opened with a password was opened with the current one: a      *)
(* login that verified a password before its change, or holds an MFA        *)
(* challenge issued on it, opens nothing afterwards (auth/index.ts:412,     *)
(* security/credentials.ts:6).                                              *)
PasswordSessionsCurrent ==
  \A i \in Id : session[i] # Null /\ session[i].from = "password"
                  => session[i].pw = acct.pw

(* Once enabling has run to its end, a password session has shown the       *)
(* second factor, or enabled it: no login that saw it off is left           *)
(* (auth/index.ts:445, auth/mfa.ts:110).                                    *)
SecondFactorHolds ==
  acct.totp = "on" /\ (\A r \in Request : ~At(r, "others")) =>
    \A i \in Id : session[i] # Null /\ session[i].from = "password"
                    => session[i].mfa

(* A code, and a login's challenge, is accepted for one request only,       *)
(* however logins, enabling and disabling interleave (auth/index.ts:130,    *)
(* security/totpclaims.ts:4).                                               *)
FactorSpentOnce ==
  \A a, b \in accepted : a[1] = b[1] \/ a[2] = b[2] => a = b

(* A suspended or deleted account has no password session once the request  *)
(* that ended it is over, so that unsuspending or restoring it revives none *)
(* (users/index.ts:310, admin/users.ts:262, auth/index.ts:416).             *)
NoLoginToEndedAccount ==
  ~Open /\ (\A r \in Request : ~At(r, "end")) =>
    \A i \in Id : session[i] # Null => session[i].from # "password"
=============================================================================
