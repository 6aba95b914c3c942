---------------------------- MODULE OAuthGrants ----------------------------
(***************************************************************************)
(* OAuth between one user and one client (oauth/*.ts): registration of the *)
(* client and its scopes, authorization and device codes, the token        *)
(* endpoint, rotation and replay of refresh tokens, revocation of a token, *)
(* a client or, by a change of the user's credentials, of everything       *)
(* (security/credentials.ts).  Names, redirect addresses and secrets are   *)
(* left out: a check of one may fail at any time.                          *)
(*                                                                         *)
(* "locker" is who holds the user's row FOR UPDATE.  Whatever inserts or   *)
(* updates a row that names the user waits for it (the foreign key).  A    *)
(* poll of a device code not yet approved locks nothing: it can claim the  *)
(* code while a change of credentials holds the user, each then waiting    *)
(* for the other, and the database breaks the deadlock.                    *)
(***************************************************************************)
EXTENDS Naturals

CONSTANTS
  Grant,    \* authorization codes and device codes, each minted once
  Token,    \* refresh tokens
  Caller,   \* requests to the token endpoint that can be under way at once
  Changes,  \* how often the user's credentials may change
  Scope,    \* SUPPORTED_SCOPES
  Null

VARIABLES
  user,      \* users: oauth_epoch, neither deleted nor suspended
  client,    \* oauth_clients: the scopes it may ask for (none before it is
             \* registered), revoked_at, and what is still to revoke
  grant,     \* oauth_authorization_codes and oauth_device_codes
  refresh,   \* oauth_refresh_tokens
  locker,    \* who holds the user's row
  call,      \* the local state of each request
  replayed   \* history: the revoked tokens that were presented

vars == <<user, client, grant, refresh, locker, call, replayed>>

Scopes == (SUBSET Scope) \ {{}}

Code == [kind : {"code", "device"}, epoch : 0..Changes, scope : Scopes,
         st : {"asked", "approved", "denied", "claimed", "used", "gone"}]
RefreshRow == [root : Grant, parent : Token \cup {Null}, epoch : 0..Changes, scope : Scopes,
               st : {"live", "revoked", "gone"}]
Change == "change"
Idle == [at |-> "idle", on |-> Null]

TypeOK ==
  /\ user \in [epoch : 0..Changes, open : BOOLEAN]
  /\ client \in [allowed : Scopes \cup {{}}, live : BOOLEAN, revoking : BOOLEAN]
  /\ grant \in [Grant -> Code \cup {Null}]
  /\ refresh \in [Token -> RefreshRow \cup {Null}]
  /\ locker \in Caller \cup {Null, Change}
  /\ call \in [Caller ->
       [at : {"idle", "code", "poll", "undecided", "issue", "refresh",
              "rotate"},
        on : Grant \cup Token \cup {Null}]]
  /\ replayed \subseteq Token

Init ==
  /\ user = [epoch |-> 0, open |-> TRUE]
  /\ client = [allowed |-> {}, live |-> FALSE, revoking |-> FALSE]
  /\ grant = [g \in Grant |-> Null]
  /\ refresh = [t \in Token |-> Null]
  /\ locker = Null
  /\ call = [c \in Caller |-> Idle]
  /\ replayed = {}

Is(g, kind, st) == grant[g] # Null /\ grant[g].kind = kind /\ grant[g].st = st
Live(t) == refresh[t] # Null /\ refresh[t].st = "live"
Mark(g, st) == grant' = [grant EXCEPT ![g].st = st]
Free == locker = Null

Revoked(S) ==
  [t \in Token |-> IF t \in S /\ Live(t)
                   THEN [refresh[t] EXCEPT !.st = "revoked"] ELSE refresh[t]]

(* issueTokens: a new refresh token, the child of the one it replaces.      *)
IssueTokens(rows, g, parent, epoch, scope) ==
  \E t \in Token :
    /\ refresh[t] = Null
    /\ refresh' = [rows EXCEPT ![t] =
         [root |-> g, parent |-> parent, epoch |-> epoch, scope |-> scope, st |-> "live"]]

TokensFor(g) == IssueTokens(refresh, g, Null, grant[g].epoch, grant[g].scope)

----------------------------------------------------------------------------
(* The owner registers the client and edits it; what it was granted before  *)
(* keeps its scopes.  Bound: an edit after the last grant is read by nobody *)
(* and is left out.                                                         *)
RegisterClient ==
  /\ client.allowed = {}
  /\ \E scopes \in Scopes : client' = [client EXCEPT !.allowed = scopes, !.live = TRUE]
  /\ UNCHANGED <<user, grant, refresh, locker, call, replayed>>

EditClient ==
  /\ client.allowed # {} /\ \E g \in Grant : grant[g] = Null
  /\ \E scopes \in Scopes : client' = [client EXCEPT !.allowed = scopes]
  /\ UNCHANGED <<user, grant, refresh, locker, call, replayed>>

(* What may be asked of a live client: all its scopes, or some of them.     *)
Offered == IF client.live THEN {scopes \in Scopes : scopes \subseteq client.allowed} ELSE {}

----------------------------------------------------------------------------
(* Consent.  The guard ran before; the insert waits for the user's row.     *)
ApproveCode(g) ==
  /\ grant[g] = Null /\ Free
  /\ \E scopes \in Offered :
       grant' = [grant EXCEPT ![g] =
         [kind |-> "code", st |-> "approved", scope |-> scopes, epoch |-> user.epoch]]
  /\ UNCHANGED <<user, client, refresh, locker, call, replayed>>

AuthorizeDevice(g) ==
  /\ grant[g] = Null
  /\ \E scopes \in Offered :
       grant' = [grant EXCEPT ![g] =
         [kind |-> "device", st |-> "asked", scope |-> scopes, epoch |-> 0]]
  /\ UNCHANGED <<user, client, refresh, locker, call, replayed>>

DecideDevice(g) ==
  /\ Is(g, "device", "asked") /\ Free
  /\ \E st \in {"approved", "denied"} :
       grant' = [grant EXCEPT ![g].st = st, ![g].epoch = user.epoch]
  /\ UNCHANGED <<user, client, refresh, locker, call, replayed>>

----------------------------------------------------------------------------
(* POST /oauth/token.  The client is read and verified first; a poll's lock *)
(* statement, which comes next, locks nobody for a code not yet approved.   *)
Present(c) ==
  /\ call[c] = Idle /\ client.live
  /\ \/ \E g \in Grant :
          /\ grant[g] # Null
          /\ call' = [call EXCEPT ![c] =
               [at |-> IF grant[g].kind = "code" THEN "code"
                       ELSE IF grant[g].st = "asked" THEN "undecided" ELSE "poll",
                on |-> g]]
     \/ \E t \in Token :
          /\ refresh[t] # Null
          /\ call' = [call EXCEPT ![c] = [at |-> "refresh", on |-> t]]
  /\ UNCHANGED <<user, client, grant, refresh, locker, replayed>>

Hangup(c) == call' = [call EXCEPT ![c] = Idle]

(* authorization_code: claimed under the lock; the claim stays whatever the *)
(* checks that follow it say.                                               *)
(* Mutant: a used code is let pass. *)
Presentable(g) ==
  Is(g, "code", "approved") \/ Is(g, "code", "used")

Claimable(g) == Is(g, "code", "approved")

RedeemCode(c) ==
  /\ call[c].at = "code" /\ Free
  /\ LET g == call[c].on IN
       \/ /\ Claimable(g) /\ user.open
          /\ Mark(g, "used")
          /\ TokensFor(g)
       \/ /\ Claimable(g)  \* wrong redirect, verifier, host; account closed
          /\ Mark(g, "used")
          /\ UNCHANGED refresh
       \/ /\ ~Claimable(g)
          /\ UNCHANGED <<grant, refresh>>
  /\ Hangup(c)
  /\ UNCHANGED <<user, client, locker, replayed>>

(* device_code: the poll of an approved code locks the user and is one      *)
(* step, the row gone with the tokens issued ...                            *)
PollLocked(c) ==
  /\ call[c].at = "poll" /\ Free /\ user.open
  /\ Is(call[c].on, "device", "approved")
  /\ Mark(call[c].on, "used")
  /\ TokensFor(call[c].on)
  /\ Hangup(c)
  /\ UNCHANGED <<user, client, locker, replayed>>

(* ... one whose lock found it undecided may see it approved a statement    *)
(* later: it claims without the lock, and its insert needs the user's row.  *)
PollClaim(c) ==
  /\ call[c].at = "undecided" /\ user.open
  /\ Is(call[c].on, "device", "approved")
  /\ Mark(call[c].on, "claimed")
  /\ call' = [call EXCEPT ![c].at = "issue"]
  /\ UNCHANGED <<user, client, refresh, locker, replayed>>

PollIssue(c) ==
  /\ call[c].at = "issue" /\ Free
  /\ Mark(call[c].on, "used")
  /\ TokensFor(call[c].on)
  /\ Hangup(c)
  /\ UNCHANGED <<user, client, locker, replayed>>

PollLater(c) ==  \* pending, denied, slow_down, expired
  /\ call[c].at \in {"poll", "undecided"}
  /\ Hangup(c)
  /\ UNCHANGED <<user, client, grant, refresh, locker, replayed>>

----------------------------------------------------------------------------
(* refresh_token: the user is locked and the row read; one that was revoked *)
(* takes all the user has from the client with it ...                       *)
(* Mutant: only the replayed token is revoked. *)
Alone(t) == {t}

Compromised(t) == Token

RefreshRead(c) ==
  /\ call[c].at = "refresh" /\ Free
  /\ LET t == call[c].on IN
       \/ /\ Live(t) /\ user.open
          /\ locker' = c
          /\ call' = [call EXCEPT ![c].at = "rotate"]
          /\ UNCHANGED <<refresh, replayed>>
       \/ /\ refresh[t].st = "revoked" /\ user.open
          /\ refresh' = Revoked(Compromised(t))
          /\ replayed' = replayed \cup {t}
          /\ Hangup(c) /\ UNCHANGED locker
       \/ /\ refresh[t].st = "gone" \/ ~user.open
          /\ Hangup(c) /\ UNCHANGED <<refresh, locker, replayed>>
  /\ UNCHANGED <<user, client, grant>>

(* Mutant: the scopes asked for are taken as they come. *)
Asked(t, asked) == asked

(* "Scope down-narrowing only": what it has of the scopes asked for.        *)
Narrowed(t, asked) == refresh[t].scope \cap asked

Successor(rows, t, scope) ==
  IssueTokens(rows, refresh[t].root, t, refresh[t].epoch, scope)

(* ... and then rotated, or spent on scopes it does not have.               *)
RefreshRotate(c) ==
  /\ call[c].at = "rotate"
  /\ LET t == call[c].on IN
       \/ Successor(Revoked({t}), t, refresh[t].scope)
       \/ \E asked \in Scopes :
            IF Narrowed(t, asked) = {}
            THEN refresh' = Revoked({t})
            ELSE Successor(Revoked({t}), t, Narrowed(t, asked))
  /\ locker' = Null
  /\ Hangup(c)
  /\ UNCHANGED <<user, client, grant, replayed>>

(* POST /oauth/revoke takes no lock.                                        *)
RevokeToken(t) ==
  /\ Live(t)
  /\ refresh' = Revoked({t})
  /\ UNCHANGED <<user, client, grant, locker, call, replayed>>

(* The owner deletes the client, or rotates its secret, and then revokes    *)
(* its refresh tokens.                                                      *)
DeleteClient ==
  /\ client.allowed # {} /\ ~client.revoking
  /\ client' = [client EXCEPT !.live = FALSE, !.revoking = TRUE]
  /\ UNCHANGED <<user, grant, refresh, locker, call, replayed>>

RotateSecret ==
  /\ client.live /\ ~client.revoking
  /\ client' = [client EXCEPT !.revoking = TRUE]
  /\ UNCHANGED <<user, grant, refresh, locker, call, replayed>>

RevokeClientTokens ==
  /\ client.revoking
  /\ client' = [client EXCEPT !.revoking = FALSE]
  /\ refresh' = Revoked(Token)
  /\ UNCHANGED <<user, grant, locker, call, replayed>>

----------------------------------------------------------------------------
(* A change of credentials locks the user, and waits for a device code that *)
(* a poll has claimed.                                                      *)
LockUser ==
  /\ Free /\ user.epoch < Changes
  /\ locker' = Change
  /\ UNCHANGED <<user, client, grant, refresh, call, replayed>>

(* Mutant: device codes are forgotten. *)
EndedCode(g) == grant[g] # Null /\ grant[g].kind = "code"

Ended(g) == grant[g] # Null /\ ~Is(g, "device", "asked")

RevokeCredentials ==
  /\ locker = Change
  /\ \A g \in Grant : ~Is(g, "device", "claimed")
  /\ user' = [user EXCEPT !.epoch = @ + 1]
  /\ refresh' = Revoked(Token)
  /\ grant' = [g \in Grant |->
       IF Ended(g) THEN [grant[g] EXCEPT !.st = "gone"] ELSE grant[g]]
  /\ locker' = Null
  /\ UNCHANGED <<client, call, replayed>>

(* The database aborts one of the two, whose transaction is undone.         *)
DeadlockAbort(c) ==
  /\ locker = Change /\ call[c].at = "issue"
  /\ \/ locker' = Null /\ UNCHANGED <<grant, call>>
     \/ /\ Mark(call[c].on, "approved")
        /\ Hangup(c) /\ UNCHANGED locker
  /\ UNCHANGED <<user, client, refresh, replayed>>

(* The account is closed or reopened; codes and tokens expire.              *)
Bar ==
  /\ Free
  /\ user' = [user EXCEPT !.open = ~@]
  /\ UNCHANGED <<client, grant, refresh, locker, call, replayed>>

SweepExpiredAuthCodes(g) ==
  /\ grant[g] # Null /\ grant[g].kind = "code"
  /\ Mark(g, "gone")
  /\ UNCHANGED <<user, client, refresh, locker, call, replayed>>

SweepExpiredDeviceCodes(g) ==
  /\ grant[g] # Null /\ grant[g].kind = "device" /\ grant[g].st # "claimed"
  /\ Mark(g, "gone")
  /\ UNCHANGED <<user, client, refresh, locker, call, replayed>>

SweepExpiredRefreshTokens(t) ==
  /\ refresh[t] # Null
  /\ refresh' = [refresh EXCEPT ![t].st = "gone"]
  /\ UNCHANGED <<user, client, grant, locker, call, replayed>>

Next ==
  \/ \E g \in Grant :
       \/ ApproveCode(g) \/ AuthorizeDevice(g) \/ DecideDevice(g)
       \/ SweepExpiredAuthCodes(g) \/ SweepExpiredDeviceCodes(g)
  \/ \E c \in Caller :
       \/ Present(c) \/ RedeemCode(c) \/ PollLocked(c) \/ PollClaim(c)
       \/ PollIssue(c) \/ PollLater(c) \/ RefreshRead(c) \/ RefreshRotate(c)
       \/ DeadlockAbort(c)
  \/ \E t \in Token : RevokeToken(t) \/ SweepExpiredRefreshTokens(t)
  \/ RegisterClient \/ EditClient \/ DeleteClient \/ RotateSecret
  \/ RevokeClientTokens \/ LockUser \/ RevokeCredentials \/ Bar

Spec == Init /\ [][Next]_vars

----------------------------------------------------------------------------
(* The line of a token: itself, what it replaced, what that replaced ...    *)
HoldsParents(S) == \A t \in S :
  refresh[t] # Null /\ refresh[t].parent # Null => refresh[t].parent \in S
Line(t) ==
  {s \in Token : \A S \in SUBSET Token : t \in S /\ HoldsParents(S) => s \in S}

(* A code, authorization or device, yields one refresh token at most.       *)
CodePaysOnce ==
  \A t, u \in Token :
    /\ refresh[t] # Null /\ refresh[u] # Null
    /\ refresh[t].root = refresh[u].root
    /\ refresh[t].parent = Null /\ refresh[u].parent = Null
    => t = u

(* A token is replaced once, not while it is itself still good, and by one  *)
(* whose scopes are its own or fewer.                                       *)
RotationIsAChain ==
  \A t, u \in Token :
    refresh[t] # Null /\ refresh[t].parent # Null =>
      /\ ~Live(refresh[t].parent)
      /\ refresh[t].scope \subseteq refresh[refresh[t].parent].scope
      /\ refresh[u] # Null /\ refresh[u].parent = refresh[t].parent => t = u

(* However many requests present a code or a refresh token at once, what a  *)
(* grant yields is one chain of refresh tokens, of which the last at most   *)
(* is good, and whose scopes never widen (oauth/token.ts:178, :247, :293,   *)
(* :398).                                                                   *)
GrantRootsOneChain == CodePaysOnce /\ RotationIsAChain

(* Neither a token presented after its revocation nor anything that         *)
(* descends from it is good, then or ever after                             *)
(* (oauth/token.ts:275).                                                    *)
ReplayEndsFamily ==
  \A t \in Token : Live(t) => Line(t) \cap replayed = {}

(* What was granted before a change of credentials is over with it: no code *)
(* can be redeemed and no refresh token is good, the deadlock of a poll     *)
(* with the change included (security/credentials.ts:9, oauth/token.ts:342).*)
GrantsEndWithCredentials ==
  /\ \A t \in Token : Live(t) => refresh[t].epoch = user.epoch
  /\ \A g \in Grant : grant[g] # Null /\ grant[g].st \in {"approved", "claimed"}
                        => grant[g].epoch = user.epoch
=============================================================================
