----------------------------- MODULE WebConsent -----------------------------
(***************************************************************************)
(* The page on which a user lets an OAuth client have access (web/app.tsx  *)
(* OAuthConsent), and the routes it calls (oauth/authorize.ts), for one    *)
(* client whose owner edits it meanwhile.  A call that fails on the way    *)
(* leaves the page as busy as it was.  What is redeemed for the codes      *)
(* given out is OAuthGrants' part; WebPairing has the page for devices.    *)
(***************************************************************************)
EXTENDS Naturals

CONSTANTS
  Page,   \* pages that are open, each in the browser of another user
  Scope,  \* SUPPORTED_SCOPES
  Null

VARIABLES
  client,  \* oauth_clients: allowed_scopes, none once it is revoked
  page,    \* the state of the component
  call,    \* the call of each page that is under way
  agreed,  \* history: what each user had on screen when clicking Authorize
  given    \* oauth_authorization_codes: for whom, what was asked and granted

vars == <<client, page, call, agreed, given>>

Scopes == (SUBSET Scope) \ {{}}

(* ask: the scopes the query names, none for all there are.                 *)
PageState == [ask : SUBSET Scope, info : Scopes \cup {Null}, busy : BOOLEAN,
              st : {"loading", "asks", "error", "left"}]
CallState == [op : {"info", "approve", "deny"}, at : {"sent", "ok", "refused"},
              got : SUBSET Scope]

TypeOK ==
  /\ client \in SUBSET Scope
  /\ page \in [Page -> PageState]
  /\ call \in [Page -> CallState \cup {Null}]
  /\ agreed \subseteq [of : Page, scope : Scopes]
  /\ given \subseteq [of : Page, ask : SUBSET Scope, scope : Scopes]

Sending(op) == [op |-> op, at |-> "sent", got |-> {}]

(* useEffect: the page asks once, when it opens.                            *)
Init ==
  /\ client = Scope
  /\ \E ask \in [Page -> SUBSET Scope] :
       page = [p \in Page |-> [ask |-> ask[p], info |-> Null, busy |-> FALSE, st |-> "loading"]]
  /\ call = [p \in Page |-> Sending("info")]
  /\ agreed = {}
  /\ given = {}

----------------------------------------------------------------------------
EditClient ==
  /\ client # {}
  /\ client' \in SUBSET Scope
  /\ UNCHANGED <<page, call, agreed, given>>

Decide(p) ==
  /\ page[p].st = "asks" /\ ~page[p].busy
  /\ page' = [page EXCEPT ![p].busy = TRUE]
  /\ \/ /\ call' = [call EXCEPT ![p] = Sending("approve")]
        /\ agreed' = agreed \cup {[of |-> p, scope |-> page[p].info]}
     \/ /\ call' = [call EXCEPT ![p] = Sending("deny")]
        /\ UNCHANGED agreed
  /\ UNCHANGED <<client, given>>

----------------------------------------------------------------------------
(* The routes: validateAuthorize, and what each does with its result.       *)
(* Mutant: what the client may have is granted, whatever was asked for.     *)
AllAllowed(p) == client

FinalScopes(p) == IF page[p].ask = {} THEN client ELSE page[p].ask

ValidateAuthorize(p) == client # {} /\ page[p].ask \subseteq client

Serve(p, op) == call[p] # Null /\ call[p].op = op /\ call[p].at = "sent"

Reject(p, op) ==
  /\ Serve(p, op) /\ ~ValidateAuthorize(p)
  /\ call' = [call EXCEPT ![p].at = "refused"]
  /\ UNCHANGED <<client, page, agreed, given>>

AuthorizeInfo(p) ==
  /\ Serve(p, "info") /\ ValidateAuthorize(p)
  /\ call' = [call EXCEPT ![p].at = "ok", ![p].got = FinalScopes(p)]
  /\ UNCHANGED <<client, page, agreed, given>>

AuthorizeApprove(p) ==
  /\ Serve(p, "approve") /\ ValidateAuthorize(p)
  /\ given' = given \cup {[of |-> p, ask |-> page[p].ask, scope |-> FinalScopes(p)]}
  /\ call' = [call EXCEPT ![p].at = "ok"]
  /\ UNCHANGED <<client, page, agreed>>

AuthorizeDeny(p) ==
  /\ Serve(p, "deny") /\ ValidateAuthorize(p)
  /\ call' = [call EXCEPT ![p].at = "ok"]
  /\ UNCHANGED <<client, page, agreed, given>>

----------------------------------------------------------------------------
Take(p, op, at) ==
  /\ call[p] # Null /\ call[p].op = op /\ call[p].at = at
  /\ call' = [call EXCEPT ![p] = Null]
  /\ UNCHANGED <<client, agreed, given>>

Loaded(p) ==
  \/ /\ Take(p, "info", "ok")
     /\ page' = [page EXCEPT ![p].st = "asks", ![p].info = call[p].got]
  \/ /\ Take(p, "info", "refused")
     /\ page' = [page EXCEPT ![p].st = "error"]

(* The page is left, unless the address is none a browser opens as a page.  *)
Decided(p, op) ==
  \/ /\ Take(p, op, "ok")
     /\ \E st \in {"left", "asks"} : page' = [page EXCEPT ![p].st = st, ![p].busy = FALSE]
  \/ /\ Take(p, op, "refused")
     /\ page' = [page EXCEPT ![p].busy = FALSE]

(* A rejected fetch: what follows the await is never reached.               *)
Fails(p) ==
  /\ call[p] # Null
  /\ call' = [call EXCEPT ![p] = Null]
  /\ UNCHANGED <<client, page, agreed, given>>

Next ==
  \/ EditClient
  \/ \E p \in Page :
       \/ Decide(p) \/ AuthorizeInfo(p) \/ AuthorizeApprove(p) \/ AuthorizeDeny(p)
       \/ Loaded(p) \/ Fails(p)
       \/ \E op \in {"info", "approve", "deny"} : Reject(p, op)
       \/ \E op \in {"approve", "deny"} : Decided(p, op)

Spec == Init /\ [][Next]_vars

----------------------------------------------------------------------------
(* A client gets what its request names, and that was listed to the user    *)
(* who authorized it, however its scopes are edited meanwhile; no user's    *)
(* denial or closed page gives it anything (web/app.tsx:4518).  A request   *)
(* that names no scope is another matter: it yields what the client may     *)
(* have by then, which may be more than was listed.                         *)
GrantedAsListed ==
  \A g \in given :
    /\ \E a \in agreed : a.of = g.of
    /\ g.ask # {} => g.scope = g.ask /\ [of |-> g.of, scope |-> g.scope] \in agreed
=============================================================================
