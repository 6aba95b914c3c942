----------------------------- MODULE MCBoundary -----------------------------
(***************************************************************************)
(* Where the server meets what is not it: other instances, identity        *)
(* providers, OAuth clients and devices, hosts of teams, the browser, the  *)
(* callers that are counted, and the process itself.  The components share *)
(* no variable and are explored side by side, each from its own initial    *)
(* states: "focus" is the one that moves.  Pairing and signed requests     *)
(* share the clock and the members only, and have a focus each; Peering is *)
(* extended and its properties are checked as they stand there.  The       *)
(* variables of any other component are Null while it is not in focus.     *)
(***************************************************************************)
EXTENDS Peering, TLC

CONSTANTS
  Accounts, OidcSubject, SsoSubject, Email, Login, Ticket, Browser, LogoutToken,  \* SignIn
  Kid, Verifying, KeyLife,                                \* SigningKeys
  Visitor, Tab, Awaited, Opened, Loads, Works,            \* WebSession, WebFiles
  Team, Lookup, TTL,                                      \* TeamCache
  Scope, Window, Device, Handset, Asking,                 \* WebConsent, WebPairing
  Process, Sweep, Request,                                \* Server
  Allowed, Period, Retention, Lag, Span,                  \* RateLimits
  Gone

VARIABLES
  focus,
  user, identity, ticket, cookie, login, lock, session, logout,
  published, ago, jwks, check, misjudged,
  mem, disk, shell, calls, started, foreign, crossed,
  at, rows, loading, failed, newest, loads, more, busy, selected, works, strayed,
  kept, due, bySlug, byId, lookup, age, outdated,
  client, form, posting, agreed, given,
  code, screen, asking, shown,
  schema, process, sweep, request, dropped,
  time, bucket, begun, swept, through

(* A person at the OIDC provider and one at the SSO issuer.                 *)
Subject == OidcSubject \cup SsoSubject
Via == [p \in Subject |-> IF p \in OidcSubject THEN "oidc" ELSE "sso"]

(* The first process has the code of a version before that of the others.   *)
Versions == [p \in Process |-> IF p = CHOOSE q \in Process : TRUE THEN 1 ELSE 2]

I == INSTANCE SignIn
K == INSTANCE SigningKeys
W == INSTANCE WebSession WITH Account <- Visitor
P == INSTANCE WebFiles WITH Folder <- Opened
T == INSTANCE TeamCache
A == INSTANCE WebConsent WITH Page <- Window, page <- form, call <- posting
S == INSTANCE Server WITH Needs <- Versions
R == INSTANCE RateLimits WITH Horizon <- Span

(* Two devices' codes entered on one page, and one on two users' pages.     *)
D(pages, devices) == INSTANCE WebPairing WITH Page <- pages, Device <- devices, Request <- Asking,
       page <- screen, call <- asking, agreed <- shown

(* Null and Gone are told apart from whatever else may stand there.         *)
ASSUME NoRowIsNull ==
  /\ Null \notin Login \cup Ticket \cup I!Row \cup I!Entry
  /\ Gone \notin I!Row
  /\ Null \notin Visitor
  /\ Null \notin Team \cup T!Entry
  /\ Null \notin K!Cached
  /\ Null \notin A!CallState
  /\ Null \notin {"approved", "denied"}
  /\ Null \notin [count : Nat, started : Nat]
  /\ Null \notin D(Window, Device)!CodeRow \cup D(Window, Device)!CallState \cup Device
  /\ Null \notin D(Tab, Handset)!CodeRow \cup D(Tab, Handset)!CallState \cup Handset

ASSUME Durations == TTL \in Nat /\ KeyLife \in Nat /\ Stall \in Nat

(* Every bucket lets somebody through, and is kept longer than its window   *)
(* and any wait for its row (security/ratelimit.ts:53).                     *)
ASSUME Windows ==
  /\ Allowed \in Nat \ {0} /\ Period \in Nat /\ Lag \in Nat /\ Retention \in Nat /\ Span \in Nat
  /\ Retention >= Period + Lag

peering == <<now, invites, messages>>
signin == <<user, identity, ticket, cookie, login, lock, session, logout>>
keys == <<published, ago, jwks, check, misjudged>>
web == <<mem, disk, shell, calls, started, foreign, crossed>>
listing == <<at, rows, loading, failed, newest, loads, more, busy, selected, works, strayed>>
teams == <<kept, due, bySlug, byId, lookup, age, outdated>>
consent == <<client, form, posting, agreed, given>>
pairing == <<code, screen, asking, shown>>
server == <<schema, process, sweep, request, dropped>>
rates == <<time, bucket, begun, swept, through>>

allVars == <<focus, peering, signin, keys, web, listing, teams, consent, pairing, server,
             rates>>

(* The variables of a component that is not in focus.                       *)
NoSignIn ==
  /\ user = Null /\ identity = Null /\ ticket = Null /\ cookie = Null
  /\ login = Null /\ lock = Null /\ session = Null /\ logout = Null
NoKeys == published = Null /\ ago = Null /\ jwks = Null /\ check = Null /\ misjudged = Null
NoWeb ==
  /\ mem = Null /\ disk = Null /\ shell = Null /\ calls = Null
  /\ started = Null /\ foreign = Null /\ crossed = Null
NoListing ==
  /\ at = Null /\ rows = Null /\ loading = Null /\ failed = Null /\ newest = Null /\ loads = Null
  /\ more = Null /\ busy = Null /\ selected = Null /\ works = Null /\ strayed = Null
NoTeams ==
  /\ kept = Null /\ due = Null /\ bySlug = Null /\ byId = Null
  /\ lookup = Null /\ age = Null /\ outdated = Null
NoConsent == client = Null /\ form = Null /\ posting = Null /\ agreed = Null /\ given = Null
NoPairing == code = Null /\ screen = Null /\ asking = Null /\ shown = Null
NoRates == time = Null /\ bucket = Null /\ begun = Null /\ swept = Null /\ through = Null
NoServer == schema = Null /\ process = Null /\ sweep = Null /\ request = Null /\ dropped = Null

MCInit ==
  /\ focus \in {"pairing", "requests", "signin", "keys", "client", "page", "teams",
                "consent", "codes", "users", "server", "rates"}
  /\ Init  \* of Peering
  /\ peers = IF focus = "requests" THEN Peer ELSE {}
  /\ IF focus = "signin" THEN I!Init ELSE NoSignIn
  /\ IF focus = "keys" THEN K!Init ELSE NoKeys
  /\ IF focus = "client" THEN W!Init ELSE NoWeb
  /\ IF focus = "page" THEN P!Init ELSE NoListing
  /\ IF focus = "teams" THEN T!Init ELSE NoTeams
  /\ IF focus = "consent" THEN A!Init ELSE NoConsent
  /\ CASE focus = "codes" -> D(Window, Device)!Init [] focus = "users" -> D(Tab, Handset)!Init [] OTHER -> NoPairing
  /\ IF focus = "server" THEN S!Init ELSE NoServer
  /\ IF focus = "rates" THEN R!Init ELSE NoRates

MCNext ==
  /\ \/ focus = "pairing" /\ (Tick \/ (Pairing /\ UNCHANGED <<now, messages>>))
     \/ focus = "requests" /\ (Tick \/ (Requests /\ UNCHANGED <<now, invites>>))
     \/ focus = "signin" /\ I!Next
     \/ focus = "keys" /\ K!Next
     \/ focus = "client" /\ W!Next
     \/ focus = "page" /\ P!Next
     \/ focus = "teams" /\ T!Next
     \/ focus = "consent" /\ A!Next
     \/ focus = "codes" /\ D(Window, Device)!Next
     \/ focus = "users" /\ D(Tab, Handset)!Next
     \/ focus = "server" /\ S!Next
     \/ focus = "rates" /\ R!Next
  /\ focus \notin {"pairing", "requests"} => UNCHANGED peering
  /\ focus # "signin" => UNCHANGED signin
  /\ focus # "keys" => UNCHANGED keys
  /\ focus # "client" => UNCHANGED web
  /\ focus # "page" => UNCHANGED listing
  /\ focus # "teams" => UNCHANGED teams
  /\ focus # "consent" => UNCHANGED consent
  /\ focus \notin {"codes", "users"} => UNCHANGED pairing
  /\ focus # "server" => UNCHANGED server
  /\ focus # "rates" => UNCHANGED rates
  /\ UNCHANGED focus

MCSpec == MCInit /\ [][MCNext]_allVars

(* The components share their model values, so that the group stays small.  *)
Symmetry == Permutations(Login \cup Kid \cup Tab \cup Opened \cup Device \cup Request)

(* A state admits one session, and an empty instance gets one owner         *)
(* (auth/external.ts:88).                                                   *)
SignInOnce == focus = "signin" => I!SignInOnce

(* The browser's record of a user is of the account its token is for        *)
(* (web/api.ts:41), and the files page shows the folder that is open        *)
(* (web/app.tsx:1314).                                                      *)
PageIsWhole ==
  /\ focus = "client" => W!SessionIsWhole
  /\ focus = "page" => P!ListingIsOfFolder

(* Whoever is told of a team is told what was so a moment ago               *)
(* (teams/resolve.ts:4), and tokens are judged by keys that were the        *)
(* provider's a moment ago (auth/oidc/jwks.ts:6).                           *)
CachesAreRecent ==
  /\ focus = "teams" => T!AnswersAreRecent
  /\ focus = "keys" => K!RotationIsFollowed

(* An OAuth client or a device gets what a user was shown and agreed to     *)
(* (web/app.tsx:4518, oauth/device.ts:170).                                 *)
ConsentIsInformed ==
  /\ focus = "consent" => A!GrantedAsListed
  /\ focus = "codes" => D(Window, Device)!PairedAsShown
  /\ focus = "users" => D(Tab, Handset)!PairedAsShown

(* A request is worked on by a process that can answer it, and answered     *)
(* before the process ends by itself (server.ts:494).                       *)
ServedWhole == focus = "server" => S!ServedWhole

(* Callers get through at most at twice the rate of their bucket            *)
(* (security/ratelimit.ts:16).                                              *)
LimitHolds == focus = "rates" => R!LimitHolds
=============================================================================
