---------------------------- MODULE SigningKeys -----------------------------
(***************************************************************************)
(* The keys a provider signs with, as this process believes them to be     *)
(* (auth/oidc/jwks.ts): the document is kept for a while, and fetched once *)
(* more when a token names a key that is not in it.                        *)
(*                                                                         *)
(* The provider is external: it publishes and withdraws keys when it likes *)
(* and serves what it publishes, at some moment of the fetch.  A fetch     *)
(* takes up to Stall ticks or fails, and a later one may be answered       *)
(* first.  The checks of the claims come after and keep nothing.           *)
(***************************************************************************)
EXTENDS Naturals

CONSTANTS
  Kid,        \* signing keys
  Verifying,  \* verifications that can be under way at once
  KeyLife,    \* TTL_MS, in ticks
  Stall,      \* AbortSignal.timeout: ticks a fetch may take
  Null

VARIABLES
  published,  \* the keys in the provider's document
  ago,        \* history: ticks since each key was last there, up to Late
  jwks,       \* jwksCache: the document and the ticks it is used for
  check,      \* the local variables of each verification
  misjudged   \* history: a token was accepted or refused wrongly

vars == <<published, ago, jwks, check, misjudged>>

Late == KeyLife + Stall + 1
Cached == [keys : SUBSET Kid, left : 0..KeyLife]
(* named: does the token name its key?  steady: the key has been published  *)
(* all the time since; got: the document the provider serves this fetch.    *)
Idle == [at |-> "idle", kid |-> Null, named |-> FALSE, steady |-> FALSE,
         forced |-> FALSE, got |-> {}, awaited |-> 0]

TypeOK ==
  /\ published \subseteq Kid
  /\ ago \in [Kid -> 0..Late]
  /\ jwks \in Cached \cup {Null}
  /\ check \in [Verifying ->
       [at : {"idle", "fetch", "served", "find"}, kid : Kid \cup {Null}, named : BOOLEAN,
        steady : BOOLEAN, forced : BOOLEAN, got : SUBSET Kid, awaited : 0..Stall]]
  /\ misjudged \in BOOLEAN

Init ==
  /\ published \in SUBSET Kid
  /\ ago = [k \in Kid |-> IF k \in published THEN 0 ELSE Late]
  /\ jwks = Null
  /\ check = [v \in Verifying |-> Idle]
  /\ misjudged = FALSE

----------------------------------------------------------------------------
At(v, p) == check[v].at = p
Fetching(v) == check[v].at \in {"fetch", "served"}

(* A document that is in hand is searched at once; a fetch ends in time.     *)
Tick ==
  /\ \A v \in Verifying : ~At(v, "find") /\ (Fetching(v) => check[v].awaited < Stall)
  /\ ago' = [k \in Kid |-> IF k \in published \/ ago[k] = Late THEN ago[k] ELSE ago[k] + 1]
  /\ jwks' = IF jwks = Null \/ jwks.left = 0 THEN jwks ELSE [jwks EXCEPT !.left = @ - 1]
  /\ check' = [v \in Verifying |->
       IF Fetching(v) THEN [check[v] EXCEPT !.awaited = @ + 1] ELSE check[v]]
  /\ UNCHANGED <<published, misjudged>>

Publish(k) ==
  /\ k \notin published
  /\ published' = published \cup {k} /\ ago' = [ago EXCEPT ![k] = 0]
  /\ UNCHANGED <<jwks, check, misjudged>>

Withdraw(k) ==
  /\ k \in published
  /\ published' = published \ {k}
  /\ check' = [v \in Verifying |->
       IF check[v].kid = k THEN [check[v] EXCEPT !.steady = FALSE] ELSE check[v]]
  /\ UNCHANGED <<ago, jwks, misjudged>>

----------------------------------------------------------------------------
(* Mutant: a document that was fetched is used for good.                    *)
EverFetched == jwks # Null

Hit == jwks # Null /\ jwks.left > 0

(* verifyIdToken: fetchJwks(uri, false)                                     *)
Verify(v) ==
  /\ At(v, "idle")
  /\ \E k \in Kid, named \in BOOLEAN :
       check' = [check EXCEPT ![v] =
         [Idle EXCEPT !.at = IF Hit THEN "find" ELSE "fetch", !.kid = k, !.named = named,
                      !.steady = k \in published, !.got = IF Hit THEN jwks.keys ELSE {}]]
  /\ UNCHANGED <<published, ago, jwks, misjudged>>

Serve(v) ==
  /\ At(v, "fetch")
  /\ check' = [check EXCEPT ![v].at = "served", ![v].got = published]
  /\ UNCHANGED <<published, ago, jwks, misjudged>>

Fetched(v) ==
  /\ At(v, "served")
  /\ jwks' = [keys |-> check[v].got, left |-> KeyLife]
  /\ check' = [check EXCEPT ![v].at = "find", ![v].awaited = 0]
  /\ UNCHANGED <<published, ago, misjudged>>

FetchFails(v) ==
  /\ Fetching(v)
  /\ check' = [check EXCEPT ![v] = Idle]
  /\ UNCHANGED <<published, ago, jwks, misjudged>>

(* findKey: the key the token names, or the first there is.                 *)
FindKey(v) == IF check[v].named THEN check[v].got \cap {check[v].kid} ELSE check[v].got

(* Not there: fetchJwks(uri, true), once.                                   *)
Refetch(v) ==
  /\ At(v, "find") /\ FindKey(v) = {} /\ ~check[v].forced
  /\ check' = [check EXCEPT ![v].at = "fetch", ![v].forced = TRUE, ![v].awaited = 0]
  /\ UNCHANGED <<published, ago, jwks, misjudged>>

NoMatchingKey(v) ==
  /\ At(v, "find") /\ FindKey(v) = {} /\ check[v].forced
  /\ misjudged' = (misjudged \/ check[v].steady)
  /\ check' = [check EXCEPT ![v] = Idle]
  /\ UNCHANGED <<published, ago, jwks>>

(* The signature holds if the key found is the one that made it.            *)
CheckSignature(v) ==
  /\ At(v, "find")
  /\ \E k \in FindKey(v) :
       misjudged' = (misjudged \/ (k = check[v].kid /\ ago[k] >= Late))
  /\ check' = [check EXCEPT ![v] = Idle]
  /\ UNCHANGED <<published, ago, jwks>>

Next ==
  \/ Tick
  \/ \E k \in Kid : Publish(k) \/ Withdraw(k)
  \/ \E v \in Verifying :
       \/ Verify(v) \/ Serve(v) \/ Fetched(v) \/ FetchFails(v)
       \/ Refetch(v) \/ NoMatchingKey(v) \/ CheckSignature(v)

Spec == Init /\ [][Next]_vars

----------------------------------------------------------------------------
(* A rotation of the provider's keys is followed both ways: no token passes *)
(* by a key that was withdrawn longer ago than a document is kept and       *)
(* fetched, and none is refused for want of a key that was published all    *)
(* the while (auth/oidc/jwks.ts:6).                                         *)
RotationIsFollowed == ~misjudged
=============================================================================
