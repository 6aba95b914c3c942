--------------------------- MODULE PendingGrants ----------------------------
(***************************************************************************)
(* Sharing a file or a folder with somebody (collabs/index.ts): by name,   *)
(* or by an address that may be nobody's yet, and what becomes of a grant  *)
(* to an address when somebody proves to have it (auth/index.ts,           *)
(* auth/external.ts, castle/index.ts).                                     *)
(*                                                                         *)
(* One resource, whose owner is in the team "here".  Handlers are          *)
(* sequences of statements; a provider's sign-in runs its own in one       *)
(* transaction, which this allows more of.  Roles, invites and mail are    *)
(* left out.                                                               *)
(***************************************************************************)
EXTENDS Naturals, FiniteSets

CONSTANTS
  Guest,    \* people who may open an account
  Address,
  Similar,  \* pairs of addresses: ILIKE the one matches the other too
  Offer,    \* rows of collaborations, each made once
  Errand,   \* handlers, each run once
  Null

VARIABLES
  guest,   \* users: team and address
  offer,   \* collaborations of the resource
  errand,  \* the local variables of each handler
  proved   \* history: the addresses a guest has shown to have

vars == <<guest, offer, errand, proved>>

Account == [team : {"here", "elsewhere"}, email : Address]
(* to: user_id or, while that is null, email; meant: what the owner typed.  *)
OfferRow == [to : Guest \cup Address, meant : Guest \cup Address]
Removed == [to |-> Null, meant |-> Null]
Idle == [at |-> "idle", who |-> Null, via |-> Null, on |-> Null, todo |-> {}]

TypeOK ==
  /\ guest \in [Guest -> Account \cup {Null}]
  /\ offer \in [Offer -> OfferRow \cup {Null, Removed}]
  /\ errand \in [Errand ->
       [at : {"idle", "add", "insert", "list", "each", "bind", "drop", "done"},
        who : Guest \cup Address \cup {Null}, via : Address \cup {Null}, on : Offer \cup {Null},
        todo : SUBSET Offer]]
  /\ proved \in [Guest -> SUBSET Address]

Init ==
  /\ guest = [g \in Guest |-> Null]
  /\ offer = [o \in Offer |-> Null]
  /\ errand = [e \in Errand |-> Idle]
  /\ proved = [g \in Guest |-> {}]

----------------------------------------------------------------------------
At(e, p) == errand[e].at = p
Goto(e, p) == errand' = [errand EXCEPT ![e].at = p]
Answer(e) == errand' = [errand EXCEPT ![e] = [Idle EXCEPT !.at = "done"]]
Rows == {o \in Offer : offer[o] \notin {Null, Removed}}
For(x) == {o \in Rows : offer[o].to = x}
Accounts == {g \in Guest : guest[g] # Null}
Has(g, a) == g \in Accounts /\ guest[g].email = a
In(g, team) == g \in Accounts /\ guest[g].team = team

(* Two unique indexes: one grant for each user, and for each address.       *)
Change(o, x) ==
  /\ For(x) \subseteq {o}
  /\ offer' = [offer EXCEPT ![o].to = x]

(* An account: through sign-up, a provider or Castle.  That an invite was   *)
(* mailed to the address, or the provider's or Castle's word, proves it;    *)
(* then the grants to it are looked at.                                     *)
Proven(e, g, a) ==
  /\ proved' = [proved EXCEPT ![g] = {a}]
  /\ At(e, "idle")
  /\ errand' = [errand EXCEPT ![e] = [Idle EXCEPT !.at = "list", !.who = g, !.via = a]]

SignUp(g) ==
  /\ guest[g] = Null
  /\ \E a \in Address, team \in {"here", "elsewhere"} :
       /\ \A h \in Guest : ~Has(h, a)
       /\ guest' = [guest EXCEPT ![g] = [team |-> team, email |-> a]]
       /\ \/ \E e \in Errand : Proven(e, g, a)
          \/ UNCHANGED <<errand, proved>>
  /\ UNCHANGED offer

(* PATCH /me, or Castle: nobody checks the new address, and no grant        *)
(* follows it.                                                              *)
ChangeEmail(g) ==
  /\ g \in Accounts
  /\ \E a \in Address :
       /\ \A h \in Guest : ~Has(h, a)
       /\ guest' = [guest EXCEPT ![g].email = a]
  /\ UNCHANGED <<offer, errand, proved>>

----------------------------------------------------------------------------
(* resolveTarget: a user of the team, by name or by address, or the address *)
Target(e, x) ==
  /\ At(e, "idle")
  /\ errand' = [errand EXCEPT ![e] = [Idle EXCEPT !.at = "add", !.who = x]]
  /\ UNCHANGED <<guest, offer, proved>>

TargetUser(e, g) == In(g, "here") /\ Target(e, g)
TargetAddress(e, a) == (\A g \in Guest : Has(g, a) => ~In(g, "here")) /\ Target(e, a)

(* A grant there is gets the role.  The address is a pattern here: the row  *)
(* may be another address's.                                                *)
Matching(x) ==
  For(x) \cup UNION {For(a) : a \in {b \in Address : <<x, b>> \in Similar}}

AddCollab(e) ==
  /\ At(e, "add")
  /\ IF Matching(errand[e].who) # {} THEN Answer(e) ELSE Goto(e, "insert")
  /\ UNCHANGED <<guest, offer, proved>>

InsertCollab(e) ==
  /\ At(e, "insert")
  /\ IF For(errand[e].who) # {}
     THEN UNCHANGED offer  \* the index refuses the row
     ELSE \E o \in Offer :
            /\ offer[o] = Null
            /\ offer' = [offer EXCEPT ![o] = [to |-> errand[e].who, meant |-> errand[e].who]]
  /\ Answer(e)
  /\ UNCHANGED <<guest, proved>>

RemoveCollab(o) ==
  /\ o \in Rows
  /\ offer' = [offer EXCEPT ![o] = Removed]
  /\ UNCHANGED <<guest, errand, proved>>

----------------------------------------------------------------------------
(* Mutant: the address is a pattern here too.                               *)
LikeIt(g, via, a) == In(g, "here") /\ (a = via \/ <<via, a>> \in Similar)

(* resolvePendingCollabs: the grants to the address, made in the account's  *)
(* team.                                                                    *)
Due(g, via, a) == In(g, "here") /\ a = via

ListPending(e) ==
  /\ At(e, "list")
  /\ errand' = [errand EXCEPT ![e].at = "each", ![e].todo =
       {o \in Rows : offer[o].to \in Address /\ Due(errand[e].who, errand[e].via, offer[o].to)}]
  /\ UNCHANGED <<guest, offer, proved>>

NextPending(e) ==
  /\ At(e, "each")
  /\ IF errand[e].todo = {}
     THEN Answer(e)
     ELSE \E o \in errand[e].todo :
            errand' = [errand EXCEPT ![e].on = o, ![e].todo = @ \ {o},
                         ![e].at = IF For(errand[e].who) # {} THEN "drop" ELSE "bind"]
  /\ UNCHANGED <<guest, offer, proved>>

(* By id: nothing, if the row is gone; an error, if the index refuses it.   *)
Bind(e) ==
  LET o == errand[e].on IN
  /\ At(e, "bind")
  /\ \/ o \in Rows /\ Change(o, errand[e].who) /\ Goto(e, "each")
     \/ o \in Rows /\ ~(For(errand[e].who) \subseteq {o}) /\ Answer(e) /\ UNCHANGED offer
     \/ o \notin Rows /\ Goto(e, "each") /\ UNCHANGED offer
  /\ UNCHANGED <<guest, proved>>

Drop(e) ==
  /\ At(e, "drop")
  /\ offer' = [offer EXCEPT ![errand[e].on] = Removed]
  /\ Goto(e, "each")
  /\ UNCHANGED <<guest, proved>>

Next ==
  \/ \E g \in Guest : SignUp(g) \/ ChangeEmail(g)
  \/ \E e \in Errand :
       \/ \E g \in Guest : TargetUser(e, g)
       \/ \E a \in Address : TargetAddress(e, a)
       \/ AddCollab(e) \/ InsertCollab(e)
       \/ ListPending(e) \/ NextPending(e) \/ Bind(e) \/ Drop(e)
  \/ \E o \in Offer : RemoveCollab(o)

Spec == Init /\ [][Next]_vars

----------------------------------------------------------------------------
(* Whoever has a grant is in the owner's team and is the one the owner      *)
(* named, or showed to have the very address the owner typed, whatever is   *)
(* added, removed, renamed and resolved meanwhile (auth/index.ts:85).       *)
GrantsReachTheirs ==
  \A o \in Rows : offer[o].to \in Guest =>
    /\ In(offer[o].to, "here")
    /\ offer[o].meant = offer[o].to \/ offer[o].meant \in proved[offer[o].to]
=============================================================================
