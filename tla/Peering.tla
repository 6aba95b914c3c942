------------------------------- MODULE Peering -------------------------------
(***************************************************************************)
(* How instances come to trust each other's requests: an invite, minted by *)
(* the founder of a federation, pairs one instance (federation/invites.ts, *)
(* pairing.ts, index.ts); after that the peer's signed requests are        *)
(* accepted, each once (transport.ts).  A request may be delivered again   *)
(* and again, an answer may be lost.  Time runs in half seconds: the       *)
(* timestamps of requests and invites are whole seconds, the database's    *)
(* are not.                                                                *)
(***************************************************************************)
EXTENDS Integers, FiniteSets

CONSTANTS
  Peer,     \* the instances that join
  Invite,   \* rows of federation_invites
  Call,     \* POST /me/federations/accept, at some peer
  Message,  \* signed requests a peer makes
  Arrival,  \* deliveries of them
  Skew,     \* SIG_SKEW_SECONDS
  Ahead,    \* seconds a peer's clock is ahead of ours, at most
  Stall,    \* half seconds between the check of the headers and the claim
  Horizon,  \* the last half second
  Null

VARIABLES
  now,
  invite,   \* [exp |-> second it expires, used |-> by whom]; Null: no row
  peers,   \* federation_members: the peers this instance knows
  known,    \* the peers that have a row for the federation
  call,     \* the local state of each accept
  joined,   \* the accepts that ended in a membership
  claims,   \* history: which call claimed which invite
  sent,     \* [from, ts] of each message; Null: not sent
  nonce,    \* federation_nonces: when each message's was first seen, or Null
  arrival,  \* the local state of each delivery
  handled   \* history: the deliveries that reached a handler

invites == <<invite, peers, known, call, joined, claims>>
messages == <<sent, nonce, arrival, handled>>
vars == <<now, invites, messages>>

Time == 0..Horizon
Second(t) == t \div 2
CallPoint == {"idle", "asked", "claimed", "answered", "done"}

TypeOK ==
  /\ now \in Time
  /\ invite \in [Invite -> [exp : Int, used : Peer \cup {Null}] \cup {Null}]
  /\ peers \subseteq Peer /\ known \subseteq Peer
  /\ call \in [Call -> [at : CallPoint, peer : Peer \cup {Null},
                        invite : Invite \cup {Null}, had : BOOLEAN]]
  /\ joined \subseteq Call /\ claims \subseteq Invite \X Call
  /\ sent \in [Message -> [from : Peer, ts : Int] \cup {Null}]
  /\ nonce \in [Message -> Time \cup {Null}]
  /\ arrival \in [Arrival -> [at : {"idle", "checked", "claimed", "done"},
                              msg : Message \cup {Null}, since : Time]]
  /\ handled \subseteq Arrival

Uncalled == [at |-> "idle", peer |-> Null, invite |-> Null, had |-> FALSE]
Unarrived == [at |-> "idle", msg |-> Null, since |-> 0]

Init ==
  /\ now = 0
  /\ invite = [i \in Invite |-> Null]
  /\ peers \in SUBSET Peer /\ known = peers  \* paired before
  /\ joined = {} /\ claims = {}
  /\ call = [c \in Call |-> Uncalled]
  /\ sent = [m \in Message |-> Null] /\ nonce = [m \in Message |-> Null]
  /\ arrival = [a \in Arrival |-> Unarrived] /\ handled = {}

(* Time passes, but not while a checked delivery has waited too long.       *)
Tick ==
  /\ now < Horizon
  /\ \A a \in Arrival :
       arrival[a].at = "checked" => now < arrival[a].since + Stall
  /\ now' = now + 1
  /\ UNCHANGED <<invites, messages>>

----------------------------------------------------------------------------
(* The founder's invites: a row per token.                                  *)
MintInvite(i) ==
  /\ invite[i] = Null /\ \A x \in claims : x[1] # i
  /\ invite' = [invite EXCEPT ![i] = [exp |-> Second(now) + 1, used |-> Null]]
  /\ UNCHANGED <<peers, known, call, joined, claims>>

RevokeInvite(i) ==
  /\ invite[i] # Null
  /\ invite' = [invite EXCEPT ![i] = Null]
  /\ UNCHANGED <<peers, known, call, joined, claims>>

Expired(i) == 2 * invite[i].exp < now

SweepExpiredFederationInvites ==
  /\ \E i \in Invite : invite[i] # Null /\ invite[i].used = Null /\ Expired(i)
  /\ invite' = [i \in Invite |->
       IF invite[i] # Null /\ invite[i].used = Null /\ Expired(i)
       THEN Null ELSE invite[i]]
  /\ UNCHANGED <<peers, known, call, joined, claims>>

(* A user of peer p accepts: the federation may be known there already, and *)
(* the introducer is called.                                                *)
Accept(c) ==
  /\ call[c].at = "idle"
  /\ \E p \in Peer, i \in Invite :
       /\ invite[i] # Null  \* the token was made
       /\ call' = [call EXCEPT ![c] =
            [at |-> "asked", peer |-> p, invite |-> i, had |-> p \in known]]
  /\ UNCHANGED <<invite, peers, known, joined, claims>>

(* Mutant: the invite is claimed without a look at used_at. *)
Unexpired(i) == invite[i] # Null /\ now < 2 * invite[i].exp

(* The row an update ... WHERE used_at IS NULL AND expires_at > NOW() finds. *)
Usable(i) == invite[i] # Null /\ invite[i].used = Null /\ now < 2 * invite[i].exp

(* POST /federation/pair: the token's own expiry is one of whole seconds.   *)
MarkInviteUsed(c) ==
  /\ call[c].at = "asked"
  /\ LET i == call[c].invite IN
     IF Usable(i)
     THEN /\ invite' = [invite EXCEPT ![i].used = call[c].peer]
          /\ claims' = claims \cup {<<i, c>>}
          /\ call' = [call EXCEPT ![c].at = "claimed"]
     ELSE call' = [call EXCEPT ![c].at = "done"] /\ UNCHANGED <<invite, claims>>
  /\ UNCHANGED <<peers, known, joined>>

(* The peer's row is found and updated, or inserted; an insert may meet     *)
(* that of a concurrent pairing of the same peer, and the call fails with   *)
(* the invite spent.                                                        *)
AddMember(c) ==
  /\ call[c].at = "claimed"
  /\ peers' = peers \cup {call[c].peer}
  /\ \/ call' = [call EXCEPT ![c].at = "answered"]
     \/ call' = [call EXCEPT ![c].at = "done"]  \* a conflict, or a lost answer
  /\ UNCHANGED <<invite, known, joined, claims>>

(* The joiner stores the federation, unless it has it, and its member rows. *)
(* The slug is unique: a concurrent accept may have stored it first.        *)
StoreFederation(c) ==
  /\ call[c].at = "answered"
  /\ LET p == call[c].peer IN
     IF ~call[c].had /\ p \in known
     THEN UNCHANGED <<known, joined>>
     ELSE known' = known \cup {p} /\ joined' = joined \cup {c}
  /\ call' = [call EXCEPT ![c].at = "done"]
  /\ UNCHANGED <<invite, peers, claims>>

----------------------------------------------------------------------------
(* peerFetch: the request carries the sender's clock, in seconds.           *)
PeerFetch(m) ==
  /\ sent[m] = Null
  /\ \E p \in Peer, ts \in (Second(now) - Skew) .. (Second(now) + Ahead) :
       sent' = [sent EXCEPT ![m] = [from |-> p, ts |-> ts]]
  /\ UNCHANGED <<nonce, arrival, handled>>

(* verifyPeerHeaders, knownPeer: any message may arrive, any number of times.*)
VerifyPeerHeaders(a) ==
  /\ arrival[a].at = "idle"
  /\ \E m \in Message :
       /\ sent[m] # Null
       /\ arrival' = [arrival EXCEPT ![a] =
            [at |-> IF /\ Second(now) - sent[m].ts \in -Skew .. Skew
                       /\ sent[m].from \in peers
                    THEN "checked" ELSE "done",
             msg |-> m, since |-> now]]
  /\ UNCHANGED <<sent, nonce, handled>>

(* First sight of a nonce wins.                                             *)
ClaimNonce(a) ==
  /\ arrival[a].at = "checked"
  /\ LET m == arrival[a].msg IN
     IF nonce[m] = Null
     THEN /\ nonce' = [nonce EXCEPT ![m] = now]
          /\ arrival' = [arrival EXCEPT ![a].at = "claimed"]
     ELSE /\ arrival' = [arrival EXCEPT ![a].at = "done"]
          /\ UNCHANGED nonce
  /\ UNCHANGED <<sent, handled>>

(* readCapped: the body may be too long, or not the one that was signed.    *)
ReadBody(a) ==
  /\ arrival[a].at = "claimed"
  /\ arrival' = [arrival EXCEPT ![a].at = "done"]
  /\ handled' \in {handled, handled \cup {a}}
  /\ UNCHANGED <<sent, nonce>>

(* Mutant: nonces are kept for one skew only. *)
OneSkew == Skew

(* NONCE_TTL_SECONDS.                                                       *)
NonceTTL == Skew * 2

Stale(m) == nonce[m] # Null /\ nonce[m] < now - 2 * NonceTTL

SweepFederationNonces ==
  /\ \E m \in Message : Stale(m)
  /\ nonce' = [m \in Message |-> IF Stale(m) THEN Null ELSE nonce[m]]
  /\ UNCHANGED <<sent, arrival, handled>>

----------------------------------------------------------------------------
Pairing ==
  \/ SweepExpiredFederationInvites
  \/ \E i \in Invite : MintInvite(i) \/ RevokeInvite(i)
  \/ \E c \in Call : Accept(c) \/ MarkInviteUsed(c) \/ AddMember(c) \/ StoreFederation(c)

Requests ==
  \/ SweepFederationNonces
  \/ \E m \in Message : PeerFetch(m)
  \/ \E a \in Arrival : VerifyPeerHeaders(a) \/ ClaimNonce(a) \/ ReadBody(a)

Next ==
  \/ Tick
  \/ Pairing /\ UNCHANGED <<now, messages>>
  \/ Requests /\ UNCHANGED <<now, invites>>

Spec == Init /\ [][Next]_vars

----------------------------------------------------------------------------
(* A signed request is handled once, however often it is delivered, as long *)
(* as its sender's clock and the handler are not so far off that a nonce is *)
(* forgotten while its timestamp still passes (federation/transport.ts:23). *)
NonceOnce ==
  \A a, b \in handled : arrival[a].msg = arrival[b].msg => a = b

(* An invite pairs one peer, and a peer that believes it has joined is one  *)
(* whose requests this instance accepts (federation/invites.ts:117).        *)
InvitePairsOne ==
  /\ \A x, y \in claims : x[1] = y[1] => x = y
  /\ \A c \in joined : call[c].peer \in peers
=============================================================================
