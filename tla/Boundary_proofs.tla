-------------------------- MODULE Boundary_proofs --------------------------
(***************************************************************************)
(* The peers and what stands at the server's boundary, for any number of   *)
(* peers, messages, processes, requests, flows and calls.  Each part       *)
(* states a component's inductive invariant, that the first states meet    *)
(* it, that each action keeps it, and the theorems.                        *)
(***************************************************************************)
EXTENDS MCBoundary, TLAPS, SequenceTheorems

----------------------------------------------------------------------------
(* The peers: a signed request is handled once, for any number of peers,   *)
(* messages, deliveries and half seconds, as long as a peer's clock is     *)
(* ahead by less than the skew, less the time a check may take.            *)

(* What the code and its environment promise about the clocks.             *)
Clocks ==
  /\ Skew \in Nat /\ Ahead \in Nat /\ Stall \in Nat /\ Horizon \in Nat
  /\ 2 * Ahead + Stall < 2 * Skew

(* Two constants that TLC keeps apart by their kind.                       *)
Apart == Null \notin Time /\ Null \notin Message
         /\ Null \notin [from : Peer, ts : Int]

Point == {"idle", "checked", "claimed", "done"}

Typed ==
  /\ now \in Time
  /\ sent \in [Message -> [from : Peer, ts : Int] \cup {Null}]
  /\ nonce \in [Message -> Time \cup {Null}]
  /\ arrival \in [Arrival -> [at : Point, msg : Message \cup {Null}, since : Time]]
  /\ handled \subseteq Arrival

(* A delivery that has claimed the nonce of its message.                   *)
Claimed(a) == arrival[a].at = "claimed" \/ a \in handled

Named ==
  \A a \in Arrival : arrival[a].at = "checked" \/ Claimed(a) =>
    arrival[a].msg \in Message /\ sent[arrival[a].msg] # Null

HandledDone == \A a \in handled : arrival[a].at = "done"

(* A checked delivery claims before its message's timestamp is too old by  *)
(* more than the stall.                                                    *)
Timely ==
  \A a \in Arrival : arrival[a].at = "checked" =>
    /\ now <= arrival[a].since + Stall
    /\ arrival[a].since <= 2 * (sent[arrival[a].msg].ts + Skew) + 1

SentInReach ==
  \A m \in Message : sent[m] # Null => 2 * (sent[m].ts - Ahead) <= now

(* The nonce of a claimed message is there, first seen no earlier than its *)
(* timestamp allows; or it was forgotten when no delivery of it can pass.  *)
Remembered ==
  \A a \in Arrival : Claimed(a) =>
    LET m == arrival[a].msg IN
      IF nonce[m] = Null
      THEN now > 2 * (sent[m].ts + Skew) + 1 + Stall
      ELSE nonce[m] >= 2 * (sent[m].ts - Ahead)

ClaimedOnce ==
  \A a, b \in Arrival :
    Claimed(a) /\ Claimed(b) /\ arrival[a].msg = arrival[b].msg => a = b

NonceInv ==
  /\ Typed /\ Named /\ HandledDone /\ Timely
  /\ SentInReach /\ Remembered /\ ClaimedOnce

---------------------------------------------------------------------------
(* A moment is in the second it rounds down to.                            *)
LEMMA SecondBounds ==
  ASSUME NEW t \in Int
  PROVE  Second(t) \in Int /\ 2 * Second(t) <= t /\ t <= 2 * Second(t) + 1
BY DEF Second

(* At the start no nonce is kept and no message seen.                       *)
LEMMA InitNonce == Clocks /\ Apart /\ Init => NonceInv
<1> SUFFICES ASSUME Clocks, Apart, Init PROVE NonceInv
  OBVIOUS
<1> USE DEF Init, Clocks
<1>1. Typed
  BY DEF Typed, Unarrived, Point, Time
<1>2. \A a \in Arrival : ~Claimed(a) /\ arrival[a].at # "checked"
  BY DEF Claimed, Unarrived
<1>3. \A m \in Message : sent[m] = Null
  OBVIOUS
<1> QED BY <1>1, <1>2, <1>3
  DEF NonceInv, Named, HandledDone, Timely, SentInReach, Remembered, ClaimedOnce

(* Steps that leave the messages alone, and time's.                        *)
LEMMA TickNonce == Clocks /\ Apart /\ NonceInv /\ Tick => NonceInv'
<1> SUFFICES ASSUME Clocks, Apart, NonceInv, Tick PROVE NonceInv'
  OBVIOUS
<1> USE DEF Tick, Clocks, messages, invites, NonceInv
<1>1. Typed'
  BY DEF Typed, Time
<1>2. \A a \in Arrival : Claimed(a)' <=> Claimed(a)
  BY DEF Claimed
<1>3. Named' /\ HandledDone' /\ ClaimedOnce'
  BY <1>2 DEF Named, HandledDone, ClaimedOnce, Claimed
<1>4. Timely'
  BY DEF Timely, Typed, Time
<1>5. SentInReach'
  <2> SUFFICES ASSUME NEW m \in Message, sent[m] # Null
               PROVE  2 * (sent[m].ts - Ahead) <= now + 1
    BY DEF SentInReach
  <2>1. sent[m].ts \in Int /\ now \in Int
    BY DEF Typed, Time
  <2>2. 2 * (sent[m].ts - Ahead) <= now
    BY DEF SentInReach
  <2> QED BY <2>1, <2>2
<1>6. Remembered'
  <2> SUFFICES ASSUME NEW a \in Arrival, Claimed(a), nonce[arrival[a].msg] = Null
               PROVE  now + 1 > 2 * (sent[arrival[a].msg].ts + Skew) + 1 + Stall
    BY <1>2 DEF Remembered
  <2> DEFINE m == arrival[a].msg
  <2>1. sent[m].ts \in Int /\ now \in Int
    BY DEF Typed, Time, Named
  <2>2. now > 2 * (sent[m].ts + Skew) + 1 + Stall
    BY DEF Remembered
  <2> QED BY <2>1, <2>2
<1> QED BY <1>1, <1>3, <1>4, <1>5, <1>6

(* A peer signs a new request: no arrival of it has claimed a nonce.         *)
LEMMA FetchNonce ==
  ASSUME Clocks, Apart, NonceInv, UNCHANGED now, NEW m \in Message, PeerFetch(m)
  PROVE  NonceInv'
<1> USE DEF PeerFetch, Clocks, NonceInv
<1>1. PICK p \in Peer, ts \in (Second(now) - Skew) .. (Second(now) + Ahead) :
        sent' = [sent EXCEPT ![m] = [from |-> p, ts |-> ts]]
  OBVIOUS
<1>2. now \in Int /\ Second(now) \in Int /\ 2 * Second(now) <= now
  BY SecondBounds DEF Typed, Time
<1>3. ts \in Int /\ 2 * (ts - Ahead) <= now
  BY <1>2
<1>4. Typed'
  BY <1>1, <1>3 DEF Typed
<1>5. \A x \in Message : sent[x] # Null => sent'[x] = sent[x]
  BY <1>1 DEF Typed
<1>6. \A a \in Arrival : Claimed(a)' <=> Claimed(a)
  BY DEF Claimed
<1>7. Named'
  BY <1>5, <1>6 DEF Named
<1>8. HandledDone' /\ ClaimedOnce'
  BY <1>6 DEF HandledDone, ClaimedOnce
<1>9. Timely'
  BY <1>5 DEF Timely, Named
<1>10. SentInReach'
  BY <1>1, <1>3 DEF SentInReach, Typed
<1>11. Remembered'
  BY <1>5, <1>6 DEF Remembered, Named
<1> QED BY <1>4, <1>7, <1>8, <1>9, <1>10, <1>11

(* A message that passes is new, and its nonce is kept from then on.        *)
LEMMA VerifyNonce ==
  ASSUME Clocks, Apart, NonceInv, UNCHANGED now,
         NEW a \in Arrival, VerifyPeerHeaders(a)
  PROVE  NonceInv'
<1> USE DEF VerifyPeerHeaders, Clocks, NonceInv
<1>1. PICK m \in Message :
        /\ sent[m] # Null
        /\ arrival' = [arrival EXCEPT ![a] =
             [at |-> IF /\ Second(now) - sent[m].ts \in -Skew .. Skew
                        /\ sent[m].from \in peers
                     THEN "checked" ELSE "done",
              msg |-> m, since |-> now]]
  OBVIOUS
<1>2. Typed'
  BY <1>1 DEF Typed, Point
<1>3. ~Claimed(a) /\ ~Claimed(a)'
  BY <1>1, <1>2 DEF Claimed, HandledDone, Typed
<1>4. \A b \in Arrival : b # a => arrival'[b] = arrival[b]
  BY <1>1 DEF Typed
<1>5. \A b \in Arrival : Claimed(b)' => b # a /\ Claimed(b)
  BY <1>3, <1>4 DEF Claimed
<1>6. arrival'[a].msg = m /\ arrival'[a].since = now
  BY <1>1 DEF Typed
<1>7. Named'
  BY <1>1, <1>4, <1>5, <1>6 DEF Named
<1>8. HandledDone' /\ ClaimedOnce'
  BY <1>3, <1>4, <1>5 DEF HandledDone, ClaimedOnce, Claimed
<1>9. Timely'
  <2>1. CASE arrival'[a].at = "checked"
    <3>1. Second(now) - sent[m].ts \in -Skew .. Skew
      BY <1>1, <2>1 DEF Typed
    <3>2. now \in Int /\ sent[m].ts \in Int
      BY <1>1 DEF Typed, Time
    <3>3. now <= 2 * Second(now) + 1 /\ Second(now) \in Int
      BY <3>2, SecondBounds
    <3>4. now <= 2 * (sent[m].ts + Skew) + 1 /\ now <= now + Stall
      BY <3>1, <3>2, <3>3
    <3> QED BY <3>4, <1>4, <1>6 DEF Timely
  <2>2. CASE arrival'[a].at # "checked"
    BY <2>2, <1>4 DEF Timely
  <2> QED BY <2>1, <2>2
<1>10. SentInReach' /\ Remembered'
  BY <1>4, <1>5 DEF SentInReach, Remembered
<1> QED BY <1>2, <1>7, <1>8, <1>9, <1>10

(* The heart of it: a nonce that is missing was never claimed, or was      *)
(* forgotten too late for this delivery to have been checked.              *)
LEMMA ClaimNonceStep ==
  ASSUME Clocks, Apart, NonceInv, UNCHANGED now, NEW a \in Arrival, ClaimNonce(a)
  PROVE  NonceInv'
<1> USE DEF Clocks, NonceInv
<1> DEFINE m == arrival[a].msg
<1>0. arrival[a].at = "checked" /\ UNCHANGED <<sent, handled>>
  BY DEF ClaimNonce
<1>1. m \in Message /\ sent[m] # Null /\ a \notin handled
  BY <1>0 DEF Named, HandledDone
<1>2. now \in Int /\ sent[m].ts \in Int /\ arrival[a].since \in Int
  BY <1>1 DEF Typed, Time
<1>3. CASE nonce[m] = Null
  <2>0. /\ nonce' = [nonce EXCEPT ![m] = now]
        /\ arrival' = [arrival EXCEPT ![a].at = "claimed"]
    BY <1>3 DEF ClaimNonce
  <2>1. Typed'
    BY <2>0, <1>0 DEF Typed, Point
  <2>2. \A b \in Arrival : b # a => arrival'[b] = arrival[b]
    BY <2>0 DEF Typed
  <2>3. arrival'[a].msg = m /\ arrival'[a].at = "claimed"
    BY <2>0 DEF Typed
  <2>4. \A b \in Arrival : Claimed(b)' => b = a \/ Claimed(b)
    BY <2>2, <1>0 DEF Claimed
  <2>5. \A b \in Arrival : Claimed(b) => arrival[b].msg # m
    <3> SUFFICES ASSUME NEW b \in Arrival, Claimed(b), arrival[b].msg = m PROVE FALSE
      OBVIOUS
    <3>1. now > 2 * (sent[m].ts + Skew) + 1 + Stall
      BY <1>3 DEF Remembered
    <3>2. now <= arrival[a].since + Stall
          /\ arrival[a].since <= 2 * (sent[m].ts + Skew) + 1
      BY <1>0 DEF Timely
    <3> QED BY <3>1, <3>2, <1>2
  <2>6. Named' /\ HandledDone'
    BY <2>2, <2>3, <2>4, <1>0, <1>1 DEF Named, HandledDone, Typed
  <2>7. Timely' /\ SentInReach'
    BY <2>2, <2>3, <1>0 DEF Timely, SentInReach
  <2>8. nonce'[m] = now /\ now # Null /\ now >= 2 * (sent[m].ts - Ahead)
    BY <2>0, <1>1 DEF Typed, Apart, SentInReach
  <2>9. Remembered'
    BY <2>0, <2>2, <2>3, <2>4, <2>5, <2>8, <1>0, <1>1 DEF Remembered, Typed, Named
  <2>10. ClaimedOnce'
    BY <2>2, <2>3, <2>4, <2>5 DEF ClaimedOnce
  <2> QED BY <2>1, <2>6, <2>7, <2>9, <2>10
<1>4. CASE nonce[m] # Null
  <2>0. UNCHANGED nonce /\ arrival' = [arrival EXCEPT ![a].at = "done"]
    BY <1>4 DEF ClaimNonce
  <2>1. Typed'
    BY <2>0, <1>0 DEF Typed, Point
  <2>2. \A b \in Arrival : b # a => arrival'[b] = arrival[b]
    BY <2>0 DEF Typed
  <2>3. arrival'[a].at = "done"
    BY <2>0 DEF Typed
  <2>4. \A b \in Arrival : Claimed(b)' => b # a /\ Claimed(b)
    BY <2>2, <2>3, <1>0, <1>1 DEF Claimed
  <2>5. Named' /\ HandledDone'
    BY <2>2, <2>3, <2>4, <1>0, <1>1 DEF Named, HandledDone, Typed
  <2>7. Timely' /\ SentInReach'
    BY <2>2, <2>3, <1>0 DEF Timely, SentInReach
  <2>6. Remembered' /\ ClaimedOnce'
    BY <2>0, <2>2, <2>4, <1>0 DEF Remembered, ClaimedOnce
  <2> QED BY <2>1, <2>5, <2>6, <2>7
<1> QED BY <1>3, <1>4

(* Handing a request over needs nothing but that its nonce is kept.         *)
LEMMA ReadNonce ==
  ASSUME Clocks, Apart, NonceInv, UNCHANGED now, NEW a \in Arrival, ReadBody(a)
  PROVE  NonceInv'
<1> USE DEF ReadBody, Clocks, NonceInv
<1>1. Typed'
  BY DEF Typed, Point
<1>2. \A b \in Arrival : b # a => arrival'[b] = arrival[b]
  BY DEF Typed
<1>3. arrival'[a].at = "done" /\ arrival'[a].msg = arrival[a].msg /\ Claimed(a)
  BY DEF Typed, Claimed
<1>4. \A b \in Arrival : Claimed(b)' => Claimed(b)
  BY <1>2, <1>3 DEF Claimed
<1>5. \A b \in Arrival : arrival'[b].msg = arrival[b].msg
  BY <1>2, <1>3
<1>6. Named' /\ Timely' /\ SentInReach'
  BY <1>2, <1>3, <1>4, <1>5 DEF Named, Timely, SentInReach
<1>7. HandledDone'
  BY <1>2, <1>3 DEF HandledDone, Typed
<1>8. Remembered' /\ ClaimedOnce'
  BY <1>4, <1>5 DEF Remembered, ClaimedOnce
<1> QED BY <1>1, <1>6, <1>7, <1>8

(* A nonce is swept only when every copy of its message is too old to pass. *)
LEMMA SweepNonce ==
  ASSUME Clocks, Apart, NonceInv, UNCHANGED now, SweepFederationNonces
  PROVE  NonceInv'
<1> USE DEF SweepFederationNonces, Clocks, NonceInv
<1>1. Typed'
  BY DEF Typed
<1>2. \A b \in Arrival : Claimed(b)' <=> Claimed(b)
  BY DEF Claimed
<1>3. Named' /\ HandledDone' /\ Timely' /\ SentInReach' /\ ClaimedOnce'
  BY <1>2 DEF Named, HandledDone, Timely, SentInReach, ClaimedOnce
<1>4. Remembered'
  <2> SUFFICES ASSUME NEW a \in Arrival, Claimed(a)
               PROVE  LET m == arrival[a].msg IN
                        IF nonce'[m] = Null
                        THEN now > 2 * (sent[m].ts + Skew) + 1 + Stall
                        ELSE nonce'[m] >= 2 * (sent[m].ts - Ahead)
    BY <1>2 DEF Remembered
  <2> DEFINE m == arrival[a].msg
  <2>1. m \in Message /\ sent[m].ts \in Int /\ now \in Int
    BY DEF Named, Typed, Time
  <2>2. CASE Stale(m)
    <3>1. nonce[m] # Null /\ nonce[m] < now - 2 * (Skew * 2) /\ nonce[m] \in Int
      BY <2>1, <2>2 DEF Stale, NonceTTL, Typed, Time
    <3>2. nonce[m] >= 2 * (sent[m].ts - Ahead)
      BY <3>1 DEF Remembered
    <3>3. now > 2 * (sent[m].ts + Skew) + 1 + Stall
      BY <3>1, <3>2, <2>1
    <3>4. nonce'[m] = Null
      BY <2>1, <2>2
    <3> QED BY <3>3, <3>4
  <2>3. CASE ~Stale(m)
    <3>1. nonce'[m] = nonce[m]
      BY <2>1, <2>3
    <3> QED BY <3>1 DEF Remembered
  <2> QED BY <2>2, <2>3
<1> QED BY <1>1, <1>3, <1>4

(* A step that leaves the clocks and the messages alone keeps the           *)
(* invariant.                                                               *)
LEMMA StillNonce == NonceInv /\ UNCHANGED <<now, messages>> => NonceInv'
<1> SUFFICES ASSUME NonceInv, UNCHANGED <<now, messages>> PROVE NonceInv'
  OBVIOUS
<1> QED BY DEF NonceInv, messages, Typed, Named, HandledDone, Timely, SentInReach,
     Remembered, ClaimedOnce, Claimed

(* Every step keeps it.                                                     *)
LEMMA NextNonce == Clocks /\ Apart /\ NonceInv /\ [Next]_vars => NonceInv'
<1> SUFFICES ASSUME Clocks, Apart, NonceInv, [Next]_vars PROVE NonceInv'
  OBVIOUS
<1>1. CASE Tick
  BY <1>1, TickNonce
<1>2. CASE Pairing /\ UNCHANGED <<now, messages>>
  BY <1>2, StillNonce
<1>3. CASE Requests /\ UNCHANGED <<now, invites>>
  <2>1. ASSUME NEW m \in Message, PeerFetch(m) PROVE NonceInv'
    BY <1>3, <2>1, FetchNonce
  <2>2. ASSUME NEW a \in Arrival, VerifyPeerHeaders(a) PROVE NonceInv'
    BY <1>3, <2>2, VerifyNonce
  <2>3. ASSUME NEW a \in Arrival, ClaimNonce(a) PROVE NonceInv'
    BY <1>3, <2>3, ClaimNonceStep
  <2>4. ASSUME NEW a \in Arrival, ReadBody(a) PROVE NonceInv'
    BY <1>3, <2>4, ReadNonce
  <2>5. CASE SweepFederationNonces
    BY <1>3, <2>5, SweepNonce
  <2> QED BY <1>3, <2>1, <2>2, <2>3, <2>4, <2>5 DEF Requests
<1>4. CASE UNCHANGED vars
  BY <1>4, StillNonce DEF vars
<1> QED BY <1>1, <1>2, <1>3, <1>4 DEF Next

(* A signed request is handled once, however often it is delivered, while  *)
(* the clocks keep their promise (federation/transport.ts:23).             *)
THEOREM RequestsHandledOnce ==
  ASSUME Clocks, Apart
  PROVE  Spec => []NonceOnce
<1>1. Init => NonceInv
  BY InitNonce
<1>2. NonceInv /\ [Next]_vars => NonceInv'
  BY NextNonce
<1>3. NonceInv => NonceOnce
  BY DEF NonceInv, ClaimedOnce, NonceOnce, Claimed, Typed
<1> QED BY <1>1, <1>2, <1>3, PTL DEF Spec

---------------------------------------------------------------------------
(* The invites: one that was claimed is used up or gone, and an accept that *)
(* was answered is one whose peer is known here.                            *)
InviteRow == [exp : Int, used : Peer \cup {Null}]

(* Two more constants that TLC keeps apart by their kind.                  *)
RowsApart == Null \notin Peer /\ Null \notin InviteRow

CallState == [at : CallPoint, peer : Peer \cup {Null}, invite : Invite \cup {Null}, had : BOOLEAN]

AcceptTyped ==
  /\ now \in Int
  /\ invite \in [Invite -> InviteRow \cup {Null}]
  /\ call \in [Call -> CallState]
  /\ claims \in SUBSET (Invite \X Call)
  /\ joined \in SUBSET Call

SpentOrGone(i) == invite[i] = Null \/ invite[i].used # Null

Heard(c) ==
  /\ call[c].at \in {"asked", "claimed", "answered"} => call[c].peer \in Peer
  /\ call[c].at = "asked" => call[c].invite \in Invite
  /\ call[c].at = "answered" => call[c].peer \in peers
  /\ c \in joined => call[c].at = "done" /\ call[c].peer \in peers

AcceptInv ==
  /\ AcceptTyped
  /\ \A x \in claims : SpentOrGone(x[1])
  /\ \A x, y \in claims : x[1] = y[1] => x = y
  /\ \A c \in Call : Heard(c)

(* Nobody has accepted yet.                                                *)
LEMMA AcceptInit == Init => AcceptInv
<1> SUFFICES ASSUME Init PROVE AcceptInv
  OBVIOUS
<1> USE DEF Init
<1>1. AcceptTyped
  BY DEF AcceptTyped, Uncalled, CallPoint, CallState, InviteRow
<1>2. \A c \in Call : Heard(c)
  BY DEF Heard, Uncalled
<1>. QED  BY <1>1, <1>2 DEF AcceptInv

(* An invite is claimed only while nobody has used it, and never made      *)
(* again; a peer that was paired is not forgotten.                         *)
LEMMA AcceptStep == RowsApart /\ AcceptInv /\ [Next]_vars => AcceptInv'
<1> SUFFICES ASSUME RowsApart, AcceptInv, [Next]_vars
             PROVE  AcceptInv'
  OBVIOUS
<1>t. /\ now \in Int /\ invite \in [Invite -> InviteRow \cup {Null}]
      /\ call \in [Call -> CallState]
      /\ claims \in SUBSET (Invite \X Call) /\ joined \in SUBSET Call
      /\ \A x \in claims : SpentOrGone(x[1])
      /\ \A x, y \in claims : x[1] = y[1] => x = y
      /\ \A c \in Call : Heard(c)
  BY DEF AcceptInv, AcceptTyped
<1>1. CASE UNCHANGED invites /\ now' \in Int
  BY <1>1 DEF invites, AcceptInv, AcceptTyped, SpentOrGone, Heard
(* Only the invites change, and none that is spent or gone.                *)
<1>2. ASSUME UNCHANGED <<peers, known, call, joined, claims, now>>,
             invite' \in [Invite -> InviteRow \cup {Null}],
             \A x \in claims : invite'[x[1]] \in {Null, invite[x[1]]}
      PROVE  AcceptInv'
  <2>1. AcceptTyped'
    BY <1>t, <1>2 DEF AcceptTyped
  <2>2. \A x \in claims' : SpentOrGone(x[1])'
    BY <1>t, <1>2 DEF SpentOrGone
  <2>3. \A c \in Call : Heard(c)'
    BY <1>t, <1>2 DEF Heard
  <2>. QED  BY <1>t, <1>2, <2>1, <2>2, <2>3 DEF AcceptInv
(* Only an accept goes on.                                                 *)
<1>3. ASSUME NEW c \in Call, NEW w \in CallState, call' = [call EXCEPT ![c] = w],
             UNCHANGED <<invite, claims, now>>, peers \subseteq peers',
             joined' \in {joined, joined \cup {c}}, Heard(c)'
      PROVE  AcceptInv'
  <2>1. call' \in [Call -> CallState] /\ \A d \in Call : d # c => call'[d] = call[d]
    BY <1>t, <1>3
  <2>2. AcceptTyped'
    BY <1>t, <1>3, <2>1 DEF AcceptTyped
  <2>3. \A x \in claims' : SpentOrGone(x[1])'
    BY <1>t, <1>3 DEF SpentOrGone
  <2>4. \A d \in Call : Heard(d)'
    <3> SUFFICES ASSUME NEW d \in Call, d # c PROVE Heard(d)'
      BY <1>3
    <3>. QED  BY <1>t, <1>3, <2>1 DEF Heard
  <2>. QED  BY <1>t, <1>3, <2>2, <2>3, <2>4 DEF AcceptInv
<1>4. CASE Tick
  <2>1. UNCHANGED invites /\ now' \in Int
    BY <1>t, <1>4 DEF Tick
  <2>. QED  BY <1>1, <2>1
<1>5. ASSUME NEW i \in Invite, MintInvite(i), now' = now
      PROVE  AcceptInv'
  <2> DEFINE n == [exp |-> Second(now) + 1, used |-> Null]
  <2>1. n \in InviteRow
    BY <1>t, SecondBounds DEF InviteRow
  <2>2. /\ invite' = [invite EXCEPT ![i] = n] /\ \A x \in claims : x[1] # i
        /\ UNCHANGED <<peers, known, call, joined, claims>>
    BY <1>5 DEF MintInvite
  <2> HIDE DEF n
  <2>3. /\ invite' \in [Invite -> InviteRow \cup {Null}]
        /\ \A x \in claims : invite'[x[1]] = invite[x[1]]
    BY <1>t, <2>1, <2>2
  <2>. QED  BY <1>2, <1>5, <2>2, <2>3
<1>6. ASSUME NEW i \in Invite, RevokeInvite(i), now' = now
      PROVE  AcceptInv'
  <2>1. /\ invite' \in [Invite -> InviteRow \cup {Null}]
        /\ \A x \in claims : invite'[x[1]] \in {Null, invite[x[1]]}
    BY <1>t, <1>6 DEF RevokeInvite
  <2>. QED  BY <1>2, <1>6, <2>1 DEF RevokeInvite
<1>7. ASSUME SweepExpiredFederationInvites, now' = now
      PROVE  AcceptInv'
  <2>1. /\ invite' \in [Invite -> InviteRow \cup {Null}]
        /\ \A x \in claims : invite'[x[1]] \in {Null, invite[x[1]]}
    BY <1>t, <1>7 DEF SweepExpiredFederationInvites
  <2>. QED  BY <1>2, <1>7, <2>1 DEF SweepExpiredFederationInvites
<1>8. ASSUME NEW c \in Call, Accept(c), now' = now
      PROVE  AcceptInv'
  <2>1. PICK p \in Peer, i \in Invite :
          call' = [call EXCEPT ![c] = [at |-> "asked", peer |-> p, invite |-> i, had |-> p \in known]]
    BY <1>8 DEF Accept
  <2> DEFINE w == [at |-> "asked", peer |-> p, invite |-> i, had |-> p \in known]
  <2>2. w \in CallState /\ w.at = "asked" /\ w.peer = p /\ w.invite = i
    BY DEF CallState, CallPoint
  <2>3. call' = [call EXCEPT ![c] = w] /\ call[c].at = "idle"
        /\ UNCHANGED <<invite, peers, known, joined, claims>>
    BY <1>8, <2>1 DEF Accept
  <2> HIDE DEF w
  <2>4. Heard(c)'
    BY <1>t, <2>2, <2>3 DEF Heard
  <2>. QED  BY <1>3, <1>8, <2>2, <2>3, <2>4
<1>9. ASSUME NEW c \in Call, MarkInviteUsed(c), now' = now
      PROVE  AcceptInv'
  <2>1. PICK i, p, v : i = call[c].invite /\ p = call[c].peer /\ v = call[c]
    OBVIOUS
  <2>2. /\ v \in CallState /\ v.at = "asked" /\ i \in Invite /\ p \in Peer /\ v.peer = p
        /\ c \notin joined
    BY <1>t, <1>9, <2>1 DEF MarkInviteUsed, Heard
  <2>3. CASE ~Usable(i)
    <3> DEFINE w == [v EXCEPT !.at = "done"]
    <3>1. w \in CallState /\ w.at = "done"
      BY <2>2 DEF CallState, CallPoint
    <3>2. call' = [call EXCEPT ![c] = w] /\ UNCHANGED <<invite, claims, peers, known, joined>>
      BY <1>9, <2>1, <2>3 DEF MarkInviteUsed
    <3> HIDE DEF w
    <3>3. Heard(c)'
      BY <1>t, <2>2, <3>1, <3>2 DEF Heard
    <3>. QED  BY <1>3, <1>9, <3>1, <3>2, <3>3
  <2>4. CASE Usable(i)
    <3> DEFINE w == [v EXCEPT !.at = "claimed"]
    <3>1. w \in CallState /\ w.at = "claimed" /\ w.peer = p
      BY <2>2 DEF CallState, CallPoint
    <3>2. /\ call' = [call EXCEPT ![c] = w] /\ UNCHANGED <<peers, known, joined>>
          /\ invite' = [invite EXCEPT ![i].used = p]
          /\ claims' = claims \cup {<<i, c>>}
      BY <1>9, <2>1, <2>4 DEF MarkInviteUsed
    <3> HIDE DEF w
    <3>3. PICK u \in InviteRow : u = invite[i] /\ u.used = Null
      BY <1>t, <2>2, <2>4 DEF Usable
    <3> DEFINE n == [u EXCEPT !.used = p]
    <3>4. n \in InviteRow /\ n.used = p
      BY <2>2 DEF InviteRow
    <3>5. invite' = [invite EXCEPT ![i] = n]
      BY <3>2, <3>3
    <3> HIDE DEF n
    <3>6. /\ invite' \in [Invite -> InviteRow \cup {Null}] /\ invite'[i] = n
          /\ \A j \in Invite : j # i => invite'[j] = invite[j]
      BY <1>t, <2>2, <3>4, <3>5
    <3>7. call' \in [Call -> CallState] /\ call'[c] = w /\ \A d \in Call : d # c => call'[d] = call[d]
      BY <1>t, <3>1, <3>2
    <3>8. AcceptTyped'
      BY <1>t, <1>9, <2>2, <3>2, <3>6, <3>7 DEF AcceptTyped
    <3>9. \A x \in claims : x[1] # i
      BY <1>t, <3>3, RowsApart DEF SpentOrGone, RowsApart
    <3>10. \A x \in claims' : SpentOrGone(x[1])'
      BY <1>t, <2>2, <3>2, <3>4, <3>6, RowsApart DEF SpentOrGone, RowsApart
    <3>11. \A x, y \in claims' : x[1] = y[1] => x = y
      BY <1>t, <3>2, <3>9
    <3>12. \A d \in Call : Heard(d)'
      BY <1>t, <2>2, <3>1, <3>2, <3>7 DEF Heard
    <3>. QED  BY <3>8, <3>10, <3>11, <3>12 DEF AcceptInv
  <2>. QED  BY <2>3, <2>4
<1>10. ASSUME NEW c \in Call, AddMember(c), now' = now
       PROVE  AcceptInv'
  <2>1. PICK then \in {"answered", "done"} : call' = [call EXCEPT ![c].at = then]
    BY <1>10 DEF AddMember
  <2>2. PICK v \in CallState : v = call[c]
    BY <1>t
  <2> DEFINE w == [v EXCEPT !.at = then]
  <2>3. w \in CallState /\ w.at = then /\ w.peer = v.peer
    BY DEF CallState, CallPoint
  <2>4. /\ call' = [call EXCEPT ![c] = w] /\ UNCHANGED <<invite, known, joined, claims>>
        /\ peers' = peers \cup {v.peer} /\ v.at = "claimed"
    BY <1>10, <2>1, <2>2 DEF AddMember
  <2> HIDE DEF w
  <2>5. Heard(c)'
    BY <1>t, <2>2, <2>3, <2>4 DEF Heard
  <2>. QED  BY <1>3, <1>10, <2>3, <2>4, <2>5
<1>11. ASSUME NEW c \in Call, StoreFederation(c), now' = now
       PROVE  AcceptInv'
  <2>2. PICK v \in CallState : v = call[c]
    BY <1>t
  <2> DEFINE w == [v EXCEPT !.at = "done"]
  <2>3. w \in CallState /\ w.at = "done" /\ w.peer = v.peer
    BY DEF CallState, CallPoint
  <2>4. /\ call' = [call EXCEPT ![c] = w] /\ UNCHANGED <<invite, peers, claims>>
        /\ joined' \in {joined, joined \cup {c}} /\ v.at = "answered"
    BY <1>11, <2>2 DEF StoreFederation
  <2> HIDE DEF w
  <2>5. Heard(c)'
    BY <1>t, <2>2, <2>3, <2>4 DEF Heard
  <2>. QED  BY <1>3, <1>11, <2>3, <2>4, <2>5
<1>12. CASE Requests /\ UNCHANGED <<now, invites>>
  BY <1>1, <1>t, <1>12
<1>13. CASE UNCHANGED vars
  BY <1>1, <1>t, <1>13 DEF vars
<1>14. CASE Pairing /\ UNCHANGED <<now, messages>>
  BY <1>5, <1>6, <1>7, <1>8, <1>9, <1>10, <1>11, <1>14 DEF Pairing
<1>. QED  BY <1>4, <1>12, <1>13, <1>14 DEF Next

(* However invites are made, revoked, swept and raced for, and answers     *)
(* lost: an invite pairs one, and who joined is known.                     *)
THEOREM OneInviteOnePeer ==
  ASSUME RowsApart
  PROVE  Spec => []InvitePairsOne
<1>1. Init => AcceptInv
  BY AcceptInit
<1>2. AcceptInv /\ [Next]_vars => AcceptInv'
  BY AcceptStep
<1>3. AcceptInv => InvitePairsOne
  BY DEF AcceptInv, AcceptTyped, Heard, InvitePairsOne
<1>. QED  BY <1>1, <1>2, <1>3, PTL DEF Spec

----------------------------------------------------------------------------
(* The server: a process past its migrations has them in the database, one  *)
(* with requests has its pool, and a job is running or not.                 *)
OneRun == [running |-> TRUE, runs |-> 1]
Runs(p) ==
  /\ process[p].at \in {"connect", "up", "stopping", "closing"} => schema >= Versions[p]
  /\ process[p].at \in {"migrate", "connect", "up", "stopping"} => process[p].pool
  /\ \A s \in Sweep : sweep[p][s] \in {S!Still, OneRun}
Served(r) ==
  /\ request[r].at \in {"resolve", "handle"} =>
       request[r].in \in Process /\ process[request[r].in].at \in {"up", "stopping"}
  /\ request[r].counted = IF request[r].at = "answered" THEN 1 ELSE 0
ServerInv ==
  /\ S!TypeOK
  /\ \A p \in Process : Runs(p)
  /\ \A r \in Request : Served(r)
  /\ ~dropped

(* At the start no process runs and nothing was answered.                   *)
LEMMA ServerInit == S!Init => ServerInv
<1> SUFFICES ASSUME S!Init PROVE ServerInv
  OBVIOUS
<1> USE DEF S!Init, S!Still
<1>1. S!TypeOK
  <2>1. process \in [Process -> [at : S!Phase, pool : BOOLEAN]]
    BY DEF S!Phase
  <2>2. [s \in Sweep |-> S!Still] \in [Sweep -> S!Guard]
    BY DEF S!Guard
  <2>3. request \in [Request -> S!RequestState]
    BY DEF S!RequestState
  <2>. QED  BY <2>1, <2>2, <2>3 DEF S!TypeOK
<1>2. (\A p \in Process : Runs(p)) /\ \A r \in Request : Served(r)
  BY DEF Runs, Served
<1>. QED  BY <1>1, <1>2 DEF ServerInv

(* No step of a start, a request, a sweep or a shutdown drops a request.    *)
LEMMA ServerStep == ServerInv /\ [S!Next]_server => ServerInv'
<1> SUFFICES ASSUME ServerInv, [S!Next]_server
             PROVE  ServerInv'
  OBVIOUS
<1> DEFINE Proc == [at : S!Phase, pool : BOOLEAN]
<1> USE DEF S!At
<1>v. Versions \in [Process -> {1, 2}]
  BY DEF Versions
<1>t. /\ S!TypeOK /\ schema \in Nat /\ process \in [Process -> Proc]
      /\ sweep \in [Process -> [Sweep -> S!Guard]]
      /\ request \in [Request -> S!RequestState] /\ ~dropped
      /\ \A p \in Process : Runs(p)
      /\ \A r \in Request : Served(r)
  BY DEF ServerInv, S!TypeOK
<1>1. CASE UNCHANGED server
  BY <1>t, <1>1 DEF server, ServerInv, S!TypeOK, Runs, Served
(* A process that answers requests before and after goes on.                *)
<1>2. ASSUME NEW p \in Process, NEW v \in Proc, process' = [process EXCEPT ![p] = v],
             schema' \in Nat, schema' >= schema, UNCHANGED <<sweep, request, dropped>>,
             v.at \in {"connect", "up", "stopping", "closing"} => schema' >= Versions[p],
             v.at \in {"migrate", "connect", "up", "stopping"} => v.pool,
             v.at \in {"up", "stopping"} \/ S!Active(p) = {}
      PROVE  ServerInv'
  <2>1. /\ process' \in [Process -> Proc] /\ process'[p] = v
        /\ \A q \in Process : q # p => process'[q] = process[q]
    BY <1>t, <1>2
  <2>2. S!TypeOK'
    BY <1>t, <1>2, <2>1 DEF S!TypeOK
  <2>3. ASSUME NEW q \in Process PROVE Runs(q)'
    BY <1>t, <1>v, <1>2, <2>1 DEF Runs
  <2>4. ASSUME NEW r \in Request PROVE Served(r)'
    BY <1>t, <1>2, <2>1 DEF Served, S!Active
  <2>. QED  BY <1>t, <1>2, <2>2, <2>3, <2>4 DEF ServerInv
<1>3. ASSUME NEW p \in Process, S!End(p), schema' = schema, dropped' = dropped
      PROVE  ServerInv'
  <2> DEFINE off == [at |-> "off", pool |-> FALSE]
             still == [s \in Sweep |-> S!Still]
  <2>1. off \in Proc /\ off.at = "off" /\ still \in [Sweep -> S!Guard] /\ \A s \in Sweep : still[s] = S!Still
    BY DEF S!Phase, S!Guard, S!Still
  <2>2. /\ process' = [process EXCEPT ![p] = off] /\ sweep' = [sweep EXCEPT ![p] = still]
        /\ request' = [r \in Request |-> IF r \in S!Active(p) THEN [request[r] EXCEPT !.at = "lost"] ELSE request[r]]
    BY <1>3 DEF S!End
  <2> HIDE DEF off, still
  <2>3. /\ process' \in [Process -> Proc] /\ process'[p] = off
        /\ \A q \in Process : q # p => process'[q] = process[q]
        /\ sweep' \in [Process -> [Sweep -> S!Guard]] /\ sweep'[p] = still
        /\ \A q \in Process : q # p => sweep'[q] = sweep[q]
    BY <1>t, <2>1, <2>2
  <2>4. ASSUME NEW r \in Request
        PROVE  request'[r] \in S!RequestState /\ Served(r)'
    <3>1. PICK w \in S!RequestState : w = request[r]
      BY <1>t
    <3>2. CASE r \in S!Active(p)
      <4> DEFINE u == [w EXCEPT !.at = "lost"]
      <4>1. u \in S!RequestState /\ u.at = "lost" /\ u.counted = w.counted
        BY <3>1 DEF S!RequestState
      <4>2. request'[r] = u
        BY <2>2, <3>1, <3>2
      <4> HIDE DEF u
      <4>3. w.counted = 0
        BY <1>t, <3>1, <3>2 DEF Served, S!Active
      <4>. QED  BY <4>1, <4>2, <4>3 DEF Served
    <3>3. CASE r \notin S!Active(p)
      BY <1>t, <2>2, <2>3, <3>1, <3>3 DEF Served, S!Active
    <3>. QED  BY <3>2, <3>3
  <2>5. request' \in [Request -> S!RequestState]
    BY <2>2, <2>4
  <2>6. S!TypeOK'
    BY <1>t, <1>3, <2>3, <2>5 DEF S!TypeOK
  <2>7. ASSUME NEW q \in Process PROVE Runs(q)'
    BY <1>t, <1>3, <2>1, <2>3 DEF Runs
  <2>. QED  BY <1>t, <1>3, <2>4, <2>6, <2>7 DEF ServerInv
(* A job begins or ends.                                                    *)
<1>4. ASSUME NEW p \in Process, NEW s \in Sweep, NEW v \in {S!Still, OneRun},
             sweep' = [sweep EXCEPT ![p][s] = v], UNCHANGED <<schema, process, request, dropped>>
      PROVE  ServerInv'
  <2>1. v \in S!Guard
    <3>1. S!Still \in S!Guard
      BY DEF S!Guard, S!Still
    <3>2. OneRun \in S!Guard
      BY DEF S!Guard, OneRun
    <3>. QED  BY <3>1, <3>2
  <2>2. /\ sweep' \in [Process -> [Sweep -> S!Guard]]
        /\ \A q \in Process, x \in Sweep : sweep'[q][x] = IF q = p /\ x = s THEN v ELSE sweep[q][x]
    BY <1>t, <1>4, <2>1
  <2>3. S!TypeOK'
    BY <1>t, <1>4, <2>2 DEF S!TypeOK
  <2>4. ASSUME NEW q \in Process PROVE Runs(q)'
    BY <1>t, <1>4, <2>2 DEF Runs
  <2>5. ASSUME NEW r \in Request PROVE Served(r)'
    BY <1>t, <1>4 DEF Served
  <2>. QED  BY <1>t, <1>4, <2>3, <2>4, <2>5 DEF ServerInv
(* A request goes on.                                                       *)
<1>5. ASSUME NEW r \in Request, NEW w \in S!RequestState, request' = [request EXCEPT ![r] = w],
             UNCHANGED <<schema, process, sweep, dropped>>,
             w.at \in {"resolve", "handle"} =>
               w.in \in Process /\ process[w.in].at \in {"up", "stopping"},
             w.counted = IF w.at = "answered" THEN 1 ELSE 0
      PROVE  ServerInv'
  <2>1. /\ request' \in [Request -> S!RequestState] /\ request'[r] = w
        /\ \A q \in Request : q # r => request'[q] = request[q]
    BY <1>t, <1>5
  <2>2. S!TypeOK'
    BY <1>t, <1>5, <2>1 DEF S!TypeOK
  <2>3. ASSUME NEW q \in Process PROVE Runs(q)'
    BY <1>t, <1>5 DEF Runs
  <2>4. ASSUME NEW q \in Request PROVE Served(q)'
    BY <1>t, <1>5, <2>1 DEF Served
  <2>. QED  BY <1>t, <1>5, <2>2, <2>3, <2>4 DEF ServerInv
<1>6. ASSUME NEW p \in Process, S!RefuseToStart(p) \/ S!Die(p) \/ S!ForceExit(p)
      PROVE  ServerInv'
  BY <1>3, <1>6 DEF S!RefuseToStart, S!Die, S!ForceExit
<1>7. ASSUME NEW p \in Process, S!Connect(p)
      PROVE  ServerInv'
  <2> DEFINE v == [at |-> "migrate", pool |-> TRUE]
  <2>1. v \in Proc /\ v.at = "migrate" /\ v.pool
    BY DEF S!Phase
  <2>2. process' = [process EXCEPT ![p] = v] /\ UNCHANGED <<schema, sweep, request, dropped>>
    BY <1>7 DEF S!Connect
  <2> HIDE DEF v
  <2>3. S!Active(p) = {}
    BY <1>t, <1>7 DEF S!Connect, S!Active, Served
  <2>4. schema' \in Nat /\ schema' >= schema
    BY <1>t, <2>2
  <2>. QED  BY <1>2, <2>1, <2>2, <2>3, <2>4
<1>8. ASSUME NEW p \in Process, NEW st \in {"connect", "up", "stopping"},
             S!GoTo(p, st), UNCHANGED <<sweep, request, dropped>>,
             schema' \in Nat, schema' >= schema, schema' >= Versions[p], process[p].pool,
             st = "connect" => S!Active(p) = {}
      PROVE  ServerInv'
  <2>1. PICK u \in Proc : u = process[p]
    BY <1>t
  <2> DEFINE v == [u EXCEPT !.at = st]
  <2>2. v \in Proc /\ v.at = st /\ v.pool
    BY <1>8, <2>1 DEF S!Phase
  <2>3. process' = [process EXCEPT ![p] = v]
    BY <1>8, <2>1 DEF S!GoTo
  <2> HIDE DEF v
  <2>. QED  BY <1>2, <1>8, <2>2, <2>3
<1>9. ASSUME NEW p \in Process, S!MigrateUp(p)
      PROVE  ServerInv'
  <2>1. S!Active(p) = {} /\ process[p].pool
    BY <1>t, <1>9 DEF S!MigrateUp, S!Active, Served, Runs
  <2>2. schema' \in Nat /\ schema' >= schema /\ schema' >= Versions[p]
    BY <1>t, <1>v, <1>9 DEF S!MigrateUp
  <2>. QED  BY <1>8, <1>9, <2>1, <2>2 DEF S!MigrateUp
<1>10. ASSUME NEW p \in Process, S!Serve(p) \/ S!Signal(p)
       PROVE  ServerInv'
  <2>1. process[p].at \in {"connect", "up"} /\ UNCHANGED <<schema, sweep, request, dropped>>
        /\ \E st \in {"up", "stopping"} : S!GoTo(p, st)
    BY <1>10 DEF S!Serve, S!Ready, S!Signal
  <2>2. schema >= Versions[p] /\ process[p].pool /\ schema >= schema
    BY <1>t, <2>1 DEF Runs
  <2>. QED  BY <1>t, <1>8, <2>1, <2>2
<1>11. ASSUME NEW p \in Process, S!ClosePool(p)
       PROVE  ServerInv'
  <2> DEFINE v == [at |-> "closing", pool |-> FALSE]
  <2>1. v \in Proc /\ v.at = "closing"
    BY DEF S!Phase
  <2>2. /\ process' = [process EXCEPT ![p] = v] /\ UNCHANGED <<schema, sweep, request, dropped>>
        /\ process[p].at = "stopping" /\ S!Active(p) = {}
    BY <1>11 DEF S!ClosePool, S!Drained
  <2> HIDE DEF v
  <2>3. schema' \in Nat /\ schema' >= schema /\ schema' >= Versions[p]
    BY <1>t, <1>v, <2>2 DEF Runs
  <2>. QED  BY <1>2, <2>1, <2>2, <2>3
<1>12. ASSUME NEW p \in Process, S!Exit(p)
       PROVE  ServerInv'
  <2>1. S!Active(p) = {}
    BY <1>t, <1>12 DEF S!Exit, S!Active, Served
  <2>2. S!End(p) /\ schema' = schema /\ dropped' = dropped
    BY <1>t, <1>12, <2>1 DEF S!Exit, S!TypeOK
  <2>. QED  BY <1>3, <2>2
<1>13. ASSUME NEW p \in Process, NEW s \in Sweep, S!Timer(p, s)
       PROVE  ServerInv'
  <2>1. sweep[p][s] = S!Still
    BY <1>t, <1>13 DEF S!Timer, S!Rests, Runs, OneRun
  <2>2. sweep' = [sweep EXCEPT ![p][s] = OneRun]
    BY <1>13, <2>1 DEF S!Timer, OneRun, S!Still
  <2>. QED  BY <1>4, <1>13, <2>2 DEF S!Timer
<1>14. ASSUME NEW p \in Process, NEW s \in Sweep, S!SweepEnds(p, s)
       PROVE  ServerInv'
  <2>1. sweep[p][s] = OneRun
    BY <1>t, <1>14 DEF S!SweepEnds, Runs, S!Still
  <2>2. sweep' = [sweep EXCEPT ![p][s] = S!Still]
    BY <1>14, <2>1 DEF S!SweepEnds, OneRun, S!Still
  <2>. QED  BY <1>4, <1>14, <2>2 DEF S!SweepEnds
<1>15. ASSUME NEW r \in Request, NEW p \in Process, S!Accept(r, p)
       PROVE  ServerInv'
  <2>1. PICK u \in S!RequestState : u = request[r]
    BY <1>t
  <2>2. PICK st \in {"resolve", "handle"} : request' = [request EXCEPT ![r].at = st, ![r].in = p]
    BY <1>15 DEF S!Accept
  <2> DEFINE w == [u EXCEPT !.at = st, !.in = p]
  <2>3. w \in S!RequestState /\ w.at = st /\ w.in = p /\ w.counted = u.counted
    BY DEF S!RequestState
  <2>4. request' = [request EXCEPT ![r] = w] /\ UNCHANGED <<schema, process, sweep, dropped>>
        /\ process[p].at = "up" /\ u.at = "new"
    BY <1>t, <1>15, <2>1, <2>2 DEF S!Accept
  <2> HIDE DEF w
  <2>5. w.counted = 0
    BY <1>t, <2>1, <2>3, <2>4 DEF Served
  <2>. QED  BY <1>5, <2>3, <2>4, <2>5
<1>16. ASSUME NEW r \in Request, S!Answer(r), request[r].at \in {"resolve", "handle"},
              UNCHANGED <<schema, process, sweep, dropped>>
       PROVE  ServerInv'
  <2>1. PICK u \in S!RequestState : u = request[r]
    BY <1>t
  <2>2. u.counted = 0
    BY <1>t, <1>16, <2>1 DEF Served
  <2>n. PICK n \in 0..2 : n = 1 /\ n = u.counted + 1
    BY <2>2
  <2> DEFINE w == [u EXCEPT !.at = "answered", !.counted = n]
  <2>3. w \in S!RequestState /\ w.at = "answered" /\ w.counted = n
    BY DEF S!RequestState
  <2>4. request' = [request EXCEPT ![r] = w]
    BY <1>16, <2>1, <2>n DEF S!Answer
  <2> HIDE DEF w
  <2>. QED  BY <1>5, <1>16, <2>n, <2>3, <2>4
<1>17. ASSUME NEW r \in Request, S!Resolve(r)
       PROVE  ServerInv'
  <2>1. CASE request' = [request EXCEPT ![r].at = "handle"]
    <3>1. PICK u \in S!RequestState : u = request[r]
      BY <1>t
    <3> DEFINE w == [u EXCEPT !.at = "handle"]
    <3>2. w \in S!RequestState /\ w.at = "handle" /\ w.counted = u.counted /\ w.in = u.in
      BY DEF S!RequestState
    <3>3. request' = [request EXCEPT ![r] = w] /\ UNCHANGED <<schema, process, sweep, dropped>>
      BY <1>17, <2>1, <3>1 DEF S!Resolve
    <3> HIDE DEF w
    <3>4. w.counted = 0 /\ w.in \in Process /\ process[w.in].at \in {"up", "stopping"}
      BY <1>t, <1>17, <3>1, <3>2 DEF S!Resolve, Served
    <3>. QED  BY <1>5, <3>2, <3>3, <3>4
  <2>. QED  BY <1>16, <1>17, <2>1 DEF S!Resolve
<1>18. ASSUME NEW r \in Request, S!Handle(r)
       PROVE  ServerInv'
  BY <1>16, <1>18 DEF S!Handle
<1>. QED  BY <1>1, <1>6, <1>7, <1>9, <1>10, <1>11, <1>12, <1>13, <1>14, <1>15, <1>17, <1>18 DEF S!Next

(* Whatever processes start, migrate, are told to stop, killed or forced to *)
(* end: a request that is worked on is worked on whole.                     *)
THEOREM RequestsAreServedWhole == MCSpec => []ServedWhole
<1>1. MCInit => (focus = "server" => ServerInv)
  BY ServerInit DEF MCInit
<1>2. (focus = "server" => ServerInv) /\ [MCNext]_allVars => (focus = "server" => ServerInv)'
  <2> SUFFICES ASSUME focus = "server" => ServerInv, [MCNext]_allVars, focus' = "server"
               PROVE  ServerInv'
    OBVIOUS
  <2>1. focus = "server" /\ [S!Next]_server
    BY DEF MCNext, allVars
  <2>. QED  BY <2>1, ServerStep
<1>3. (focus = "server" => ServerInv) => ServedWhole
  BY DEF ServerInv, Runs, Served, ServedWhole, S!ServedWhole, S!Active, S!Still, OneRun
<1>. QED  BY <1>1, <1>2, <1>3, PTL DEF MCSpec

----------------------------------------------------------------------------
(* Sign-in: a state that a sign-in or its session carries is spent, and     *)
(* carried by that one only; who found the instance empty has the lock, and *)
(* no sign-in has made an owner.                                                *)
Spent(t) == ticket[t] # Null /\ ticket[t].status = "gone"
Carries(r, t) == login[r].ticket = t \/ (session[r] # Null /\ session[r].ticket = t)
Owns(a) == I!There(a) /\ user[a].owner = "first"
Linked(p) == identity[p] # Null => I!There(identity[p])
Bound(b) == cookie[b] # Null => ticket[cookie[b]] # Null
Signs(r) ==
  /\ login[r].at \notin {"idle", "exchange", "done"} => login[r].subject \in Subject
  /\ login[r].at = "create" => login[r].email \in Email
  /\ login[r].at \in {"link", "check", "session"} => login[r].user \in I!Account
  /\ login[r].at \in {"match", "link", "create"} => lock = r
  /\ login[r].at = "create" /\ login[r].first => \A a \in I!Account : ~Owns(a)
SignInv ==
  /\ I!TypeOK
  /\ \A b \in Browser : Bound(b)
  /\ \A p \in Subject : Linked(p)
  /\ \A r \in Login, t \in Ticket : Carries(r, t) => Spent(t)
  /\ \A r, q \in Login, t \in Ticket : Carries(r, t) /\ Carries(q, t) => r = q
  /\ \A a, b \in I!Account : Owns(a) /\ Owns(b) => a = b
  /\ \A r \in Login : Signs(r)

(* At the start there is no ticket, no account and no session.              *)
LEMMA SignInit == I!Init => SignInv
<1> SUFFICES ASSUME I!Init PROVE SignInv
  OBVIOUS
<1> USE NoRowIsNull DEF I!Init, I!Waiting
<1>1. I!Waiting \in I!LoginState
  BY DEF I!LoginState, I!Step
<1>2. I!TypeOK
  BY <1>1 DEF I!TypeOK
<1>3. /\ \A a \in I!Account : ~I!There(a)
      /\ \A r \in Login : login[r].at = "idle" /\ login[r].ticket = Null /\ session[r] = Null
      /\ \A b \in Browser : cookie[b] = Null
      /\ \A p \in Subject : identity[p] = Null
  BY DEF I!There
<1>. QED  BY <1>2, <1>3 DEF SignInv, Signs, Carries, Owns, Linked, Bound

(* What a step that hands out no state and makes no owner has to show.      *)
LEMMA SignKept ==
  ASSUME SignInv, I!TypeOK',
         \A t \in Ticket : ticket[t] # Null => ticket'[t] # Null,
         \A t \in Ticket : Spent(t) => Spent(t)',
         \A b \in Browser : cookie'[b] \in {Null, cookie[b]} \/ ticket'[cookie'[b]] # Null,
         \A p \in Subject : Linked(p)',
         \A r \in Login, t \in Ticket : Carries(r, t)' => Carries(r, t),
         \A a \in I!Account : Owns(a)' => Owns(a),
         \A r \in Login : Signs(r)'
  PROVE  SignInv'
<1>1. \A b \in Browser : Bound(b)'
  BY DEF SignInv, I!TypeOK, Bound
<1>. QED  BY <1>1 DEF SignInv

(* Every step of a sign-in keeps the invariant: a ticket is taken by one    *)
(* statement, and an account is matched, linked and made under the lock.    *)
LEMMA SignStep == SignInv /\ [I!Next]_signin => SignInv'
<1> SUFFICES ASSUME SignInv, [I!Next]_signin
             PROVE  SignInv'
  OBVIOUS
<1> USE NoRowIsNull DEF I!At
<1>t. /\ I!TypeOK /\ user \in [I!Account -> I!Row \cup {Null, Gone}]
      /\ identity \in [Subject -> I!Account \cup {Null}]
      /\ ticket \in [Ticket -> I!Entry \cup {Null}]
      /\ cookie \in [Browser -> Ticket \cup {Null}]
      /\ login \in [Login -> I!LoginState] /\ lock \in Login \cup {Null}
      /\ session \in [Login -> I!SessionRow \cup {Null}] /\ logout \in SUBSET LogoutToken
      /\ \A b \in Browser : Bound(b)
      /\ \A p \in Subject : Linked(p)
      /\ \A r \in Login, t \in Ticket : Carries(r, t) => Spent(t)
      /\ \A r \in Login : Signs(r)
  BY DEF SignInv, I!TypeOK
<1>w. I!Waiting \in I!LoginState
  BY DEF I!Waiting, I!LoginState, I!Step
<1>a. I!Waiting.at = "idle" /\ I!Waiting.ticket = Null
  BY DEF I!Waiting
<1>i. PICK idle \in I!LoginState : idle = I!Waiting /\ idle.at = "idle" /\ idle.ticket = Null
  BY <1>w, <1>a
<1>1. CASE UNCHANGED signin
  <2>1. I!TypeOK'
    BY <1>t, <1>1 DEF signin, I!TypeOK
  <2>2. \A a \in I!Account : (Owns(a)' <=> Owns(a)) /\ (I!There(a)' <=> I!There(a))
    BY <1>1 DEF signin, Owns, I!There
  <2>. QED  BY <1>t, <1>1, <2>1, <2>2, SignKept DEF signin, Signs, Carries, Spent, Linked
(* Only a sign-in goes on, and lets the lock go or takes it.                *)
<1>2. ASSUME NEW r \in Login, NEW w \in I!LoginState, login' = [login EXCEPT ![r] = w],
             UNCHANGED <<user, identity, ticket, cookie, session, logout>>,
             w.ticket \in {Null, login[r].ticket},
             \/ lock' = lock
             \/ lock \in {Null, r} /\ lock' \in {Null, r},
             Signs(r)'
      PROVE  SignInv'
  <2>1. /\ login' \in [Login -> I!LoginState] /\ login'[r] = w
        /\ \A q \in Login : q # r => login'[q] = login[q]
    BY <1>t, <1>2
  <2>2. I!TypeOK'
    BY <1>t, <1>2, <2>1 DEF I!TypeOK
  <2>3. \A a \in I!Account : (Owns(a)' <=> Owns(a)) /\ (I!There(a)' <=> I!There(a))
    BY <1>2 DEF Owns, I!There
  <2>4. \A q \in Login : Signs(q)'
    <3> SUFFICES ASSUME NEW q \in Login, q # r PROVE Signs(q)'
      BY <1>2
    <3>1. login[q].at \in {"match", "link", "create"} => lock' = q
      BY <1>t, <1>2 DEF Signs
    <3>. QED  BY <1>t, <2>1, <2>3, <3>1 DEF Signs
  <2>5. \A q \in Login, t \in Ticket : Carries(q, t)' => Carries(q, t)
    BY <1>2, <2>1 DEF Carries
  <2>. QED  BY <1>t, <1>2, <2>2, <2>3, <2>4, <2>5, SignKept DEF Spent, Linked
<1>3. ASSUME NEW r \in Login, I!Answer(r),
             UNCHANGED <<user, identity, ticket, cookie, session, logout>>,
             \/ lock' = lock
             \/ lock \in {Null, r} /\ lock' \in {Null, r}
      PROVE  SignInv'
  <2> DEFINE w == [idle EXCEPT !.at = "done"]
  <2>1. w \in I!LoginState /\ w.at = "done" /\ w.ticket = Null
    BY <1>i DEF I!LoginState, I!Step
  <2>2. login' = [login EXCEPT ![r] = w]
    BY <1>i, <1>3 DEF I!Answer
  <2> HIDE DEF w
  <2>3. Signs(r)'
    BY <1>t, <2>1, <2>2 DEF Signs
  <2>. QED  BY <1>2, <1>3, <2>1, <2>2, <2>3
(* Only the accounts change, and who is signed in to them.                  *)
<1>4. ASSUME UNCHANGED <<ticket, cookie, login, lock>>, I!TypeOK',
             \A p \in Subject : Linked(p)',
             \A r \in Login : session'[r] # Null =>
               session[r] # Null /\ session'[r].ticket = session[r].ticket,
             \A a \in I!Account : Owns(a)' => Owns(a)
      PROVE  SignInv'
  <2>1. \A r \in Login : Signs(r)'
    BY <1>t, <1>4 DEF Signs
  <2>2. \A q \in Login, t \in Ticket : Carries(q, t)' => Carries(q, t)
    BY <1>4 DEF Carries
  <2>. QED  BY <1>t, <1>4, <2>1, <2>2, SignKept DEF Spent
(* Only the states change, and none that is spent.                          *)
<1>5. ASSUME UNCHANGED <<user, identity, login, lock, session, logout>>, I!TypeOK',
             \A t \in Ticket : ticket[t] # Null => ticket'[t] # Null,
             \A t \in Ticket : Spent(t) => Spent(t)',
             \A b \in Browser : cookie'[b] = cookie[b] \/ ticket'[cookie'[b]] # Null
      PROVE  SignInv'
  <2>1. \A a \in I!Account : (Owns(a)' <=> Owns(a)) /\ (I!There(a)' <=> I!There(a))
    BY <1>5 DEF Owns, I!There
  <2>2. \A r \in Login : Signs(r)'
    BY <1>t, <1>5, <2>1 DEF Signs
  <2>3. \A q \in Login, t \in Ticket : Carries(q, t)' => Carries(q, t)
    BY <1>5 DEF Carries
  <2>. QED  BY <1>t, <1>5, <2>1, <2>2, <2>3, SignKept DEF Linked
<1>6. ASSUME NEW b \in Browser, NEW t \in Ticket, NEW via \in I!Stored, I!Start(b, t, via)
      PROVE  SignInv'
  <2> DEFINE n == [via |-> via, status |-> "open"]
  <2>1. n \in I!Entry
    BY DEF I!Entry
  <2>2. ticket' = [ticket EXCEPT ![t] = n] /\ cookie' = [cookie EXCEPT ![b] = t] /\ ticket[t] = Null
        /\ UNCHANGED <<user, identity, login, lock, session, logout>>
    BY <1>6 DEF I!Start
  <2>3. n # Null
    BY <2>1
  <2> HIDE DEF n
  <2>4. I!TypeOK'
    BY <1>t, <2>1, <2>2 DEF I!TypeOK
  <2>. QED  BY <1>t, <1>5, <2>2, <2>3, <2>4 DEF Spent
<1>7. ASSUME NEW t \in Ticket, NEW n \in I!Entry, ticket[t] # Null, ticket[t].status # "gone",
             ticket' = [ticket EXCEPT ![t] = n],
             UNCHANGED <<user, identity, cookie, login, lock, session, logout>>
      PROVE  SignInv'
  <2>1. I!TypeOK'
    BY <1>t, <1>7 DEF I!TypeOK
  <2>. QED  BY <1>t, <1>5, <1>7, <2>1 DEF Spent
<1>8. ASSUME NEW t \in Ticket, I!Expire(t)
      PROVE  SignInv'
  <2>1. PICK u \in I!Entry : u = ticket[t]
    BY <1>t, <1>8 DEF I!Expire
  <2> DEFINE n == [u EXCEPT !.status = "stale"]
  <2>2. n \in I!Entry
    BY DEF I!Entry
  <2>3. ticket' = [ticket EXCEPT ![t] = n] /\ ticket[t] # Null /\ ticket[t].status = "open"
        /\ UNCHANGED <<user, identity, cookie, login, lock, session, logout>>
    BY <1>8, <2>1 DEF I!Expire
  <2> HIDE DEF n
  <2>. QED  BY <1>7, <2>2, <2>3
<1>9. CASE I!SweepExpiredOidcStates
  <2>1. ASSUME NEW t \in Ticket
        PROVE  /\ ticket'[t] \in I!Entry \cup {Null}
               /\ ticket[t] # Null => ticket'[t] # Null
               /\ Spent(t) => Spent(t)'
    <3>1. CASE ticket[t] # Null /\ ticket[t].status = "stale"
      <4>1. PICK u \in I!Entry : u = ticket[t]
        BY <1>t, <3>1
      <4> DEFINE n == [u EXCEPT !.status = "gone"]
      <4>2. n \in I!Entry
        BY DEF I!Entry
      <4>3. ticket'[t] = n
        BY <1>9, <3>1, <4>1 DEF I!SweepExpiredOidcStates
      <4> HIDE DEF n
      <4>. QED  BY <3>1, <4>2, <4>3 DEF Spent
    <3>2. CASE ~(ticket[t] # Null /\ ticket[t].status = "stale")
      <4>1. ticket'[t] = ticket[t]
        BY <1>9, <3>2 DEF I!SweepExpiredOidcStates
      <4>. QED  BY <1>t, <4>1 DEF Spent
    <3>. QED  BY <3>1, <3>2
  <2>2. /\ ticket' \in [Ticket -> I!Entry \cup {Null}]
        /\ UNCHANGED <<user, identity, cookie, login, lock, session, logout>>
    BY <1>9, <2>1 DEF I!SweepExpiredOidcStates
  <2>3. I!TypeOK'
    BY <1>t, <2>2 DEF I!TypeOK
  <2>. QED  BY <1>5, <2>1, <2>2, <2>3
(* The state is nobody's yet, as it is not spent.                           *)
<1>10. ASSUME NEW r \in Login, NEW b \in Browser, NEW via \in I!Stored, I!Callback(r, b, via)
       PROVE  SignInv'
  <2>1. PICK t \in Ticket : t = cookie[b] /\ ticket[t] # Null
    BY <1>t, <1>10 DEF I!Callback, Bound
  <2>2. /\ ticket[t] # Null /\ ticket[t].status # "gone" /\ login[r].at = "idle"
        /\ UNCHANGED <<user, identity, cookie, lock, session, logout>>
    BY <1>t, <1>10, <2>1 DEF I!Callback
  <2>3. PICK u \in I!Entry : u = ticket[t]
    BY <1>t, <2>2
  <2> DEFINE n == [u EXCEPT !.status = "gone"]
  <2>4. n \in I!Entry /\ n.status = "gone"
    BY DEF I!Entry
  <2>5. ticket' = [ticket EXCEPT ![t] = n]
    BY <1>10, <2>1, <2>3 DEF I!Callback, I!Taken
  <2> HIDE DEF n
  <2>6. /\ ticket' \in [Ticket -> I!Entry \cup {Null}] /\ ticket'[t] = n
        /\ \A x \in Ticket : x # t => ticket'[x] = ticket[x]
    BY <1>t, <2>4, <2>5
  <2>7. PICK w \in I!LoginState :
          login' = [login EXCEPT ![r] = w] /\ w.at \in {"exchange", "done"} /\ w.ticket \in {Null, t}
    <3> DEFINE w1 == [idle EXCEPT !.at = "exchange", !.ticket = t, !.browser = b]
               w2 == [idle EXCEPT !.at = "done"]
    <3>1. w1 \in I!LoginState /\ w1.at = "exchange" /\ w1.ticket = t
      BY <1>i DEF I!LoginState, I!Step
    <3>2. w2 \in I!LoginState /\ w2.at = "done" /\ w2.ticket = Null
      BY <1>i DEF I!LoginState, I!Step
    <3>3. login' = [login EXCEPT ![r] = w1] \/ login' = [login EXCEPT ![r] = w2]
      BY <1>i, <1>10, <2>1 DEF I!Callback
    <3> HIDE DEF w1, w2
    <3>. QED  BY <3>1, <3>2, <3>3
  <2>8. /\ login' \in [Login -> I!LoginState] /\ login'[r] = w
        /\ \A q \in Login : q # r => login'[q] = login[q]
    BY <1>t, <2>7
  <2>9. I!TypeOK'
    BY <1>t, <2>2, <2>6, <2>8 DEF I!TypeOK
  <2>10. \A q \in Login : ~Carries(q, t)
    BY <1>t, <2>2 DEF Spent
  <2>11. \A q \in Login, x \in Ticket : Carries(q, x)' => (q = r /\ x = t) \/ (x # t /\ Carries(q, x))
    BY <2>2, <2>7, <2>8, <2>10 DEF Carries
  <2>12. /\ \A q \in Login, x \in Ticket : Carries(q, x)' => Spent(x)'
         /\ \A q, s \in Login, x \in Ticket : Carries(q, x)' /\ Carries(s, x)' => q = s
    BY <1>t, <2>4, <2>6, <2>11 DEF Spent, SignInv
  <2>13. \A a \in I!Account : (Owns(a)' <=> Owns(a)) /\ (I!There(a)' <=> I!There(a))
    BY <2>2 DEF Owns, I!There
  <2>14. \A q \in Login : Signs(q)'
    BY <1>t, <2>2, <2>7, <2>8, <2>13 DEF Signs
  <2>15. \A x \in Browser : Bound(x)'
    BY <1>t, <2>2, <2>4, <2>6 DEF Bound
  <2>. QED  BY <1>t, <2>2, <2>9, <2>12, <2>13, <2>14, <2>15 DEF SignInv, Linked
<1>11. ASSUME NEW r \in Login, NEW p \in Subject, NEW e \in Email \cup {Null}, I!Profile(r, p, e),
              UNCHANGED <<user, identity, ticket, cookie, lock, session, logout>>
       PROVE  SignInv'
  <2>1. PICK v \in I!LoginState : v = login[r]
    BY <1>t
  <2> DEFINE w == [v EXCEPT !.subject = p, !.email = e, !.at = "lock"]
  <2>2. w \in I!LoginState /\ w.at = "lock" /\ w.subject = p /\ w.ticket = v.ticket
    BY DEF I!LoginState, I!Step
  <2>3. login' = [login EXCEPT ![r] = w]
    BY <1>t, <1>11, <2>1 DEF I!Profile
  <2> HIDE DEF w
  <2>4. Signs(r)'
    BY <1>t, <2>2, <2>3 DEF Signs
  <2>. QED  BY <1>2, <1>11, <2>1, <2>2, <2>3, <2>4
<1>12. ASSUME NEW r \in Login, NEW p \in Subject, NEW e \in Email \cup {Null},
              I!Exchange(r, p, e) \/ I!DirectLogin(r, p, e)
       PROVE  SignInv'
  BY <1>11, <1>12 DEF I!Exchange, I!DirectLogin
<1>13. ASSUME NEW r \in Login, I!ExchangeFails(r)
       PROVE  SignInv'
  BY <1>3, <1>13 DEF I!ExchangeFails
(* The account of a sign-in is found or made.                               *)
<1>14. ASSUME NEW r \in Login, NEW a \in I!Account, NEW shut \in BOOLEAN,
              login[r].subject \in Subject
       PROVE  \E w \in I!LoginState :
                /\ I!Resolved(r, a, shut) = [login EXCEPT ![r] = w]
                /\ w.at = "check" /\ w.subject = login[r].subject /\ w.user = a
                /\ w.ticket = login[r].ticket
  <2>1. PICK v \in I!LoginState : v = login[r]
    BY <1>t
  <2>2. PICK e \in Email \cup {Null} : e = IF I!Again(r) THEN v.email ELSE Null
    BY DEF I!LoginState
  <2> DEFINE w == [v EXCEPT !.user = a, !.closed = shut, !.at = "check", !.email = e, !.first = FALSE]
  <2>3. w \in I!LoginState /\ w.at = "check" /\ w.subject = v.subject /\ w.user = a /\ w.ticket = v.ticket
    <3>1. w \in I!LoginState
      BY DEF I!LoginState, I!Step
    <3>2. w.at = "check" /\ w.subject = v.subject /\ w.user = a /\ w.ticket = v.ticket
      BY DEF I!LoginState
    <3>. QED  BY <3>1, <3>2
  <2>4. I!Resolved(r, a, shut) = [login EXCEPT ![r] = w]
    BY <1>t, <2>1, <2>2 DEF I!Resolved
  <2> HIDE DEF w
  <2>. QED  BY <2>1, <2>3, <2>4
<1>15. ASSUME NEW r \in Login, I!FindIdentity(r)
       PROVE  SignInv'
  <2>1. PICK p \in Subject : p = login[r].subject
    BY <1>t, <1>15 DEF I!FindIdentity, Signs
  <2>2. UNCHANGED <<user, identity, ticket, cookie, session, logout>>
    BY <1>15 DEF I!FindIdentity
  <2>3. CASE identity[p] # Null
    <3>1. PICK a \in I!Account : a = identity[p] /\ I!There(a)
      BY <1>t, <2>3 DEF Linked
    <3>2. PICK shut \in BOOLEAN : shut = user[a].closed
      BY <1>t, <3>1 DEF I!There, I!Row
    <3>3. login' = I!Resolved(r, a, shut) /\ lock' = lock
      BY <1>15, <2>1, <2>3, <3>1, <3>2 DEF I!FindIdentity
    <3>4. PICK w \in I!LoginState :
            /\ login' = [login EXCEPT ![r] = w] /\ w.at = "check" /\ w.subject = p
            /\ w.user = a /\ w.ticket = login[r].ticket
      BY <1>14, <2>1, <3>3
    <3>5. Signs(r)'
      BY <1>t, <3>4 DEF Signs
    <3>. QED  BY <1>2, <2>2, <3>3, <3>4, <3>5
  <2>4. CASE identity[p] = Null
    <3>1. PICK v \in I!LoginState : v = login[r]
      BY <1>t
    <3> DEFINE w == [v EXCEPT !.at = "match"]
    <3>2. w \in I!LoginState /\ w.at = "match" /\ w.subject = p /\ w.ticket = v.ticket
      BY <2>1, <3>1 DEF I!LoginState, I!Step
    <3>3. login' = [login EXCEPT ![r] = w] /\ lock' = r /\ lock \in {Null, r}
      BY <1>15, <2>1, <2>4, <3>1 DEF I!FindIdentity, I!Free
    <3> HIDE DEF w
    <3>4. Signs(r)'
      BY <1>t, <3>2, <3>3 DEF Signs
    <3>. QED  BY <1>2, <2>2, <3>1, <3>2, <3>3, <3>4
  <2>. QED  BY <2>3, <2>4
<1>16. ASSUME NEW r \in Login, I!MatchEmail(r)
       PROVE  SignInv'
  <2>1. PICK v \in I!LoginState : v = login[r]
    BY <1>t
  <2>2. /\ v.at = "match" /\ lock = r /\ v.subject \in Subject
        /\ UNCHANGED <<user, identity, ticket, cookie, session, logout>>
    BY <1>t, <1>16, <2>1 DEF I!MatchEmail, Signs
  <2>3. \/ \E a \in I!Account : login' = [login EXCEPT ![r].user = a, ![r].at = "link"] /\ lock' = lock
        \/ /\ v.email # Null /\ lock' = lock
           /\ login' = [login EXCEPT ![r].at = "create",
                         ![r].first = \A a \in I!Account : ~I!There(a)]
        \/ I!Answer(r) /\ lock' = Null
    BY <1>16, <2>1 DEF I!MatchEmail, I!With
  <2>4. ASSUME NEW a \in I!Account, login' = [login EXCEPT ![r].user = a, ![r].at = "link"], lock' = lock
        PROVE  SignInv'
    <3> DEFINE w == [v EXCEPT !.user = a, !.at = "link"]
    <3>1. w \in I!LoginState /\ w.at = "link" /\ w.subject = v.subject /\ w.user = a /\ w.ticket = v.ticket
      BY DEF I!LoginState, I!Step
    <3>2. login' = [login EXCEPT ![r] = w]
      BY <1>t, <2>1, <2>4
    <3> HIDE DEF w
    <3>3. Signs(r)'
      BY <1>t, <2>2, <2>4, <3>1, <3>2 DEF Signs
    <3>. QED  BY <1>2, <2>1, <2>2, <2>4, <3>1, <3>2, <3>3
  <2>5. CASE /\ v.email # Null /\ lock' = lock
             /\ login' = [login EXCEPT ![r].at = "create", ![r].first = \A a \in I!Account : ~I!There(a)]
    <3>1. PICK first \in BOOLEAN : first = \A a \in I!Account : ~I!There(a)
      OBVIOUS
    <3> DEFINE w == [v EXCEPT !.at = "create", !.first = first]
    <3>2. /\ w \in I!LoginState /\ w.at = "create" /\ w.subject = v.subject /\ w.first = first
          /\ w.email = v.email /\ w.ticket = v.ticket
      BY DEF I!LoginState, I!Step
    <3>3. login' = [login EXCEPT ![r] = w]
      BY <1>t, <2>1, <2>5, <3>1
    <3> HIDE DEF w
    <3>4. v.email \in Email
      BY <2>5 DEF I!LoginState
    <3>5. first => \A a \in I!Account : ~Owns(a)'
      BY <2>2, <3>1 DEF Owns, I!There
    <3>6. Signs(r)'
      BY <1>t, <2>2, <2>5, <3>2, <3>3, <3>4, <3>5 DEF Signs
    <3>. QED  BY <1>2, <2>1, <2>2, <2>5, <3>2, <3>3, <3>6
  <2>6. CASE I!Answer(r) /\ lock' = Null
    BY <1>3, <2>2, <2>6
  <2>. QED  BY <2>3, <2>4, <2>5, <2>6
<1>17. ASSUME NEW r \in Login, I!LinkIdentity(r)
       PROVE  SignInv'
  <2>1. PICK a \in I!Account, p \in Subject : a = login[r].user /\ p = login[r].subject
    BY <1>t, <1>17 DEF I!LinkIdentity, Signs
  <2>2. lock = r /\ lock' = Null /\ UNCHANGED <<user, ticket, cookie, session, logout>>
    BY <1>t, <1>17 DEF I!LinkIdentity, Signs, I!Rollback
  <2>3. CASE I!There(a) /\ identity[p] = Null
    <3>1. PICK shut \in BOOLEAN : shut = user[a].closed
      BY <1>t, <2>3 DEF I!There, I!Row
    <3>2. login' = I!Resolved(r, a, shut) /\ identity' = [identity EXCEPT ![p] = a]
      BY <1>17, <2>1, <2>3, <3>1 DEF I!LinkIdentity
    <3>3. PICK w \in I!LoginState :
            /\ login' = [login EXCEPT ![r] = w] /\ w.at = "check" /\ w.subject = p
            /\ w.user = a /\ w.ticket = login[r].ticket
      <4>1. login[r].subject \in Subject /\ login[r].subject = p
        BY <2>1
      <4>. QED  BY <1>14, <3>2, <4>1
    <3>4. /\ login' \in [Login -> I!LoginState] /\ login'[r] = w
          /\ \A q \in Login : q # r => login'[q] = login[q]
      BY <1>t, <3>3
    <3>5. I!TypeOK'
      BY <1>t, <2>2, <3>2, <3>4 DEF I!TypeOK
    <3>6. \A x \in I!Account : (Owns(x)' <=> Owns(x)) /\ (I!There(x)' <=> I!There(x))
      BY <2>2 DEF Owns, I!There
    <3>7. \A q \in Login : Signs(q)'
      BY <1>t, <2>2, <3>3, <3>4, <3>6 DEF Signs
    <3>8. \A x \in Subject : Linked(x)'
      <4> SUFFICES ASSUME NEW x \in Subject PROVE Linked(x)'
        OBVIOUS
      <4>1. CASE x = p
        <5>1. identity'[x] = a
          BY <1>t, <3>2, <4>1
        <5>. QED  BY <2>3, <3>6, <5>1 DEF Linked
      <4>2. CASE x # p
        <5>1. identity'[x] = identity[x]
          BY <1>t, <3>2, <4>2
        <5>. QED  BY <1>t, <3>6, <5>1 DEF Linked
      <4>. QED  BY <4>1, <4>2
    <3>9. \A q \in Login, t \in Ticket : Carries(q, t)' => Carries(q, t)
      BY <2>2, <3>3, <3>4 DEF Carries
    <3>. QED  BY <1>t, <2>2, <3>5, <3>6, <3>7, <3>8, <3>9, SignKept DEF Spent
  <2>4. CASE ~(I!There(a) /\ identity[p] = Null)
    <3>1. I!Answer(r) /\ identity' = identity
      BY <1>17, <2>1, <2>4 DEF I!LinkIdentity, I!Rollback
    <3>. QED  BY <1>3, <2>2, <3>1
  <2>. QED  BY <2>3, <2>4
<1>18. ASSUME NEW r \in Login, I!CreateAccount(r)
       PROVE  SignInv'
  <2>1. PICK e \in Email, p \in Subject : e = login[r].email /\ p = login[r].subject
    BY <1>t, <1>18 DEF I!CreateAccount, Signs
  <2>2. /\ lock = r /\ lock' = Null /\ UNCHANGED <<ticket, cookie, session, logout>>
        /\ login[r].at = "create"
    BY <1>t, <1>18 DEF I!CreateAccount, Signs
  <2>3. CASE I!With(e) = {} /\ identity[p] = Null
    <3>1. PICK a \in I!Account :
            /\ I!NextId(a)
            /\ user' = [user EXCEPT ![a] = [email |-> e, owner |-> I!Founding(r), closed |-> FALSE]]
            /\ identity' = [identity EXCEPT ![p] = a]
            /\ login' = I!Resolved(r, a, FALSE)
      BY <1>18, <2>1, <2>3 DEF I!CreateAccount
    <3>2. PICK own \in I!Ownership : own = I!Founding(r) /\ (own = "first" => login[r].first)
      BY <1>t DEF I!LoginState, I!Ownership, I!Founding
    <3> DEFINE n == [email |-> e, owner |-> own, closed |-> FALSE]
    <3>3. n \in I!Row /\ n.owner = own
      BY DEF I!Row
    <3>4. user' = [user EXCEPT ![a] = n] /\ user[a] = Null
      BY <3>1, <3>2 DEF I!NextId
    <3> HIDE DEF n
    <3>5. /\ user' \in [I!Account -> I!Row \cup {Null, Gone}] /\ user'[a] = n /\ n \notin {Null, Gone}
          /\ \A x \in I!Account : x # a => user'[x] = user[x]
      BY <1>t, <3>3, <3>4
    <3>6. PICK w \in I!LoginState :
            /\ login' = [login EXCEPT ![r] = w] /\ w.at = "check" /\ w.subject = p
            /\ w.user = a /\ w.ticket = login[r].ticket
      <4>1. \E w \in I!LoginState :
              /\ I!Resolved(r, a, FALSE) = [login EXCEPT ![r] = w]
              /\ w.at = "check" /\ w.subject = login[r].subject /\ w.user = a
              /\ w.ticket = login[r].ticket
        BY <1>14, <2>1
      <4>. QED  BY <2>1, <3>1, <4>1
    <3>7. /\ login' \in [Login -> I!LoginState] /\ login'[r] = w
          /\ \A q \in Login : q # r => login'[q] = login[q]
      BY <1>t, <3>6
    <3>8. I!TypeOK'
      BY <1>t, <2>2, <3>1, <3>5, <3>7 DEF I!TypeOK
    <3>9. \A x \in I!Account : (I!There(x) => I!There(x)') /\ (x # a => (Owns(x)' <=> Owns(x)))
      BY <3>4, <3>5 DEF Owns, I!There
    <3>10. \A q \in Login : q # r => login[q].at # "create"
      BY <1>t, <2>2 DEF Signs
    <3>11. \A q \in Login : Signs(q)'
      <4> SUFFICES ASSUME NEW q \in Login PROVE Signs(q)'
        OBVIOUS
      <4>1. CASE q = r
        BY <1>t, <3>6, <3>7, <4>1 DEF Signs
      <4>2. CASE q # r
        BY <1>t, <2>2, <3>7, <3>10, <4>2 DEF Signs
      <4>. QED  BY <4>1, <4>2
    <3>12. \A x \in Subject : Linked(x)'
      <4> SUFFICES ASSUME NEW x \in Subject PROVE Linked(x)'
        OBVIOUS
      <4>1. CASE x = p
        <5>1. identity'[x] = a
          BY <1>t, <3>1, <4>1
        <5>. QED  BY <3>5, <5>1 DEF Linked, I!There
      <4>2. CASE x # p
        <5>1. identity'[x] = identity[x] /\ identity[x] \in I!Account \cup {Null}
          BY <1>t, <3>1, <4>2
        <5>. QED  BY <1>t, <3>9, <5>1 DEF Linked
      <4>. QED  BY <4>1, <4>2
    <3>13. \A q \in Login, t \in Ticket : Carries(q, t)' => Carries(q, t)
      BY <2>2, <3>6, <3>7 DEF Carries
    <3>14. Owns(a)' => \A x \in I!Account : ~Owns(x)
      BY <1>t, <2>2, <3>2, <3>3, <3>5 DEF Owns, Signs
    <3>15. \A x, y \in I!Account : Owns(x)' /\ Owns(y)' => x = y
      BY <3>9, <3>14 DEF SignInv
    <3>16. /\ \A q \in Login, t \in Ticket : Carries(q, t)' => Spent(t)'
           /\ \A q, s \in Login, t \in Ticket : Carries(q, t)' /\ Carries(s, t)' => q = s
           /\ \A b \in Browser : Bound(b)'
      BY <1>t, <2>2, <3>13 DEF Spent, SignInv, Bound
    <3>. QED  BY <3>8, <3>11, <3>12, <3>15, <3>16 DEF SignInv
  <2>4. CASE ~(I!With(e) = {} /\ identity[p] = Null)
    <3>1. I!Answer(r) /\ identity' = identity /\ user' = user
      BY <1>18, <2>1, <2>4 DEF I!CreateAccount, I!Rollback
    <3>. QED  BY <1>3, <2>2, <3>1
  <2>. QED  BY <2>3, <2>4
<1>19. ASSUME NEW r \in Login, I!CheckAccount(r)
       PROVE  SignInv'
  <2>1. UNCHANGED <<user, identity, ticket, cookie, lock, session, logout>>
    BY <1>19 DEF I!CheckAccount
  <2>2. CASE login[r].closed
    BY <1>3, <1>19, <2>1, <2>2 DEF I!CheckAccount
  <2>3. CASE ~login[r].closed
    <3>1. PICK v \in I!LoginState : v = login[r]
      BY <1>t
    <3>2. PICK st \in {"lock", "session"} : st = IF I!Again(r) THEN "lock" ELSE "session"
      OBVIOUS
    <3>n. PICK pass \in 1..2 : pass = 2
      OBVIOUS
    <3> DEFINE w == [v EXCEPT !.pass = pass, !.closed = FALSE, !.at = st]
    <3>3. w \in I!LoginState /\ w.at = st /\ w.subject = v.subject /\ w.user = v.user /\ w.ticket = v.ticket
      <4>1. w \in I!LoginState
        BY DEF I!LoginState, I!Step
      <4>2. w.at = st /\ w.subject = v.subject /\ w.user = v.user /\ w.ticket = v.ticket
        BY DEF I!LoginState
      <4>. QED  BY <4>1, <4>2
    <3>4. login' = [login EXCEPT ![r] = w] /\ v.at = "check"
      BY <1>t, <1>19, <2>3, <3>1, <3>2, <3>n DEF I!CheckAccount
    <3> HIDE DEF w
    <3>5. Signs(r)'
      BY <1>t, <3>1, <3>3, <3>4 DEF Signs
    <3>. QED  BY <1>2, <2>1, <3>1, <3>3, <3>4, <3>5
  <2>. QED  BY <2>2, <2>3
<1>20. ASSUME NEW r \in Login, I!IssueSession(r)
       PROVE  SignInv'
  <2>1. PICK a \in I!Account, v \in I!LoginState : a = login[r].user /\ v = login[r]
    BY <1>t, <1>20 DEF I!IssueSession, Signs
  <2>2. UNCHANGED <<user, identity, ticket, lock, logout>>
    BY <1>20 DEF I!IssueSession
  <2> DEFINE w == [idle EXCEPT !.at = "done"]
             n == [user |-> a, live |-> TRUE, ticket |-> v.ticket]
  <2>3. w \in I!LoginState /\ w.at = "done" /\ w.ticket = Null
    BY <1>i DEF I!LoginState, I!Step
  <2>4. n \in I!SessionRow /\ n.ticket = v.ticket
    BY DEF I!SessionRow, I!LoginState
  <2>5. /\ login' = [login EXCEPT ![r] = w]
        /\ session' \in {session, [session EXCEPT ![r] = n]}
    BY <1>i, <1>20, <2>1 DEF I!IssueSession, I!Answer
  <2>6. /\ cookie' \in [Browser -> Ticket \cup {Null}]
        /\ \A b \in Browser : cookie'[b] \in {Null, cookie[b]}
    <3>1. cookie' = cookie \/ \E b : cookie' = [cookie EXCEPT ![b] = Null]
      BY <1>20 DEF I!IssueSession
    <3>. QED  BY <1>t, <3>1
  <2> HIDE DEF w, n
  <2>7. /\ login' \in [Login -> I!LoginState] /\ login'[r] = w
        /\ \A q \in Login : q # r => login'[q] = login[q]
        /\ session' \in [Login -> I!SessionRow \cup {Null}] /\ session'[r] \in {session[r], n}
        /\ \A q \in Login : q # r => session'[q] = session[q]
    BY <1>t, <2>3, <2>4, <2>5
  <2>8. I!TypeOK'
    BY <1>t, <2>2, <2>6, <2>7 DEF I!TypeOK
  <2>9. \A q \in Login, t \in Ticket : Carries(q, t)' => Carries(q, t)
    BY <2>1, <2>3, <2>4, <2>7 DEF Carries
  <2>10. \A x \in I!Account : (Owns(x)' <=> Owns(x)) /\ (I!There(x)' <=> I!There(x))
    BY <2>2 DEF Owns, I!There
  <2>11. \A q \in Login : Signs(q)'
    BY <1>t, <2>2, <2>3, <2>7, <2>10 DEF Signs
  <2>12. \A x \in Subject : Linked(x)'
    BY <1>t, <2>2, <2>10 DEF Linked
  <2>. QED  BY <1>t, <2>2, <2>6, <2>8, <2>9, <2>10, <2>11, <2>12, SignKept DEF Spent
(* The sessions of an account end, and keep the state they were given for.  *)
<1>21. ASSUME NEW a
       PROVE  /\ I!Ended(a) \in [Login -> I!SessionRow \cup {Null}]
              /\ \A r \in Login : I!Ended(a)[r] # Null =>
                   session[r] # Null /\ I!Ended(a)[r].ticket = session[r].ticket
  <2>1. ASSUME NEW r \in Login
        PROVE  /\ I!Ended(a)[r] \in I!SessionRow \cup {Null}
               /\ I!Ended(a)[r] # Null =>
                    session[r] # Null /\ I!Ended(a)[r].ticket = session[r].ticket
    <3>1. CASE session[r] # Null /\ session[r].user = a
      <4>1. PICK v \in I!SessionRow : v = session[r]
        BY <1>t, <3>1
      <4>2. I!Ended(a)[r] = [v EXCEPT !.live = FALSE]
        BY <3>1, <4>1 DEF I!Ended
      <4>. QED  BY <3>1, <4>1, <4>2 DEF I!SessionRow
    <3>2. CASE ~(session[r] # Null /\ session[r].user = a)
      BY <1>t, <3>2 DEF I!Ended
    <3>. QED  BY <3>1, <3>2
  <2>2. I!Ended(a) \in [Login -> I!SessionRow \cup {Null}]
    BY <2>1 DEF I!Ended
  <2>. QED  BY <2>1, <2>2
(* A row of an account changes and is no new owner's.                       *)
<1>22. ASSUME NEW a \in I!Account, NEW n \in I!Row, user' = [user EXCEPT ![a] = n],
              n.owner = "first" => Owns(a), UNCHANGED <<identity, ticket, cookie, login, lock, logout>>,
              session' = session \/ session' = I!Ended(a)
       PROVE  SignInv'
  <2>1. /\ user' \in [I!Account -> I!Row \cup {Null, Gone}] /\ user'[a] = n /\ n \notin {Null, Gone}
        /\ \A x \in I!Account : x # a => user'[x] = user[x]
    BY <1>t, <1>22
  <2>2. /\ session' \in [Login -> I!SessionRow \cup {Null}]
        /\ \A r \in Login : session'[r] # Null =>
             session[r] # Null /\ session'[r].ticket = session[r].ticket
    BY <1>t, <1>21, <1>22
  <2>3. I!TypeOK'
    BY <1>t, <1>22, <2>1, <2>2 DEF I!TypeOK
  <2>4. \A x \in I!Account : Owns(x)' => Owns(x)
    BY <1>22, <2>1 DEF Owns, I!There
  <2>5. \A x \in I!Account : I!There(x) => I!There(x)'
    BY <2>1 DEF I!There
  <2>6. \A p \in Subject : Linked(p)'
    BY <1>t, <1>22, <2>5 DEF Linked
  <2>. QED  BY <1>4, <1>22, <2>2, <2>3, <2>4, <2>6
<1>23. ASSUME NEW a \in I!Account, I!Close(a) \/ I!Reopen(a)
       PROVE  SignInv'
  <2>1. PICK u \in I!Row : u = user[a]
    BY <1>t, <1>23 DEF I!Close, I!Reopen, I!There
  <2>2. PICK closed \in BOOLEAN : user' = [user EXCEPT ![a].closed = closed]
    BY <1>23 DEF I!Close, I!Reopen
  <2> DEFINE n == [u EXCEPT !.closed = closed]
  <2>3. n \in I!Row /\ n.owner = u.owner
    BY DEF I!Row
  <2>4. user' = [user EXCEPT ![a] = n] /\ (u.owner = "first" => Owns(a))
    BY <1>23, <2>1, <2>2 DEF Owns, I!Close, I!Reopen
  <2> HIDE DEF n
  <2>. QED  BY <1>22, <1>23, <2>3, <2>4 DEF I!Close, I!Reopen
<1>24. ASSUME NEW a \in I!Account, NEW e \in Email, NEW own \in I!Ownership,
              I!CastleCreate(a, e, own)
       PROVE  SignInv'
  <2> DEFINE n == [email |-> e, owner |-> own, closed |-> FALSE]
  <2>1. n \in I!Row /\ n.owner # "first"
    BY <1>24 DEF I!Row, I!CastleCreate
  <2>2. user' = [user EXCEPT ![a] = n]
    BY <1>24 DEF I!CastleCreate
  <2> HIDE DEF n
  <2>. QED  BY <1>22, <1>24, <2>1, <2>2 DEF I!CastleCreate
<1>25. ASSUME NEW a \in I!Account, NEW e \in Email, NEW own \in I!Ownership,
              I!CastleUpdate(a, e, own)
       PROVE  SignInv'
  <2>1. PICK u \in I!Row : u = user[a]
    BY <1>t, <1>25 DEF I!CastleUpdate, I!There
  <2> DEFINE n == [u EXCEPT !.email = e, !.owner = own]
  <2>2. n \in I!Row /\ n.owner = own
    BY DEF I!Row
  <2>3. user' = [user EXCEPT ![a] = n] /\ (own = "first" => Owns(a))
    BY <1>25, <2>1 DEF Owns, I!CastleUpdate
  <2> HIDE DEF n
  <2>. QED  BY <1>22, <1>25, <2>2, <2>3 DEF I!CastleUpdate
<1>26. ASSUME NEW a, session' = I!Ended(a) \/ session' = session,
              UNCHANGED <<user, identity, ticket, cookie, login, lock>>, logout' \in SUBSET LogoutToken
       PROVE  SignInv'
  <2>1. /\ session' \in [Login -> I!SessionRow \cup {Null}]
        /\ \A r \in Login : session'[r] # Null =>
             session[r] # Null /\ session'[r].ticket = session[r].ticket
    BY <1>t, <1>21, <1>26
  <2>2. I!TypeOK'
    BY <1>t, <1>26, <2>1 DEF I!TypeOK
  <2>3. \A x \in I!Account : Owns(x)' => Owns(x)
    BY <1>26 DEF Owns, I!There
  <2>4. \A p \in Subject : Linked(p)'
    BY <1>t, <1>26 DEF Linked, I!There
  <2>. QED  BY <1>4, <1>26, <2>1, <2>2, <2>3, <2>4
<1>27. ASSUME NEW a \in I!Account, I!CastleRevoke(a)
       PROVE  SignInv'
  BY <1>t, <1>26, <1>27 DEF I!CastleRevoke
<1>28. ASSUME NEW k \in LogoutToken, NEW p \in Subject, I!BackchannelLogout(k, p)
       PROVE  SignInv'
  BY <1>t, <1>26, <1>28 DEF I!BackchannelLogout
<1>29. ASSUME NEW a \in I!Account, I!CastleDelete(a)
       PROVE  SignInv'
  <2>1. /\ user' = [user EXCEPT ![a] = Gone] /\ UNCHANGED <<ticket, cookie, login, lock, logout>>
        /\ identity' = [p \in Subject |-> IF p \in I!Holding(a) THEN Null ELSE identity[p]]
        /\ session' = [r \in Login |-> IF I!Ended(a)[r] = session[r] THEN session[r] ELSE Null]
    BY <1>29 DEF I!CastleDelete
  <2>2. /\ user' \in [I!Account -> I!Row \cup {Null, Gone}] /\ user'[a] = Gone
        /\ \A x \in I!Account : x # a => user'[x] = user[x]
        /\ identity' \in [Subject -> I!Account \cup {Null}]
        /\ session' \in [Login -> I!SessionRow \cup {Null}]
        /\ \A r \in Login : session'[r] # Null =>
             session[r] # Null /\ session'[r].ticket = session[r].ticket
    BY <1>t, <2>1
  <2>3. I!TypeOK'
    BY <1>t, <2>1, <2>2 DEF I!TypeOK
  <2>4. \A x \in I!Account : Owns(x)' => Owns(x)
    BY <2>2 DEF Owns, I!There
  <2>5. ASSUME NEW p \in Subject
        PROVE  Linked(p)'
    <3>1. identity'[p] # Null => identity'[p] = identity[p] /\ identity[p] \in I!Account /\ identity[p] # a
      BY <1>t, <2>1 DEF I!Holding
    <3>2. \A x \in I!Account : x # a /\ I!There(x) => I!There(x)'
      BY <2>2 DEF I!There
    <3>. QED  BY <1>t, <3>1, <3>2 DEF Linked
  <2>. QED  BY <1>4, <2>1, <2>2, <2>3, <2>4, <2>5
<1>30. CASE I!Redirects
  BY <1>6, <1>8, <1>9, <1>10, <1>30 DEF I!Redirects
<1>31. ASSUME NEW r \in Login, I!SignsIn(r)
       PROVE  SignInv'
  BY <1>12, <1>13, <1>15, <1>16, <1>17, <1>18, <1>19, <1>20, <1>31 DEF I!SignsIn
<1>32. CASE I!Changes
  BY <1>23, <1>24, <1>25, <1>27, <1>28, <1>29, <1>32 DEF I!Changes
<1>. QED  BY <1>1, <1>30, <1>31, <1>32 DEF I!Next

(* However sign-ins, logouts and the accounts' changes interleave: a state  *)
(* admits one session, and an instance has one owner by way of a sign-in.   *)
THEOREM StatesAdmitOne == MCSpec => []SignInOnce
<1>1. MCInit => (focus = "signin" => SignInv)
  BY SignInit DEF MCInit
<1>2. (focus = "signin" => SignInv) /\ [MCNext]_allVars => (focus = "signin" => SignInv)'
  <2> SUFFICES ASSUME focus = "signin" => SignInv, [MCNext]_allVars, focus' = "signin"
               PROVE  SignInv'
    OBVIOUS
  <2>1. focus = "signin" /\ [I!Next]_signin
    BY DEF MCNext, allVars
  <2>. QED  BY <2>1, SignStep
<1>3. (focus = "signin" => SignInv) => SignInOnce
  <2> SUFFICES ASSUME SignInv PROVE I!SignInOnce
    BY DEF SignInOnce
  <2>1. \A a, b \in I!Account : Owns(a) /\ Owns(b) => a = b
    BY DEF SignInv
  <2>2. \A r \in Login : session[r] # Null => session[r].ticket \in Ticket \cup {Null}
    BY DEF SignInv, I!TypeOK, I!SessionRow
  <2>3. \A r, q \in Login, t \in Ticket : Carries(r, t) /\ Carries(q, t) => r = q
    BY DEF SignInv
  <2>. QED  BY <2>1, <2>2, <2>3 DEF I!SignInOnce, Owns, Carries
<1>. QED  BY <1>1, <1>2, <1>3, PTL DEF MCSpec

----------------------------------------------------------------------------
(* Consent: what a page lists is what was asked for, if anything was, and   *)
(* an approval on its way was clicked on what was listed.                   *)
Lists(p) ==
  /\ form[p].st = "asks" => form[p].info \in A!Scopes /\ (form[p].ask # {} => form[p].info = form[p].ask)
  /\ posting[p] # Null /\ posting[p].op = "info" /\ posting[p].at = "ok" =>
       posting[p].got \in A!Scopes /\ (form[p].ask # {} => posting[p].got = form[p].ask)
  /\ posting[p] # Null /\ posting[p].op # "info" => form[p].st = "asks"
  /\ posting[p] # Null /\ posting[p].op = "approve" =>
       /\ \E g \in agreed : g.of = p
       /\ form[p].ask # {} => [of |-> p, scope |-> form[p].ask] \in agreed
ConsentInv == A!TypeOK /\ (\A p \in Window : Lists(p)) /\ A!GrantedAsListed


(* At the start no page asks and nothing is agreed to.                      *)
LEMMA ConsentInit == A!Init => ConsentInv
<1> SUFFICES ASSUME A!Init PROVE ConsentInv
  OBVIOUS
<1> USE NoRowIsNull
<1>1. PICK asks \in [Window -> SUBSET Scope] :
        form = [p \in Window |-> [ask |-> asks[p], info |-> Null, busy |-> FALSE, st |-> "loading"]]
  BY DEF A!Init
<1>2. A!Sending("info") \in A!CallState /\ A!Sending("info").op = "info" /\ A!Sending("info").at = "sent"
  BY DEF A!Sending, A!CallState
<1>3. form \in [Window -> A!PageState] /\ \A p \in Window : form[p].st = "loading"
  BY <1>1 DEF A!PageState
<1>4. posting \in [Window -> A!CallState] /\ \A p \in Window : posting[p] = A!Sending("info")
  BY <1>2 DEF A!Init
<1>5. A!TypeOK /\ agreed = {} /\ given = {}
  BY <1>3, <1>4 DEF A!Init, A!TypeOK
<1>6. \A p \in Window : Lists(p)
  BY <1>2, <1>3, <1>4 DEF Lists
<1>. QED  BY <1>5, <1>6 DEF ConsentInv, A!GrantedAsListed

(* A page whose call and list are as before keeps what it lists: clicks are *)
(* only added.                                                              *)
LEMMA ConsentKept ==
  ASSUME ConsentInv, A!TypeOK', agreed \subseteq agreed',
         \A p \in Window : Lists(p)' \/ (form'[p] = form[p] /\ posting'[p] \in {posting[p], Null}),
         \A g \in given' : g \in given \/
           /\ \E a \in agreed' : a.of = g.of
           /\ g.ask # {} => g.scope = g.ask /\ [of |-> g.of, scope |-> g.scope] \in agreed'
  PROVE  ConsentInv'
<1>1. \A p \in Window : Lists(p)'
  BY DEF ConsentInv, Lists
<1>2. A!GrantedAsListed'
  BY DEF ConsentInv, A!GrantedAsListed
<1>. QED  BY <1>1, <1>2 DEF ConsentInv

(* Every step of the page, of the routes and of the client's owner.         *)
LEMMA ConsentStep == ConsentInv /\ [A!Next]_consent => ConsentInv'
<1> SUFFICES ASSUME ConsentInv, [A!Next]_consent PROVE ConsentInv'
  OBVIOUS
<1> USE NoRowIsNull
<1>t. /\ client \in SUBSET Scope /\ form \in [Window -> A!PageState]
      /\ posting \in [Window -> A!CallState \cup {Null}]
      /\ agreed \subseteq [of : Window, scope : A!Scopes]
      /\ given \subseteq [of : Window, ask : SUBSET Scope, scope : A!Scopes]
      /\ \A p \in Window : Lists(p)
  BY DEF ConsentInv, A!TypeOK
<1>s. \A op \in {"info", "approve", "deny"} :
        A!Sending(op) \in A!CallState /\ A!Sending(op).op = op /\ A!Sending(op).at = "sent"
  BY DEF A!Sending, A!CallState
<1>1. CASE UNCHANGED consent
  BY <1>t, <1>1, ConsentKept DEF consent, A!TypeOK
<1>2. CASE A!EditClient
  <2>1. A!TypeOK'
    BY <1>t, <1>2 DEF A!EditClient, A!TypeOK
  <2>. QED  BY <1>2, <2>1, ConsentKept DEF A!EditClient
<1>3. ASSUME NEW p \in Window, A!Decide(p) PROVE ConsentInv'
  <2>1. form[p].st = "asks" /\ form[p].info \in A!Scopes /\ (form[p].ask # {} => form[p].info = form[p].ask)
    BY <1>t, <1>3 DEF A!Decide, Lists
  <2>2. PICK v \in A!PageState : v = form[p]
    BY <1>t
  <2> DEFINE f == [v EXCEPT !.busy = TRUE]
  <2>3. /\ f \in A!PageState /\ f.st = v.st /\ f.ask = v.ask /\ f.info = v.info
        /\ form' = [form EXCEPT ![p] = f]
    BY <1>3, <2>2 DEF A!Decide, A!PageState
  <2> HIDE DEF f
  <2>4. form' \in [Window -> A!PageState] /\ form'[p] = f /\ \A q \in Window : q # p => form'[q] = form[q]
    BY <1>t, <2>3
  <2> DEFINE g == [of |-> p, scope |-> form[p].info]
  <2>5. g \in [of : Window, scope : A!Scopes] /\ g.of = p
    BY <2>1
  <2>6. PICK op \in {"approve", "deny"} :
          /\ posting' = [posting EXCEPT ![p] = A!Sending(op)] /\ UNCHANGED <<client, given>>
          /\ agreed' = IF op = "approve" THEN agreed \cup {g} ELSE agreed
    BY <1>3 DEF A!Decide
  <2>g. form[p].ask # {} => g = [of |-> p, scope |-> form[p].ask]
    BY <2>1
  <2> HIDE DEF g
  <2>7. posting'[p] = A!Sending(op) /\ \A q \in Window : q # p => posting'[q] = posting[q]
    BY <1>t, <2>6
  <2>8. A!TypeOK'
    BY <1>t, <1>s, <2>4, <2>5, <2>6 DEF A!TypeOK
  <2>9. Lists(p)'
    BY <1>t, <1>s, <2>1, <2>2, <2>3, <2>4, <2>5, <2>g, <2>6, <2>7 DEF Lists
  <2>. QED  BY <2>4, <2>6, <2>7, <2>8, <2>9, ConsentKept
(* A route answers: the call is the same but for how it stands.             *)
<1>4. ASSUME NEW p \in Window, NEW w \in A!CallState, posting[p] # Null, posting' = [posting EXCEPT ![p] = w],
             UNCHANGED <<form, client, agreed>>, given' \subseteq [of : Window, ask : SUBSET Scope, scope : A!Scopes],
             w.op = posting[p].op, w.op = "info" /\ w.at = "ok" =>
               w.got \in A!Scopes /\ (form[p].ask # {} => w.got = form[p].ask),
             \A g \in given' : g \in given \/
               /\ \E a \in agreed' : a.of = g.of
               /\ g.ask # {} => g.scope = g.ask /\ [of |-> g.of, scope |-> g.scope] \in agreed'
      PROVE  ConsentInv'
  <2>1. posting'[p] = w /\ \A q \in Window : q # p => posting'[q] = posting[q]
    BY <1>t, <1>4
  <2>2. A!TypeOK'
    BY <1>t, <1>4 DEF A!TypeOK
  <2>3. Lists(p)'
    BY <1>t, <1>4, <2>1 DEF Lists
  <2>. QED  BY <1>4, <2>1, <2>2, <2>3, ConsentKept
<1>5. ASSUME NEW p \in Window, NEW op \in {"info", "approve", "deny"}, A!Reject(p, op) PROVE ConsentInv'
  <2>1. PICK v \in A!CallState : v = posting[p] /\ posting[p] # Null
    BY <1>t, <1>5 DEF A!Reject, A!Serve
  <2>2. PICK w \in A!CallState : w = [v EXCEPT !.at = "refused"]
    BY DEF A!CallState
  <2>3. w.op = v.op /\ w.at = "refused"
    BY <2>2 DEF A!CallState
  <2>. QED  BY <1>t, <1>4, <1>5, <2>1, <2>2, <2>3 DEF A!Reject
<1>f. \A p \in Window : A!ValidateAuthorize(p) =>
        A!FinalScopes(p) \in A!Scopes /\ (form[p].ask # {} => A!FinalScopes(p) = form[p].ask)
  <2> SUFFICES ASSUME NEW p \in Window, A!ValidateAuthorize(p)
               PROVE  A!FinalScopes(p) \in A!Scopes /\ (form[p].ask # {} => A!FinalScopes(p) = form[p].ask)
    OBVIOUS
  <2>1. form[p].ask \in SUBSET Scope
    BY <1>t DEF A!PageState
  <2>2. client \in A!Scopes
    BY <1>t DEF A!ValidateAuthorize, A!Scopes
  <2>. QED  BY <2>1, <2>2 DEF A!FinalScopes, A!Scopes
<1>6. ASSUME NEW p \in Window, A!AuthorizeInfo(p) PROVE ConsentInv'
  <2>1. PICK v \in A!CallState : v = posting[p] /\ posting[p] # Null
    BY <1>t, <1>6 DEF A!AuthorizeInfo, A!Serve
  <2>2. PICK s \in A!Scopes : s = A!FinalScopes(p) /\ (form[p].ask # {} => s = form[p].ask)
    BY <1>f, <1>6 DEF A!AuthorizeInfo
  <2>3. PICK w \in A!CallState : w = [v EXCEPT !.at = "ok", !.got = s]
    BY DEF A!CallState, A!Scopes
  <2>4. w.op = v.op /\ w.got = s
    BY <2>3 DEF A!CallState
  <2>5. posting' = [posting EXCEPT ![p] = w]
    BY <1>t, <1>6, <2>1, <2>2, <2>3 DEF A!AuthorizeInfo
  <2>. QED  BY <1>t, <1>4, <1>6, <2>1, <2>2, <2>4, <2>5 DEF A!AuthorizeInfo
<1>7. ASSUME NEW p \in Window, A!AuthorizeApprove(p) PROVE ConsentInv'
  <2>1. PICK v \in A!CallState : v = posting[p] /\ posting[p] # Null /\ v.op = "approve"
    BY <1>t, <1>7 DEF A!AuthorizeApprove, A!Serve
  <2>2. PICK s \in A!Scopes : s = A!FinalScopes(p) /\ (form[p].ask # {} => s = form[p].ask)
    BY <1>f, <1>7 DEF A!AuthorizeApprove
  <2>3. PICK w \in A!CallState : w = [v EXCEPT !.at = "ok"]
    BY DEF A!CallState
  <2>4. w.op = v.op
    BY <2>3 DEF A!CallState
  <2>5. PICK a \in SUBSET Scope : a = form[p].ask
    BY <1>t DEF A!PageState
  <2> DEFINE g == [of |-> p, ask |-> a, scope |-> s]
  <2>6. g \in [of : Window, ask : SUBSET Scope, scope : A!Scopes] /\ g.of = p /\ g.ask = a /\ g.scope = s
    OBVIOUS
  <2>7. (\E b \in agreed : b.of = p) /\ (a # {} => [of |-> p, scope |-> a] \in agreed)
    BY <1>t, <2>1, <2>5 DEF Lists
  <2>8. given' = given \cup {g} /\ posting' = [posting EXCEPT ![p] = w]
    BY <1>7, <2>1, <2>2, <2>3, <2>5 DEF A!AuthorizeApprove
  <2>9. given' \subseteq [of : Window, ask : SUBSET Scope, scope : A!Scopes]
    BY <1>t, <2>6, <2>8
  <2>10. agreed' = agreed /\ UNCHANGED <<form, client>>
    BY <1>7 DEF A!AuthorizeApprove
  <2>11. (\E b \in agreed' : b.of = g.of) /\ (g.ask # {} => g.scope = g.ask /\ [of |-> g.of, scope |-> g.scope] \in agreed')
    BY <2>2, <2>5, <2>6, <2>7, <2>10
  <2> HIDE DEF g
  <2>. QED  BY <1>4, <2>1, <2>4, <2>8, <2>9, <2>10, <2>11
<1>8. ASSUME NEW p \in Window, A!AuthorizeDeny(p) PROVE ConsentInv'
  <2>1. PICK v \in A!CallState : v = posting[p] /\ posting[p] # Null /\ v.op = "deny"
    BY <1>t, <1>8 DEF A!AuthorizeDeny, A!Serve
  <2>2. PICK w \in A!CallState : w = [v EXCEPT !.at = "ok"]
    BY DEF A!CallState
  <2>3. w.op = v.op
    BY <2>2 DEF A!CallState
  <2>. QED  BY <1>t, <1>4, <1>8, <2>1, <2>2, <2>3 DEF A!AuthorizeDeny
(* An answer arrives: the call is over.                                     *)
<1>9. ASSUME NEW p \in Window, NEW f \in A!PageState, posting' = [posting EXCEPT ![p] = Null],
             form' = [form EXCEPT ![p] = f], UNCHANGED <<client, agreed, given>>,
             f.st = "asks" => f.info \in A!Scopes /\ (f.ask # {} => f.info = f.ask)
      PROVE  ConsentInv'
  <2>1. posting'[p] = Null /\ \A q \in Window : q # p => posting'[q] = posting[q]
    BY <1>t, <1>9
  <2>2. form'[p] = f /\ \A q \in Window : q # p => form'[q] = form[q]
    BY <1>t, <1>9
  <2>3. A!TypeOK'
    BY <1>t, <1>9 DEF A!TypeOK
  <2>4. Lists(p)'
    BY <1>9, <2>1, <2>2 DEF Lists
  <2>. QED  BY <1>9, <2>1, <2>2, <2>3, <2>4, ConsentKept
<1>10. ASSUME NEW p \in Window, A!Loaded(p) PROVE ConsentInv'
  <2>1. CASE A!Take(p, "info", "ok") /\ form' = [form EXCEPT ![p].st = "asks", ![p].info = posting[p].got]
    <3>1. posting[p].got \in A!Scopes /\ (form[p].ask # {} => posting[p].got = form[p].ask)
      BY <1>t, <2>1 DEF A!Take, Lists
    <3>2. PICK s \in A!Scopes : s = posting[p].got
      BY <3>1
    <3>v. PICK v \in A!PageState : v = form[p]
      BY <1>t
    <3> DEFINE f == [v EXCEPT !.st = "asks", !.info = s]
    <3>3. f \in A!PageState
      BY DEF A!PageState
    <3>4. f.ask = v.ask /\ f.info = s
      BY DEF A!PageState
    <3>5. form' = [form EXCEPT ![p] = f]
      BY <1>t, <2>1, <3>2, <3>v
    <3>6. UNCHANGED <<client, agreed, given>> /\ posting' = [posting EXCEPT ![p] = Null]
      BY <2>1 DEF A!Take
    <3> HIDE DEF f
    <3>. QED  BY <1>9, <3>1, <3>2, <3>v, <3>3, <3>4, <3>5, <3>6
  <2>2. CASE A!Take(p, "info", "refused") /\ form' = [form EXCEPT ![p].st = "error"]
    <3>v. PICK v \in A!PageState : v = form[p]
      BY <1>t
    <3> DEFINE f == [v EXCEPT !.st = "error"]
    <3>1. f \in A!PageState /\ f.st = "error"
      BY DEF A!PageState
    <3>2. form' = [form EXCEPT ![p] = f]
      BY <2>2, <3>v
    <3> HIDE DEF f
    <3>. QED  BY <1>9, <2>2, <3>1, <3>2 DEF A!Take
  <2>. QED  BY <1>10, <2>1, <2>2 DEF A!Loaded
<1>11. ASSUME NEW p \in Window, NEW op \in {"approve", "deny"}, A!Decided(p, op) PROVE ConsentInv'
  <2>0. /\ form[p].st = "asks" /\ form[p].info \in A!Scopes /\ (form[p].ask # {} => form[p].info = form[p].ask)
        /\ UNCHANGED <<client, agreed, given>> /\ posting' = [posting EXCEPT ![p] = Null]
    BY <1>t, <1>11 DEF A!Decided, A!Take, Lists
  <2>1. ASSUME NEW st \in {"left", "asks"}, form' = [form EXCEPT ![p].st = st, ![p].busy = FALSE]
        PROVE  ConsentInv'
    <3>v. PICK v \in A!PageState : v = form[p]
      BY <1>t
    <3> DEFINE f == [v EXCEPT !.st = st, !.busy = FALSE]
    <3>1. f \in A!PageState /\ f.st = st /\ f.info = v.info /\ f.ask = v.ask
      BY DEF A!PageState
    <3>2. f.info = form[p].info /\ f.ask = form[p].ask /\ form' = [form EXCEPT ![p] = f]
      BY <2>1, <3>v, <3>1
    <3> HIDE DEF f
    <3>. QED  BY <1>9, <2>0, <3>1, <3>2
  <2>2. CASE form' = [form EXCEPT ![p].busy = FALSE]
    <3>v. PICK v \in A!PageState : v = form[p]
      BY <1>t
    <3> DEFINE f == [v EXCEPT !.busy = FALSE]
    <3>1. f \in A!PageState /\ f.st = v.st /\ f.info = v.info /\ f.ask = v.ask
      BY DEF A!PageState
    <3>2. f.st = form[p].st /\ f.info = form[p].info /\ f.ask = form[p].ask /\ form' = [form EXCEPT ![p] = f]
      BY <2>2, <3>v, <3>1
    <3> HIDE DEF f
    <3>. QED  BY <1>9, <2>0, <3>1, <3>2
  <2>. QED  BY <1>11, <2>1, <2>2 DEF A!Decided
<1>12. ASSUME NEW p \in Window, A!Fails(p) PROVE ConsentInv'
  <2>1. posting'[p] = Null /\ \A q \in Window : q # p => posting'[q] = posting[q]
    BY <1>t, <1>12 DEF A!Fails
  <2>2. A!TypeOK'
    BY <1>t, <1>12 DEF A!TypeOK, A!Fails
  <2>. QED  BY <1>12, <2>1, <2>2, ConsentKept DEF A!Fails
<1>. QED  BY <1>1, <1>2, <1>3, <1>5, <1>6, <1>7, <1>8, <1>10, <1>11, <1>12 DEF A!Next

----------------------------------------------------------------------------
(* Pairing: what an approval answered yes is about stays the user's, as no  *)
(* claim of it, but for one call's, may still be given up.                  *)
Pending(r, d) == asking[r] # Null /\ asking[r].on = d /\ asking[r].at \in {"claimed", "undo"}
Sealed(d, p, own) ==
  /\ code[d] # Null /\ code[d].by = p /\ code[d].st \in {"approved", "taken", "gone"}
  /\ \A r \in Asking \ own : ~Pending(r, d)
Refused(d, p) == code[d] # Null /\ code[d].by = p /\ code[d].st \in {"denied", "gone"}
Told(r) == asking[r] # Null =>
  /\ asking[r].op = "approve" => <<asking[r].of, asking[r].on>> \in shown
  /\ asking[r].at \in {"claimed", "undo"} => asking[r].op = "approve" /\ code[asking[r].on] # Null
  /\ asking[r].at = "undo" => code[asking[r].on].late
  /\ asking[r].at = "claimed" =>
       code[asking[r].on].late \/ Sealed(asking[r].on, asking[r].of, {r})
  /\ asking[r].at = "ok" /\ asking[r].op = "approve" => Sealed(asking[r].on, asking[r].of, {})
  /\ asking[r].at = "ok" /\ asking[r].op = "deny" => Refused(asking[r].on, asking[r].of)
Lets(d) == code[d] # Null /\ code[d].st \in {"approved", "taken"} => <<code[d].by, d>> \in shown
PairInv(pages, devices) ==
  /\ D(pages, devices)!TypeOK
  /\ \A r \in Asking : Told(r)
  /\ \A d \in devices : Lets(d)
  /\ \A p \in pages :
       /\ screen[p].decided = "approved" => \E d \in devices : Sealed(d, p, {})
       /\ screen[p].decided = "denied" => \E d \in devices : Refused(d, p)

(* What a page, a code and a call may do to each other, whichever pages and *)
(* devices: the rows of the two runs are told apart from Null.              *)
RowsTold(pages, devices) ==
  /\ Null \notin D(pages, devices)!CodeRow \cup D(pages, devices)!CallState \cup devices
  /\ Null \notin {"approved", "denied"}

(* At the start there are no codes, and no page shows one.                  *)
LEMMA PairInit ==
  ASSUME NEW pages, NEW devices, RowsTold(pages, devices), D(pages, devices)!Init
  PROVE  PairInv(pages, devices)
<1>1. /\ code = [d \in devices |-> Null] /\ asking = [r \in Asking |-> Null] /\ shown = {}
      /\ screen = [p \in pages |-> [typed |-> Null, info |-> Null, busy |-> FALSE, decided |-> Null]]
  BY DEF D!Init
<1>2. screen \in [pages -> D(pages, devices)!PageState] /\ \A p \in pages : screen[p].decided = Null
  BY <1>1 DEF D!PageState
<1>3. D(pages, devices)!TypeOK
  BY <1>1, <1>2 DEF D!TypeOK
<1>. QED  BY <1>1, <1>2, <1>3 DEF PairInv, Told, Lets, RowsTold
(* The invariant lasts while a code stays late, what an approval or a       *)
(* denial answered yes left stays, and calls and pages are unchanged or     *)
(* tell what is so.                                                         *)
LEMMA PairKept ==
  ASSUME NEW pages, NEW devices, RowsTold(pages, devices), PairInv(pages, devices),
         D(pages, devices)!TypeOK', shown \subseteq shown',
         \A d \in devices : code[d] # Null => code'[d] # Null /\ (code[d].late => code'[d].late),
         \A d \in devices, p \in pages : \A own \in SUBSET Asking :
           Sealed(d, p, own) => Sealed(d, p, own)' \/ (own # {} /\ code'[d].late),
         \A d \in devices, p \in pages : Refused(d, p) => Refused(d, p)',
         \A d \in devices : Lets(d)' \/ code'[d] = code[d],
         \A r \in Asking : Told(r)' \/ asking'[r] = asking[r],
         \A p \in pages : screen'[p].decided = screen[p].decided \/
           /\ screen'[p].decided = "approved" => \E d \in devices : Sealed(d, p, {})'
           /\ screen'[p].decided = "denied" => \E d \in devices : Refused(d, p)'
  PROVE  PairInv(pages, devices)'
<1>1. \A d \in devices : Lets(d)'
  BY DEF PairInv, Lets
<1>2. ASSUME NEW r \in Asking, asking'[r] = asking[r], asking[r] # Null
      PROVE  Told(r)'
  <2>1. asking[r].of \in pages /\ asking[r].on \in devices /\ Told(r)
    BY <1>2 DEF PairInv, D!TypeOK, D!CallState
  <2>2. PICK d \in devices, p \in pages : d = asking[r].on /\ p = asking[r].of
    BY <2>1
  <2>3. /\ (Sealed(d, p, {}) => Sealed(d, p, {})') /\ (Refused(d, p) => Refused(d, p)')
        /\ (code[d] # Null => code'[d] # Null /\ (code[d].late => code'[d].late))
        /\ Sealed(d, p, {r}) => Sealed(d, p, {r})' \/ code'[d].late
    <3>1. {} \in SUBSET Asking /\ {r} \in SUBSET Asking
      OBVIOUS
    <3>. QED  BY <3>1
  <2>4. asking'[r].on = d /\ asking'[r].of = p
    BY <1>2, <2>2
  <2>5. asking[r].at = "ok" /\ asking[r].op = "approve" => Sealed(d, p, {})'
    <3>1. asking[r].at = "ok" /\ asking[r].op = "approve" => Sealed(asking[r].on, asking[r].of, {})
      BY <1>2, <2>1 DEF Told
    <3>. QED  BY <2>2, <2>3, <3>1
  <2>6. asking[r].at = "ok" /\ asking[r].op = "deny" => Refused(d, p)'
    <3>1. asking[r].at = "ok" /\ asking[r].op = "deny" => Refused(asking[r].on, asking[r].of)
      BY <1>2, <2>1 DEF Told
    <3>. QED  BY <2>2, <2>3, <3>1
  <2>7. asking[r].at = "claimed" => code'[d].late \/ Sealed(d, p, {r})'
    <3>1. asking[r].at = "claimed" => code[d] # Null /\ (code[d].late \/ Sealed(d, p, {r}))
      BY <1>2, <2>1, <2>2 DEF Told
    <3>. QED  BY <2>3, <3>1
  <2>8. /\ asking[r].op = "approve" => <<p, d>> \in shown'
        /\ asking[r].at \in {"claimed", "undo"} => asking[r].op = "approve" /\ code'[d] # Null
        /\ asking[r].at = "undo" => code'[d].late
    BY <1>2, <2>1, <2>2, <2>3 DEF Told
  <2>. QED  BY <1>2, <2>2, <2>4, <2>5, <2>6, <2>7, <2>8 DEF Told, Sealed, Pending, Refused
<1>3. \A r \in Asking : Told(r)'
  BY <1>2 DEF Told
<1>4. ASSUME NEW p \in pages
      PROVE  /\ screen'[p].decided = "approved" => \E d \in devices : Sealed(d, p, {})'
             /\ screen'[p].decided = "denied" => \E d \in devices : Refused(d, p)'
  BY DEF PairInv
<1>. QED  BY <1>1, <1>3, <1>4 DEF PairInv

(* While no further approval is to be given up, codes that only move on     *)
(* leave decided what was decided.                                          *)
MovesOn(d) == code[d] # Null =>
  /\ code'[d] # Null /\ (code[d].late => code'[d].late)
  /\ code[d].st # "open" => code'[d].by = code[d].by
  /\ code[d].st \in {"approved", "taken", "gone"} => code'[d].st \in {"approved", "taken", "gone"}
  /\ code[d].st \in {"denied", "gone"} => code'[d].st \in {"denied", "gone"}

(* What was decided of a code stays decided, and a page that was refused    *)
(* stays refused.                                                           *)
LEMMA DecidedLasts ==
  ASSUME NEW pages, NEW devices, \A d \in devices : MovesOn(d),
         \A r \in Asking, d \in devices : Pending(r, d)' =>
           Pending(r, d) \/ (code[d] # Null => code[d].st = "open")
  PROVE  /\ \A d \in devices, p \in pages : \A own \in SUBSET Asking :
              Sealed(d, p, own) => Sealed(d, p, own)'
         /\ \A d \in devices, p \in pages : Refused(d, p) => Refused(d, p)'
         /\ \A d \in devices : code[d] # Null => code'[d] # Null /\ (code[d].late => code'[d].late)
<1>1. ASSUME NEW d \in devices, NEW p \in pages, NEW own \in SUBSET Asking, Sealed(d, p, own)
      PROVE  Sealed(d, p, own)'
  <2>1. /\ code[d] # Null /\ code[d].by = p /\ code[d].st \in {"approved", "taken", "gone"}
        /\ \A r \in Asking \ own : ~Pending(r, d)
    BY <1>1 DEF Sealed
  <2>2. code'[d] # Null /\ code'[d].by = p /\ code'[d].st \in {"approved", "taken", "gone"}
    BY <2>1 DEF MovesOn
  <2>3. \A r \in Asking \ own : ~Pending(r, d)'
    BY <2>1
  <2>. QED  BY <2>2, <2>3 DEF Sealed
<1>2. ASSUME NEW d \in devices, NEW p \in pages, Refused(d, p)
      PROVE  Refused(d, p)'
  BY <1>2 DEF Refused, MovesOn
<1>. QED  BY <1>1, <1>2 DEF MovesOn

(* Every step of a device, a page, a route and the clock.                   *)
LEMMA PairStep ==
  ASSUME NEW pages, NEW devices, RowsTold(pages, devices), PairInv(pages, devices),
         [D(pages, devices)!Next]_pairing
  PROVE  PairInv(pages, devices)'
<1>t. /\ code \in [devices -> D(pages, devices)!CodeRow \cup {Null}]
      /\ screen \in [pages -> D(pages, devices)!PageState]
      /\ asking \in [Asking -> D(pages, devices)!CallState \cup {Null}]
      /\ shown \subseteq pages \X devices
      /\ \A r \in Asking : Told(r)
      /\ \A d \in devices : Lets(d)
  BY DEF PairInv, D!TypeOK
<1>n. /\ \A v \in D(pages, devices)!CodeRow : v # Null
      /\ \A v \in D(pages, devices)!CallState : v # Null
      /\ \A d \in devices : d # Null
      /\ Null \notin {"approved", "denied"}
  BY DEF RowsTold
<1>1. CASE UNCHANGED pairing
  <2>1. D(pages, devices)!TypeOK'
    BY <1>t, <1>1 DEF pairing, D!TypeOK
  <2>2. /\ \A d \in devices, p \in pages : \A own \in SUBSET Asking :
             Sealed(d, p, own) => Sealed(d, p, own)'
        /\ \A d \in devices, p \in pages : Refused(d, p) => Refused(d, p)'
    BY <1>1 DEF pairing, Sealed, Pending, Refused
  <2>. QED  BY <1>1, <2>1, <2>2, PairKept DEF pairing
(* A code changes: what was decided of it stays.                            *)
<1>2. ASSUME NEW d \in devices, NEW c \in D(pages, devices)!CodeRow, code' = [code EXCEPT ![d] = c],
             UNCHANGED <<screen, asking, shown>>,
             code[d] # Null =>
               /\ code[d].late => c.late
               /\ code[d].st # "open" => c.by = code[d].by
               /\ code[d].st \in {"approved", "taken", "gone"} => c.st \in {"approved", "taken", "gone"}
               /\ code[d].st \in {"denied", "gone"} => c.st \in {"denied", "gone"},
             c.st \in {"approved", "taken"} => code[d] # Null /\ code[d].st \in {"approved", "taken"}
      PROVE  PairInv(pages, devices)'
  <2>1. code'[d] = c /\ \A e \in devices : e # d => code'[e] = code[e]
    BY <1>t, <1>2
  <2>2. D(pages, devices)!TypeOK'
    BY <1>t, <1>2 DEF D!TypeOK
  <2>3. \A e \in devices : MovesOn(e)
    BY <1>n, <1>2, <2>1 DEF MovesOn
  <2>4. Lets(d)'
    BY <1>t, <1>2, <2>1 DEF Lets
  <2>p. \A q \in Asking, e \in devices : Pending(q, e)' => Pending(q, e)
    BY <1>2 DEF Pending
  <2>5. /\ \A e \in devices, q \in pages : \A own \in SUBSET Asking :
             Sealed(e, q, own) => Sealed(e, q, own)'
        /\ \A e \in devices, q \in pages : Refused(e, q) => Refused(e, q)'
        /\ \A e \in devices : code[e] # Null => code'[e] # Null /\ (code[e].late => code'[e].late)
    BY <2>3, <2>p, DecidedLasts
  <2>. QED  BY <1>2, <2>1, <2>2, <2>4, <2>5, PairKept
<1>3. ASSUME NEW d \in devices, D(pages, devices)!DeviceAuthorize(d)
      PROVE  PairInv(pages, devices)'
  <2> DEFINE c == [st |-> "open", by |-> Null, late |-> FALSE]
  <2>1. c \in D(pages, devices)!CodeRow /\ c.st = "open"
    BY DEF D!CodeRow
  <2>2. code[d] = Null /\ code' = [code EXCEPT ![d] = c] /\ UNCHANGED <<screen, asking, shown>>
    BY <1>3 DEF D!DeviceAuthorize
  <2> HIDE DEF c
  <2>. QED  BY <1>2, <2>1, <2>2
<1>4. ASSUME NEW d \in devices, D(pages, devices)!Expire(d)
      PROVE  PairInv(pages, devices)'
  <2>1. PICK v \in D(pages, devices)!CodeRow : v = code[d] /\ code[d] # Null
    BY <1>t, <1>4 DEF D!Expire, D!Is
  <2> DEFINE c == [v EXCEPT !.late = TRUE]
  <2>2. c \in D(pages, devices)!CodeRow /\ c.st = v.st /\ c.by = v.by /\ c.late
    BY DEF D!CodeRow
  <2>3. code' = [code EXCEPT ![d] = c] /\ UNCHANGED <<screen, asking, shown>>
    BY <1>4, <2>1 DEF D!Expire
  <2> HIDE DEF c
  <2>. QED  BY <1>2, <2>1, <2>2, <2>3
<1>5. ASSUME NEW d \in devices, NEW st \in {"taken", "gone"}, code[d] # Null,
             st = "taken" => code[d].st = "approved", D(pages, devices)!Mark(d, st),
             UNCHANGED <<screen, asking, shown>>
      PROVE  PairInv(pages, devices)'
  <2>1. PICK v \in D(pages, devices)!CodeRow : v = code[d]
    BY <1>t, <1>5
  <2> DEFINE c == [v EXCEPT !.st = st]
  <2>2. c \in D(pages, devices)!CodeRow /\ c.st = st /\ c.by = v.by /\ c.late = v.late
    BY DEF D!CodeRow
  <2>3. code' = [code EXCEPT ![d] = c]
    BY <1>5, <2>1 DEF D!Mark
  <2> HIDE DEF c
  <2>. QED  BY <1>2, <1>5, <2>1, <2>2, <2>3
<1>6. ASSUME NEW d \in devices, D(pages, devices)!SweepExpiredDeviceCodes(d)
      PROVE  PairInv(pages, devices)'
  BY <1>5, <1>6 DEF D!SweepExpiredDeviceCodes
<1>7. ASSUME NEW d \in devices, D(pages, devices)!Poll(d)
      PROVE  PairInv(pages, devices)'
  BY <1>5, <1>7 DEF D!Poll, D!Is
(* A page changes and codes do not; a call that is over may be taken off,   *)
(* and one may be sent.                                                     *)
<1>8. ASSUME NEW p \in pages, NEW f \in D(pages, devices)!PageState, screen' = [screen EXCEPT ![p] = f],
             UNCHANGED code, shown \subseteq shown', shown' \subseteq pages \X devices,
             asking' \in [Asking -> D(pages, devices)!CallState \cup {Null}],
             \A r \in Asking : asking'[r] \in {asking[r], Null} \/
               /\ asking'[r].at = "sent"
               /\ asking'[r].op = "approve" => <<asking'[r].of, asking'[r].on>> \in shown',
             f.decided = screen[p].decided \/
               /\ f.decided = "approved" => \E d \in devices : Sealed(d, p, {})
               /\ f.decided = "denied" => \E d \in devices : Refused(d, p)
      PROVE  PairInv(pages, devices)'
  <2>1. screen'[p] = f /\ \A q \in pages : q # p => screen'[q] = screen[q]
    BY <1>t, <1>8
  <2>2. D(pages, devices)!TypeOK'
    BY <1>t, <1>8 DEF D!TypeOK
  <2>3. \A d \in devices : MovesOn(d)
    BY <1>8 DEF MovesOn
  <2>4. \A r \in Asking, d \in devices : Pending(r, d)' => Pending(r, d)
    BY <1>8 DEF Pending
  <2>5. /\ \A d \in devices, q \in pages : \A own \in SUBSET Asking :
             Sealed(d, q, own) => Sealed(d, q, own)'
        /\ \A d \in devices, q \in pages : Refused(d, q) => Refused(d, q)'
        /\ \A d \in devices : code[d] # Null => code'[d] # Null /\ (code[d].late => code'[d].late)
    BY <2>3, <2>4, DecidedLasts
  <2>6. \A r \in Asking : Told(r)' \/ asking'[r] = asking[r]
    BY <1>8 DEF Told
  <2>7. \/ screen'[p].decided = screen[p].decided
        \/ /\ screen'[p].decided = "approved" => \E d \in devices : Sealed(d, p, {})'
           /\ screen'[p].decided = "denied" => \E d \in devices : Refused(d, p)'
    BY <1>8, <2>1, <2>5
  <2>. QED  BY <1>8, <2>1, <2>2, <2>5, <2>6, <2>7, PairKept
<1>9. ASSUME NEW p \in pages, NEW d \in devices, D(pages, devices)!Type(p, d)
      PROVE  PairInv(pages, devices)'
  <2>1. PICK v \in D(pages, devices)!PageState : v = screen[p]
    BY <1>t
  <2> DEFINE f == [v EXCEPT !.typed = d]
  <2>2. f \in D(pages, devices)!PageState /\ f.decided = v.decided
    BY DEF D!PageState
  <2>3. screen' = [screen EXCEPT ![p] = f] /\ UNCHANGED <<code, asking, shown>>
    BY <1>9, <2>1 DEF D!Type
  <2> HIDE DEF f
  <2>. QED  BY <1>t, <1>8, <2>1, <2>2, <2>3
(* A call is sent.                                                          *)
<1>10. ASSUME NEW p \in pages, NEW op \in {"info", "approve", "deny"}, NEW d \in devices,
              D(pages, devices)!Send(p, op, d)
       PROVE  /\ asking' \in [Asking -> D(pages, devices)!CallState \cup {Null}]
              /\ \A r \in Asking : asking'[r] \in {asking[r], Null} \/
                   /\ asking'[r].at = "sent"
                   /\ asking'[r].op = op /\ asking'[r].of = p /\ asking'[r].on = d
  <2>1. PICK r \in Asking : asking' = [asking EXCEPT ![r] = [of |-> p, op |-> op, on |-> d, at |-> "sent"]]
    BY <1>10 DEF D!Send
  <2> DEFINE w == [of |-> p, op |-> op, on |-> d, at |-> "sent"]
  <2>2. w \in D(pages, devices)!CallState /\ w.at = "sent" /\ w.op = op /\ w.of = p /\ w.on = d
    BY DEF D!CallState
  <2>3. asking' = [asking EXCEPT ![r] = w]
    BY <2>1
  <2> HIDE DEF w
  <2>. QED  BY <1>t, <2>2, <2>3
<1>11. ASSUME NEW p \in pages, D(pages, devices)!FetchInfo(p)
       PROVE  PairInv(pages, devices)'
  <2>1. PICK v \in D(pages, devices)!PageState : v = screen[p]
    BY <1>t
  <2>2. PICK d \in devices : d = screen[p].typed
    BY <1>t, <1>11 DEF D!FetchInfo, D!PageState
  <2> DEFINE f == [v EXCEPT !.busy = TRUE]
  <2>3. f \in D(pages, devices)!PageState /\ f.decided = v.decided
    BY DEF D!PageState
  <2>4. /\ screen' = [screen EXCEPT ![p] = f] /\ UNCHANGED <<code, shown>>
        /\ D(pages, devices)!Send(p, "info", d)
    BY <1>11, <2>1, <2>2 DEF D!FetchInfo
  <2> HIDE DEF f
  <2>5. /\ asking' \in [Asking -> D(pages, devices)!CallState \cup {Null}]
        /\ \A r \in Asking : asking'[r] \in {asking[r], Null} \/
             /\ asking'[r].at = "sent"
             /\ asking'[r].op = "info"
    BY <1>10, <2>4
  <2>. QED  BY <1>t, <1>8, <2>1, <2>3, <2>4, <2>5
<1>12. ASSUME NEW p \in pages, D(pages, devices)!Decide(p)
       PROVE  PairInv(pages, devices)'
  <2>1. PICK v \in D(pages, devices)!PageState : v = screen[p]
    BY <1>t
  <2>2. PICK d \in devices : d = screen[p].info
    BY <1>t, <1>12 DEF D!Decide, D!PageState
  <2> DEFINE f == [v EXCEPT !.busy = TRUE]
  <2>3. f \in D(pages, devices)!PageState /\ f.decided = v.decided
    BY DEF D!PageState
  <2>4. PICK op \in {"approve", "deny"} :
          /\ screen' = [screen EXCEPT ![p] = f] /\ UNCHANGED code
          /\ D(pages, devices)!Send(p, op, d)
          /\ shown' = IF op = "approve" THEN shown \cup {<<p, d>>} ELSE shown
    BY <1>12, <2>1, <2>2 DEF D!Decide, D!DecidedOn
  <2> HIDE DEF f
  <2>5. /\ asking' \in [Asking -> D(pages, devices)!CallState \cup {Null}]
        /\ \A r \in Asking : asking'[r] \in {asking[r], Null} \/
             /\ asking'[r].at = "sent"
             /\ asking'[r].op = op /\ asking'[r].of = p /\ asking'[r].on = d
    BY <1>10, <2>4
  <2>6. shown \subseteq shown' /\ shown' \subseteq pages \X devices
    BY <1>t, <2>4
  <2>7. \A r \in Asking : asking'[r] \in {asking[r], Null} \/
           /\ asking'[r].at = "sent"
           /\ asking'[r].op = "approve" => <<asking'[r].of, asking'[r].on>> \in shown'
    BY <2>4, <2>5
  <2>. QED  BY <1>8, <2>1, <2>3, <2>4, <2>5, <2>6, <2>7
(* An answer arrives: its call is over, and the page shows it.              *)
<1>13. ASSUME NEW r \in Asking, NEW p \in pages, NEW g \in D(pages, devices)!PageState,
              asking' = [asking EXCEPT ![r] = Null], UNCHANGED <<code, shown>>,
              D(pages, devices)!Show(p, g),
              g.decided = screen[p].decided \/
                /\ g.decided = "approved" => \E d \in devices : Sealed(d, p, {})
                /\ g.decided = "denied" => \E d \in devices : Refused(d, p)
       PROVE  PairInv(pages, devices)'
  <2>1. PICK v \in D(pages, devices)!PageState : v = screen[p]
    BY <1>t
  <2> DEFINE h == [g EXCEPT !.busy = FALSE]
  <2>2. h \in D(pages, devices)!PageState /\ h.decided = g.decided
    BY DEF D!PageState
  <2>3. screen' = [screen EXCEPT ![p] = h]
    BY <1>13, <2>1 DEF D!Show
  <2> HIDE DEF h
  <2>4. /\ asking' \in [Asking -> D(pages, devices)!CallState \cup {Null}]
        /\ \A q \in Asking : asking'[q] \in {asking[q], Null}
    BY <1>t, <1>13
  <2>. QED  BY <1>t, <1>8, <1>13, <2>1, <2>2, <2>3, <2>4
<1>14. ASSUME NEW r \in Asking, D(pages, devices)!InfoArrives(r)
       PROVE  PairInv(pages, devices)'
  <2>0. /\ asking' = [asking EXCEPT ![r] = Null] /\ UNCHANGED <<code, shown>> /\ asking[r] # Null
    BY <1>14 DEF D!InfoArrives, D!Take
  <2>1. PICK w \in D(pages, devices)!CallState : w = asking[r]
    BY <1>t, <2>0
  <2>2. PICK p \in pages, d \in devices : p = w.of /\ d = w.on
    BY DEF D!CallState
  <2>3. PICK v \in D(pages, devices)!PageState : v = screen[p]
    BY <1>t
  <2>4. PICK i \in devices \cup {Null} : D(pages, devices)!Show(p, [v EXCEPT !.info = i])
    BY <1>14, <2>1, <2>2, <2>3 DEF D!InfoArrives
  <2> DEFINE g == [v EXCEPT !.info = i]
  <2>5. g \in D(pages, devices)!PageState /\ g.decided = v.decided /\ D(pages, devices)!Show(p, g)
    BY <2>4 DEF D!PageState
  <2> HIDE DEF g
  <2>. QED  BY <1>13, <2>0, <2>3, <2>5
<1>15. ASSUME NEW r \in Asking, D(pages, devices)!DecisionArrives(r)
       PROVE  PairInv(pages, devices)'
  <2>0. /\ asking' = [asking EXCEPT ![r] = Null] /\ UNCHANGED <<code, shown>> /\ asking[r] # Null
    BY <1>15 DEF D!DecisionArrives, D!Take
  <2>1. PICK w \in D(pages, devices)!CallState : w = asking[r]
    BY <1>t, <2>0
  <2>2. PICK p \in pages, d \in devices : p = w.of /\ d = w.on
    BY DEF D!CallState
  <2>3. PICK v \in D(pages, devices)!PageState : v = screen[p]
    BY <1>t
  <2>4. /\ w.at = "ok" /\ w.op = "approve" => Sealed(d, p, {})
        /\ w.at = "ok" /\ w.op = "deny" => Refused(d, p)
    BY <1>t, <2>0, <2>1, <2>2 DEF Told
  <2>5. CASE w.op = "approve" /\ w.at = "ok" /\ D(pages, devices)!Show(p, [v EXCEPT !.decided = "approved"])
    <3> DEFINE g == [v EXCEPT !.decided = "approved"]
    <3>1. g \in D(pages, devices)!PageState /\ g.decided = "approved" /\ D(pages, devices)!Show(p, g)
      BY <2>5 DEF D!PageState
    <3> HIDE DEF g
    <3>. QED  BY <1>13, <2>0, <2>4, <2>5, <3>1
  <2>6. CASE w.op = "deny" /\ w.at = "ok" /\ D(pages, devices)!Show(p, [v EXCEPT !.decided = "denied"])
    <3> DEFINE g == [v EXCEPT !.decided = "denied"]
    <3>1. g \in D(pages, devices)!PageState /\ g.decided = "denied" /\ D(pages, devices)!Show(p, g)
      BY <2>6 DEF D!PageState
    <3> HIDE DEF g
    <3>. QED  BY <1>13, <2>0, <2>4, <2>6, <3>1
  <2>7. CASE D(pages, devices)!Show(p, v)
    BY <1>13, <2>0, <2>3, <2>7
  <2>. QED  BY <1>15, <2>1, <2>2, <2>3, <2>5, <2>6, <2>7 DEF D!DecisionArrives, D!Take
<1>16. ASSUME NEW r \in Asking, D(pages, devices)!Fails(r)
       PROVE  PairInv(pages, devices)'
  <2>1. PICK w \in D(pages, devices)!CallState : w = asking[r]
    BY <1>t, <1>16 DEF D!Fails
  <2>2. PICK p \in pages : p = w.of
    BY DEF D!CallState
  <2>3. PICK v \in D(pages, devices)!PageState : v = screen[p]
    BY <1>t
  <2>4. screen' = [screen EXCEPT ![p] = v]
    BY <1>t, <1>16, <2>3 DEF D!Fails
  <2>5. /\ asking' \in [Asking -> D(pages, devices)!CallState \cup {Null}]
        /\ \A q \in Asking : asking'[q] \in {asking[q], Null}
    BY <1>t, <1>16 DEF D!Fails
  <2>6. UNCHANGED <<code, shown>>
    BY <1>16 DEF D!Fails
  <2>. QED  BY <1>t, <1>8, <2>3, <2>4, <2>5, <2>6
(* A route answers its call, and the code may have moved on with it.        *)
<1>20. ASSUME NEW r \in Asking, NEW w \in D(pages, devices)!CallState, asking[r] # Null,
              asking' = [asking EXCEPT ![r] = w], UNCHANGED <<screen, shown>>,
              code' \in [devices -> D(pages, devices)!CodeRow \cup {Null}],
              \A d \in devices : MovesOn(d), \A d \in devices : Lets(d)' \/ code'[d] = code[d],
              Told(r)',
              w.at \in {"claimed", "undo"} => Pending(r, w.on) \/ code[w.on].st = "open"
       PROVE  PairInv(pages, devices)'
  <2>1. asking'[r] = w /\ \A q \in Asking : q # r => asking'[q] = asking[q]
    BY <1>t, <1>20
  <2>2. D(pages, devices)!TypeOK'
    BY <1>t, <1>20 DEF D!TypeOK
  <2>3. \A q \in Asking, d \in devices : Pending(q, d)' =>
          Pending(q, d) \/ (code[d] # Null => code[d].st = "open")
    BY <1>20, <2>1 DEF Pending
  <2>4. /\ \A d \in devices, q \in pages : \A own \in SUBSET Asking :
             Sealed(d, q, own) => Sealed(d, q, own)'
        /\ \A d \in devices, q \in pages : Refused(d, q) => Refused(d, q)'
        /\ \A d \in devices : code[d] # Null => code'[d] # Null /\ (code[d].late => code'[d].late)
    BY <1>20, <2>3, DecidedLasts
  <2>. QED  BY <1>20, <2>1, <2>2, <2>4, PairKept
<1>21. ASSUME NEW r \in Asking, NEW w \in D(pages, devices)!CallState, asking[r] # Null,
              asking' = [asking EXCEPT ![r] = w], UNCHANGED <<code, screen, shown>>,
              w.op = asking[r].op /\ w.of = asking[r].of /\ w.on = asking[r].on,
              w.at = "refused" \/ (w.at = "ok" /\ w.op = "info")
       PROVE  PairInv(pages, devices)'
  <2>1. asking'[r] = w
    BY <1>t, <1>21
  <2>2. Told(r)'
    BY <1>t, <1>21, <2>1 DEF Told
  <2>3. \A d \in devices : MovesOn(d)
    BY <1>21 DEF MovesOn
  <2>. QED  BY <1>t, <1>20, <1>21, <2>2, <2>3
<1>22. ASSUME NEW r \in Asking, D(pages, devices)!DeviceInfo(r)
       PROVE  PairInv(pages, devices)'
  <2>1. PICK v \in D(pages, devices)!CallState : v = asking[r] /\ asking[r] # Null /\ v.op = "info"
    BY <1>t, <1>22 DEF D!DeviceInfo, D!Serve
  <2>2. PICK st \in {"ok", "refused"} : asking' = [asking EXCEPT ![r] = [v EXCEPT !.at = st]]
    BY <1>22, <2>1 DEF D!DeviceInfo, D!Answer
  <2> DEFINE w == [v EXCEPT !.at = st]
  <2>3. /\ w \in D(pages, devices)!CallState /\ w.at = st /\ w.op = v.op /\ w.of = v.of /\ w.on = v.on
        /\ asking' = [asking EXCEPT ![r] = w]
    BY <2>2 DEF D!CallState
  <2> HIDE DEF w
  <2>4. UNCHANGED <<code, screen, shown>>
    BY <1>22 DEF D!DeviceInfo
  <2>. QED  BY <1>21, <2>1, <2>3, <2>4
(* The statement that claims a code: an open one, or nothing.               *)
<1>23. ASSUME NEW r \in Asking, asking[r] # Null, NEW st \in {"approved", "denied"}, NEW to \in {"ok", "claimed"},
              D(pages, devices)!Claim(r, st, to),
              asking[r].op = IF st = "approved" THEN "approve" ELSE "deny",
              st = "denied" => to = "ok",
              st = "approved" => to = "claimed"
       PROVE  PairInv(pages, devices)'
  <2>1. PICK v \in D(pages, devices)!CallState : v = asking[r]
    BY <1>t, <1>23
  <2>2. PICK p \in pages, d \in devices : p = v.of /\ d = v.on
    BY DEF D!CallState
  <2>3. CASE ~D(pages, devices)!Is(d, "open")
    <3> DEFINE w == [v EXCEPT !.at = "refused"]
    <3>1. w \in D(pages, devices)!CallState /\ w.at = "refused" /\ w.op = v.op /\ w.of = v.of /\ w.on = v.on
      BY DEF D!CallState
    <3>2. asking' = [asking EXCEPT ![r] = w] /\ UNCHANGED <<code, screen, shown>>
      BY <1>23, <2>1, <2>2, <2>3 DEF D!Claim, D!Answer
    <3> HIDE DEF w
    <3>. QED  BY <1>21, <1>23, <2>1, <3>1, <3>2
  <2>4. CASE D(pages, devices)!Is(d, "open")
    <3>1. code[d] # Null /\ code[d].st = "open"
      BY <2>4 DEF D!Is
    <3>2. PICK u \in D(pages, devices)!CodeRow : u = code[d]
      BY <1>t, <3>1
    <3> DEFINE c == [u EXCEPT !.st = st, !.by = p]
               w == [v EXCEPT !.at = to]
    <3>3. c \in D(pages, devices)!CodeRow /\ c.st = st /\ c.by = p /\ c.late = u.late
      BY DEF D!CodeRow
    <3>4. w \in D(pages, devices)!CallState /\ w.at = to /\ w.op = v.op /\ w.of = p /\ w.on = d
      BY <2>2 DEF D!CallState
    <3>5. /\ asking' = [asking EXCEPT ![r] = w] /\ code' = [code EXCEPT ![d] = c]
          /\ UNCHANGED <<screen, shown>>
      BY <1>23, <2>1, <2>2, <2>4, <3>2 DEF D!Claim, D!Answer
    <3> HIDE DEF c, w
    <3>6. /\ code'[d] = c /\ \A e \in devices : e # d => code'[e] = code[e]
          /\ asking'[r] = w /\ \A q \in Asking : q # r => asking'[q] = asking[q]
      BY <1>t, <3>5
    <3>7. \A e \in devices : MovesOn(e)
      BY <1>n, <3>1, <3>2, <3>3, <3>6 DEF MovesOn
    <3>8. st = "approved" => <<p, d>> \in shown /\ to = "claimed"
      BY <1>t, <1>23, <2>1, <2>2 DEF Told
    <3>9. Lets(d)'
      BY <1>n, <3>3, <3>5, <3>6, <3>8 DEF Lets
    <3>10. \A q \in Asking : Pending(q, d) => u.late
      BY <1>t, <3>1, <3>2 DEF Told, Sealed, Pending
    <3>11. CASE st = "approved"
      <4>1. ~u.late => \A q \in Asking \ {r} : ~Pending(q, d)'
        BY <3>6, <3>10 DEF Pending
      <4>2. ~u.late => Sealed(d, p, {r})'
        BY <1>n, <3>3, <3>6, <3>11, <4>1 DEF Sealed
      <4>3. Told(r)'
        BY <1>23, <2>1, <3>3, <3>4, <3>5, <3>6, <3>8, <3>11, <4>2, <1>n DEF Told
      <4>. QED  BY <1>t, <1>20, <1>23, <3>1, <3>3, <3>4, <3>5, <3>6, <3>7, <3>9, <4>3
    <3>12. CASE st = "denied"
      <4>2. Refused(d, p)'
        BY <1>n, <3>3, <3>6, <3>12 DEF Refused
      <4>3. Told(r)'
        BY <1>23, <2>1, <3>3, <3>4, <3>5, <3>6, <3>12, <4>2, <1>n DEF Told, Refused
      <4>. QED  BY <1>t, <1>20, <1>23, <3>1, <3>3, <3>4, <3>5, <3>6, <3>7, <3>9, <4>3
    <3>. QED  BY <3>11, <3>12
  <2>. QED  BY <2>3, <2>4
<1>24. ASSUME NEW r \in Asking, D(pages, devices)!DeviceApprove(r)
       PROVE  PairInv(pages, devices)'
  <2>1. /\ asking[r] # Null /\ asking[r].op = "approve"
        /\ D(pages, devices)!Claim(r, "approved", "claimed")
    BY <1>24 DEF D!DeviceApprove, D!Serve
  <2>. QED  BY <1>23, <2>1
<1>25. ASSUME NEW r \in Asking, D(pages, devices)!DeviceDeny(r)
       PROVE  PairInv(pages, devices)'
  <2>1. asking[r] # Null /\ asking[r].op = "deny" /\ D(pages, devices)!Claim(r, "denied", "ok")
    BY <1>25 DEF D!DeviceDeny, D!Serve
  <2>. QED  BY <1>23, <2>1
(* What is given up was approved too late, so that nobody was told.         *)
<1>26. ASSUME NEW r \in Asking, D(pages, devices)!GiveUp(r)
       PROVE  PairInv(pages, devices)'
  <2>1. PICK v \in D(pages, devices)!CallState : v = asking[r] /\ asking[r] # Null /\ v.at = "undo"
    BY <1>t, <1>26 DEF D!GiveUp
  <2>2. PICK p \in pages, d \in devices : p = v.of /\ d = v.on
    BY DEF D!CallState
  <2>3. v.op = "approve" /\ code[d] # Null /\ code[d].late
    BY <1>t, <2>1, <2>2 DEF Told
  <2> DEFINE w == [v EXCEPT !.at = "refused"]
  <2>4. w \in D(pages, devices)!CallState /\ w.at = "refused" /\ w.op = v.op /\ w.of = v.of /\ w.on = v.on
    BY DEF D!CallState
  <2>5. asking' = [asking EXCEPT ![r] = w] /\ UNCHANGED <<screen, shown>>
    BY <1>26, <2>1 DEF D!GiveUp, D!Answer
  <2> HIDE DEF w
  <2>6. CASE ~D(pages, devices)!Is(d, "approved")
    <3>1. UNCHANGED code
      BY <1>26, <2>1, <2>2, <2>6 DEF D!GiveUp
    <3>. QED  BY <1>21, <2>1, <2>4, <2>5, <3>1
  <2>7. CASE D(pages, devices)!Is(d, "approved")
    <3>1. PICK u \in D(pages, devices)!CodeRow : u = code[d] /\ u.st = "approved"
      BY <1>t, <2>7 DEF D!Is
    <3> DEFINE c == [u EXCEPT !.st = "open"]
    <3>2. c \in D(pages, devices)!CodeRow /\ c.st = "open" /\ c.by = u.by /\ c.late = u.late
      BY DEF D!CodeRow
    <3>3. code' = [code EXCEPT ![d] = c]
      BY <1>26, <2>1, <2>2, <2>7, <3>1 DEF D!GiveUp, D!Mark
    <3> HIDE DEF c
    <3>4. /\ code'[d] = c /\ \A e \in devices : e # d => code'[e] = code[e]
          /\ asking'[r] = w /\ \A q \in Asking : q # r => asking'[q] = asking[q]
      BY <1>t, <2>5, <3>3
    <3>5. D(pages, devices)!TypeOK'
      BY <1>t, <2>4, <2>5, <3>2, <3>3 DEF D!TypeOK
    <3>6. \A q \in Asking, e \in devices : Pending(q, e)' => Pending(q, e)
      BY <2>4, <3>4 DEF Pending
    <3>7. ASSUME NEW e \in devices, NEW q \in pages, NEW own \in SUBSET Asking, Sealed(e, q, own)
          PROVE  Sealed(e, q, own)' \/ (own # {} /\ code'[e].late)
      <4>1. CASE e = d
        <5>1. own # {}
          BY <2>1, <2>2, <3>7, <4>1 DEF Sealed, Pending
        <5>2. code'[e].late
          BY <2>3, <3>1, <3>2, <3>4, <4>1
        <5>. QED  BY <5>1, <5>2
      <4>2. CASE e # d
        <5>1. /\ code[e] # Null /\ code[e].by = q /\ code[e].st \in {"approved", "taken", "gone"}
              /\ \A s \in Asking \ own : ~Pending(s, e)
          BY <3>7 DEF Sealed
        <5>2. code'[e] = code[e]
          BY <3>4, <4>2
        <5>3. \A s \in Asking \ own : ~Pending(s, e)'
          BY <3>6, <5>1
        <5>. QED  BY <5>1, <5>2, <5>3 DEF Sealed
      <4>. QED  BY <4>1, <4>2
    <3>8. ASSUME NEW e \in devices, NEW q \in pages, Refused(e, q)
          PROVE  Refused(e, q)'
      <4>1. e # d
        BY <3>1, <3>8 DEF Refused
      <4>. QED  BY <3>4, <3>8, <4>1 DEF Refused
    <3>9. \A e \in devices : code[e] # Null => code'[e] # Null /\ (code[e].late => code'[e].late)
      BY <1>n, <3>1, <3>2, <3>4
    <3>10. Lets(d)' /\ Told(r)'
      BY <1>t, <2>1, <2>4, <2>5, <3>2, <3>4 DEF Lets, Told
    <3>. QED  BY <2>5, <3>4, <3>5, <3>7, <3>8, <3>9, <3>10, PairKept
  <2>. QED  BY <2>6, <2>7
(* What was claimed in time is the user's: nobody else's claim is pending.  *)
<1>27. ASSUME NEW r \in Asking, D(pages, devices)!CheckExpiry(r)
       PROVE  PairInv(pages, devices)'
  <2>1. PICK v \in D(pages, devices)!CallState : v = asking[r] /\ asking[r] # Null /\ v.at = "claimed"
    BY <1>t, <1>27 DEF D!CheckExpiry
  <2>2. PICK p \in pages, d \in devices : p = v.of /\ d = v.on
    BY DEF D!CallState
  <2>3. /\ v.op = "approve" /\ code[d] # Null /\ <<p, d>> \in shown
        /\ code[d].late \/ Sealed(d, p, {r})
    BY <1>t, <2>1, <2>2 DEF Told
  <2> DEFINE w == [v EXCEPT !.at = IF code[d].late THEN "undo" ELSE "ok"]
  <2>4. /\ w \in D(pages, devices)!CallState /\ w.at = (IF code[d].late THEN "undo" ELSE "ok")
        /\ w.op = "approve" /\ w.of = p /\ w.on = d
    BY <2>2, <2>3 DEF D!CallState
  <2>5. asking' = [asking EXCEPT ![r] = w] /\ UNCHANGED <<code, screen, shown>>
    BY <1>27, <2>1, <2>2 DEF D!CheckExpiry, D!Answer
  <2> HIDE DEF w
  <2>6. asking'[r] = w /\ \A q \in Asking : q # r => asking'[q] = asking[q]
    BY <1>t, <2>5
  <2>7. ~code[d].late => Sealed(d, p, {})'
    BY <2>3, <2>4, <2>5, <2>6 DEF Sealed, Pending
  <2>8. Told(r)'
    BY <2>3, <2>4, <2>5, <2>6, <2>7 DEF Told
  <2>9. Pending(r, w.on)
    BY <2>1, <2>2, <2>4 DEF Pending
  <2>10. \A e \in devices : MovesOn(e)
    BY <2>5 DEF MovesOn
  <2>. QED  BY <1>t, <1>20, <2>1, <2>4, <2>5, <2>8, <2>9, <2>10
<1>. QED  BY <1>1, <1>3, <1>4, <1>6, <1>7, <1>9, <1>11, <1>12, <1>14, <1>15, <1>16, <1>22, <1>24, <1>25, <1>26, <1>27 DEF D!Next

(* However a client's scopes, the pages of several users, their calls and   *)
(* the codes' expiry interleave: what an OAuth client or a device gets was  *)
(* shown to the user who authorized it.                                     *)
THEOREM UsersKnowWhatTheyGive == MCSpec => []ConsentIsInformed
<1> DEFINE Inv == /\ focus = "consent" => ConsentInv
                  /\ focus = "codes" => PairInv(Window, Device)
                  /\ focus = "users" => PairInv(Tab, Handset)
<1>r. RowsTold(Window, Device) /\ RowsTold(Tab, Handset)
  BY NoRowIsNull DEF RowsTold
<1>1. MCInit => Inv
  <2> SUFFICES ASSUME MCInit PROVE Inv
    OBVIOUS
  <2>1. /\ focus = "consent" => A!Init
        /\ focus = "codes" => D(Window, Device)!Init
        /\ focus = "users" => D(Tab, Handset)!Init
    BY DEF MCInit
  <2>. QED  BY <1>r, <2>1, ConsentInit, PairInit
<1>2. Inv /\ [MCNext]_allVars => Inv'
  <2> SUFFICES ASSUME Inv, [MCNext]_allVars PROVE Inv'
    OBVIOUS
  <2>1. /\ focus' = focus
        /\ focus = "consent" => [A!Next]_consent
        /\ focus = "codes" => [D(Window, Device)!Next]_pairing
        /\ focus = "users" => [D(Tab, Handset)!Next]_pairing
    BY DEF MCNext, allVars
  <2>2. focus = "consent" => ConsentInv'
    BY <2>1, ConsentStep
  <2>3. focus = "codes" => PairInv(Window, Device)'
    BY <1>r, <2>1, PairStep
  <2>4. focus = "users" => PairInv(Tab, Handset)'
    BY <1>r, <2>1, PairStep
  <2>. QED  BY <2>1, <2>2, <2>3, <2>4
<1>3. Inv => ConsentIsInformed
  <2>1. ConsentInv => A!GrantedAsListed
    BY DEF ConsentInv
  <2>2. ASSUME NEW pages, NEW devices, PairInv(pages, devices), RowsTold(pages, devices)
        PROVE  D(pages, devices)!PairedAsShown
    <3>1. ASSUME NEW d \in devices, D(pages, devices)!Is(d, "approved") \/ D(pages, devices)!Is(d, "taken")
          PROVE  <<code[d].by, d>> \in shown
      BY <2>2, <3>1 DEF PairInv, Lets, D!Is
    <3>2. ASSUME NEW p \in pages, screen[p].decided # Null
          PROVE  \E d \in devices :
                   /\ code[d] # Null /\ code[d].by = p
                   /\ code[d].st \in {"gone"} \cup
                        (IF screen[p].decided = "approved" THEN {"approved", "taken"} ELSE {"denied"})
      <4>1. screen[p].decided \in {"approved", "denied"}
        BY <2>2, <3>2 DEF PairInv, D!TypeOK, D!PageState
      <4>. QED  BY <2>2, <4>1 DEF PairInv, Sealed, Refused
    <3>. QED  BY <3>1, <3>2 DEF D!PairedAsShown
  <2>. QED  BY <1>r, <2>1, <2>2 DEF ConsentIsInformed
<1>. QED  BY <1>1, <1>2, <1>3, PTL DEF MCSpec

----------------------------------------------------------------------------
(* The session: a record is of its token's account, and a shell has a       *)
(* token, unless an answer crossed a change of token.                       *)
Whole(pair) == pair.user # Null => pair.user = pair.token
SessionInv ==
  /\ W!TypeOK /\ ~foreign
  /\ ~crossed => Whole(disk) /\ \A t \in Tab : Whole(mem[t]) /\ (shell[t] => mem[t].token # Null)

(* At the start nobody is signed in.                                        *)
LEMMA SessionInit == W!Init => SessionInv
<1> SUFFICES ASSUME W!Init PROVE SessionInv
  OBVIOUS
<1>1. W!None \in W!Pair /\ W!None.user = Null
  BY DEF W!None, W!Pair
<1>. QED  BY <1>1 DEF W!Init, W!TypeOK, SessionInv, Whole

(* Every step of a tab and every answer.                                    *)
LEMMA SessionStep == SessionInv /\ [W!Next]_web => SessionInv'
<1> SUFFICES ASSUME SessionInv, [W!Next]_web PROVE SessionInv'
  OBVIOUS
<1> DEFINE Sent == Tab \X {"me", "adopt", "profile"} \X Visitor
<1>n. Null \notin Visitor
  BY NoRowIsNull
<1>t. /\ mem \in [Tab -> W!Pair] /\ disk \in W!Pair
      /\ shell \in [Tab -> BOOLEAN] /\ started \in [Tab -> BOOLEAN] /\ calls \subseteq Sent
      /\ foreign = FALSE /\ crossed \in BOOLEAN
      /\ ~crossed => Whole(disk) /\ \A t \in Tab : Whole(mem[t]) /\ (shell[t] => mem[t].token # Null)
  BY DEF SessionInv, W!TypeOK
<1>1. CASE UNCHANGED web
  BY <1>t, <1>1 DEF web, SessionInv, W!TypeOK, Whole
(* One tab changes: its pair becomes the stored one, or the stored one it.  *)
<1>2. ASSUME NEW t \in Tab, NEW pair \in W!Pair, NEW shows \in BOOLEAN,
             mem' = [mem EXCEPT ![t] = pair], disk' \in {disk, pair},
             shell' = [shell EXCEPT ![t] = shows], started' \in [Tab -> BOOLEAN],
             calls' \subseteq Sent, foreign' = foreign, crossed' \in BOOLEAN, crossed => crossed',
             ~crossed' => Whole(pair) /\ (shows => pair.token # Null)
      PROVE  SessionInv'
  <2>1. /\ mem'[t] = pair /\ shell'[t] = shows
        /\ \A s \in Tab : s # t => mem'[s] = mem[s] /\ shell'[s] = shell[s]
    BY <1>t, <1>2
  <2>2. W!TypeOK'
    BY <1>t, <1>2 DEF W!TypeOK
  <2>3. ASSUME ~crossed'
        PROVE  Whole(disk)' /\ \A s \in Tab : Whole(mem[s])' /\ (shell'[s] => mem'[s].token # Null)
    BY <1>t, <1>2, <2>1, <2>3 DEF Whole
  <2>. QED  BY <1>t, <1>2, <2>2, <2>3 DEF SessionInv
<1>p. ASSUME NEW x \in Visitor \cup {Null}, NEW y \in Visitor \cup {Null}
      PROVE  /\ [token |-> x, user |-> y] \in W!Pair
             /\ [token |-> x, user |-> y].token = x /\ [token |-> x, user |-> y].user = y
  BY DEF W!Pair
<1>s. ASSUME NEW t \in Tab
      PROVE  mem[t] \in W!Pair /\ mem[t].token \in Visitor \cup {Null} /\ shell[t] \in BOOLEAN
  BY <1>t DEF W!Pair
<1>3. ASSUME NEW t \in Tab, W!LoadPage(t) PROVE SessionInv'
  <2>1. PICK shows \in BOOLEAN : shows = (disk.token # Null)
    OBVIOUS
  <2>2. calls' \subseteq Sent
    BY <1>t, <1>3 DEF W!LoadPage, W!Of
  <2>. QED  BY <1>t, <1>2, <1>3, <2>1, <2>2 DEF W!LoadPage
<1>4. ASSUME NEW t \in Tab, NEW a \in Visitor, W!SignIn(t, a) PROVE SessionInv'
  <2>1. PICK pair \in W!Pair : pair = [token |-> a, user |-> a] /\ pair.token = a /\ pair.user = a
    BY <1>p
  <2>2. mem' = [mem EXCEPT ![t] = pair] /\ disk' = pair
    BY <1>4, <2>1 DEF W!SignIn, W!SetToken
  <2>. QED  BY <1>n, <1>t, <1>2, <1>4, <2>1, <2>2 DEF W!SignIn, Whole
<1>5. ASSUME NEW t \in Tab, W!Logout(t) PROVE SessionInv'
  <2>1. PICK pair \in W!Pair : pair = [token |-> Null, user |-> Null] /\ pair.user = Null
    BY <1>p
  <2>2. mem' = [mem EXCEPT ![t] = pair] /\ disk' = pair
    BY <1>5, <2>1 DEF W!Logout, W!SetToken
  <2>. QED  BY <1>t, <1>2, <1>5, <2>1, <2>2 DEF W!Logout, Whole
<1>6. ASSUME NEW t \in Tab, W!MarkSsoStart(t) PROVE SessionInv'
  <2>1. mem' = [mem EXCEPT ![t] = mem[t]] /\ shell' = [shell EXCEPT ![t] = shell[t]]
    BY <1>t, <1>6 DEF W!MarkSsoStart
  <2>2. calls' \subseteq Sent /\ started' \in [Tab -> BOOLEAN]
    BY <1>t, <1>6 DEF W!MarkSsoStart, W!Of
  <2>. QED  BY <1>t, <1>2, <1>6, <1>s, <2>1, <2>2 DEF W!MarkSsoStart
<1>7. ASSUME NEW t \in Tab, NEW a \in Visitor, NEW own \in BOOLEAN, W!Fragment(t, a, own) PROVE SessionInv'
  <2>1. /\ started' \in [Tab -> BOOLEAN] /\ shell' = [shell EXCEPT ![t] = FALSE] /\ crossed' = crossed
        /\ calls' \subseteq Sent
    BY <1>t, <1>7 DEF W!Fragment, W!Of
  <2>2. CASE W!ConsumeSsoStart(t, own)
    <3>1. PICK pair \in W!Pair : pair = [token |-> a, user |-> Null] /\ pair.user = Null
      BY <1>p
    <3>2. mem' = [mem EXCEPT ![t] = pair] /\ disk' = pair /\ foreign' = foreign
      BY <1>t, <1>7, <2>2, <3>1 DEF W!Fragment, W!SetToken, W!ConsumeSsoStart
    <3>. QED  BY <1>t, <1>2, <2>1, <3>1, <3>2 DEF Whole
  <2>3. CASE ~W!ConsumeSsoStart(t, own)
    <3>1. mem' = [mem EXCEPT ![t] = disk] /\ UNCHANGED <<disk, foreign>>
      BY <1>7, <2>3 DEF W!Fragment
    <3>. QED  BY <1>t, <1>2, <2>1, <3>1
  <2>. QED  BY <2>2, <2>3
<1>8. ASSUME NEW t \in Tab, NEW ask \in {"me", "profile"}, W!Ask(t, ask) PROVE SessionInv'
  <2>1. mem[t].token \in Visitor
    BY <1>8, <1>s DEF W!Ask
  <2>2. calls' \subseteq Sent /\ UNCHANGED <<mem, disk, shell, started, foreign, crossed>>
    BY <1>t, <1>8, <2>1 DEF W!Ask
  <2>. QED  BY <1>t, <2>2 DEF SessionInv, W!TypeOK, Whole
<1>c. ASSUME NEW c \in calls
      PROVE  c[1] \in Tab /\ c[3] \in Visitor /\ calls \ {c} \subseteq Sent
  BY <1>t
<1>9. ASSUME NEW c \in calls, W!MeAnswers(c) PROVE SessionInv'
  <2>1. PICK t \in Tab, a \in Visitor : t = c[1] /\ a = c[3]
    BY <1>c
  <2>2. PICK k \in Visitor \cup {Null} : k = mem[t].token
    BY <1>s
  <2>3. PICK pair \in W!Pair : pair = [token |-> k, user |-> a] /\ pair.token = k /\ pair.user = a
    BY <1>p
  <2>4. PICK shows \in BOOLEAN : shows = (shell[t] \/ c[2] = "adopt")
    OBVIOUS
  <2>5. /\ mem' = [mem EXCEPT ![t] = pair] /\ disk' = pair /\ shell' = [shell EXCEPT ![t] = shows]
        /\ UNCHANGED <<started, foreign>> /\ crossed' = (crossed \/ k # a)
    BY <1>t, <1>9, <2>1, <2>2, <2>3, <2>4 DEF W!MeAnswers, W!SetToken
  <2>6. calls' \subseteq Sent
    BY <1>9, <1>c DEF W!MeAnswers
  <2>. QED  BY <1>n, <1>t, <1>2, <2>3, <2>5, <2>6 DEF Whole
<1>10. ASSUME NEW c \in calls, W!ProfileAnswers(c) PROVE SessionInv'
  <2>1. PICK t \in Tab, a \in Visitor : t = c[1] /\ a = c[3]
    BY <1>c
  <2>3. PICK pair \in W!Pair : pair = [token |-> a, user |-> a] /\ pair.token = a /\ pair.user = a
    BY <1>p
  <2>5. /\ mem' = [mem EXCEPT ![t] = pair] /\ disk' = pair /\ shell' = [shell EXCEPT ![t] = shell[t]]
        /\ UNCHANGED <<started, foreign>> /\ crossed' \in BOOLEAN /\ (crossed => crossed')
    BY <1>t, <1>10, <2>1, <2>3 DEF W!ProfileAnswers, W!SetToken
  <2>6. calls' \subseteq Sent
    BY <1>10, <1>c DEF W!ProfileAnswers
  <2>. QED  BY <1>n, <1>t, <1>s, <1>2, <2>3, <2>5, <2>6 DEF Whole
<1>11. ASSUME NEW c \in calls, W!CallFails(c) PROVE SessionInv'
  <2>1. calls' \subseteq Sent /\ UNCHANGED <<mem, disk, shell, started, foreign, crossed>>
    BY <1>11, <1>c DEF W!CallFails
  <2>. QED  BY <1>t, <2>1 DEF SessionInv, W!TypeOK, Whole
<1>. QED  BY <1>1, <1>3, <1>4, <1>5, <1>6, <1>7, <1>8, <1>9, <1>10, <1>11 DEF W!Next

----------------------------------------------------------------------------
(* The files page: what is on its way was asked for before, and the newest  *)
(* listing is of the open folder unless it strayed.                         *)
OnItsWay(l) == l.id \in Nat /\ l.id <= newest /\ (l.id = newest /\ ~strayed => l.of = at)
Freed == (\E w \in works : w.kind \in P!Alone) \/ (\E l \in loads : l.frees)
ListingInv ==
  /\ newest \in Nat
  /\ \A l \in loads : OnItsWay(l)
  /\ more # Null => OnItsWay(more)
  /\ loading => \E l \in loads : l.id = newest
  /\ busy => Freed
  /\ ~loading /\ ~failed /\ ~strayed => <<at, 1>> \in rows /\ \A x \in rows : x[1] = at

(* At the start the first listing is on its way.                            *)
LEMMA ListingInit == P!Init => ListingInv
  BY DEF P!Init, ListingInv, OnItsWay

(* A new listing is newer than all that are on their way.                   *)
LEMMA Asked ==
  ASSUME ListingInv, NEW id, NEW of, NEW frees, P!Ask(id, of, frees),
         id \in {newest + 1, newest + 2}, ~strayed' => of = at', more' = more, busy' => Freed'
  PROVE  ListingInv'
<1> DEFINE new == [id |-> id, of |-> of, frees |-> frees]
<1>1. newest' = id /\ loads' = loads \cup {new} /\ loading' /\ newest \in Nat /\ id \in Nat /\ newest < id
  BY DEF P!Ask, ListingInv
<1>2. new.id = id /\ new.of = of
  OBVIOUS
<1> HIDE DEF new
<1>3. \A l \in loads' : OnItsWay(l)'
  BY <1>1, <1>2 DEF ListingInv, OnItsWay
<1>4. more' # Null => OnItsWay(more)'
  BY <1>1 DEF ListingInv, OnItsWay
<1>. QED  BY <1>1, <1>2, <1>3, <1>4 DEF ListingInv

(* Every step of the user, of the handlers and of the answers.              *)
LEMMA ListingStep == ListingInv /\ [P!Next]_listing => ListingInv'
<1> SUFFICES ASSUME ListingInv, [P!Next]_listing PROVE ListingInv'
  OBVIOUS
<1>1. CASE UNCHANGED listing
  BY <1>1 DEF listing, ListingInv, OnItsWay, Freed
<1>2. ASSUME NEW f \in Opened, P!Open(f) PROVE ListingInv'
  <2>1. /\ at' = f /\ P!Ask(newest + 2, f, FALSE) /\ more' = more /\ busy' = busy /\ works' = works
        /\ loads \subseteq loads'
    BY <1>2 DEF P!Open, P!Ask
  <2>2. busy' => Freed'
    BY <2>1 DEF ListingInv, Freed
  <2>. QED  BY <2>1, <2>2, Asked
<1>3. CASE P!Retry
  <2>1. /\ at' = at /\ P!Ask(newest + 1, at, FALSE) /\ more' = more /\ busy' = busy /\ works' = works
        /\ loads \subseteq loads'
    BY <1>3 DEF P!Retry, P!Ask, P!page
  <2>2. busy' => Freed'
    BY <2>1 DEF ListingInv, Freed
  <2>. QED  BY <2>1, <2>2, Asked
<1>4. ASSUME NEW f \in Opened, P!Toggle(f) PROVE ListingInv'
  BY <1>4 DEF P!Toggle, ListingInv, OnItsWay, Freed
<1>5. CASE P!SelectAll
  BY <1>5 DEF P!SelectAll, ListingInv, OnItsWay, Freed
<1>6. CASE P!LoadMore
  <2> DEFINE next == [id |-> newest, of |-> at]
  <2>1. /\ more' = next /\ next.id = newest /\ next.of = at
        /\ UNCHANGED <<at, rows, loading, failed, newest, loads, busy, works, strayed>>
    BY <1>6 DEF P!LoadMore, P!page
  <2> HIDE DEF next
  <2>. QED  BY <2>1 DEF ListingInv, OnItsWay, Freed
<1>7. ASSUME NEW l \in loads, NEW ok \in BOOLEAN, P!LoadAnswers(l, ok) PROVE ListingInv'
  <2>1. /\ loads' = loads \ {l} /\ busy' = (busy /\ ~l.frees)
        /\ UNCHANGED <<at, newest, more, works, strayed>>
    BY <1>7 DEF P!LoadAnswers
  <2>2. /\ \A m \in loads' : OnItsWay(m)'
        /\ more' # Null => OnItsWay(more)'
        /\ busy' => Freed'
    BY <2>1 DEF ListingInv, OnItsWay, Freed
  <2>3. CASE l.id = newest
    <3>1. /\ ~loading'
          /\ IF ok THEN rows' = {<<l.of, 1>>} /\ UNCHANGED failed ELSE failed' = TRUE
      BY <1>7, <2>3 DEF P!LoadAnswers, P!Newest
    <3>2. ~strayed => l.of = at
      BY <2>3 DEF ListingInv, OnItsWay
    <3>. QED  BY <2>1, <2>2, <3>1, <3>2 DEF ListingInv
  <2>4. CASE l.id # newest
    <3>1. UNCHANGED <<rows, loading, failed>>
      BY <1>7, <2>4 DEF P!LoadAnswers, P!Newest
    <3>. QED  BY <2>1, <2>2, <2>4, <3>1 DEF ListingInv
  <2>. QED  BY <2>3, <2>4
<1>8. ASSUME NEW ok \in BOOLEAN, P!MoreAnswers(ok) PROVE ListingInv'
  <2>1. /\ more # Null /\ more' = Null
        /\ rows' = IF ok /\ more.id = newest THEN rows \cup {<<more.of, 2>>} ELSE rows
        /\ UNCHANGED <<at, loading, failed, newest, loads, busy, works, strayed>>
    BY <1>8 DEF P!MoreAnswers, P!Newest
  <2>2. more.id = newest /\ ~strayed => more.of = at
    BY <2>1 DEF ListingInv, OnItsWay
  <2>. QED  BY <2>1, <2>2 DEF ListingInv, OnItsWay, Freed
<1>9. ASSUME NEW kind \in P!Kind, P!Start(kind) PROVE ListingInv'
  <2> DEFINE w == [kind |-> kind, of |-> at, keys |-> IF kind = "bulk" THEN selected ELSE {}]
  <2>1. /\ works' = works \cup {w} /\ w.kind = kind /\ busy' = (busy \/ kind \in P!Alone)
        /\ UNCHANGED <<at, rows, loading, failed, newest, loads, more, strayed>>
    BY <1>9 DEF P!Start, P!page
  <2> HIDE DEF w
  <2>. QED  BY <2>1 DEF ListingInv, OnItsWay, Freed
(* A handler is over.                                                       *)
<1>10. ASSUME NEW w \in works, NEW frees \in BOOLEAN, P!Over(w), P!Relist(w, frees),
              busy' => busy /\ (w.kind \notin P!Alone \/ frees)
       PROVE  ListingInv'
  <2> DEFINE new == [id |-> newest + 1, of |-> w.of, frees |-> frees]
  <2>1. /\ P!Ask(newest + 1, w.of, frees) /\ strayed' = (w.of # at)
        /\ works' = works \ {w} /\ UNCHANGED <<at, rows, more>>
        /\ loads' = loads \cup {new} /\ new.frees = frees
    BY <1>10 DEF P!Over, P!Relist, P!Ask
  <2> HIDE DEF new
  <2>2. busy' => Freed'
    BY <1>10, <2>1 DEF ListingInv, Freed
  <2>. QED  BY <2>1, <2>2, Asked
<1>11. ASSUME NEW w \in works, P!Over(w), UNCHANGED <<newest, loads, loading, failed, strayed>>,
              busy' => busy /\ w.kind \notin P!Alone
       PROVE  ListingInv'
  BY <1>11 DEF P!Over, ListingInv, OnItsWay, Freed
<1>12. ASSUME NEW w \in works, NEW left, P!BulkEnds(w, left) PROVE ListingInv'
  BY <1>10, <1>12 DEF P!BulkEnds
<1>13. ASSUME NEW w \in works, P!Succeeds(w) PROVE ListingInv'
  <2>1. P!Over(w) /\ P!Relist(w, w.kind \in P!Alone) /\ busy' = busy
    BY <1>13 DEF P!Succeeds
  <2>2. CASE w.kind \in P!Alone
    <3>1. P!Relist(w, TRUE)
      BY <2>1, <2>2
    <3>. QED  BY <1>10, <2>1, <3>1
  <2>3. CASE w.kind \notin P!Alone
    <3>0. (w.kind \in P!Alone) = FALSE
      BY <2>3
    <3>1. P!Relist(w, FALSE)
      BY <2>1, <3>0
    <3>. QED  BY <1>10, <2>1, <2>3, <3>1
  <2>. QED  BY <2>2, <2>3
<1>14. ASSUME NEW w \in works, P!Fails(w) PROVE ListingInv'
  BY <1>11, <1>14 DEF P!Fails
<1>15. ASSUME NEW w \in works, P!Uploaded(w) PROVE ListingInv'
  <2>1. w.kind \notin P!Alone /\ busy' = busy /\ P!Over(w)
    BY <1>15 DEF P!Uploaded, P!Alone
  <2>2. CASE w.of = at
    <3>1. P!Relist(w, FALSE)
      BY <1>15, <2>2 DEF P!Uploaded
    <3>. QED  BY <1>10, <2>1, <3>1
  <2>3. CASE w.of # at
    BY <1>11, <1>15, <2>1, <2>3 DEF P!Uploaded
  <2>. QED  BY <2>2, <2>3
<1>. QED  BY <1>1, <1>2, <1>3, <1>4, <1>5, <1>6, <1>7, <1>8, <1>9, <1>12, <1>13, <1>14, <1>15 DEF P!Next

(* Whatever the tabs, the user and the server's answers do: the record of   *)
(* who is signed in is of the token's account, and the page shows the       *)
(* folder that is open.                                                     *)
THEOREM PagesAreWhole == MCSpec => []PageIsWhole
<1> DEFINE Inv == (focus = "client" => SessionInv) /\ (focus = "page" => ListingInv)
<1>1. MCInit => Inv
  <2> SUFFICES ASSUME MCInit PROVE Inv
    OBVIOUS
  <2>1. (focus = "client" => W!Init) /\ (focus = "page" => P!Init)
    BY DEF MCInit
  <2>. QED  BY <2>1, SessionInit, ListingInit
<1>2. Inv /\ [MCNext]_allVars => Inv'
  <2> SUFFICES ASSUME Inv, [MCNext]_allVars PROVE Inv'
    OBVIOUS
  <2>1. /\ focus' = focus
        /\ focus = "client" => [W!Next]_web
        /\ focus = "page" => [P!Next]_listing
    BY DEF MCNext, allVars
  <2>. QED  BY <2>1, SessionStep, ListingStep
<1>3. Inv => PageIsWhole
  <2>1. SessionInv => W!SessionIsWhole
    BY DEF SessionInv, W!SessionIsWhole, Whole
  <2>2. ASSUME ListingInv PROVE P!ListingIsOfFolder
    <3>1. P!CanEdit /\ ~strayed => <<at, 1>> \in rows /\ P!Listed = {at}
      <4> SUFFICES ASSUME P!CanEdit, ~strayed PROVE <<at, 1>> \in rows /\ P!Listed = {at}
        OBVIOUS
      <4>1. <<at, 1>> \in rows /\ \A x \in rows : x[1] = at
        BY <2>2 DEF ListingInv, P!CanEdit
      <4>2. <<at, 1>>[1] = at
        OBVIOUS
      <4>. QED  BY <4>1, <4>2 DEF P!Listed
    <3>. QED  BY <2>2, <3>1 DEF ListingInv, P!ListingIsOfFolder, P!Newest, Freed
  <2>. QED  BY <2>1, <2>2 DEF PageIsWhole
<1>. QED  BY <1>1, <1>2, <1>3, PTL DEF MCSpec

----------------------------------------------------------------------------
(* The cache of teams: an entry that still answers is no older than the     *)
(* time it has used up and the read that made it.                           *)
Fresh(f, left) == f \in T!Fact /\ age[f] + left <= TTL + Stall
BySlugFresh == bySlug # Null /\ bySlug.left > 0 => Fresh(<<bySlug.team, bySlug.is>>, bySlug.left)
ByIdFresh(t) == byId[t] # Null /\ byId[t].left > 0 => Fresh(<<t, byId[t].is>>, byId[t].left)
Looked(l) == lookup[l].at # "idle" =>
  /\ <<lookup[l].team, lookup[l].is>> \in T!Fact
  /\ age[<<lookup[l].team, lookup[l].is>>] <= lookup[l].awaited
  /\ lookup[l].at = "slug" => (lookup[l].is = "none" <=> lookup[l].team = Null)
  /\ lookup[l].at = "id" => lookup[l].team \in Team
CacheInv ==
  /\ T!TypeOK /\ ~outdated
  /\ \A f \in T!Fact : T!True(f, kept) => age[f] = 0
  /\ BySlugFresh
  /\ \A t \in Team : ByIdFresh(t)
  /\ \A l \in Lookup : Looked(l)

(* At the start there is no team and nothing is kept.                       *)
LEMMA CacheInit == T!Init => CacheInv
<1> SUFFICES ASSUME T!Init PROVE CacheInv
  OBVIOUS
<1> USE NoRowIsNull, Durations DEF T!Init
<1>1. T!Late \in Nat /\ 0 \in 0..T!Late /\ T!Late \in 0..T!Late
  BY DEF T!Late
<1>2. age \in [T!Fact -> 0..T!Late]
  BY <1>1
<1>3. /\ T!Idle.at = "idle"
      /\ T!Idle \in [at : {"idle", "slug", "id"}, team : Team \cup {Null}, is : T!State, awaited : 0..Stall]
  BY DEF T!Idle, T!State
<1>4. T!TypeOK
  BY <1>2, <1>3 DEF T!TypeOK, T!State
<1>5. ASSUME NEW f \in T!Fact, T!True(f, kept)
      PROVE  age[f] = 0
  <2>1. f[2] = "none"
    BY <1>5 DEF T!True, T!Fact, T!Unknown
  <2>. QED  BY <2>1
<1>. QED  BY <1>3, <1>4, <1>5 DEF CacheInv, BySlugFresh, ByIdFresh, Looked

(* Every step of the clock, the table's writers and the lookups.            *)
LEMMA CacheStep == CacheInv /\ [T!Next]_teams => CacheInv'
<1> SUFFICES ASSUME CacheInv, [T!Next]_teams PROVE CacheInv'
  OBVIOUS
<1> USE Durations
<1>n. /\ Null \notin Team /\ \A e \in T!Entry : e # Null
  BY NoRowIsNull
<1> DEFINE Lookups == [at : {"idle", "slug", "id"}, team : Team \cup {Null}, is : T!State, awaited : 0..Stall]
<1>t. /\ kept \in [Team -> T!State] /\ due \in BOOLEAN
      /\ bySlug \in T!Entry \cup {Null} /\ byId \in [Team -> T!Entry \cup {Null}]
      /\ lookup \in [Lookup -> Lookups] /\ age \in [T!Fact -> 0..T!Late] /\ outdated = FALSE
      /\ \A f \in T!Fact : T!True(f, kept) => age[f] = 0
      /\ BySlugFresh
      /\ \A t \in Team : ByIdFresh(t)
      /\ \A l \in Lookup : Looked(l)
  BY DEF CacheInv, T!TypeOK
<1>l. T!Late \in Nat /\ T!Late = TTL + Stall + 1
  BY DEF T!Late
<1>i. T!Idle.at = "idle" /\ T!Idle \in Lookups
  BY DEF T!Idle, T!State
<1>1. CASE UNCHANGED teams
  BY <1>t, <1>1 DEF teams, CacheInv, T!TypeOK, BySlugFresh, ByIdFresh, Fresh, Looked
<1>2. CASE T!Tick
  <2>1. /\ \A l \in Lookup : lookup[l].at # "idle" => lookup[l].awaited < Stall
        /\ bySlug' = T!Sooner(bySlug) /\ byId' = [t \in Team |-> T!Sooner(byId[t])]
        /\ lookup' = [l \in Lookup |->
             IF lookup[l].at = "idle" THEN T!Idle ELSE [lookup[l] EXCEPT !.awaited = @ + 1]]
        /\ age' = [f \in T!Fact |-> IF T!True(f, kept) \/ age[f] = T!Late THEN age[f] ELSE age[f] + 1]
        /\ UNCHANGED <<kept, due, outdated>>
    BY <1>2 DEF T!Tick
  <2>2. ASSUME NEW f \in T!Fact
        PROVE  /\ age[f] \in 0..T!Late /\ age'[f] \in 0..T!Late /\ age'[f] <= age[f] + 1
               /\ T!True(f, kept) => age'[f] = age[f]
    <3>1. PICK a \in 0..T!Late : a = age[f]
      BY <1>t
    <3>2. age'[f] = IF T!True(f, kept) \/ a = T!Late THEN a ELSE a + 1
      BY <2>1, <3>1
    <3>. QED  BY <1>l, <3>1, <3>2
  <2>3. age' \in [T!Fact -> 0..T!Late]
    BY <2>1, <2>2
  <2>4. ASSUME NEW e \in T!Entry
        PROVE  /\ T!Sooner(e) \in T!Entry /\ T!Sooner(e).team = e.team /\ T!Sooner(e).is = e.is
               /\ T!Sooner(e).left > 0 => e.left > 0 /\ e.left \in Nat /\ T!Sooner(e).left = e.left - 1
    <3>1. e.left \in 0..TTL /\ e # Null
      BY <1>n DEF T!Entry
    <3>2. CASE e.left = 0
      BY <3>1, <3>2 DEF T!Sooner
    <3>3. CASE e.left # 0
      <4>1. e.left - 1 \in 0..TTL
        BY <3>1, <3>3
      <4>2. T!Sooner(e) = [e EXCEPT !.left = e.left - 1]
        BY <3>1, <3>3 DEF T!Sooner
      <4>3. PICK n \in 0..TTL : n = e.left - 1
        BY <4>1
      <4>4. T!Sooner(e) = [e EXCEPT !.left = n]
        BY <4>2, <4>3
      <4>5. T!Sooner(e) \in T!Entry /\ T!Sooner(e).team = e.team /\ T!Sooner(e).is = e.is /\ T!Sooner(e).left = n
        BY <4>4 DEF T!Entry
      <4>. QED  BY <3>1, <3>3, <4>3, <4>5
    <3>. QED  BY <3>2, <3>3
  <2>5. T!Sooner(Null) = Null
    BY DEF T!Sooner
  <2>6. ASSUME NEW f, NEW n \in Nat, Fresh(f, n), n > 0
        PROVE  f \in T!Fact /\ age'[f] + (n - 1) <= TTL + Stall
    <3>1. f \in T!Fact /\ age[f] + n <= TTL + Stall
      BY <2>6 DEF Fresh
    <3>. QED  BY <2>2, <3>1
  <2>7. bySlug' \in T!Entry \cup {Null} /\ BySlugFresh'
    <3>1. CASE bySlug = Null
      BY <2>1, <2>5, <3>1 DEF BySlugFresh
    <3>2. CASE bySlug \in T!Entry
      <4>1. PICK e \in T!Entry : e = bySlug
        BY <3>2
      <4>2. bySlug' = T!Sooner(e) /\ e # Null /\ bySlug' \in T!Entry
        BY <1>n, <2>1, <2>4, <4>1
      <4>3. CASE bySlug'.left > 0
        <5>1. Fresh(<<e.team, e.is>>, e.left)
          BY <1>t, <2>4, <4>1, <4>2, <4>3 DEF BySlugFresh
        <5>2. <<e.team, e.is>> \in T!Fact /\ age'[<<e.team, e.is>>] + (e.left - 1) <= TTL + Stall
          BY <2>4, <2>6, <4>2, <4>3, <5>1
        <5>. QED  BY <2>4, <4>2, <4>3, <5>2 DEF BySlugFresh, Fresh
      <4>. QED  BY <4>2, <4>3 DEF BySlugFresh
    <3>. QED  BY <1>t, <3>1, <3>2
  <2>8. ASSUME NEW t \in Team
        PROVE  T!Sooner(byId[t]) \in T!Entry \cup {Null} /\ ByIdFresh(t)'
    <3>0. byId'[t] = T!Sooner(byId[t])
      BY <2>1
    <3>1. CASE byId[t] = Null
      BY <2>5, <3>0, <3>1 DEF ByIdFresh
    <3>2. CASE byId[t] \in T!Entry
      <4>1. PICK e \in T!Entry : e = byId[t]
        BY <3>2
      <4>2. byId'[t] = T!Sooner(e) /\ e # Null /\ byId'[t] \in T!Entry
        BY <1>n, <2>4, <3>0, <4>1
      <4>3. CASE byId'[t].left > 0
        <5>1. Fresh(<<t, e.is>>, e.left)
          BY <1>t, <2>4, <4>1, <4>2, <4>3 DEF ByIdFresh
        <5>2. <<t, e.is>> \in T!Fact /\ age'[<<t, e.is>>] + (e.left - 1) <= TTL + Stall
          BY <2>4, <2>6, <4>2, <4>3, <5>1
        <5>. QED  BY <2>4, <4>1, <4>2, <4>3, <5>2 DEF ByIdFresh, Fresh
      <4>. QED  BY <3>0, <4>2, <4>3 DEF ByIdFresh
    <3>. QED  BY <1>t, <3>1, <3>2
  <2>9. ASSUME NEW l \in Lookup
        PROVE  lookup'[l] \in Lookups /\ Looked(l)'
    <3>1. CASE lookup[l].at = "idle"
      <4>1. lookup'[l] = T!Idle
        BY <2>1, <3>1
      <4>. QED  BY <1>i, <4>1 DEF Looked
    <3>2. CASE lookup[l].at # "idle"
      <4>1. PICK v \in Lookups : v = lookup[l]
        BY <1>t
      <4>2. v.awaited + 1 \in 0..Stall /\ v.awaited \in Nat
        BY <2>1, <3>2, <4>1
      <4>3. PICK n \in 0..Stall : n = v.awaited + 1
        BY <4>2
      <4>4. lookup'[l] = [v EXCEPT !.awaited = n]
        BY <2>1, <3>2, <4>1, <4>3
      <4>5. /\ lookup'[l] \in Lookups /\ lookup'[l].at = v.at /\ lookup'[l].team = v.team
            /\ lookup'[l].is = v.is /\ lookup'[l].awaited = n
        BY <4>4
      <4>6. Looked(l)
        BY <1>t
      <4>7. PICK f \in T!Fact : f = <<v.team, v.is>>
        BY <3>2, <4>1, <4>6 DEF Looked
      <4>8. age[f] <= v.awaited
        BY <3>2, <4>1, <4>6, <4>7 DEF Looked
      <4>9. age'[f] <= n
        BY <2>2, <4>2, <4>3, <4>8
      <4>. QED  BY <3>2, <4>1, <4>5, <4>6, <4>7, <4>9 DEF Looked
    <3>. QED  BY <3>1, <3>2
  <2>10. T!TypeOK'
    BY <1>t, <2>1, <2>3, <2>7, <2>8, <2>9 DEF T!TypeOK
  <2>. QED  BY <1>t, <2>1, <2>2, <2>7, <2>8, <2>9, <2>10 DEF CacheInv
(* A write makes facts true, and so recent.                                 *)
<1>3. ASSUME NEW t \in Team, NEW is \in T!State, NEW clears \in BOOLEAN, T!Write(t, is, clears)
      PROVE  CacheInv'
  <2>1. /\ kept' = [kept EXCEPT ![t] = is]
        /\ age' = [f \in T!Fact |-> IF T!True(f, kept') THEN 0 ELSE age[f]]
        /\ due' \in BOOLEAN /\ UNCHANGED <<bySlug, byId, lookup, outdated>>
    BY <1>t, <1>3 DEF T!Write, T!cache
  <2>2. \A f \in T!Fact : age[f] \in 0..T!Late /\ age'[f] \in 0..T!Late /\ age'[f] <= age[f]
    BY <1>t, <1>l, <2>1
  <2>3. \A f \in T!Fact : T!True(f, kept') => age'[f] = 0
    BY <2>1
  <2>4. T!TypeOK'
    BY <1>t, <2>1, <2>2 DEF T!TypeOK
  <2>5. ASSUME NEW f, NEW n \in Nat, Fresh(f, n)
        PROVE  f \in T!Fact /\ age'[f] + n <= TTL + Stall
    BY <2>2, <2>5 DEF Fresh
  <2>6. BySlugFresh'
    BY <1>t, <2>1, <2>5 DEF BySlugFresh, Fresh, T!Entry
  <2>7. \A s \in Team : ByIdFresh(s)'
    BY <1>t, <2>1, <2>5 DEF ByIdFresh, Fresh, T!Entry
  <2>8. ASSUME NEW l \in Lookup PROVE Looked(l)'
    <3>1. Looked(l) /\ lookup[l].awaited \in Nat /\ lookup'[l] = lookup[l]
      BY <1>t, <2>1
    <3>2. ASSUME NEW f \in T!Fact, age[f] <= lookup[l].awaited
          PROVE  age'[f] <= lookup[l].awaited
      BY <2>2, <3>1, <3>2
    <3>. QED  BY <3>1, <3>2 DEF Looked
  <2>. QED  BY <1>t, <2>1, <2>3, <2>4, <2>6, <2>7, <2>8 DEF CacheInv
<1>4. ASSUME NEW t \in Team,
             \/ T!Create(t) \/ T!UndoCreate(t) \/ T!Suspend(t) \/ T!Resume(t)
             \/ T!DeleteTeam(t) \/ T!Restore(t) \/ T!Purge(t)
      PROVE  CacheInv'
  <2>1. PICK is \in T!State, clears \in BOOLEAN : T!Write(t, is, clears)
    BY <1>4 DEF T!Create, T!UndoCreate, T!Suspend, T!Resume, T!DeleteTeam, T!Restore, T!Purge, T!State
  <2>. QED  BY <1>3, <2>1
(* Entries go.                                                              *)
<1>5. ASSUME UNCHANGED <<kept, lookup, age, outdated>>, due' \in BOOLEAN, bySlug' \in {bySlug, Null},
             byId' \in [Team -> T!Entry \cup {Null}], \A t \in Team : byId'[t] \in {byId[t], Null}
      PROVE  CacheInv'
  <2>1. T!TypeOK'
    BY <1>t, <1>5 DEF T!TypeOK
  <2>2. BySlugFresh'
    BY <1>t, <1>5 DEF BySlugFresh, Fresh
  <2>3. \A t \in Team : ByIdFresh(t)'
    BY <1>t, <1>5 DEF ByIdFresh, Fresh
  <2>4. \A l \in Lookup : Looked(l)'
    BY <1>t, <1>5 DEF Looked
  <2>. QED  BY <1>t, <1>5, <2>1, <2>2, <2>3, <2>4 DEF CacheInv
<1>6. CASE T!Clear
  <2>1. /\ UNCHANGED <<kept, lookup, age, outdated>> /\ due' \in BOOLEAN /\ bySlug' = Null
        /\ byId' = IF bySlug = Null \/ bySlug.team = Null THEN byId ELSE [byId EXCEPT ![bySlug.team] = Null]
    BY <1>6 DEF T!Clear
  <2>2. byId' \in [Team -> T!Entry \cup {Null}] /\ \A t \in Team : byId'[t] \in {byId[t], Null}
    BY <1>t, <2>1
  <2>. QED  BY <1>5, <2>1, <2>2
<1>7. CASE T!ClearAll
  BY <1>t, <1>5, <1>7 DEF T!ClearAll
<1>8. ASSUME UNCHANGED <<kept, due, bySlug, byId, lookup, age>>, outdated' = FALSE
      PROVE  CacheInv'
  BY <1>t, <1>8 DEF CacheInv, T!TypeOK, BySlugFresh, ByIdFresh, Fresh, Looked
<1>9. CASE T!HitSlug
  <2>1. T!Live(bySlug) /\ T!Answer(<<bySlug.team, bySlug.is>>) /\ UNCHANGED <<kept, due, bySlug, byId, lookup, age>>
    BY <1>9 DEF T!HitSlug, T!Hit, T!cache
  <2>2. PICK f \in T!Fact : f = <<bySlug.team, bySlug.is>> /\ age[f] + bySlug.left <= TTL + Stall
    BY <1>t, <2>1 DEF T!Live, BySlugFresh, Fresh
  <2>3. bySlug.left \in Nat /\ bySlug.left > 0
    BY <1>t, <2>1 DEF T!Live, T!Entry
  <2>4. age[f] \in Nat /\ ~(age[f] >= T!Late)
    BY <1>t, <1>l, <2>2, <2>3
  <2>. QED  BY <1>t, <1>8, <2>1, <2>2, <2>4 DEF T!Answer
<1>10. ASSUME NEW t \in Team, T!HitId(t) PROVE CacheInv'
  <2>1. T!Live(byId[t]) /\ T!Answer(<<t, byId[t].is>>) /\ UNCHANGED <<kept, due, bySlug, byId, lookup, age>>
    BY <1>10 DEF T!HitId, T!Hit, T!cache
  <2>2. PICK f \in T!Fact : f = <<t, byId[t].is>> /\ age[f] + byId[t].left <= TTL + Stall
    BY <1>t, <2>1 DEF T!Live, ByIdFresh, Fresh
  <2>3. byId[t].left \in Nat /\ byId[t].left > 0
    BY <1>t, <2>1 DEF T!Live, T!Entry
  <2>4. age[f] \in Nat /\ ~(age[f] >= T!Late)
    BY <1>t, <1>l, <2>2, <2>3
  <2>. QED  BY <1>t, <1>8, <2>1, <2>2, <2>4 DEF T!Answer
(* What a lookup reads is true.                                             *)
<1>11. ASSUME NEW l \in Lookup, NEW p \in {"slug", "id"}, NEW t \in Team \cup {Null}, NEW is \in T!State,
              T!Read(l, p, t, is), <<t, is>> \in T!Fact, T!True(<<t, is>>, kept),
              p = "slug" => (is = "none" <=> t = Null), p = "id" => t \in Team
       PROVE  CacheInv'
  <2> DEFINE w == [at |-> p, team |-> t, is |-> is, awaited |-> 0]
  <2>1. w \in Lookups /\ w.at = p /\ w.team = t /\ w.is = is /\ w.awaited = 0
    OBVIOUS
  <2>2. lookup' = [lookup EXCEPT ![l] = w] /\ UNCHANGED <<kept, due, bySlug, byId, age, outdated>>
    BY <1>11 DEF T!Read, T!cache
  <2> HIDE DEF w
  <2>3. lookup'[l] = w /\ \A k \in Lookup : k # l => lookup'[k] = lookup[k]
    BY <1>t, <2>2
  <2>4. T!TypeOK'
    BY <1>t, <2>1, <2>2 DEF T!TypeOK
  <2>5. age'[<<t, is>>] = 0
    BY <1>t, <1>11, <2>2
  <2>6. Looked(l)'
    BY <1>11, <2>1, <2>3, <2>5 DEF Looked
  <2>7. ASSUME NEW k \in Lookup, k # l PROVE Looked(k)'
    BY <1>t, <2>2, <2>3, <2>7 DEF Looked
  <2>. QED  BY <1>t, <2>2, <2>4, <2>6, <2>7 DEF CacheInv, BySlugFresh, ByIdFresh, Fresh
<1>12. ASSUME NEW l \in Lookup, T!ReadSlug(l) PROVE CacheInv'
  <2>1. ASSUME NEW t \in T!Serving, T!Read(l, "slug", t, kept[t]) PROVE CacheInv'
    <3>1. t \in Team /\ kept[t] \in T!State /\ kept[t] # "none" /\ t # Null
      BY <1>n, <1>t DEF T!Serving
    <3>2. <<t, kept[t]>> \in T!Fact /\ T!True(<<t, kept[t]>>, kept)
      BY <3>1 DEF T!Fact, T!True, T!Unknown
    <3>. QED  BY <1>11, <2>1, <3>1, <3>2
  <2>2. CASE T!Serving = {} /\ T!Read(l, "slug", Null, "none")
    <3>1. <<Null, "none">> \in T!Fact /\ "none" \in T!State
      BY DEF T!Fact, T!Unknown, T!State
    <3>2. T!True(<<Null, "none">>, kept)
      BY <1>t, <2>2 DEF T!True, T!Unknown, T!Serving, T!State
    <3>. QED  BY <1>11, <2>2, <3>1, <3>2
  <2>. QED  BY <1>12, <2>1, <2>2 DEF T!ReadSlug
<1>13. ASSUME NEW l \in Lookup, NEW t \in Team, T!ReadId(l, t) PROVE CacheInv'
  <2>1. kept[t] \in T!State /\ t # Null /\ T!Read(l, "id", t, kept[t])
    BY <1>n, <1>t, <1>13 DEF T!ReadId
  <2>2. <<t, kept[t]>> \in T!Fact /\ T!True(<<t, kept[t]>>, kept)
    BY <2>1 DEF T!Fact, T!True, T!Unknown
  <2>. QED  BY <1>11, <2>1, <2>2
<1>14. ASSUME NEW l \in Lookup, T!Remember(l) PROVE CacheInv'
  <2>1. PICK r \in Lookups : r = lookup[l] /\ r.at # "idle"
    BY <1>t, <1>14 DEF T!Remember
  <2>2. Looked(l)
    BY <1>t
  <2>3. PICK f \in T!Fact : f = <<r.team, r.is>> /\ age[f] <= r.awaited
    BY <2>1, <2>2 DEF Looked
  <2>4. /\ r.at = "slug" => (r.is = "none" <=> r.team = Null)
        /\ r.at = "id" => r.team \in Team
        /\ r.at \in {"slug", "id"} /\ r.team \in Team \cup {Null}
    BY <2>1, <2>2 DEF Looked
  <2>5. age[f] \in Nat /\ age[f] + TTL <= TTL + Stall /\ ~(age[f] >= T!Late)
    BY <1>t, <1>l, <2>3
  <2>6. PICK team \in Team \cup {Null} : team = IF r.is # "none" THEN r.team ELSE Null
    BY <2>4
  <2> DEFINE entry == [team |-> team, is |-> r.is, left |-> TTL]
  <2>7. entry \in T!Entry /\ entry.team = team /\ entry.is = r.is /\ entry.left = TTL
    BY DEF T!Entry
  <2>8. /\ bySlug' = IF r.is # "none" \/ r.at = "slug" THEN entry ELSE bySlug
        /\ byId' = IF r.team # Null THEN [byId EXCEPT ![r.team] = entry] ELSE byId
        /\ T!Answer(f) /\ lookup' = [lookup EXCEPT ![l] = T!Idle]
        /\ UNCHANGED <<kept, due, age>>
    BY <1>14, <2>1, <2>3, <2>6 DEF T!Remember
  <2> HIDE DEF entry
  <2>9. outdated' = FALSE
    BY <1>t, <2>5, <2>8 DEF T!Answer
  <2>10. T!TypeOK'
    BY <1>t, <1>i, <2>7, <2>8, <2>9 DEF T!TypeOK
  <2>11. BySlugFresh'
    <3>1. CASE r.is # "none" \/ r.at = "slug"
      <4>1. bySlug' = entry /\ <<team, r.is>> = f
        BY <2>3, <2>4, <2>6, <2>8, <3>1
      <4>. QED  BY <2>5, <2>7, <2>8, <4>1 DEF BySlugFresh, Fresh
    <3>2. CASE ~(r.is # "none" \/ r.at = "slug")
      BY <1>t, <2>8, <3>2 DEF BySlugFresh, Fresh
    <3>. QED  BY <3>1, <3>2
  <2>12. ASSUME NEW t \in Team PROVE ByIdFresh(t)'
    <3>1. CASE t = r.team
      <4>1. byId'[t] = entry /\ <<t, r.is>> = f
        BY <1>n, <1>t, <2>3, <2>8, <3>1
      <4>. QED  BY <2>5, <2>7, <2>8, <4>1 DEF ByIdFresh, Fresh
    <3>2. CASE t # r.team
      <4>1. byId'[t] = byId[t]
        BY <1>t, <2>4, <2>8, <3>2
      <4>. QED  BY <1>t, <2>8, <4>1 DEF ByIdFresh, Fresh
    <3>. QED  BY <3>1, <3>2
  <2>13. ASSUME NEW k \in Lookup PROVE Looked(k)'
    BY <1>i, <1>t, <2>8 DEF Looked
  <2>. QED  BY <1>t, <2>8, <2>9, <2>10, <2>11, <2>12, <2>13 DEF CacheInv
<1>. QED  BY <1>1, <1>2, <1>4, <1>6, <1>7, <1>9, <1>10, <1>12, <1>13, <1>14 DEF T!Next

----------------------------------------------------------------------------
(* A provider's keys: what is kept or in hand was published a moment ago,   *)
(* and a key published all the while is in what was fetched for it.         *)
KeysFresh == jwks # Null /\ jwks.left > 0 => \A k \in jwks.keys : ago[k] + jwks.left <= KeyLife + Stall
Judges(v) ==
  /\ check[v].at = "served" => \A k \in check[v].got : ago[k] <= check[v].awaited
  /\ check[v].at = "find" => \A k \in check[v].got : ago[k] <= KeyLife + Stall
  /\ check[v].at # "idle" /\ check[v].steady => check[v].kid \in published
  /\ (check[v].at = "served" \/ (check[v].at = "find" /\ check[v].forced)) /\ check[v].steady =>
       check[v].kid \in check[v].got
KeysInv ==
  /\ K!TypeOK /\ ~misjudged
  /\ \A k \in published : ago[k] = 0
  /\ KeysFresh
  /\ \A v \in Verifying : Judges(v)

(* At the start nothing was fetched.                                        *)
LEMMA KeysInit == K!Init => KeysInv
<1> SUFFICES ASSUME K!Init PROVE KeysInv
  OBVIOUS
<1> USE Durations DEF K!Init
<1>1. 0 \in 0..K!Late /\ K!Late \in 0..K!Late
  BY DEF K!Late
<1>2. ago \in [Kid -> 0..K!Late] /\ \A k \in published : ago[k] = 0
  BY <1>1
<1>3. K!Idle.at = "idle" /\ K!Idle \in
        [at : {"idle", "fetch", "served", "find"}, kid : Kid \cup {Null}, named : BOOLEAN,
         steady : BOOLEAN, forced : BOOLEAN, got : SUBSET Kid, awaited : 0..Stall]
  BY DEF K!Idle
<1>4. K!TypeOK
  BY <1>2, <1>3 DEF K!TypeOK
<1>. QED  BY <1>2, <1>3, <1>4 DEF KeysInv, KeysFresh, Judges

(* Every step of the provider, the clock and the verifications.             *)
LEMMA KeysStep == KeysInv /\ [K!Next]_keys => KeysInv'
<1> SUFFICES ASSUME KeysInv, [K!Next]_keys PROVE KeysInv'
  OBVIOUS
<1> USE Durations
<1>n. \A e \in K!Cached : e # Null
  BY NoRowIsNull
<1> DEFINE Checks == [at : {"idle", "fetch", "served", "find"}, kid : Kid \cup {Null}, named : BOOLEAN,
                      steady : BOOLEAN, forced : BOOLEAN, got : SUBSET Kid, awaited : 0..Stall]
<1>t. /\ published \subseteq Kid /\ ago \in [Kid -> 0..K!Late] /\ jwks \in K!Cached \cup {Null}
      /\ check \in [Verifying -> Checks] /\ misjudged = FALSE
      /\ \A k \in published : ago[k] = 0
      /\ KeysFresh
      /\ \A v \in Verifying : Judges(v)
  BY DEF KeysInv, K!TypeOK
<1>l. K!Late \in Nat /\ K!Late = KeyLife + Stall + 1
  BY DEF K!Late
<1>i. K!Idle.at = "idle" /\ K!Idle \in Checks
  BY DEF K!Idle
<1>z. 0 \in 0..Stall /\ 0 \in 0..K!Late
  BY <1>l
<1>1. CASE UNCHANGED keys
  BY <1>t, <1>1 DEF keys, KeysInv, K!TypeOK, KeysFresh, Judges
<1>2. CASE K!Tick
  <2>1. /\ \A v \in Verifying : check[v].at # "find" /\ (check[v].at \in {"fetch", "served"} => check[v].awaited < Stall)
        /\ ago' = [k \in Kid |-> IF k \in published \/ ago[k] = K!Late THEN ago[k] ELSE ago[k] + 1]
        /\ jwks' = IF jwks = Null \/ jwks.left = 0 THEN jwks ELSE [jwks EXCEPT !.left = @ - 1]
        /\ check' = [v \in Verifying |->
             IF check[v].at \in {"fetch", "served"} THEN [check[v] EXCEPT !.awaited = @ + 1] ELSE check[v]]
        /\ UNCHANGED <<published, misjudged>>
    BY <1>2 DEF K!Tick, K!At, K!Fetching
  <2>2. ASSUME NEW k \in Kid
        PROVE  /\ ago[k] \in 0..K!Late /\ ago'[k] \in 0..K!Late /\ ago'[k] <= ago[k] + 1
               /\ k \in published => ago'[k] = ago[k]
    <3>1. PICK a \in 0..K!Late : a = ago[k]
      BY <1>t
    <3>2. ago'[k] = IF k \in published \/ a = K!Late THEN a ELSE a + 1
      BY <2>1, <3>1
    <3>. QED  BY <1>l, <3>1, <3>2
  <2>3. ago' \in [Kid -> 0..K!Late]
    BY <2>1, <2>2
  <2>4. jwks' \in K!Cached \cup {Null} /\ KeysFresh'
    <3>1. CASE jwks = Null \/ jwks.left = 0
      BY <1>t, <2>1, <3>1 DEF KeysFresh
    <3>2. CASE jwks # Null /\ jwks.left # 0
      <4>1. PICK e \in K!Cached : e = jwks
        BY <1>t, <3>2
      <4>2. e.left \in 0..KeyLife /\ e.left # 0 /\ e.left - 1 \in 0..KeyLife /\ e.keys \subseteq Kid
        BY <3>2, <4>1 DEF K!Cached
      <4>3. PICK n \in 0..KeyLife : n = e.left - 1
        BY <4>2
      <4>4. jwks' = [e EXCEPT !.left = n]
        BY <2>1, <3>2, <4>1, <4>3
      <4>5. jwks' \in K!Cached /\ jwks'.keys = e.keys /\ jwks'.left = n
        BY <4>4 DEF K!Cached
      <4>6. ASSUME NEW k \in e.keys PROVE ago'[k] + n <= KeyLife + Stall
        <5>1. ago[k] + e.left <= KeyLife + Stall
          BY <1>t, <3>2, <4>1, <4>2 DEF KeysFresh
        <5>. QED  BY <2>2, <4>2, <4>3, <5>1
      <4>. QED  BY <4>5, <4>6 DEF KeysFresh
    <3>. QED  BY <3>1, <3>2
  <2>5. ASSUME NEW v \in Verifying PROVE check'[v] \in Checks /\ Judges(v)'
    <3>1. PICK c \in Checks : c = check[v]
      BY <1>t
    <3>2. Judges(v) /\ c.at # "find"
      BY <1>t, <2>1, <3>1
    <3>3. CASE c.at \in {"fetch", "served"}
      <4>1. c.awaited \in Nat /\ c.awaited + 1 \in 0..Stall
        BY <2>1, <3>1, <3>3
      <4>2. PICK n \in 0..Stall : n = c.awaited + 1
        BY <4>1
      <4>3. check'[v] = [c EXCEPT !.awaited = n]
        BY <2>1, <3>1, <3>3, <4>2
      <4>4. /\ check'[v] \in Checks /\ check'[v].at = c.at /\ check'[v].kid = c.kid /\ check'[v].got = c.got
            /\ check'[v].steady = c.steady /\ check'[v].forced = c.forced /\ check'[v].awaited = n
        BY <4>3
      <4>5. c.at = "served" => \A k \in c.got : ago'[k] <= n
        <5>1. ASSUME c.at = "served", NEW k \in c.got PROVE ago'[k] <= n
          <6>1. k \in Kid /\ ago[k] <= c.awaited
            BY <3>1, <3>2, <5>1 DEF Judges
          <6>. QED  BY <2>2, <4>1, <4>2, <6>1
        <5>. QED  BY <5>1
      <4>. QED  BY <2>1, <3>1, <3>2, <4>4, <4>5 DEF Judges
    <3>4. CASE c.at \notin {"fetch", "served"}
      <4>1. check'[v] = c /\ c.at = "idle"
        BY <2>1, <3>1, <3>2, <3>4
      <4>. QED  BY <4>1 DEF Judges
    <3>. QED  BY <3>3, <3>4
  <2>6. K!TypeOK'
    BY <1>t, <2>1, <2>3, <2>4, <2>5 DEF K!TypeOK
  <2>. QED  BY <1>t, <2>1, <2>2, <2>4, <2>5, <2>6 DEF KeysInv
<1>3. ASSUME NEW k \in Kid, K!Publish(k) PROVE KeysInv'
  <2>1. /\ published' = published \cup {k} /\ ago' = [ago EXCEPT ![k] = 0]
        /\ UNCHANGED <<jwks, check, misjudged>>
    BY <1>3 DEF K!Publish
  <2>2. \A j \in Kid : ago[j] \in 0..K!Late /\ ago'[j] \in 0..K!Late /\ ago'[j] <= ago[j] /\ (j # k => ago'[j] = ago[j])
    BY <1>t, <1>l, <2>1
  <2>3. K!TypeOK' /\ \A j \in published' : ago'[j] = 0
    <3>1. ago' \in [Kid -> 0..K!Late] /\ published' \subseteq Kid
      BY <1>t, <1>z, <2>1
    <3>2. \A j \in published' : ago'[j] = 0
      BY <1>t, <2>1
    <3>. QED  BY <1>t, <2>1, <3>1, <3>2 DEF K!TypeOK
  <2>4. KeysFresh'
    <3> SUFFICES ASSUME jwks # Null, jwks.left > 0, NEW j \in jwks.keys
                 PROVE  ago'[j] + jwks.left <= KeyLife + Stall
      BY <2>1 DEF KeysFresh
    <3>1. j \in Kid /\ jwks.left \in Nat
      BY <1>t DEF K!Cached
    <3>2. ago[j] + jwks.left <= KeyLife + Stall
      BY <1>t DEF KeysFresh
    <3>. QED  BY <2>2, <3>1, <3>2
  <2>5. ASSUME NEW v \in Verifying PROVE Judges(v)'
    <3>1. PICK c \in Checks : c = check[v] /\ c = check'[v]
      BY <1>t, <2>1
    <3>2. ASSUME NEW j \in c.got, NEW n \in Nat, ago[j] <= n PROVE ago'[j] <= n
      <4>1. j \in Kid
        OBVIOUS
      <4>. QED  BY <2>2, <3>2, <4>1
    <3>3. Judges(v) /\ c.awaited \in Nat /\ KeyLife + Stall \in Nat
      BY <1>t
    <3>. QED  BY <2>1, <3>1, <3>2, <3>3 DEF Judges
  <2>. QED  BY <1>t, <2>1, <2>3, <2>4, <2>5 DEF KeysInv
<1>4. ASSUME NEW k \in Kid, K!Withdraw(k) PROVE KeysInv'
  <2>1. /\ published' = published \ {k} /\ UNCHANGED <<ago, jwks, misjudged>>
        /\ check' = [v \in Verifying |->
             IF check[v].kid = k THEN [check[v] EXCEPT !.steady = FALSE] ELSE check[v]]
    BY <1>4 DEF K!Withdraw
  <2>2. ASSUME NEW v \in Verifying PROVE check'[v] \in Checks /\ Judges(v)'
    <3>1. PICK c \in Checks : c = check[v]
      BY <1>t
    <3>2. Judges(v)
      BY <1>t
    <3>3. CASE c.kid = k
      <4>1. check'[v] = [c EXCEPT !.steady = FALSE]
        BY <2>1, <3>1, <3>3
      <4>2. /\ check'[v] \in Checks /\ check'[v].at = c.at /\ check'[v].got = c.got
            /\ check'[v].awaited = c.awaited /\ check'[v].steady = FALSE
        BY <4>1
      <4>. QED  BY <2>1, <3>1, <3>2, <4>2 DEF Judges
    <3>4. CASE c.kid # k
      BY <2>1, <3>1, <3>2, <3>4 DEF Judges
    <3>. QED  BY <3>3, <3>4
  <2>3. K!TypeOK'
    BY <1>t, <2>1, <2>2 DEF K!TypeOK
  <2>. QED  BY <1>t, <2>1, <2>2, <2>3 DEF KeysInv, KeysFresh
(* One verification goes on.                                                *)
<1>5. ASSUME NEW v \in Verifying, NEW w \in Checks, check' = [check EXCEPT ![v] = w],
             UNCHANGED <<published, ago>>, misjudged' = FALSE,
             jwks' \in K!Cached \cup {Null}, KeysFresh', Judges(v)'
      PROVE  KeysInv'
  <2>1. check'[v] = w /\ \A u \in Verifying : u # v => check'[u] = check[u]
    BY <1>t, <1>5
  <2>2. K!TypeOK'
    BY <1>t, <1>5 DEF K!TypeOK
  <2>3. ASSUME NEW u \in Verifying, u # v PROVE Judges(u)'
    BY <1>t, <1>5, <2>1, <2>3 DEF Judges
  <2>. QED  BY <1>t, <1>5, <2>2, <2>3 DEF KeysInv
<1>6. ASSUME NEW v \in Verifying, check' = [check EXCEPT ![v] = K!Idle],
             UNCHANGED <<published, ago, jwks>>, misjudged' = FALSE
      PROVE  KeysInv'
  <2>1. check'[v] = K!Idle
    BY <1>t, <1>6
  <2>2. Judges(v)'
    BY <1>i, <2>1 DEF Judges
  <2>3. KeysFresh'
    BY <1>t, <1>6 DEF KeysFresh
  <2>. QED  BY <1>i, <1>t, <1>5, <1>6, <2>2, <2>3
<1>7. ASSUME NEW v \in Verifying, K!Verify(v) PROVE KeysInv'
  <2>1. PICK k \in Kid, named \in BOOLEAN :
          check' = [check EXCEPT ![v] =
            [K!Idle EXCEPT !.at = IF K!Hit THEN "find" ELSE "fetch", !.kid = k, !.named = named,
                           !.steady = k \in published, !.got = IF K!Hit THEN jwks.keys ELSE {}]]
    BY <1>7 DEF K!Verify
  <2>2. PICK steady \in BOOLEAN : steady = (k \in published)
    <3>1. CASE k \in published
      <4>1. (k \in published) = TRUE
        BY <3>1
      <4>. QED  BY <4>1
    <3>2. CASE k \notin published
      <4>1. (k \in published) = FALSE
        BY <3>2
      <4>. QED  BY <4>1
    <3>. QED  BY <3>1, <3>2
  <2>3. CASE K!Hit
    <3>1. PICK held \in SUBSET Kid : held = jwks.keys
      BY <1>t, <2>3 DEF K!Hit, K!Cached
    <3> DEFINE w == [K!Idle EXCEPT !.at = "find", !.kid = k, !.named = named, !.steady = steady, !.got = held]
    <3>2. w \in Checks /\ w.at = "find" /\ w.kid = k /\ w.steady = steady /\ w.got = held /\ w.forced = FALSE
      BY <1>z DEF K!Idle
    <3>3. check' = [check EXCEPT ![v] = w] /\ UNCHANGED <<published, ago, jwks, misjudged>>
      BY <1>7, <2>1, <2>2, <2>3, <3>1 DEF K!Verify
    <3> HIDE DEF w
    <3>4. check'[v] = w
      BY <1>t, <3>3
    <3>5. \A j \in held : ago[j] <= KeyLife + Stall
      <4> SUFFICES ASSUME NEW j \in held PROVE ago[j] <= KeyLife + Stall
        OBVIOUS
      <4>1. ago[j] + jwks.left <= KeyLife + Stall /\ jwks.left > 0
        BY <1>t, <2>3, <3>1 DEF K!Hit, KeysFresh
      <4>2. ago[j] \in Nat /\ jwks.left \in Nat
        BY <1>t, <1>l, <2>3, <3>1 DEF K!Hit, K!Cached
      <4>. QED  BY <4>1, <4>2
    <3>6. Judges(v)' /\ KeysFresh'
      BY <1>t, <2>2, <3>2, <3>3, <3>4, <3>5 DEF Judges, KeysFresh
    <3>. QED  BY <1>t, <1>5, <3>2, <3>3, <3>6
  <2>4. CASE ~K!Hit
    <3> DEFINE w == [K!Idle EXCEPT !.at = "fetch", !.kid = k, !.named = named, !.steady = steady, !.got = {}]
    <3>2. w \in Checks /\ w.at = "fetch" /\ w.kid = k /\ w.steady = steady
      BY <1>z DEF K!Idle
    <3>3. check' = [check EXCEPT ![v] = w] /\ UNCHANGED <<published, ago, jwks, misjudged>>
      BY <1>7, <2>1, <2>2, <2>4 DEF K!Verify
    <3> HIDE DEF w
    <3>4. check'[v] = w
      BY <1>t, <3>3
    <3>6. Judges(v)' /\ KeysFresh'
      BY <1>t, <2>2, <3>2, <3>3, <3>4 DEF Judges, KeysFresh
    <3>. QED  BY <1>t, <1>5, <3>2, <3>3, <3>6
  <2>. QED  BY <2>3, <2>4
<1>8. ASSUME NEW v \in Verifying, K!Serve(v) PROVE KeysInv'
  <2>1. PICK c \in Checks : c = check[v] /\ c.at = "fetch"
    BY <1>t, <1>8 DEF K!Serve, K!At
  <2> DEFINE w == [c EXCEPT !.at = "served", !.got = published]
  <2>2. w \in Checks /\ w.at = "served" /\ w.got = published /\ w.kid = c.kid /\ w.steady = c.steady /\ w.awaited = c.awaited
    BY <1>t
  <2>3. check' = [check EXCEPT ![v] = w] /\ UNCHANGED <<published, ago, jwks, misjudged>>
    BY <1>8, <2>1 DEF K!Serve
  <2> HIDE DEF w
  <2>4. check'[v] = w
    BY <1>t, <2>3
  <2>5. Judges(v)
    BY <1>t
  <2>6. c.awaited \in Nat /\ \A k \in published : ago[k] <= c.awaited
    BY <1>t
  <2>7. Judges(v)' /\ KeysFresh'
    BY <1>t, <2>1, <2>2, <2>3, <2>4, <2>5, <2>6 DEF Judges, KeysFresh
  <2>. QED  BY <1>t, <1>5, <2>2, <2>3, <2>7
<1>9. ASSUME NEW v \in Verifying, K!Fetched(v) PROVE KeysInv'
  <2>1. PICK c \in Checks : c = check[v] /\ c.at = "served"
    BY <1>t, <1>9 DEF K!Fetched, K!At
  <2> DEFINE w == [c EXCEPT !.at = "find", !.awaited = 0]
             e == [keys |-> c.got, left |-> KeyLife]
  <2>2. w \in Checks /\ w.at = "find" /\ w.got = c.got /\ w.kid = c.kid /\ w.steady = c.steady /\ w.forced = c.forced
    BY <1>z
  <2>3. e \in K!Cached /\ e.keys = c.got /\ e.left = KeyLife
    BY DEF K!Cached
  <2>4. check' = [check EXCEPT ![v] = w] /\ jwks' = e /\ UNCHANGED <<published, ago, misjudged>>
    BY <1>9, <2>1 DEF K!Fetched
  <2> HIDE DEF w, e
  <2>5. check'[v] = w /\ Judges(v)
    BY <1>t, <2>4
  <2>6. \A k \in c.got : ago[k] + KeyLife <= KeyLife + Stall /\ ago[k] <= KeyLife + Stall
    <3> SUFFICES ASSUME NEW k \in c.got PROVE ago[k] + KeyLife <= KeyLife + Stall /\ ago[k] <= KeyLife + Stall
      OBVIOUS
    <3>1. ago[k] <= c.awaited /\ c.awaited \in 0..Stall /\ ago[k] \in 0..K!Late
      BY <1>t, <2>1, <2>5 DEF Judges
    <3>. QED  BY <1>l, <3>1
  <2>7. Judges(v)' /\ KeysFresh'
    BY <2>1, <2>2, <2>3, <2>4, <2>5, <2>6 DEF Judges, KeysFresh
  <2>. QED  BY <1>t, <1>5, <2>2, <2>3, <2>4, <2>7
<1>10. ASSUME NEW v \in Verifying, K!FetchFails(v) PROVE KeysInv'
  BY <1>t, <1>6, <1>10 DEF K!FetchFails
<1>11. ASSUME NEW v \in Verifying, K!Refetch(v) PROVE KeysInv'
  <2>1. PICK c \in Checks : c = check[v] /\ c.at = "find"
    BY <1>t, <1>11 DEF K!Refetch, K!At
  <2> DEFINE w == [c EXCEPT !.at = "fetch", !.forced = TRUE, !.awaited = 0]
  <2>2. w \in Checks /\ w.at = "fetch" /\ w.kid = c.kid /\ w.steady = c.steady
    BY <1>z
  <2>3. check' = [check EXCEPT ![v] = w] /\ UNCHANGED <<published, ago, jwks, misjudged>>
    BY <1>11, <2>1 DEF K!Refetch
  <2> HIDE DEF w
  <2>4. check'[v] = w /\ Judges(v)
    BY <1>t, <2>3
  <2>7. Judges(v)' /\ KeysFresh'
    BY <1>t, <2>1, <2>2, <2>3, <2>4 DEF Judges, KeysFresh
  <2>. QED  BY <1>t, <1>5, <2>2, <2>3, <2>7
<1>12. ASSUME NEW v \in Verifying, K!NoMatchingKey(v) PROVE KeysInv'
  <2>1. /\ check[v].at = "find" /\ K!FindKey(v) = {} /\ check[v].forced
        /\ misjudged' = (misjudged \/ check[v].steady)
        /\ check' = [check EXCEPT ![v] = K!Idle] /\ UNCHANGED <<published, ago, jwks>>
    BY <1>12 DEF K!NoMatchingKey, K!At
  <2>2. check[v].steady => check[v].kid \in check[v].got
    BY <1>t, <2>1 DEF Judges
  <2>3. check[v].steady = FALSE
    BY <1>t, <2>1, <2>2 DEF K!FindKey
  <2>. QED  BY <1>t, <1>6, <2>1, <2>3
<1>13. ASSUME NEW v \in Verifying, K!CheckSignature(v) PROVE KeysInv'
  <2>1. /\ check[v].at = "find" /\ check' = [check EXCEPT ![v] = K!Idle] /\ UNCHANGED <<published, ago, jwks>>
    BY <1>13 DEF K!CheckSignature, K!At
  <2>2. PICK k \in K!FindKey(v) : misjudged' = (misjudged \/ (k = check[v].kid /\ ago[k] >= K!Late))
    BY <1>13 DEF K!CheckSignature
  <2>3. k \in check[v].got /\ k \in Kid
    BY <1>t DEF K!FindKey
  <2>4. ago[k] <= KeyLife + Stall /\ ago[k] \in Nat
    BY <1>t, <1>l, <2>1, <2>3 DEF Judges
  <2>5. ~(ago[k] >= K!Late)
    BY <1>l, <2>4
  <2>6. misjudged' = FALSE
    BY <1>t, <2>2, <2>5
  <2>. QED  BY <1>6, <2>1, <2>6
<1>. QED  BY <1>1, <1>2, <1>3, <1>4, <1>7, <1>8, <1>9, <1>10, <1>11, <1>12, <1>13 DEF K!Next

(* For any times to live and any delays of a read: no answer of the two     *)
(* caches is older than an entry may be and the read that made it.          *)
THEOREM CachesStayRecent == MCSpec => []CachesAreRecent
<1> DEFINE Inv == (focus = "teams" => CacheInv) /\ (focus = "keys" => KeysInv)
<1>1. MCInit => Inv
  <2> SUFFICES ASSUME MCInit PROVE Inv
    OBVIOUS
  <2>1. (focus = "teams" => T!Init) /\ (focus = "keys" => K!Init)
    BY DEF MCInit
  <2>. QED  BY <2>1, CacheInit, KeysInit
<1>2. Inv /\ [MCNext]_allVars => Inv'
  <2> SUFFICES ASSUME Inv, [MCNext]_allVars PROVE Inv'
    OBVIOUS
  <2>1. /\ focus' = focus
        /\ focus = "teams" => [T!Next]_teams
        /\ focus = "keys" => [K!Next]_keys
    BY DEF MCNext, allVars
  <2>. QED  BY <2>1, CacheStep, KeysStep
<1>3. Inv => CachesAreRecent
  BY DEF CacheInv, KeysInv, CachesAreRecent, T!AnswersAreRecent, K!RotationIsFollowed
<1>. QED  BY <1>1, <1>2, <1>3, PTL DEF MCSpec
(* What the next calls of the bucket may add to: those counted in its row.  *)
Filled(row) == IF row.count <= Allowed THEN row.count ELSE Allowed

(* With no row, whatever was let through is past, and all but the last      *)
(* windowful longer past than a window.                                     *)
Unfilled ==
  /\ \A i \in 1..Len(through) : through[i] < time
  /\ \A i \in 1..Len(through) : i + Allowed <= Len(through) => through[i] + Period < time

(* With a row, the calls of its window are the last ones, those of the      *)
(* window before ended when it began (but for Lag), and the ones before     *)
(* those a window earlier.                                                  *)
FilledUp(row) ==
  /\ row.started <= time
  /\ \A i \in 1..Len(through) : through[i] <= row.started + Period + Lag
  /\ \A i \in 1..Len(through) : i + Filled(row) <= Len(through) => through[i] < row.started + Lag
  /\ \A i \in 1..Len(through) :
       i + Filled(row) + Allowed <= Len(through) => through[i] + Period < row.started + Lag

(* Statements carry a time not longer than Lag ago.                         *)
Waited ==
  /\ \A c \in Call : begun[c] # Null => begun[c] \in Nat /\ begun[c] <= time /\ time <= begun[c] + Lag
  /\ swept # Null => swept \in Nat /\ swept <= time

Spread ==
  Len(through) = 2 * Allowed + 1 => through[1] + Period < through[2 * Allowed + 1] + Lag

CountRow == [count : 1..(Allowed + 1), started : Nat]

LimitInv ==
  /\ time \in Nat /\ through \in Seq(Nat) /\ Len(through) <= 2 * Allowed + 1
  /\ bucket \in CountRow \cup {Null}
  /\ \A i \in 1..Len(through) : through[i] <= time
  /\ Waited /\ Spread
  /\ bucket = Null => Unfilled
  /\ bucket # Null => FilledUp(bucket)

(* At the start nobody was let through.                                     *)
LEMMA LimitInit == R!Init => LimitInv
<1> SUFFICES ASSUME R!Init PROVE LimitInv
  OBVIOUS
<1>1. through = <<>> /\ through \in Seq(Nat) /\ Len(through) = 0
  BY EmptySeq DEF R!Init
<1>. QED  BY <1>1, Windows DEF R!Init, LimitInv, Waited, Spread, Unfilled

(* Letting a call through puts it last; the others stay, or move up by one  *)
(* when the list is full.                                                   *)
Lasts(f, x, g, d) ==
  /\ g \in Seq(Nat) /\ Len(g) = Len(f) + 1 - d /\ Len(g) \in 1..(2 * Allowed + 1)
  /\ g[Len(g)] = x
  /\ \A i \in 1..(Len(g) - 1) : i + d \in 1..Len(f) /\ g[i] = f[i + d]

(* What is kept of the calls let through is one more or one less of them.   *)
LEMMA LastAppended ==
  ASSUME NEW f \in Seq(Nat), NEW x \in Nat, Len(f) <= 2 * Allowed + 1
  PROVE  \E d \in 0..1 : Lasts(f, x, R!Last(Append(f, x)), d)
<1> DEFINE h == Append(f, x)
<1>1. /\ h \in Seq(Nat) /\ h # <<>> /\ Len(h) = Len(f) + 1 /\ Len(f) \in Nat
      /\ \A i \in 1..Len(f) : h[i] = f[i]
      /\ h[Len(f) + 1] = x
  BY AppendProperties, LenProperties
<1>2. CASE Len(h) <= 2 * Allowed + 1
  <2>1. R!Last(h) = h
    BY <1>2 DEF R!Last
  <2> HIDE DEF h
  <2>2. Lasts(f, x, h, 0)
    BY <1>1, <1>2 DEF Lasts
  <2>. QED  BY <2>1, <2>2 DEF h
<1>3. CASE ~(Len(h) <= 2 * Allowed + 1)
  <2>1. R!Last(h) = Tail(h)
    BY <1>3 DEF R!Last
  <2> HIDE DEF h
  <2>2. /\ Tail(h) \in Seq(Nat) /\ Len(Tail(h)) = Len(h) - 1
        /\ \A i \in 1..Len(Tail(h)) : Tail(h)[i] = h[i + 1]
    BY <1>1, HeadTailProperties
  <2>3. PICK g \in Seq(Nat) : g = Tail(h)
    BY <2>2
  <2>4. Len(f) = 2 * Allowed + 1 /\ Len(g) = Len(f) /\ Len(f) >= 1
    <3>1. PICK n \in Nat : n = Len(f)
      BY <1>1
    <3>2. PICK a \in Nat \ {0} : a = Allowed
      BY Windows
    <3>3. PICK m \in Nat : m = Len(h)
      BY <1>1
    <3>4. m = n + 1 /\ ~(m <= 2 * a + 1) /\ n <= 2 * a + 1 /\ Len(g) = m - 1
      BY <1>1, <1>3, <2>2, <2>3, <3>1, <3>2, <3>3
    <3>. QED  BY <3>1, <3>2, <3>4
  <2>6. \A i \in 1..Len(g) : g[i] = h[i + 1]
    BY <2>2, <2>3
  <2>5. Lasts(f, x, g, 1)
    BY <1>1, <2>4, <2>6 DEF Lasts
  <2>. QED  BY <2>1, <2>3, <2>5 DEF h
<1>. QED  BY <1>2, <1>3

(* Whatever bounds all but the last k - 1 of the calls bounds all but the   *)
(* last k of them after another call.                                       *)
LEMMA MovedUp ==
  ASSUME NEW f \in Seq(Nat), NEW x \in Nat, NEW g, NEW d \in 0..1, Lasts(f, x, g, d),
         NEW k \in Nat \ {0}, NEW bound \in Int,
         \A i \in 1..Len(f) : i + k <= Len(f) + 1 => f[i] < bound
  PROVE  \A i \in 1..Len(g) : i + k <= Len(g) => g[i] < bound
<1>1. PICK n \in Nat : n = Len(f)
  BY LenProperties
<1>2. PICK m \in Nat : m = Len(g) /\ m = n + 1 - d
  BY <1>1, LenProperties DEF Lasts
<1>3. \A i \in 1..(m - 1) : i + d \in 1..n /\ g[i] = f[i + d]
  BY <1>1, <1>2 DEF Lasts
<1>4. ASSUME NEW i \in 1..m, i + k <= m
      PROVE  g[i] < bound
  <2>1. i \in 1..(m - 1) /\ i + d \in 1..n /\ i + d + k <= n + 1
    BY <1>2, <1>3, <1>4
  <2>2. f[i + d] < bound
    BY <1>1, <2>1
  <2>. QED  BY <1>3, <2>1, <2>2
<1>. QED  BY <1>2, <1>4

(* And what bounds all of them and the new one bounds all of them again.    *)
LEMMA AllMovedUp ==
  ASSUME NEW f \in Seq(Nat), NEW x \in Nat, NEW g, NEW d \in 0..1, Lasts(f, x, g, d),
         NEW bound \in Int, x < bound, \A i \in 1..Len(f) : f[i] < bound
  PROVE  \A i \in 1..Len(g) : g[i] < bound
<1>1. \A i \in 1..Len(g) : i + 1 <= Len(g) => g[i] < bound
  <2>1. \A i \in 1..Len(f) : i + 1 <= Len(f) + 1 => f[i] < bound
    OBVIOUS
  <2>2. 1 \in Nat \ {0}
    OBVIOUS
  <2>. QED  BY <2>1, <2>2, MovedUp
<1>2. Len(g) \in Nat /\ g[Len(g)] = x
  BY LenProperties DEF Lasts
<1>3. \A i \in 1..Len(g) : i = Len(g) \/ i + 1 <= Len(g)
  BY <1>2
<1>. QED  BY <1>1, <1>2, <1>3

(* A call let through in the window of a row keeps the invariant.           *)
LEMMA LetThrough ==
  ASSUME LimitInv, NEW row \in CountRow, row.started <= time, row.count <= Allowed,
         time' = time, through' = R!Last(Append(through, time)), bucket' = row, Waited',
         time <= row.started + Period + Lag,
         \A i \in 1..Len(through) : through[i] <= row.started + Period + Lag,
         \A i \in 1..Len(through) : i + row.count <= Len(through) + 1 => through[i] < row.started + Lag,
         \A i \in 1..Len(through) :
           i + row.count + Allowed <= Len(through) + 1 => through[i] + Period < row.started + Lag
  PROVE  LimitInv'
<1>1. /\ time \in Nat /\ through \in Seq(Nat) /\ Len(through) <= 2 * Allowed + 1
      /\ \A i \in 1..Len(through) : through[i] <= time
      /\ Len(through) \in Nat /\ \A i \in 1..Len(through) : through[i] \in Nat
  BY LenProperties, ElementOfSeq DEF LimitInv
<1>k. PICK k \in Nat, s \in Nat : k = row.count /\ s = row.started
  BY Windows DEF CountRow
<1>c. k # 0 /\ k <= Allowed /\ k + Allowed \in Nat \ {0} /\ s <= time /\ time <= s + Period + Lag
  BY <1>k, Windows DEF CountRow
<1>2. PICK d \in 0..1 : Lasts(through, time, through', d)
  BY <1>1, LastAppended
<1>3. /\ through' \in Seq(Nat) /\ Len(through') \in 1..(2 * Allowed + 1) /\ through'[Len(through')] = time
      /\ Len(through') \in Nat /\ \A i \in 1..Len(through') : through'[i] \in Nat
  BY <1>2, LenProperties, ElementOfSeq, Windows DEF Lasts
<1>4. \A i \in 1..Len(through') : through'[i] < time + 1
  BY <1>1, <1>2, AllMovedUp
<1>5. \A i \in 1..Len(through') : through'[i] < s + Period + Lag + 1
  <2>1. \A i \in 1..Len(through) : through[i] < s + Period + Lag + 1
    <3>1. \A i \in 1..Len(through) : through[i] <= s + Period + Lag
      BY <1>k
    <3>2. PICK b \in Nat : b = s + Period + Lag
      BY Windows
    <3>. QED  BY <1>1, <3>1, <3>2
  <2>2. time < s + Period + Lag + 1 /\ s + Period + Lag + 1 \in Int
    BY <1>1, <1>c, Windows
  <2>. QED  BY <1>1, <1>2, <2>1, <2>2, AllMovedUp
<1>6. \A i \in 1..Len(through') : i + k <= Len(through') => through'[i] < s + Lag
  <2>1. s + Lag \in Int
    BY Windows
  <2>. QED  BY <1>1, <1>2, <1>k, <1>c, <2>1, MovedUp
<1>7. \A i \in 1..Len(through') : i + (k + Allowed) <= Len(through') => through'[i] < s + Lag - Period
  <2>1. s + Lag - Period \in Int
    BY Windows
  <2>2. \A i \in 1..Len(through) : i + (k + Allowed) <= Len(through) + 1 => through[i] < s + Lag - Period
    <3> SUFFICES ASSUME NEW i \in 1..Len(through), i + (k + Allowed) <= Len(through) + 1
                 PROVE  through[i] < s + Lag - Period
      OBVIOUS
    <3>1. i + k + Allowed <= Len(through) + 1
      BY <1>1, Windows
    <3>2. through[i] + Period < s + Lag
      BY <1>k, <3>1
    <3>. QED  BY <1>1, <3>2, Windows
  <2>. QED  BY <1>1, <1>2, <1>c, <2>1, <2>2, MovedUp
<1>8. FilledUp(row)'
  <2>1. Filled(row) = k
    BY <1>k DEF Filled
  <2>2. \A i \in 1..Len(through') : i + k + Allowed <= Len(through') => through'[i] + Period < s + Lag
    BY <1>3, <1>7, Windows
  <2>3. \A i \in 1..Len(through') : through'[i] <= s + Period + Lag
    BY <1>3, <1>5, Windows
  <2>. QED  BY <1>6, <1>k, <2>1, <2>2, <2>3 DEF FilledUp, Filled
<1>9. Spread'
  <2> SUFFICES ASSUME Len(through') = 2 * Allowed + 1
               PROVE  through'[1] + Period < through'[2 * Allowed + 1] + Lag
    BY DEF Spread
  <2>1. 1 \in 1..Len(through') /\ 1 + (k + Allowed) <= Len(through')
    BY <1>3, <1>c, Windows
  <2>2. through'[1] < s + Lag - Period /\ through'[1] \in Nat
    BY <1>3, <1>7, <2>1
  <2>3. through'[2 * Allowed + 1] = time
    BY <1>3
  <2>. QED  BY <1>1, <1>c, <2>2, <2>3, Windows
<1>10. \A i \in 1..Len(through') : through'[i] <= time
  BY <1>1, <1>3, <1>4
<1>. QED  BY <1>1, <1>3, <1>8, <1>9, <1>10, NoRowIsNull, Windows DEF LimitInv, CountRow

(* A call let through first in a window that begins at b.                   *)
LEMMA WindowBegins ==
  ASSUME LimitInv, NEW b \in Nat, b <= time, time <= b + Lag, NEW row \in CountRow,
         row.count = 1, row.started = b,
         time' = time, through' = R!Last(Append(through, time)), bucket' = row, Waited',
         \A i \in 1..Len(through) : through[i] < b + Lag,
         \A i \in 1..Len(through) : i + Allowed <= Len(through) => through[i] + Period < b + Lag
  PROVE  LimitInv'
<1>1. /\ time \in Nat /\ through \in Seq(Nat) /\ Len(through) \in Nat
      /\ \A i \in 1..Len(through) : through[i] \in Nat
  BY LenProperties, ElementOfSeq DEF LimitInv
<1>2. row.count <= Allowed /\ row.started <= time /\ time <= row.started + Period + Lag
  BY <1>1, Windows
<1>3. \A i \in 1..Len(through) : through[i] <= row.started + Period + Lag
  BY <1>1, Windows
<1>4. \A i \in 1..Len(through) : i + row.count <= Len(through) + 1 => through[i] < row.started + Lag
  OBVIOUS
<1>5. \A i \in 1..Len(through) :
        i + row.count + Allowed <= Len(through) + 1 => through[i] + Period < row.started + Lag
  <2> SUFFICES ASSUME NEW i \in 1..Len(through), i + row.count + Allowed <= Len(through) + 1
               PROVE  through[i] + Period < row.started + Lag
    OBVIOUS
  <2>1. i + Allowed <= Len(through)
    BY <1>1, Windows
  <2>. QED  BY <2>1
<1>. QED  BY <1>2, <1>3, <1>4, <1>5, LetThrough

(* Every step of a call and of the sweep keeps the invariant.               *)
LEMMA LimitStep == LimitInv /\ [R!Next]_rates => LimitInv'
<1> SUFFICES ASSUME LimitInv, [R!Next]_rates PROVE LimitInv'
  OBVIOUS
<1>t. /\ time \in Nat /\ through \in Seq(Nat) /\ Len(through) \in Nat
      /\ \A i \in 1..Len(through) : through[i] \in Nat /\ through[i] <= time
  BY LenProperties, ElementOfSeq DEF LimitInv
<1> USE Windows
<1>1. CASE UNCHANGED rates
  BY <1>1 DEF LimitInv, rates, Waited, Spread, Unfilled, FilledUp, Filled
<1>2. CASE R!Tick
  <2>1. Waited'
    BY <1>t, <1>2 DEF R!Tick, R!Since, Waited, LimitInv
  <2>2. time' = time + 1 /\ UNCHANGED <<bucket, through>>
    BY <1>2 DEF R!Tick
  <2>3. bucket = Null => Unfilled'
    BY <1>t, <2>2 DEF LimitInv, Unfilled
  <2>4. ASSUME bucket # Null PROVE FilledUp(bucket)'
    <3>1. bucket.started \in Nat
      BY <2>4 DEF LimitInv, CountRow
    <3>. QED  BY <1>t, <2>2, <2>4, <3>1 DEF LimitInv, FilledUp, Filled
  <2>. QED  BY <1>t, <2>1, <2>2, <2>3, <2>4 DEF LimitInv, Spread
<1>3. ASSUME NEW c \in Call, R!CheckRate(c) PROVE LimitInv'
  <2>1. Waited'
    BY <1>t, <1>3 DEF R!CheckRate, Waited, LimitInv
  <2>. QED  BY <2>1, <1>3 DEF R!CheckRate, LimitInv, Spread, Unfilled, FilledUp, Filled
<1>4. CASE R!SweepRateLimits
  <2>1. Waited'
    BY <1>t, <1>4 DEF R!SweepRateLimits, Waited, LimitInv
  <2>. QED  BY <2>1, <1>4 DEF R!SweepRateLimits, LimitInv, Spread, Unfilled, FilledUp, Filled
<1>5. CASE R!DeleteOld
  <2>1. Waited' /\ swept \in Nat /\ swept <= time
    BY <1>5 DEF R!DeleteOld, Waited, LimitInv
  <2>2. CASE bucket' = bucket
    BY <2>1, <2>2, <1>5 DEF R!DeleteOld, LimitInv, Spread, Unfilled, FilledUp, Filled
  <2>3. CASE bucket' # bucket
    <3>1. bucket # Null /\ bucket' = Null /\ bucket.started + Retention < swept /\ UNCHANGED <<time, through>>
      BY <1>5, <2>3 DEF R!DeleteOld, R!Old
    <3>2. bucket.started \in Nat /\ bucket.count \in 1..(Allowed + 1) /\ FilledUp(bucket)
      BY <3>1 DEF LimitInv, CountRow
    <3>3. Filled(bucket) \in 1..Allowed
      BY <3>2 DEF Filled
    <3>4. \A i \in 1..Len(through) : through[i] < time
      BY <1>t, <2>1, <3>1, <3>2 DEF FilledUp
    <3>5. ASSUME NEW i \in 1..Len(through), i + Allowed <= Len(through)
          PROVE  through[i] + Period < time
      <4>1. i + Filled(bucket) <= Len(through)
        BY <1>t, <3>3, <3>5
      <4>2. through[i] < bucket.started + Lag
        BY <3>2, <4>1 DEF FilledUp
      <4>. QED  BY <1>t, <2>1, <3>1, <3>2, <4>2
    <3>. QED  BY <2>1, <3>1, <3>4, <3>5 DEF LimitInv, Spread, Unfilled
  <2>. QED  BY <2>2, <2>3
<1>6. ASSUME NEW c \in Call, R!Upsert(c) PROVE LimitInv'
  <2> DEFINE b == begun[c]
  <2>1. /\ b \in Nat /\ b <= time /\ time <= b + Lag /\ Waited' /\ time' = time
        /\ bucket' = R!Counted(b)
        /\ through' = IF bucket'.count <= Allowed THEN R!Last(Append(through, time)) ELSE through
    BY <1>6 DEF R!Upsert, Waited, LimitInv
  <2> HIDE DEF b
  <2>2. CASE bucket = Null \/ R!Closed(bucket, b)
    <3> DEFINE row == [count |-> 1, started |-> b]
    <3>1. bucket' = row /\ row \in CountRow /\ row.count = 1 /\ row.started = b
      BY <2>1, <2>2 DEF R!Counted, CountRow
    <3> HIDE DEF row
    <3>2. through' = R!Last(Append(through, time))
      BY <2>1, <3>1
    <3>3. CASE bucket = Null
      <4>1. Unfilled
        BY <3>3 DEF LimitInv
      <4>2. \A i \in 1..Len(through) : i + Allowed <= Len(through) => through[i] + Period < b + Lag
        BY <1>t, <2>1, <4>1 DEF Unfilled
      <4>3. \A i \in 1..Len(through) : through[i] < b + Lag
        BY <1>t, <2>1, <4>1 DEF Unfilled
      <4>. QED  BY <2>1, <3>1, <3>2, <4>2, <4>3, WindowBegins
    <3>4. CASE bucket # Null
      <4>1. /\ bucket.started \in Nat /\ bucket.count \in 1..(Allowed + 1) /\ FilledUp(bucket)
            /\ bucket.started + Period < b
        BY <2>2, <3>4 DEF LimitInv, CountRow, R!Closed
      <4>2. Filled(bucket) \in 1..Allowed
        BY <4>1 DEF Filled
      <4>3. \A i \in 1..Len(through) : through[i] < b + Lag
        BY <1>t, <2>1, <4>1 DEF FilledUp
      <4>4. ASSUME NEW i \in 1..Len(through), i + Allowed <= Len(through)
            PROVE  through[i] + Period < b + Lag
        <5>1. i + Filled(bucket) <= Len(through)
          BY <1>t, <4>2, <4>4
        <5>2. through[i] < bucket.started + Lag
          BY <4>1, <5>1 DEF FilledUp
        <5>. QED  BY <1>t, <2>1, <4>1, <5>2
      <4>. QED  BY <2>1, <3>1, <3>2, <4>3, <4>4, WindowBegins
    <3>. QED  BY <3>3, <3>4
  <2>3. CASE bucket # Null /\ ~R!Closed(bucket, b)
    <3>1. PICK old \in CountRow : old = bucket
      BY <2>3 DEF LimitInv
    <3>2. PICK n \in 1..(Allowed + 1) : n = old.count
      BY DEF CountRow
    <3>3. PICK m \in 1..(Allowed + 1) : m = IF n > Allowed THEN n ELSE n + 1
      OBVIOUS
    <3> DEFINE row == [old EXCEPT !.count = m]
    <3>4. row \in CountRow /\ row.count = m /\ row.started = old.started /\ old.started \in Nat
      BY DEF CountRow
    <3>5. bucket' = row
      BY <2>1, <2>3, <3>1, <3>2, <3>3 DEF R!Counted
    <3> HIDE DEF row
    <3>6. FilledUp(old) /\ old.started + Period >= b
      BY <2>1, <2>3, <3>1, <3>4 DEF LimitInv, R!Closed
    <3>7. CASE n < Allowed
      <4>1. m = n + 1 /\ Filled(old) = n /\ through' = R!Last(Append(through, time))
        BY <2>1, <3>2, <3>3, <3>4, <3>5, <3>7 DEF Filled
      <4>2. /\ row.started <= time /\ time <= row.started + Period + Lag
            /\ \A i \in 1..Len(through) : through[i] <= row.started + Period + Lag
        BY <1>t, <2>1, <3>4, <3>6 DEF FilledUp
      <4>3. \A i \in 1..Len(through) : i + row.count <= Len(through) + 1 => through[i] < row.started + Lag
        BY <1>t, <3>4, <3>6, <4>1 DEF FilledUp
      <4>4. \A i \in 1..Len(through) :
              i + row.count + Allowed <= Len(through) + 1 => through[i] + Period < row.started + Lag
        BY <1>t, <3>4, <3>6, <4>1 DEF FilledUp
      <4>5. row.count <= Allowed
        BY <3>4, <3>7, <4>1, Windows
      <4>. QED  BY <2>1, <3>4, <3>5, <4>1, <4>2, <4>3, <4>4, <4>5, LetThrough
    <3>8. CASE n >= Allowed
      <4>1. m = Allowed + 1 /\ through' = through
        BY <2>1, <3>3, <3>4, <3>5, <3>8
      <4>2. Filled(row) = Filled(old)
        BY <3>2, <3>4, <3>8, <4>1 DEF Filled
      <4>3. FilledUp(row)'
        <5>1. FilledUp(row)
          BY <3>4, <3>6, <4>2 DEF FilledUp
        <5>. QED  BY <2>1, <4>1, <5>1 DEF FilledUp, Filled
      <4>4. bucket' \in CountRow /\ bucket' # Null /\ FilledUp(bucket)'
        BY <3>4, <3>5, <4>3, NoRowIsNull DEF CountRow
      <4>. QED  BY <2>1, <4>1, <4>4 DEF LimitInv, Spread
    <3>. QED  BY <3>7, <3>8
  <2>. QED  BY <2>2, <2>3
<1>. QED  BY <1>1, <1>2, <1>3, <1>4, <1>5, <1>6 DEF R!Next

(* Whoever calls when, and whatever is swept: no span of a window sees more *)
(* than two windows' worth of calls let through, but for the time a         *)
(* statement waits.                                                         *)
THEOREM CallersAreLimited == MCSpec => []LimitHolds
<1>1. MCInit => (focus = "rates" => LimitInv)
  BY LimitInit DEF MCInit
<1>2. (focus = "rates" => LimitInv) /\ [MCNext]_allVars => (focus = "rates" => LimitInv)'
  <2> SUFFICES ASSUME focus = "rates" => LimitInv, [MCNext]_allVars, focus' = "rates"
               PROVE  LimitInv'
    OBVIOUS
  <2>1. focus = "rates" /\ [R!Next]_rates
    BY DEF MCNext, allVars
  <2>. QED  BY <2>1, LimitStep
<1>3. (focus = "rates" => LimitInv) => LimitHolds
  <2> SUFFICES ASSUME LimitInv, Len(through) = 2 * Allowed + 1
               PROVE  through[2 * Allowed + 1] - through[1] > Period - Lag
    BY DEF LimitHolds, R!LimitHolds
  <2>1. through[1] \in Nat /\ through[2 * Allowed + 1] \in Nat
    BY ElementOfSeq, Windows DEF LimitInv
  <2>. QED  BY <2>1, Windows DEF LimitInv, Spread
<1>. QED  BY <1>1, <1>2, <1>3, PTL DEF MCSpec
=============================================================================
