----------------------------- MODULE WebPairing -----------------------------
(***************************************************************************)
(* Pairing a device with an account: the page where a user enters the code *)
(* the device shows (web/app.tsx DevicePair), and the routes it calls      *)
(* (oauth/device.ts), for one client.                                      *)
(*                                                                         *)
(* Each page is open in the browser of another user.  A page may have more *)
(* than one call under way, they take their time and are answered in any   *)
(* order; one that fails on the way leaves the page as busy as it was.     *)
(* What a device redeems its code for is OAuthGrants' part.  That the      *)
(* client is revoked only ever refuses something: it may happen any time.  *)
(***************************************************************************)
EXTENDS Naturals

CONSTANTS
  Page,     \* pages that are open
  Device,   \* device flows, each with its user_code
  Request,  \* calls that can be under way at once
  Null

VARIABLES
  code,     \* oauth_device_codes
  page,     \* the state of the component on each page
  call,     \* the calls under way
  agreed    \* history: the code each user had on screen when clicking Authorize

vars == <<code, page, call, agreed>>

CodeRow == [st : {"open", "approved", "denied", "taken", "gone"},
            by : Page \cup {Null}, late : BOOLEAN]
PageState == [typed : Device \cup {Null}, info : Device \cup {Null}, busy : BOOLEAN,
              decided : {"approved", "denied", Null}]
CallState == [of : Page, op : {"info", "approve", "deny"}, on : Device,
              at : {"sent", "claimed", "undo", "ok", "refused"}]

TypeOK ==
  /\ code \in [Device -> CodeRow \cup {Null}]
  /\ page \in [Page -> PageState]
  /\ call \in [Request -> CallState \cup {Null}]
  /\ agreed \subseteq Page \X Device

Init ==
  /\ code = [d \in Device |-> Null]
  /\ page = [p \in Page |-> [typed |-> Null, info |-> Null, busy |-> FALSE, decided |-> Null]]
  /\ call = [r \in Request |-> Null]
  /\ agreed = {}

----------------------------------------------------------------------------
(* The device, the clock and the sweep.                                     *)
Is(d, st) == code[d] # Null /\ code[d].st = st
Mark(d, st) == code' = [code EXCEPT ![d].st = st]

DeviceAuthorize(d) ==
  /\ code[d] = Null
  /\ code' = [code EXCEPT ![d] = [st |-> "open", by |-> Null, late |-> FALSE]]
  /\ UNCHANGED <<page, call, agreed>>

Expire(d) ==
  /\ \E st \in {"open", "approved"} : Is(d, st)
  /\ code' = [code EXCEPT ![d].late = TRUE]
  /\ UNCHANGED <<page, call, agreed>>

SweepExpiredDeviceCodes(d) ==
  /\ code[d] # Null /\ code[d].late
  /\ Mark(d, "gone")
  /\ UNCHANGED <<page, call, agreed>>

(* A poll finds the code approved, and not expired.                         *)
Poll(d) ==
  /\ Is(d, "approved") /\ ~code[d].late
  /\ Mark(d, "taken")
  /\ UNCHANGED <<page, call, agreed>>

----------------------------------------------------------------------------
(* The page: an input until a code is found, then the client and the code.  *)
Entering(p) == page[p].decided = Null /\ page[p].info = Null

Send(p, op, d) ==
  \E r \in Request :
    /\ call[r] = Null
    /\ call' = [call EXCEPT ![r] = [of |-> p, op |-> op, on |-> d, at |-> "sent"]]

Type(p, d) ==
  /\ Entering(p)
  /\ page' = [page EXCEPT ![p].typed = d]
  /\ UNCHANGED <<code, call, agreed>>

(* The Enter key works while a call is under way, the button does not.      *)
FetchInfo(p) ==
  /\ Entering(p) /\ page[p].typed # Null
  /\ Send(p, "info", page[p].typed)
  /\ page' = [page EXCEPT ![p].busy = TRUE]
  /\ UNCHANGED <<code, agreed>>

(* Mutant: the code in the input is decided on.                             *)
Entered(p) == page[p].typed

DecidedOn(p) == page[p].info

Decide(p) ==
  /\ page[p].decided = Null /\ page[p].info # Null /\ ~page[p].busy
  /\ page' = [page EXCEPT ![p].busy = TRUE]
  /\ \/ /\ Send(p, "approve", DecidedOn(p))
        /\ agreed' = agreed \cup {<<p, page[p].info>>}
     \/ /\ Send(p, "deny", DecidedOn(p))
        /\ UNCHANGED agreed
  /\ UNCHANGED code

----------------------------------------------------------------------------
(* The routes.                                                              *)
Serve(r, op) == call[r] # Null /\ call[r].op = op /\ call[r].at = "sent"
Answer(r, at) == call' = [call EXCEPT ![r].at = at]

DeviceInfo(r) ==
  /\ Serve(r, "info")
  /\ LET d == call[r].on IN
       \/ Is(d, "open") /\ ~code[d].late /\ Answer(r, "ok")
       \/ Answer(r, "refused")
  /\ UNCHANGED <<page, code, agreed>>

(* One statement claims the code for the user.                              *)
Claim(r, st, at) ==
  LET d == call[r].on IN
  /\ IF Is(d, "open")
     THEN /\ code' = [code EXCEPT ![d].st = st, ![d].by = call[r].of]
          /\ Answer(r, at)
     ELSE Answer(r, "refused") /\ UNCHANGED code
  /\ UNCHANGED <<page, agreed>>

DeviceApprove(r) ==
  /\ Serve(r, "approve")
  /\ Claim(r, "approved", "claimed")

(* One that has expired by then is given up, which leaves the user's id in  *)
(* it.                                                                      *)
CheckExpiry(r) ==
  /\ call[r] # Null /\ call[r].at = "claimed"
  /\ Answer(r, IF code[call[r].on].late THEN "undo" ELSE "ok")
  /\ UNCHANGED <<page, code, agreed>>

GiveUp(r) ==
  /\ call[r] # Null /\ call[r].at = "undo"
  /\ IF Is(call[r].on, "approved") THEN Mark(call[r].on, "open") ELSE UNCHANGED code
  /\ Answer(r, "refused")
  /\ UNCHANGED <<page, agreed>>

DeviceDeny(r) ==
  /\ Serve(r, "deny")
  /\ Claim(r, "denied", "ok")

----------------------------------------------------------------------------
(* The answers.  A page may get more than one, the last of which it shows.  *)
Take(r, op, at) ==
  /\ call[r] # Null /\ call[r].op = op /\ call[r].at = at
  /\ call' = [call EXCEPT ![r] = Null]
  /\ UNCHANGED <<code, agreed>>

Show(p, state) == page' = [page EXCEPT ![p] = [state EXCEPT !.busy = FALSE]]

InfoArrives(r) ==
  LET p == call[r].of IN
  \/ Take(r, "info", "ok") /\ Show(p, [page[p] EXCEPT !.info = call[r].on])
  \/ Take(r, "info", "refused") /\ Show(p, [page[p] EXCEPT !.info = Null])

DecisionArrives(r) ==
  LET p == call[r].of IN
  \/ Take(r, "approve", "ok") /\ Show(p, [page[p] EXCEPT !.decided = "approved"])
  \/ Take(r, "deny", "ok") /\ Show(p, [page[p] EXCEPT !.decided = "denied"])
  \/ \E op \in {"approve", "deny"} : Take(r, op, "refused") /\ Show(p, page[p])

(* A rejected fetch: setBusy(false) is never reached.                       *)
Fails(r) ==
  /\ call[r] # Null /\ call[r].at \notin {"claimed", "undo"}
  /\ call' = [call EXCEPT ![r] = Null]
  /\ UNCHANGED <<code, page, agreed>>

Next ==
  \/ \E d \in Device :
       DeviceAuthorize(d) \/ Expire(d) \/ SweepExpiredDeviceCodes(d) \/ Poll(d)
  \/ \E p \in Page :
       \/ FetchInfo(p) \/ Decide(p)
       \/ \E d \in Device : Type(p, d)
  \/ \E r \in Request :
       \/ DeviceInfo(r) \/ DeviceApprove(r) \/ CheckExpiry(r) \/ GiveUp(r) \/ DeviceDeny(r)
       \/ InfoArrives(r) \/ DecisionArrives(r) \/ Fails(r)

Spec == Init /\ [][Next]_vars

----------------------------------------------------------------------------
(* A device is let in by a user who was shown its code and clicked          *)
(* Authorize, and a page that says a device is connected, or refused, says  *)
(* what its own user decided of one, however its answers cross, two users   *)
(* decide on one code, or the code expires meanwhile (web/app.tsx:4636,     *)
(* oauth/device.ts:170).                                                    *)
PairedAsShown ==
  /\ \A d \in Device : Is(d, "approved") \/ Is(d, "taken") => <<code[d].by, d>> \in agreed
  /\ \A p \in Page : page[p].decided # Null => \E d \in Device :
       /\ code[d] # Null /\ code[d].by = p
       /\ code[d].st \in {"gone"} \cup
            (IF page[p].decided = "approved" THEN {"approved", "taken"} ELSE {"denied"})
=============================================================================
