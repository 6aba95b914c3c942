------------------------------ MODULE Founding ------------------------------
(***************************************************************************)
(* The instance's own keys, made by whoever first needs them, and the      *)
(* founding of a federation with them (federation/keys.ts, index.ts).      *)
(* Requests of any number of processes interleave between statements and   *)
(* may stop anywhere.                                                      *)
(***************************************************************************)
EXTENDS Naturals

CONSTANTS
  Caller,  \* requests, each made once
  Slug,
  Null

VARIABLES
  identity,    \* instance_keys: whose generated pair the one row has
  federation,  \* federations: the request that inserted the row of a slug
  founder,     \* federation_members: the key of the first member's row
  asked        \* the local state of each request

vars == <<identity, federation, founder, asked>>

Point == {"idle", "read", "generated", "insert", "member", "done"}
Idle == [at |-> "idle", slug |-> Null, key |-> Null]
Asked == [at : Point, slug : Slug \cup {Null}, key : Caller \cup {Null}]

TypeOK ==
  /\ identity \in Caller \cup {Null}
  /\ federation \in [Slug -> Caller \cup {Null}]
  /\ founder \in [Slug -> Caller \cup {Null}]
  /\ asked \in [Caller -> Asked]

Init ==
  /\ identity = Null
  /\ federation = [s \in Slug |-> Null]
  /\ founder = [s \in Slug |-> Null]
  /\ asked = [c \in Caller |-> Idle]

At(c, p) == asked[c].at = p
Goto(c, p) == asked' = [asked EXCEPT ![c].at = p]

(* Where a request goes on once it has the keys.                           *)
Use(c, key) ==
  asked' = [asked EXCEPT ![c].key = key,
                         ![c].at = IF asked[c].slug = Null THEN "done" ELSE "insert"]

(* A request that shows or signs with the keys ...                         *)
AskKeys(c) ==
  /\ At(c, "idle")
  /\ Goto(c, "read")
  /\ UNCHANGED <<identity, federation, founder>>

(* ... and one that founds a federation under a slug it saw free.          *)
AskFound(c, s) ==
  /\ At(c, "idle")
  /\ federation[s] = Null
  /\ asked' = [asked EXCEPT ![c].at = "read", ![c].slug = s]
  /\ UNCHANGED <<identity, federation, founder>>

ReadKeys(c) ==
  /\ At(c, "read")
  /\ IF identity = Null THEN Goto(c, "generated") ELSE Use(c, identity)
  /\ UNCHANGED <<identity, federation, founder>>

(* Mutant: the pair that was generated is used, whatever the insert did.   *)
UseOwn(c) ==
  /\ At(c, "generated")
  /\ identity' = IF identity = Null THEN c ELSE identity
  /\ Use(c, c)
  /\ UNCHANGED <<federation, founder>>

(* ON CONFLICT DO NOTHING, and the row is read again.                      *)
InsertKeys(c) ==
  /\ At(c, "generated")
  /\ identity' = IF identity = Null THEN c ELSE identity
  /\ Goto(c, "read")
  /\ UNCHANGED <<federation, founder>>

(* The slug is unique: the insert that comes second fails.                 *)
InsertFederation(c) ==
  LET s == asked[c].slug IN
  /\ At(c, "insert")
  /\ IF federation[s] = Null
     THEN federation' = [federation EXCEPT ![s] = c] /\ Goto(c, "member")
     ELSE Goto(c, "done") /\ UNCHANGED federation
  /\ UNCHANGED <<identity, founder>>

InsertMember(c) ==
  /\ At(c, "member")
  /\ founder' = [founder EXCEPT ![asked[c].slug] = asked[c].key]
  /\ Goto(c, "done")
  /\ UNCHANGED <<identity, federation>>

Interrupt(c) ==
  /\ asked[c].at \notin {"idle", "done"}
  /\ Goto(c, "done")
  /\ UNCHANGED <<identity, federation, founder>>

Next == \E c \in Caller :
  \/ AskKeys(c) \/ \E s \in Slug : AskFound(c, s)
  \/ ReadKeys(c) \/ InsertKeys(c) \/ InsertFederation(c) \/ InsertMember(c)
  \/ Interrupt(c)

Spec == Init /\ [][Next]_vars

----------------------------------------------------------------------------
(* However many first callers there are, the instance has one identity: an *)
(* answer and a founder's row name the pair that was kept, and so do those *)
(* of every later request (federation/keys.ts:65).                         *)
OneIdentity ==
  /\ \A c \in Caller : asked[c].key \in {Null, identity}
  /\ \A s \in Slug : founder[s] \in {Null, identity}
=============================================================================
