--------------------------- MODULE StorageLedger ---------------------------
(***************************************************************************)
(* What the storage caps promise, without saying how: an upload is         *)
(* admitted only if the bytes of all admitted uploads then still fit the   *)
(* owner's cap and the cap of the owner's team.                            *)
(***************************************************************************)
EXTENDS Naturals, FiniteSets

CONSTANTS
  Upload, User, Team,
  Owner,    \* whose storage an upload counts against
  TeamOf,
  Byte,     \* the bytes uploads consist of
  Bytes,    \* the bytes of each upload
  UserCap,  \* users.storage_quota_bytes, 0 = unlimited
  TeamCap   \* teams.quota_bytes, 0 for NULL = unlimited

VARIABLE held  \* the admitted uploads

BytesIn(S) == UNION {Bytes[u] : u \in S}

OfUser(S, o) == {u \in S : Owner[u] = o}
OfTeam(S, t) == {u \in S : TeamOf[Owner[u]] = t}

WithinUserCap(S, o) ==
  UserCap[o] > 0 => Cardinality(BytesIn(OfUser(S, o))) <= UserCap[o]

WithinTeamCap(S, t) ==
  TeamCap[t] > 0 => Cardinality(BytesIn(OfTeam(S, t))) <= TeamCap[t]

Init == held = {}

Admit(u) ==
  /\ u \notin held
  /\ held' = held \cup {u}
  /\ WithinUserCap(held', Owner[u])
  /\ WithinTeamCap(held', TeamOf[Owner[u]])

Release(u) == u \in held /\ held' = held \ {u}

Next == \E u \in Upload : Admit(u) \/ Release(u)

Spec == Init /\ [][Next]_held
=============================================================================
