------------------------------ MODULE MCQuota ------------------------------
(* Two members of one team; sizes 2, 1, 1 and 2, so that each cap can be   *)
(* exceeded while the other is kept.                                       *)
EXTENDS Quota, TLC

CONSTANTS u1, u2, u3, u4, ann, bob, team

MCOwner == [u \in Upload |-> IF u = u4 THEN bob ELSE ann]
MCOwnerAlone == [u \in Upload |-> ann]
MCTeamOf == [o \in User |-> team]
MCBytes == (u1 :> {1, 2}) @@ (u2 :> {3}) @@ (u3 :> {4}) @@ (u4 :> {5, 6})
MCUserCap == (ann :> 2) @@ (bob :> 0)
MCTeamCap == team :> 3
MCNoTeamCap == team :> 0
=============================================================================
