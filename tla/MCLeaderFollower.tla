-------------------------- MODULE MCLeaderFollower --------------------------
(* Values for checking LeaderFollower with TLC. *)
EXTENDS LeaderFollower, TLC

CONSTANTS a, b, missing

LongEmpty == a :> 2 @@ b :> 0
AllThree == <<a, b, missing>>
=============================================================================
