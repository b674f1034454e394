---------------------------- MODULE MCFollowProbe ----------------------------
(* The instance of FollowProbe for TLC. *)
EXTENDS FollowProbe
=============================================================================
