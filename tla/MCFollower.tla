------------------------------ MODULE MCFollower ------------------------------
(* Two leaders of one follower, and one cluster.  *)
EXTENDS Follower
==============================================================================
