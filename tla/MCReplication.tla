--------------------------- MODULE MCReplication ----------------------------
(* Replication to a follower whose second entry the leader does not have.  *)
EXTENDS Replication

Elected == <<1, 2, 3>>
Diverged == <<1, 1>>
=============================================================================
