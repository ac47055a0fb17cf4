------------------------------- MODULE MCNode -------------------------------
(* Node with two leaders.  The leader of term 1 has an entry that is never *)
(* committed; the leader of term 2 replaces it.                            *)
EXTENDS Node, TLC

TwoLeaders == 1 :> <<1, 1>> @@ 2 :> <<1, 2, 2>>
TwoCommits == 1 :> {1} @@ 2 :> {1, 3}
=============================================================================
