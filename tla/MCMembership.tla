--------------------------- MODULE MCMembership ---------------------------
(* Instances of Membership for TLC. *)
EXTENDS Membership

CONSTANTS n1, n2, n3, n4

change(type, node) == [type |-> type, node |-> node]

(* One server is removed, then another, then a new one joins; the second    *)
(* change of a MsgProp has to be refused.                                   *)
Shrink ==
  <<{<<change("RemoveNode", n3)>>,
     <<change("RemoveNode", n3), change("RemoveNode", n2)>>},
    {<<change("RemoveNode", n2)>>},
    {<<change("AddNode", n4)>>, <<change("AddLearnerNode", n4)>>},
    {}>>
=============================================================================
