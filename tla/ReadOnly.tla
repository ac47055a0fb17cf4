----------------------------- MODULE ReadOnly ------------------------------
(***************************************************************************)
(* Read-only requests a leader has not confirmed yet: class ReadOnly.      *)
(*                                                                         *)
(* pendingReadIndex and readIndexQueue always hold the same contexts, so   *)
(* they are one sequence: the requests, oldest first.                      *)
(***************************************************************************)
EXTENDS Integers, Sequences, FiniteSets, FiniteSetsExt

(* A request: its context, the commit index it was received at, the node   *)
(* that asked and the nodes that acknowledged the leader since.            *)
ReadIndexStatus(ctx, index, from) ==
  [ctx |-> ctx, index |-> index, from |-> from, acks |-> {}]

Positions(queue, ctx) == {k \in 1..Len(queue) : queue[k].ctx = ctx}

(* A context that is already pending is not added again.                   *)
addRequest(queue, index, from, ctx) ==
  IF Positions(queue, ctx) # {} THEN queue
  ELSE Append(queue, ReadIndexStatus(ctx, index, from))

recvAck(queue, from, ctx) ==
  [k \in 1..Len(queue) |->
     IF queue[k].ctx = ctx THEN [queue[k] EXCEPT !.acks = @ \cup {from}]
                           ELSE queue[k]]

(* What recvAck returns: the acknowledgements of ctx, the leader's own     *)
(* included, and 0 for an unknown context.                                 *)
ackCount(queue, ctx) ==
  IF Positions(queue, ctx) = {} THEN 0
  ELSE Cardinality(queue[Min(Positions(queue, ctx))].acks) + 1

(* advance removes the request ctx and all the older ones, and returns     *)
(* them.                                                                   *)
advanced(queue, ctx) ==
  IF Positions(queue, ctx) = {} THEN <<>>
  ELSE SubSeq(queue, 1, Min(Positions(queue, ctx)))

advance(queue, ctx) ==
  SubSeq(queue, Len(advanced(queue, ctx)) + 1, Len(queue))
=============================================================================
