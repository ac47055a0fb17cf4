------------------------------- MODULE MCRaft -------------------------------
(* Bounds and initial states for model checking Raft.                      *)
EXTENDS Raft, TLC

Budgets(h, b, a, u, t, r, s) ==
  [hup |-> h, beat |-> b, app |-> a, unreachable |-> u,
   transfer |-> t, readindex |-> r, restart |-> s]

FlowBudget    == Budgets(0, 1, 3, 1, 1, 0, 0)
VoteBudget    == Budgets(3, 2, 0, 0, 0, 0, 0)
ReadBudget    == Budgets(1, 0, 1, 0, 0, 1, 0)
ClusterBudget == Budgets(3, 0, 4, 0, 0, 2, 1)

(* Nodes are told apart by nothing but their role, and contexts by nothing. *)
Symmetry ==
  Permutations(Voter) \cup Permutations(Learner) \cup Permutations(ReadCtx)

Noop(t) == [term |-> t, data |-> EmptyData]

Saved(t, vote, log) ==
  [hardState |-> [term |-> t, vote |-> vote, commit |-> 0], log |-> log]

(* A start from which `left` of the budget can still be used, and reads    *)
(* are asked for with the contexts `ctxs` only.                            *)
Leaves(left, ctxs) ==
  /\ spent = [k \in InputKind |-> Budget[k] - left[k]]
  /\ readBound = [c \in ReadCtx |-> IF c \in ctxs THEN None ELSE 0]

(* Everybody restarts after a won the election of term 1 with the vote of  *)
(* c, b that of term 2 with the vote of c against that of a, and all their *)
(* MsgApps were lost.                                                      *)
InitDiverged ==
  /\ \E a, b, c \in Voter :
       /\ Voter = {a, b, c} /\ a # b /\ b # c /\ a # c
       /\ storage = [i \in Server |-> CASE i = a -> Saved(2, None, <<Noop(1)>>)
                                        [] i = b -> Saved(2, b, <<Noop(2)>>)
                                        [] i = c -> Saved(2, b, <<>>)
                                        [] OTHER -> EmptyStorage]
  /\ raft = [i \in Server |-> newRaft(i, storage[i], 0)]
  /\ network = {}

(* All the voters have voted for a, and a has become the leader of term 1. *)
(* Its first MsgApps are under way.                                        *)
NewLeader(a) ==
  bcastAppend(becomeLeader(becomeCandidate(newRaft(a, EmptyStorage, 0))))

InitLed ==
  \E a \in Voter :
    /\ storage = [i \in Server |->
         Saved(IF i \in Voter THEN 1 ELSE 0,
               IF i \in Voter THEN a ELSE None,
               IF i = a THEN <<Noop(1)>> ELSE <<>>)]
    /\ raft = [i \in Server |->
         IF i = a THEN [NewLeader(a) EXCEPT !.msgs = {}]
                  ELSE newRaft(i, storage[i], 0)]
    /\ network = NewLeader(a).msgs

InitFlow == InitLed /\ Leaves(Budget, {})
SpecFlow == InitFlow /\ [][Next]_vars

(* Later: the others have answered these MsgApps, and a has committed the  *)
(* entry of its term.  What it sent since is lost.                         *)
InitSettled ==
  \E a \in Voter :
    /\ storage = [i \in Server |->
         [Saved(1, IF i \in Voter THEN a ELSE None, <<Noop(1)>>)
            EXCEPT !.hardState.commit = IF i = a THEN 1 ELSE 0]]
    /\ raft = [i \in Server |->
         IF i = a
         THEN [NewLeader(a) EXCEPT
                 !.msgs = {}, !.committed = 1, !.applied = 1,
                 !.prs = [j \in Server |->
                   IF j = a THEN @[j]
                   ELSE [becomeReplicate(maybeUpdate(@[j], 1))
                           EXCEPT !.recentActive = TRUE]]]
         ELSE [newRaft(i, storage[i], 0) EXCEPT !.lead = a]]
    /\ network = {[Message("MsgAppResp", a) EXCEPT
                     !.from = i, !.term = 1, !.index = 1] : i \in Server \ {a}}

InitRead == InitSettled /\ Leaves(Budget, ReadCtx)
SpecRead == InitRead /\ [][Next]_vars

(* Everything is empty; or the logs are in conflict, and two campaigns or  *)
(* a restart are to come; or a leader whose entry is committed is asked    *)
(* for two reads, or for one whose MsgReadIndex may arrive twice.          *)
InitEmpty ==
  /\ storage = [i \in Server |-> EmptyStorage]
  /\ raft = [i \in Server |-> newRaft(i, EmptyStorage, 0)]
  /\ network = {}

InitCluster ==
  \/ InitEmpty /\ Leaves(Budgets(3, 0, 0, 0, 0, 0, 1), {})
  \/ InitDiverged /\ Leaves(Budgets(2, 0, 3, 0, 0, 0, 0), {})
  \/ InitDiverged /\ Leaves(Budgets(1, 0, 4, 0, 0, 0, 1), {})
  \/ InitSettled /\ Leaves(Budgets(1, 0, 1, 0, 0, 1, 0), ReadCtx)
  \/ InitSettled /\ \E c \in ReadCtx : Leaves(Budgets(1, 0, 1, 0, 0, 2, 0), {c})

SpecCluster == InitCluster /\ [][Next]_vars

(* A leader ticks and one campaign is on, or three campaigns are.          *)
InitVote ==
  /\ InitSettled
  /\ \/ Leaves(Budgets(1, 2, 0, 0, 0, 0, 0), {})
     \/ Leaves(Budgets(3, 0, 0, 0, 0, 0, 0), {})

SpecVote == InitVote /\ [][Next]_vars
=============================================================================
