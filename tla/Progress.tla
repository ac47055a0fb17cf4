------------------------------ MODULE Progress ------------------------------
(***************************************************************************)
(* Flow control of one follower as its leader sees it: class Progress and  *)
(* the window of messages in flight, class Inflights.                      *)
(*                                                                         *)
(* A Progress is a record; every method that changes it is an operator     *)
(* that returns the changed record.  The ring buffer of Inflights is       *)
(* abstracted to the queue it implements: a sequence, oldest message       *)
(* first, of the index of the last entry of each message.                  *)
(***************************************************************************)
EXTENDS Integers, Sequences, FiniteSetsExt, StdAlgorithms

CONSTANT MaxInflight    \* Config::maxInflightMsgs

(* Config::Validate refuses a window of size zero.                         *)
ASSUME MaxInflightAssumption == MaxInflight \in Nat \ {0}

(* Inflights::add refuses to exceed the window.                            *)
Window == {ins \in Seq(Nat) : Len(ins) <= MaxInflight}

ProgressState == {"Probe", "Replicate", "Snapshot"}

ProgressType ==
  [match : Nat, next : Nat \ {0}, state : ProgressState, paused : BOOLEAN,
   pendingSnapshot : Nat, recentActive : BOOLEAN, ins : Window,
   isLearner : BOOLEAN]

NewProgressBug(next, match, isLearner) ==       \* active before it was heard
  [match |-> match, next |-> next, state |-> "Probe", paused |-> FALSE,
   pendingSnapshot |-> 0, recentActive |-> TRUE, ins |-> <<>>,
   isLearner |-> isLearner]

NewProgress(next, match, isLearner) ==
  [match |-> match, next |-> next, state |-> "Probe", paused |-> FALSE,
   pendingSnapshot |-> 0, recentActive |-> FALSE, ins |-> <<>>,
   isLearner |-> isLearner]

-----------------------------------------------------------------------------
(* Inflights                                                               *)

full(ins) == Len(ins) = MaxInflight

(* Drops the messages up to the first one that ends beyond index `to'.     *)
freeToBug(ins, to) ==            \* keeps the message that ends at `to'
  LET later == {k \in 1..Len(ins) : to <= ins[k]}
  IN  IF later = {} THEN <<>> ELSE SubSeq(ins, Min(later), Len(ins))

freeTo(ins, to) ==
  LET later == {k \in 1..Len(ins) : to < ins[k]}
  IN  IF later = {} THEN <<>> ELSE SubSeq(ins, Min(later), Len(ins))

freeFirstOne(ins) == freeTo(ins, ins[1])

-----------------------------------------------------------------------------
(* Progress                                                                *)

resetState(pr, state) ==
  [pr EXCEPT !.state = state, !.paused = FALSE, !.pendingSnapshot = 0,
             !.ins = <<>>]

(* Out of Snapshot the leader probes from the index after the snapshot.    *)
becomeProbe(pr) ==
  LET sent == IF pr.state = "Snapshot" THEN pr.pendingSnapshot ELSE 0
  IN  [resetState(pr, "Probe") EXCEPT !.next = StdMax(pr.match, sent) + 1]

becomeReplicate(pr) ==
  [resetState(pr, "Replicate") EXCEPT !.next = pr.match + 1]

becomeSnapshot(pr, snapshoti) ==
  [resetState(pr, "Snapshot") EXCEPT !.pendingSnapshot = snapshoti]

(* maybeUpdate(pr, n) is the new progress; the method returns Updates.     *)
Updates(pr, n) == pr.match < n

maybeUpdate(pr, n) ==
  [pr EXCEPT !.match  = StdMax(@, n),
             !.next   = StdMax(@, n + 1),
             !.paused = @ /\ ~Updates(pr, n)]

optimisticUpdate(pr, n) == [pr EXCEPT !.next = n + 1]

(* maybeDecrTo returns false for a rejection that must be stale.           *)
Decreases(pr, rejected) ==
  IF pr.state = "Replicate" THEN rejected > pr.match
                            ELSE rejected = pr.next - 1

maybeDecrTo(pr, rejected, last) ==
  IF ~Decreases(pr, rejected) THEN pr
  ELSE IF pr.state = "Replicate" THEN [pr EXCEPT !.next = pr.match + 1]
  ELSE [pr EXCEPT !.next = StdMax(1, StdMin(rejected, last + 1)),
                  !.paused = FALSE]

pause(pr)  == [pr EXCEPT !.paused = TRUE]
resume(pr) == [pr EXCEPT !.paused = FALSE]

IsPaused(pr) ==
  \/ pr.state = "Probe" /\ pr.paused
  \/ pr.state = "Replicate" /\ full(pr.ins)
  \/ pr.state = "Snapshot"

snapshotFailure(pr) == [pr EXCEPT !.pendingSnapshot = 0]

needSnapshotAbort(pr) ==
  pr.state = "Snapshot" /\ pr.match >= pr.pendingSnapshot
=============================================================================
