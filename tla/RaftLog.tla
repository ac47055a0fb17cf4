------------------------------ MODULE RaftLog ------------------------------
(***************************************************************************)
(* The log of one node: class RaftLog before any compaction.               *)
(*                                                                         *)
(* The operators take and return the record r of a node, of which they     *)
(* read and change the fields                                              *)
(*   log        the entries, stable and unstable ones alike: the entry of  *)
(*              index n is log[n], and index 0 is the dummy entry          *)
(*   committed, applied                                                    *)
(*   panic      set where the code calls RAFT_LOG(PANIC), which ends the   *)
(*              process                                                    *)
(***************************************************************************)
EXTENDS Integers, Sequences, FiniteSetsExt, StdAlgorithms

panicIf(r, condition) == [r EXCEPT !.panic = @ \/ condition]

lastIndex(r) == Len(r.log)

(* An index outside the log has term 0, like the dummy entry.              *)
term(r, i) == IF i \in 1..Len(r.log) THEN r.log[i].term ELSE 0

lastTerm(r) == term(r, lastIndex(r))

matchTermBug(r, i, t) == i <= lastIndex(r)     \* the term is not compared

matchTerm(r, i, t) == t = term(r, i)

isUpToDate(r, index, t) ==
  \/ t > lastTerm(r)
  \/ t = lastTerm(r) /\ index >= lastIndex(r)

(* Index of the first of the entries after `index' that the log does not   *)
(* have, or 0.                                                             *)
findConflictBug(r, index, ents) ==      \* everything is taken to be new
  IF ents = <<>> THEN 0 ELSE index + 1

findConflict(r, index, ents) ==
  LET new == {k \in 1..Len(ents) : ~matchTerm(r, index + k, ents[k].term)}
  IN  IF new = {} THEN 0 ELSE index + Min(new)

commitTo(r, tocommit) ==
  IF tocommit <= r.committed THEN r
  ELSE [panicIf(r, lastIndex(r) < tocommit) EXCEPT !.committed = tocommit]

appliedTo(r, i) ==
  IF i = 0 THEN r
  ELSE [panicIf(r, r.committed < i \/ i < r.applied) EXCEPT !.applied = i]

(* append(ents) when ents[0].index() = after + 1: what follows `after' is  *)
(* replaced.  Unstable::truncateAndAppend refuses to leave a gap.          *)
append(r, after, ents) ==
  IF after < r.committed \/ after > lastIndex(r) THEN panicIf(r, TRUE)
  ELSE [r EXCEPT !.log = SubSeq(@, 1, after) \o ents]

(* maybeAppend returns (0, false) unless the log matches at `index'.       *)
maybeAppend(r, index, committed, ents) ==
  LET ci       == findConflict(r, index, ents)
      lastnewi == index + Len(ents)
      appended == IF ci = 0 THEN r
                  ELSE append(panicIf(r, ci <= r.committed), ci - 1,
                              SubSeq(ents, ci - index, Len(ents)))
  IN  commitTo(appended, StdMin(committed, lastnewi))

(* RaftLog::maybeCommit                                                    *)
maybeCommitLogBug(r, maxIndex, t) ==    \* entries of earlier terms too
  commitTo(r, maxIndex)

maybeCommitLog(r, maxIndex, t) ==
  IF maxIndex > r.committed /\ term(r, maxIndex) = t
  THEN commitTo(r, maxIndex) ELSE r

(* entries(i, maxSize): every entry counts one towards maxSize, and        *)
(* limitSize returns at least one entry when there is one.                 *)
entries(r, i, maxSize) ==
  SubSeq(r.log, i, StdMin(i + maxSize - 1, lastIndex(r)))

(* Index of the last of nextEnts(), the committed entries handed to the    *)
(* application, of which there are at most maxSize.                        *)
lastOfNextEntsBug(r, maxSize) == StdMin(r.applied + maxSize, lastIndex(r))

lastOfNextEnts(r, maxSize) == StdMin(r.applied + maxSize, r.committed)
=============================================================================
