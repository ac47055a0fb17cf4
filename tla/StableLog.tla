----------------------------- MODULE StableLog ------------------------------
(* RaftLog as it is stored: the entries the application has saved are in   *)
(* the storage s, the others in r.unstable, and a prefix of the log may be *)
(* compacted.  The operators take the node's record r, of which they use   *)
(* unstable, committed, applied and panic, and the storage; a failed check *)
(* of the code sets r.panic.                                               *)
EXTENDS MemoryStorage, Unstable

panicIf(r, condition) == [r EXCEPT !.panic = @ \/ condition]

firstIndex(r, s) ==
  IF HasSnapshot(r.unstable) THEN r.unstable.snapshot.index + 1 ELSE FirstIndex(s)

lastIndex(r, s) ==
  IF HasLastIndex(r.unstable) THEN maybeLastIndex(r.unstable) ELSE LastIndex(s)

(* 0 outside the log; an error of the storage is passed on.                *)
term(r, s, i) ==
  IF i < firstIndex(r, s) - 1 \/ i > lastIndex(r, s) THEN 0
  ELSE IF HasTerm(r.unstable, i) THEN maybeTerm(r.unstable, i)
  ELSE TermOf(s, i)

matchTerm(r, s, i, t) == term(r, s, i) = t

(* The index of the first entry that is not in the log, or 0.              *)
findConflict(r, s, ents) ==
  LET new == {k \in 1..Len(ents) : ~matchTerm(r, s, ents[k].index, ents[k].term)}
  IN  IF new = {} THEN 0
      ELSE ents[CHOOSE k \in new : \A l \in new : k <= l].index

commitTo(r, s, tocommit) ==
  IF r.committed >= tocommit THEN r
  ELSE [panicIf(r, lastIndex(r, s) < tocommit) EXCEPT !.committed = tocommit]

appliedTo(r, i) ==
  IF i = 0 THEN r
  ELSE [panicIf(r, r.committed < i \/ i < r.applied) EXCEPT !.applied = i]

logAppend(r, ents) ==
  IF ents = <<>> THEN r
  ELSE [panicIf(r, \/ ents[1].index - 1 < r.committed
                   \/ truncateLeavesGap(r.unstable, ents))
          EXCEPT !.unstable = truncateAndAppend(@, ents)]

(* maybeAppend, once matchTerm(index, logTerm) holds.                      *)
newEntries(r, s, ents) ==
  LET ci == findConflict(r, s, ents)
  IN  IF ci = 0 THEN <<>> ELSE SubSeq(ents, ci - ents[1].index + 1, Len(ents))

maybeAppendBug(r, s, index, committed, ents) ==  \* not only what it knows to match
  LET ci == findConflict(r, s, ents)
      r1 == IF ci = 0 THEN r
            ELSE IF ci <= r.committed THEN panicIf(r, TRUE)
            ELSE logAppend(r, newEntries(r, s, ents))
  IN  commitTo(r1, s, committed)

maybeAppend(r, s, index, committed, ents) ==
  LET ci == findConflict(r, s, ents)
      r1 == IF ci = 0 THEN r
            ELSE IF ci <= r.committed THEN panicIf(r, TRUE)
            ELSE logAppend(r, newEntries(r, s, ents))
  IN  commitTo(r1, s, StdMin(committed, index + Len(ents)))

(* slice [lo, hi)                                                          *)
slice(r, s, lo, hi, maxSize) ==
  LET u      == r.unstable
      cut    == StdMin(hi, u.offset)
      stored == EntriesOf(s, lo, cut, maxSize)
      answer(err, ents) == [err |-> err, ents |-> ents]
      ents   == (IF lo < u.offset THEN stored.ents ELSE <<>>)
                \o (IF hi > u.offset
                    THEN unstableSlice(u, StdMax(lo, u.offset), hi) ELSE <<>>)
  IN  IF lo > hi THEN answer("PANIC", <<>>)
      ELSE IF lo < firstIndex(r, s) THEN answer("ErrCompacted", <<>>)
      ELSE IF hi > lastIndex(r, s) + 1 THEN answer("PANIC", <<>>)
      ELSE IF lo = hi THEN answer("", <<>>)
      ELSE IF lo < u.offset /\ stored.err = "ErrCompacted" THEN stored
      ELSE IF lo < u.offset /\ stored.err # "" THEN answer("PANIC", <<>>)
      ELSE IF lo < u.offset /\ Len(stored.ents) < cut - lo THEN stored
      ELSE answer("", limitSize(maxSize, ents))

hasNextEnts(r, s) == r.committed + 1 > StdMax(r.applied + 1, firstIndex(r, s))

(* nextEnts; an error of slice is a panic.                                 *)
nextEntsBug(r, s, maxSize) ==           \* the last applied entry once more
  IF hasNextEnts(r, s)
  THEN slice(r, s, StdMax(r.applied, firstIndex(r, s)), r.committed + 1, maxSize)
  ELSE [err |-> "", ents |-> <<>>]

nextEnts(r, s, maxSize) ==
  IF hasNextEnts(r, s)
  THEN slice(r, s, StdMax(r.applied + 1, firstIndex(r, s)), r.committed + 1, maxSize)
  ELSE [err |-> "", ents |-> <<>>]

stableTo(r, i, t) == [r EXCEPT !.unstable = unstableStableTo(@, i, t)]

(* RaftLog::stableSnapTo has an empty body.                                *)
stableSnapTo(r, i) == r

logRestore(r, snap) ==
  [r EXCEPT !.committed = snap.index, !.unstable = unstableRestore(@, snap)]

(* The constructor.                                                        *)
newLogBug(r, s) ==                      \* the dummy entry counted twice
  [r EXCEPT !.unstable = NewUnstable(LastIndex(s) + 1),
            !.committed = FirstIndex(s) - 2, !.applied = FirstIndex(s) - 2]

newLog(r, s) ==
  [r EXCEPT !.unstable = NewUnstable(LastIndex(s) + 1),
            !.committed = FirstIndex(s) - 1, !.applied = FirstIndex(s) - 1]
=============================================================================
