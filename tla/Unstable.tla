------------------------------ MODULE Unstable ------------------------------
(* Unstable: the part of the log that the application has not saved yet, a *)
(* record [snapshot, entries, offset].  entries[k] is the entry of index   *)
(* offset + k - 1; a snapshot of index 0 stands for a null pointer.        *)
EXTENDS Integers, Sequences

NoSnapshot == [index |-> 0, term |-> 0]

NewUnstable(offset) ==
  [snapshot |-> NoSnapshot, entries |-> <<>>, offset |-> offset]

HasSnapshot(u) == u.snapshot # NoSnapshot

(* maybeLastIndex, when it returns one.                                    *)
HasLastIndex(u) == u.entries # <<>> \/ HasSnapshot(u)

maybeLastIndex(u) ==
  IF u.entries # <<>> THEN u.offset + Len(u.entries) - 1 ELSE u.snapshot.index

(* maybeTerm, when it returns one.                                         *)
HasTerm(u, i) ==
  IF i < u.offset THEN HasSnapshot(u) /\ u.snapshot.index = i
  ELSE HasLastIndex(u) /\ i <= maybeLastIndex(u)

maybeTerm(u, i) ==
  IF i < u.offset THEN u.snapshot.term ELSE u.entries[i - u.offset + 1].term

(* The entries up to i have been saved, unless they were replaced since.   *)
unstableStableToBug(u, i, t) ==         \* whatever the entry at i is by now
  IF HasTerm(u, i) /\ i >= u.offset
  THEN [u EXCEPT !.entries = SubSeq(@, i + 2 - u.offset, Len(@)),
                 !.offset = i + 1]
  ELSE u

unstableStableTo(u, i, t) ==
  IF HasTerm(u, i) /\ maybeTerm(u, i) = t /\ i >= u.offset
  THEN [u EXCEPT !.entries = SubSeq(@, i + 2 - u.offset, Len(@)),
                 !.offset = i + 1]
  ELSE u

unstableRestore(u, snap) ==
  [snapshot |-> snap, entries |-> <<>>, offset |-> snap.index + 1]

(* The third branch of truncateAndAppend, which assigns to entries a view  *)
(* of entries itself, after the elements were destroyed.                   *)
TruncatesInside(u, ents) ==
  ents[1].index > u.offset /\ ents[1].index # u.offset + Len(u.entries)

(* The slice(offset, after) of that branch must lie within the entries.    *)
truncateLeavesGap(u, ents) == ents[1].index > u.offset + Len(u.entries)

truncateAndAppend(u, ents) ==
  LET after == ents[1].index
  IN  IF after <= u.offset
      THEN [u EXCEPT !.entries = ents, !.offset = after]
      ELSE [u EXCEPT !.entries = SubSeq(@, 1, after - u.offset) \o ents]

(* slice [lo, hi); its callers have checked the bounds.                    *)
unstableSlice(u, lo, hi) ==
  SubSeq(u.entries, lo - u.offset + 1, hi - u.offset)
=============================================================================
