--------------------------- MODULE MemoryStorage ----------------------------
(* MemoryStorage: the reference implementation of Storage.  A storage is a *)
(* record [hardState, snapshot, ents] whose ents starts with a dummy, the  *)
(* index and term of the last compacted entry.  An entry is its index and  *)
(* its term; the configuration a snapshot carries is left out.             *)
EXTENDS StdAlgorithms, Sequences

EntryAt(i, t) == [index |-> i, term |-> t]

(* Results of Term that are no term.                                       *)
ErrCompacted   == -1
ErrUnavailable == -2

EmptyHardState == [term |-> 0, commit |-> 0]

NewMemoryStorage ==
  [hardState |-> EmptyHardState, snapshot |-> EntryAt(0, 0),
   ents |-> <<EntryAt(0, 0)>>]

FirstIndex(s) == s.ents[1].index + 1
LastIndex(s) == s.ents[1].index + Len(s.ents) - 1

SetHardState(s, hs) == [s EXCEPT !.hardState = hs]

TermOf(s, i) ==
  LET offset == s.ents[1].index
  IN  IF i < offset THEN ErrCompacted
      ELSE IF i - offset >= Len(s.ents) THEN ErrUnavailable
      ELSE s.ents[i - offset + 1].term

(* limitSize: at least one entry, and at most maxSize.                     *)
limitSize(maxSize, ents) ==
  SubSeq(ents, 1, StdMin(Len(ents), StdMax(1, maxSize)))

(* Entries [lo, hi): no entries and an error, or the entries.              *)
EntriesOf(s, lo, hi, maxSize) ==
  LET offset == s.ents[1].index
      answer(err, ents) == [err |-> err, ents |-> ents]
  IN  IF lo <= offset THEN answer("ErrCompacted", <<>>)
      ELSE IF hi > LastIndex(s) + 1 THEN answer("PANIC", <<>>)
      ELSE IF Len(s.ents) = 1 THEN answer("ErrUnavailable", <<>>)
      ELSE answer("", limitSize(maxSize,
                        SubSeq(s.ents, lo - offset + 1, hi - offset)))

(* ErrSnapOutOfDate leaves the storage as it is.                           *)
AcceptsSnapshot(s, snap) == s.snapshot.index < snap.index

ApplySnapshot(s, snap) ==
  IF AcceptsSnapshot(s, snap)
  THEN [s EXCEPT !.snapshot = snap, !.ents = <<snap>>] ELSE s

CreateSnapshot(s, i) ==
  IF i <= s.snapshot.index THEN s
  ELSE [s EXCEPT !.snapshot = s.ents[i - s.ents[1].index + 1]]

Compact(s, i) ==
  IF i <= s.ents[1].index THEN s
  ELSE [s EXCEPT !.ents = SubSeq(@, i - s.ents[1].index + 1, Len(@))]

(* Append: compacted entries are dropped, conflicting ones overwritten     *)
(* along with all that follows them; a gap is a panic.                     *)
AppendLeavesGap(s, entries) ==
  entries # <<>> /\ entries[1].index > LastIndex(s) + 1

StorageAppend(s, entries) ==
  LET fresh  == SelectSeq(entries, LAMBDA e : e.index >= FirstIndex(s))
      offset == fresh[1].index - s.ents[1].index
  IN  IF fresh = <<>> THEN s
      ELSE [s EXCEPT !.ents = SubSeq(@, 1, offset) \o fresh]
=============================================================================
