-------------------------------- MODULE Node --------------------------------
(* One RawNode, its MemoryStorage and the application that runs it: what   *)
(* the Ready protocol does to a log that is partly in memory, partly saved *)
(* and partly compacted.  The node is a follower.  The leaders it hears    *)
(* from are an environment that sends, in any order and any number of      *)
(* times, what leaders with the logs LeaderLog could send.  Answers that   *)
(* promise nothing, votes and the configuration are left out.              *)
EXTENDS StableLog, FiniteSetsExt

CONSTANTS
  LeaderLog,       \* the log of the leader of each term: a sequence of terms
  LeaderCommit,    \* the commit indexes that leader may send
  SnapshotAt,      \* the indexes of the snapshots that leaders send
  PeerEntries,     \* how many entries the peers given to RawNode::New make
  MaxEntries,      \* bound on the entries of a MsgApp
  PageSize,        \* Config::maxSizePerMsg, in entries
  Guide,           \* what the application goes by: "ready.h" or "index.md"
  MaxRestart       \* bound on the restarts

VARIABLES
  node,            \* the RawNode and its Raft
  storage,         \* what is on disk
  app,             \* the step the application is at, and the Ready it holds
  sm,              \* the entries the state machine consists of
  acked,           \* for each term, the index its leader was promised
  restarts

vars == <<node, storage, app, sm, acked, restarts>>

Term == DOMAIN LeaderLog

LeaderEntry(t, i) == EntryAt(i, IF i = 0 THEN 0 ELSE LeaderLog[t][i])
LeaderEntries(t, lo, hi) == [k \in 1..(hi - lo + 1) |-> LeaderEntry(t, lo + k - 1)]

(* What leaders commit is what the leader of the last term commits.        *)
LastTerm == CHOOSE t \in Term : \A u \in Term : u <= t
Chosen == LeaderEntries(LastTerm, 1, Max(LeaderCommit[LastTerm]))

NodeAssumption ==
  \A t \in Term : \A i \in 1..Max(LeaderCommit[t]) :
    i <= Len(LeaderLog[t]) /\ LeaderEntry(t, i) = LeaderEntry(LastTerm, i)
ASSUME NodeAssumption

ASSUME GuideAssumption == Guide \in {"ready.h", "index.md"}

NoAcks == [t \in Term |-> 0]

(* The Ready of a node that has none.                                      *)
NoReady ==
  [entries |-> <<>>, committedEntries |-> <<>>, hardState |-> EmptyHardState,
   snapshot |-> NoSnapshot, acks |-> NoAcks]

Idle == [at |-> "idle", rd |-> NoReady, writes |-> <<>>]

hardState(r) == [term |-> r.term, commit |-> r.committed]

-----------------------------------------------------------------------------
(* RawNode::New and Raft::New on storage s                                 *)

loadState(r, hs) ==
  [panicIf(r, hs.commit < r.committed \/ hs.commit > LastIndex(storage)) EXCEPT
     !.committed = hs.commit, !.term = hs.term]

(* A node with an empty log takes its peers as committed entries of term 1.*)
bootstrap(r) ==
  LET ents == [k \in 1..PeerEntries |-> EntryAt(k, 1)]
  IN  [logAppend([r EXCEPT !.term = 1], ents) EXCEPT !.committed = PeerEntries]

newNode(s, applied) ==
  LET fresh  == newLog([term |-> 0, committed |-> 0, applied |-> 0,
                        unstable |-> NewUnstable(0), panic |-> FALSE,
                        acks |-> NoAcks, prevHardSt |-> EmptyHardState], s)
      loaded == IF s.hardState = EmptyHardState THEN fresh
                ELSE loadState(fresh, s.hardState)
      raft   == IF applied > 0 THEN appliedTo(loaded, applied) ELSE loaded
  IN  IF LastIndex(s) = 0 THEN bootstrap(raft)
      ELSE [raft EXCEPT !.prevHardSt = hardState(raft)]

-----------------------------------------------------------------------------
(* Raft::Step, for a message of a leader                                   *)

(* becomeFollower(m.term, m.from), for a later term.                       *)
stepTerm(r, t) == IF t > r.term THEN [r EXCEPT !.term = t] ELSE r

(* The MsgAppResp that accepts leaves with the next Ready; of several to   *)
(* the same leader the furthest counts.                                    *)
ack(r, index) == [r EXCEPT !.acks[r.term] = StdMax(@, index)]

handleAppendEntriesBug(r, prev, logTerm, commit, ents) ==   \* the whole log
  LET r1 == maybeAppend(r, storage, prev, commit, ents)
  IN  IF prev < r.committed THEN ack(r, r.committed)
      ELSE IF matchTerm(r, storage, prev, logTerm)
      THEN ack(r1, lastIndex(r1, storage))
      ELSE r

handleAppendEntries(r, prev, logTerm, commit, ents) ==
  IF prev < r.committed THEN ack(r, r.committed)
  ELSE IF matchTerm(r, storage, prev, logTerm)
  THEN ack(maybeAppend(r, storage, prev, commit, ents), prev + Len(ents))
  ELSE r

restoreRaft(r, snap) ==
  IF snap.index <= r.committed THEN r
  ELSE IF matchTerm(r, storage, snap.index, snap.term)
  THEN commitTo(r, storage, snap.index)
  ELSE logRestore(r, snap)

restores(r, snap) ==
  /\ snap.index > r.committed
  /\ ~matchTerm(r, storage, snap.index, snap.term)

handleSnapshot(r, snap) ==
  LET r1 == restoreRaft(r, snap)
  IN  ack(r1, IF restores(r, snap) THEN lastIndex(r1, storage) ELSE r1.committed)

handleHeartbeat(r, commit) == commitTo(r, storage, commit)

-----------------------------------------------------------------------------
(* GetReady and Advance                                                    *)

HasReadyBug ==                          \* committed entries are not asked for
  \/ hardState(node) # EmptyHardState /\ hardState(node) # node.prevHardSt
  \/ HasSnapshot(node.unstable)
  \/ node.acks # NoAcks
  \/ node.unstable.entries # <<>>

HasReady ==
  \/ hardState(node) # EmptyHardState /\ hardState(node) # node.prevHardSt
  \/ HasSnapshot(node.unstable)
  \/ node.acks # NoAcks
  \/ node.unstable.entries # <<>>
  \/ hasNextEnts(node, storage)

(* The HardState is empty when nothing changed; its commit is clamped to   *)
(* the committed entries that the Ready holds.                             *)
newReady(r) ==
  LET next == nextEnts(r, storage, PageSize).ents
      hs   == hardState(r)
  IN  [entries |-> r.unstable.entries, committedEntries |-> next,
       hardState |->
         IF hs = r.prevHardSt THEN EmptyHardState
         ELSE IF next = <<>> THEN hs
         ELSE [hs EXCEPT !.commit = StdMin(@, next[Len(next)].index)],
       snapshot |-> r.unstable.snapshot, acks |-> r.acks]

commitReadyBug(r, rd) ==                \* the HardState is not remembered
  LET hs == IF rd.hardState = EmptyHardState THEN r.prevHardSt ELSE rd.hardState
      r1 == appliedTo(r, hs.commit)
      e  == rd.entries[Len(rd.entries)]
      r2 == IF rd.entries = <<>> THEN r1 ELSE stableTo(r1, e.index, e.term)
  IN  IF rd.snapshot = NoSnapshot THEN r2 ELSE stableSnapTo(r2, rd.snapshot.index)

commitReady(r, rd) ==
  LET hs == IF rd.hardState = EmptyHardState THEN r.prevHardSt ELSE rd.hardState
      r1 == appliedTo([r EXCEPT !.prevHardSt = hs], hs.commit)
      e  == rd.entries[Len(rd.entries)]
      r2 == IF rd.entries = <<>> THEN r1 ELSE stableTo(r1, e.index, e.term)
  IN  IF rd.snapshot = NoSnapshot THEN r2 ELSE stableSnapTo(r2, rd.snapshot.index)

-----------------------------------------------------------------------------
(* Actions                                                                 *)

Init ==
  /\ storage = NewMemoryStorage
  /\ node = newNode(NewMemoryStorage, 0)
  /\ app = Idle
  /\ sm = <<>>
  /\ acked = [t \in Term |-> 0]
  /\ restarts = 0

(* A panic ends the process: of the object only the fact remains.          *)
Update(r) == node' = IF r.panic THEN [node EXCEPT !.panic = TRUE] ELSE r

Running == ~node.panic

(* Messages of the leader of term t.  Those of an earlier term are ignored.*)
FromLeader(t) ==
  /\ Running /\ t >= node.term
  /\ UNCHANGED <<storage, app, sm, acked, restarts>>

(* A MsgApp that replaces the tail of the unstable entries makes them      *)
(* assign a view of themselves, which is undefined: none is sent here.     *)
Aliases(r, prev, logTerm, ents) ==
  LET new == newEntries(r, storage, ents)
  IN  /\ prev >= r.committed /\ matchTerm(r, storage, prev, logTerm)
      /\ new # <<>> /\ TruncatesInside(r.unstable, new)

StepApp(t, prev, n, commit) ==
  LET r       == stepTerm(node, t)
      ents    == LeaderEntries(t, prev + 1, prev + n)
      logTerm == LeaderEntry(t, prev).term
  IN  /\ FromLeader(t)
      /\ ~Aliases(r, prev, logTerm, ents)
      /\ Update(handleAppendEntries(r, prev, logTerm, commit, ents))

StepHeartbeat(t, commit) ==
  /\ FromLeader(t)
  /\ Update(handleHeartbeat(stepTerm(node, t), commit))

StepSnapshot(t, i) ==
  /\ FromLeader(t) /\ i \in SnapshotAt
  /\ Update(handleSnapshot(stepTerm(node, t), LeaderEntry(t, i)))

(* The commit index of a heartbeat is at most what this node acknowledged. *)
StepLeader ==
  \E t \in Term :
    \/ \E prev \in 0..Len(LeaderLog[t]), commit \in LeaderCommit[t] :
         \E n \in 0..StdMin(MaxEntries, Len(LeaderLog[t]) - prev) :
           StepApp(t, prev, n, commit)
    \/ \E commit \in LeaderCommit[t] :
         StepHeartbeat(t, StdMin(acked[t], commit))
    \/ \E i \in 1..Max(LeaderCommit[t]) : StepSnapshot(t, i)

(* The writes of a Ready, each a set of its parts.  index.md lists them in *)
(* this order.  ready.h gives none: the entries then come before the       *)
(* HardState that commits them, and a new snapshot, of which no part makes *)
(* a log with what is on disk, comes with everything else at once.         *)
Writes(rd) ==
  IF Guide = "index.md" THEN <<{"hardState"}, {"entries"}, {"snapshot"}>>
  ELSE IF AcceptsSnapshot(storage, rd.snapshot)
  THEN <<{"snapshot", "entries", "hardState"}>>
  ELSE <<{"entries"}, {"hardState"}>>

(* The application takes a Ready, ...                                      *)
GetReady ==
  /\ Running /\ app.at = "idle" /\ HasReady
  /\ app' = [at |-> "save", rd |-> newReady(node), writes |-> Writes(newReady(node))]
  /\ Update([panicIf(node, nextEnts(node, storage, PageSize).err # "") EXCEPT
               !.acks = NoAcks])
  /\ UNCHANGED <<storage, sm, acked, restarts>>

(* ... saves it, one write after another, ...                              *)
Part == {"snapshot", "entries", "hardState"}

withSnapshot(s, rd, parts) ==
  IF "snapshot" \in parts THEN ApplySnapshot(s, rd.snapshot) ELSE s

withEntries(s, rd, parts) ==
  IF "entries" \in parts THEN StorageAppend(s, rd.entries) ELSE s

withHardState(s, rd, parts) ==
  IF "hardState" \in parts /\ rd.hardState # EmptyHardState
  THEN SetHardState(s, rd.hardState) ELSE s

Save ==
  LET parts == Head(app.writes)
      s     == withSnapshot(storage, app.rd, parts)
  IN  /\ Running /\ app.at = "save"
      /\ storage' = withHardState(withEntries(s, app.rd, parts), app.rd, parts)
      /\ Update(panicIf(node, "entries" \in parts /\ AppendLeavesGap(s, app.rd.entries)))
      /\ app' = [app EXCEPT !.writes = Tail(@),
                            !.at = IF Tail(app.writes) = <<>> THEN "send" ELSE "save"]
      /\ UNCHANGED <<sm, acked, restarts>>

(* ... sends the messages, by ready.h after all writes, by index.md once   *)
(* the HardState is saved, ...                                             *)
ToWrite(part) == \E k \in DOMAIN app.writes : part \in app.writes[k]

SendAt ==
  IF Guide = "index.md" /\ ~ToWrite("hardState") THEN {"save", "send"} ELSE {"send"}

Send ==
  /\ Running /\ app.at \in SendAt
  /\ acked' = [t \in Term |-> StdMax(acked[t], app.rd.acks[t])]
  /\ app' = [app EXCEPT !.at = IF @ = "send" THEN "apply" ELSE @]
  /\ UNCHANGED <<node, storage, sm, restarts>>

(* ... applies the snapshot, unless its state machine is past it, and the  *)
(* committed entries, ...                                                  *)
appliedIndex == IF sm = <<>> THEN 0 ELSE sm[Len(sm)].index

Apply ==
  LET i == app.rd.snapshot.index
  IN  /\ Running /\ app.at = "apply"
      /\ sm' = (IF i > appliedIndex THEN SubSeq(Chosen, 1, i) ELSE sm)
               \o app.rd.committedEntries
      /\ app' = [app EXCEPT !.at = "advance"]
      /\ UNCHANGED <<node, storage, acked, restarts>>

(* ... and tells the node.                                                 *)
Advance ==
  /\ Running /\ app.at = "advance"
  /\ Update(commitReady(node, app.rd))
  /\ app' = Idle
  /\ UNCHANGED <<storage, sm, acked, restarts>>

(* CreateSnapshot of the state machine.  ApplySnapshot has made a restored *)
(* snapshot and the storage's one object, which CreateSnapshot changes.    *)
TakeSnapshot ==
  LET s == CreateSnapshot(storage, appliedIndex)
  IN  /\ Running /\ app.at = "idle" /\ appliedIndex > storage.snapshot.index
      /\ storage' = s
      /\ node' = IF node.unstable.snapshot = storage.snapshot /\ HasSnapshot(node.unstable)
                 THEN [node EXCEPT !.unstable.snapshot = s.snapshot] ELSE node
      /\ UNCHANGED <<app, sm, acked, restarts>>

CompactLog ==
  /\ Running /\ app.at = "idle" /\ FirstIndex(storage) <= storage.snapshot.index
  /\ \E i \in FirstIndex(storage)..storage.snapshot.index :
       storage' = Compact(storage, i)
  /\ UNCHANGED <<node, app, sm, acked, restarts>>

(* The process ends at any point and a new one starts on the storage: the  *)
(* state machine is on disk itself, unless the saved snapshot is ahead of  *)
(* it, or starts from the snapshot.                                        *)
Restart ==
  LET i == storage.snapshot.index
  IN  /\ Running /\ restarts < MaxRestart
      /\ restarts' = restarts + 1
      /\ \/ /\ sm' = IF i > appliedIndex THEN SubSeq(Chosen, 1, i) ELSE sm
            /\ node' = newNode(storage, StdMax(i, appliedIndex))
         \/ sm' = SubSeq(Chosen, 1, i) /\ node' = newNode(storage, i)
      /\ app' = Idle
      /\ UNCHANGED <<storage, acked>>

HandleReady ==
  GetReady \/ Save \/ Send \/ Apply \/ Advance

Next == StepLeader \/ HandleReady \/ TakeSnapshot \/ CompactLog \/ Restart

(* The application does not stop in the middle of a Ready, and takes the   *)
(* next one when there is one.                                             *)
Spec == Init /\ [][Next]_vars /\ WF_vars(HandleReady)

-----------------------------------------------------------------------------
(* Types                                                                   *)

EntryType == [index : Nat, term : Nat]
HardStateType == [term : Nat, commit : Nat]
AckType == [Term -> Nat]

(* Every variable has its type.                                            *)
TypeOK ==
  /\ node \in [term : Nat, committed : Nat, applied : Nat,
               unstable : [snapshot : EntryType, entries : Seq(EntryType), offset : Nat],
               panic : BOOLEAN, acks : AckType, prevHardSt : HardStateType]
  /\ storage \in [hardState : HardStateType, snapshot : EntryType,
                  ents : Seq(EntryType)]
  /\ app \in [at : {"idle", "save", "send", "apply", "advance"},
              writes : Seq(SUBSET Part),
              rd : [entries : Seq(EntryType), committedEntries : Seq(EntryType),
                    hardState : HardStateType, snapshot : EntryType,
                    acks : AckType]]
  /\ sm \in Seq(EntryType)
  /\ acked \in [Term -> Nat]
  /\ restarts \in 0..MaxRestart

-----------------------------------------------------------------------------
(* Properties                                                              *)

(* No check of RaftLog, Unstable, MemoryStorage or loadState fails: the    *)
(* log in memory, the log on disk and the indexes into them fit together   *)
(* in whatever order messages arrive during a Ready.  By ready.h that is   *)
(* so too wherever between two of the writes the process ends.             *)
NoPanic == ~node.panic

(* The state machine consists of the chosen entries, in order, without one *)
(* missing or applied twice, across restarts and restored snapshots.       *)
StateMachineIsPrefix ==
  Len(sm) <= Len(Chosen) /\ sm = SubSeq(Chosen, 1, Len(sm))

SavedLog ==
  SubSeq(Chosen, 1, storage.ents[1].index) \o SubSeq(storage.ents, 2, Len(storage.ents))

SavedTerm ==
  StdMax(storage.hardState.term, storage.ents[Len(storage.ents)].term)

(* What the node promised the leader of a term is on disk until the node   *)
(* saves something of a later term: an answer reports only entries that    *)
(* are the leader's, none overtakes the write it reports, and no late      *)
(* MsgApp cuts off what was reported.  index.md lets answers overtake it.  *)
AckedIsSaved ==
  \A t \in Term :
    SavedTerm <= t =>
      /\ acked[t] <= Len(SavedLog)
      /\ SubSeq(SavedLog, 1, acked[t]) = LeaderEntries(t, 1, acked[t])

(* A node started from its previous state is in the term it had saved, or  *)
(* a later one: it cannot vote twice, or follow a leader, in a term it has *)
(* left.                                                                   *)
TermIsKept == node.term >= storage.hardState.term

(* A process that ends now finds a storage that loadState accepts: the     *)
(* saved commit index is in the saved log and not compacted.               *)
StorageIsLoadable ==
  storage.hardState # EmptyHardState =>
    storage.hardState.commit \in FirstIndex(storage) - 1..LastIndex(storage)

(* What Raft takes a node for: the log in memory is put together from the  *)
(* restored or compacted prefix, the storage and the unstable entries.     *)
LogInMemory ==
  LET u       == node.unstable
      covered == StdMax(storage.ents[1].index, u.snapshot.index)
  IN  [i \in 1..lastIndex(node, storage) |->
         IF i >= u.offset THEN u.entries[i - u.offset + 1]
         ELSE IF i <= covered THEN Chosen[i]
         ELSE storage.ents[i - storage.ents[1].index + 1]]

(* The log that saving the Ready makes.                                    *)
LogToSave ==
  LET rd == app.rd
  IN  IF ~ToWrite("entries") THEN SavedLog
      ELSE IF AcceptsSnapshot(storage, rd.snapshot) THEN SubSeq(Chosen, 1, rd.snapshot.index) \o rd.entries
      ELSE IF rd.entries = <<>> THEN SavedLog
      ELSE SubSeq(SavedLog, 1, rd.entries[1].index - 1) \o rd.entries

LeaderAppends ==
  UNION {{[prev |-> prev, logterm |-> LeaderEntry(t, prev).term, commit |-> commit,
           entries |-> LeaderEntries(t, prev + 1, StdMin(prev + n, Len(LeaderLog[t])))] :
             prev \in 0..Len(LeaderLog[t]), n \in 0..MaxEntries,
             commit \in LeaderCommit[t]} : t \in Term}

Abstract == INSTANCE DurableLog WITH
  log <- LogInMemory, committed <- node.committed, ready <- LogToSave,
  saved <- SavedLog, Appends <- LeaderAppends,
  First <- [k \in 1..PeerEntries |-> EntryAt(k, 1)]

(* The log that is split between memory, disk and snapshot behaves as one  *)
(* sequence: a Ready saves exactly the log of the moment it was taken,     *)
(* Advance and compaction change nothing, although messages may have       *)
(* replaced entries since, and a crash goes back to what was saved.        *)
ImplementsDurableLog == Abstract!Spec

(* What is saved as committed is eventually applied, although Advance      *)
(* guesses from the HardState how far the application has come.            *)
SavedCommitIsApplied ==
  \A i \in 1..Len(Chosen) :
    storage.hardState.commit >= i ~> appliedIndex >= i

(* When no more messages arrive, the loop comes to an end: HasReady turns  *)
(* false for good, except for a node that was sent a snapshot, which it    *)
(* never lets go of.                                                       *)
LoopEnds ==
  <>[][~StepLeader]_vars =>
    <>[](HasSnapshot(node.unstable) \/ (app.at = "idle" /\ ~HasReady))
=============================================================================
