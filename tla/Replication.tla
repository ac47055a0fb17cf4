---------------------------- MODULE Replication -----------------------------
(* How a leader brings one of its followers up to date over a network that *)
(* loses, delays and reorders messages (what the leader resends is a       *)
(* duplicate where nothing was lost): probing, the pipeline and its window,*)
(* heartbeats, and snapshots once the entries that the follower lacks are  *)
(* compacted.  Nobody else is elected; the other voters answer the leader  *)
(* without the follower.  Each of the two nodes handles its Ready at once: *)
(* the entries of a message are saved when it is answered.                 *)
EXTENDS Inflights, StableLog

CONSTANTS
  LeaderTerms,     \* the terms of the entries the leader starts with
  FollowerTerms,   \* those of the follower
  LeaderTerm,      \* the term the leader was elected in
  MaxSize,         \* Config::maxSizePerMsg, in entries
  ProposalSize,    \* the number of entries in a MsgProp
  MaxLog,          \* bound on the leader's log
  CompactFrom,     \* the application compacts logs committed that far
  Committed,       \* what the leader knows to be committed at its election
  Capacity         \* bound on the messages of a type in flight

VARIABLES
  leader,          \* its RaftLog, what it knows of the follower, its msgs
  follower,        \* its RaftLog and msgs
  disk,            \* the storage of each
  network,
  reportDue        \* has the application a MsgSnap to report on?

vars == <<leader, follower, disk, network, reportDue>>

MessageType == {"MsgApp", "MsgAppResp", "MsgHeartbeat", "MsgHeartbeatResp", "MsgSnap"}

-----------------------------------------------------------------------------
(* The leader and its Progress of the follower.  The window is kept both   *)
(* as the queue of Progress and as the ring of Inflights.                  *)

leaderLast(l) == lastIndex(l, disk.leader)

toState(l, pr) == [l EXCEPT !.pr = pr, !.ring = ringReset(l.ring)]

inflight(l, last) ==
  [panicIf(l, addFails(l.ring)) EXCEPT
     !.pr = [optimisticUpdate(l.pr, last) EXCEPT !.ins = Append(l.pr.ins, last)],
     !.ring = add(l.ring, last)]

post(l, m) == [l EXCEPT !.msgs = @ \cup {m}]

sendSnapshot(l) ==
  LET snap == disk.leader.snapshot
  IN  IF ~l.pr.recentActive THEN l
      ELSE post(panicIf(toState(l, becomeSnapshot(l.pr, snap.index)), snap.index = 0),
                [type |-> "MsgSnap", snapshot |-> snap])

maybeSendAppend(l, sendIfEmpty) ==
  LET next == l.pr.next
      t    == term(l, disk.leader, next - 1)
      es   == IF next > leaderLast(l) THEN [err |-> "", ents |-> <<>>]
              ELSE slice(l, disk.leader, next, leaderLast(l) + 1, MaxSize)
      last == next + Len(es.ents) - 1
      l1   == IF es.ents = <<>> THEN l
              ELSE IF l.pr.state = "Replicate" THEN inflight(l, last)
              ELSE [l EXCEPT !.pr = pause(l.pr)]
  IN  IF IsPaused(l.pr) \/ (es.ents = <<>> /\ ~sendIfEmpty) THEN l
      ELSE IF t \in {ErrCompacted, ErrUnavailable} \/ es.err = "ErrCompacted"
      THEN sendSnapshot(l)
      ELSE post(panicIf(l1, es.err # ""),
                [type |-> "MsgApp", index |-> next - 1, logterm |-> t,
                 entries |-> es.ents, commit |-> l.committed])

sendAppend(l) == maybeSendAppend(l, TRUE)

(* while (maybeSendAppend(to, false)), which ends with the window full.    *)
sendRemaining(l) ==
  LET round[k \in 0..MaxInflight] ==
        IF k = 0 THEN l ELSE maybeSendAppend(round[k - 1], FALSE)
  IN  round[MaxInflight]

handleAppRejected(l, m) ==
  LET l1 == [l EXCEPT !.pr = [l.pr EXCEPT !.recentActive = TRUE]]
      pr == maybeDecrTo(l1.pr, m.index, m.rejecthint)
      l2 == IF pr.state = "Replicate" THEN toState(l1, becomeProbe(pr))
            ELSE [l1 EXCEPT !.pr = pr]
  IN  IF Decreases(l1.pr, m.index) THEN sendAppend(l2) ELSE l1

(* The commit index does not depend on this follower.                      *)
handleAppAccepted(l, m) ==
  LET l1 == [l EXCEPT !.pr = maybeUpdate([l.pr EXCEPT !.recentActive = TRUE], m.index)]
      l2 == IF l1.pr.state = "Probe" THEN toState(l1, becomeReplicate(l1.pr))
            ELSE IF needSnapshotAbort(l1.pr) THEN toState(l1, becomeProbe(l1.pr))
            ELSE IF l1.pr.state = "Replicate"
            THEN [l1 EXCEPT !.pr = [l1.pr EXCEPT !.ins = freeTo(l1.pr.ins, m.index)],
                            !.ring = ringFreeTo(l1.ring, m.index)]
            ELSE l1
      l3 == IF IsPaused(l.pr) THEN sendAppend(l2) ELSE l2
  IN  IF Updates(l.pr, m.index) THEN sendRemaining(l3) ELSE l1

handleHeartbeatRespBug(l, m) ==         \* a full window stays full
  LET l1 == [l EXCEPT !.pr = [resume(l.pr) EXCEPT !.recentActive = TRUE]]
  IN  IF l1.pr.match < leaderLast(l1) THEN sendAppend(l1) ELSE l1

handleHeartbeatResp(l, m) ==
  LET l1 == [l EXCEPT !.pr = [resume(l.pr) EXCEPT !.recentActive = TRUE]]
      l2 == IF l1.pr.state = "Replicate" /\ full(l1.pr.ins)
            THEN [l1 EXCEPT !.pr = [l1.pr EXCEPT !.ins = freeFirstOne(l1.pr.ins)],
                            !.ring = ringFreeFirstOne(l1.ring)]
            ELSE l1
  IN  IF l2.pr.match < leaderLast(l2) THEN sendAppend(l2) ELSE l2

(* MsgSnapStatus                                                           *)
handleSnapStatus(l, failed) ==
  IF l.pr.state # "Snapshot" THEN l
  ELSE LET pr == becomeProbe(IF failed THEN snapshotFailure(l.pr) ELSE l.pr)
       IN  toState(l, pause(pr))

handleUnreachable(l) ==
  IF l.pr.state = "Replicate" THEN toState(l, becomeProbe(l.pr)) ELSE l

-----------------------------------------------------------------------------
(* The follower                                                            *)

resp(f, index, reject, hint) ==
  post(f, [type |-> "MsgAppResp", index |-> index, reject |-> reject, rejecthint |-> hint])

handleAppendEntriesBug(f, m) ==         \* the entry before is not compared
  LET s == disk.follower
  IN  IF m.index < f.committed THEN resp(f, f.committed, FALSE, 0)
      ELSE IF m.index <= lastIndex(f, s)
      THEN resp(maybeAppend(f, s, m.index, m.commit, m.entries),
                m.index + Len(m.entries), FALSE, 0)
      ELSE resp(f, m.index, TRUE, lastIndex(f, s))

handleAppendEntries(f, m) ==
  LET s == disk.follower
  IN  IF m.index < f.committed THEN resp(f, f.committed, FALSE, 0)
      ELSE IF matchTerm(f, s, m.index, m.logterm)
      THEN resp(maybeAppend(f, s, m.index, m.commit, m.entries),
                m.index + Len(m.entries), FALSE, 0)
      ELSE resp(f, m.index, TRUE, lastIndex(f, s))

handleHeartbeat(f, m) ==
  post(commitTo(f, disk.follower, m.commit), [type |-> "MsgHeartbeatResp"])

handleSnapshot(f, snap) ==
  LET s == disk.follower
      f1 == logRestore(f, snap)
      f2 == commitTo(f, s, snap.index)
  IN  IF snap.index <= f.committed THEN resp(f, f.committed, FALSE, 0)
      ELSE IF matchTerm(f, s, snap.index, snap.term) THEN resp(f2, f2.committed, FALSE, 0)
      ELSE resp(f1, lastIndex(f1, s), FALSE, 0)

-----------------------------------------------------------------------------
(* The Ready of a node, saved and advanced                                 *)

save(n, s) ==
  [StorageAppend(ApplySnapshot(s, n.unstable.snapshot), n.unstable.entries)
     EXCEPT !.hardState = [term |-> LeaderTerm, commit |-> n.committed]]

settle(n) ==
  LET es == n.unstable.entries
      n1 == appliedTo([n EXCEPT !.msgs = {}], n.committed)
  IN  IF es = <<>> THEN n1 ELSE stableTo(n1, es[Len(es)].index, es[Len(es)].term)

(* The network takes what it has room for.                                 *)
OfType(msgs, type) == {m \in msgs : m.type = type}

Transmit(delivered, msgs) ==
  \E kept \in SUBSET msgs :
    /\ \A type \in MessageType :
         Cardinality(OfType((network \ delivered) \cup kept, type)) =
           StdMin(Capacity, Cardinality(OfType((network \ delivered) \cup msgs, type)))
    /\ network' = (network \ delivered) \cup kept

LeaderDoes(l) ==
  /\ ~leader.panic /\ ~follower.panic
  /\ UNCHANGED follower
  /\ leader' = settle(l)
  /\ disk' = [disk EXCEPT !.leader = save(l, @)]
  /\ reportDue' = (reportDue \/ OfType(l.msgs, "MsgSnap") # {})

FollowerDoes(f) ==
  /\ ~leader.panic /\ ~follower.panic
  /\ UNCHANGED <<leader, reportDue>>
  /\ follower' = settle(f)
  /\ disk' = [disk EXCEPT !.follower = save(f, @)]

-----------------------------------------------------------------------------
(* Actions                                                                 *)

StorageWith(terms, commit) ==
  [NewMemoryStorage EXCEPT
     !.ents = @ \o [i \in 1..Len(terms) |-> EntryAt(i, terms[i])],
     !.hardState = [term |-> LeaderTerm, commit |-> commit]]

StartOn(s) ==
  [newLog([committed |-> 0, applied |-> 0, unstable |-> NewUnstable(0),
           panic |-> FALSE, msgs |-> {}], s) EXCEPT
     !.committed = s.hardState.commit, !.applied = s.hardState.commit]

(* becomeLeader has appended the leader's empty entry, the last of its     *)
(* LeaderTerms, and sent it.                                               *)
Init ==
  LET n == Len(LeaderTerms)
      l == StartOn(StorageWith(LeaderTerms, Committed))
  IN  /\ disk = [leader |-> StorageWith(LeaderTerms, Committed),
                 follower |-> StorageWith(FollowerTerms, 0)]
      /\ leader = [committed |-> l.committed, applied |-> l.applied,
                   unstable |-> l.unstable, panic |-> FALSE, msgs |-> {},
                   pr |-> pause(NewProgress(n, 0, FALSE)), ring |-> NewInflights]
      /\ follower = StartOn(StorageWith(FollowerTerms, 0))
      /\ network = {[type |-> "MsgApp", index |-> n - 1, commit |-> Committed,
                     logterm |-> disk.leader.ents[n].term,
                     entries |-> <<disk.leader.ents[n + 1]>>]}
      /\ reportDue = FALSE

Propose ==
  LET last == leaderLast(leader)
      es == [k \in 1..ProposalSize |-> EntryAt(last + k, LeaderTerm)]
      l1 == sendAppend(logAppend(leader, es))
  IN  /\ last + ProposalSize <= MaxLog
      /\ LeaderDoes(l1) /\ Transmit({}, l1.msgs)

(* The other voters acknowledge all of the log: maybeCommit, bcastAppend.  *)
OthersAck ==
  LET l == sendAppend(commitTo(leader, disk.leader, leaderLast(leader)))
  IN  /\ leader.committed < leaderLast(leader)
      /\ LeaderDoes(l) /\ Transmit({}, l.msgs)

TickHeartbeatBug ==                     \* the commit index, held or not
  LET l == post(leader, [type |-> "MsgHeartbeat", commit |-> leader.committed])
  IN  LeaderDoes(l) /\ Transmit({}, l.msgs)

TickHeartbeat ==
  LET l == post(leader, [type |-> "MsgHeartbeat",
                         commit |-> StdMin(leader.pr.match, leader.committed)])
  IN  LeaderDoes(l) /\ Transmit({}, l.msgs)

StepAppResp(m) ==
  LET l == IF m.reject THEN handleAppRejected(leader, m)
           ELSE handleAppAccepted(leader, m)
  IN  m.type = "MsgAppResp" /\ LeaderDoes(l) /\ Transmit({m}, l.msgs)

StepHeartbeatResp(m) ==
  LET l == handleHeartbeatResp(leader, m)
  IN  m.type = "MsgHeartbeatResp" /\ LeaderDoes(l) /\ Transmit({m}, l.msgs)

StepApp(m) ==
  LET f == handleAppendEntries(follower, m)
  IN  m.type = "MsgApp" /\ FollowerDoes(f) /\ Transmit({m}, f.msgs)

StepHeartbeat(m) ==
  LET f == handleHeartbeat(follower, m)
  IN  m.type = "MsgHeartbeat" /\ FollowerDoes(f) /\ Transmit({m}, f.msgs)

StepSnapshot(m) ==
  LET f == handleSnapshot(follower, m.snapshot)
  IN  m.type = "MsgSnap" /\ FollowerDoes(f) /\ Transmit({m}, f.msgs)

Lose(m) ==
  /\ network' = network \ {m}
  /\ UNCHANGED <<leader, follower, disk, reportDue>>

(* The application reports what it believes became of a MsgSnap.           *)
ReportSnapshot ==
  /\ reportDue /\ ~leader.panic /\ ~follower.panic
  /\ reportDue' = FALSE
  /\ \E failed \in BOOLEAN : leader' = handleSnapStatus(leader, failed)
  /\ UNCHANGED <<follower, disk, network>>

ReportUnreachable == LeaderDoes(handleUnreachable(leader)) /\ UNCHANGED network

(* The application of the leader snapshots and compacts what it applied.   *)
CompactLeader ==
  LET i == leader.applied
  IN  /\ leader.applied >= CompactFrom /\ i > disk.leader.snapshot.index
      /\ disk' = [disk EXCEPT !.leader = Compact(CreateSnapshot(@, i), i)]
      /\ UNCHANGED <<leader, follower, network, reportDue>>

Next ==
  \/ Propose \/ OthersAck \/ TickHeartbeat
  \/ ReportSnapshot \/ ReportUnreachable \/ CompactLeader
  \/ \E m \in network :
       \/ StepApp(m) \/ StepHeartbeat(m) \/ StepSnapshot(m)
       \/ StepAppResp(m) \/ StepHeartbeatResp(m) \/ Lose(m)

(* Strong fairness of the network: it may lose any message, but not every  *)
(* message of a type that is in flight again and again.                    *)
InFlight(type) == OfType(network, type) # {}

FairNetwork ==
  /\ []<>InFlight("MsgApp") => []<><<\E m \in network : StepApp(m)>>_vars
  /\ []<>InFlight("MsgAppResp") => []<><<\E m \in network : StepAppResp(m)>>_vars
  /\ []<>InFlight("MsgHeartbeat") => []<><<\E m \in network : StepHeartbeat(m)>>_vars
  /\ []<>InFlight("MsgHeartbeatResp") =>
       []<><<\E m \in network : StepHeartbeatResp(m)>>_vars
  /\ []<>InFlight("MsgSnap") => []<><<\E m \in network : StepSnapshot(m)>>_vars

(* Weak fairness of what happens in time: heartbeats are ticked, the other *)
(* voters answer, and the application reports on every MsgSnap.            *)
InTime ==
  /\ <>[]~InFlight("MsgHeartbeat") => []<><<TickHeartbeat>>_vars
  /\ <>[](leader.committed < leaderLast(leader)) => []<><<OthersAck>>_vars
  /\ <>[]reportDue => []<><<ReportSnapshot>>_vars

Spec == Init /\ [][Next]_vars /\ FairNetwork /\ InTime

-----------------------------------------------------------------------------
(* Properties                                                              *)

(* No check of the log, of the storage or of the window fails.             *)
NoPanic == ~leader.panic /\ ~follower.panic

(* The ring buffer holds the queue that Progress takes it for, through     *)
(* every wrap, reset and release of the window.                            *)
RingIsQueue == Contents(leader.ring) = leader.pr.ins

LogOf(n, s) ==
  [i \in (s.ents[1].index + 1)..lastIndex(n, s) |-> s.ents[i - s.ents[1].index + 1]]

(* What the leader believes the follower to have, it has: entry for entry, *)
(* as far as neither log is compacted.                                     *)
MatchIsHeld ==
  LET f == LogOf(follower, disk.follower)
      l == LogOf(leader, disk.leader)
  IN  /\ leader.pr.match <= lastIndex(follower, disk.follower)
      /\ \A i \in 1..leader.pr.match :
           i \in DOMAIN f \cap DOMAIN l => f[i] = l[i]

(* The follower again and again has the whole log of the leader, committed *)
(* as far as the leader knows, and the leader knows it: no loss, rejection,*)
(* full window, pause or snapshot, not one reported wrongly either, stops  *)
(* replication for good.                                                   *)
FollowerCatchesUp ==
  []<>(/\ follower.committed = leaderLast(leader)
       /\ leader.pr.match = leaderLast(leader))
=============================================================================
