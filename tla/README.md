# A TLA+ model of yaraft

yaraft is a C++ library that implements the Raft consensus protocol after the
design of etcd/raft: the protocol is a deterministic object that is fed with
messages and ticks, and everything else (disk, network, state machine) is the
business of the application, which drains the object's output through a *Ready*
and confirms it with *Advance*.

This directory holds the specification of the core of the library, the
configurations with which TLC checks it, and proofs that TLAPS checks.

## The system and its parts

| Part | Source | Model |
|---|---|---|
| Raft state machine: roles, elections, replication, heartbeats, reads, transfer | `raft.cc`, `raft.h` | `RaftState.tla`, `Raft.tla` |
| Log | `raft_log.h`, `util.cc` | `RaftLog.tla` as one sequence; `StableLog.tla` over its parts |
| Unstable entries | `unstable.h` | `Unstable.tla` |
| Storage, MemoryStorage | `storage.h`, `memory_storage.*` | `MemoryStorage.tla`; variable `storage` of `Raft.tla` |
| RawNode, Ready, Advance | `raw_node.cc`, `ready.h` | `Node.tla`, step by step; `Ready` of `Raft.tla`, in one step |
| Progress of a follower, flow control | `progress.h`, `progress.cc` | `Progress.tla` |
| Window of messages in flight | `inflights.h` | `Inflights.tla`, the ring buffer; `Progress.tla`, the queue it implements |
| Snapshots | `raft.cc`, `raft_log.h` | receiving in `Node.tla`, sending and reports in `Replication.tla` |
| Read-only requests | `read_only.h`, `read_only.cc` | `ReadOnly.tla` |
| Membership changes, learners | `raft.cc`, `raw_node.cc` | `Membership.tla`; fixed learners in `Raft.tla` |
| Configuration | `conf.h`, `conf.cc` | constants and `ConfigAssumption` |
| GoSlice, wire format, status, logging, errors | `go_slice.h`, `idl_wrapper.h`, ... | see the end |

Four modules are state machines, each with the detail that its questions need:
`Raft` is the whole cluster with fixed members; `Node` is one node and its disk;
`Replication` is one leader and one follower; `Membership` is a cluster whose members
change.

The application's part of the protocol (ready.h, docs/index.md) is modelled too: it saves
entries and HardState, then sends the messages, then calls Advance, and after a
crash it starts a new object on what it saved. The two texts differ on the order
of these steps; see `Node` below.

## How the models correspond to the code

### Raft

`raft[i]` is the `Raft` object of node *i*: a record with a field for each member
(`term_` is `term`, `prs_` and `learnerPrs_` are the one function `prs`, told
apart by `isLearner`; `raftLog_` is the fields `log`, `committed`, `applied`;
`msgs_` is the set `msgs`). A method is an operator from such a record to the
changed record and has the method's name. One call of `Raft::Step` or
`Raft::tick`, with everything the handler calls, is one action:

| Action | Code |
|---|---|
| `TickElectionIdle`, `TickElectionHup`, `TickHeartbeat` | `Raft::tick` |
| `Campaign`, `Propose`, `ReportUnreachable`, `TransferLeader`, `ReadIndex` | the calls of RawNode |
| `StepProp`, `StepVote`, `StepVoteResp`, `StepApp`, `StepAppResp`, `StepHeartbeat`, `StepHeartbeatResp`, `StepTransferLeader`, `StepTimeoutNow`, `StepReadIndex`, `StepReadIndexResp` | `Raft::Step` for a message of that type which gets past the prologue |
| `StepLowerTerm` | `Raft::Step` for a message of an earlier term |
| `Ready` | `GetReady`, saving, sending, `Advance` |
| `Restart` | the process ends at any point; `Raft::New` on the storage |

`RAFT_LOG(PANIC)`, `RAFT_PANIC` and failed bound checks end the process: the
record keeps nothing of the call but `panic = TRUE`, and the node does nothing
until it restarts. `NoPanic` says that this does not happen.

`network` holds every message ever sent and never shrinks. A message may be
delivered at any time, any number of times, or never: loss, delay, duplication
and reordering are all there.

What is abstracted:

* Sizes are numbers of entries: `MaxSize` is how many entries fit in a MsgApp and
  in the committed entries of a Ready (`limitSize` never returns less than one).
* The data of an entry is one of a few values; contexts are model values.
* The randomized election timeout is drawn by the tick that reads it: from
  `ElectionTick` ticks on a tick may campaign, at `2 * ElectionTick - 1` it must.
  Earlier draws have no other effect, so this gives the same behaviours.
* The loop `while (maybeSendAppend(to, false))` is `sendRemaining`, which computes
  the messages of all its rounds at once; `bcastAppend` sends to all nodes at once.
* Soft state is left out of `HasReady`: the application does nothing with it.
* `append` is what `Unstable::truncateAndAppend` means to do. Its third branch,
  which assigns entries from a view of themselves, is reached only when a MsgApp
  conflicts inside entries that no Ready has saved yet; the runs in which MsgApps
  arrive have `Batching = FALSE` and never take it. The proofs cover
  `Batching = TRUE` as well, with `append` as it is meant.
* Messages go to `Raft::Step` directly, as in the tests of Raft:
  `RawNode::Step` refuses responses of known peers (see the hazards in
  `PROJECT.json`), so that through it no election could be won. Nodes are made
  by `Raft::New` with peers and learners, not by `RawNode::New`.
* Saving the HardState and the entries is one step; `Node` takes it apart.
* `Inflights` is a queue, and `add` does not abort when it is full (inflights.h:34): a message too many
  would make the window longer than its type allows, which `TypeCorrect` excludes. `Replication` has the ring and the abort.

With `Batching = FALSE` a node that stepped handles its Ready before anything
else happens (`CanStep`). That the other nodes wait loses nothing: what a node did
since its last Ready is seen by nobody and undone by a crash. That no two steps of
a node share a Ready is a restriction of the runs, all of which have `Batching = FALSE`. The proofs
hold for both values, so several steps per Ready are covered for all that is proved, which
excludes `NoPanic`, `ReadIsFresh`, flow control, pre-votes and activity.

### Node

`node` is the RawNode with its Raft and RaftLog, `storage` the MemoryStorage, `app` the
step of the Ready loop that the application is at and the Ready it holds, `sm` the
entries that its state machine consists of, and `acked` what each leader was promised.

| Action | Code |
|---|---|
| `StepApp`, `StepHeartbeat`, `StepSnapshot` | `Raft::Step` of a follower, between any two steps of the loop |
| `GetReady` | `RawNode::GetReady`, with `newReady` and the clamped commit index |
| `Save`, `Send`, `Apply` | the application; `Save` is one write, of one or more parts of the Ready |
| `Advance` | `RawNode::Advance` and `commitReady` |
| `TakeSnapshot`, `CompactLog` | `CreateSnapshot`, `Compact` |
| `Restart` | the process ends at any point; `RawNode::New` on the storage |

The library tells its users in two places how to handle a Ready, and they disagree. `Guide` says which one
the application follows:

* `"ready.h"`: messages leave after everything is saved ("to be saved to stable storage BEFORE Messages are sent", ready.h:81
  and 92, "to be sent AFTER Entries are committed to stable storage", ready.h:104). No order of the writes is given. The model
  takes the one in which a crash between two of them does no harm: the entries and then the HardState, whose commit index may
  cover them. For a Ready with a new snapshot there is no such order: the snapshot without the HardState leaves a commit
  index below the first index, the HardState without the snapshot one beyond the last, and `loadState` aborts on both. So the
  application has to write it at once, and `Writes` has it do so.
* `"index.md"`: the writes are made one by one in the order in which docs/index.md:66 lists them, HardState, entries, snapshot, and messages may leave
  as soon as the HardState is saved (docs/index.md:68, "Messages may be sent while entries from the same batch are being persisted").

The runs `node`, `page`, `restored` and `no_peers` go by ready.h. `docs_order` goes by docs/index.md and ends in
a violation of `StorageIsLoadable`; with the same configuration TLC also finds `AckedIsSaved` violated, by a MsgAppResp that
leaves before the entry it acknowledges is saved, and `NoPanic`. What `node` shows holds for users of ready.h only.

The leaders are an environment: they send, in any order and
repeatedly, what leaders with the logs `LeaderLog` could send, a heartbeat's commit index
being bounded by what was acknowledged. `PeerEntries` is the number of peers that are handed to `RawNode::New`. It is 1 in most runs,
so that the log is never empty; docs/index.md:36 and 56 hand over none, and `no_peers` shows what
becomes of the term of such a node (raw_node.cc:46). MsgApps that replace a part of the unstable entries (`Aliases`) are
not sent, because what unstable.h:148 does with them is undefined.

### Replication

`leader` holds its log, the `Progress` of the follower and, next to the queue `pr.ins`,
the ring buffer `ring`; `follower` its log; `disk` both storages; `network` the messages in
flight, at most `Capacity` of a type. The handlers of MsgApp, MsgAppResp, MsgHeartbeat,
MsgHeartbeatResp, MsgSnap, MsgSnapStatus and MsgUnreachable are each one action, together with the
Ready that follows. `OthersAck` stands for the voters that make a majority
without the follower, whose answers the same handler would take. `ReportSnapshot` may report either outcome, whatever happened.

### Membership

`server` holds what decides elections and commits: term, vote, role, log, commit and applied index,
`prs`, `learners`, `match`, `pendingConfIndex`, `leadTransferee`. Every server applies its committed
entries one by one and at its own time, so configurations differ. `requests` and `timeouts` are
the MsgVotes and MsgTimeoutNows sent, which may arrive at any later time, repeatedly or never.
MsgApps and heartbeats are delivered at once or lost, as are answers: the only thing that can come
between a follower and a delayed MsgApp is a higher term, and then it is ignored. Two details are left out. The aborts of `maybeAppend` and `commitTo`
(raft_log.h:61, 181) do not stop a server: what would make them happen, a committed entry that is replaced or a commit index beyond the log, violates
`StateMachineSafety` or `TypeOK`. And `removeNode` calls
`bcastAppend` on a follower too when its commit index moves (raft.cc:821), which takes a follower that is left as the only voter; the MsgApps
that it would send to a learner are not modelled. `Next` has no leader transfer;
`TransferSpec` adds it.

## Modules

| Module | Content |
|---|---|
| `StdAlgorithms` | `std::max`, `std::min` |
| `Progress` | Progress and Inflights as pure operators |
| `RaftLog` | RaftLog as pure operators on a node's record |
| `ReadOnly` | ReadOnly as pure operators on a queue of requests |
| `RaftState` | the cluster's constants and variables, messages and their types, and the properties of states |
| `Raft` | its handlers, actions and specification, and the properties of steps |
| `MCRaft` | initial states, budgets and symmetry for TLC |
| `Moves` | what steps do to a node, in the terms of the proofs; the invariant of elections |
| `Histories` | the invariant of commitment |
| `MoveLemmas` | the moves keep the invariants of elections, of the commit index and of the matching of logs |
| `RaftLemmas` | what Progress, sending, appending and replicating do to a node |
| `RoleLemmas` | what reads, transfers, changes of role, votes, ticks and restarts do to it |
| `RaftProofs` | every action is one of the moves, and keeps the types |
| `HistoryLemmas`, `CommitLemmas` | the moves keep the history, and what follows from it |
| `SafetyProofs` | the theorems on the cluster |
| `MemoryStorage`, `Unstable` | the two halves of a log, as pure operators |
| `StableLog` | RaftLog over the two |
| `Node`, `MCNode` | one node and its Ready loop |
| `DurableLog` | what `Node` implements: one sequence in memory, one on disk |
| `Inflights` | the ring buffer as pure operators |
| `Replication`, `MCReplication` | a leader and a follower |
| `ReplicationProofs` | `Spec => []RingIsQueue` |
| `Membership`, `MCMembership` | a cluster whose members change |

An operator whose name ends in `Bug` is a plausible mistake in the one that
follows it; `PROJECT.json` pairs each property with one that breaks it.

## The runs

The first three runs use `MCRaft` and `MCRaft_<Name>.cfg`. There `Budget` bounds how often each kind
of input occurs (campaigns, leader ticks, deliveries of MsgApp and MsgReadIndex,
reports of unreachability, transfers, restarts), `MaxLog` the log up to which
proposals are appended. Everything else is bounded by these. A run may have several
initial states, each of which leaves a part of the budget (`Leaves`). Deadlock is not
checked because a cluster that has used its budget up stops.

| Run | Instance | Shows |
|---|---|---|
| `cluster` | 3 voters; (1) empty, with 3 campaigns and a restart; (2) with conflicting logs, 2 campaigns and 3 MsgApps, or 1 campaign, 4 MsgApps and a restart; (3) with a leader, an election, and 2 reads, or 1 read whose MsgReadIndex may arrive twice | `ElectionSafety`: two nodes never act as leaders of one term, although a crash may lose what is not saved; `LogMatching`, `StateMachineSafety`, `LeaderCompleteness`, `CommitIsDurable` while the logs are repaired; `ReadIsFresh`; `DurableStateAdvances`, `TypeOK`, `NoPanic` |
| `flow` | a leader and a follower, 2 entries per message, a window of 2, 3 deliveries of MsgApps, a heartbeat, a report of unreachability, a transfer | `MatchIsDurable`, `ProgressConsistent`, `TransfereeIsUpToDate`, `NoPanic` |
| `vote` | 3 voters with a leader, PreVote and CheckQuorum, election timeout of 2 ticks, a campaign and 2 leader ticks, or 3 campaigns | `VoteAfterPreVote`, `ActiveWasHeard`, `NoPanic` |
| `node` | the leaders of two terms with conflicting entries, messages of at most 2 entries, a snapshot, a restart; `Guide = "ready.h"` | the log in its parts implements `DurableLog`; `AckedIsSaved`, `StateMachineIsPrefix`, `NoPanic`; `SavedCommitIsApplied` and `LoopEnds` |
| `replication` | a diverged follower, a window of 2, one message of each type in flight, logs of up to 5 entries | `RingIsQueue`, `MatchIsHeld`, `NoPanic`; `FollowerCatchesUp` |
| `membership` | 3 voters of which two are removed, a fourth server that joins as voter or learner, 2 terms, logs of up to 4 entries, restarts of one server | `StateMachineSafety`, `OneLeaderPerTerm`, `OneChangePending`, `ConfigAgrees` |

The runs that need logs or a leader start where those exist: `InitDiverged`,
`InitLed` and `InitSettled` are states that an ordinary start reaches, with part
of the messages lost. `InitDiverged` is the smallest state in which two leaders have
left conflicting entries, the situation of Figure 8 of the Raft paper; two
elections on top of it are enough for the loss of a committed entry if
`maybeCommit` ignored terms, as its mutant shows. Three voters are the smallest
cluster in which a majority is not everybody. Two campaigns under PreVote are enough for a pre-vote
of one candidacy to be counted in the next, and the third lets another node campaign in between. Two nodes are enough for flow
control, which is between one leader and one follower. Symmetry permutes voters,
learners and contexts, which nothing orders. The passing runs of `Raft` have no learner: that learners
are not counted in elections and commits is in the proofs, and in `membership`, where servers join as learners.

In `node` two leaders are the fewest that make a node replace entries while it saves them,
and its snapshot is at the last index, after which nothing is committed: with an earlier one the
node aborts, see `restored`. For the same reason `replication` compacts only a log that is full.
A page holds all committed entries in `node`; `page` shows why. In `replication` a window of 2 wraps and fills up.
`membership` never adds a removed id again, as docs/index.md asks. An instance in which
the fourth server may join before the second removal was explored once as well, completely
(4,223,728 states, 13 minutes) and without a violation. No instance promotes a learner.

### Fairness

`Node` assumes weak fairness of the Ready loop: the application goes on with a Ready and takes the next.
`SavedCommitIsApplied` and `LoopEnds` are about that loop. `LoopEnds` excepts a node that restored
a snapshot, for which HasReady stays true until it restarts.

`Replication` assumes of the network (`FairNetwork`) that it does not lose every message of a type that is
in flight again and again, and of time (`InTime`) that heartbeats are ticked, that the other voters answer, and that the
application reports on every MsgSnap, as ready.h:106 says it "MUST": a report that is never made leaves the follower in the snapshot state,
and `FollowerCatchesUp` says nothing of that. Nothing is assumed of proposals, compaction or
reports of unreachability. The other runs check safety only.

### Disagreements

Six runs end in a violation of what a comment or the documentation of the repository says:

| Run | Text | What the trace shows |
|---|---|---|
| `learner_ack` | conf.h:29 "guarantees the linearizability of the read only request by communicating with the quorum" | a deposed leader answers a read with the acknowledgement of a learner |
| `restored` | unstable.h:44 "if it has at least one unstable entry or snapshot"; raft_log.h:381, 384 | `stableSnapTo` (raft_log.h:205) is empty, so a saved snapshot stays in Unstable and answers for the last index; entry 3, saved and acknowledged, is committed by a heartbeat and `commitTo` aborts |
| `page` | raft.cc:1125 "This is also used as our cursor to resume for the next Ready batch" | a node restarts with commit index 2, is given entry 1, and Advance marks entry 2 as applied too; entry 3 is applied next |
| `transfer` | raft.h:106 "Only one conf change may be pending (in the log, but not yet applied) at a time" | a transferee with a committed, unapplied change campaigns, which MsgHup would refuse, and leads with two pending |
| `docs_order` | docs/index.md:66 "Write HardState, Entries, and Snapshot to persistent storage", in steps that "must be performed in sequence" (64) | a Ready has an entry and a HardState whose commit index covers it; after the first write the disk has the index and not the entry, and `loadState` (raft.h:321) aborts a process that starts on it |
| `no_peers` | raw_node.cc:41 "If the log is empty, this is a new RawNode"; docs/index.md:39 "To start a node from previous state" | a node that was started without peers, as there, saves term 2 before it has an entry, restarts and is in term 1: `becomeFollower(1, kNone)` overwrites the term and the vote that were loaded |

Under `TransferSpec` TLC also finds `StateMachineSafety` violated: two servers commit different entries.

`cluster` has no learner, because of `learner_ack`. A read request that arrives again after it was answered is queued anew
(read_only.cc:27), and acknowledgements of the first round may confirm it. That does no harm in `cluster`: they are all younger than the request.
Three more places where the code does less than one might expect, none of which breaks a property of the runs: a pre-vote
for an earlier candidacy is counted (raft.cc:958), so `VoteAfterPreVote` says only that a quorum granted pre-votes;
a delayed rejection while probing may set `next_` to `match_` (progress.cc:48), so `ProgressConsistent`
demands more only while replicating; and MsgHup does not ask whether the node is a learner (raft.cc:509), so
the instances have no learner campaign.

## What is proved

The proofs hold for every finite membership, every configuration that
`Config::Validate` accepts, and all bounds. They rest on the assumptions named in
the modules: `MembershipAssumption` (voters are finitely many, at least one, and not
learners), `ConfigAssumption`, `BoundsAssumption` and `MaxInflightAssumption`.

The proofs about `Raft` end in `SafetyProofs`. All but the one on types assume
`Campaigner \subseteq Voter`: the code lets a learner campaign (raft.cc:509). They
separate what the code does from why that is right. Most handlers are *quiet*
(`Quiet(r, s)`): they keep role, term and vote, and send no vote, nor what only a
leader sends unless the node leads. The others are described by a few predicates:
`Follows`, `Explores`, `Stands`, `Polls`, `Wins`, `Casts`, and for the log `Accepts`,
`Hears` and `Matches`. One such change is a *move* (`Move`), an input or a message is a
path of at most four of them (`Path`, `Moves(i)`); a Ready is `Saving(i)` and a restart
`Loading(i)`. `RaftLemmas`, `RoleLemmas` and `RaftProofs` have one lemma per handler, and from these
`NextActs` gets that every step of the specification is one of `Acts`. The other
modules never look at a handler: they show of each kind of move, hence of
paths, hence of `Acts`, that it keeps an invariant. What the proofs use of
numbers and finite sets (a least element, a greatest one, the cardinalities of sets
of voters) is the definition `Counting`, which the lemmas assume and
`CountingHolds` proves.

**`TypeCorrect`: `Spec => []TypeOK`.** The inductive invariant is
`TypeInv`: the types, and that in each node's `prs` exactly the learners are marked
as learners, without which a quorum could not be counted. Among what the types say:
windows never exceed `maxInflightMsgs`, `next_` is never 0, so `next_ - 1` does
not wrap.

**`OneLeaderPerTerm`: `Spec => []ElectionSafety`.** `ElectionSafety` speaks of leaders
of the past as well, through the messages they sent. It is not inductive: what keeps a
node from voting twice is spread over its memory, its disk, its mailbox and the network,
and a crash wipes out two of them. `ElectionInv` says

* of a node: what it has in its mailbox, and its role, agree with its vote in
  memory (`VoteInv`); its disk is not ahead of its memory (`SavedInv`); only voters
  stand for election, a leader has, with its own, the votes of a majority in the
  network, and a candidate counts only its own and such votes (`RoleInv`);
* of the network: a vote on its way is covered by the disk of the voter (`NetInv`), no
  voter has two votes of one term on their way, and whoever sends as leader was
  elected by a majority.

A restart then keeps the invariant because only the disk matters for the network,
and `Ready` does because term and vote are saved in the step that sends. That
two majorities of the voters meet gives the theorem. TLC finds
`ElectionInv` invariant on the first instance of `cluster`, with `Batching = TRUE`, when `0..4` is put for `Nat` in
its quantifiers over terms (three campaigns reach term 3) and `TypeOK` for `TypeInv`.

**`SavedStateAdvances`: `Spec => DurableStateAdvances`**:
the term on disk never goes back, the vote of a term is never changed once given, and the entries up to the saved commit index
stay in the saved log as they are. The saved commit index itself may go back: a node that restarts with `applied = 0` is given its
committed entries in pages, and the next HardState that it saves is clamped to the page (raft.cc:1127-1131). A `Ready` overwrites the disk with what is in memory, so the
disk must lie behind the memory: `CommitsInv` says so of the commit index and the committed entries, in addition to
`ElectionInv`, which says it of the term and the vote. Each move keeps the commit index and what lies
below it (`MoveKeeps`), because `maybeAppend` stops on a conflict with a committed entry.

**`LogsMatch`: `Spec => []LogMatching`**: two logs with the same term at an
index are equal up to there. The proof takes logs apart into *facts*: the entry at an index
together with the term of the entry before it. `LogsInv` says that

* the facts of all logs, in memory, on disk and in the `MsgApp`s under way, are functional: the
  index and the term of an entry determine the entry and the term before it;
* the log of a leader is at least as long as any fact of its term is high, so what it appends is new;
* the term of a fact was led by a node that will not stand for it again (`Led`), and unless
  that node alone has the fact in memory, its disk says so as well (`Safe`). A node that is the only voter
  leads before its term is saved; if it crashes it leads the same term again, with other entries.

Two logs with equal terms at an index then have the same fact there, so equal terms at the index
before, and so on down (`FactsMatch`). A crash keeps `LogsInv` by the third part, and
so does a won election: no other node has led the term, so no fact has it yet.

**`CommitsAgree`, `LeadersComplete`, `CommitsDurable`, `MatchesDurable`**: `Spec` implies
`[]StateMachineSafety`, `[]LeaderCompleteness`, `[]CommitIsDurable` and `[]MatchIsDurable`, if there are two
voters or more. That is needed too: a sole voter commits what it appends before it has saved it
(`appendEntry` calls `maybeCommit`), and after a crash commits something else. All four follow from one
invariant, `HistoryInv` (`Histories`). It says that there is a *history* `H`, where `H[t]` is the log
of the leader of term `t` as far as it has come, also if that leader is long gone, such that

* every entry of a log, in memory, on disk or in `H`, is the one that the leader of its term has there, with all
  that comes before it (`Faithful`);
* a `MsgApp` and a positive `MsgAppResp` are *promises* of their sender to have the leader's log up to an index
  (`Promise`, `Reach`). The sender holds what it promised, in memory and on disk, until a later leader has other entries there
  (`Holds`, `Lost`); and a `MsgApp` quotes the history (`Told`);
* an entry of the leader's own term that a quorum has promised to hold is `Chosen`; every commit index, in memory, on disk
  and in messages, lies at or below a chosen entry (`Committed`, `Known`). This is the term check of `maybeCommit`;
* a vote went to a candidate whose log is as up to date as all that the voter had promised by then (`Backed`). This is `isUpToDate`;
* whoever leads a term has a quorum behind it that has saved that term, so promises nothing to earlier leaders any more, and
  whose promises are in its log (`TermInv`).

The step that matters is the election (`WinsTerm`): the votes are backed, so the new leader's log has what
its voters have promised. A chosen entry has a quorum too, the two meet, and so, by the least later term
that could have lost it, no later leader is without a chosen entry (`ChosenStays`). Committed prefixes are prefixes of
the log of one leader, so they agree. The history is under an existential quantifier: it is part of the proof and not of the model;
each step of a leader extends it (`AppendHistory`), every other one keeps it.

**`RingAlwaysQueue`: `Spec => []RingIsQueue`** (ReplicationProofs), for every window size, logs, sizes
and network. That the ring holds the queue is not inductive: `add` and `freeTo` are right only for a ring whose
start and count lie within the capacity and whose buffer has grown far enough (`RingOK`), and for a `Progress` with the
fields it should have. `InStep(l)` adds these. `AddIsAppend` and `FreeToIsFreeTo` show that the two operations on a ring satisfying `RingOK`
are those on the queue, `EmptyRing` that a reset empties it; then one lemma per handler of the leader shows
that it keeps `InStep`. The actions of the follower and the network do not touch the window.

### What is only model-checked

* Of `Raft`: `NoPanic`, `ProgressConsistent` and `TransfereeIsUpToDate`, `VoteAfterPreVote`, `ActiveWasHeard` and
  `ReadIsFresh`. That the process does not abort rests on the history (a heartbeat's commit index lies within
  the log of its receiver) and on the flow control at once; the moves abstract from the windows, pre-votes, activity and
  read requests that the others are about.
* All of `Node`, with the refinement of `DurableLog`, and `Membership`. The safety of membership changes would need the history
  again, with the meeting of majorities of neighbouring configurations instead of those of one.
* Of `Replication`: `NoPanic` and `MatchIsHeld`.
* Liveness (`SavedCommitIsApplied`, `LoopEnds`, `FollowerCatchesUp`), which is out of the prover's reach.

## Not modelled

* The assignment of entries from a view of themselves (unstable.h:148, `GoSlice`), MemoryStorage used by two threads
  (memory_storage.cc:43) and the removal of the last voter while learners remain (raft.cc:821): the outcome is undefined.
* The filter of `RawNode::Step` (raw_node.cc:125): with it no election of several nodes could be won.
* Read states that Advance clears (raw_node.cc:212), and campaigns between the restoring of a snapshot and its Advance
  (raft.cc:512): `Node` has neither reads nor campaigns.
* The configuration in a snapshot, and changes that are cancelled by setting their node to 0.

Of no interest to the properties: the conversion of messages to bytes (generated code), logging,
status reports and error strings. `DisableProposalForwarding` is a constant of the
model and `FALSE` in all runs: `TRUE` only removes forwarded proposals. Reads with
`kReadOnlyLeaseBased` are modelled but not checked: their promise depends on clocks
that do not drift.
