-------------------------------- MODULE Raft --------------------------------
(***************************************************************************)
(* A cluster of yaraft nodes with a fixed membership: class Raft on every  *)
(* node, the stable storage and the Ready loop of the application around   *)
(* it, and a network that may lose, delay, reorder and duplicate messages. *)
(*                                                                         *)
(* raft[i] is the Raft object of node i.  A method that changes the object *)
(* is an operator from such a record to the changed record, and a call of  *)
(* Raft::Step or Raft::tick is one action, everything the handler does     *)
(* included.  Nothing is compacted, so no snapshot is ever sent.           *)
(***************************************************************************)
EXTENDS RaftState, ReadOnly

-----------------------------------------------------------------------------
(* Messages: one record type, built from Message(type, to) like the        *)
(* fluent setters of idl::Message.                                         *)

(* An entry as it is proposed; the leader that appends it sets its term.   *)
NewEntry(data) == [term |-> 0, data |-> data]

Message(type, to) ==
  [type |-> type, to |-> to, from |-> None, term |-> 0, logterm |-> 0,
   index |-> 0, entries |-> <<>>, commit |-> 0, reject |-> FALSE,
   rejecthint |-> 0, context |-> None]

voteRespMsgType(type) ==
  IF type = "MsgVote" THEN "MsgVoteResp" ELSE "MsgPreVoteResp"

(* What send() attaches: proposals and read requests stay without a term,  *)
(* campaign messages bring their own.                                      *)
stampedBug(r, m) ==              \* the sender is forgotten
  [m EXCEPT !.term = IF m.type \in VoteType \cup VoteRespType
                                  \cup {"MsgProp", "MsgReadIndex"}
                     THEN @ ELSE r.term]

stamped(r, m) ==
  [m EXCEPT !.from = r.id,
            !.term = IF m.type \in VoteType \cup VoteRespType
                                  \cup {"MsgProp", "MsgReadIndex"}
                     THEN @ ELSE r.term]

sendAll(r, ms) ==
  [panicIf(r, \E m \in ms :
                (m.term = 0) <=> (m.type \in VoteType \cup VoteRespType))
     EXCEPT !.msgs = @ \cup {stamped(r, m) : m \in ms}]

send(r, m) == sendAll(r, {m})

-----------------------------------------------------------------------------
(* Roles                                                                   *)

promotable(r) == r.id \in voters(r)

NoVotes == [j \in Server |-> "unknown"]

(* The randomized election timeout is drawn where it is read: TickElection *)
resetBug(r, t) ==                \* the vote is dropped in the same term too
  [r EXCEPT
     !.term = t, !.vote = None, !.lead = None,
     !.electionElapsed = 0, !.heartbeatElapsed = 0,
     !.leadTransferee = None, !.votes = NoVotes,
     !.prs = [j \in DOMAIN @ |->
                NewProgress(lastIndex(r) + 1,
                            IF j = r.id THEN lastIndex(r) ELSE 0,
                            @[j].isLearner)],
     !.readOnly = <<>>]

reset(r, t) ==
  [r EXCEPT
     !.term = t,
     !.vote = IF r.term # t THEN None ELSE @,
     !.lead = None,
     !.electionElapsed = 0,
     !.heartbeatElapsed = 0,
     !.leadTransferee = None,
     !.votes = NoVotes,
     !.prs = [j \in DOMAIN @ |->
                NewProgress(lastIndex(r) + 1,
                            IF j = r.id THEN lastIndex(r) ELSE 0,
                            @[j].isLearner)],
     !.readOnly = <<>>]

becomeFollower(r, t, lead) ==
  [reset(r, t) EXCEPT !.lead = lead, !.state = "Follower"]

becomeCandidate(r) ==
  [reset(panicIf(r, r.state = "Leader"), r.term + 1)
     EXCEPT !.vote = r.id, !.state = "Candidate"]

(* Changes neither term, nor vote, nor the known leader.                   *)
becomePreCandidate(r) ==
  [panicIf(r, r.state = "Leader")
     EXCEPT !.votes = NoVotes, !.state = "PreCandidate"]

(* The highest index that a quorum of the voters has reached.              *)
quorumIndexBug(r) ==             \* one position off
  Max({n \in {r.prs[j].match : j \in voters(r)} :
         Cardinality({j \in voters(r) : r.prs[j].match >= n}) >= quorum(r) - 1})

quorumIndex(r) ==
  Max({n \in {r.prs[j].match : j \in voters(r)} :
         Cardinality({j \in voters(r) : r.prs[j].match >= n}) >= quorum(r)})

maybeCommit(r) == maybeCommitLog(r, quorumIndex(r), r.term)

appendEntry(r, es) ==
  LET r1 == append(r, lastIndex(r),
                   [k \in 1..Len(es) |-> [es[k] EXCEPT !.term = r.term]])
  IN  maybeCommit([r1 EXCEPT !.prs[r.id] = maybeUpdate(@, lastIndex(r1))])

becomeLeader(r) ==
  appendEntry([reset(panicIf(r, r.state = "Follower"), r.term)
                 EXCEPT !.lead = r.id, !.state = "Leader"],
              <<NewEntry(EmptyData)>>)

-----------------------------------------------------------------------------
(* Replication                                                             *)

appMsg(r, to, next) ==
  [Message("MsgApp", to) EXCEPT
     !.index   = next - 1,
     !.logterm = term(r, next - 1),
     !.entries = entries(r, next, MaxSize),
     !.commit  = r.committed]

(* The progress after a MsgApp with the entries up to `last' was sent.     *)
sentAppend(pr, last) ==
  IF last < pr.next THEN pr
  ELSE IF pr.state = "Replicate"
       THEN [optimisticUpdate(pr, last) EXCEPT !.ins = Append(@, last)]
       ELSE pause(pr)

chunkEnd(r, pr, k) == StdMin(pr.next - 1 + k * MaxSize, lastIndex(r))

(* sendAppend to every node of S that is not paused.                       *)
sendAppends(r, S) ==
  LET ready == {j \in S : ~IsPaused(r.prs[j])}
  IN  sendAll([r EXCEPT !.prs = [j \in DOMAIN @ |->
                 IF j \in ready THEN sentAppend(@[j], chunkEnd(r, @[j], 1))
                                ELSE @[j]]],
              {appMsg(r, j, r.prs[j].next) : j \in ready})

sendAppend(r, to) == sendAppends(r, {to})

bcastAppend(r) == sendAppends(r, DOMAIN r.prs \ {r.id})

(* while (maybeSendAppend(to, false)): one message when probing, as many   *)
(* as the window takes when replicating.                                   *)
roundsLeft(r, pr) ==
  LET left == lastIndex(r) + 1 - pr.next
  IN  IF IsPaused(pr) \/ left <= 0 THEN 0
      ELSE IF pr.state = "Replicate"
           THEN StdMin(MaxInflight - Len(pr.ins),
                       (left + MaxSize - 1) \div MaxSize)
           ELSE 1

sendRemaining(r, to) ==
  LET pr   == r.prs[to]
      n    == roundsLeft(r, pr)
      sent == [k \in 1..n |-> chunkEnd(r, pr, k)]
      pr1  == IF n = 0 THEN pr
              ELSE IF pr.state = "Replicate"
                   THEN [optimisticUpdate(pr, chunkEnd(r, pr, n))
                           EXCEPT !.ins = @ \o sent]
                   ELSE pause(pr)
  IN  sendAll([r EXCEPT !.prs[to] = pr1],
              {appMsg(r, to, chunkEnd(r, pr, k - 1) + 1) : k \in 1..n})

bcastHeartbeatWithCtx(r, ctx) ==
  sendAll(r, {[Message("MsgHeartbeat", j) EXCEPT
                 !.commit  = StdMin(r.prs[j].match, r.committed),
                 !.context = ctx] : j \in DOMAIN r.prs \ {r.id}})

bcastHeartbeat(r) ==
  bcastHeartbeatWithCtx(r, IF r.readOnly = <<>> THEN None
                           ELSE r.readOnly[Len(r.readOnly)].ctx)

handleHeartbeat(r, m) ==
  send(commitTo(r, m.commit),
       [Message("MsgHeartbeatResp", m.from) EXCEPT !.context = m.context])

handleAppendEntries(r, m) ==
  LET resp == Message("MsgAppResp", m.from)
  IN  IF m.index < r.committed
      THEN send(r, [resp EXCEPT !.index = r.committed])
      ELSE IF matchTerm(r, m.index, m.logterm)
      THEN send(maybeAppend(r, m.index, m.commit, m.entries),
                [resp EXCEPT !.index = m.index + Len(m.entries)])
      ELSE send(r, [resp EXCEPT !.index = m.index, !.reject = TRUE,
                                !.rejecthint = lastIndex(r)])

-----------------------------------------------------------------------------
(* Elections                                                               *)

(* Only the first answer of a node counts.                                 *)
poll(r, id, granted) ==
  IF r.votes[id] # "unknown" THEN r
  ELSE [r EXCEPT !.votes[id] = IF granted THEN "granted" ELSE "rejected"]

votesRejected(r) == Cardinality({j \in Server : r.votes[j] = "rejected"})

voteMsgs(r, type, t, ctx) ==
  {[Message(type, j) EXCEPT !.term = t, !.index = lastIndex(r),
                            !.logterm = lastTerm(r), !.context = ctx] :
     j \in voters(r) \ {r.id}}

(* campaign(campaignElection) and campaign(campaignTransfer)               *)
campaign(r, ctx) ==
  LET r1 == becomeCandidate(r)
      r2 == poll(r1, r.id, TRUE)
  IN  IF votesGranted(r2) = quorum(r2) THEN becomeLeader(r2)
      ELSE sendAll(r2, voteMsgs(r2, "MsgVote", r2.term, ctx))

(* campaign(campaignPreElection)                                           *)
preCampaign(r) ==
  LET r1 == poll(becomePreCandidate(r), r.id, TRUE)
  IN  IF votesGranted(r1) = quorum(r1) THEN campaign(r1, None)
      ELSE sendAll(r1, voteMsgs(r1, "MsgPreVote", r1.term + 1, None))

(* MsgHup; no entry is a configuration change, so none is pending.         *)
hupBug(r) ==                     \* a leader campaigns
  IF PreVote THEN preCampaign(r) ELSE campaign(r, None)

hupBug2(r) ==                    \* PreVote is ignored
  IF r.state = "Leader" THEN r ELSE campaign(r, None)

hup(r) ==
  IF r.state = "Leader" THEN r
  ELSE IF PreVote THEN preCampaign(r) ELSE campaign(r, None)

(* MsgVote and MsgPreVote                                                  *)
canVoteBug(r, m) ==              \* an earlier vote is ignored
  \/ r.lead = None
  \/ m.type = "MsgPreVote" /\ m.term > r.term

canVote(r, m) ==
  \/ r.vote = m.from
  \/ r.vote = None /\ r.lead = None
  \/ m.type = "MsgPreVote" /\ m.term > r.term

handleVote(r, m) ==
  LET resp == Message(voteRespMsgType(m.type), m.from)
      cast == send(r, [resp EXCEPT !.term = m.term])
  IN  IF r.prs[r.id].isLearner THEN r
      ELSE IF ~(canVote(r, m) /\ isUpToDate(r, m.index, m.logterm))
      THEN send(r, [resp EXCEPT !.term = r.term, !.reject = TRUE])
      ELSE IF m.type = "MsgVote"
      THEN [cast EXCEPT !.electionElapsed = 0, !.vote = m.from]
      ELSE cast

handleVoteResp(r, m) ==
  LET r1 == poll(r, m.from, ~m.reject)
  IN  IF votesGranted(r1) = quorum(r1)
      THEN IF r1.state = "PreCandidate" THEN campaign(r1, None)
                                        ELSE bcastAppend(becomeLeader(r1))
      ELSE IF votesRejected(r1) = quorum(r1)
      THEN becomeFollower(r1, r1.term, None)
      ELSE r1

-----------------------------------------------------------------------------
(* The leader's handlers                                                   *)

checkQuorumActive(r) ==
  Cardinality({j \in DOMAIN r.prs :
                 j = r.id \/ (r.prs[j].recentActive /\ ~r.prs[j].isLearner)})
    >= quorum(r)

(* MsgCheckQuorum: forgets who was active, and steps down without quorum.  *)
checkQuorum(r) ==
  LET active(j) == r.prs[j].recentActive /\ j = r.id
      r1 == [r EXCEPT !.prs = [j \in DOMAIN r.prs |->
               [r.prs[j] EXCEPT !.recentActive = active(j)]]]
  IN  IF checkQuorumActive(r) THEN r1 ELSE becomeFollower(r1, r1.term, None)

tickHeartbeat(r) ==
  LET timedOut == r.electionElapsed + 1 >= ElectionTick
      r1 == [r EXCEPT !.heartbeatElapsed = @ + 1,
                      !.electionElapsed = IF timedOut THEN 0 ELSE @ + 1]
      r2 == IF timedOut /\ CheckQuorum THEN checkQuorum(r1) ELSE r1
      r3 == IF timedOut /\ r2.state = "Leader"
            THEN [r2 EXCEPT !.leadTransferee = None] ELSE r2
  IN  IF r3.state = "Leader" /\ r3.heartbeatElapsed >= HeartbeatTick
      THEN bcastHeartbeat([r3 EXCEPT !.heartbeatElapsed = 0]) ELSE r3

(* Is the proposal of a leader appended, or dropped?                       *)
acceptsProposal(r) == promotable(r) /\ r.leadTransferee = None

sendTimeoutNow(r, to) == send(r, Message("MsgTimeoutNow", to))

(* MsgAppResp                                                              *)
handleAppRejected(r, m) ==
  LET pr  == [r.prs[m.from] EXCEPT !.recentActive = TRUE]
      pr1 == maybeDecrTo(pr, m.index, m.rejecthint)
      pr2 == IF pr1.state = "Replicate" THEN becomeProbe(pr1) ELSE pr1
  IN  IF Decreases(pr, m.index)
      THEN sendAppend([r EXCEPT !.prs[m.from] = pr2], m.from)
      ELSE [r EXCEPT !.prs[m.from] = pr]

handleAppAccepted(r, m) ==
  LET pr  == [r.prs[m.from] EXCEPT !.recentActive = TRUE]
      pr1 == maybeUpdate(pr, m.index)
      pr2 == IF pr1.state = "Probe" THEN becomeReplicate(pr1)
             ELSE IF needSnapshotAbort(pr1) THEN becomeProbe(pr1)
             ELSE IF pr1.state = "Replicate"
             THEN [pr1 EXCEPT !.ins = freeTo(@, m.index)]
             ELSE pr1
      r2  == maybeCommit([r EXCEPT !.prs[m.from] = pr2])
      r3  == IF r2.committed # r.committed THEN bcastAppend(r2)
             ELSE IF IsPaused(pr) THEN sendAppend(r2, m.from)
             ELSE r2
      r4  == sendRemaining(r3, m.from)
  IN  IF ~Updates(pr, m.index) THEN [r EXCEPT !.prs[m.from] = pr1]
      ELSE IF m.from = r4.leadTransferee /\ r4.prs[m.from].match = lastIndex(r4)
      THEN sendTimeoutNow(r4, m.from)
      ELSE r4

(* Answers confirmed read requests: to the local application through       *)
(* readStates_, or to the node that forwarded the request.                 *)
respondReads(r, requests) ==
  LET isLocal(q) == q.from \in {None, r.id}
  IN  sendAll([r EXCEPT !.readStates = @ \cup
                 {[ctx |-> q.ctx, index |-> q.index] :
                    q \in {q \in requests : isLocal(q)}}],
              {[Message("MsgReadIndexResp", q.from)
                  EXCEPT !.index = q.index, !.context = q.ctx] :
                    q \in {q \in requests : ~isLocal(q)}})

handleHeartbeatResp(r, m) ==
  LET pr  == [resume(r.prs[m.from]) EXCEPT !.recentActive = TRUE]
      pr1 == IF pr.state = "Replicate" /\ full(pr.ins)
             THEN [pr EXCEPT !.ins = freeFirstOne(@)] ELSE pr
      r1  == [r EXCEPT !.prs[m.from] = pr1]
      r2  == IF pr1.match < lastIndex(r) THEN sendAppend(r1, m.from) ELSE r1
      acked == recvAck(r2.readOnly, m.from, m.context)
      done  == advanced(acked, m.context)
  IN  IF ReadOnlyOption # "Safe" \/ m.context = None THEN r2
      ELSE IF ackCount(acked, m.context) < quorum(r)
      THEN [r2 EXCEPT !.readOnly = acked]
      ELSE respondReads([r2 EXCEPT !.readOnly = advance(acked, m.context)],
                        {done[k] : k \in 1..Len(done)})

(* MsgReadIndex                                                            *)
handleReadIndexBug(r, from, ctx) ==     \* of whichever term the commit is
  bcastHeartbeatWithCtx(
    [r EXCEPT !.readOnly = addRequest(@, r.committed, from, ctx)], ctx)

handleReadIndex(r, from, ctx) ==
  LET req == ReadIndexStatus(ctx, r.committed, from)
  IN  IF quorum(r) = 1
      THEN [r EXCEPT !.readStates = @ \cup {[ctx |-> ctx, index |-> r.committed]}]
      ELSE IF term(r, r.committed) # r.term THEN r
      ELSE IF ReadOnlyOption = "LeaseBased" THEN respondReads(r, {req})
      ELSE bcastHeartbeatWithCtx(
             [r EXCEPT !.readOnly = addRequest(@, r.committed, from, ctx)], ctx)

(* MsgTransferLeader: m.from is the node that shall lead.                  *)
handleTransferLeaderBug(r, transferee) ==       \* nobody waits for the log
  IF transferee = r.id THEN r
  ELSE sendTimeoutNow([r EXCEPT !.leadTransferee = transferee], transferee)

handleTransferLeader(r, transferee) ==
  LET r1 == [r EXCEPT !.electionElapsed = 0, !.leadTransferee = transferee]
  IN  IF r.prs[transferee].isLearner \/ r.leadTransferee = transferee THEN r
      ELSE IF transferee = r.id THEN [r EXCEPT !.leadTransferee = None]
      ELSE IF r.prs[transferee].match = lastIndex(r)
      THEN sendTimeoutNow(r1, transferee)
      ELSE sendAppend(r1, transferee)

-----------------------------------------------------------------------------
(* Step: what a message does to the node, whatever its type.               *)

(* The term of the message is handled first: a higher term makes the node  *)
(* a follower, unless a pre-vote is asked for or granted.                  *)
stepTerm(r, m) ==
  IF \/ m.term <= r.term
     \/ m.type = "MsgPreVote"
     \/ m.type = "MsgPreVoteResp" /\ ~m.reject
  THEN r
  ELSE becomeFollower(r, m.term,
         IF m.type \in {"MsgApp", "MsgHeartbeat"} THEN m.from ELSE None)

inLease(r, m) ==
  /\ m.type \in VoteType /\ m.term > r.term
  /\ CheckQuorum /\ r.lead # None /\ r.electionElapsed < ElectionTick
  /\ m.context # CampaignTransfer

(* A message of an earlier term.                                           *)
handleLowerTerm(r, m) ==
  IF (CheckQuorum \/ PreVote) /\ m.type \in {"MsgHeartbeat", "MsgApp"}
  THEN send(r, Message("MsgAppResp", m.from))
  ELSE IF m.type = "MsgPreVote"
  THEN send(r, [Message("MsgPreVoteResp", m.from) EXCEPT
                  !.term = r.term, !.reject = TRUE])
  ELSE r

(* The leader of the term was heard: a candidate gives up.                 *)
followLeader(r, m) ==
  IF r.state = "Follower"
  THEN [r EXCEPT !.electionElapsed = 0, !.lead = m.from]
  ELSE becomeFollower(r, m.term, m.from)

(* MsgProp                                                                 *)
handleProp(r, es) ==
  IF r.state = "Leader"
  THEN IF acceptsProposal(r) THEN bcastAppend(appendEntry(r, es)) ELSE r
  ELSE IF r.state = "Follower" /\ r.lead # None /\ ~DisableProposalForwarding
  THEN send(r, [Message("MsgProp", r.lead) EXCEPT !.entries = es])
  ELSE r

-----------------------------------------------------------------------------
(* The Ready loop and the life of a node                                   *)

hardState(r) == [term |-> r.term, vote |-> r.vote, commit |-> r.committed]

(* Raft::New on storage st; the application has applied `applied' entries. *)
newRaft(i, st, applied) ==
  LET fresh  == [id |-> i, term |-> 0, vote |-> None, state |-> "Follower",
                 lead |-> None, votes |-> NoVotes, leadTransferee |-> None,
                 electionElapsed |-> 0, heartbeatElapsed |-> 0,
                 prs |-> [j \in Server |-> NewProgress(1, 0, j \in Learner)],
                 readOnly |-> <<>>, readStates |-> {}, log |-> st.log,
                 committed |-> 0, applied |-> 0, msgs |-> {}, panic |-> FALSE]
      loaded == [panicIf(fresh, st.hardState.commit > Len(st.log)) EXCEPT
                   !.committed = st.hardState.commit,
                   !.term = st.hardState.term, !.vote = st.hardState.vote]
  IN  becomeFollower(appliedTo(loaded, applied), st.hardState.term, None)

(* A change of the soft state alone has no effect on the application.      *)
HasReady(i) ==
  LET r == raft[i]
  IN  \/ hardState(r) # storage[i].hardState
      \/ r.log # storage[i].log
      \/ r.msgs # {}
      \/ r.committed > r.applied
      \/ r.readStates # {}

(* newReady's HardState: a changed one is clamped to the committed entries *)
(* that the Ready holds.  prevHardSt_ is what was last saved.              *)
readyHardState(r, prev) ==
  LET last == lastOfNextEnts(r, MaxSize)
  IN  IF hardState(r) = prev THEN prev
      ELSE IF last > r.applied THEN [hardState(r) EXCEPT !.commit = last]
      ELSE hardState(r)

-----------------------------------------------------------------------------
(* Actions                                                                 *)

Init ==
  /\ storage = [i \in Server |-> EmptyStorage]
  /\ raft = [i \in Server |-> newRaft(i, EmptyStorage, 0)]
  /\ network = {}
  /\ spent = [k \in InputKind |-> 0]
  /\ readBound = [c \in ReadCtx |-> None]

(* Without Batching every Step is followed by its Ready.  The other nodes  *)
(* wait for it, which loses no behaviour: until its Ready, what a node did *)
(* is seen by nobody, and a crash before it undoes it.                     *)
CanStep(i) ==
  /\ ~raft[i].panic
  /\ Batching \/ \A j \in Server : raft[j].panic \/ ~HasReady(j)

Spend(kind) ==
  /\ spent[kind] < Budget[kind]
  /\ spent' = [spent EXCEPT ![kind] = @ + 1]

(* tickElection.  The randomized timeout is between ElectionTick and       *)
(* 2 * ElectionTick - 1: a tick that reaches the first may campaign, one   *)
(* that reaches the second must.  A learner only counts, and nothing tells *)
(* its counts from ElectionTick on apart.                                  *)
TickElectionIdle(i) ==
  /\ CanStep(i) /\ raft[i].state # "Leader"
  /\ raft[i].electionElapsed < IF promotable(raft[i]) THEN 2 * ElectionTick - 2
                                                      ELSE ElectionTick
  /\ Update(i, [raft[i] EXCEPT !.electionElapsed = @ + 1])
  /\ UNCHANGED <<storage, network, spent, readBound>>

TickElectionHup(i) ==
  /\ CanStep(i) /\ raft[i].state # "Leader" /\ promotable(raft[i])
  /\ raft[i].electionElapsed + 1 >= ElectionTick
  /\ Spend("hup")
  /\ Update(i, hup([raft[i] EXCEPT !.electionElapsed = 0]))
  /\ UNCHANGED <<storage, network, readBound>>

(* RawNode::Campaign                                                       *)
Campaign(i) ==
  /\ CanStep(i) /\ i \in Campaigner
  /\ Spend("hup")
  /\ Update(i, hup(raft[i]))
  /\ UNCHANGED <<storage, network, readBound>>

TickHeartbeat(i) ==
  /\ CanStep(i) /\ raft[i].state = "Leader"
  /\ Spend("beat")
  /\ Update(i, tickHeartbeat(raft[i]))
  /\ UNCHANGED <<storage, network, readBound>>

Propose(i, v) ==
  /\ CanStep(i) /\ lastIndex(raft[i]) < MaxLog
  /\ Update(i, handleProp(raft[i], <<NewEntry(v)>>))
  /\ UNCHANGED <<storage, network, spent, readBound>>

(* The message m is delivered to i and gets past the prologue of Step.     *)
Receive(i, m, types) ==
  /\ m.type \in types /\ m.to = i /\ m \in network
  /\ CanStep(i)
  /\ m.term = 0 \/ m.term >= raft[i].term
  /\ ~inLease(raft[i], m)
  /\ UNCHANGED <<storage, network, readBound>>
  /\ m.type \notin {"MsgApp", "MsgReadIndex"} => UNCHANGED spent

StepProp(i, m) ==
  /\ Receive(i, m, {"MsgProp"}) /\ lastIndex(raft[i]) < MaxLog
  /\ Update(i, handleProp(raft[i], m.entries))

StepVote(i, m) ==
  /\ Receive(i, m, VoteType)
  /\ Update(i, handleVote(stepTerm(raft[i], m), m))

StepVoteResp(i, m) ==
  LET r == stepTerm(raft[i], m)
  IN  /\ Receive(i, m, VoteRespType)
      /\ Update(i, IF \/ r.state = "PreCandidate" /\ m.type = "MsgPreVoteResp"
                      \/ r.state = "Candidate" /\ m.type = "MsgVoteResp"
                   THEN handleVoteResp(r, m) ELSE r)

StepApp(i, m) ==
  LET r == stepTerm(raft[i], m)
  IN  /\ Receive(i, m, {"MsgApp"}) /\ Spend("app")
      /\ Update(i, IF r.state = "Leader" THEN r
                   ELSE handleAppendEntries(followLeader(r, m), m))

StepHeartbeat(i, m) ==
  LET r == stepTerm(raft[i], m)
  IN  /\ Receive(i, m, {"MsgHeartbeat"})
      /\ Update(i, IF r.state = "Leader" THEN r
                   ELSE handleHeartbeat(followLeader(r, m), m))

StepAppResp(i, m) ==
  LET r == stepTerm(raft[i], m)
  IN  /\ Receive(i, m, {"MsgAppResp"})
      /\ Update(i, IF r.state # "Leader" THEN r
                   ELSE IF m.reject THEN handleAppRejected(r, m)
                   ELSE handleAppAccepted(r, m))

StepHeartbeatResp(i, m) ==
  LET r == stepTerm(raft[i], m)
  IN  /\ Receive(i, m, {"MsgHeartbeatResp"})
      /\ Update(i, IF r.state # "Leader" THEN r ELSE handleHeartbeatResp(r, m))

(* MsgUnreachable from j: a MsgApp to j may well be lost.                  *)
ReportUnreachable(i, j) ==
  /\ CanStep(i) /\ raft[i].state = "Leader"
  /\ raft[i].prs[j].state = "Replicate"
  /\ Spend("unreachable")
  /\ Update(i, [raft[i] EXCEPT !.prs[j] = becomeProbe(@)])
  /\ UNCHANGED <<storage, network, readBound>>

(* MsgTransferLeader, from the application and from another node: a        *)
(* follower passes it on, and send makes it a message from itself.         *)
stepTransferLeader(r, m) ==
  IF r.state = "Leader" THEN handleTransferLeader(r, m.from)
  ELSE IF r.state = "Follower" /\ r.lead # None
  THEN send(r, [m EXCEPT !.to = r.lead])
  ELSE r

TransferLeader(i, j) ==
  /\ CanStep(i)
  /\ Spend("transfer")
  /\ Update(i, stepTransferLeader(raft[i],
                 [Message("MsgTransferLeader", None) EXCEPT !.from = j]))
  /\ UNCHANGED <<storage, network, readBound>>

StepTransferLeader(i, m) ==
  /\ Receive(i, m, {"MsgTransferLeader"})
  /\ Update(i, stepTransferLeader(stepTerm(raft[i], m), m))

StepTimeoutNow(i, m) ==
  LET r == stepTerm(raft[i], m)
  IN  /\ Receive(i, m, {"MsgTimeoutNow"})
      /\ Update(i, IF r.state = "Follower" /\ promotable(r)
                   THEN campaign(r, CampaignTransfer) ELSE r)

stepReadIndex(r, from, ctx) ==
  IF r.state = "Leader" THEN handleReadIndex(r, from, ctx)
  ELSE IF r.state = "Follower" /\ r.lead # None
  THEN send(r, [Message("MsgReadIndex", r.lead) EXCEPT !.context = ctx])
  ELSE r

(* The contexts of an application's requests are distinct.                 *)
ReadIndex(i, ctx) ==
  /\ CanStep(i) /\ readBound[ctx] = None
  /\ readBound' = [readBound EXCEPT ![ctx] =
                     Max({raft[j].committed : j \in Server})]
  /\ Update(i, stepReadIndex(raft[i], None, ctx))
  /\ UNCHANGED <<storage, network, spent>>

StepReadIndex(i, m) ==
  /\ Receive(i, m, {"MsgReadIndex"}) /\ Spend("readindex")
  /\ Update(i, stepReadIndex(raft[i], m.from, m.context))

StepReadIndexResp(i, m) ==
  LET r == stepTerm(raft[i], m)
  IN  /\ Receive(i, m, {"MsgReadIndexResp"})
      /\ Update(i, IF r.state # "Follower" THEN r
                   ELSE [r EXCEPT !.readStates = @ \cup
                           {[ctx |-> m.context, index |-> m.index]}])

StepLowerTerm(i, m) ==
  /\ m.term # 0 /\ m.term < raft[i].term
  /\ m.to = i /\ m \in network /\ CanStep(i)
  /\ Update(i, handleLowerTerm(raft[i], m))
  /\ UNCHANGED <<storage, network, spent, readBound>>

(* GetReady, what the application owes it, and Advance: entries and        *)
(* HardState are saved before the messages leave, and the entries up to    *)
(* the saved commit index count as applied.                                *)
Ready(i) ==
  LET r  == raft[i]
      hs == readyHardState(r, storage[i].hardState)
  IN  /\ ~r.panic /\ HasReady(i)
      /\ storage' = [storage EXCEPT ![i] = [hardState |-> hs, log |-> r.log]]
      /\ network' = network \cup r.msgs
      /\ Update(i, [appliedTo(r, hs.commit) EXCEPT !.msgs = {}, !.readStates = {}])
      /\ UNCHANGED <<spent, readBound>>

(* The process ends, at any point, and a new one starts on the storage.    *)
Restart(i) ==
  /\ Spend("restart")
  /\ \E applied \in {0, storage[i].hardState.commit} :
       raft' = [raft EXCEPT ![i] = newRaft(i, storage[i], applied)]
  /\ UNCHANGED <<storage, network, readBound>>

Next ==
  \E i \in Server :
    \/ TickElectionIdle(i) \/ TickElectionHup(i) \/ Campaign(i)
    \/ TickHeartbeat(i)
    \/ \E v \in Value : Propose(i, v)
    \/ \E j \in Server : ReportUnreachable(i, j) \/ TransferLeader(i, j)
    \/ \E c \in ReadCtx : ReadIndex(i, c)
    \/ Ready(i) \/ Restart(i)
    \/ \E m \in network :
         \/ StepProp(i, m) \/ StepVote(i, m) \/ StepVoteResp(i, m)
         \/ StepApp(i, m) \/ StepAppResp(i, m)
         \/ StepHeartbeat(i, m) \/ StepHeartbeatResp(i, m)
         \/ StepTransferLeader(i, m) \/ StepTimeoutNow(i, m)
         \/ StepReadIndex(i, m) \/ StepReadIndexResp(i, m)
         \/ StepLowerTerm(i, m)

Spec == Init /\ [][Next]_vars

-----------------------------------------------------------------------------
(* Action properties                                                       *)

(* What a node has saved never goes back: not its term, not the vote it    *)
(* cast in a term, and not an entry it saved as committed.                 *)
DurableStateAdvances ==
  [][\A i \in Server :
       LET old == storage[i].hardState
           new == storage'[i].hardState
       IN  /\ old.term <= new.term
           /\ old.term = new.term /\ old.vote # None => new.vote = old.vote
           /\ Prefix(SubSeq(storage[i].log, 1, old.commit), storage'[i].log)
    ]_vars

(* A leader tells only a node that has saved the leader's whole log to     *)
(* take over, unless that node is in a later term already.                 *)
TransfereeIsUpToDate ==
  [][\A i \in Server : \A m \in raft'[i].msgs \ raft[i].msgs :
       /\ m.type = "MsgTimeoutNow"
       /\ storage[m.to].hardState.term <= m.term
       => Prefix(raft'[i].log, storage[m.to].log)
    ]_vars
=============================================================================
