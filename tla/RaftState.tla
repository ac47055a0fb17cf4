------------------------------ MODULE RaftState ------------------------------
(***************************************************************************)
(* The state of a cluster of yaraft nodes with a fixed membership, and     *)
(* what has to be true of it.  The operations are in module Raft.          *)
(***************************************************************************)
EXTENDS Integers, Sequences, FiniteSets, RaftLog, Progress

CONSTANTS
  Voter, Learner,        \* ids of the peers and of the learners
  None,                  \* kNone
  Value,                 \* data of the entries clients propose
  ReadCtx,               \* contexts of read-only requests
  Campaigner,            \* nodes whose application may call Campaign()
  ElectionTick, HeartbeatTick, MaxSize, PreVote, CheckQuorum,
  ReadOnlyOption, DisableProposalForwarding,      \* Config
  Batching,              \* may a node step again before its Ready is handled?
  MaxLog,                \* bound: no proposal is appended to a longer log
  Budget                 \* bound: how often each kind of input may occur

Server == Voter \cup Learner

(* Of the messages only the MsgApps and MsgReadIndexes that arrive are     *)
(* counted: the others answer something.                                   *)
InputKind ==
  {"hup", "beat", "app", "unreachable", "transfer", "readindex", "restart"}

ASSUME MembershipAssumption ==
  /\ IsFiniteSet(Voter) /\ Voter # {}
  /\ IsFiniteSet(Learner) /\ Voter \cap Learner = {}
  /\ None \notin Server
  /\ Campaigner \subseteq Server

(* What Config::Validate accepts.  A size is a number of entries: every    *)
(* entry counts one, and limitSize never returns less than one.            *)
ASSUME ConfigAssumption ==
  /\ HeartbeatTick \in Nat \ {0}
  /\ ElectionTick \in Nat /\ ElectionTick >= HeartbeatTick
  /\ MaxSize \in Nat \ {0}
  /\ {PreVote, CheckQuorum, DisableProposalForwarding} \subseteq BOOLEAN
  /\ ReadOnlyOption \in {"Safe", "LeaseBased"}
  /\ ReadOnlyOption = "LeaseBased" => CheckQuorum

ASSUME BoundsAssumption ==
  /\ Batching \in BOOLEAN
  /\ MaxLog \in Nat
  /\ Budget \in [InputKind -> Nat]

VARIABLES
  raft,       \* raft[i]: the Raft object of node i
  storage,    \* storage[i]: what node i finds again when it restarts
  network,    \* every message ever sent; any of them may still arrive
  spent,      \* how much of Budget is used up
  readBound   \* readBound[c]: the highest index committed anywhere when
              \* read request c was made, None before that

vars == <<raft, storage, network, spent, readBound>>

-----------------------------------------------------------------------------
(* Messages and storages                                                   *)

CampaignTransfer == "CampaignTransfer"
EmptyData == "EmptyData"

VoteType == {"MsgVote", "MsgPreVote"}
VoteRespType == {"MsgVoteResp", "MsgPreVoteResp"}

EmptyStorage ==
  [hardState |-> [term |-> 0, vote |-> None, commit |-> 0], log |-> <<>>]

(* A panic ends the process: of the object only the fact remains.          *)
Update(i, r) ==
  raft' = [raft EXCEPT ![i] = IF r.panic THEN [@ EXCEPT !.panic = TRUE] ELSE r]

-----------------------------------------------------------------------------
(* Who votes, and how the votes are counted                                *)

voters(r)     == {j \in DOMAIN r.prs : ~r.prs[j].isLearner}
quorumBug(r)  == Cardinality(voters(r)) \div 2
quorum(r)     == Cardinality(voters(r)) \div 2 + 1

votesGranted(r)  == Cardinality({j \in Server : r.votes[j] = "granted"})

-----------------------------------------------------------------------------
(* Types                                                                   *)

Entry == [term : Nat, data : Value \cup {EmptyData}]

MessageType ==
  VoteType \cup VoteRespType \cup
  {"MsgProp", "MsgApp", "MsgAppResp", "MsgHeartbeat", "MsgHeartbeatResp",
   "MsgTransferLeader", "MsgTimeoutNow", "MsgReadIndex", "MsgReadIndexResp"}

ReadType == {"MsgReadIndex", "MsgReadIndexResp"}

MsgFrom(sender) ==
  {m \in [type : MessageType, to : Server, from : sender, term : Nat,
          logterm : Nat, index : Nat, entries : Seq(Entry), commit : Nat,
          reject : BOOLEAN, rejecthint : Nat,
          context : ReadCtx \cup {None, CampaignTransfer}] :
     m.type \in ReadType => m.context \in ReadCtx}

Msg == MsgFrom(Server)

ReadRequest ==
  [ctx : ReadCtx, index : Nat, from : Server \cup {None}, acks : SUBSET Server]

RaftType ==
  [id : Server, term : Nat, vote : Server \cup {None},
   state : {"Follower", "PreCandidate", "Candidate", "Leader"},
   lead : Server \cup {None},
   votes : [Server -> {"unknown", "granted", "rejected"}],
   leadTransferee : Server \cup {None},
   electionElapsed : Nat, heartbeatElapsed : Nat,
   prs : [Server -> ProgressType],
   readOnly : Seq(ReadRequest),
   readStates : SUBSET [ctx : ReadCtx, index : Nat],
   log : Seq(Entry), committed : Nat, applied : Nat,
   msgs : SUBSET Msg, panic : BOOLEAN]

StorageType ==
  [hardState : [term : Nat, vote : Server \cup {None}, commit : Nat],
   log : Seq(Entry)]

(* Every variable has its type, and a node's record is that node's.        *)
TypeOK ==
  /\ raft \in [Server -> RaftType]
  /\ storage \in [Server -> StorageType]
  /\ network \subseteq Msg
  /\ spent \in [InputKind -> Nat]
  /\ readBound \in [ReadCtx -> Nat \cup {None}]
  /\ \A i \in Server : raft[i].id = i

-----------------------------------------------------------------------------
(* Safety                                                                  *)

(* No RAFT_LOG(PANIC), RAFT_PANIC or failed bound check of Raft, RaftLog   *)
(* and Progress is reachable: no node that keeps to the Ready protocol     *)
(* ever aborts, whatever the network and the crashes do.                   *)
NoPanic == \A i \in Server : ~raft[i].panic

Leads(i, t) ==
  \/ raft[i].state = "Leader" /\ raft[i].term = t
  \/ \E m \in network :
       /\ m.type \in {"MsgApp", "MsgHeartbeat", "MsgTimeoutNow"}
       /\ m.from = i /\ m.term = t

(* At most one node ever acts as leader in a term: not only no two nodes   *)
(* are in state kLeader at once, but no two send what only leaders send,   *)
(* so that a vote forgotten in a crash would show.                         *)
ElectionSafety ==
  \A i, j \in Server :
    \A t \in {raft[i].term} \cup {m.term : m \in network} :
      Leads(i, t) /\ Leads(j, t) => i = j

Logs == {raft[i].log : i \in Server} \cup {storage[i].log : i \in Server}

(* Two logs, in memory or saved, with an entry of the same index and term  *)
(* are equal up to it: what findConflict and maybeAppend rely on when they *)
(* compare terms only.                                                     *)
LogMatching ==
  \A l, k \in Logs :
    \A n \in 1..StdMin(Len(l), Len(k)) :
      l[n].term = k[n].term => SubSeq(l, 1, n) = SubSeq(k, 1, n)

CommittedLog(i) == SubSeq(raft[i].log, 1, raft[i].committed)

Prefix(s, t) == Len(s) <= Len(t) /\ SubSeq(t, 1, Len(s)) = s

(* Nodes agree on what is committed, however far each one has come.        *)
StateMachineSafety ==
  \A i, j \in Server :
    \/ Prefix(CommittedLog(i), CommittedLog(j))
    \/ Prefix(CommittedLog(j), CommittedLog(i))

(* A leader has every entry that some node knows to be committed, unless   *)
(* that node has moved on to a later term: the up-to-date check of the     *)
(* vote and the term check of maybeCommit together.                        *)
LeaderCompleteness ==
  \A i, j \in Server :
    raft[i].state = "Leader" /\ raft[j].term <= raft[i].term
      => Prefix(CommittedLog(j), raft[i].log)

IsQuorum(Q) == 2 * Cardinality(Q \cap Voter) > Cardinality(Voter)

(* What a node saved as committed is on the disks of a quorum of voters,   *)
(* so no crash can lose what an application was given.                     *)
CommitIsDurable ==
  \A i \in Server :
    LET done == SubSeq(storage[i].log, 1, storage[i].hardState.commit)
    IN  IsQuorum({j \in Voter : Prefix(done, storage[j].log)})

(* match_ promises that a follower has saved the leader's log that far: it *)
(* answers in the Ready that saves the entries, and a follower that has    *)
(* not moved on keeps them, in spite of restarts and delayed MsgApps.      *)
MatchIsDurable ==
  \A i, j \in Server :
    /\ raft[i].state = "Leader" /\ i # j
    /\ storage[j].hardState.term <= raft[i].term
    => Prefix(SubSeq(raft[i].log, 1, raft[i].prs[j].match), storage[j].log)

(* What a leader records of a follower is consistent: match_ and next_ stay *)
(* within the log, and while replicating the window, never overfull, holds *)
(* in increasing order messages that end between the two.                  *)
ProgressConsistent ==
  \A i, j \in Server :
    LET pr == raft[i].prs[j]
    IN  raft[i].state = "Leader" =>
          /\ pr.match <= lastIndex(raft[i])
          /\ pr.next \in 1..lastIndex(raft[i]) + 1
          /\ IF pr.state = "Replicate" THEN pr.match < pr.next ELSE pr.ins = <<>>
          /\ Len(pr.ins) <= MaxInflight
          /\ \A k \in 1..Len(pr.ins) : pr.match < pr.ins[k] /\ pr.ins[k] < pr.next
          /\ \A k \in 2..Len(pr.ins) : pr.ins[k - 1] < pr.ins[k]

(* A leader counts a node as active, for CheckQuorum, only if that node    *)
(* answered it in this very term.                                          *)
ActiveWasHeard ==
  \A i, j \in Server :
    raft[i].state = "Leader" /\ i # j /\ raft[i].prs[j].recentActive =>
      \E m \in network : /\ m.from = j /\ m.to = i /\ m.term = raft[i].term
                         /\ m.type \in {"MsgAppResp", "MsgHeartbeatResp"}

(* The answer to a read request is not older than what was committed       *)
(* anywhere when the request was made, although the node that answers may  *)
(* have been deposed without knowing it (linearizable reads).              *)
ReadIsFresh ==
  /\ \A i \in Server : \A rs \in raft[i].readStates : rs.index >= readBound[rs.ctx]
  /\ \A m \in network :
       m.type = "MsgReadIndexResp" => m.index >= readBound[m.context]

(* With PreVote, a vote is asked for only by a node to which a quorum has  *)
(* granted a pre-vote, so that a node cut off from the others does not     *)
(* push their terms up.                                                    *)
VoteAfterPreVote ==
  \A m \in network :
    PreVote /\ m.type = "MsgVote" /\ m.context = None =>
      IsQuorum({m.from} \cup
               {p.from : p \in {p \in network :
                  /\ p.type = "MsgPreVoteResp" /\ ~p.reject
                  /\ p.to = m.from /\ p.term <= m.term}})
=============================================================================
