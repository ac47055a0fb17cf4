---------------------------- MODULE Membership ----------------------------
(***************************************************************************)
(* Membership changes: ProposeConfChange on the leader, ApplyConfChange on *)
(* every server that reaches the committed entry, and the elections and    *)
(* the commits that are decided meanwhile by servers whose configurations  *)
(* (prs_ and learnerPrs_) are at different points of the log.              *)
(*                                                                         *)
(* Flow control is the subject of module Replication, so here the leader   *)
(* may at any time send all that follows a follower's match, or nothing.   *)
(* Only a rise of its term can come between a server and a MsgApp of its   *)
(* leader, and then the MsgApp is ignored: one that is delayed does what   *)
(* it would have done when it was sent.  MsgApps and MsgHeartbeats are     *)
(* therefore delivered at once or lost, and so are the answers (an answer  *)
(* that would change nothing is never counted as lost).  MsgVotes and      *)
(* MsgTimeoutNows are never consumed: each may arrive at any later time,   *)
(* any number of times or never.  Pre-vote and checkQuorum are off.        *)
(***************************************************************************)
EXTENDS Naturals, Sequences, FiniteSets, FiniteSetsExt

CONSTANTS Server,       \* the ids of the servers
          None,         \* kNone
          NoChange,     \* what an entry of type EntryNormal holds
          FirstLeader,  \* the leader of term 1
          Voters,       \* the peers the servers are started with
          Learners,     \* and the learners
          Proposals,    \* by last index, the MsgProps a leader may be given: their
                        \* entries are conf changes or NoChange
          MaxTerm,      \* bound on the terms
          MaxLog,       \* bound on the length of a log
          Restarting    \* the servers that may restart

VARIABLES server,       \* the Raft object of each server
          requests,     \* the MsgVotes sent
          timeouts      \* the MsgTimeoutNows sent

vars == <<server, requests, timeouts>>

Term == 1 .. MaxTerm

ConfChange == [type: {"AddNode", "AddLearnerNode", "RemoveNode", "UpdateNode"},
               node: Server]

Entry == [term: Term, cc: ConfChange \union {NoChange}]

Role == {"Follower", "Candidate", "Leader"}

-----------------------------------------------------------------------------
(* The state of one server *)

lastIndex(s) == Len(s.log)

term(s, i) == IF i \in 1 .. lastIndex(s) THEN s.log[i].term ELSE 0

lastTerm(s) == term(s, lastIndex(s))

quorum(s) == Cardinality(s.prs) \div 2 + 1

promotable(n, s) == n \in s.prs

nodes(s) == s.prs \union s.learners

isUpToDate(s, index, logterm) ==
  \/ logterm > lastTerm(s)
  \/ logterm = lastTerm(s) /\ index >= lastIndex(s)

reset(n, s, t) ==
  [s EXCEPT !.term = t,
            !.vote = IF s.term = t THEN s.vote ELSE None,
            !.lead = None,
            !.granted = {},
            !.rejected = {},
            !.match = [m \in Server |-> IF m = n THEN lastIndex(s) ELSE 0],
            !.leadTransferee = None,
            !.pendingConfIndex = 0]

becomeFollower(n, s, t, lead) ==
  [reset(n, s, t) EXCEPT !.lead = lead, !.state = "Follower"]

(* What a majority of the voters' matches reaches: the entries up to one of them. *)
committable(s) ==
  {i \in 1 .. lastIndex(s) :
     Cardinality({m \in s.prs : s.match[m] >= i}) >= quorum(s)}

maybeCommit(s) ==
  LET mci == Cardinality(committable(s))
  IN  IF mci > s.committed /\ term(s, mci) = s.term
        THEN [s EXCEPT !.committed = mci]
        ELSE s

appendEntry(n, s, ccs) ==
  LET li == lastIndex(s) + Len(ccs)
  IN  maybeCommit(
        [s EXCEPT !.log = s.log \o [i \in 1 .. Len(ccs) |-> [term |-> s.term, cc |-> ccs[i]]],
                  !.match[n] = li])

becomeLeader(n, s) ==
  appendEntry(n, [reset(n, s, s.term) EXCEPT !.lead = n,
                                             !.state = "Leader",
                                             !.pendingConfIndex = lastIndex(s)],
              <<NoChange>>)

becomeCandidate(n, s) ==
  [reset(n, s, s.term + 1) EXCEPT !.vote = n, !.state = "Candidate"]

campaign(n, s) ==
  LET c == [becomeCandidate(n, s) EXCEPT !.granted = {n}]
  IN  IF quorum(c) = 1 THEN becomeLeader(n, c) ELSE c

hasPendingConfBug(s) == FALSE

hasPendingConf(s) ==
  \E i \in s.applied + 1 .. s.committed : s.log[i].cc # NoChange

(* A conf change is proposed as an empty entry while another may be         *)
(* unapplied; pendingConfIndex_ rises with the first one a MsgProp holds.   *)
refusedBug(s, ccs, i) ==
  \/ s.pendingConfIndex > s.committed
  \/ \E j \in 1 .. i - 1 : ccs[j] # NoChange

refused(s, ccs, i) ==
  \/ s.pendingConfIndex > s.applied
  \/ \E j \in 1 .. i - 1 : ccs[j] # NoChange

propose(n, s, ccs) ==
  LET kept == [i \in 1 .. Len(ccs) |-> IF refused(s, ccs, i) THEN NoChange ELSE ccs[i]]
      changes == {i \in 1 .. Len(ccs) : kept[i] # NoChange}
  IN  appendEntry(n,
        [s EXCEPT !.pendingConfIndex =
                    IF changes = {} THEN @ ELSE lastIndex(s) + Max(changes)],
        kept)

-----------------------------------------------------------------------------
(* RawNode::ApplyConfChange *)

addNodeOrLearnerNode(n, s, id, isLearner) ==
  IF id \in s.prs \/ (isLearner /\ id \in s.learners)
    THEN s
    ELSE [s EXCEPT !.match[id] = IF id \in s.learners THEN s.match[id] ELSE 0,
                   !.prs = IF isLearner THEN s.prs ELSE s.prs \union {id},
                   !.learners = IF isLearner THEN s.learners \union {id}
                                             ELSE s.learners \ {id},
                   !.isLearner = IF id = n THEN isLearner ELSE s.isLearner]

(* With a smaller quorum more may be committed, which a leader passes on.   *)
removeNode(s, id) ==
  LET removed == [s EXCEPT !.prs = s.prs \ {id}, !.learners = s.learners \ {id},
                           !.match[id] = 0]
      aborts == s.state = "Leader" /\ s.leadTransferee = id
  IN  IF nodes(removed) = {} THEN removed
      ELSE [maybeCommit(removed) EXCEPT !.leadTransferee = IF aborts THEN None ELSE @]

applyConfChange(n, s, cc) ==
  CASE cc = NoChange -> s
    [] cc # NoChange /\ cc.type = "AddNode" -> addNodeOrLearnerNode(n, s, cc.node, FALSE)
    [] cc # NoChange /\ cc.type = "AddLearnerNode" -> addNodeOrLearnerNode(n, s, cc.node, TRUE)
    [] cc # NoChange /\ cc.type = "RemoveNode" -> removeNode(s, cc.node)
    [] cc # NoChange /\ cc.type = "UpdateNode" -> s

-----------------------------------------------------------------------------
Becomes(n, s) == server' = [server EXCEPT ![n] = s]

(* The cluster after its first election, the leader's entry applied by all, *)
(* and servers that have joined with the peers of the others, but no log.   *)
Init ==
  LET first == [term |-> 1, cc |-> NoChange]
      joined(n) ==
        [term |-> 0, vote |-> None, lead |-> None, state |-> "Follower",
         log |-> <<>>, committed |-> 0, applied |-> 0,
         prs |-> Voters, learners |-> Learners, isLearner |-> n \in Learners,
         granted |-> {}, rejected |-> {}, match |-> [m \in Server |-> 0],
         leadTransferee |-> None, pendingConfIndex |-> 0]
      member(n) ==
        [joined(n) EXCEPT !.term = 1,
                          !.vote = IF n \in Voters THEN FirstLeader ELSE None,
                          !.lead = FirstLeader,
                          !.state = IF n = FirstLeader THEN "Leader" ELSE "Follower",
                          !.log = <<first>>, !.committed = 1, !.applied = 1,
                          !.match = [m \in Server |->
                            IF n = FirstLeader /\ m \in Voters \union Learners
                              THEN 1 ELSE 0]]
  IN  /\ server = [n \in Server |->
                    IF n \in Voters \union Learners THEN member(n) ELSE joined(n)]
      /\ requests = {}
      /\ timeouts = {}

-----------------------------------------------------------------------------
(* Raft::campaign, and the MsgVotes it sends. *)
Campaign(n) ==
  LET c == campaign(n, server[n])
  IN  /\ c.term <= MaxTerm
      /\ lastIndex(server[n]) < MaxLog
      /\ Becomes(n, c)
      /\ requests' = IF c.state = "Leader" THEN requests
                     ELSE requests \union
                       {[from |-> n, term |-> c.term, to |-> c.prs \ {n},
                         index |-> lastIndex(c), logterm |-> lastTerm(c)]}

(* MsgHup, from tickElection: not while a committed conf change is unapplied. *)
Hup(n) ==
  /\ promotable(n, server[n])
  /\ server[n].state # "Leader"
  /\ ~hasPendingConf(server[n])
  /\ Campaign(n)
  /\ UNCHANGED timeouts

handleVoteResp(n, c, from, reject) ==
  LET p == IF from \in c.granted \union c.rejected THEN c
           ELSE IF reject THEN [c EXCEPT !.rejected = @ \union {from}]
                          ELSE [c EXCEPT !.granted = @ \union {from}]
  IN  IF Cardinality(p.granted) = quorum(p) THEN becomeLeader(n, p)
      ELSE IF Cardinality(p.rejected) = quorum(p) THEN becomeFollower(n, p, p.term, None)
      ELSE p

canVoteBug(f, m) == f.lead = None

canVote(f, m) == f.vote = m.from \/ (f.vote = None /\ f.lead = None)

StepVote(n, m, lost) ==
  LET s == server[n]
      f == IF m.term > s.term THEN becomeFollower(n, s, m.term, None) ELSE s
      grants == canVote(f, m) /\ isUpToDate(f, m.index, m.logterm)
      c == server[m.from]
      awaited == ~f.isLearner /\ c.term = m.term /\ c.state = "Candidate"
      heard == awaited /\ ~lost
  IN  /\ n \in m.to
      /\ m.term >= s.term
      /\ lost => awaited
      /\ server' = [server EXCEPT
                      ![n] = IF grants /\ ~f.isLearner THEN [f EXCEPT !.vote = m.from] ELSE f,
                      ![m.from] = IF heard THEN handleVoteResp(m.from, c, n, ~grants) ELSE c]
      /\ UNCHANGED <<requests, timeouts>>

(* MsgProp, on a leader that is still a voter of its configuration. *)
Propose(n, ccs) ==
  LET s == server[n]
  IN  /\ n \in s.prs
      /\ s.leadTransferee = None
      /\ lastIndex(s) + Len(ccs) <= MaxLog
      /\ Becomes(n, propose(n, s, ccs))
      /\ UNCHANGED <<requests, timeouts>>

(* The leaders that send to n: it has a Progress in their configuration.    *)
Senders(n) ==
  {from \in Server \ {n} : server[from].state = "Leader" /\ n \in nodes(server[from])}

(* A MsgApp or MsgHeartbeat makes its receiver a follower of its sender. *)
heardFrom(n, s, from, t) ==
  IF t > s.term \/ s.state = "Candidate" THEN becomeFollower(n, s, t, from)
                                         ELSE [s EXCEPT !.lead = from]

commitTo(s, i) == IF i > s.committed THEN [s EXCEPT !.committed = i] ELSE s

handleAppendEntriesBug(s, l, p) == commitTo(s, l.committed)

(* A MsgApp of leader l with all of its entries after index p. *)
handleAppendEntries(s, l, p) ==
  LET conflicts == {i \in p + 1 .. lastIndex(l) :
                      term(s, i) # term(l, i)}
      appended == IF conflicts = {} THEN s.log
                  ELSE SubSeq(s.log, 1, Min(conflicts) - 1)
                         \o SubSeq(l.log, Min(conflicts), lastIndex(l))
  IN  commitTo([s EXCEPT !.log = appended], l.committed)

(* MsgAppResp: without a Progress for its sender the leader ignores it. *)
updates(l, from, index) == from \in nodes(l) /\ index > l.match[from]

handleAppResp(l, from, index) ==
  IF updates(l, from, index)
    THEN maybeCommit([l EXCEPT !.match[from] = index])
    ELSE l

(* The transferee that has caught up is told to start an election. *)
transfers(l, from, index) ==
  updates(l, from, index) /\ l.leadTransferee = from /\ index = lastIndex(l)

TimeoutNow(l, to) == [to |-> to, term |-> l.term]

(* MsgApp, from one of Senders(n), with its answer. *)
StepApp(n, from, p, lost) ==
  LET l == server[from]
      s == server[n]
      f == heardFrom(n, s, from, l.term)
      matches == term(f, p) = term(l, p)
      Answer(g, index) ==
        /\ lost => updates(l, n, index)
        /\ server' = [server EXCEPT ![n] = g,
                                    ![from] = IF lost THEN @ ELSE handleAppResp(@, n, index)]
        /\ timeouts' = IF ~lost /\ transfers(l, n, index)
                         THEN timeouts \union {TimeoutNow(l, n)} ELSE timeouts
  IN  /\ l.term >= s.term
      /\ \/ /\ p < f.committed
            /\ Answer(f, f.committed)
         \/ /\ p >= f.committed
            /\ matches
            /\ Answer(handleAppendEntries(f, l, p), lastIndex(l))
         \/ /\ p >= f.committed
            /\ ~matches /\ ~lost
            /\ Becomes(n, f)
            /\ UNCHANGED timeouts
      /\ UNCHANGED requests

(* MsgHeartbeat, with what of the commit index the follower is known to hold. *)
StepHeartbeat(n, from) ==
  LET l == server[from]
      s == server[n]
      f == heardFrom(n, s, from, l.term)
  IN  /\ l.term >= s.term
      /\ Becomes(n, commitTo(f, Min({l.committed, l.match[n]})))
      /\ UNCHANGED <<requests, timeouts>>

(* The application takes the next committed entry from its Ready. *)
Apply(n) ==
  LET s == server[n]
  IN  /\ s.applied < s.committed
      /\ Becomes(n, [applyConfChange(n, s, s.log[s.applied + 1].cc) EXCEPT !.applied = @ + 1])
      /\ UNCHANGED <<requests, timeouts>>

RestartBug(n) ==
  /\ n \in Restarting
  /\ Becomes(n, [becomeFollower(n, server[n], server[n].term, None) EXCEPT !.applied = 1])
  /\ UNCHANGED <<requests, timeouts>>

(* Raft::New in an application that keeps no snapshot: it gives the peers   *)
(* it started with and replays the log it saved, after the first leader's   *)
(* empty entry.                                                             *)
Restart(n) ==
  /\ n \in Restarting
  /\ Becomes(n, [becomeFollower(n, server[n], server[n].term, None) EXCEPT
                   !.prs = Voters,
                   !.learners = Learners,
                   !.isLearner = n \in Learners,
                   !.applied = Min({1, @})])
  /\ UNCHANGED <<requests, timeouts>>

Next ==
  \E n \in Server :
    \/ Hup(n)
    \/ \E m \in requests, lost \in BOOLEAN : StepVote(n, m, lost)
    \/ /\ server[n].state = "Leader"
       /\ \E ccs \in Proposals[lastIndex(server[n])] : Propose(n, ccs)
    \/ \E from \in Senders(n) :
         \/ \E p \in {server[from].match[n], lastIndex(server[from])}, lost \in BOOLEAN :
              StepApp(n, from, p, lost)
         \/ StepHeartbeat(n, from)
    \/ Apply(n)
    \/ Restart(n)

Spec == Init /\ [][Next]_vars

-----------------------------------------------------------------------------
(* Leadership transfer: MsgTransferLeader on the leader, MsgTimeoutNow on   *)
(* the transferee, which does not look for unapplied conf changes, and the  *)
(* tick that gives the transfer up.                                         *)
TransferLeader(n, to) ==
  LET s == server[n]
  IN  /\ s.state = "Leader"
      /\ to \in s.prs \ {n}
      /\ s.leadTransferee # to
      /\ Becomes(n, [s EXCEPT !.leadTransferee = to])
      /\ timeouts' = IF s.match[to] = lastIndex(s)
                       THEN timeouts \union {TimeoutNow(s, to)} ELSE timeouts
      /\ UNCHANGED requests

StepTimeoutNow(n, m) ==
  /\ m.to = n
  /\ m.term = server[n].term
  /\ server[n].state = "Follower"
  /\ promotable(n, server[n])
  /\ Campaign(n)
  /\ UNCHANGED timeouts

abortLeaderTransfer(n) ==
  /\ server[n].state = "Leader"
  /\ server[n].leadTransferee # None
  /\ Becomes(n, [server[n] EXCEPT !.leadTransferee = None])
  /\ UNCHANGED <<requests, timeouts>>

Transfer ==
  \E n \in Server :
    \/ \E to \in Server : TransferLeader(n, to)
    \/ \E m \in timeouts : StepTimeoutNow(n, m)
    \/ abortLeaderTransfer(n)

TransferSpec == Init /\ [][Next \/ Transfer]_vars

-----------------------------------------------------------------------------
(* Every field has its type; a server has applied no more than it knows     *)
(* committed, and knows nothing committed that its log does not hold.       *)
TypeOK ==
  /\ server \in [Server -> [term: 0 .. MaxTerm, vote: Server \union {None},
                            lead: Server \union {None}, state: Role,
                            log: Seq(Entry), committed: 0 .. MaxLog, applied: 0 .. MaxLog,
                            prs: SUBSET Server, learners: SUBSET Server, isLearner: BOOLEAN,
                            granted: SUBSET Server, rejected: SUBSET Server,
                            match: [Server -> 0 .. MaxLog],
                            leadTransferee: Server \union {None},
                            pendingConfIndex: 0 .. MaxLog]]
  /\ \A n \in Server : /\ server[n].applied <= server[n].committed
                        /\ server[n].committed <= lastIndex(server[n])
                        /\ server[n].prs \intersect server[n].learners = {}
  /\ requests \subseteq [from: Server, term: Term, to: SUBSET Server,
                          index: 1 .. MaxLog, logterm: Term]
  /\ timeouts \subseteq [to: Server, term: Term]

committedTo(n, i) == SubSeq(server[n].log, 1, i)

(* Two servers never commit different entries at the same index, though     *)
(* each counts the majorities of the configuration it has applied.          *)
StateMachineSafety ==
  \A n, m \in Server : server[n].committed <= server[m].committed =>
    committedTo(n, server[n].committed) = committedTo(m, server[n].committed)

(* No term has two leaders, whatever configurations elected them. *)
OneLeaderPerTerm ==
  \A n, m \in {l \in Server : server[l].state = "Leader"} :
    server[n].term = server[m].term => n = m

(* Only one conf change may be pending (in the log, but not yet applied) at *)
(* a time on a leader, as the comment on pendingConfIndex_ says.            *)
OneChangePending ==
  \A n \in Server : server[n].state = "Leader" =>
    Cardinality({i \in server[n].applied + 1 .. lastIndex(server[n]) :
                   server[n].log[i].cc # NoChange}) <= 1

(* Servers that have applied the same entries have the same configuration,  *)
(* and a member of it knows whether it is a learner.                        *)
ConfigAgrees ==
  /\ \A n, m \in Server : server[n].applied = server[m].applied =>
       /\ server[n].prs = server[m].prs
       /\ server[n].learners = server[m].learners
  /\ \A n \in Server : n \in nodes(server[n]) =>
       (server[n].isLearner <=> n \in server[n].learners)
=============================================================================
