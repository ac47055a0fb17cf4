------------------------------- MODULE Moves --------------------------------
(* What the handlers of a node, Ready and a restart do to it, in the terms *)
(* of the proofs: which votes it casts, which entries it takes, which      *)
(* messages it leaves.  Every handler is a path of moves; the invariants of*)
(* elections, logs and commitment are kept by every move.                  *)
EXTENDS RaftState

(* What the proofs take from the theory of numbers and finite sets: of     *)
(* some numbers one is the least, of the numbers that some nodes have one  *)
(* is the greatest, and sets of voters can be counted.  A lemma that       *)
(* counts assumes Counting, and SafetyProofs proves it.                    *)

WellOrdered ==
  \A S \in SUBSET Nat : S # {} => \E x \in S : \A y \in S : x <= y

Bounded ==
  \A f \in [Server -> Nat] : \A S \in SUBSET Nat :
    S # {} /\ (\A x \in S : \E j \in Server : x = f[j]) => Max(S) \in S

VoterSets ==
  /\ Cardinality(Voter) # 0
  /\ \A P \in SUBSET Voter : Cardinality(P) \in Nat
  /\ \A P, Q \in SUBSET Voter : P \subseteq Q => Cardinality(P) <= Cardinality(Q)
  /\ \A P, Q \in SUBSET Voter :
       Cardinality(P) + Cardinality(Q) > Cardinality(Voter) => P \cap Q # {}
  /\ \A P \in SUBSET Voter : \A i : P \subseteq {i} => Cardinality(P) <= 1

Counting == WellOrdered /\ Bounded /\ VoterSets

(* What every method of Progress keeps: the type, and who is a learner.    *)

Advances(p, q) == q \in ProgressType /\ q.isLearner = p.isLearner

(* Match and next of a leader whose log has n entries.                     *)
Fit(p, n) == p.match <= n /\ p.next <= n + 1 /\ p.state # "Snapshot"

(* What the methods keep that do not record an acknowledgement: the match, *)
(* and that the Progress fits a log of n entries.                          *)
Steady(p, q, n) ==
  Advances(p, q) /\ q.match = p.match /\ (Fit(p, n) => Fit(q, n))

LeaderType == {"MsgApp", "MsgHeartbeat", "MsgTimeoutNow"}

Grant(m) == m.type = "MsgVoteResp" /\ ~m.reject

(* What only the election code may send: a vote, or a request for one in   *)
(* term 0, which nobody sends.                                             *)
Ballot(m) == Grant(m) \/ (m.type = "MsgVote" /\ m.term = 0)

(* Records of nodes that know who is a learner.                            *)
Node == {r \in RaftType : \A j \in Server : r.prs[j].isLearner <=> j \in Learner}

(* What a log, and a MsgApp, say about an index: the entry there, and the  *)
(* term of the entry before it.                                            *)
Facts(l) == {<<n, l[n], IF n = 1 THEN 0 ELSE l[n - 1].term>> : n \in 1..Len(l)}

MsgFacts(m) ==
  {<<m.index + k, m.entries[k], IF k = 1 THEN m.logterm ELSE m.entries[k - 1].term>> :
     k \in 1..Len(m.entries)}

(* A message that r may send at any time: not a vote, and what leaders     *)
(* send only as the leader of its term.                                    *)
Harmless(r, m) ==
  /\ m.from = r.id /\ ~Ballot(m)
  /\ m.type \in LeaderType => r.state = "Leader" /\ m.term = r.term
  /\ m.type = "MsgVote" => r.state = "Candidate" /\ m.term = r.term

(* Neither role, term nor votes change, and nothing but harmless messages  *)
(* is sent.                                                                *)
Mute(r, s) ==
  /\ r \in Node /\ s \in Node
  /\ s.id = r.id /\ s.term = r.term /\ s.vote = r.vote
  /\ s.state = r.state /\ s.votes = r.votes
  /\ \A m \in s.msgs : m \in r.msgs \/ Harmless(r, m)

(* Unless the node panics, its log has only grown by entries of its term,  *)
(* the commit index has not gone back, nor beyond the log, and new MsgApps *)
(* say what the log says.                                                  *)
Extends(r, s) ==
  \/ s.panic
  \/ /\ ~r.panic
     /\ Len(r.log) <= Len(s.log)
     /\ \A n \in 1..Len(r.log) : s.log[n] = r.log[n]
     /\ \A n \in Len(r.log) + 1..Len(s.log) : s.log[n].term = r.term
     /\ r.committed <= s.committed
     /\ r.committed <= Len(r.log) => s.committed <= Len(s.log)
     /\ \A m \in s.msgs : \/ m \in r.msgs \/ m.type # "MsgApp"
                           \/ MsgFacts(m) \subseteq Facts(s.log)

(* What a leader records of the others lies within its log.                *)
Fits(r) == \A j \in Server : Fit(r.prs[j], Len(r.log))

(* A quorum is known to have the entry n, which is of the current term.    *)
Reached(r, n) ==
  /\ n \in 1..Len(r.log) /\ r.log[n].term = r.term
  /\ IsQuorum({j \in Voter : j = r.id \/ r.prs[j].match >= n})

(* The MsgApp m is a piece of the log l.                                   *)
Quotes(m, l) ==
  /\ m.index + Len(m.entries) <= Len(l)
  /\ \A k \in 1..Len(m.entries) : m.entries[k] = l[m.index + k]
  /\ m.logterm = IF m.index = 0 THEN 0 ELSE l[m.index].term

(* What a message that r has sent when it turned into s tells the others   *)
(* is so: how far it has committed, what its log holds, how up to date it  *)
(* is.  It acknowledges nothing.                                           *)
Proper(r, s, m) ==
  /\ m.type = "MsgApp" => m.commit <= s.committed /\ (Fits(r) => Quotes(m, s.log))
  /\ m.type = "MsgHeartbeat" =>
       m.to # r.id /\ m.commit <= s.committed /\ m.commit <= s.prs[m.to].match
  /\ m.type = "MsgAppResp" /\ ~m.reject => m.index = 0
  /\ m.type = "MsgVote" => m.index = Len(s.log) /\ m.logterm = lastTerm(s)

(* Nothing is learnt about the other nodes, only a leader commits what a   *)
(* quorum has, and what is sent is so.                                     *)
Orderly(r, s) ==
  /\ \A j \in Server \ {r.id} : s.prs[j].match = r.prs[j].match
  /\ Fits(r) => Fits(s)
  /\ s.committed = r.committed \/ (r.state = "Leader" /\ Reached(s, s.committed))
  /\ \A m \in s.msgs : m \in r.msgs \/ Proper(r, s, m)

(* Only a leader's log grows.                                              *)
Quiet(r, s) ==
  /\ Mute(r, s) /\ Extends(r, s)
  /\ s.panic \/ r.state = "Leader" \/ s.log = r.log
  /\ s.panic \/ Orderly(r, s)

(* The log l is that of r up to the entry k0 of m, the first that r may    *)
(* not have, and m from there on.                                          *)
Spliced(r, m, k0, l) ==
  /\ m.logterm = term(r, m.index)
  /\ \A k \in 1..k0 - 1 : m.entries[k].term = term(r, m.index + k)
  /\ \A n \in 1..m.index + k0 - 1 : l[n] = r.log[n]
  /\ \A k \in k0..Len(m.entries) : l[m.index + k] = m.entries[k]

(* What maybeAppend makes of the log of r and the MsgApp m: the same log,  *)
(* if it has all the entries of m, or m from the first one on that differs *)
(* in its term.  It says what the log said or what m says, and what is     *)
(* committed is kept.                                                      *)
Takes(r, m, l) ==
  /\ Facts(l) \subseteq Facts(r.log) \cup MsgFacts(m)
  /\ \A n \in 1..Len(r.log) :
       n <= r.committed => n <= Len(l) /\ l[n] = r.log[n]
  /\ m.logterm = term(r, m.index)
  /\ \/ /\ l = r.log
        /\ \A k \in 1..Len(m.entries) : m.entries[k].term = term(r, m.index + k)
     \/ \E k0 \in 1..Len(m.entries) :
          /\ m.entries[k0].term # term(r, m.index + k0)
          /\ m.index + k0 - 1 <= Len(r.log)
          /\ Len(l) = m.index + Len(m.entries)
          /\ Spliced(r, m, k0, l)

(* An acknowledgement of r that it has n entries of the leader's log.      *)
Acks(r, x, n) ==
  x.type = "MsgAppResp" /\ ~x.reject /\ x.index = n /\ x.term = r.term

(* What a follower does with the entries of m: unless it panics, it takes  *)
(* them, commits what m says is committed, and acknowledges them.          *)
Accepts(r, s, m) ==
  /\ Mute(r, s)
  /\ \/ s.panic
     \/ /\ ~r.panic
        /\ Takes(r, m, s.log)
        /\ r.committed <= s.committed
        /\ r.committed <= Len(r.log) => s.committed <= Len(s.log)
        /\ \/ s.committed = r.committed
           \/ s.committed <= m.commit /\ s.committed <= m.index + Len(m.entries)
        /\ \A x \in s.msgs : x \in r.msgs \/ Acks(r, x, m.index + Len(m.entries))

(* What it answers otherwise: a MsgApp before its commit index with that.  *)
Replies(r, m, x) ==
  \/ x.type = "MsgHeartbeatResp"
  \/ x.type = "MsgAppResp" /\ x.reject
  \/ m.type = "MsgApp" /\ Acks(r, x, r.committed)

(* What else a follower does when it hears from its leader: it commits     *)
(* what a heartbeat says, and replies.                                     *)
Hears(r, s, m) ==
  /\ Mute(r, s) /\ Extends(r, s)
  /\ \/ s.panic
     \/ /\ s.log = r.log
        /\ \/ s.committed = r.committed
           \/ m.type = "MsgHeartbeat" /\ s.committed = m.commit
        /\ \A x \in s.msgs : x \in r.msgs \/ Replies(r, m, x)

(* What a leader learns from the acknowledgement m: how far its sender     *)
(* has the log.                                                            *)
Matches(r, s, m) ==
  /\ Mute(r, s)
  /\ s.log = r.log /\ s.committed = r.committed /\ s.msgs = r.msgs
  /\ r.panic => s.panic
  /\ \A j \in Server \ {m.from} : s.prs[j] = r.prs[j]
  /\ s.prs[m.from].match \in {r.prs[m.from].match, m.index}
  /\ Fits(r) /\ m.index <= Len(r.log) => Fits(s)

(* Roles.  How a change of role relates the node before and after it.      *)

SameLog(r, s) ==
  s.log = r.log /\ s.committed = r.committed /\ (r.panic => s.panic)

Follows(r, s, t) ==
  /\ r \in Node /\ SameLog(r, s) /\ s \in Node
  /\ s.id = r.id /\ s.state = "Follower" /\ s.msgs = r.msgs
  /\ s.term = t /\ s.vote = IF r.term # t THEN None ELSE r.vote

Stands(r, s) ==
  /\ r \in Node /\ SameLog(r, s) /\ s \in Node
  /\ s.id = r.id /\ s.state = "Candidate" /\ s.msgs = r.msgs
  /\ s.term = r.term + 1 /\ s.vote = r.id
  /\ \A k \in Server : s.votes[k] = "granted" => k = r.id

Explores(r, s) ==
  /\ r \in Node /\ SameLog(r, s) /\ s \in Node
  /\ s.id = r.id /\ s.state = "PreCandidate" /\ s.msgs = r.msgs
  /\ s.term = r.term /\ s.vote = r.vote

(* A new leader has appended an entry and knows nothing of the others.     *)
Enthroned(r, s) ==
  /\ Len(s.log) = Len(r.log) + 1 /\ Fits(s)
  /\ \A j \in Server \ {r.id} : s.prs[j].match = 0
  /\ s.committed = r.committed \/ Reached(s, s.committed)

Wins(r, s) ==
  /\ r \in Node /\ Extends(r, s) /\ s \in Node
  /\ s.id = r.id /\ s.state = "Leader" /\ s.msgs = r.msgs
  /\ s.term = r.term /\ s.vote = r.vote
  /\ s.panic \/ Enthroned(r, s)

Polls(r, s, k, granted) ==
  /\ r \in Node /\ SameLog(r, s) /\ s \in Node
  /\ s.id = r.id /\ s.state = r.state /\ s.msgs = r.msgs
  /\ s.term = r.term /\ s.vote = r.vote
  /\ \A j \in Server :
       s.votes[j] = "granted" => r.votes[j] = "granted" \/ (j = k /\ granted)

Casts(r, s, c, t) ==
  /\ r \in Node /\ SameLog(r, s) /\ s \in Node
  /\ s.id = r.id /\ s.state = r.state /\ s.votes = r.votes
  /\ s.term = r.term /\ s.vote = c /\ s.prs = r.prs
  /\ \A x \in s.msgs :
       x \in r.msgs \/ (/\ x.from = r.id /\ x.type = "MsgVoteResp"
                        /\ x.to = c /\ x.term = t)

(* Crashes.  What a node leaves to its next process.                       *)

TypeInv ==
  /\ raft \in [Server -> Node]
  /\ \A i \in Server : raft[i].id = i
  /\ storage \in [Server -> StorageType]
  /\ network \subseteq Msg
  /\ spent \in [InputKind -> Nat]
  /\ readBound \in [ReadCtx -> Nat \cup {None}]

(* What Ready leaves of the node r, and what it saves.                     *)
Sheds(r, s) ==
  /\ s \in Node /\ s.id = r.id /\ s.term = r.term /\ s.vote = r.vote
  /\ s.state = r.state /\ s.votes = r.votes /\ s.msgs \subseteq r.msgs
  /\ s.log = r.log /\ s.committed = r.committed /\ s.prs = r.prs

Saves(r, st) ==
  /\ st \in StorageType /\ st.log = r.log
  /\ st.hardState.term = r.term /\ st.hardState.vote = r.vote
  /\ st.hardState.commit <= r.committed

(* A new process starts as a follower that has sent nothing, from what was *)
(* saved.                                                                  *)
Loads(i, st, s) ==
  /\ s \in Node /\ s.id = i /\ s.state = "Follower" /\ s.msgs = {}
  /\ s.term = st.hardState.term /\ s.vote = st.hardState.vote
  /\ s.log = st.log /\ s.committed = st.hardState.commit

(* Elections.  A vote binds its node once something that shows it is on its*)
(* way: in the network for good, in a mailbox as long as the process lives.*)
(* The invariant says that what is on its way agrees with the vote on disk,*)
(* respectively with the vote in memory, and that whoever leads has, in    *)
(* the network, the votes of a majority.                                   *)

(* The vote of j for c in term t is on its way in the network: a grant, or *)
(* what j, who voted for itself, sends as candidate or leader.             *)
NetVote(N, j, c, t) ==
  \E m \in N :
    /\ m.from = j /\ m.term = t
    /\ \/ Grant(m) /\ m.to = c
       \/ m.type \in LeaderType \cup {"MsgVote"} /\ c = j

(* The same of the node r itself: its mailbox and its role count.          *)
OwnVote(r, c, t) ==
  \/ NetVote(r.msgs, r.id, c, t)
  \/ r.state \in {"Candidate", "Leader"} /\ r.term = t /\ c = r.id

(* A record of a term and a vote excludes another vote than c in term t.   *)
Bound(h, c, t) == h.term > t \/ (h.term = t /\ h.vote = c)

Supporters(N, i, t) ==
  {k \in Voter : \/ k = i
                 \/ \E m \in N : /\ Grant(m) /\ m.from = k
                                 /\ m.to = i /\ m.term = t}

Elected(N, i, t) ==
  t >= 1 /\ i \in Voter /\ 2 * Cardinality(Supporters(N, i, t)) > Cardinality(Voter)

(* What a message on its way tells.                                        *)
MsgInv(N, m) ==
  /\ m.type = "MsgVote" => m.term >= 1
  /\ Grant(m) => m.term >= 1 /\ m.from \in Voter
  /\ m.type \in LeaderType => Elected(N, m.from, m.term)

NetInv(N, D) ==
  /\ \A m \in N : MsgInv(N, m)
  /\ \A j, c \in Server, t \in Nat :
       NetVote(N, j, c, t) => Bound(D[j].hardState, c, t)
  /\ \A j, c, d \in Server, t \in Nat :
       NetVote(N, j, c, t) /\ NetVote(N, j, d, t) => c = d

(* What is saved of the node r is not ahead of it.                         *)
SavedInv(D, r) ==
  LET saved == D[r.id].hardState
  IN  \/ saved.term < r.term
      \/ saved.term = r.term /\ saved.vote \in {None, r.vote}

VoteInv(N, r) ==
  /\ \A c \in Server, t \in Nat : OwnVote(r, c, t) => Bound(r, c, t)
  /\ \A c, d \in Server, t \in Nat :
       OwnVote(r, c, t) /\ (OwnVote(r, d, t) \/ NetVote(N, r.id, d, t)) => c = d

RoleInv(N, r) ==
  /\ r.state # "Follower" => r.id \in Voter
  /\ r.state \in {"Candidate", "Leader"} => r.term >= 1
  /\ r.state = "Leader" => Elected(N, r.id, r.term)
  /\ r.state = "Candidate" =>
       \A k \in Server : r.votes[k] = "granted" => k \in Supporters(N, r.id, r.term)

NodeInv(N, D, r) ==
  /\ r \in Node
  /\ \A m \in r.msgs : m.from = r.id /\ MsgInv(N, m)
  /\ SavedInv(D, r) /\ VoteInv(N, r) /\ RoleInv(N, r)

ElectionInv ==
  /\ TypeInv
  /\ NetInv(network, storage)
  /\ \A i \in Server : NodeInv(network, storage, raft[i])

(* What a handler does to its node is a path of moves: changes of the      *)
(* record each of which keeps what the node promised.                      *)

(* The follower r handles m, which its leader sent it.                     *)
Heeds(r, s, m) ==
  /\ m.type \in {"MsgApp", "MsgHeartbeat"} /\ m.term = r.term /\ m.to = r.id
  /\ Hears(r, s, m) \/ (m.type = "MsgApp" /\ Accepts(r, s, m))

(* The leader r takes note of the acknowledgement m.                       *)
Counts(r, s, m) ==
  m.type = "MsgAppResp" /\ ~m.reject /\ m.term \in {0, r.term} /\ Matches(r, s, m)

(* The candidate c of the term of r asks for its vote, with a log that is  *)
(* up to date.                                                             *)
Asked(N, r, c) ==
  \E m \in N : /\ m.type = "MsgVote" /\ m.from = c /\ m.term = r.term
              /\ isUpToDate(r, m.index, m.logterm)

Move(N, r, s) ==
  \/ Quiet(r, s)
  \/ r.state = "Follower" /\ \E m \in N : Heeds(r, s, m)
  \/ r.state = "Leader" /\ \E m \in N : Counts(r, s, m)
  \/ \E t \in Nat : t >= r.term /\ Follows(r, s, t)
  \/ r.id \in Voter /\ (Explores(r, s) \/ Stands(r, s))
  \/ \E k, granted :
       /\ Polls(r, s, k, granted) /\ r.state # "Leader"
       /\ r.state = "Candidate" /\ granted => k \in Supporters(N, r.id, r.term)
  \/ r.state = "Candidate" /\ votesGranted(r) = quorum(r) /\ Wins(r, s)
  \/ /\ r.id \in Voter /\ r.term >= 1
     /\ \E c \in Server :
          r.vote \in {c, None} /\ Asked(N, r, c) /\ Casts(r, s, c, r.term)

Path(N, r, s) ==
  \E a, b, c : Move(N, r, a) /\ Move(N, a, b) /\ Move(N, b, c) /\ Move(N, c, s)

(* What an input or a message does to a node that has not panicked is a    *)
(* path of moves.                                                          *)
Moves(i) ==
  /\ UNCHANGED <<storage, network>> /\ ~raft[i].panic
  /\ \E s : Path(network, raft[i], s) /\ Update(i, s)

(* The Ready loop saves what the node holds, then sends its messages.      *)
Saving(i) ==
  \E s, st : /\ Sheds(raft[i], s) /\ Saves(raft[i], st)
             /\ raft' = [raft EXCEPT ![i] = s]
             /\ storage' = [storage EXCEPT ![i] = st]
             /\ network' = network \cup raft[i].msgs

(* A new process loads what was saved.                                     *)
Loading(i) ==
  /\ \E s : Loads(i, storage[i], s) /\ raft' = [raft EXCEPT ![i] = s]
  /\ UNCHANGED <<storage, network>>

(* All that the steps of the cluster do to its nodes, storages and         *)
(* network, and where they begin.                                          *)
Acts ==
  \/ UNCHANGED <<raft, storage, network>>
  \/ \E i \in Server : Moves(i) \/ Saving(i) \/ Loading(i)

Starts ==
  /\ TypeInv /\ network = {}
  /\ \A i \in Server : storage[i] = EmptyStorage /\ Loads(i, storage[i], raft[i])
-----------------------------------------------------------------------------
(* The node r was elected in term t and will not stand for it again.       *)
Led(N, r, t) ==
  /\ Elected(N, r.id, t) /\ Bound(r, r.id, t)
  /\ ~(r.term = t /\ r.state = "Candidate")
  /\ \A c \in Server : NetVote(N, r.id, c, t) \/ OwnVote(r, c, t) => c = r.id

(* Some node was, and not even a crash changes that.                       *)
Safe(N, D, R, t) ==
  \E k \in Server : Led(N, R[k], t) /\ Bound(D[k].hardState, k, t)

(* The types of network, storages and nodes, and what elections rest on.   *)
World(N, D, R) ==
  /\ N \subseteq Msg /\ D \in [Server -> StorageType] /\ R \in [Server -> Node]
  /\ NetInv(N, D)
  /\ \A j \in Server : R[j].id = j /\ NodeInv(N, D, R[j])
=============================================================================
