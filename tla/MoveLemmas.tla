---------------------------- MODULE MoveLemmas -----------------------------
(* What the moves of a node keep: the types, the votes and the elections.  *)
EXTENDS Moves, TLAPS
-----------------------------------------------------------------------------
(* Facts about the order of the natural numbers, for the steps that reason *)
(* about sets of them.                                                     *)
LEMMA NaturalOrder ==
  /\ \A x \in Nat : x >= x /\ ~(x <= x - 1)
  /\ \A x, y \in Nat : (x >= y \/ y >= x) /\ (y < x \/ x <= y)
  /\ \A x, y, z \in Nat : x >= y /\ y >= z => x >= z
OBVIOUS

(* How a number compares with itself and with the next one,                *)
LEMMA OrderFacts ==
  ASSUME NEW a \in Nat PROVE a <= a /\ a >= a /\ a + 1 >= a /\ a + 1 > a
OBVIOUS

(* and when it counts from one.                                            *)
LEMMA OneUpTo ==
  ASSUME NEW a \in Nat, NEW b \in Nat, b >= a, a # 0 PROVE a \in 1..b
OBVIOUS

(* What counts from one up to a number is no greater.                      *)
LEMMA UpToTop ==
  ASSUME NEW b \in Nat, NEW a \in 1..b PROVE b >= a
OBVIOUS

(* It is zero or more.                                                     *)
LEMMA ZeroOrMore ==
  ASSUME NEW a \in Nat PROVE a = 0 \/ a >= 1
OBVIOUS

(* A term that is neither later nor earlier is the same.                   *)
LEMMA SameTerm ==
  ASSUME NEW a \in Nat, NEW b \in Nat, a >= 1, a = 0 \/ a >= b, b >= a
  PROVE  b = a
OBVIOUS

(* A nonempty set of natural numbers has a least element.                  *)
LEMMA LeastNatural ==
  ASSUME Counting, NEW S \in SUBSET Nat, S # {}
  PROVE  \E x \in S : \A y \in S : x <= y
BY DEF Counting, WellOrdered

(* Of two sets of voters the larger one has the greater number.            *)
LEMMA VoterSubsets ==
  ASSUME Counting, NEW Q \in SUBSET Voter, NEW P \in SUBSET Q
  PROVE  /\ Cardinality(P) \in Nat /\ Cardinality(Q) \in Nat
         /\ Cardinality(P) <= Cardinality(Q)
BY DEF Counting, VoterSets

(* Two sets of voters with more members than there are voters share one.   *)
LEMMA VotersMeet ==
  ASSUME Counting, NEW P \in SUBSET Voter, NEW Q \in SUBSET Voter,
         2 * Cardinality(P) > Cardinality(Voter),
         2 * Cardinality(Q) > Cardinality(Voter)
  PROVE  \E k \in Voter : k \in P /\ k \in Q
<1>1. /\ Cardinality(P) \in Nat /\ Cardinality(Q) \in Nat
      /\ Cardinality(Voter) \in Nat
  BY VoterSubsets
<1>2. Cardinality(P) + Cardinality(Q) > Cardinality(Voter)
  BY <1>1
<1>3. P \cap Q # {}
  BY <1>2 DEF Counting, VoterSets
<1> QED BY <1>3

(* What the fields of nodes and messages are.                              *)

(* The types of the fields of a node that most handlers read.              *)
LEMMA LogFields ==
  ASSUME NEW r \in Node
  PROVE  /\ r.log \in Seq(Entry) /\ lastIndex(r) \in Nat
         /\ r.committed \in Nat /\ r.applied \in Nat
         /\ r.term \in Nat /\ r.id \in Server /\ r.vote \in Server \cup {None}
         /\ r.prs \in [Server -> ProgressType] /\ DOMAIN r.prs = Server
         /\ r.msgs \subseteq Msg
         /\ r.votes \in [Server -> {"unknown", "granted", "rejected"}]
BY DEF RaftType, lastIndex, Node

(* The types of the fields of a message.                                   *)
LEMMA MsgFields ==
  ASSUME NEW m \in Msg
  PROVE  /\ m.from \in Server /\ m.to \in Server /\ m.term \in Nat
         /\ m.index \in Nat /\ m.rejecthint \in Nat /\ m.commit \in Nat
         /\ m.logterm \in Nat /\ m.entries \in Seq(Entry)
         /\ m.context \in ReadCtx \cup {None, CampaignTransfer}
         /\ m.reject \in BOOLEAN /\ m.type \in MessageType
         /\ m.type \in ReadType => m.context \in ReadCtx
BY DEF Msg, MsgFrom

(* A node takes exactly the voters for voters.                             *)
LEMMA VotersOfNode ==
  ASSUME NEW r \in Node
  PROVE  voters(r) = Voter
<1>1. DOMAIN r.prs = Server
  BY LogFields
<1> QED BY <1>1, MembershipAssumption DEF voters, Node, Server

(* There is at least one voter, and a number of them.                      *)
LEMMA VoterCount == ASSUME Counting PROVE Cardinality(Voter) \in Nat \ {0}
BY DEF Counting, VoterSets

(* A piece of a log is a piece of a longer one.                            *)
LEMMA QuotesGrow ==
  ASSUME NEW m \in Msg, NEW l \in Seq(Entry), NEW k \in Seq(Entry),
         Len(l) <= Len(k), \A n \in 1..Len(l) : k[n] = l[n], Quotes(m, l)
  PROVE  Quotes(m, k)
<1>1. m.index \in Nat /\ m.entries \in Seq(Entry) /\ Len(m.entries) \in Nat
  BY DEF Msg, MsgFrom
<1>2. /\ m.index + Len(m.entries) <= Len(l)
      /\ \A x \in 1..Len(m.entries) : m.entries[x] = l[m.index + x]
      /\ m.logterm = IF m.index = 0 THEN 0 ELSE l[m.index].term
  BY DEF Quotes
<1>3. \A x \in 1..Len(m.entries) : m.index + x \in 1..Len(l)
  BY <1>1, <1>2
<1>4. m.index # 0 => m.index \in 1..Len(l)
  BY <1>1, <1>2
<1>5. m.index + Len(m.entries) <= Len(k)
  BY <1>1, <1>2
<1> QED BY <1>2, <1>3, <1>4, <1>5, Zenon DEF Quotes

(* Doing nothing is quiet.                                                 *)
LEMMA QuietRefl == ASSUME NEW r \in Node PROVE Quiet(r, r)
<1>1. r.log \in Seq(Entry) /\ r.committed \in Nat
  BY DEF Node, RaftType
<1>2. Extends(r, r)
  BY <1>1 DEF Extends
<1>3. Orderly(r, r)
  BY DEF Orderly
<1> QED BY <1>2, <1>3 DEF Quiet, Mute

(* A panic leaves everything but the fact as it is.                        *)
LEMMA PanicsQuiet ==
  ASSUME NEW r \in Node
  PROVE  LET q == [r EXCEPT !.panic = TRUE]
         IN  Sheds(r, q) /\ Mute(r, q) /\ q.msgs = r.msgs
<1> DEFINE q == [r EXCEPT !.panic = TRUE]
<1>1. q \in RaftType /\ q.prs = r.prs
  BY Zenon DEF RaftType, Node
<1>2. q \in Node
  BY <1>1, Zenon DEF Node
<1> QED BY <1>2, Zenon DEF RaftType, Node, Mute, Sheds

(* A path may be as short as a move.                                       *)
LEMMA ShortPath ==
  ASSUME NEW N, NEW r, NEW s, s \in Node,
         \/ Move(N, r, s)
         \/ \E a : Move(N, r, a) /\ Move(N, a, s)
         \/ \E a, b : Move(N, r, a) /\ Move(N, a, b) /\ Move(N, b, s)
  PROVE  Path(N, r, s)
<1>1. Move(N, s, s)
  BY QuietRefl DEF Move
<1> QED BY <1>1 DEF Path

(* A vote in the network binds the node, which is never behind its disk.   *)
LEMMA NetVoteBinds ==
  ASSUME NEW N, NEW D \in [Server -> StorageType], NEW r,
         NetInv(N, D), NodeInv(N, D, r),
         NEW c \in Server, NEW t \in Nat, NetVote(N, r.id, c, t)
  PROVE  Bound(r, c, t)
<1> DEFINE h == D[r.id].hardState
<1>1. r.id \in Server /\ r.term \in Nat
  BY LogFields DEF NodeInv
<1>2. D[r.id] \in StorageType
  BY <1>1
<1>3. h.term \in Nat
  BY <1>2 DEF StorageType
<1>4. Bound(h, c, t)
  BY <1>1 DEF NetInv
<1>5. \/ h.term < r.term
      \/ h.term = r.term /\ h.vote \in {None, r.vote}
  BY DEF NodeInv, SavedInv
<1> HIDE DEF h
<1>6. c # None
  BY MembershipAssumption
<1> QED BY <1>1, <1>3, <1>4, <1>5, <1>6 DEF Bound

(* A node's steps.  The network and the storages stay what they are.       *)

(* Between two records of a node nothing new is on its way but harmless    *)
(* messages, and the role is the same.                                     *)
LEMMA MuteInv ==
  ASSUME NEW N, NEW D, NEW r, NEW s, NodeInv(N, D, r), Mute(r, s)
  PROVE  NodeInv(N, D, s)
<1>1. /\ s \in Node /\ s.id = r.id /\ s.term = r.term /\ s.vote = r.vote
      /\ s.state = r.state /\ s.votes = r.votes
      /\ \A m \in s.msgs : m \in r.msgs \/ Harmless(r, m)
  BY DEF Mute
<1>2. ASSUME NEW m \in s.msgs
      PROVE  m.from = s.id /\ MsgInv(N, m)
  <2>1. CASE m \in r.msgs
    BY <1>1, <2>1 DEF NodeInv
  <2>2. CASE Harmless(r, m)
    <3>1. m.term \in Nat
      BY <1>1, LogFields, MsgFields
    <3>2. r.state = "Leader" => Elected(N, r.id, r.term)
      BY DEF NodeInv, RoleInv
    <3> QED BY <1>1, <2>2, <3>1, <3>2 DEF Harmless, Ballot, MsgInv
  <2> QED BY <1>1, <2>1, <2>2
<1>3. ASSUME NEW c, NEW t, OwnVote(s, c, t)
      PROVE  OwnVote(r, c, t)
  BY <1>1, <1>3 DEF OwnVote, NetVote, Harmless, Ballot
<1>4. \A c, t : Bound(r, c, t) => Bound(s, c, t)
  BY <1>1 DEF Bound
<1>5. VoteInv(N, s)
  BY <1>1, <1>3, <1>4 DEF NodeInv, VoteInv
<1>6. SavedInv(D, s) /\ RoleInv(N, s)
  BY <1>1 DEF NodeInv, SavedInv, RoleInv
<1> QED BY <1>1, <1>2, <1>5, <1>6 DEF NodeInv

(* A node that follows in the same or a later term keeps its promises.     *)
LEMMA FollowsInv ==
  ASSUME NEW N, NEW D \in [Server -> StorageType], NEW r, NEW s, NEW t \in Nat,
         NodeInv(N, D, r), t >= r.term, Follows(r, s, t)
  PROVE  NodeInv(N, D, s)
<1>1. /\ s \in Node /\ s.id = r.id /\ s.state = "Follower" /\ s.msgs = r.msgs
      /\ s.term = t /\ s.vote = IF r.term # t THEN None ELSE r.vote
  BY DEF Follows
<1>2. r.term \in Nat /\ r.id \in Server
  BY LogFields DEF NodeInv
<1>3. D[r.id].hardState.term \in Nat
  BY <1>2 DEF StorageType
<1>4. \A c, u : OwnVote(s, c, u) => OwnVote(r, c, u)
  BY <1>1 DEF OwnVote
<1>5. \A c : \A u \in Nat : Bound(r, c, u) => Bound(s, c, u)
  BY <1>1, <1>2 DEF Bound
<1>6. VoteInv(N, s)
  BY <1>1, <1>4, <1>5 DEF NodeInv, VoteInv
<1>7. SavedInv(D, s)
  BY <1>1, <1>2, <1>3 DEF NodeInv, SavedInv
<1>8. RoleInv(N, s)
  BY <1>1 DEF RoleInv
<1> QED BY <1>1, <1>6, <1>7, <1>8 DEF NodeInv

(* A pre-candidate promises nothing.                                       *)
LEMMA ExploresInv ==
  ASSUME NEW N, NEW D, NEW r, NEW s,
         NodeInv(N, D, r), r.id \in Voter, Explores(r, s)
  PROVE  NodeInv(N, D, s)
<1>1. /\ s \in Node /\ s.id = r.id /\ s.state = "PreCandidate" /\ s.msgs = r.msgs
      /\ s.term = r.term /\ s.vote = r.vote
  BY DEF Explores
<1>2. \A c, u : OwnVote(s, c, u) => OwnVote(r, c, u)
  BY <1>1 DEF OwnVote
<1>3. VoteInv(N, s)
  BY <1>1, <1>2 DEF NodeInv, VoteInv, Bound
<1>4. SavedInv(D, s) /\ RoleInv(N, s)
  BY <1>1 DEF NodeInv, SavedInv, RoleInv
<1> QED BY <1>1, <1>3, <1>4 DEF NodeInv

(* A candidate votes for itself in a term in which it has not voted.       *)
LEMMA StandsInv ==
  ASSUME NEW N, NEW D \in [Server -> StorageType], NEW r, NEW s,
         NetInv(N, D), NodeInv(N, D, r), r.id \in Voter, Stands(r, s)
  PROVE  NodeInv(N, D, s)
<1>1. /\ s \in Node /\ s.id = r.id /\ s.state = "Candidate" /\ s.msgs = r.msgs
      /\ s.term = r.term + 1 /\ s.vote = r.id
      /\ \A k \in Server : s.votes[k] = "granted" => k = r.id
  BY DEF Stands
<1>2. r.term \in Nat /\ r.id \in Server
  BY LogFields DEF NodeInv
<1>3. D[r.id].hardState.term \in Nat
  BY <1>2 DEF StorageType
<1>4. ASSUME NEW c, NEW u, OwnVote(s, c, u)
      PROVE  OwnVote(r, c, u) \/ (c = r.id /\ u = r.term + 1)
  BY <1>1, <1>4 DEF OwnVote
<1>5. ASSUME NEW c \in Server, NEW u \in Nat, OwnVote(r, c, u) \/ NetVote(N, r.id, c, u)
      PROVE  Bound(r, c, u) /\ u # r.term + 1 /\ Bound(s, c, u)
  <2>1. Bound(r, c, u)
    BY <1>5, NetVoteBinds DEF NodeInv, VoteInv
  <2> QED BY <1>1, <1>2, <2>1 DEF Bound
<1>6. VoteInv(N, s)
  <2>1. ASSUME NEW c \in Server, NEW u \in Nat, OwnVote(s, c, u)
        PROVE  Bound(s, c, u)
    BY <1>1, <1>4, <1>5, <2>1 DEF Bound
  <2>2. ASSUME NEW c \in Server, NEW d \in Server, NEW u \in Nat, OwnVote(s, c, u),
               OwnVote(s, d, u) \/ NetVote(N, s.id, d, u)
        PROVE  c = d
    <3>1. CASE u = r.term + 1
      BY <1>1, <1>4, <1>5, <2>2, <3>1
    <3>2. CASE u # r.term + 1
      <4>1. OwnVote(r, c, u) /\ (OwnVote(r, d, u) \/ NetVote(N, r.id, d, u))
        BY <1>1, <1>4, <2>2, <3>2
      <4> QED BY <4>1 DEF NodeInv, VoteInv
    <3> QED BY <3>1, <3>2
  <2> QED BY <2>1, <2>2 DEF VoteInv
<1>7. SavedInv(D, s)
  BY <1>1, <1>2, <1>3 DEF NodeInv, SavedInv
<1>8. RoleInv(N, s)
  BY <1>1, <1>2 DEF RoleInv, Supporters
<1> QED BY <1>1, <1>6, <1>7, <1>8 DEF NodeInv

(* A vote may be counted if it is in the network.                          *)
LEMMA PollsInv ==
  ASSUME NEW N, NEW D, NEW r, NEW s, NEW k, NEW granted,
         NodeInv(N, D, r), Polls(r, s, k, granted),
         r.state = "Candidate" /\ granted => k \in Supporters(N, r.id, r.term)
  PROVE  NodeInv(N, D, s)
<1>1. /\ s \in Node /\ s.id = r.id /\ s.state = r.state /\ s.msgs = r.msgs
      /\ s.term = r.term /\ s.vote = r.vote
      /\ \A j \in Server :
           s.votes[j] = "granted" => r.votes[j] = "granted" \/ (j = k /\ granted)
  BY DEF Polls
<1>2. \A c, u : OwnVote(s, c, u) => OwnVote(r, c, u)
  BY <1>1 DEF OwnVote
<1>3. VoteInv(N, s)
  BY <1>1, <1>2 DEF NodeInv, VoteInv, Bound
<1>4. SavedInv(D, s) /\ RoleInv(N, s)
  BY <1>1 DEF NodeInv, SavedInv, RoleInv
<1> QED BY <1>1, <1>3, <1>4 DEF NodeInv

(* A quorum of granted votes is a majority of the voters.                  *)
LEMMA QuorumElects ==
  ASSUME Counting, NEW N, NEW D, NEW r, NodeInv(N, D, r), r.state = "Candidate",
         votesGranted(r) = quorum(r)
  PROVE  Elected(N, r.id, r.term)
<1> DEFINE G == {j \in Server : r.votes[j] = "granted"}
           P == Supporters(N, r.id, r.term)
           n == Cardinality(Voter)
<1>1. r \in Node /\ r.id \in Voter /\ r.term >= 1 /\ G \subseteq P
  BY DEF NodeInv, RoleInv
<1>2. P \in SUBSET Voter
  BY DEF Supporters
<1> HIDE DEF P
<1>3. /\ Cardinality(P) \in Nat /\ Cardinality(G) \in Nat
      /\ Cardinality(G) <= Cardinality(P)
  BY <1>1, <1>2, VoterSubsets
<1>5. Cardinality(G) = n \div 2 + 1
  BY <1>1, VotersOfNode DEF votesGranted, quorum
<1>6. n \in Nat
  BY VoterCount
<1> HIDE DEF G, n
<1>7. 2 * Cardinality(P) > n
  BY <1>3, <1>5, <1>6
<1> QED BY <1>1, <1>7 DEF Elected, P, n

(* A candidate with a quorum of votes may lead.                            *)
LEMMA WinsInv ==
  ASSUME Counting, NEW N, NEW D, NEW r, NEW s,
         NodeInv(N, D, r), r.state = "Candidate", votesGranted(r) = quorum(r),
         Wins(r, s)
  PROVE  NodeInv(N, D, s)
<1>1. /\ s \in Node /\ s.id = r.id /\ s.state = "Leader" /\ s.msgs = r.msgs
      /\ s.term = r.term /\ s.vote = r.vote
  BY DEF Wins
<1>2. Elected(N, r.id, r.term)
  BY QuorumElects
<1>3. \A c, u : OwnVote(s, c, u) => OwnVote(r, c, u)
  BY <1>1 DEF OwnVote
<1>4. VoteInv(N, s)
  BY <1>1, <1>3 DEF NodeInv, VoteInv, Bound
<1>5. SavedInv(D, s) /\ RoleInv(N, s)
  BY <1>1, <1>2 DEF NodeInv, SavedInv, RoleInv
<1> QED BY <1>1, <1>4, <1>5 DEF NodeInv

(* A node votes for c in its term only if it has voted for nobody else.    *)
LEMMA CastsInv ==
  ASSUME NEW N, NEW D \in [Server -> StorageType], NEW r, NEW s, NEW c \in Server,
         NetInv(N, D), NodeInv(N, D, r), r.id \in Voter, r.term >= 1,
         r.vote = c \/ r.vote = None, Casts(r, s, c, r.term)
  PROVE  NodeInv(N, D, s)
<1>1. /\ s \in Node /\ s.id = r.id /\ s.state = r.state /\ s.votes = r.votes
      /\ s.term = r.term /\ s.vote = c
      /\ \A x \in s.msgs :
           x \in r.msgs \/ (/\ x.from = r.id /\ x.type = "MsgVoteResp"
                            /\ x.to = c /\ x.term = r.term)
  BY DEF Casts
<1>2. r.term \in Nat /\ r.id \in Server
  BY LogFields DEF NodeInv
<1>3. ASSUME NEW m \in s.msgs
      PROVE  m.from = s.id /\ MsgInv(N, m)
  BY <1>1 DEF NodeInv, MsgInv, LeaderType
<1>4. ASSUME NEW e, NEW u, OwnVote(s, e, u)
      PROVE  OwnVote(r, e, u) \/ (e = c /\ u = r.term)
  BY <1>1, <1>4 DEF OwnVote, NetVote, LeaderType
<1>5. ASSUME NEW e \in Server, NEW u \in Nat, OwnVote(r, e, u) \/ NetVote(N, r.id, e, u)
      PROVE  Bound(s, e, u) /\ (u = r.term => e = c)
  <2>1. Bound(r, e, u)
    BY <1>5, NetVoteBinds DEF NodeInv, VoteInv
  <2>2. e # None
    BY MembershipAssumption
  <2> QED BY <1>1, <1>2, <2>1, <2>2, SMTT(30) DEF Bound
<1>6. VoteInv(N, s)
  <2>1. ASSUME NEW e \in Server, NEW u \in Nat, OwnVote(s, e, u)
        PROVE  Bound(s, e, u)
    BY <1>1, <1>4, <1>5, <2>1 DEF Bound
  <2>2. ASSUME NEW e \in Server, NEW d \in Server, NEW u \in Nat, OwnVote(s, e, u),
               OwnVote(s, d, u) \/ NetVote(N, s.id, d, u)
        PROVE  e = d
    <3>1. CASE u = r.term
      BY <1>1, <1>4, <1>5, <2>2, <3>1
    <3>2. CASE u # r.term
      <4>1. OwnVote(r, e, u) /\ (OwnVote(r, d, u) \/ NetVote(N, r.id, d, u))
        BY <1>1, <1>4, <2>2, <3>2
      <4> QED BY <4>1 DEF NodeInv, VoteInv
    <3> QED BY <3>1, <3>2
  <2> QED BY <2>1, <2>2 DEF VoteInv
<1>7. SavedInv(D, s)
  BY <1>1 DEF NodeInv, SavedInv
<1>8. RoleInv(N, s)
  BY <1>1 DEF NodeInv, RoleInv
<1> QED BY <1>1, <1>3, <1>6, <1>7, <1>8 DEF NodeInv

(* A move keeps what the node promised.                                    *)
LEMMA MoveInv ==
  ASSUME Counting, NEW N, NEW D \in [Server -> StorageType], NEW r, NEW s,
         NetInv(N, D), NodeInv(N, D, r), Move(N, r, s)
  PROVE  NodeInv(N, D, s)
<1>1. CASE Mute(r, s)
  BY <1>1, MuteInv
<1>2. CASE \E t \in Nat : t >= r.term /\ Follows(r, s, t)
  BY <1>2, FollowsInv
<1>3. CASE r.id \in Voter /\ (Explores(r, s) \/ Stands(r, s))
  BY <1>3, ExploresInv, StandsInv
<1>4. CASE \E k, granted :
             /\ Polls(r, s, k, granted)
             /\ r.state = "Candidate" /\ granted => k \in Supporters(N, r.id, r.term)
  BY <1>4, PollsInv
<1>5. CASE r.state = "Candidate" /\ votesGranted(r) = quorum(r) /\ Wins(r, s)
  BY <1>5, WinsInv
<1>6. CASE /\ r.id \in Voter /\ r.term >= 1
           /\ \E c \in Server : r.vote \in {c, None} /\ Casts(r, s, c, r.term)
  BY <1>6, CastsInv, SMTT(30)
<1>7. Quiet(r, s) \/ (\E m : Heeds(r, s, m) \/ Counts(r, s, m)) => Mute(r, s)
  BY Zenon DEF Quiet, Heeds, Hears, Accepts, Counts, Matches
<1> QED BY <1>1, <1>2, <1>3, <1>4, <1>5, <1>6, <1>7 DEF Move
-----------------------------------------------------------------------------
(* Messages only add to the support of a node.                             *)
LEMMA GrowElected ==
  ASSUME Counting, NEW N, NEW M, N \subseteq M
  PROVE  /\ \A i, t : Supporters(N, i, t) \subseteq Supporters(M, i, t)
         /\ \A i, t : Elected(N, i, t) => Elected(M, i, t)
         /\ \A m : MsgInv(N, m) => MsgInv(M, m)
<1>1. ASSUME NEW i, NEW t PROVE Supporters(N, i, t) \subseteq Supporters(M, i, t)
  BY DEF Supporters
<1>2. ASSUME NEW i, NEW t, Elected(N, i, t) PROVE Elected(M, i, t)
  <2> DEFINE P == Supporters(N, i, t)
             Q == Supporters(M, i, t)
  <2>1. Q \in SUBSET Voter /\ Cardinality(Voter) \in Nat
    BY VoterCount DEF Supporters
  <2>2. P \in SUBSET Q
    BY <1>1
  <2>3. t >= 1 /\ i \in Voter /\ 2 * Cardinality(P) > Cardinality(Voter)
    BY <1>2 DEF Elected
  <2> HIDE DEF P, Q
  <2>4. /\ Cardinality(P) \in Nat /\ Cardinality(Q) \in Nat
        /\ Cardinality(P) <= Cardinality(Q)
    BY <2>1, <2>2, VoterSubsets
  <2>6. 2 * Cardinality(Q) > Cardinality(Voter)
    BY <2>1, <2>3, <2>4
  <2> QED BY <2>3, <2>6 DEF Elected, Q
<1> QED BY <1>1, <1>2 DEF MsgInv

(* Two majorities share a voter, which has voted once: for both.           *)
LEMMA MajorityUnique ==
  ASSUME Counting, NEW N, NEW D, NetInv(N, D),
         NEW i \in Server, NEW j \in Server, NEW t \in Nat,
         Elected(N, i, t), Elected(N, j, t),
         \A c \in Server : NetVote(N, i, c, t) => c = i,
         \A c \in Server : NetVote(N, j, c, t) => c = j
  PROVE  i = j
<1> DEFINE A == Supporters(N, i, t)
           B == Supporters(N, j, t)
<1>1. /\ A \subseteq Voter /\ B \subseteq Voter
      /\ 2 * Cardinality(A) > Cardinality(Voter)
      /\ 2 * Cardinality(B) > Cardinality(Voter)
  BY DEF Elected, Supporters
<1>2. PICK k \in Voter : k \in A /\ k \in B
  <2> HIDE DEF A, B
  <2> QED BY <1>1, VotersMeet
<1>3. k \in Server
  BY DEF Server
<1>4. /\ k = i \/ NetVote(N, k, i, t)
      /\ k = j \/ NetVote(N, k, j, t)
  BY <1>2 DEF Supporters, NetVote
<1>5. NetVote(N, k, i, t) /\ NetVote(N, k, j, t) => i = j
  BY <1>3, SMTT(30) DEF NetInv
<1> QED BY <1>4, <1>5

(* A move within a role sends nothing that binds the node.                 *)
LEMMA MoveMutes ==
  ASSUME NEW r, NEW s,
         Quiet(r, s) \/ \E m : Heeds(r, s, m) \/ Counts(r, s, m)
  PROVE  Mute(r, s)
BY DEF Quiet, Heeds, Hears, Accepts, Counts, Matches

(* What a move does to the log and the commit index.                       *)

(* Unless it panics, the node keeps the entries it knows to be committed.  *)
Keeps(r, s) ==
  \/ s.panic
  \/ /\ ~r.panic
     /\ \A n \in 1..Len(r.log) :
          n <= r.committed => n <= Len(s.log) /\ s.log[n] = r.log[n]
     /\ r.committed <= s.committed
     /\ r.committed <= Len(r.log) => s.committed <= Len(s.log)

(* A move keeps type, id and committed entries.                            *)
LEMMA MoveKeeps ==
  ASSUME NEW N, NEW r, NEW s, Move(N, r, s)
  PROVE  r \in Node /\ s \in Node /\ s.id = r.id /\ Keeps(r, s)
<1>1. r \in Node /\ s \in Node /\ s.id = r.id
  <2>1. Mute(r, s) => r \in Node /\ s \in Node /\ s.id = r.id
    BY DEF Mute
  <2> QED BY <2>1, MoveMutes
             DEF Move, Follows, Explores, Stands, Polls, Wins, Casts
<1>2. /\ r.log \in Seq(Entry) /\ s.log \in Seq(Entry)
      /\ r.committed \in Nat /\ s.committed \in Nat
  BY <1>1, LogFields
<1> DEFINE K == /\ \A n \in 1..Len(r.log) :
                     n <= r.committed => n <= Len(s.log) /\ s.log[n] = r.log[n]
                /\ r.committed <= s.committed
                /\ r.committed <= Len(r.log) => s.committed <= Len(s.log)
<1>3. CASE SameLog(r, s)
  <2>1. s.log = r.log /\ s.committed = r.committed
    BY <1>3 DEF SameLog
  <2>2. K
    BY <1>2, <2>1
  <2> HIDE DEF K
  <2> QED BY <1>1, <1>3, <2>2, Zenon DEF SameLog, Keeps, K
<1>4. ASSUME Extends(r, s), ~s.panic PROVE Keeps(r, s)
  <2>1. /\ ~r.panic
        /\ Len(r.log) <= Len(s.log)
        /\ \A n \in 1..Len(r.log) : s.log[n] = r.log[n]
        /\ r.committed <= s.committed
        /\ r.committed <= Len(r.log) => s.committed <= Len(s.log)
    BY <1>4, Zenon DEF Extends
  <2>2. K
    BY <1>2, <2>1
  <2> HIDE DEF K
  <2> QED BY <2>1, <2>2, Zenon DEF Keeps, K
<1>5. ASSUME NEW m, Accepts(r, s, m) PROVE Keeps(r, s)
  <2>1. CASE s.panic
    BY <2>1 DEF Keeps
  <2>2. CASE ~s.panic
    <3>1. ~r.panic /\ K
      BY <1>5, <2>2, Zenon DEF Accepts, Takes
    <3> QED BY <3>1, Zenon DEF Keeps
  <2> QED BY <2>1, <2>2
<1>6. s.panic => Keeps(r, s)
  BY DEF Keeps
<1>8. ASSUME NEW m, Counts(r, s, m) PROVE SameLog(r, s)
  BY <1>8, SMTT(30) DEF Counts, Matches, SameLog
<1>7. SameLog(r, s) \/ Extends(r, s) \/ \E m : Accepts(r, s, m)
  BY <1>8, ZenonT(30) DEF Move, Quiet, Heeds, Hears, Follows, Explores,
     Stands, Polls, Wins, Casts
<1> QED BY <1>1, <1>3, <1>4, <1>5, <1>6, <1>7, SMTT(30)

(* A leader has led its term.                                              *)
LEMMA LeaderLed ==
  ASSUME NEW N, NEW D, NEW r, NodeInv(N, D, r), r.state = "Leader"
  PROVE  Led(N, r, r.term)
<1>1. r.id \in Server /\ r.term \in Nat /\ VoteInv(N, r) /\ RoleInv(N, r)
  BY LogFields DEF NodeInv
<1>2. OwnVote(r, r.id, r.term)
  BY DEF OwnVote
<1>3. Bound(r, r.id, r.term)
  BY <1>1, <1>2 DEF VoteInv
<1>4. \A c \in Server : NetVote(N, r.id, c, r.term) \/ OwnVote(r, c, r.term) => c = r.id
  BY <1>1, <1>2 DEF VoteInv
<1> QED BY <1>1, <1>3, <1>4 DEF Led, RoleInv

(* A move does not undo that.                                              *)
LEMMA LedMove ==
  ASSUME NEW N, NEW D, NEW r, NEW s, NEW t \in Nat,
         NodeInv(N, D, r), Move(N, r, s), Led(N, r, t)
  PROVE  Led(N, s, t)
<1>1. r \in Node /\ s \in Node /\ s.id = r.id
  BY MoveKeeps
<1>2. /\ r.id \in Server /\ r.term \in Nat /\ s.term \in Nat
      /\ r.vote \in Server \cup {None} /\ None \notin Server
  BY <1>1, LogFields, MembershipAssumption
<1>3. /\ Elected(N, r.id, t) /\ Bound(r, r.id, t)
      /\ ~(r.term = t /\ r.state = "Candidate")
      /\ \A c \in Server : NetVote(N, r.id, c, t) \/ OwnVote(r, c, t) => c = r.id
  BY DEF Led
<1> SUFFICES ASSUME TRUE
             PROVE  /\ Bound(s, r.id, t) /\ ~(s.term = t /\ s.state = "Candidate")
                    /\ \A c \in Server : OwnVote(s, c, t) => c = r.id
  BY <1>1, <1>3, SMTT(30) DEF Led
<1>4. CASE Mute(r, s)
  <2>1. \A c : OwnVote(s, c, t) => OwnVote(r, c, t)
    BY <1>4 DEF Mute, OwnVote, NetVote, Harmless, Ballot
  <2> QED BY <1>3, <1>4, <2>1 DEF Mute, Bound
<1>5. ASSUME NEW u \in Nat, u >= r.term, Follows(r, s, u)
      PROVE  /\ Bound(s, r.id, t) /\ ~(s.term = t /\ s.state = "Candidate")
             /\ \A c \in Server : OwnVote(s, c, t) => c = r.id
  <2>1. \A c : OwnVote(s, c, t) => OwnVote(r, c, t)
    BY <1>1, <1>5 DEF Follows, OwnVote
  <2>2. Bound(s, r.id, t)
    BY <1>2, <1>3, <1>5 DEF Follows, Bound
  <2> QED BY <1>3, <1>5, <2>1, <2>2 DEF Follows
<1>6. CASE Explores(r, s)
  <2>1. \A c : OwnVote(s, c, t) => OwnVote(r, c, t)
    BY <1>1, <1>6 DEF Explores, OwnVote
  <2> QED BY <1>3, <1>6, <2>1 DEF Explores, Bound
<1>7. CASE Stands(r, s)
  <2>1. \A c : OwnVote(s, c, t) => OwnVote(r, c, t) \/ c = r.id
    BY <1>1, <1>7 DEF Stands, OwnVote
  <2>2. s.term > t
    BY <1>2, <1>3, <1>7 DEF Stands, Bound
  <2>3. s.term # t /\ Bound(s, r.id, t)
    BY <1>2, <2>2, SMTT(30) DEF Bound
  <2> QED BY <1>3, <2>1, <2>3
<1>8. CASE \E k, granted : Polls(r, s, k, granted)
  <2>1. \A c : OwnVote(s, c, t) => OwnVote(r, c, t)
    BY <1>1, <1>8, SMTT(30) DEF Polls, OwnVote
  <2> QED BY <1>3, <1>8, <2>1 DEF Polls, Bound
<1>9. CASE r.state = "Candidate" /\ Wins(r, s)
  <2>1. \A c : OwnVote(s, c, t) => OwnVote(r, c, t)
    BY <1>1, <1>9 DEF Wins, OwnVote
  <2> QED BY <1>3, <1>9, <2>1 DEF Wins, Bound
<1>10. ASSUME NEW v \in Server, r.vote \in {v, None}, Casts(r, s, v, r.term)
       PROVE  /\ Bound(s, r.id, t) /\ ~(s.term = t /\ s.state = "Candidate")
              /\ \A c \in Server : OwnVote(s, c, t) => c = r.id
  <2>1. r.term = t => v = r.id
    BY <1>2, <1>3, <1>10 DEF Bound
  <2>2. ASSUME NEW c \in Server, OwnVote(s, c, t) PROVE OwnVote(r, c, t) \/ c = r.id
    BY <1>1, <1>10, <2>1, <2>2 DEF Casts, OwnVote, NetVote, LeaderType
  <2> QED BY <1>3, <1>10, <2>1, <2>2 DEF Casts, Bound
<1> QED BY <1>4, <1>5, <1>6, <1>7, <1>8, <1>9, <1>10, MoveMutes, Zenon DEF Move

(* Two nodes that have led the same term are the same.                     *)
LEMMA OneHasLed ==
  ASSUME Counting,
         NEW N, NEW D, NetInv(N, D), NEW t \in Nat, NEW r \in Node, NEW s \in Node,
         Led(N, r, t), Elected(N, s.id, t),
         \A c \in Server : NetVote(N, s.id, c, t) => c = s.id
  PROVE  r.id = s.id
<1>1. r.id \in Server /\ s.id \in Server
  BY LogFields
<1>2. Elected(N, r.id, t) /\ \A c \in Server : NetVote(N, r.id, c, t) => c = r.id
  BY DEF Led
<1> QED BY <1>1, <1>2, MajorityUnique

(* A move keeps that.                                                      *)
LEMMA MoveWorld ==
  ASSUME Counting, NEW N, NEW D, NEW R, World(N, D, R), NEW i \in Server, NEW s,
         Move(N, R[i], s)
  PROVE  World(N, D, [R EXCEPT ![i] = s])
<1>1. /\ N \subseteq Msg /\ D \in [Server -> StorageType] /\ R \in [Server -> Node]
      /\ NetInv(N, D) /\ R[i].id = i /\ NodeInv(N, D, R[i])
      /\ \A j \in Server : R[j].id = j /\ NodeInv(N, D, R[j])
  BY DEF World
<1>2. s \in Node /\ s.id = i
  BY <1>1, MoveKeeps
<1>3. NodeInv(N, D, s)
  BY <1>1, MoveInv
<1>4. \A j \in Server : [R EXCEPT ![i] = s][j] = IF j = i THEN s ELSE R[j]
  BY <1>1
<1> QED BY <1>1, <1>2, <1>3, <1>4 DEF World

(* The invariant of elections says it of the cluster.                      *)
LEMMA ElectionWorld == ElectionInv => World(network, storage, raft)
BY DEF ElectionInv, TypeInv, World

(* Having led is kept when messages leave or are forgotten.                *)
LEMMA ShedsLed ==
  ASSUME Counting, NEW N, NEW r, NEW s, Sheds(r, s), NEW M, N \subseteq M,
         M \subseteq N \cup r.msgs, NEW t, Led(N, r, t)
  PROVE  Led(M, s, t)
<1>1. /\ s.id = r.id /\ s.term = r.term /\ s.vote = r.vote /\ s.state = r.state
      /\ s.msgs \subseteq r.msgs
  BY DEF Sheds
<1>2. /\ Elected(N, r.id, t) /\ Bound(r, r.id, t)
      /\ ~(r.term = t /\ r.state = "Candidate")
      /\ \A c \in Server : NetVote(N, r.id, c, t) \/ OwnVote(r, c, t) => c = r.id
  BY DEF Led
<1>3. Elected(M, s.id, t)
  BY <1>1, <1>2, GrowElected
<1>4. \A c : NetVote(M, s.id, c, t) \/ OwnVote(s, c, t) =>
             NetVote(N, r.id, c, t) \/ OwnVote(r, c, t)
  BY <1>1 DEF NetVote, OwnVote
<1>5. Bound(s, s.id, t)
  BY <1>1, <1>2 DEF Bound
<1> QED BY <1>1, <1>2, <1>3, <1>4, <1>5 DEF Led

(* Having led is kept when a node saves its state and sends its messages.  *)
LEMMA SendsLed ==
  ASSUME Counting, NEW N, NEW D, NEW R, World(N, D, R), NEW i \in Server, NEW s,
         Sheds(R[i], s), NEW k \in Server, NEW t, Led(N, R[k], t)
  PROVE  Led(N \cup R[i].msgs, [R EXCEPT ![i] = s][k], t)
<1> DEFINE M == N \cup R[i].msgs
<1>1. /\ R \in [Server -> Node] /\ R[k].id = k
      /\ \A m \in R[i].msgs : m.from = i
  BY DEF World, NodeInv
<1>2. CASE k = i
  <2>1. Led(M, s, t)
    BY <1>2, ShedsLed
  <2> QED BY <1>1, <1>2, <2>1
<1>3. CASE k # i
  <2>1. \A c : NetVote(M, k, c, t) => NetVote(N, k, c, t)
    BY <1>1, <1>3 DEF NetVote
  <2>2. Elected(N, k, t) => Elected(M, k, t)
    BY GrowElected
  <2>3. Led(M, R[k], t)
    <3> HIDE DEF M
    <3> QED BY <1>1, <2>1, <2>2 DEF Led
  <2> QED BY <1>1, <1>3, <2>3
<1> QED BY <1>2, <1>3

(* What a node has led survives its crash once its state is saved.         *)
LEMMA SendsSafe ==
  ASSUME Counting,
         NEW N, NEW D, NEW R, World(N, D, R), NEW i \in Server, NEW s, NEW st,
         Sheds(R[i], s), Saves(R[i], st), NEW t,
         Safe(N, D, R, t) \/ Led(N, R[i], t)
  PROVE  Safe(N \cup R[i].msgs, [D EXCEPT ![i] = st], [R EXCEPT ![i] = s], t)
<1> DEFINE E == [D EXCEPT ![i] = st]
           M == N \cup R[i].msgs
           S == [R EXCEPT ![i] = s]
<1>1. PICK k \in Server : Led(N, R[k], t) /\ (k = i \/ Bound(D[k].hardState, k, t))
  BY DEF Safe
<1>2. Led(M, S[k], t)
  BY <1>1, SendsLed, ZenonT(30)
<1>3. D \in [Server -> StorageType] /\ R[k].id = k
  BY DEF World
<1>4. Bound(E[k].hardState, k, t)
  <2>1. CASE k # i
    BY <1>1, <1>3, <2>1
  <2>2. CASE k = i
    <3>1. Bound(R[i], i, t)
      BY <1>1, <1>3, <2>2 DEF Led
    <3>2. E[i] = st
      BY <1>3, SMTT(30)
    <3>3. st.hardState.term = R[i].term /\ st.hardState.vote = R[i].vote
      BY SMTT(30) DEF Saves
    <3> QED BY <2>2, <3>1, <3>2, <3>3 DEF Bound
  <2> QED BY <2>1, <2>2
<1> HIDE DEF E, M, S
<1>5. Safe(M, E, S, t)
  BY <1>2, <1>4 DEF Safe
<1> QED BY <1>5, SMTT(30) DEF E, M, S

(* What a process has led and saved, the next one has led.                *)
LEMMA LoadsSafe ==
  ASSUME NEW N, NEW D, NEW R, World(N, D, R), NEW i \in Server, NEW s,
         Loads(i, D[i], s), NEW t, Safe(N, D, R, t)
  PROVE  Safe(N, D, [R EXCEPT ![i] = s], t)
<1> DEFINE S == [R EXCEPT ![i] = s]
<1>1. /\ D \in [Server -> StorageType] /\ R \in [Server -> Node] /\ R[i].id = i
      /\ s.msgs = {} /\ s.state = "Follower" /\ s.id = i
      /\ s.term = D[i].hardState.term /\ s.vote = D[i].hardState.vote
  BY DEF World, Loads
<1>2. S[i] = s /\ \A k \in Server : k # i => S[k] = R[k]
  BY <1>1, SMTT(30)
<1>3. ASSUME Led(N, R[i], t), Bound(D[i].hardState, i, t) PROVE Led(N, s, t)
  <2>1. \A c : ~OwnVote(s, c, t)
    BY <1>1 DEF OwnVote, NetVote
  <2>2. Bound(s, i, t)
    BY <1>1, <1>3 DEF Bound
  <2> QED BY <1>1, <1>3, <2>1, <2>2, SMTT(30) DEF Led
<1> HIDE DEF S
<1>4. Safe(N, D, S, t)
  BY <1>2, <1>3 DEF Safe
<1> QED BY <1>4, SMTT(30) DEF S
-----------------------------------------------------------------------------
(* Elections and logs, as far as they follow from what moves, Ready and    *)
(* Restart are, whatever handlers they come from.  N stands for the        *)
(* network, D for the storages, R for the records of the nodes.            *)

(* A path of moves keeps what one move keeps.                              *)
LEMMA PathInv ==
  ASSUME Counting, NEW N, NEW D \in [Server -> StorageType], NEW r, NEW s,
         NetInv(N, D), NodeInv(N, D, r), Path(N, r, s)
  PROVE  NodeInv(N, D, s)
<1>1. PICK a, b, c : Move(N, r, a) /\ Move(N, a, b) /\ Move(N, b, c) /\ Move(N, c, s)
  BY DEF Path
<1>2. NodeInv(N, D, a)
  BY <1>1, MoveInv
<1>3. NodeInv(N, D, b)
  BY <1>1, <1>2, MoveInv
<1>4. NodeInv(N, D, c)
  BY <1>1, <1>3, MoveInv
<1> QED BY <1>1, <1>4, MoveInv
-----------------------------------------------------------------------------
(* Ready: the mailbox of a node joins the network, its vote is saved.      *)

(* A path keeps the invariant of the cluster.                              *)
LEMMA MovesElections ==
  ASSUME Counting, ElectionInv, TypeInv', NEW i \in Server, Moves(i)
  PROVE  ElectionInv'
<1> DEFINE r == raft[i]
           q == [r EXCEPT !.panic = TRUE]
<1>1. /\ r \in Node /\ NodeInv(network, storage, r) /\ NetInv(network, storage)
      /\ storage \in [Server -> StorageType]
  BY DEF ElectionInv, TypeInv
<1>2. PICK s : Path(network, r, s) /\ Update(i, s)
  BY DEF Moves
<1>3. raft' = [raft EXCEPT ![i] = IF s.panic THEN q ELSE s]
  BY <1>2 DEF Update
<1>4. NodeInv(network, storage, s)
  BY <1>1, <1>2, PathInv
<1>5. NodeInv(network, storage, q)
  BY <1>1, PanicsQuiet, MuteInv
<1> HIDE DEF q, r
<1>6. \A j \in Server : raft'[j] \in {raft[j], q, s}
  BY <1>3 DEF ElectionInv, TypeInv
<1>7. \A j \in Server : NodeInv(network, storage, raft'[j])
  BY <1>4, <1>5, <1>6 DEF ElectionInv
<1>8. UNCHANGED <<storage, network>>
  BY DEF Moves
<1> QED BY <1>1, <1>7, <1>8 DEF ElectionInv

(* Saving term and vote before sending keeps every promise: what was       *)
(* promised in memory is promised on disk.                                 *)
LEMMA ReadyInv ==
  ASSUME Counting, NEW N, NEW D \in [Server -> StorageType], NEW r,
         NetInv(N, D), NodeInv(N, D, r),
         NEW st \in StorageType, st.hardState.term = r.term, st.hardState.vote = r.vote
  PROVE  LET M == N \cup r.msgs
             E == [D EXCEPT ![r.id] = st]
         IN  /\ NetInv(M, E)
             /\ \A q : NodeInv(N, D, q) /\ q.id # r.id => NodeInv(M, E, q)
             /\ \A q : /\ q \in Node /\ q.id = r.id /\ q.term = r.term /\ q.vote = r.vote
                       /\ q.state = r.state /\ q.votes = r.votes /\ q.msgs \subseteq r.msgs
                       => NodeInv(M, E, q)
<1> DEFINE M == N \cup r.msgs
           E == [D EXCEPT ![r.id] = st]
<1>1. r \in Node /\ r.id \in Server /\ \A m \in r.msgs : m.from = r.id /\ MsgInv(N, m)
  BY LogFields DEF NodeInv
<1>2. /\ \A i, t : Supporters(N, i, t) \subseteq Supporters(M, i, t)
      /\ \A i, t : Elected(N, i, t) => Elected(M, i, t)
      /\ \A m : MsgInv(N, m) => MsgInv(M, m)
  BY GrowElected
<1>3. /\ E[r.id].hardState.term = r.term /\ E[r.id].hardState.vote = r.vote
      /\ \A j \in Server : j # r.id => E[j] = D[j]
  BY <1>1
<1>4. \A m \in M : MsgInv(M, m)
  BY <1>1, <1>2, Zenon DEF NetInv
<1>5. ASSUME NEW j, NEW c, NEW t, NetVote(M, j, c, t)
      PROVE  NetVote(N, j, c, t) \/ (j = r.id /\ OwnVote(r, c, t))
  BY <1>1, <1>5, Zenon DEF NetVote, OwnVote
<1> HIDE DEF M, E
<1>6. NetInv(M, E)
  <2>1. ASSUME NEW j \in Server, NEW c \in Server, NEW t \in Nat, NetVote(M, j, c, t)
        PROVE  Bound(E[j].hardState, c, t)
    <3>1. CASE j # r.id
      BY <1>3, <1>5, <2>1, <3>1 DEF NetInv
    <3>2. CASE j = r.id
      <4>1. Bound(r, c, t)
        BY <1>5, <2>1, <3>2, NetVoteBinds DEF NodeInv, VoteInv
      <4> QED BY <1>3, <3>2, <4>1, Zenon DEF Bound
    <3> QED BY <3>1, <3>2
  <2>2. ASSUME NEW j \in Server, NEW c \in Server, NEW d \in Server, NEW t \in Nat,
               NetVote(M, j, c, t), NetVote(M, j, d, t)
        PROVE  c = d
    BY <1>5, <2>2, SMTT(30) DEF NetInv, NodeInv, VoteInv
  <2> QED BY <1>4, <2>1, <2>2 DEF NetInv
<1>7. ASSUME NEW q, NodeInv(N, D, q), q.id # r.id
      PROVE  NodeInv(M, E, q)
  <2>1. q \in Node /\ q.id \in Server
    BY <1>7, LogFields DEF NodeInv
  <2>2. \A m \in q.msgs : m.from = q.id /\ MsgInv(M, m)
    BY <1>2, <1>7 DEF NodeInv
  <2>3. SavedInv(E, q)
    BY <1>3, <1>7, <2>1, Zenon DEF NodeInv, SavedInv
  <2>4. VoteInv(M, q)
    BY <1>5, <1>7, Zenon DEF NodeInv, VoteInv
  <2>5. RoleInv(M, q)
    BY <1>2, <1>7 DEF NodeInv, RoleInv
  <2> QED BY <2>1, <2>2, <2>3, <2>4, <2>5 DEF NodeInv
<1>8. ASSUME NEW q, q \in Node, q.id = r.id, q.term = r.term, q.vote = r.vote,
             q.state = r.state, q.votes = r.votes, q.msgs \subseteq r.msgs
      PROVE  NodeInv(M, E, q)
  <2>1. \A c, t : OwnVote(q, c, t) => OwnVote(r, c, t)
    BY <1>8 DEF OwnVote, NetVote
  <2>2. SavedInv(E, q)
    BY <1>3, <1>8 DEF SavedInv
  <2>3. VoteInv(M, q)
    <3>1. ASSUME NEW c \in Server, NEW t \in Nat, OwnVote(q, c, t) PROVE Bound(q, c, t)
      BY <1>8, <2>1, <3>1 DEF NodeInv, VoteInv, Bound
    <3>2. ASSUME NEW c \in Server, NEW d \in Server, NEW t \in Nat, OwnVote(q, c, t),
                 OwnVote(q, d, t) \/ NetVote(M, q.id, d, t)
          PROVE  c = d
      BY <1>5, <1>8, <2>1, <3>2, Zenon DEF NodeInv, VoteInv
    <3> QED BY <3>1, <3>2 DEF VoteInv
  <2>4. RoleInv(M, q)
    BY <1>2, <1>8 DEF NodeInv, RoleInv
  <2>5. \A m \in q.msgs : m.from = q.id /\ MsgInv(M, m)
    BY <1>1, <1>2, <1>8, Zenon
  <2> QED BY <1>8, <2>2, <2>3, <2>4, <2>5 DEF NodeInv
<1> QED BY <1>6, <1>7, <1>8, Zenon DEF M, E

(* A process that starts has promised nothing but what is saved.           *)
LEMMA LoadsInv ==
  ASSUME NEW N, NEW D, NEW i, NEW s, Loads(i, D[i], s) PROVE NodeInv(N, D, s)
<1>1. /\ s \in Node /\ s.id = i /\ s.state = "Follower" /\ s.msgs = {}
      /\ s.term = D[i].hardState.term /\ s.vote = D[i].hardState.vote
  BY DEF Loads
<1>2. \A c, t : ~OwnVote(s, c, t)
  BY <1>1 DEF OwnVote, NetVote
<1> QED BY <1>1, <1>2 DEF NodeInv, SavedInv, VoteInv, RoleInv

(* Whoever acts as leader in a term is elected in it.                      *)
LEMMA OneIsElected ==
  ASSUME Counting, ElectionInv, NEW i \in Server, NEW j \in Server, NEW t \in Nat,
         Leads(i, t), Leads(j, t)
  PROVE  i = j
<1>1. ASSUME NEW k \in Server, Leads(k, t)
      PROVE  /\ Elected(network, k, t)
             /\ \A c \in Server : NetVote(network, k, c, t) => c = k
  <2>1. NodeInv(network, storage, raft[k]) /\ raft[k].id = k
    BY DEF ElectionInv, TypeInv
  <2>2. /\ Elected(network, k, t)
        /\ OwnVote(raft[k], k, t) \/ NetVote(network, k, k, t)
    <3>1. CASE raft[k].state = "Leader" /\ raft[k].term = t
      BY <2>1, <3>1, Zenon DEF NodeInv, RoleInv, OwnVote
    <3>2. CASE \E m \in network : m.type \in LeaderType /\ m.from = k /\ m.term = t
      BY <3>2, SMTT(30) DEF ElectionInv, NetInv, MsgInv, NetVote
    <3> QED BY <1>1, <3>1, <3>2, Zenon DEF Leads, LeaderType
  <2>3. ASSUME NEW c \in Server, NetVote(network, k, c, t) PROVE c = k
    <3>1. VoteInv(network, raft[k])
      BY <2>1 DEF NodeInv
    <3>2. OwnVote(raft[k], k, t) => c = k
      BY <2>1, <2>3, <3>1 DEF VoteInv
    <3>3. NetVote(network, k, k, t) => c = k
      BY <2>3 DEF ElectionInv, NetInv
    <3> QED BY <2>2, <3>2, <3>3
  <2> QED BY <2>2, <2>3
<1>2. NetInv(network, storage)
  BY DEF ElectionInv
<1>3. /\ Elected(network, i, t) /\ Elected(network, j, t)
      /\ \A c \in Server : NetVote(network, i, c, t) => c = i
      /\ \A c \in Server : NetVote(network, j, c, t) => c = j
  BY <1>1
<1> QED BY <1>2, <1>3, MajorityUnique

(* Saving and sending keeps the invariant of elections.                    *)
LEMMA SavingElections ==
  ASSUME Counting, ElectionInv, TypeInv', NEW i \in Server, Saving(i)
  PROVE  ElectionInv'
<1> DEFINE r == raft[i]
<1>1. PICK s, st :
        /\ Sheds(r, s) /\ Saves(r, st) /\ raft' = [raft EXCEPT ![i] = s]
        /\ storage' = [storage EXCEPT ![i] = st]
        /\ network' = network \cup r.msgs
  BY Zenon DEF Saving
<1>2. /\ r \in Node /\ r.id = i /\ storage \in [Server -> StorageType]
      /\ NetInv(network, storage) /\ NodeInv(network, storage, r)
  BY DEF ElectionInv, TypeInv
<1>4. /\ NetInv(network', storage')
      /\ \A p : NodeInv(network, storage, p) /\ p.id # i =>
                 NodeInv(network', storage', p)
      /\ NodeInv(network', storage', s)
  <2> DEFINE M == network \cup r.msgs
             E == [storage EXCEPT ![r.id] = st]
  <2>1. /\ st \in StorageType /\ st.hardState.term = r.term
        /\ st.hardState.vote = r.vote
    BY <1>1 DEF Saves
  <2>2. network' = M /\ storage' = E
    BY <1>1, <1>2
  <2> HIDE DEF r
  <2>3. /\ NetInv(M, E)
        /\ \A p : NodeInv(network, storage, p) /\ p.id # r.id => NodeInv(M, E, p)
        /\ \A p : /\ p \in Node /\ p.id = r.id /\ p.term = r.term /\ p.vote = r.vote
                  /\ p.state = r.state /\ p.votes = r.votes /\ p.msgs \subseteq r.msgs
                  => NodeInv(M, E, p)
    BY <1>2, <2>1, ReadyInv, Zenon
  <2> HIDE DEF M, E
  <2>4. NodeInv(M, E, s)
    BY <1>1, <2>3 DEF Sheds
  <2> QED BY <1>2, <2>2, <2>3, <2>4, Zenon
<1>5. ASSUME NEW j \in Server PROVE NodeInv(network', storage', raft'[j])
  <2>1. CASE j = i
    BY <1>1, <1>4, <2>1, Zenon DEF ElectionInv, TypeInv
  <2>2. CASE j # i
    <3>1. raft'[j] = raft[j] /\ raft[j].id = j
      BY <1>1, <2>2 DEF ElectionInv, TypeInv
    <3> QED BY <1>4, <2>2, <3>1, Zenon DEF ElectionInv
  <2> QED BY <2>1, <2>2, Zenon
<1> QED BY <1>4, <1>5 DEF ElectionInv

(* A restart forgets no vote that is on its way.                           *)
LEMMA LoadingElections ==
  ASSUME ElectionInv, TypeInv', NEW i \in Server, Loading(i)
  PROVE  ElectionInv'
<1>1. TypeInv /\ NetInv(network, storage)
  BY DEF ElectionInv
<1>2. PICK s : Loads(i, storage[i], s) /\ raft' = [raft EXCEPT ![i] = s]
  BY Zenon DEF Loading
<1>3. NodeInv(network, storage, s)
  BY <1>2, LoadsInv
<1>4. \A j \in Server : raft'[j] \in {raft[j], s}
  BY <1>1, <1>2 DEF TypeInv
<1>5. \A j \in Server : NodeInv(network, storage, raft'[j])
  BY <1>3, <1>4 DEF ElectionInv
<1>6. UNCHANGED <<storage, network>>
  BY DEF Loading
<1> QED BY <1>1, <1>5, <1>6 DEF ElectionInv

(* The invariant of elections holds initially.                             *)
LEMMA StartElections == ASSUME Starts PROVE ElectionInv
<1>1. TypeInv /\ network = {}
  BY DEF Starts
<1>2. NetInv(network, storage)
  BY <1>1 DEF NetInv, NetVote
<1>3. \A i \in Server : NodeInv(network, storage, raft[i])
  BY LoadsInv DEF Starts
<1> QED BY <1>1, <1>2, <1>3 DEF ElectionInv

(* Every step keeps it.                                                    *)
LEMMA ActsElections == ASSUME Counting, ElectionInv, TypeInv', Acts PROVE ElectionInv'
<1>1. CASE UNCHANGED <<raft, storage, network>>
  BY <1>1 DEF ElectionInv
<1> QED BY <1>1, MovesElections, SavingElections, LoadingElections DEF Acts

(* It implies that one node leads in a term.                               *)
LEMMA ElectionsSafe == ASSUME Counting, ElectionInv PROVE ElectionSafety
<1> SUFFICES ASSUME NEW i \in Server, NEW j \in Server,
                    NEW t \in {raft[i].term} \cup {m.term : m \in network},
                    Leads(i, t), Leads(j, t)
             PROVE  i = j
  BY Zenon DEF ElectionSafety
<1>1. raft[i].term \in Nat /\ \A m \in network : m.term \in Nat
  BY LogFields, MsgFields DEF ElectionInv, TypeInv
<1>2. t \in Nat
  BY <1>1
<1> QED BY <1>2, OneIsElected
-----------------------------------------------------------------------------
(* The node r knows of every entry that is saved as committed, and has it. *)
CommitInv(D, r) ==
  LET saved == D[r.id]
      c == saved.hardState.commit
  IN  /\ c <= Len(saved.log) /\ c <= r.committed /\ r.committed <= Len(r.log)
      /\ \A n \in 1..c : r.log[n] = saved.log[n]

(* A move keeps that, unless it panics.                                    *)
LEMMA MoveCommits ==
  ASSUME NEW N, NEW D \in [Server -> StorageType], NEW r, NEW s,
         Move(N, r, s), r.panic \/ CommitInv(D, r)
  PROVE  s.panic \/ CommitInv(D, s)
<1> DEFINE c == D[r.id].hardState.commit
           l == D[r.id].log
<1>1. r \in Node /\ s \in Node /\ s.id = r.id /\ Keeps(r, s)
  BY MoveKeeps
<1>2. /\ r.log \in Seq(Entry) /\ s.log \in Seq(Entry) /\ r.id \in Server
      /\ r.committed \in Nat /\ s.committed \in Nat
  BY <1>1, LogFields
<1>3. l \in Seq(Entry) /\ c \in Nat
  BY <1>2 DEF StorageType
<1> SUFFICES ASSUME ~s.panic PROVE CommitInv(D, s)
  OBVIOUS
<1>4. /\ ~r.panic /\ r.committed <= s.committed
      /\ \A n \in 1..Len(r.log) :
           n <= r.committed => n <= Len(s.log) /\ s.log[n] = r.log[n]
      /\ r.committed <= Len(r.log) => s.committed <= Len(s.log)
  BY <1>1, Zenon DEF Keeps
<1>5. /\ c <= Len(l) /\ c <= r.committed /\ r.committed <= Len(r.log)
      /\ \A n \in 1..c : r.log[n] = l[n]
  BY <1>4, Zenon DEF CommitInv
<1> HIDE DEF c, l
<1>6. /\ c <= s.committed /\ s.committed <= Len(s.log)
      /\ \A n \in 1..c : s.log[n] = l[n]
  BY <1>2, <1>3, <1>4, <1>5
<1> QED BY <1>1, <1>5, <1>6, Zenon DEF CommitInv, c, l

CommitsInv ==
  /\ ElectionInv
  /\ \A i \in Server : CommitInv(storage, raft[i])

(* A path of moves keeps every node's.                                     *)
LEMMA MovesCommits ==
  ASSUME CommitsInv, NEW i \in Server, Moves(i)
  PROVE  \A j \in Server : CommitInv(storage', raft'[j])
<1> DEFINE r == raft[i]
           q == [r EXCEPT !.panic = TRUE]
<1>1. /\ r \in Node /\ storage \in [Server -> StorageType] /\ CommitInv(storage, r)
      /\ storage' = storage
  BY DEF CommitsInv, ElectionInv, TypeInv, Moves
<1>2. PICK s : Path(network, r, s) /\ Update(i, s)
  BY DEF Moves
<1>3. raft' = [raft EXCEPT ![i] = IF s.panic THEN q ELSE s]
  BY <1>2 DEF Update
<1>4. PICK a, b, c : /\ Move(network, r, a) /\ Move(network, a, b)
                     /\ Move(network, b, c) /\ Move(network, c, s)
  BY <1>2 DEF Path
<1>5. CommitInv(storage, q)
  <2>1. Sheds(r, q)
    BY <1>1, PanicsQuiet
  <2> HIDE DEF q, r
  <2> QED BY <1>1, <2>1 DEF Sheds, CommitInv
<1> HIDE DEF q, r
<1>6. a.panic \/ CommitInv(storage, a)
  BY <1>1, <1>4, MoveCommits
<1>7. b.panic \/ CommitInv(storage, b)
  BY <1>1, <1>4, <1>6, MoveCommits
<1>8. c.panic \/ CommitInv(storage, c)
  BY <1>1, <1>4, <1>7, MoveCommits
<1>9. s.panic \/ CommitInv(storage, s)
  BY <1>1, <1>4, <1>8, MoveCommits
<1>10. CommitInv(storage, IF s.panic THEN q ELSE s)
  BY <1>5, <1>9
<1>11. raft \in [Server -> Node]
  BY DEF CommitsInv, ElectionInv, TypeInv
<1> QED BY <1>1, <1>3, <1>10, <1>11 DEF CommitsInv

(* A new process knows what is saved.                                      *)
LEMMA LoadsCommits ==
  ASSUME NEW D \in [Server -> StorageType], NEW i \in Server, NEW s,
         Loads(i, D[i], s), D[i].hardState.commit <= Len(D[i].log)
  PROVE  CommitInv(D, s)
<1>1. D[i].hardState.commit \in Nat
  BY DEF StorageType
<1>2. s.id = i /\ s.log = D[i].log /\ s.committed = D[i].hardState.commit
  BY DEF Loads
<1> QED BY <1>1, <1>2 DEF CommitInv

(* Up to the saved commit index two logs agree: the one extends the        *)
(* other's committed entries.                                              *)
LEMMA AgreeingPrefix ==
  ASSUME NEW l \in Seq(Entry), NEW k \in Seq(Entry), NEW c \in Nat,
         c <= Len(l), c <= Len(k), \A n \in 1..c : k[n] = l[n]
  PROVE  Prefix(SubSeq(l, 1, c), k)
<1>1. SubSeq(l, 1, c) \in Seq(Entry) /\ Len(SubSeq(l, 1, c)) = c
  OBVIOUS
<1>2. SubSeq(k, 1, c) = SubSeq(l, 1, c)
  OBVIOUS
<1> QED BY <1>1, <1>2 DEF Prefix

(* What is saved is no later commit index than the node's, and its log.    *)
LEMMA SavingCommits ==
  ASSUME CommitsInv, NEW i \in Server, Saving(i)
  PROVE  \A j \in Server : CommitInv(storage', raft'[j])
<1>1. TypeInv /\ CommitInv(storage, raft[i]) /\ raft[i] \in Node /\ raft[i].id = i
  BY DEF CommitsInv, ElectionInv, TypeInv
<1>2. PICK s, st :
        /\ Sheds(raft[i], s) /\ Saves(raft[i], st)
        /\ raft' = [raft EXCEPT ![i] = s]
        /\ storage' = [storage EXCEPT ![i] = st]
  BY Zenon DEF Saving
<1>3. raft'[i] = s /\ storage'[i] = st
  BY <1>1, <1>2 DEF TypeInv
<1>4. /\ s.id = i /\ s.log = st.log /\ s.log \in Seq(Entry)
      /\ st.hardState.commit \in Nat /\ s.committed \in Nat
      /\ st.hardState.commit <= s.committed /\ s.committed <= Len(s.log)
  <2>1. s.log = raft[i].log /\ s.committed = raft[i].committed /\ s.id = i
    BY <1>1, <1>2 DEF Sheds
  <2>2. /\ st.log = raft[i].log /\ st.hardState.commit <= raft[i].committed
        /\ st.hardState.commit \in Nat
    BY <1>2 DEF Saves, StorageType
  <2>3. raft[i].committed <= Len(raft[i].log)
    BY <1>1 DEF CommitInv
  <2>4. raft[i].log \in Seq(Entry) /\ raft[i].committed \in Nat
    BY <1>1, LogFields
  <2> QED BY <2>1, <2>2, <2>3, <2>4, Zenon
<1>5. CommitInv(storage', s)
  BY <1>3, <1>4 DEF CommitInv
<1>6. ASSUME NEW j \in Server, j # i PROVE CommitInv(storage', raft'[j])
  <2>1. raft'[j] = raft[j] /\ storage'[j] = storage[j] /\ raft[j].id = j
    BY <1>1, <1>2, <1>6 DEF TypeInv
  <2>2. CommitInv(storage, raft[j])
    BY DEF CommitsInv
  <2> QED BY <2>1, <2>2 DEF CommitInv
<1> QED BY <1>3, <1>5, <1>6, Zenon

(* The invariant of what is saved holds initially.                         *)
LEMMA StartCommits == ASSUME Starts PROVE CommitsInv
<1>1. ElectionInv /\ TypeInv
  BY StartElections DEF Starts
<1>2. ASSUME NEW i \in Server PROVE CommitInv(storage, raft[i])
  <2>1. /\ Loads(i, storage[i], raft[i]) /\ storage \in [Server -> StorageType]
        /\ storage[i] = EmptyStorage
    BY <1>1 DEF TypeInv, Starts
  <2>2. storage[i].hardState.commit <= Len(storage[i].log)
    BY <2>1 DEF EmptyStorage
  <2> QED BY <2>1, <2>2, LoadsCommits
<1> QED BY <1>1, <1>2 DEF CommitsInv

(* A new process has committed what was saved as committed.                *)
LEMMA LoadingCommits ==
  ASSUME CommitsInv, NEW i \in Server, Loading(i)
  PROVE  \A j \in Server : CommitInv(storage', raft'[j])
<1>1. PICK s : Loads(i, storage[i], s) /\ raft' = [raft EXCEPT ![i] = s]
  BY Zenon DEF Loading
<1>2. storage' = storage
  BY DEF Loading
<1>3. /\ storage \in [Server -> StorageType] /\ raft \in [Server -> Node]
      /\ raft[i].id = i /\ CommitInv(storage, raft[i])
  BY DEF TypeInv, CommitsInv, ElectionInv
<1>4. storage[i].hardState.commit <= Len(storage[i].log)
  BY <1>3 DEF CommitInv
<1>5. CommitInv(storage, s)
  BY <1>1, <1>3, <1>4, LoadsCommits
<1> QED BY <1>1, <1>2, <1>3, <1>5 DEF CommitsInv

(* Every step keeps it.                                                    *)
LEMMA ActsCommits == ASSUME CommitsInv, ElectionInv', Acts PROVE CommitsInv'
<1>1. CASE UNCHANGED <<raft, storage, network>>
  BY <1>1, Zenon DEF CommitsInv
<1>2. ASSUME NEW i \in Server, Moves(i) \/ Saving(i) \/ Loading(i)
      PROVE  CommitsInv'
  BY <1>2, MovesCommits, SavingCommits, LoadingCommits DEF CommitsInv
<1> QED BY <1>1, <1>2 DEF Acts

(* What a node has saved only advances.                                    *)
LEMMA SavedAdvances ==
  ASSUME CommitsInv, Acts, NEW i \in Server
  PROVE  LET old == storage[i].hardState
             new == storage'[i].hardState
         IN  /\ old.term <= new.term
             /\ old.term = new.term /\ old.vote # None => new.vote = old.vote
             /\ Prefix(SubSeq(storage[i].log, 1, old.commit), storage'[i].log)
<1> DEFINE r == raft[i]
           d == storage[i]
           e == storage'[i]
<1>1. /\ TypeInv /\ ElectionInv /\ r \in Node /\ r.id = i /\ d \in StorageType
      /\ SavedInv(storage, r) /\ CommitInv(storage, r)
  BY Zenon DEF CommitsInv, ElectionInv, TypeInv, NodeInv
<1>2. /\ d.hardState.term \in Nat /\ d.hardState.commit \in Nat /\ d.log \in Seq(Entry)
      /\ r.log \in Seq(Entry) /\ r.term \in Nat /\ r.committed \in Nat
  BY <1>1, LogFields, Zenon DEF StorageType
<1>3. /\ d.hardState.commit <= Len(d.log) /\ d.hardState.commit <= r.committed
      /\ r.committed <= Len(r.log)
      /\ \A n \in 1..d.hardState.commit : r.log[n] = d.log[n]
  BY <1>1, Zenon DEF CommitInv
<1>4. \/ d.hardState.term < r.term
      \/ d.hardState.term = r.term /\ d.hardState.vote \in {None, r.vote}
  BY <1>1, Zenon DEF SavedInv
<1>5. CASE Saving(i)
  <2>1. PICK s, st : Saves(r, st) /\ storage' = [storage EXCEPT ![i] = st]
    BY <1>5, Zenon DEF Saving
  <2>2. /\ e.log = r.log /\ e.hardState.term = r.term /\ e.hardState.vote = r.vote
    BY <1>1, <2>1, Zenon DEF Saves, TypeInv
  <2> HIDE DEF d, e, r
  <2>3. d.hardState.commit <= Len(r.log)
    BY <1>2, <1>3
  <2>4. Prefix(SubSeq(d.log, 1, d.hardState.commit), r.log)
    BY <1>2, <1>3, <2>3, AgreeingPrefix, Zenon
  <2> QED BY <1>2, <1>4, <2>2, <2>4 DEF d, e
<1>6. CASE e = d
  <2> HIDE DEF d, e, r
  <2>1. Prefix(SubSeq(d.log, 1, d.hardState.commit), d.log)
    BY <1>2, <1>3, AgreeingPrefix, Zenon
  <2> QED BY <1>2, <1>6, <2>1 DEF d, e
<1>7. Saving(i) \/ e = d
  <2>1. ASSUME NEW j \in Server, Saving(j) PROVE Saving(i) \/ e = d
    <3>1. PICK st : storage' = [storage EXCEPT ![j] = st]
      BY <2>1, Zenon DEF Saving
    <3> QED BY <1>1, <2>1, <3>1 DEF TypeInv
  <2> QED BY <2>1 DEF Acts, Moves, Loading
<1> QED BY <1>5, <1>6, <1>7, Zenon
-----------------------------------------------------------------------------
(* Log matching.  What the logs and the MsgApps on their way say about an  *)
(* index and a term never contradicts: only a leader makes new entries,    *)
(* there is one leader in a term, and it appends.  The last takes that a   *)
(* node leads a term once: its vote for itself, saved before anything      *)
(* leaves the node, keeps it from being a candidate of the term again.     *)

AppFacts(M) == UNION {MsgFacts(m) : m \in {x \in M : x.type = "MsgApp"}}

(* What the process of the node r knows.                                   *)
NodeFacts(r) == Facts(r.log) \cup AppFacts(r.msgs)

(* What outlives every process.                                            *)
Durable(N, D) == AppFacts(N) \cup UNION {Facts(D[j].log) : j \in Server}

AllFacts(N, D, R) == Durable(N, D) \cup UNION {NodeFacts(R[j]) : j \in Server}

LogInv(N, D, R) ==
  /\ \A f, g \in AllFacts(N, D, R) :
       f[1] = g[1] /\ f[2].term = g[2].term => f = g
  /\ \A i \in Server : R[i].state = "Leader" =>
       \A f \in AllFacts(N, D, R) :
         f[2].term = R[i].term => f[1] <= Len(R[i].log)
  /\ \A f \in Durable(N, D) : Safe(N, D, R, f[2].term)
  /\ \A j \in Server : \A f \in NodeFacts(R[j]) :
       Safe(N, D, R, f[2].term) \/ Led(N, R[j], f[2].term)

Lawful(N, D, R) == World(N, D, R) /\ LogInv(N, D, R)

(* Indices and terms are natural numbers.                                  *)
LEMMA FactTypes ==
  /\ \A l \in Seq(Entry) : \A f \in Facts(l) : f[1] \in Nat /\ f[2].term \in Nat
  /\ \A m \in Msg : \A f \in MsgFacts(m) : f[1] \in Nat /\ f[2].term \in Nat
<1>1. ASSUME NEW l \in Seq(Entry), NEW f \in Facts(l)
      PROVE  f[1] \in Nat /\ f[2].term \in Nat
  <2>1. PICK n \in 1..Len(l) :
          f = <<n, l[n], IF n = 1 THEN 0 ELSE l[n - 1].term>>
    BY DEF Facts
  <2>2. l[n] \in Entry
    OBVIOUS
  <2> QED BY <2>1, <2>2 DEF Entry
<1>2. ASSUME NEW m \in Msg, NEW f \in MsgFacts(m)
      PROVE  f[1] \in Nat /\ f[2].term \in Nat
  <2>1. m.index \in Nat /\ m.entries \in Seq(Entry)
    BY DEF Msg, MsgFrom
  <2>2. PICK k \in 1..Len(m.entries) :
          f = <<m.index + k, m.entries[k],
                IF k = 1 THEN m.logterm ELSE m.entries[k - 1].term>>
    BY DEF MsgFacts
  <2>3. m.entries[k] \in Entry
    BY <2>1
  <2> QED BY <2>1, <2>2, <2>3 DEF Entry
<1> QED BY <1>1, <1>2

(* The same in the world.                                                  *)
LEMMA WorldFactTypes ==
  ASSUME NEW N \in SUBSET Msg, NEW D \in [Server -> StorageType],
         NEW R \in [Server -> Node]
  PROVE  /\ \A j \in Server : \A f \in NodeFacts(R[j]) : f[1] \in Nat /\ f[2].term \in Nat
         /\ \A f \in AllFacts(N, D, R) : f[1] \in Nat /\ f[2].term \in Nat
<1>1. ASSUME NEW M \in SUBSET Msg, NEW f \in AppFacts(M)
      PROVE  f[1] \in Nat /\ f[2].term \in Nat
  BY FactTypes DEF AppFacts
<1>2. ASSUME NEW j \in Server, NEW f \in NodeFacts(R[j])
      PROVE  f[1] \in Nat /\ f[2].term \in Nat
  <2>1. R[j].log \in Seq(Entry) /\ R[j].msgs \in SUBSET Msg
    BY LogFields
  <2> QED BY <1>1, <1>2, <2>1, FactTypes, Zenon DEF NodeFacts
<1>3. ASSUME NEW f \in Durable(N, D)
      PROVE  f[1] \in Nat /\ f[2].term \in Nat
  <2>1. \A j \in Server : D[j].log \in Seq(Entry)
    BY DEF StorageType
  <2> QED BY <1>1, <1>3, <2>1, FactTypes DEF Durable
<1> QED BY <1>2, <1>3 DEF AllFacts

(* The node r, who leads or is elected to, has appended as a leader does.  *)
Grows(r, s) ==
  /\ s.state = "Leader" /\ s.term = r.term
  /\ r.state = "Leader" \/ (r.state = "Candidate" /\ votesGranted(r) = quorum(r))
  /\ Len(r.log) <= Len(s.log)
  /\ \A n \in 1..Len(r.log) : s.log[n] = r.log[n]
  /\ \A n \in Len(r.log) + 1..Len(s.log) : s.log[n].term = r.term
  /\ NodeFacts(s) \subseteq NodeFacts(r) \cup Facts(s.log)

(* The node r has learnt nothing but from the network, and leads as before *)
(* if it leads.                                                            *)
Learns(N, r, s) ==
  /\ NodeFacts(s) \subseteq NodeFacts(r) \cup AppFacts(N)
  /\ s.state = "Leader" =>
       r.state = "Leader" /\ s.term = r.term /\ Len(s.log) = Len(r.log)

(* That is all that a move does to a log, unless it panics.                *)
LEMMA MoveFacts ==
  ASSUME NEW N, NEW r, NEW s, Move(N, r, s), ~s.panic
  PROVE  Grows(r, s) \/ Learns(N, r, s)
<1>1. ASSUME Extends(r, s)
      PROVE  /\ Len(r.log) <= Len(s.log)
             /\ \A n \in 1..Len(r.log) : s.log[n] = r.log[n]
             /\ \A n \in Len(r.log) + 1..Len(s.log) : s.log[n].term = r.term
             /\ NodeFacts(s) \subseteq NodeFacts(r) \cup Facts(s.log)
  <2>1. /\ Len(r.log) <= Len(s.log)
        /\ \A n \in 1..Len(r.log) : s.log[n] = r.log[n]
        /\ \A n \in Len(r.log) + 1..Len(s.log) : s.log[n].term = r.term
        /\ \A m \in s.msgs : \/ m \in r.msgs \/ m.type # "MsgApp"
                              \/ MsgFacts(m) \subseteq Facts(s.log)
    BY <1>1, Zenon DEF Extends
  <2>2. AppFacts(s.msgs) \subseteq AppFacts(r.msgs) \cup Facts(s.log)
    BY <2>1 DEF AppFacts
  <2> QED BY <2>1, <2>2 DEF NodeFacts
<1>2. ASSUME s.log = r.log, \A m \in s.msgs : m \in r.msgs \/ m.type # "MsgApp"
      PROVE  NodeFacts(s) \subseteq NodeFacts(r)
  <2>1. AppFacts(s.msgs) \subseteq AppFacts(r.msgs)
    BY <1>2 DEF AppFacts
  <2> QED BY <1>2, <2>1 DEF NodeFacts
<1>3. CASE Quiet(r, s)
  <2>1. Mute(r, s) /\ Extends(r, s) /\ (r.state = "Leader" \/ s.log = r.log)
    BY <1>3, Zenon DEF Quiet
  <2>2. CASE r.state = "Leader"
    <3>1. s.state = "Leader" /\ s.term = r.term
      BY <2>1, <2>2, Zenon DEF Mute
    <3> QED BY <1>1, <2>1, <2>2, <3>1 DEF Grows
  <2>3. CASE r.state # "Leader"
    <3>1. s.log = r.log /\ \A m \in s.msgs : m \in r.msgs \/ m.type # "MsgApp"
      BY <2>1, <2>3 DEF Mute, Harmless, LeaderType
    <3> QED BY <1>2, <2>1, <2>3, <3>1, Zenon DEF Learns, Mute
  <2> QED BY <2>2, <2>3
<1>4. ASSUME NEW m \in N, m.type = "MsgApp", r.state = "Follower", Accepts(r, s, m)
      PROVE  Learns(N, r, s)
  <2>4. /\ Takes(r, m, s.log)
        /\ \A x \in s.msgs : x \in r.msgs \/ Acks(r, x, m.index + Len(m.entries))
    BY <1>4, Zenon DEF Accepts
  <2>1. /\ Facts(s.log) \subseteq Facts(r.log) \cup MsgFacts(m)
        /\ \A x \in s.msgs : x \in r.msgs \/ x.type # "MsgApp"
    BY <2>4, Zenon DEF Takes, Acks
  <2>2. AppFacts(s.msgs) \subseteq AppFacts(r.msgs) /\ MsgFacts(m) \subseteq AppFacts(N)
    BY <1>4, <2>1, Zenon DEF AppFacts
  <2>3. s.state # "Leader"
    BY <1>4 DEF Accepts, Mute
  <2> QED BY <2>1, <2>2, <2>3 DEF NodeFacts, Learns
<1>5. CASE \E t : Follows(r, s, t)
  BY <1>2, <1>5, Zenon DEF Follows, SameLog, Learns
<1>6. CASE Explores(r, s) \/ Stands(r, s)
  BY <1>2, <1>6, Zenon DEF Explores, Stands, SameLog, Learns
<1>7. CASE \E k, granted : Polls(r, s, k, granted)
  BY <1>2, <1>7, Zenon DEF Polls, SameLog, Learns
<1>8. CASE \E c : Casts(r, s, c, r.term)
  BY <1>2, <1>8, Zenon DEF Casts, SameLog, Learns
<1>9. CASE r.state = "Candidate" /\ votesGranted(r) = quorum(r) /\ Wins(r, s)
  BY <1>1, <1>9, Zenon DEF Wins, Grows
<1>10. ASSUME NEW m, r.state = "Follower", Hears(r, s, m) PROVE Learns(N, r, s)
  <2>1. s.log = r.log /\ \A x \in s.msgs : x \in r.msgs \/ Replies(r, m, x)
    BY <1>10, Zenon DEF Hears
  <2>2. \A x \in s.msgs : x \in r.msgs \/ x.type # "MsgApp"
    BY <2>1, Zenon DEF Replies, Acks
  <2>3. s.state # "Leader"
    BY <1>10 DEF Hears, Mute
  <2> QED BY <1>2, <2>1, <2>2, <2>3 DEF Learns
<1>11. ASSUME NEW m, Counts(r, s, m) PROVE Learns(N, r, s)
  <2>1. s.log = r.log /\ s.msgs = r.msgs /\ s.state = r.state /\ s.term = r.term
    BY <1>11, Zenon DEF Counts, Matches, Mute
  <2> QED BY <1>2, <2>1, Zenon DEF Learns
<1> QED BY <1>3, <1>4, <1>5, <1>6, <1>7, <1>8, <1>9, <1>10, <1>11, Zenon
           DEF Move, Heeds

(* A term that has facts has been led.                                     *)
LEMMA FactLed ==
  ASSUME NEW N, NEW D, NEW R, LogInv(N, D, R), NEW f \in AllFacts(N, D, R)
  PROVE  \E k \in Server : Led(N, R[k], f[2].term)
BY Zenon DEF LogInv, AllFacts, Safe

(* Who grows has led its term, and had all there is of it.                 *)
LEMMA GrowerTops ==
  ASSUME Counting, NEW N, NEW D, NEW R, Lawful(N, D, R), NEW i \in Server, NEW s,
         Grows(R[i], s), NEW f \in AllFacts(N, D, R), f[2].term = R[i].term
  PROVE  f[1] <= Len(R[i].log)
<1> DEFINE r == R[i]
<1>1. /\ NetInv(N, D) /\ NodeInv(N, D, r) /\ r \in Node /\ r.id = i /\ LogInv(N, D, R)
      /\ \A k \in Server : R[k] \in Node /\ R[k].id = k
  BY Zenon DEF Lawful, World
<1>2. CASE r.state = "Leader"
  BY <1>1, <1>2, Zenon DEF LogInv
<1>3. CASE r.state = "Candidate" /\ votesGranted(r) = quorum(r)
  <2>1. Elected(N, r.id, r.term)
    BY <1>1, <1>3, QuorumElects, Zenon
  <2>2. PICK k \in Server : Led(N, R[k], r.term)
    BY <1>1, FactLed
  <2>3. r.term \in Nat /\ r.id \in Server
    BY <1>1, LogFields, Zenon
  <2>4. \A c \in Server : NetVote(N, r.id, c, r.term) => c = r.id
    <3>1. OwnVote(r, r.id, r.term)
      BY <1>3, Zenon DEF OwnVote
    <3> QED BY <1>1, <2>3, <3>1, Zenon DEF NodeInv, VoteInv
  <2>5. R[k].id = r.id
    <3>1. NetInv(N, D) /\ R[k] \in Node /\ r \in Node
      BY <1>1, Zenon
    <3> HIDE DEF r
    <3> QED BY <2>1, <2>2, <2>3, <2>4, <3>1, OneHasLed, ZenonT(30)
  <2>6. k = i
    BY <1>1, <2>5
  <2> QED BY <1>3, <2>2, <2>6, Zenon DEF Led
<1> QED BY <1>2, <1>3, Zenon DEF Grows

(* What is new in a log that grows has the leader's term and comes after   *)
(* what was there.                                                         *)
Fresh(r, s) ==
  {f \in Facts(s.log) : Len(r.log) < f[1] /\ f[1] <= Len(s.log) /\ f[2].term = r.term}

(* A node that grows learns nothing else.                                  *)
LEMMA GrowsFacts ==
  ASSUME NEW r \in Node, NEW s \in Node, Grows(r, s)
  PROVE  NodeFacts(s) \subseteq NodeFacts(r) \cup Fresh(r, s)
<1>1. r.log \in Seq(Entry) /\ s.log \in Seq(Entry)
  BY LogFields
<1>2. /\ Len(r.log) <= Len(s.log)
      /\ \A n \in 1..Len(r.log) : s.log[n] = r.log[n]
      /\ \A n \in Len(r.log) + 1..Len(s.log) : s.log[n].term = r.term
      /\ NodeFacts(s) \subseteq NodeFacts(r) \cup Facts(s.log)
  BY DEF Grows
<1>3. ASSUME NEW f \in Facts(s.log) PROVE f \in Facts(r.log) \/ f \in Fresh(r, s)
  <2>1. PICK n \in 1..Len(s.log) :
          f = <<n, s.log[n], IF n = 1 THEN 0 ELSE s.log[n - 1].term>>
    BY DEF Facts
  <2>2. CASE n <= Len(r.log)
    <3>1. n \in 1..Len(r.log) /\ s.log[n] = r.log[n] /\ (n # 1 => s.log[n - 1] = r.log[n - 1])
      BY <1>1, <1>2, <2>2
    <3> QED BY <2>1, <3>1, Zenon DEF Facts
  <2>3. CASE n > Len(r.log)
    <3>1. n \in Len(r.log) + 1..Len(s.log) /\ Len(r.log) < n /\ n <= Len(s.log)
      BY <1>1, <2>3
    <3>2. s.log[n].term = r.term
      BY <1>2, <3>1, Zenon
    <3> QED BY <2>1, <3>1, <3>2 DEF Fresh
  <2> QED BY <1>1, <2>2, <2>3
<1> QED BY <1>2, <1>3 DEF NodeFacts

(* What outlives a process stays safe when a record changes.               *)
LEMMA StaySafe ==
  ASSUME NEW N, NEW D, NEW R, Lawful(N, D, R), NEW S,
         \A k \in Server : \A t \in Nat : Led(N, R[k], t) => Led(N, S[k], t)
  PROVE  /\ \A f \in Durable(N, D) : Safe(N, D, S, f[2].term)
         /\ \A j \in Server : \A f \in NodeFacts(R[j]) :
              Safe(N, D, S, f[2].term) \/ Led(N, S[j], f[2].term)
<1>1. N \in SUBSET Msg /\ D \in [Server -> StorageType] /\ R \in [Server -> Node]
  BY Zenon DEF Lawful, World
<1>2. /\ \A j \in Server : \A f \in NodeFacts(R[j]) : f[2].term \in Nat
      /\ \A f \in Durable(N, D) : f[2].term \in Nat
  BY <1>1, WorldFactTypes, Zenon DEF AllFacts
<1>3. \A t \in Nat : Safe(N, D, R, t) => Safe(N, D, S, t)
  BY Zenon DEF Safe
<1>4. /\ \A f \in Durable(N, D) : Safe(N, D, R, f[2].term)
      /\ \A j \in Server : \A f \in NodeFacts(R[j]) :
           Safe(N, D, R, f[2].term) \/ Led(N, R[j], f[2].term)
  BY DEF Lawful, LogInv
<1> QED BY <1>2, <1>3, <1>4, Zenon

(* A change of the record of i that learns nothing new keeps the           *)
(* agreement of the logs.                                                  *)
LEMMA LearnsLogs ==
  ASSUME NEW N, NEW D, NEW R, Lawful(N, D, R), NEW i \in Server, NEW s \in Node,
         \A t \in Nat : Led(N, R[i], t) => Led(N, s, t),
         Learns(N, R[i], s)
  PROVE  LogInv(N, D, [R EXCEPT ![i] = s])
<1> DEFINE S == [R EXCEPT ![i] = s]
           All == AllFacts(N, D, R)
<1>1. R \in [Server -> Node]
  BY DEF Lawful, World
<1>2. S[i] = s /\ \A k \in Server : k # i => S[k] = R[k]
  BY <1>1, Zenon
<1> HIDE DEF S, All
<1>3. /\ \A f \in Durable(N, D) : Safe(N, D, S, f[2].term)
      /\ \A j \in Server : \A f \in NodeFacts(R[j]) :
           Safe(N, D, S, f[2].term) \/ Led(N, S[j], f[2].term)
  <2>1. \A k \in Server : \A t \in Nat : Led(N, R[k], t) => Led(N, S[k], t)
    BY <1>2
  <2> QED BY <2>1, StaySafe, ZenonT(30)
<1>4. /\ \A f \in Durable(N, D) : f \in All
      /\ \A j \in Server : \A f \in NodeFacts(R[j]) : f \in All
  BY Zenon DEF All, AllFacts
<1>5. /\ \A f, g \in All : f[1] = g[1] /\ f[2].term = g[2].term => f = g
      /\ \A k \in Server : R[k].state = "Leader" =>
           \A f \in All : f[2].term = R[k].term => f[1] <= Len(R[k].log)
  BY Zenon DEF Lawful, LogInv, All
<1>6. ASSUME NEW j \in Server, NEW f \in NodeFacts(S[j])
      PROVE  f \in All /\ (Safe(N, D, S, f[2].term) \/ Led(N, S[j], f[2].term))
  <2>1. CASE j # i
    BY <1>2, <1>3, <1>4, <1>6, <2>1, Zenon
  <2>2. CASE j = i
    <3>1. f \in NodeFacts(R[i]) \/ f \in Durable(N, D)
      BY <1>2, <1>6, <2>2 DEF Learns, Durable
    <3> QED BY <1>3, <1>4, <2>2, <3>1, ZenonT(30)
  <2> QED BY <2>1, <2>2, Zenon
<1>7. AllFacts(N, D, S) \subseteq All
  BY <1>4, <1>6, Zenon DEF AllFacts
<1>8. ASSUME NEW k \in Server, S[k].state = "Leader"
      PROVE  R[k].state = "Leader" /\ R[k].term = S[k].term /\ Len(R[k].log) = Len(S[k].log)
  BY <1>2, <1>8, Zenon DEF Learns
<1>9. \A k \in Server : S[k].state = "Leader" =>
        \A f \in AllFacts(N, D, S) : f[2].term = S[k].term => f[1] <= Len(S[k].log)
  BY <1>5, <1>7, <1>8, Zenon
<1>10. \A f, g \in AllFacts(N, D, S) : f[1] = g[1] /\ f[2].term = g[2].term => f = g
  BY <1>5, <1>7, Zenon
<1> QED BY <1>3, <1>6, <1>9, <1>10, Zenon DEF LogInv, S

(* A leader that grows is the only leader of its term.                     *)
LEMMA GrowsTops ==
  ASSUME Counting, NEW N, NEW D, NEW R, World(N, D, R), NEW i \in Server, NEW s,
         NodeInv(N, D, s), s.id = i, Grows(R[i], s), NEW f \in Fresh(R[i], s),
         NEW k \in Server, R[k].state = "Leader", f[2].term = R[k].term
  PROVE  k = i
<1>1. /\ NetInv(N, D) /\ s \in Node
      /\ R[k] \in Node /\ R[k].id = k /\ NodeInv(N, D, R[k])
  BY Zenon DEF World, NodeInv
<1>2. s.state = "Leader" /\ R[k].term = s.term
  BY Zenon DEF Grows, Fresh
<1>3. s.term \in Nat
  BY <1>1, LogFields, Zenon
<1>4. Led(N, R[k], s.term) /\ Led(N, s, s.term)
  BY <1>1, <1>2, LeaderLed, Zenon
<1>5. Elected(N, s.id, s.term) /\ \A c \in Server : NetVote(N, s.id, c, s.term) => c = s.id
  BY <1>4 DEF Led
<1>6. R[k].id = s.id
  BY <1>1, <1>3, <1>4, <1>5, OneHasLed, ZenonT(30)
<1> QED BY <1>1, <1>6, Zenon

(* Hence the logs still agree.                                             *)
LEMMA GrowsLogs ==
  ASSUME Counting, NEW N, NEW D, NEW R, Lawful(N, D, R), NEW i \in Server, NEW s,
         NodeInv(N, D, s), s.id = i,
         \A t \in Nat : Led(N, R[i], t) => Led(N, s, t),
         Grows(R[i], s)
  PROVE  LogInv(N, D, [R EXCEPT ![i] = s])
<1> DEFINE r == R[i]
           S == [R EXCEPT ![i] = s]
           All == AllFacts(N, D, R)
           New == AllFacts(N, D, S)
<1>1. /\ N \in SUBSET Msg /\ D \in [Server -> StorageType] /\ R \in [Server -> Node]
      /\ r \in Node /\ s \in Node
  BY DEF Lawful, World, NodeInv
<1>2. S[i] = s /\ \A k \in Server : k # i => S[k] = R[k]
  BY <1>1, Zenon
<1>3. \A f \in All : f[1] \in Nat
  BY <1>1, WorldFactTypes, Zenon
<1>4. Len(r.log) \in Nat /\ Len(s.log) \in Nat
  BY <1>1, LogFields
<1>5. \A f \in All : f[2].term = r.term => f[1] <= Len(r.log)
  BY GrowerTops, Zenon
<1>6. s.state = "Leader" /\ s.term = r.term /\ Len(r.log) <= Len(s.log)
  BY Zenon DEF Grows
<1>7. \A f \in Fresh(r, s) : /\ f \in Facts(s.log) /\ f[2].term = r.term
                             /\ Len(r.log) < f[1] /\ f[1] <= Len(s.log)
  BY DEF Fresh
<1>8. \A f \in NodeFacts(s) : f \in NodeFacts(r) \/ f \in Fresh(r, s)
  BY <1>1, GrowsFacts, Zenon
<1>9. \A f \in Fresh(r, s), k \in Server :
        R[k].state = "Leader" /\ f[2].term = R[k].term => k = i
  BY GrowsTops DEF Lawful
<1>10. Led(N, s, s.term)
  BY <1>6, LeaderLed, Zenon
<1> HIDE DEF r, S, All, New
<1>11. /\ \A f \in Durable(N, D) : Safe(N, D, S, f[2].term)
       /\ \A j \in Server : \A f \in NodeFacts(R[j]) :
            Safe(N, D, S, f[2].term) \/ Led(N, S[j], f[2].term)
  <2>1. \A k \in Server : \A t \in Nat : Led(N, R[k], t) => Led(N, S[k], t)
    BY <1>2, Zenon
  <2> QED BY <2>1, StaySafe, Zenon
<1>12. ASSUME NEW j \in Server, NEW f \in NodeFacts(S[j])
       PROVE  Safe(N, D, S, f[2].term) \/ Led(N, S[j], f[2].term)
  <2>1. CASE j # i
    BY <1>2, <1>11, <1>12, <2>1
  <2>2. CASE j = i
    BY <1>2, <1>6, <1>7, <1>8, <1>10, <1>11, <1>12, <2>2, Zenon DEF r
  <2> QED BY <2>1, <2>2, Zenon
<1>13. New \subseteq All \cup Fresh(r, s)
  <2>1. ASSUME NEW j \in Server, NEW f \in NodeFacts(S[j])
        PROVE  f \in All \cup Fresh(r, s)
    BY <1>2, <1>8, <2>1, Zenon DEF r, All, AllFacts
  <2> QED BY <2>1 DEF New, All, AllFacts
<1>14. /\ \A f, g \in All : f[1] = g[1] /\ f[2].term = g[2].term => f = g
       /\ \A k \in Server : R[k].state = "Leader" =>
            \A f \in All : f[2].term = R[k].term => f[1] <= Len(R[k].log)
  BY Zenon DEF Lawful, LogInv, All
<1>15. \A x \in Fresh(r, s), y \in All : ~(x[1] = y[1] /\ x[2].term = y[2].term)
  BY <1>3, <1>4, <1>5, <1>7
<1>16. \A x, y \in Fresh(r, s) : x[1] = y[1] => x = y
  BY <1>7 DEF Facts
<1>17. \A f, g \in New : f[1] = g[1] /\ f[2].term = g[2].term => f = g
  BY <1>13, <1>14, <1>15, <1>16, Zenon
<1>18. ASSUME NEW k \in Server, S[k].state = "Leader", NEW f \in New,
              f[2].term = S[k].term
       PROVE  f[1] <= Len(S[k].log)
  <2>1. CASE k = i
    <3>1. f[2].term = r.term /\ S[k].log = s.log
      BY <1>2, <1>6, <1>18, <2>1, Zenon
    <3>2. CASE f \in All
      <4>1. f[1] \in Nat /\ f[1] <= Len(r.log)
        BY <1>3, <1>5, <3>1, <3>2, Zenon
      <4> QED BY <1>4, <1>6, <3>1, <4>1
    <3>3. CASE f \in Fresh(r, s)
      BY <1>7, <3>1, <3>3, Zenon
    <3> QED BY <1>13, <3>2, <3>3, Zenon
  <2>2. CASE k # i
    BY <1>2, <1>9, <1>13, <1>14, <1>18, <2>2
  <2> QED BY <2>1, <2>2, Zenon
<1> QED BY <1>11, <1>12, <1>17, <1>18, Zenon DEF LogInv, New, S

(* A move that does not panic keeps it all.                                *)
LEMMA MoveLawful ==
  ASSUME Counting, NEW N, NEW D, NEW R, Lawful(N, D, R), NEW i \in Server, NEW s,
         Move(N, R[i], s), ~s.panic
  PROVE  Lawful(N, D, [R EXCEPT ![i] = s])
<1>1. World(N, D, R) /\ NodeInv(N, D, R[i]) /\ R[i].id = i
  BY DEF Lawful, World
<1>2. World(N, D, [R EXCEPT ![i] = s])
  BY <1>1, MoveWorld, Zenon
<1>3. s \in Node /\ s.id = i
  BY <1>1, MoveKeeps
<1>4. NodeInv(N, D, s)
  BY <1>1, MoveInv, ZenonT(30) DEF World
<1>5. \A t \in Nat : Led(N, R[i], t) => Led(N, s, t)
  BY <1>1, LedMove
<1>6. Grows(R[i], s) \/ Learns(N, R[i], s)
  BY MoveFacts
<1>7. LogInv(N, D, [R EXCEPT ![i] = s])
  BY <1>3, <1>4, <1>5, <1>6, GrowsLogs, LearnsLogs, ZenonT(30)
<1> QED BY <1>2, <1>7, Zenon DEF Lawful

(* The same of a move that follows others.                                 *)
LEMMA MoveOnLawful ==
  ASSUME Counting,
         NEW N, NEW D, NEW R \in [Server -> Node], NEW i \in Server, NEW r, NEW s,
         Lawful(N, D, [R EXCEPT ![i] = r]), Move(N, r, s), ~s.panic
  PROVE  Lawful(N, D, [R EXCEPT ![i] = s])
<1> DEFINE S == [R EXCEPT ![i] = r]
<1>1. S[i] = r /\ [S EXCEPT ![i] = s] = [R EXCEPT ![i] = s]
  BY Zenon
<1> HIDE DEF S
<1>2. Lawful(N, D, [S EXCEPT ![i] = s])
  BY <1>1, MoveLawful, Zenon DEF S
<1> QED BY <1>1, <1>2

(* A path is as good as its moves: it ends in a panic if one of them does. *)
LEMMA PathLawful ==
  ASSUME Counting, NEW N, NEW D, NEW R, Lawful(N, D, R), NEW i \in Server, NEW s,
         Path(N, R[i], s), ~s.panic
  PROVE  Lawful(N, D, [R EXCEPT ![i] = s])
<1>1. PICK a, b, c : /\ Move(N, R[i], a) /\ Move(N, a, b)
                     /\ Move(N, b, c) /\ Move(N, c, s)
  BY DEF Path
<1>2. Keeps(a, b) /\ Keeps(b, c) /\ Keeps(c, s)
  BY <1>1, MoveKeeps
<1>3. ~a.panic /\ ~b.panic /\ ~c.panic
  BY <1>2, Zenon DEF Keeps
<1>4. R \in [Server -> Node]
  BY DEF Lawful, World
<1>5. Lawful(N, D, [R EXCEPT ![i] = a])
  BY <1>1, <1>3, MoveLawful
<1>6. Lawful(N, D, [R EXCEPT ![i] = b])
  BY <1>1, <1>3, <1>4, <1>5, MoveOnLawful, Zenon
<1>7. Lawful(N, D, [R EXCEPT ![i] = c])
  BY <1>1, <1>3, <1>4, <1>6, MoveOnLawful, Zenon
<1> QED BY <1>1, <1>4, <1>7, MoveOnLawful, Zenon

(* Facts of messages add up.                                               *)
LEMMA AppFactsUnion ==
  /\ \A M, P : AppFacts(M \cup P) = AppFacts(M) \cup AppFacts(P)
  /\ \A M, P : M \subseteq P => AppFacts(M) \subseteq AppFacts(P)
  /\ AppFacts({}) = {}
BY DEF AppFacts

LogsInv == ElectionInv /\ LogInv(network, storage, raft)

(* The invariants of elections and of logs in one.                         *)
LEMMA LogsLawful == LogsInv => Lawful(network, storage, raft)
BY ElectionWorld DEF LogsInv, Lawful

(* What an input or a message does keeps the agreement of the logs.        *)
LEMMA MovesLogs ==
  ASSUME Counting, LogsInv, NEW i \in Server, Moves(i)
  PROVE  LogInv(network', storage', raft')
<1> DEFINE r == raft[i]
           q == [r EXCEPT !.panic = TRUE]
<1>1. /\ Lawful(network, storage, raft) /\ r \in Node
      /\ UNCHANGED <<storage, network>>
  BY LogsLawful, Zenon DEF Lawful, World, Moves
<1>2. PICK s : Path(network, r, s) /\ Update(i, s)
  BY DEF Moves
<1>3. /\ s.panic => raft' = [raft EXCEPT ![i] = q]
      /\ ~s.panic => raft' = [raft EXCEPT ![i] = s]
  BY <1>2, Zenon DEF Update
<1>4. Sheds(r, q) /\ q \in Node
  BY <1>1, PanicsQuiet, Zenon DEF Sheds
<1> HIDE DEF q
<1>5. CASE s.panic
  <2>1. Learns(network, r, q)
    BY <1>4, AppFactsUnion DEF Sheds, Learns, NodeFacts
  <2>2. \A t \in Nat : Led(network, r, t) => Led(network, q, t)
    BY <1>4, ShedsLed
  <2>3. LogInv(network, storage, [raft EXCEPT ![i] = q])
    BY <1>1, <1>4, <2>1, <2>2, LearnsLogs
  <2> QED BY <1>1, <1>3, <1>5, <2>3, Zenon
<1>6. CASE ~s.panic
  <2>1. Lawful(network, storage, [raft EXCEPT ![i] = s])
    BY <1>1, <1>2, <1>6, PathLawful, Zenon
  <2> QED BY <1>1, <1>3, <1>6, <2>1 DEF Lawful
<1> QED BY <1>5, <1>6

(* Saving and sending tells nothing new.                                   *)
LEMMA SendsLogs ==
  ASSUME Counting,
         NEW N, NEW D, NEW R, Lawful(N, D, R), NEW i \in Server, NEW s, NEW st,
         Sheds(R[i], s), Saves(R[i], st)
  PROVE  LogInv(N \cup R[i].msgs, [D EXCEPT ![i] = st], [R EXCEPT ![i] = s])
<1> DEFINE E == [D EXCEPT ![i] = st]
           M == N \cup R[i].msgs
           S == [R EXCEPT ![i] = s]
           All == AllFacts(N, D, R)
<1>1. /\ D \in [Server -> StorageType] /\ R \in [Server -> Node]
      /\ s.log = R[i].log /\ s.msgs \subseteq R[i].msgs /\ st.log = R[i].log
      /\ s.state = R[i].state /\ s.term = R[i].term
  BY Zenon DEF Lawful, World, Sheds, Saves
<1>2. /\ S[i] = s /\ E[i] = st
      /\ \A k \in Server : k # i => S[k] = R[k] /\ E[k] = D[k]
  BY <1>1
<1>3. \A t : Safe(N, D, R, t) \/ Led(N, R[i], t) => Safe(M, E, S, t)
  BY SendsSafe, Zenon DEF Lawful
<1>4. \A k \in Server : \A t : Led(N, R[k], t) => Led(M, S[k], t)
  BY SendsLed, Zenon DEF Lawful
<1>5. /\ \A f, g \in All : f[1] = g[1] /\ f[2].term = g[2].term => f = g
      /\ \A k \in Server : R[k].state = "Leader" =>
           \A f \in All : f[2].term = R[k].term => f[1] <= Len(R[k].log)
      /\ \A f \in Durable(N, D) : Safe(N, D, R, f[2].term)
      /\ \A j \in Server : \A f \in NodeFacts(R[j]) :
           Safe(N, D, R, f[2].term) \/ Led(N, R[j], f[2].term)
  BY Zenon DEF Lawful, LogInv
<1>6. AppFacts(M) = AppFacts(N) \cup AppFacts(R[i].msgs)
      /\ AppFacts(s.msgs) \subseteq AppFacts(R[i].msgs)
  BY <1>1, AppFactsUnion, ZenonT(30)
<1> HIDE DEF E, M, S, All
<1>7. ASSUME NEW f \in Durable(M, E) PROVE f \in Durable(N, D) \/ f \in NodeFacts(R[i])
  BY <1>1, <1>2, <1>6 DEF Durable, NodeFacts
<1>8. ASSUME NEW j \in Server, NEW f \in NodeFacts(S[j]) PROVE f \in NodeFacts(R[j])
  BY <1>1, <1>2, <1>6, Zenon DEF NodeFacts
<1>9. AllFacts(M, E, S) \subseteq All
  BY <1>7, <1>8, Zenon DEF AllFacts, All
<1>10. \A f \in Durable(M, E) : Safe(M, E, S, f[2].term)
  BY <1>3, <1>5, <1>7, Zenon
<1>11. \A j \in Server : \A f \in NodeFacts(S[j]) :
         Safe(M, E, S, f[2].term) \/ Led(M, S[j], f[2].term)
  BY <1>3, <1>4, <1>5, <1>8, ZenonT(30)
<1>12. \A k \in Server : S[k].state = R[k].state /\ S[k].term = R[k].term /\ S[k].log = R[k].log
  BY <1>1, <1>2
<1>13. \A k \in Server : S[k].state = "Leader" =>
         \A f \in AllFacts(M, E, S) : f[2].term = S[k].term => f[1] <= Len(S[k].log)
  BY <1>5, <1>9, <1>12, ZenonT(30)
<1>14. \A f, g \in AllFacts(M, E, S) : f[1] = g[1] /\ f[2].term = g[2].term => f = g
  BY <1>5, <1>9, Zenon
<1>15. LogInv(M, E, S)
  BY <1>10, <1>11, <1>13, <1>14, Zenon DEF LogInv
<1> QED BY <1>15, Zenon DEF M, E, S

(* A process that starts knows what is saved, and has led what that says.  *)
LEMMA LoadsLogs ==
  ASSUME NEW N, NEW D, NEW R, Lawful(N, D, R), NEW i \in Server, NEW s,
         Loads(i, D[i], s)
  PROVE  LogInv(N, D, [R EXCEPT ![i] = s])
<1> DEFINE S == [R EXCEPT ![i] = s]
           All == AllFacts(N, D, R)
<1>1. /\ D \in [Server -> StorageType] /\ R \in [Server -> Node] /\ R[i].id = i
      /\ s.log = D[i].log /\ s.msgs = {} /\ s.state = "Follower" /\ s.id = i
      /\ s.term = D[i].hardState.term /\ s.vote = D[i].hardState.vote
  BY Zenon DEF Lawful, World, Loads
<1>2. S[i] = s /\ \A k \in Server : k # i => S[k] = R[k]
  BY <1>1
<1>4. /\ \A f, g \in All : f[1] = g[1] /\ f[2].term = g[2].term => f = g
      /\ \A k \in Server : R[k].state = "Leader" =>
           \A f \in All : f[2].term = R[k].term => f[1] <= Len(R[k].log)
      /\ \A f \in Durable(N, D) : Safe(N, D, R, f[2].term)
      /\ \A j \in Server : \A f \in NodeFacts(R[j]) :
           Safe(N, D, R, f[2].term) \/ Led(N, R[j], f[2].term)
  BY Zenon DEF Lawful, LogInv
<1> HIDE DEF S, All
<1>5. \A t : Safe(N, D, R, t) => Safe(N, D, S, t)
  BY LoadsSafe, Zenon DEF S, Lawful
<1>6. NodeFacts(s) \subseteq Durable(N, D)
  BY <1>1, AppFactsUnion, SMTT(30) DEF NodeFacts, Durable
<1>7. ASSUME NEW j \in Server, NEW f \in NodeFacts(S[j])
      PROVE  /\ f \in NodeFacts(R[j]) \/ f \in Durable(N, D)
             /\ Safe(N, D, S, f[2].term) \/ Led(N, S[j], f[2].term)
  <2>1. CASE j = i
    BY <1>2, <1>4, <1>5, <1>6, <1>7, <2>1, Zenon
  <2>2. CASE j # i
    BY <1>2, <1>4, <1>5, <1>7, <2>2, Zenon
  <2> QED BY <2>1, <2>2, Zenon
<1>8. AllFacts(N, D, S) \subseteq All
  BY <1>7, Zenon DEF AllFacts, All
<1>9. \A k \in Server : S[k].state = "Leader" => S[k] = R[k]
  BY <1>1, <1>2
<1>10. \A k \in Server : S[k].state = "Leader" =>
         \A f \in AllFacts(N, D, S) : f[2].term = S[k].term => f[1] <= Len(S[k].log)
  BY <1>4, <1>8, <1>9, Zenon
<1>11. \A f, g \in AllFacts(N, D, S) : f[1] = g[1] /\ f[2].term = g[2].term => f = g
  BY <1>4, <1>8, ZenonT(30)
<1>12. \A f \in Durable(N, D) : Safe(N, D, S, f[2].term)
  BY <1>4, <1>5
<1>13. LogInv(N, D, S)
  BY <1>7, <1>10, <1>11, <1>12, Zenon DEF LogInv
<1> QED BY <1>13, Zenon DEF S

(* Two logs whose facts do not contradict agree up to an index where they  *)
(* agree on the term: each fact carries the term before it.                *)
LEMMA FactsMatch ==
  ASSUME Counting, NEW l \in Seq(Entry), NEW k \in Seq(Entry),
         \A f, g \in Facts(l) \cup Facts(k) :
           f[1] = g[1] /\ f[2].term = g[2].term => f = g,
         NEW n \in 1..Len(l), n <= Len(k), l[n].term = k[n].term
  PROVE  SubSeq(l, 1, n) = SubSeq(k, 1, n)
<1> DEFINE f(m) == <<m, l[m], IF m = 1 THEN 0 ELSE l[m - 1].term>>
           g(m) == <<m, k[m], IF m = 1 THEN 0 ELSE k[m - 1].term>>
           Bad == {m \in 0..n - 1 : l[n - m].term # k[n - m].term}
<1>1. ASSUME NEW m \in 1..n, l[m].term = k[m].term
      PROVE  l[m] = k[m] /\ (m # 1 => l[m - 1].term = k[m - 1].term)
  <2>1. m \in 1..Len(l) /\ m \in 1..Len(k)
    OBVIOUS
  <2>2. f(m) \in Facts(l) /\ g(m) \in Facts(k)
    BY <2>1, Zenon DEF Facts
  <2>3. f(m)[1] = g(m)[1] /\ f(m)[2].term = g(m)[2].term
    BY <1>1, Zenon
  <2>4. f(m) = g(m)
    BY <2>2, <2>3, Zenon
  <2> QED BY <2>4
<1> HIDE DEF f, g
<1>2. Bad = {}
  <2> SUFFICES ASSUME Bad # {} PROVE FALSE
    OBVIOUS
  <2>1. Bad \in SUBSET Nat
    OBVIOUS
  <2>2. PICK x \in Bad : \A y \in Bad : x <= y
    BY <2>1, LeastNatural, Zenon
  <2>3. x \in 0..n - 1 /\ l[n - x].term # k[n - x].term
    BY Zenon
  <2>4. x # 0
    BY <2>3
  <2>5. x - 1 \in 0..n - 1 /\ x - 1 \notin Bad
    <3>1. x - 1 \in 0..n - 1 /\ ~(x <= x - 1)
      BY <2>3, <2>4
    <3> HIDE DEF Bad
    <3> QED BY <2>2, <3>1, Zenon
  <2>6. n - (x - 1) \in 1..n /\ l[n - (x - 1)].term = k[n - (x - 1)].term
    BY <2>3, <2>4, <2>5
  <2>7. n - (x - 1) # 1 /\ n - (x - 1) - 1 = n - x
    BY <2>3, <2>4
  <2> QED BY <1>1, <2>3, <2>6, <2>7, Zenon
<1>3. ASSUME NEW m \in 1..n PROVE l[m].term = k[m].term
  <2>1. n - m \in 0..n - 1 /\ n - (n - m) = m
    OBVIOUS
  <2> QED BY <1>2, <2>1, Zenon
<1>4. \A m \in 1..n : l[m] = k[m]
  BY <1>1, <1>3
<1> HIDE DEF Bad
<1> QED BY <1>4

(* The facts of a log are facts.                                           *)
LEMMA LogsAreFacts ==
  ASSUME NEW l \in Logs PROVE Facts(l) \subseteq AllFacts(network, storage, raft)
BY DEF Logs, AllFacts, Durable, NodeFacts

(* Initially there is nothing to disagree on.                              *)
LEMMA StartLogs == ASSUME Starts PROVE LogsInv
<1>1. ElectionInv /\ network = {}
  BY StartElections DEF Starts
<1>2. Facts(<<>>) = {}
  BY DEF Facts
<1>3. \A i \in Server : storage[i].log = <<>> /\ raft[i].log = <<>> /\ raft[i].msgs = {}
  BY DEF Starts, Loads, EmptyStorage
<1>4. AllFacts(network, storage, raft) = {}
  BY <1>1, <1>2, <1>3, AppFactsUnion, SMTT(30) DEF AllFacts, Durable, NodeFacts
<1>5. LogInv(network, storage, raft)
  <2>1. Durable(network, storage) = {} /\ \A j \in Server : NodeFacts(raft[j]) = {}
    BY <1>4 DEF AllFacts
  <2> QED BY <1>4, <2>1, Zenon DEF LogInv
<1> QED BY <1>1, <1>5, Zenon DEF LogsInv

(* Every step keeps the agreement of the logs.                             *)
LEMMA ActsLogs == ASSUME Counting, LogsInv, ElectionInv', Acts PROVE LogsInv'
<1>1. Lawful(network, storage, raft)
  BY LogsLawful
<1> SUFFICES LogInv(network', storage', raft')
  BY DEF LogsInv
<1>2. CASE UNCHANGED <<raft, storage, network>>
  BY <1>2 DEF LogsInv
<1>3. ASSUME NEW i \in Server, Moves(i) PROVE LogInv(network', storage', raft')
  BY <1>3, MovesLogs, Zenon
<1>4. ASSUME NEW i \in Server, Loading(i) PROVE LogInv(network', storage', raft')
  <2>1. PICK s : Loads(i, storage[i], s) /\ raft' = [raft EXCEPT ![i] = s]
    BY <1>4, Zenon DEF Loading
  <2>2. storage' = storage /\ network' = network
    BY <1>4 DEF Loading
  <2>3. LogInv(network, storage, [raft EXCEPT ![i] = s])
    BY <1>1, <2>1, LoadsLogs, Zenon
  <2> QED BY <2>1, <2>2, <2>3
<1>5. ASSUME NEW i \in Server, Saving(i) PROVE LogInv(network', storage', raft')
  <2>1. PICK s, st :
          /\ Sheds(raft[i], s) /\ Saves(raft[i], st) /\ raft' = [raft EXCEPT ![i] = s]
          /\ storage' = [storage EXCEPT ![i] = st]
          /\ network' = network \cup raft[i].msgs
    BY <1>5, Zenon DEF Saving
  <2>2. LogInv(network \cup raft[i].msgs, [storage EXCEPT ![i] = st],
               [raft EXCEPT ![i] = s])
    BY <1>1, <2>1, SendsLogs, Zenon
  <2> QED BY <2>1, <2>2
<1> QED BY <1>2, <1>3, <1>4, <1>5, Zenon DEF Acts

(* It implies that logs that agree on the term of an entry agree up to it. *)
LEMMA LogsAgree == ASSUME Counting, LogsInv PROVE LogMatching
<1> SUFFICES ASSUME NEW l \in Logs, NEW k \in Logs,
                    NEW n \in 1..StdMin(Len(l), Len(k)), l[n].term = k[n].term
             PROVE  SubSeq(l, 1, n) = SubSeq(k, 1, n)
  BY DEF LogMatching
<1>1. /\ raft \in [Server -> Node] /\ storage \in [Server -> StorageType]
  BY Zenon DEF LogsInv, ElectionInv, TypeInv
<1>2. l \in Seq(Entry) /\ k \in Seq(Entry)
  BY <1>1, LogFields, ZenonT(30) DEF Logs, StorageType
<1>3. n \in 1..Len(l) /\ n <= Len(k)
  BY <1>2 DEF StdMin
<1>4. \A f, g \in AllFacts(network, storage, raft) :
        f[1] = g[1] /\ f[2].term = g[2].term => f = g
  BY Zenon DEF LogsInv, LogInv
<1>5. \A f, g \in Facts(l) \cup Facts(k) :
        f[1] = g[1] /\ f[2].term = g[2].term => f = g
  BY <1>4, LogsAreFacts
<1> QED BY <1>2, <1>3, <1>5, FactsMatch, ZenonT(30)
=============================================================================
