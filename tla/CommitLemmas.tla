---------------------------- MODULE CommitLemmas ----------------------------
(* Commitment: what a quorum has acknowledged to the leader of a term is in *)
(* the log of every later leader.  Every step of the cluster makes of a    *)
(* world with a history a world with a history.                            *)
EXTENDS HistoryLemmas
-----------------------------------------------------------------------------
(* What a leader does to the history.                                      *)

(* A history stays one when the leader of T appends to its log k, or       *)
(* begins with it.                                                         *)
LEMMA AppendHistory ==
  ASSUME NEW H \in History, NEW T \in Nat, T >= 1,
         NEW k \in Seq(Entry), NEW l \in Seq(Entry), Faithful(H, k, T),
         Prolongs(k, l, T), H[T] = k \/ H[T] = <<>>,
         NEW G, G = Amended(H, T, l)
  PROVE  /\ G \in History /\ Grown(H, G) /\ G[T] = l
         /\ \A t \in Nat : t # T => G[t] = H[t]
<1>1. H \in Books
  BY HistoryFacts
<1>2. /\ G \in Books /\ G[T] = l
      /\ \A t \in Nat : t # T => G[t] = H[t]
  BY <1>1 DEF Books, Amended
<1>7. /\ Len(k) <= Len(l) /\ \A n \in 1..Len(k) : l[n] = k[n]
      /\ \A n \in Len(k) + 1..Len(l) : l[n].term = T
      /\ l # <<>> /\ l[Len(l)].term = T
  BY DEF Prolongs
<1>3. Grown(H, G)
  <2> SUFFICES ASSUME NEW t \in Nat
               PROVE  /\ Len(H[t]) <= Len(G[t])
                      /\ \A n \in 1..Len(H[t]) : G[t][n] = H[t][n]
    BY DEF Grown
  <2>1. CASE t # T
    BY <1>1, <1>2, <2>1
  <2>2. CASE t = T /\ H[T] = k
    BY <1>2, <1>7, <2>2
  <2>3. CASE t = T /\ H[T] = <<>>
    BY <1>2, <2>3
  <2> QED BY <2>1, <2>2, <2>3
<1>4. Faithful(G, l, T)
  <2> SUFFICES ASSUME NEW n \in 1..Len(l)
               PROVE  l[n].term \in 1..T /\ Agree(l, G[l[n].term], n)
    BY DEF Faithful
  <2>1. CASE n \in 1..Len(k)
    <3> DEFINE v == k[n].term
    <3>1. Faithful(G, k, T)
      BY <1>1, <1>2, <1>3, FaithfulGrows
    <3>2. v \in 1..T /\ Agree(k, G[v], n)
      BY <2>1, <3>1 DEF Faithful
    <3>3. l[n].term = v
      BY <1>7, <2>1
    <3> HIDE DEF v
    <3>4. Agree(l, G[v], n)
      BY <1>2, <1>7, <2>1, <3>2 DEF Agree
    <3> QED BY <3>2, <3>3, <3>4
  <2>2. CASE n \in Len(k) + 1..Len(l)
    <3>1. l[n].term = T
      BY <1>7, <2>2
    <3>2. Agree(l, l, n)
      BY DEF Agree
    <3> QED BY <1>2, <3>1, <3>2
  <2> QED BY <2>1, <2>2
<1>5. ASSUME NEW t \in Nat
      PROVE  Faithful(G, G[t], t) /\ (G[t] # <<>> => G[t][Len(G[t])].term = t)
  <2>1. CASE t = T
    BY <1>2, <1>4, <1>7, <2>1, Zenon
  <2>2. CASE t # T
    <3>1. /\ H[t] \in Seq(Entry) /\ Faithful(H, H[t], t)
          /\ H[t] # <<>> => H[t][Len(H[t])].term = t
      BY HistoryFacts, BookLogs
    <3>2. Faithful(G, H[t], t)
      BY <1>1, <1>2, <1>3, <3>1, FaithfulGrows
    <3> QED BY <1>2, <2>2, <3>1, <3>2
  <2> QED BY <2>1, <2>2, Zenon
<1>6. G \in History
  BY <1>2, <1>5 DEF History
<1> QED BY <1>2, <1>3, <1>6

(* What is committed is known to be chosen, and so is less.                *)
LEMMA CommittedKnown ==
  ASSUME NEW N, NEW H, NEW l, NEW T \in Nat, NEW c \in Nat, NEW d \in Nat, d <= c,
         Committed(N, H, l, T, c)
  PROVE  Known(N, H, T, d)
<1>1. CASE c = 0
  BY <1>1 DEF Known
<1>2. CASE c # 0
  <2>1. PICK t \in 1..T, n \in Nat : c <= n /\ Chosen(N, H, t, n)
    BY <1>2 DEF Committed
  <2>2. d <= n
    BY <2>1
  <2> QED BY <2>1, <2>2 DEF Known
<1> QED BY <1>1, <1>2

(* One voter is no quorum.                                                 *)
LEMMA OneIsNoQuorum ==
  ASSUME Counting, Cardinality(Voter) > 1, NEW Q \in SUBSET Voter, IsQuorum(Q), NEW i
  PROVE  \E j \in Q : j # i
<1> SUFFICES ASSUME \A j \in Q : j = i PROVE FALSE
  OBVIOUS
<1>1. Q \subseteq {i}
  OBVIOUS
<1>3. Cardinality(Q) <= 1
  BY <1>1 DEF Counting, VoterSets
<1>4. Cardinality(Q) \in Nat /\ Cardinality(Voter) \in Nat
  BY VoterSubsets
<1>5. Q \cap Voter = Q
  OBVIOUS
<1>6. 2 * Cardinality(Q) > Cardinality(Voter)
  BY <1>5 DEF IsQuorum
<1> QED BY <1>3, <1>4, <1>6

(* What a leader of the current term knows a quorum to have is chosen: the *)
(* others have acknowledged it, so it has sent it itself.                  *)
LEMMA ReachedChosen ==
  ASSUME Counting, NEW N \in SUBSET Msg, NEW D, NetInv(N, D), NEW G \in History,
         \A m \in N : Told(N, G, m), Cardinality(Voter) > 1,
         NEW s, NodeInv(N, D, s), s.state = "Leader", s.log = G[s.term], Acked(N, s),
         NEW n \in Nat, Reached(s, n)
  PROVE  Chosen(N, G, s.term, n)
<1> DEFINE T == s.term
           A == {j \in Voter : j = s.id \/ s.prs[j].match >= n}
<1>1. s \in Node /\ T \in Nat /\ s.id \in Server /\ s.prs \in [Server -> ProgressType]
  BY LogFields, Zenon DEF NodeInv
<1>2. n \in 1..Len(G[T]) /\ G[T][n].term = T /\ IsQuorum(A)
  BY DEF Reached
<1>3. \A j \in Voter : j \in Server
  BY DEF Server
<1>4. ASSUME NEW j \in A, j # s.id
      PROVE  \E m \in From(N, j) :
               m.type # "MsgApp" /\ Promise(m) /\ m.term = T /\ Reach(m) >= n
  <2>1. j \in Server \ {s.id} /\ s.prs[j].match >= n
    BY <1>3, <1>4
  <2>2. s.prs[j].match \in Nat
    BY <1>1, <2>1 DEF ProgressType
  <2>3. s.prs[j].match # 0
    BY <1>2, <2>1, <2>2
  <2>4. PICK m \in From(N, j) : /\ m.type # "MsgApp" /\ Promise(m) /\ m.term = T
                                /\ Reach(m) >= s.prs[j].match
    BY <2>1, <2>3, Zenon DEF Acked
  <2>5. Reach(m) \in Nat
    BY ReachType DEF From
  <2>6. Reach(m) >= n
    BY <2>1, <2>2, <2>4, <2>5
  <2> QED BY <2>4, <2>6
<1> HIDE DEF T
<1>5. PICK a \in N : a.type = "MsgApp" /\ a.term = T /\ Reach(a) >= n
  <2>1. PICK j \in A : j # s.id
    <3>1. A \in SUBSET Voter /\ IsQuorum(A)
      BY <1>2
    <3> DEFINE i == s.id
    <3> HIDE DEF A, i
    <3>2. \E j \in A : j # i
      BY <3>1, OneIsNoQuorum
    <3> QED BY <3>2 DEF i
  <2>2. PICK m \in N : m.type # "MsgApp" /\ Promise(m) /\ m.term = T /\ Reach(m) >= n
    BY <1>4, <2>1, Zenon DEF From
  <2>3. n \in 1..Reach(m)
    BY <1>2, <2>2, ReachType
  <2>4. Spread(N, T, n)
    BY <1>2, <2>2, <2>3, Zenon DEF Told
  <2> QED BY <2>4 DEF Spread
<1>6. a.from = s.id
  <2>1. a.from \in Server
    BY MsgFields
  <2>2. NetVote(N, a.from, a.from, T) /\ Elected(N, a.from, T)
    BY <1>5, Zenon DEF NetInv, MsgInv, NetVote, LeaderType
  <2>3. \A c \in Server : NetVote(N, a.from, c, T) => c = a.from
    BY <1>1, <2>1, <2>2, Zenon DEF NetInv
  <2>4. Led(N, s, T)
    BY LeaderLed, Zenon DEF T
  <2>5. Elected(N, s.id, T) /\ \A c \in Server : NetVote(N, s.id, c, T) => c = s.id
    BY <2>4 DEF Led
  <2> QED BY <1>1, <2>1, <2>2, <2>3, <2>5, MajorityUnique, Zenon
<1>7. A \subseteq Backers(N, T, n)
  <2> SUFFICES ASSUME NEW j \in A PROVE j \in Backers(N, T, n)
    OBVIOUS
  <2>1. CASE j = s.id
    BY <1>5, <1>6, <2>1, Zenon DEF Backers, From, Promise
  <2>2. CASE j # s.id
    BY <1>4, <2>2, Zenon DEF Backers
  <2> QED BY <2>1, <2>2
<1>8. IsQuorum(Backers(N, T, n))
  <2>1. A \in SUBSET Voter /\ Backers(N, T, n) \in SUBSET Voter
    BY DEF Backers
  <2> HIDE DEF A
  <2> QED BY <1>2, <1>7, <2>1, QuorumGrows, Zenon
<1> QED BY <1>2, <1>8 DEF Chosen, T

(* What r has is there in what grows from it.                              *)
LEMMA GrownRec ==
  ASSUME Counting,
         NEW N \in SUBSET Msg, NEW H \in History, NEW G \in History, Grown(H, G),
         \A m \in N : Told(N, H, m), NEW r \in Node, NEW s \in Node, RecInv(N, H, r),
         Len(r.log) <= Len(s.log), \A n \in 1..Len(r.log) : s.log[n] = r.log[n],
         s.term = r.term
  PROVE  /\ \A m \in N : Told(N, G, m)
         /\ Voiced(N, G, r) /\ Holds(G, Sent(N, r), s.log, s.term)
         /\ Committed(N, G, s.log, s.term, r.committed)
<1>1. /\ r.log \in Seq(Entry) /\ s.log \in Seq(Entry) /\ r.term \in Nat
      /\ r.committed \in Nat /\ r.msgs \subseteq Msg
  BY LogFields
<1>2. H \in Books /\ G \in Books
  BY HistoryFacts
<1>3. \A m \in N : Told(N, G, m)
  BY <1>2, ToldGrows
<1>4. Voiced(N, G, r) /\ Within(H, Sent(N, r))
  BY <1>2, VoicedGrows, Zenon DEF RecInv
<1>5. Sent(N, r) \in SUBSET Msg
  BY <1>1, Zenon DEF Sent, From
<1>6. Holds(G, Sent(N, r), s.log, r.term)
  BY <1>1, <1>2, <1>4, <1>5, HoldsGrows, SMTT(30) DEF RecInv
<1>7. Committed(N, G, s.log, r.term, r.committed)
  <2>1. r.committed <= Len(r.log) => Agree(s.log, r.log, r.committed)
    BY <1>1 DEF Agree
  <2> QED BY <1>1, <1>2, <2>1, CommittedGrows DEF RecInv
<1> QED BY <1>3, <1>4, <1>6, <1>7, Zenon

(* A message the leader s sends tells what its log says.                   *)
LEMMA LeaderSound ==
  ASSUME NEW N \in SUBSET Msg, NEW G \in History, NEW r \in Node, NEW s \in Node,
         s.id = r.id, s.term = r.term, Reigns(N, G, s),
         Committed(N, G, s.log, s.term, s.committed),
         Fits(r), NEW x \in s.msgs, Harmless(r, x), Proper(r, s, x)
  PROVE  Sound(N, G, s, x)
<1>1. /\ s.log \in Seq(Entry) /\ s.term \in Nat /\ s.committed \in Nat /\ x \in Msg
      /\ s.prs \in [Server -> ProgressType]
  BY LogFields, Zenon
<1>2. /\ Reach(x) \in Nat /\ x.commit \in Nat /\ x.to \in Server /\ x.term \in Nat
      /\ x.entries \in Seq(Entry)
  BY <1>1, ReachType, MsgFields, Zenon
<1>3. s.log = G[s.term] /\ s.log # <<>> /\ Acked(N, s)
  BY Zenon DEF Reigns
<1>4. x.commit <= s.committed => Known(N, G, s.term, x.commit)
  BY <1>1, <1>2, CommittedKnown, Zenon
<1>5. CASE x.type = "MsgApp"
  <2>1. x.term = s.term /\ Quotes(x, s.log) /\ x.commit <= s.committed
    BY <1>5 DEF Harmless, LeaderType, Proper
  <2>2. Reach(x) <= Len(s.log)
    BY <1>5, <2>1, Zenon DEF Reach, Quotes
  <2>3. Told(N, G, x)
    BY <1>3, <1>4, <1>5, <2>1, <2>2, Zenon DEF Told
  <2>4. Agree(s.log, G[s.term], Reach(x))
    BY <1>1, <1>2, <1>3, <2>2, AgreeFacts, Zenon
  <2>5. ~Grant(x)
    BY <1>5, Zenon DEF Grant
  <2> QED BY <2>1, <2>3, <2>4, <2>5, Zenon DEF Sound
<1>6. CASE x.type = "MsgHeartbeat"
  <2>1. /\ x.term = s.term /\ x.commit <= s.committed
        /\ x.to \in Server \ {s.id} /\ x.commit <= s.prs[x.to].match
    BY <1>2, <1>6, Zenon DEF Harmless, LeaderType, Proper
  <2>2. s.prs[x.to].match \in Nat
    BY <1>1, <1>2, Zenon DEF ProgressType
  <2>3. x.commit = 0 \/ \E p \in From(N, x.to) :
                          Promise(p) /\ p.term = x.term /\ Reach(p) >= x.commit
    <3>1. CASE s.prs[x.to].match = 0
      BY <1>2, <2>1, <3>1
    <3>2. CASE s.prs[x.to].match # 0
      <4>1. PICK p \in From(N, x.to) :
              Promise(p) /\ p.term = s.term /\ Reach(p) >= s.prs[x.to].match
        BY <1>3, <2>1, <3>2, Zenon DEF Acked
      <4>2. Reach(p) \in Nat
        BY ReachType, Zenon DEF From
      <4>3. Reach(p) >= x.commit
        BY <1>2, <2>1, <2>2, <4>1, <4>2
      <4> QED BY <2>1, <4>1, <4>3, Zenon
    <3> QED BY <3>1, <3>2, Zenon
  <2>4. ~Promise(x) /\ ~Grant(x)
    BY <1>6, Zenon DEF Promise, Grant
  <2> QED BY <1>4, <1>6, <2>1, <2>3, <2>4, Zenon DEF Sound, Told
<1>7. CASE x.type # "MsgApp" /\ x.type # "MsgHeartbeat"
  <2>1. ~Grant(x)
    BY Zenon DEF Harmless, Ballot
  <2>2. Promise(x) => Reach(x) = 0
    BY <1>7, Zenon DEF Proper, Promise, Reach
  <2>3. G[x.term] \in Seq(Entry)
    BY <1>2, HistoryFacts, BookLogs, Zenon
  <2>4. Promise(x) => Reach(x) <= Len(G[x.term]) /\ 1..Reach(x) = {}
    BY <2>2, <2>3
  <2>5. Told(N, G, x)
    BY <1>7, <2>4, Zenon DEF Told
  <2> QED BY <2>1, <2>2, <2>5, Zenon DEF Sound
<1> QED BY <1>5, <1>6, <1>7, Zenon

(* What a leader does quietly.                                             *)
LEMMA LeaderRec ==
  ASSUME Counting,
         NEW N \in SUBSET Msg, NEW D \in [Server -> StorageType], NEW H \in History,
         \A m \in N : Told(N, H, m), NetInv(N, D), Cardinality(Voter) > 1,
         NEW r, NEW s, NodeInv(N, D, r), NodeInv(N, D, s), RecInv(N, H, r),
         r.state = "Leader", Quiet(r, s), ~s.panic
  PROVE  \E G : Continues(N, H, G, r, s)
<1> DEFINE T == r.term
           G == Amended(H, T, s.log)
<1>1. /\ r \in Node /\ s \in Node /\ s.id = r.id /\ s.term = T /\ s.state = "Leader"
      /\ \A x \in s.msgs : x \in r.msgs \/ Harmless(r, x)
  BY Zenon DEF Quiet, Mute
<1>2. Extends(r, s) /\ Orderly(r, s)
  BY Zenon DEF Quiet
<1>3. /\ Len(r.log) <= Len(s.log)
      /\ \A n \in 1..Len(r.log) : s.log[n] = r.log[n]
      /\ \A n \in Len(r.log) + 1..Len(s.log) : s.log[n].term = T
  BY <1>2, Zenon DEF Extends
<1>4. /\ \A j \in Server \ {r.id} : s.prs[j].match = r.prs[j].match
      /\ Fits(r) => Fits(s)
      /\ s.committed = r.committed \/ Reached(s, s.committed)
      /\ \A x \in s.msgs : x \in r.msgs \/ (Harmless(r, x) /\ Proper(r, s, x))
  BY <1>1, <1>2, Zenon DEF Orderly
<1>5. /\ r.log \in Seq(Entry) /\ s.log \in Seq(Entry) /\ T \in Nat /\ s.committed \in Nat
  BY <1>1, LogFields, Zenon
<1>6. Reigns(N, H, r) /\ Faithful(H, r.log, T)
  BY Zenon DEF RecInv
<1>7. r.log = H[T] /\ r.log # <<>> /\ Fits(r) /\ Acked(N, r)
  BY <1>6 DEF Reigns
<1>8. T >= 1
  BY Zenon DEF NodeInv, RoleInv
<1>9. s.log # <<>> /\ s.log[Len(s.log)].term = T
  <2>1. r.log[Len(r.log)].term = T
    BY <1>5, <1>7, HistoryFacts, Zenon
  <2>2. CASE Len(s.log) = Len(r.log)
    BY <1>3, <1>5, <1>7, <2>1, <2>2
  <2>3. CASE Len(s.log) > Len(r.log)
    BY <1>3, <1>5, <2>3, SMTT(30)
  <2> QED BY <1>3, <1>5, <2>2, <2>3
<1>10. /\ G \in History /\ Grown(H, G) /\ G[T] = s.log
       /\ \A t \in Nat : t # T => G[t] = H[t]
  <2> DEFINE k == r.log
             l == s.log
  <2>1. Prolongs(k, l, T)
    BY <1>3, <1>5, <1>6, <1>7, <1>8, <1>9, Zenon DEF Prolongs
  <2>2. /\ k \in Seq(Entry) /\ l \in Seq(Entry) /\ T \in Nat /\ T >= 1 /\ Faithful(H, k, T)
        /\ H[T] = k /\ G = Amended(H, T, l)
    BY <1>3, <1>5, <1>6, <1>7, <1>8, <1>9, ZenonT(30)
  <2> HIDE DEF G, T, k, l
  <2>3. /\ G \in History /\ Grown(H, G) /\ G[T] = l
        /\ \A t \in Nat : t # T => G[t] = H[t]
    BY <2>1, <2>2, AppendHistory
  <2> QED BY <2>3 DEF l
<1> HIDE DEF G, T
<1>11. /\ \A m \in N : Told(N, G, m)
       /\ Voiced(N, G, r) /\ Holds(G, Sent(N, r), s.log, s.term)
       /\ Committed(N, G, s.log, s.term, r.committed)
  BY <1>1, <1>3, <1>10, GrownRec, Zenon DEF T
<1>12. Acked(N, s)
  BY <1>1, <1>4, <1>7, Zenon DEF Acked, T
<1>13. Reigns(N, G, s)
  BY <1>1, <1>4, <1>7, <1>9, <1>10, <1>12, Zenon DEF Reigns
<1>14. Committed(N, G, s.log, s.term, s.committed)
  <2>1. CASE s.committed = r.committed
    BY <1>11, <2>1
  <2>2. CASE Reached(s, s.committed)
    <3>1. Chosen(N, G, T, s.committed)
      BY <1>1, <1>5, <1>10, <1>11, <1>12, <2>2, ReachedChosen, ZenonT(30)
    <3>2. Agree(s.log, G[T], s.committed)
      BY <1>5, <1>10, <2>2, AgreeFacts DEF Reached
    <3>3. T \in 1..T /\ s.committed <= s.committed
      BY <1>5, <1>8
    <3> QED BY <1>1, <1>5, <3>1, <3>2, <3>3, Zenon DEF Committed
  <2> QED BY <1>4, <2>1, <2>2, Zenon
<1>15. Faithful(G, s.log, s.term)
  BY <1>1, <1>5, <1>10, HistoryFacts, Zenon
<1>16. \A x \in s.msgs : x \in r.msgs \/ Sound(N, G, s, x)
  BY <1>1, <1>4, <1>7, <1>10, <1>13, <1>14, LeaderSound, Zenon DEF T
<1>17. \A g \in Sent(N, r) : Grant(g) => g.term <= s.term
  BY <1>1, VotesBind, Zenon DEF T
<1>18. RecInv(N, G, s) /\ Silent(r, s)
  BY <1>1, <1>10, <1>11, <1>13, <1>14, <1>15, <1>16, <1>17, RecMoves,
     ZenonT(30) DEF T
<1> QED BY <1>10, <1>18, Zenon DEF Continues, T
-----------------------------------------------------------------------------
(* What a candidate who becomes a leader does to it.                       *)

(* Who wins an election is the first to lead its term.                     *)
LEMMA NobodyLed ==
  ASSUME Counting, NEW N, NEW D, NEW R, NEW H, World(N, D, R), Records(N, D, R, H),
         NEW i \in Server, R[i].state = "Candidate", votesGranted(R[i]) = quorum(R[i])
  PROVE  H[R[i].term] = <<>> /\ Elected(N, i, R[i].term)
<1> DEFINE r == R[i]
<1>1. /\ NetInv(N, D) /\ NodeInv(N, D, r) /\ r \in Node /\ r.id = i
      /\ \A k \in Server : R[k] \in Node /\ R[k].id = k
  BY DEF World
<1>2. Elected(N, r.id, r.term)
  BY <1>1, QuorumElects, Zenon
<1>3. r.term \in Nat /\ r.id \in Server
  BY <1>1, LogFields, ZenonT(30)
<1> SUFFICES ASSUME H[r.term] # <<>> PROVE FALSE
  BY <1>1, <1>2
<1>4. PICK k \in Server : Led(N, R[k], r.term)
  BY <1>3, Zenon DEF Records, TermInv, Safe
<1>5. \A c \in Server : NetVote(N, r.id, c, r.term) => c = r.id
  <2>1. OwnVote(r, r.id, r.term)
    BY Zenon DEF OwnVote
  <2> QED BY <1>1, <1>3, <2>1, Zenon DEF NodeInv, VoteInv
<1>6. R[k].id = r.id
  BY <1>1, <1>2, <1>3, <1>4, <1>5, OneHasLed
<1>7. k = i
  BY <1>1, <1>6, Zenon
<1> QED BY <1>4, <1>7, Zenon DEF Led

(* A new leader appends an entry of its term to its log and commits        *)
(* nothing.                                                                *)
LEMMA WinsRec ==
  ASSUME Counting,
         NEW N \in SUBSET Msg, NEW D \in [Server -> StorageType], NEW H \in History,
         \A m \in N : Told(N, H, m), NetInv(N, D), Cardinality(Voter) > 1,
         NEW r, NEW s, NodeInv(N, D, r), NodeInv(N, D, s), RecInv(N, H, r),
         r.state = "Candidate", H[r.term] = <<>>, Wins(r, s), ~s.panic
  PROVE  \E G : Continues(N, H, G, r, s) /\ G[r.term] = s.log
<1> DEFINE T == r.term
           G == Amended(H, T, s.log)
<1>1. /\ r \in Node /\ s \in Node /\ s.id = r.id /\ s.term = T /\ s.state = "Leader"
      /\ s.msgs = r.msgs
  BY Zenon DEF Wins
<1>2. Extends(r, s) /\ Enthroned(r, s)
  BY Zenon DEF Wins
<1>3. /\ \A n \in 1..Len(r.log) : s.log[n] = r.log[n]
      /\ \A n \in Len(r.log) + 1..Len(s.log) : s.log[n].term = T
  BY <1>2, Zenon DEF Extends
<1>4. /\ Len(s.log) = Len(r.log) + 1 /\ Fits(s)
      /\ \A j \in Server \ {r.id} : s.prs[j].match = 0
      /\ s.committed = r.committed \/ Reached(s, s.committed)
  BY <1>2, Zenon DEF Enthroned
<1>5. r.log \in Seq(Entry) /\ s.log \in Seq(Entry) /\ T \in Nat /\ s.committed \in Nat
  BY <1>1, LogFields
<1>6. Faithful(H, r.log, T)
  BY Zenon DEF RecInv
<1>7. T >= 1
  BY Zenon DEF NodeInv, RoleInv
<1>8. s.log # <<>> /\ s.log[Len(s.log)].term = T /\ Len(r.log) <= Len(s.log)
  BY <1>3, <1>4, <1>5
<1>9. /\ G \in History /\ Grown(H, G) /\ G[T] = s.log
      /\ \A t \in Nat : t # T => G[t] = H[t]
  <2> DEFINE k == r.log
             l == s.log
  <2>1. Prolongs(k, l, T)
    BY <1>3, <1>5, <1>6, <1>7, <1>8, Zenon DEF Prolongs
  <2>2. /\ k \in Seq(Entry) /\ l \in Seq(Entry) /\ T \in Nat /\ T >= 1 /\ Faithful(H, k, T)
        /\ H[T] = <<>> /\ G = Amended(H, T, l)
    BY <1>3, <1>5, <1>6, <1>7, <1>8, Zenon
  <2> HIDE DEF G, T, k, l
  <2>3. /\ G \in History /\ Grown(H, G) /\ G[T] = l
        /\ \A t \in Nat : t # T => G[t] = H[t]
    BY <2>1, <2>2, AppendHistory
  <2> QED BY <2>3 DEF l
<1> HIDE DEF G, T
<1>10. /\ \A m \in N : Told(N, G, m)
       /\ Voiced(N, G, r) /\ Holds(G, Sent(N, r), s.log, s.term)
       /\ Committed(N, G, s.log, s.term, r.committed)
  BY <1>1, <1>3, <1>8, <1>9, GrownRec, Zenon DEF T
<1>11. Reigns(N, G, s)
  BY <1>1, <1>4, <1>8, <1>9, Zenon DEF Reigns, Acked
<1>12. s.committed = r.committed
  <2> SUFFICES ASSUME Reached(s, s.committed) PROVE FALSE
    BY <1>4, Zenon
  <2> DEFINE A == {j \in Voter : j = s.id \/ s.prs[j].match >= s.committed}
  <2>1. IsQuorum(A) /\ A \in SUBSET Voter /\ s.committed >= 1
    BY <1>5 DEF Reached
  <2>2. PICK j \in A : j # s.id
    <3> DEFINE i == s.id
    <3> HIDE DEF A, i
    <3>1. \E j \in A : j # i
      BY <2>1, OneIsNoQuorum
    <3> QED BY <3>1 DEF i
  <2>3. j \in Server \ {r.id} /\ s.prs[j].match >= s.committed
    BY <1>1, <2>2, Zenon DEF Server
  <2>4. s.prs[j].match = 0
    BY <1>4, <2>3, Zenon
  <2> QED BY <1>5, <2>1, <2>3, <2>4
<1>13. Faithful(G, s.log, s.term)
  BY <1>1, <1>5, <1>9, HistoryFacts, Zenon
<1>14. \A g \in Sent(N, r) : Grant(g) => g.term <= s.term
  BY <1>1, VotesBind, Zenon DEF T
<1>15. RecInv(N, G, s) /\ Silent(r, s)
  BY <1>1, <1>9, <1>10, <1>11, <1>12, <1>13, <1>14, RecMoves, Zenon
<1> QED BY <1>9, <1>15, Zenon DEF Continues, T

(* A candidate whose log is up to date with what a voter has promised has  *)
(* it.                                                                     *)
LEMMA UpToHas ==
  ASSUME NEW H \in History, NEW r \in Node, Faithful(H, r.log, r.term),
         H[r.term] = <<>>, NEW v, v.index = Len(r.log), v.logterm = lastTerm(r),
         NEW t \in Nat, t < r.term, NEW n \in Nat, n \in 1..Len(H[t]), H[t][n].term = t,
         UpTo(v, t, n)
  PROVE  Has(H, r.log, t, n, r.term - 1)
<1> DEFINE k == Len(r.log)
           u == lastTerm(r)
<1>1. r.log \in Seq(Entry) /\ r.term \in Nat /\ lastIndex(r) = k
  BY LogFields, Zenon DEF lastIndex
<1>2. u > t \/ (u = t /\ k >= n)
  BY DEF UpTo
<1>3. t >= 1
  <2>1. Faithful(H, H[t], t)
    BY HistoryFacts
  <2>2. H[t][n].term \in 1..t
    BY <2>1 DEF Faithful
  <2> QED BY <2>2
<1>4. k \in 1..Len(r.log) /\ u = r.log[k].term
  <2>1. k # 0
    BY <1>1, <1>2, <1>3 DEF lastTerm, term
  <2>2. k \in 1..Len(r.log)
    BY <1>1, <2>1
  <2> QED BY <1>1, <2>2, ZenonT(30) DEF lastTerm, term
<1>5. u \in 1..r.term /\ Agree(r.log, H[u], k)
  BY <1>4, Zenon DEF Faithful
<1> HIDE DEF u, k
<1>6. H[u] \in Seq(Entry) /\ H[t] \in Seq(Entry) /\ Faithful(H, H[u], u) /\ u \in Nat /\ k \in Nat
  BY <1>1, <1>4, <1>5, HistoryFacts, BookLogs, SMTT(30)
<1>7. H[u] # <<>> /\ k \in 1..Len(H[u]) /\ r.log[k] = H[u][k]
  BY <1>4, <1>5, <1>6 DEF Agree
<1>8. u <= r.term - 1
  BY <1>1, <1>5, <1>7
<1>9. CASE u = t
  <2>1. Agree(r.log, H[t], n)
    BY <1>1, <1>2, <1>5, <1>6, <1>9, AgreeFacts
  <2> QED BY <2>1, Zenon DEF Has
<1>10. CASE u > t
  <2>1. Has(H, H[u], t, n, u)
    BY <1>6, <1>7, <1>10, LaterHas
  <2>2. CASE Lost(H, t, n, u)
    <3>1. t + 1..u \subseteq t + 1..r.term - 1
      BY <1>1, <1>6, <1>8
    <3>2. Lost(H, t, n, r.term - 1)
      BY <2>2, <3>1 DEF Lost
    <3> QED BY <3>2 DEF Has
  <2>3. CASE Agree(H[u], H[t], n)
    <3>1. n <= k
      <4> SUFFICES ASSUME k < n PROVE FALSE
        BY <1>6
      <4>1. n \in 1..Len(H[u]) /\ H[u][n] = H[t][n] /\ k \in 1..n
        BY <1>6, <1>7, <2>3 DEF Agree
      <4>2. H[u][k].term \in 1..H[u][n].term
        BY <1>6, <4>1, TermsAscend, Zenon
      <4>3. u \in 1..t
        BY <1>4, <1>7, <4>1, <4>2, Zenon
      <4> QED BY <1>10, <4>3
    <3>2. Agree(r.log, H[u], n)
      BY <1>1, <1>5, <1>6, <3>1, AgreeFacts, Zenon
    <3>3. Agree(r.log, H[t], n)
      BY <1>1, <1>6, <2>3, <3>2, AgreeFacts, ZenonT(30)
    <3> QED BY <3>3 DEF Has
  <2> QED BY <2>1, <2>2, <2>3, Zenon DEF Has
<1> QED BY <1>2, <1>9, <1>10, Zenon

(* The voters of a new leader have promised nothing to earlier leaders     *)
(* that it has not, or that is not lost.                                   *)
LEMMA SupportersYield ==
  ASSUME NEW N, NEW D, NEW R, NEW H, World(N, D, R), Records(N, D, R, H),
         NEW i \in Server, R[i].state = "Candidate", H[R[i].term] = <<>>,
         NEW j \in Supporters(N, i, R[i].term),
         NEW m \in Sent(N, R[j]), Promise(m), m.term < R[i].term,
         NEW n \in 1..Reach(m), H[m.term][n].term = m.term
  PROVE  Has(H, R[i].log, m.term, n, R[i].term - 1)
<1> DEFINE r == R[i]
           T == r.term
<1>1. j \in Server /\ N \in SUBSET Msg
  BY Zenon DEF Supporters, Server, World
<1>2. /\ H \in History /\ \A x \in N : Told(N, H, x)
      /\ RecInv(N, H, r) /\ RecInv(N, H, R[j])
  BY <1>1, Zenon DEF Records
<1>3. r \in Node /\ R[j] \in Node /\ r.id = i /\ R[j].id = j
  BY <1>1 DEF World
<1>4. T \in Nat /\ R[j].msgs \subseteq Msg /\ r.log \in Seq(Entry)
  BY <1>3, LogFields, Zenon
<1>5. m \in Msg /\ Told(N, H, m) /\ m.term \in Nat /\ Reach(m) \in Nat /\ n \in Nat
  <2>1. m \in Msg /\ Told(N, H, m)
    BY <1>1, <1>2, <1>4, Zenon DEF Sent, From, RecInv, Voiced
  <2> QED BY <2>1, ReachType
<1>6. n \in 1..Len(H[m.term])
  <2>1. Reach(m) <= Len(H[m.term])
    BY <1>5, Zenon DEF Told
  <2>2. H[m.term] \in Seq(Entry)
    BY <1>2, <1>5, HistoryFacts, BookLogs, Zenon
  <2> QED BY <1>5, <2>1, <2>2
<1>7. CASE j = i
  <2>1. Has(H, r.log, m.term, n, T)
    BY <1>2, <1>7, Zenon DEF RecInv, Holds
  <2>2. Lost(H, m.term, n, T) => Lost(H, m.term, n, T - 1)
    BY <1>2, <1>4, <1>5, NotLostNow, Zenon
  <2> QED BY <2>1, <2>2, Zenon DEF Has
<1>8. CASE j # i
  <2>1. PICK g \in N : Grant(g) /\ g.from = j /\ g.to = i /\ g.term = T
    BY <1>8 DEF Supporters
  <2>2. g \in Sent(N, R[j])
    BY <1>3, <2>1, Zenon DEF Sent, From
  <2>3. Backed(N, H, Sent(N, R[j]), g)
    BY <1>2, <2>1, <2>2, Zenon DEF RecInv, Voiced
  <2>4. PICK v \in From(N, i) :
          /\ v.type = "MsgVote" /\ v.term = T
          /\ UpTo(v, m.term, n) \/ Lost(H, m.term, n, T - 1)
    BY <2>1, <2>3, Zenon DEF Backed
  <2>5. Asks(r, Sent(N, r)) /\ v \in Sent(N, r)
    BY <1>2, <1>3, Zenon DEF RecInv, Sent, From
  <2>6. v.index = Len(r.log) /\ v.logterm = lastTerm(r)
    BY <2>4, <2>5, Zenon DEF Asks
  <2>7. CASE UpTo(v, m.term, n)
    <3>1. Faithful(H, r.log, r.term)
      BY <1>2, Zenon DEF RecInv
    <3> HIDE DEF r
    <3>2. Has(H, r.log, m.term, n, r.term - 1)
      BY <1>2, <1>3, <1>5, <1>6, <2>6, <2>7, <3>1, UpToHas, Zenon DEF r
    <3> QED BY <3>2, Zenon DEF r
  <2>8. CASE Lost(H, m.term, n, T - 1)
    BY <2>8, Zenon DEF Has
  <2> QED BY <2>4, <2>7, <2>8, Zenon
<1> QED BY <1>7, <1>8, Zenon

(* They have saved the term they voted in, the leader before it asked.     *)
LEMMA SupportersSaved ==
  ASSUME Counting, NEW N, NEW D, NEW R, NEW H, World(N, D, R), Records(N, D, R, H),
         Cardinality(Voter) > 1,
         NEW i \in Server, H[R[i].term] = <<>>, Elected(N, i, R[i].term)
  PROVE  /\ Bound(D[i].hardState, i, R[i].term)
         /\ \A j \in Supporters(N, i, R[i].term) : D[j].hardState.term >= R[i].term
<1> DEFINE T == R[i].term
           Q == Supporters(N, i, T)
<1>1. /\ NetInv(N, D) /\ R[i] \in Node /\ \A k \in Server : R[k].id = k
      /\ D \in [Server -> StorageType]
  BY DEF World
<1>2. T \in Nat
  BY <1>1, LogFields, Zenon
<1>3. Q \in SUBSET Voter /\ IsQuorum(Q)
  <2>1. Q \in SUBSET Voter /\ 2 * Cardinality(Q) > Cardinality(Voter)
    BY Zenon DEF Elected, Supporters
  <2>2. Q \cap Voter = Q
    BY <2>1, Zenon
  <2> QED BY <2>1, <2>2, Zenon DEF IsQuorum
<1>4. \A j \in Q : j \in Server /\ (j # i => NetVote(N, j, i, T))
  BY Zenon DEF Supporters, Server, NetVote
<1>5. NetVote(N, i, i, T)
  <2>1. PICK j \in Q : j # i
    <3> HIDE DEF Q
    <3> QED BY <1>3, OneIsNoQuorum
  <2>2. PICK g \in N : Grant(g) /\ g.from = j /\ g.to = i /\ g.term = T
    BY <2>1 DEF Supporters
  <2>3. j \in Server /\ g \in Sent(N, R[j])
    BY <1>1, <1>4, <2>2, Zenon DEF Sent, From
  <2>4. Backed(N, H, Sent(N, R[j]), g)
    BY <2>2, <2>3, Zenon DEF Records, RecInv, Voiced
  <2>5. PICK v \in From(N, i) : v.type = "MsgVote" /\ v.term = T
    BY <2>2, <2>4, Zenon DEF Backed
  <2> QED BY <2>5, Zenon DEF From, NetVote
<1> HIDE DEF Q, T
<1>6. \A j \in Server : D[j].hardState.term \in Nat
  BY <1>1 DEF StorageType
<1>7. ASSUME NEW j \in Server, NetVote(N, j, i, T) PROVE Bound(D[j].hardState, i, T)
  BY <1>1, <1>2, <1>7, Zenon DEF NetInv
<1>8. ASSUME NEW j \in Q PROVE D[j].hardState.term >= T
  <2>1. j \in Server /\ Bound(D[j].hardState, i, T)
    BY <1>4, <1>5, <1>7, Zenon
  <2> QED BY <1>2, <1>6, <2>1 DEF Bound
<1> QED BY <1>5, <1>7, <1>8, Zenon DEF Q, T

(* So a new leader has what its voters have promised.                      *)
LEMMA WinsTerm ==
  ASSUME Counting, NEW N, NEW D, NEW R, NEW H, World(N, D, R), Records(N, D, R, H),
         Cardinality(Voter) > 1,
         NEW i \in Server, R[i].state = "Candidate", H[R[i].term] = <<>>,
         Elected(N, i, R[i].term),
         NEW s \in Node, NodeInv(N, D, s), s.id = i, s.term = R[i].term,
         s.state = "Leader", s.msgs = R[i].msgs,
         Len(R[i].log) <= Len(s.log), \A n \in 1..Len(R[i].log) : s.log[n] = R[i].log[n],
         NEW G \in History, Grown(H, G), G[s.term] = s.log
  PROVE  TermInv(N, D, [R EXCEPT ![i] = s], G, s.term)
<1> DEFINE r == R[i]
           T == r.term
           Q == Supporters(N, i, T)
           S == [R EXCEPT ![i] = s]
<1>1. /\ N \in SUBSET Msg /\ R \in [Server -> Node]
      /\ \A k \in Server : R[k].id = k
  BY Zenon DEF World
<1>2. r \in Node /\ r.id = i /\ S[i] = s /\ \A k \in Server : k # i => S[k] = R[k]
  BY <1>1, Zenon
<1>3. H \in History /\ \A m \in N : Told(N, H, m)
  BY Zenon DEF Records
<1>4. T \in Nat /\ r.log \in Seq(Entry) /\ s.log \in Seq(Entry)
  BY <1>2, LogFields
<1>5. Q \in SUBSET Voter /\ IsQuorum(Q)
  <2>1. Q \in SUBSET Voter /\ 2 * Cardinality(Q) > Cardinality(Voter)
    BY DEF Elected, Supporters
  <2>2. Q \cap Voter = Q
    BY <2>1, ZenonT(30)
  <2> QED BY <2>1, <2>2, ZenonT(30) DEF IsQuorum
<1>6. Bound(D[i].hardState, i, T) /\ \A j \in Q : D[j].hardState.term >= T
  BY SupportersSaved
<1>7. Safe(N, D, S, T)
  <2>1. Led(N, s, T)
    BY LeaderLed
  <2> QED BY <1>2, <1>6, <2>1, Zenon DEF Safe
<1>8. H \in Books /\ G \in Books
  BY <1>3, HistoryFacts, Zenon
<1> HIDE DEF Q, S
<1>9. ASSUME NEW j \in Q PROVE Yields(G, Sent(N, S[j]), T)
  <2> SUFFICES ASSUME NEW m \in Sent(N, S[j]), Promise(m), m.term < T, NEW n \in 1..Reach(m),
                      G[m.term][n].term = m.term
               PROVE  Has(G, G[T], m.term, n, T - 1)
    BY Zenon DEF Yields
  <2>1. j \in Server
    BY <1>5, <1>9, Zenon DEF Server
  <2>2. m \in Sent(N, R[j])
    BY <1>2, <2>1, ZenonT(30) DEF Sent, From
  <2>3. R[j] \in Node /\ RecInv(N, H, R[j])
    BY <1>1, <2>1, Zenon DEF Records
  <2>4. R[j].msgs \subseteq Msg
    BY <2>3, LogFields, Zenon
  <2>5. m \in Msg /\ Told(N, H, m)
    BY <1>1, <1>3, <2>2, <2>3, <2>4, ZenonT(30) DEF Sent, From, RecInv, Voiced
  <2>6. m.term \in Nat /\ Reach(m) \in Nat /\ n \in Nat
    BY <2>5, ReachType
  <2>7. H[m.term] \in Seq(Entry) /\ Reach(m) <= Len(H[m.term])
    BY <1>8, <2>5, <2>6, BookLogs, ZenonT(30) DEF Told
  <2>8. n \in 1..Len(H[m.term]) /\ n <= Len(H[m.term])
    BY <2>6, <2>7
  <2>9. H[m.term][n].term = m.term
    BY <2>6, <2>8, Zenon DEF Grown
  <2>10. Has(H, r.log, m.term, n, T - 1)
    BY <1>9, <2>2, <2>9, SupportersYield, Zenon DEF Q
  <2>11. Has(G, s.log, m.term, n, T - 1)
    <3>1. T - 1 \in Int /\ T - 1 <= T - 1
      BY <1>4
    <3> DEFINE k == r.log
               l == s.log
               u == m.term
    <3>2. /\ k \in Seq(Entry) /\ l \in Seq(Entry) /\ Len(k) <= Len(l)
          /\ \A x \in 1..Len(k) : l[x] = k[x]
          /\ u \in Nat /\ n \in Nat /\ n <= Len(H[u]) /\ Has(H, k, u, n, T - 1)
      BY <1>4, <2>6, <2>8, <2>10, ZenonT(30)
    <3> HIDE DEF T, k, l, u
    <3>3. Has(G, l, u, n, T - 1)
      BY <1>8, <3>1, <3>2, HasGrows
    <3> QED BY <3>3, ZenonT(30) DEF l, u
  <2> QED BY <2>11, Zenon
<1> QED BY <1>5, <1>6, <1>7, <1>9, ZenonT(30) DEF TermInv, S

(* There is one leader in a term.                                          *)
LEMMA OnlyLeader ==
  ASSUME Counting,
         NEW N, NEW D, NEW R, World(N, D, R), NEW i \in Server, NEW k \in Server,
         R[i].state = "Leader", R[k].state = "Leader", R[i].term = R[k].term
  PROVE  i = k
<1>1. /\ NetInv(N, D) /\ \A j \in Server : R[j].id = j /\ NodeInv(N, D, R[j])
      /\ R[i] \in Node /\ R[k] \in Node
  BY Zenon DEF World
<1>2. R[i].term \in Nat
  BY <1>1, LogFields, ZenonT(30)
<1>3. Led(N, R[i], R[i].term) /\ Led(N, R[k], R[i].term)
  BY <1>1, LeaderLed
<1>4. /\ Elected(N, R[k].id, R[i].term)
      /\ \A c \in Server : NetVote(N, R[k].id, c, R[i].term) => c = R[k].id
  BY <1>3, Zenon DEF Led
<1>5. R[i].id = R[k].id
  <2> DEFINE r == R[i]
             s == R[k]
             t == R[i].term
  <2>1. /\ NetInv(N, D) /\ t \in Nat /\ r \in Node /\ s \in Node
        /\ Led(N, r, t) /\ Elected(N, s.id, t)
        /\ \A c \in Server : NetVote(N, s.id, c, t) => c = s.id
    BY <1>1, <1>2, <1>3, <1>4, Zenon
  <2> HIDE DEF r, s, t
  <2>2. r.id = s.id
    BY <2>1, OneHasLed, Zenon
  <2> QED BY <2>2, Zenon DEF r, s
<1> QED BY <1>1, <1>5, Zenon
-----------------------------------------------------------------------------
(* Every world has a history.                                              *)

(* The same for the log of a leader.                                       *)
LEMMA YieldsGrows ==
  ASSUME NEW H \in Books, NEW G \in Books, Grown(H, G),
         NEW M \in SUBSET Msg, NEW P \in SUBSET M, Within(H, M),
         NEW t \in Nat, Yields(H, M, t)
  PROVE  Yields(G, P, t)
<1> SUFFICES ASSUME NEW m \in P, Promise(m), m.term < t, NEW n \in 1..Reach(m),
                    G[m.term][n].term = m.term
             PROVE  Has(G, G[t], m.term, n, t - 1)
  BY DEF Yields
<1>1. m \in M /\ m \in Msg
  OBVIOUS
<1>2. Reach(m) \in Nat /\ m.term \in Nat
  BY <1>1, ReachType
<1>3. n \in Nat /\ n <= Len(H[m.term])
  BY <1>1, <1>2 DEF Within
<1>4. H[m.term] \in Seq(Entry) /\ \A x \in 1..Len(H[m.term]) : G[m.term][x] = H[m.term][x]
  BY <1>2, GrownLogs, Zenon
<1>5. H[m.term][n].term = m.term
  BY <1>3, <1>4
<1>6. Has(H, H[t], m.term, n, t - 1)
  BY <1>1, <1>5, Zenon DEF Yields
<1>7. /\ H[t] \in Seq(Entry) /\ G[t] \in Seq(Entry) /\ Len(H[t]) <= Len(G[t])
      /\ \A x \in 1..Len(H[t]) : G[t][x] = H[t][x]
  BY GrownLogs, Zenon
<1> DEFINE h == H[t]
           g == G[t]
           u == m.term
<1>8. /\ h \in Seq(Entry) /\ g \in Seq(Entry) /\ Len(h) <= Len(g)
      /\ \A x \in 1..Len(h) : g[x] = h[x]
      /\ u \in Nat /\ n \in Nat /\ n <= Len(H[u]) /\ Has(H, h, u, n, t - 1)
  BY <1>2, <1>3, <1>6, <1>7, Zenon
<1>9. t - 1 \in Int /\ t - 1 <= t - 1
  OBVIOUS
<1> HIDE DEF h, g, u
<1>10. Has(G, g, u, n, t - 1)
  BY <1>8, <1>9, HasGrows, SMTT(30)
<1> QED BY <1>10 DEF g, u

(* A node that does nothing but send what it has in its mailbox, or forget *)
(* it, notices nothing, unless it leads the term that grows.               *)
LEMMA RecGrows ==
  ASSUME Counting, NEW N \in SUBSET Msg, NEW V \in SUBSET Msg, N \subseteq V,
         NEW H \in Books, NEW G \in Books, Grown(H, G),
         NEW r \in Node, NEW s, RecInv(N, H, r), \A m \in N : Told(N, H, m),
         Sheds(r, s), Sent(V, s) \subseteq Sent(N, r),
         r.state = "Leader" => G[r.term] = H[r.term]
  PROVE  RecInv(V, G, s)
<1>1. r.log \in Seq(Entry) /\ r.term \in Nat /\ r.committed \in Nat /\ r.msgs \subseteq Msg
  BY LogFields, Zenon
<1>2. /\ s \in Node /\ s.id = r.id /\ s.term = r.term /\ s.state = r.state
      /\ s.msgs \subseteq r.msgs /\ s.log = r.log /\ s.committed = r.committed
      /\ s.prs = r.prs
  BY Zenon DEF Sheds
<1>3. Voiced(V, G, s) /\ Within(H, Sent(N, r))
  BY <1>2, VoicedGrows, ZenonT(30) DEF RecInv
<1>4. Sent(N, r) \in SUBSET Msg /\ Sent(V, s) \in SUBSET Sent(N, r)
  BY <1>1, Zenon DEF Sent, From
<1> DEFINE l == r.log
           T == r.term
           c == r.committed
           A == Sent(N, r)
           B == Sent(V, s)
<1>10. /\ Faithful(H, l, T) /\ Holds(H, A, l, T) /\ Committed(N, H, l, T, c)
       /\ l \in Seq(Entry) /\ T \in Nat /\ c \in Nat
       /\ A \in SUBSET Msg /\ B \in SUBSET A /\ Within(H, A)
  BY <1>1, <1>3, <1>4, ZenonT(30) DEF RecInv
<1> HIDE DEF l, T, c, A, B
<1>5. Faithful(G, l, T)
  BY <1>10, FaithfulGrows, SMTT(30)
<1>6. Holds(G, B, l, T)
  BY <1>10, HoldsGrows, SMTT(30)
<1>7. Committed(V, G, l, T, c)
  BY <1>10, AgreeFacts, CommittedGrows, SMTT(30)
<1> USE DEF l, T, c, A, B
<1>8. s.state = "Candidate" => Asks(s, Sent(V, s))
  <2>1. lastTerm(s) = lastTerm(r)
    BY <1>2, ZenonT(30) DEF lastTerm, term, lastIndex
  <2> QED BY <1>2, <1>4, <2>1, Zenon DEF RecInv, Asks
<1>9. s.state = "Leader" => Reigns(V, G, s)
  <2>1. Fits(r) => Fits(s)
    BY <1>2, ZenonT(30) DEF Fits
  <2>2. Acked(N, r) => Acked(V, s)
    BY <1>2, ZenonT(30) DEF Acked, From
  <2> QED BY <1>2, <2>1, <2>2, ZenonT(30) DEF RecInv, Reigns
<1> QED BY <1>2, <1>3, <1>5, <1>6, <1>7, <1>8, <1>9, Zenon DEF RecInv

(* Neither does a disk.                                                    *)
LEMMA DiskGrows ==
  ASSUME Counting, NEW N \in SUBSET Msg, NEW V \in SUBSET Msg, N \subseteq V,
         NEW H \in Books, NEW G \in Books, Grown(H, G),
         NEW j, NEW d \in StorageType, DiskInv(N, H, j, d),
         \A m \in N : Told(N, H, m), From(V, j) \subseteq From(N, j)
  PROVE  DiskInv(V, G, j, d)
<1>1. d.log \in Seq(Entry) /\ d.hardState.term \in Nat /\ d.hardState.commit \in Nat
  BY DEF StorageType
<1>2. From(N, j) \in SUBSET Msg /\ From(V, j) \in SUBSET From(N, j)
  BY Zenon DEF From
<1>3. Within(H, From(N, j))
  BY Zenon DEF Within, From, Told
<1> DEFINE l == d.log
           T == d.hardState.term
           c == d.hardState.commit
           A == From(N, j)
           B == From(V, j)
<1>4. /\ Faithful(H, l, T) /\ Holds(H, A, l, T) /\ Committed(N, H, l, T, c)
      /\ l \in Seq(Entry) /\ T \in Nat /\ c \in Nat
      /\ A \in SUBSET Msg /\ B \in SUBSET A /\ Within(H, A)
  BY <1>1, <1>2, <1>3, ZenonT(30) DEF DiskInv
<1> HIDE DEF l, T, c, A, B
<1>5. Faithful(G, l, T)
  BY <1>4, FaithfulGrows
<1>6. Holds(G, B, l, T)
  BY <1>4, HoldsGrows
<1>7. Committed(V, G, l, T, c)
  BY <1>4, AgreeFacts, CommittedGrows
<1> QED BY <1>5, <1>6, <1>7, ZenonT(30) DEF DiskInv, l, T, c, B

(* What is to be shown when the record of i becomes s and the history G.   *)
LEMMA RecordsMove ==
  ASSUME Counting, NEW N, NEW D, NEW R, NEW H, World(N, D, R), Records(N, D, R, H),
         NEW i \in Server, NEW s \in Node, s.id = i,
         \A t \in Nat : Led(N, R[i], t) => Led(N, s, t),
         NEW G \in History, Grown(H, G), RecInv(N, G, s), Silent(R[i], s),
         \A k \in Server \ {i} : R[k].state = "Leader" => G[R[k].term] = H[R[k].term],
         \A t \in Nat : H[t] = <<>> /\ G[t] # <<>> =>
                          TermInv(N, D, [R EXCEPT ![i] = s], G, t)
  PROVE  Records(N, D, [R EXCEPT ![i] = s], G)
<1> DEFINE S == [R EXCEPT ![i] = s]
<1>1. /\ N \in SUBSET Msg /\ D \in [Server -> StorageType] /\ R \in [Server -> Node]
      /\ \A k \in Server : R[k].id = k /\ NodeInv(N, D, R[k])
  BY Zenon DEF World
<1>2. S[i] = s /\ \A k \in Server : k # i => S[k] = R[k]
  BY <1>1, Zenon
<1>3. /\ H \in History /\ \A m \in N : Told(N, H, m)
      /\ \A k \in Server : RecInv(N, H, R[k]) /\ DiskInv(N, H, k, D[k])
      /\ \A t \in Nat : TermInv(N, D, R, H, t)
  BY ZenonT(30) DEF Records
<1>4. H \in Books /\ G \in Books
  BY <1>3, HistoryFacts
<1>5. \A m \in N : Told(N, G, m)
  BY <1>1, <1>3, <1>4, ToldGrows, Zenon
<1> HIDE DEF S
<1>6. ASSUME NEW k \in Server PROVE RecInv(N, G, S[k])
  <2>1. CASE k = i
    BY <1>2, <2>1, Zenon
  <2>2. CASE k # i
    <3>1. R[k] \in Node /\ Sheds(R[k], R[k])
      BY <1>1, Zenon DEF Sheds
    <3>2. RecInv(N, G, R[k])
      BY <1>1, <1>3, <1>4, <2>2, <3>1, RecGrows, Zenon
    <3> QED BY <1>2, <2>2, <3>2, ZenonT(30)
  <2> QED BY <2>1, <2>2, ZenonT(30)
<1>7. ASSUME NEW k \in Server PROVE DiskInv(N, G, k, D[k])
  <2>1. D[k] \in StorageType
    BY <1>1, Zenon
  <2> QED BY <1>1, <1>3, <1>4, <2>1, DiskGrows, Zenon
<1>8. ASSUME NEW t \in Nat, H[t] # <<>> PROVE TermInv(N, D, S, G, t)
  <2>1. Safe(N, D, R, t)
    BY <1>3, <1>8, Zenon DEF TermInv
  <2>2. Safe(N, D, S, t)
    BY <1>2, <2>1, ZenonT(30) DEF Safe
  <2>3. PICK Q \in SUBSET Voter :
          /\ IsQuorum(Q)
          /\ \A j \in Q : D[j].hardState.term >= t /\ Yields(H, Sent(N, R[j]), t)
    BY <1>3, <1>8, ZenonT(30) DEF TermInv
  <2>4. ASSUME NEW j \in Q PROVE Yields(G, Sent(N, S[j]), t)
    <3>1. j \in Server
      BY DEF Server
    <3>2. R[j] \in Node /\ R[j].msgs \subseteq Msg /\ R[j].term \in Nat
      BY <1>1, <3>1, LogFields, Zenon
    <3>3. Sent(N, R[j]) \in SUBSET Msg
      BY <1>1, <3>2, Zenon DEF Sent, From
    <3>4. Within(H, Sent(N, R[j]))
      BY <1>3, <3>1, ZenonT(30) DEF Within, Sent, From, Told, RecInv, Voiced
    <3>5. Yields(G, Sent(N, R[j]), t)
      BY <1>4, <2>3, <3>3, <3>4, YieldsGrows, ZenonT(30)
    <3>6. CASE j # i
      BY <1>2, <3>1, <3>5, <3>6, ZenonT(30)
    <3>7. CASE j = i
      <4>1. D[i].hardState.term <= R[i].term /\ D[i].hardState.term \in Nat
        <5>1. SavedInv(D, R[i]) /\ R[i].id = i
          BY <1>1, Zenon DEF NodeInv
        <5>2. D[i].hardState.term \in Nat
          BY <1>1, Zenon DEF StorageType
        <5> QED BY <3>2, <3>7, <5>1, <5>2 DEF SavedInv
      <4>2. t <= R[i].term
        BY <2>3, <3>2, <3>7, <4>1
      <4>3. ASSUME NEW m \in Sent(N, s), Promise(m), m.term < t, NEW n \in 1..Reach(m)
            PROVE  m \in Sent(N, R[j])
        <5>1. s.msgs \subseteq Msg
          BY LogFields
        <5>2. m \in Msg
          BY <1>1, <5>1, Zenon DEF Sent, From
        <5>3. Reach(m) \in Nat /\ m.term \in Nat
          BY <5>2, ReachType, Zenon
        <5>4. Reach(m) # 0 /\ m.term # R[i].term
          BY <3>2, <3>7, <4>2, <4>3, <5>3
        <5> QED BY <1>1, <3>7, <4>3, <5>4, Zenon DEF Sent, From, Silent
      <4>4. Yields(G, Sent(N, s), t)
        BY <3>5, <4>3 DEF Yields
      <4> QED BY <1>2, <3>7, <4>4, Zenon
    <3> QED BY <3>6, <3>7, ZenonT(30)
  <2> QED BY <2>2, <2>3, <2>4, Zenon DEF TermInv
<1>9. \A t \in Nat : TermInv(N, D, S, G, t)
  BY <1>8, Zenon DEF TermInv, S
<1>10. Records(N, D, S, G)
  BY <1>5, <1>6, <1>7, <1>9, Zenon DEF Records
<1> QED BY <1>10 DEF S

(* After a move that does not panic there is a history.                    *)
LEMMA MoveRecords ==
  ASSUME Counting, NEW N, NEW D, NEW R, NEW H, World(N, D, R), Records(N, D, R, H),
         Cardinality(Voter) > 1,
         NEW i \in Server, NEW s, Move(N, R[i], s), ~s.panic
  PROVE  \E G : Records(N, D, [R EXCEPT ![i] = s], G)
<1> DEFINE r == R[i]
           S == [R EXCEPT ![i] = s]
<1>1. /\ N \in SUBSET Msg /\ D \in [Server -> StorageType] /\ NetInv(N, D)
      /\ R \in [Server -> Node] /\ NodeInv(N, D, r) /\ r \in Node /\ r.id = i
  BY Zenon DEF World
<1>2. s \in Node /\ s.id = i /\ NodeInv(N, D, s)
  BY <1>1, MoveKeeps, MoveInv
<1>3. \A t \in Nat : Led(N, r, t) => Led(N, s, t)
  BY <1>1, LedMove
<1>4. H \in History /\ (\A m \in N : Told(N, H, m)) /\ RecInv(N, H, r)
  BY Zenon DEF Records
<1>5. World(N, D, S)
  BY MoveWorld
<1>6. S[i] = s /\ \A k \in Server : k # i => S[k] = R[k]
  BY <1>1
<1> HIDE DEF r, S
<1>7. ASSUME NEW G, Continues(N, H, G, r, s), s.state = "Leader", s.term = r.term,
             H[r.term] = <<>> => TermInv(N, D, S, G, r.term)
      PROVE  Records(N, D, S, G)
  <2>1. /\ G \in History /\ Grown(H, G) /\ \A t \in Nat : t # r.term => G[t] = H[t]
        /\ RecInv(N, G, s) /\ Silent(r, s)
    BY <1>7, Zenon DEF Continues
  <2>2. ASSUME NEW k \in Server \ {i}, R[k].state = "Leader"
        PROVE  G[R[k].term] = H[R[k].term]
    <3>1. R[k].term # r.term
      BY <1>5, <1>6, <1>7, <2>2, OnlyLeader, SMTT(30)
    <3>2. R[k].term \in Nat
      BY <1>1, LogFields, Zenon
    <3> QED BY <2>1, <3>1, <3>2, ZenonT(30)
  <2>3. \A t \in Nat : H[t] = <<>> /\ G[t] # <<>> => TermInv(N, D, S, G, t)
    BY <1>7, <2>1, Zenon
  <2> QED BY <1>2, <1>3, <2>1, <2>2, <2>3, RecordsMove, Zenon DEF r, S
<1>8. CASE r.state = "Leader" /\ Quiet(r, s)
  <2>1. PICK G : Continues(N, H, G, r, s)
    BY <1>1, <1>2, <1>4, <1>8, LeaderRec, ZenonT(30)
  <2>2. s.state = "Leader" /\ s.term = r.term
    BY <1>8, Zenon DEF Quiet, Mute
  <2>3. H[r.term] # <<>>
    <3>1. Reigns(N, H, r)
      BY <1>4, <1>8, Zenon DEF RecInv
    <3> QED BY <3>1, Zenon DEF Reigns
  <2> QED BY <1>7, <2>1, <2>2, <2>3, Zenon DEF S
<1>9. CASE r.state = "Candidate" /\ Wins(r, s)
  <2>1. votesGranted(r) = quorum(r)
    <3>1. s.state = "Leader"
      BY <1>9 DEF Wins
    <3>2. ~Quiet(r, s) /\ ~(\E m : Heeds(r, s, m))
      BY <1>9, <3>1, MoveMutes, Zenon DEF Mute
    <3> QED BY <1>9, <3>1, <3>2, ZenonT(30)
               DEF Move, r, Follows, Explores, Stands, Polls, Casts
  <2>2. H[r.term] = <<>> /\ Elected(N, i, r.term)
    BY <1>9, <2>1, NobodyLed, Zenon DEF r
  <2>3. PICK G : Continues(N, H, G, r, s) /\ G[r.term] = s.log
    BY <1>1, <1>2, <1>4, <1>9, <2>2, WinsRec, ZenonT(30)
  <2>4. s.state = "Leader" /\ s.term = r.term /\ s.msgs = r.msgs /\ Extends(r, s)
    BY <1>9 DEF Wins
  <2>5. Len(r.log) <= Len(s.log) /\ \A n \in 1..Len(r.log) : s.log[n] = r.log[n]
    BY <2>4, Zenon DEF Extends
  <2>6. G \in History /\ Grown(H, G)
    BY <2>3, Zenon DEF Continues
  <2>7. TermInv(N, D, S, G, r.term)
    BY <1>2, <1>9, <2>2, <2>3, <2>4, <2>5, <2>6, WinsTerm, SMTT(30) DEF r, S
  <2> QED BY <1>7, <2>3, <2>4, <2>7, ZenonT(30) DEF S
<1>10. CASE ~(r.state = "Leader" /\ Quiet(r, s)) /\ ~(r.state = "Candidate" /\ Wins(r, s))
  <2>1. RecInv(N, H, s) /\ Silent(r, s)
    BY <1>10, StayRec, Zenon DEF r
  <2>2. Grown(H, H)
    BY <1>4, HistoryFacts, SMTT(30) DEF Grown
  <2>3. Records(N, D, S, H)
    BY <1>2, <1>3, <1>4, <2>1, <2>2, RecordsMove, ZenonT(30) DEF r, S
  <2> QED BY <2>3 DEF S
<1> QED BY <1>8, <1>9, <1>10, Zenon

(* The same of a move that follows others.                                 *)
LEMMA MoveOnRecords ==
  ASSUME Counting,
         NEW N, NEW D, NEW R \in [Server -> Node], NEW i \in Server, NEW r, NEW s,
         World(N, D, [R EXCEPT ![i] = r]), Move(N, r, s), ~s.panic,
         \E H : Records(N, D, [R EXCEPT ![i] = r], H), Cardinality(Voter) > 1
  PROVE  /\ World(N, D, [R EXCEPT ![i] = s])
         /\ \E H : Records(N, D, [R EXCEPT ![i] = s], H)
<1> DEFINE S == [R EXCEPT ![i] = r]
<1>1. S[i] = r /\ [S EXCEPT ![i] = s] = [R EXCEPT ![i] = s]
  BY Zenon
<1> HIDE DEF S
<1>2. PICK H : Records(N, D, S, H)
  BY DEF S
<1>3. World(N, D, S)
  BY Zenon DEF S
<1>4. \E G : Records(N, D, [S EXCEPT ![i] = s], G)
  BY <1>1, <1>2, <1>3, MoveRecords, ZenonT(30)
<1>5. World(N, D, [S EXCEPT ![i] = s])
  BY <1>1, <1>3, MoveWorld, ZenonT(30)
<1> QED BY <1>1, <1>4, <1>5, Zenon

(* A path is as good as its moves.                                         *)
LEMMA PathRecords ==
  ASSUME Counting, NEW N, NEW D, NEW R, World(N, D, R), \E H : Records(N, D, R, H),
         Cardinality(Voter) > 1, NEW i \in Server, NEW s, Path(N, R[i], s), ~s.panic
  PROVE  \E H : Records(N, D, [R EXCEPT ![i] = s], H)
<1>1. PICK a, b, c : /\ Move(N, R[i], a) /\ Move(N, a, b)
                     /\ Move(N, b, c) /\ Move(N, c, s)
  BY Zenon DEF Path
<1>2. Keeps(a, b) /\ Keeps(b, c) /\ Keeps(c, s)
  BY <1>1, MoveKeeps, Zenon
<1>3. ~a.panic /\ ~b.panic /\ ~c.panic
  BY <1>2, Zenon DEF Keeps
<1>4. R \in [Server -> Node]
  BY Zenon DEF World
<1>5. /\ World(N, D, [R EXCEPT ![i] = a])
      /\ \E H : Records(N, D, [R EXCEPT ![i] = a], H)
  BY <1>1, <1>3, MoveWorld, MoveRecords, Zenon
<1>6. /\ World(N, D, [R EXCEPT ![i] = b])
      /\ \E H : Records(N, D, [R EXCEPT ![i] = b], H)
  BY <1>1, <1>3, <1>4, <1>5, MoveOnRecords, Zenon
<1>7. /\ World(N, D, [R EXCEPT ![i] = c])
      /\ \E H : Records(N, D, [R EXCEPT ![i] = c], H)
  BY <1>1, <1>3, <1>4, <1>6, MoveOnRecords, Zenon
<1> QED BY <1>1, <1>4, <1>7, MoveOnRecords, ZenonT(30)

(* Saving and sending, or only noting a panic, makes no history.           *)
LEMMA ShedsRecords ==
  ASSUME Counting, NEW N, NEW D, NEW R, NEW H, World(N, D, R), Records(N, D, R, H),
         NEW i \in Server, NEW s, Sheds(R[i], s),
         NEW V, V = N \/ V = N \cup R[i].msgs,
         NEW E \in [Server -> StorageType],
         \A j \in Server \ {i} : E[j] = D[j],
         (E[i] = D[i] /\ V = N) \/ Saves(R[i], E[i]),
         \A t : Safe(N, D, R, t) => Safe(V, E, [R EXCEPT ![i] = s], t)
  PROVE  Records(V, E, [R EXCEPT ![i] = s], H)
<1> DEFINE S == [R EXCEPT ![i] = s]
           r == R[i]
<1>1. /\ N \in SUBSET Msg /\ D \in [Server -> StorageType] /\ R \in [Server -> Node]
      /\ \A k \in Server : R[k].id = k /\ NodeInv(N, D, R[k])
  BY Zenon DEF World
<1>2. /\ S[i] = s /\ (\A k \in Server : k # i => S[k] = R[k]) /\ r \in Node /\ r.id = i
      /\ \A m \in r.msgs : m.from = i
  BY <1>1, Zenon DEF NodeInv
<1>3. /\ r.msgs \subseteq Msg /\ r.term \in Nat /\ r.committed \in Nat
      /\ r.log \in Seq(Entry)
  BY <1>2, LogFields, Zenon
<1>4. /\ H \in History /\ \A m \in N : Told(N, H, m)
      /\ \A k \in Server : RecInv(N, H, R[k]) /\ DiskInv(N, H, k, D[k])
      /\ \A t \in Nat : TermInv(N, D, R, H, t)
  BY Zenon DEF Records
<1>5. H \in Books /\ Grown(H, H)
  BY <1>4, HistoryFacts DEF Grown
<1>6. V \in SUBSET Msg /\ N \subseteq V
  BY <1>1, <1>3, Zenon
<1>7. s.id = i /\ s.msgs \subseteq r.msgs
  BY <1>2, Zenon DEF Sheds
<1>8. \A k \in Server : Sent(V, S[k]) \subseteq Sent(N, R[k])
  <2>1. Sent(V, s) \subseteq Sent(N, r)
    BY <1>2, <1>7 DEF Sent, From
  <2>2. ASSUME NEW k \in Server, k # i PROVE Sent(V, R[k]) \subseteq Sent(N, R[k])
    BY <1>1, <1>2, <2>2, Zenon DEF Sent, From
  <2> QED BY <1>2, <2>1, <2>2, ZenonT(30)
<1>9. \A m \in V : Told(V, H, m)
  <2>1. \A m \in V : m \in Msg /\ Told(N, H, m)
    BY <1>4, <1>6, ZenonT(30) DEF RecInv, Voiced
  <2> QED BY <1>1, <1>5, <1>6, <2>1, ToldGrows, ZenonT(30)
<1> HIDE DEF S
<1>10. ASSUME NEW k \in Server PROVE RecInv(V, H, S[k])
  <2>1. R[k] \in Node /\ Sheds(R[k], S[k])
    BY <1>1, <1>2, Zenon DEF Sheds
  <2> QED BY <1>1, <1>4, <1>5, <1>6, <1>8, <2>1, RecGrows, Zenon
<1>11. ASSUME NEW k \in Server, E[k] = D[k], From(V, k) \subseteq From(N, k)
       PROVE  DiskInv(V, H, k, E[k])
  <2>1. D[k] \in StorageType
    BY <1>1, Zenon
  <2>2. DiskInv(V, H, k, D[k])
    BY <1>1, <1>4, <1>5, <1>6, <1>11, <2>1, DiskGrows, ZenonT(30)
  <2> QED BY <1>11, <2>2
<1>12. \A k \in Server : k # i \/ V = N => From(V, k) \subseteq From(N, k)
  BY <1>2, Zenon DEF From
<1>13. ASSUME Saves(r, E[i]) PROVE DiskInv(V, H, i, E[i])
  <2> DEFINE d == E[i]
  <2>1. /\ d.log = r.log /\ d.hardState.term = r.term
        /\ d.hardState.commit <= r.committed
    BY <1>13, Zenon DEF Saves
  <2>2. d.hardState.commit \in Nat
    BY DEF StorageType
  <2> HIDE DEF d
  <2>3. Faithful(H, r.log, r.term) /\ Holds(H, Sent(N, r), r.log, r.term)
        /\ Committed(N, H, r.log, r.term, r.committed)
    BY <1>4, Zenon DEF RecInv
  <2>4. From(V, i) \subseteq Sent(N, r)
    BY <1>2, Zenon DEF Sent, From
  <2>5. Holds(H, From(V, i), r.log, r.term)
    BY <2>3, <2>4, Zenon DEF Holds
  <2>6. Committed(V, H, r.log, r.term, d.hardState.commit)
    <3>1. r.committed <= Len(r.log) => Agree(r.log, r.log, d.hardState.commit)
      BY <1>3, <2>1, <2>2 DEF Agree
    <3> QED BY <1>3, <1>5, <1>6, <2>1, <2>2, <2>3, <3>1, CommittedGrows,
               SMTT(30)
  <2>7. DiskInv(V, H, i, d)
    BY <2>1, <2>3, <2>5, <2>6, Zenon DEF DiskInv
  <2> QED BY <2>7, Zenon DEF d
<1>14. \A k \in Server : DiskInv(V, H, k, E[k])
  BY <1>11, <1>12, <1>13, ZenonT(30)
<1>15. \A k \in Server : E[k].hardState.term >= D[k].hardState.term
                         /\ E[k].hardState.term \in Nat /\ D[k].hardState.term \in Nat
  <2>1. \A k \in Server : E[k].hardState.term \in Nat /\ D[k].hardState.term \in Nat
    BY <1>1, Zenon DEF StorageType
  <2>2. Saves(r, E[i]) => E[i].hardState.term >= D[i].hardState.term
    <3>1. SavedInv(D, r)
      BY <1>1, Zenon DEF NodeInv
    <3>2. D[i].hardState.term <= r.term
      BY <1>2, <1>3, <2>1, <3>1 DEF SavedInv
    <3> QED BY <1>3, <2>1, <3>2, Zenon DEF Saves
  <2>3. E[i] = D[i] => E[i].hardState.term >= D[i].hardState.term
    BY <2>1
  <2>4. \A k \in Server : k # i => E[k].hardState.term >= D[k].hardState.term
    BY <2>1
  <2> QED BY <2>1, <2>2, <2>3, <2>4, ZenonT(30)
<1>16. ASSUME NEW t \in Nat PROVE TermInv(V, E, S, H, t)
  <2> SUFFICES ASSUME H[t] # <<>> PROVE TermInv(V, E, S, H, t)
    BY DEF TermInv
  <2>1. Safe(V, E, S, t)
    BY <1>4, Zenon DEF TermInv, S
  <2>2. PICK Q \in SUBSET Voter :
          /\ IsQuorum(Q)
          /\ \A j \in Q : D[j].hardState.term >= t /\ Yields(H, Sent(N, R[j]), t)
    BY <1>4, Zenon DEF TermInv
  <2>3. ASSUME NEW j \in Q
        PROVE  E[j].hardState.term >= t /\ Yields(H, Sent(V, S[j]), t)
    <3>1. j \in Server
      BY Zenon DEF Server
    <3>2. E[j].hardState.term >= t
      BY <1>15, <2>2, <3>1
    <3>3. Yields(H, Sent(V, S[j]), t)
      BY <1>8, <2>2, <3>1, Zenon DEF Yields
    <3> QED BY <3>2, <3>3, ZenonT(30)
  <2> QED BY <2>1, <2>2, <2>3, ZenonT(30) DEF TermInv
<1>17. Records(V, E, S, H)
  BY <1>4, <1>9, <1>10, <1>14, <1>16 DEF Records
<1> QED BY <1>17 DEF S

(* A process that starts has what is saved.                                *)
LEMMA LoadsRecords ==
  ASSUME NEW N, NEW D, NEW R, NEW H, World(N, D, R), Records(N, D, R, H),
         NEW i \in Server, NEW s, Loads(i, D[i], s),
         \A t : Safe(N, D, R, t) => Safe(N, D, [R EXCEPT ![i] = s], t)
  PROVE  Records(N, D, [R EXCEPT ![i] = s], H)
<1> DEFINE S == [R EXCEPT ![i] = s]
<1>1. /\ N \in SUBSET Msg /\ D \in [Server -> StorageType] /\ R \in [Server -> Node]
      /\ \A k \in Server : R[k].id = k /\ R[k] \in Node
  BY Zenon DEF World
<1>2. S[i] = s /\ \A k \in Server : k # i => S[k] = R[k]
  BY <1>1
<1>3. /\ s \in Node /\ s.id = i /\ s.state = "Follower" /\ s.msgs = {}
      /\ s.term = D[i].hardState.term /\ s.log = D[i].log
      /\ s.committed = D[i].hardState.commit
  BY Zenon DEF Loads
<1>4. /\ H \in History /\ \A m \in N : Told(N, H, m)
      /\ \A k \in Server : RecInv(N, H, R[k]) /\ DiskInv(N, H, k, D[k])
      /\ \A t \in Nat : TermInv(N, D, R, H, t)
  BY DEF Records
<1>5. Sent(N, s) = From(N, i) /\ Sent(N, s) \subseteq Sent(N, R[i])
  BY <1>1, <1>3, Zenon DEF Sent, From
<1>6. Voiced(N, H, s)
  <2>1. \A g \in Sent(N, s) : Grant(g) => Backed(N, H, Sent(N, R[i]), g)
    BY <1>4, <1>5, ZenonT(30) DEF RecInv, Voiced
  <2>2. \A g : Backed(N, H, Sent(N, R[i]), g) => Backed(N, H, Sent(N, s), g)
    BY <1>5 DEF Backed
  <2> QED BY <1>3, <2>1, <2>2, ZenonT(30) DEF Voiced
<1>7. RecInv(N, H, s)
  BY <1>3, <1>4, <1>5, <1>6, Zenon DEF RecInv, DiskInv
<1> HIDE DEF S
<1>8. \A k \in Server : RecInv(N, H, S[k]) /\ Sent(N, S[k]) \subseteq Sent(N, R[k])
  BY <1>2, <1>4, <1>5, <1>7, Zenon
<1>9. ASSUME NEW t \in Nat PROVE TermInv(N, D, S, H, t)
  <2> SUFFICES ASSUME H[t] # <<>> PROVE TermInv(N, D, S, H, t)
    BY Zenon DEF TermInv
  <2>1. Safe(N, D, S, t)
    BY <1>4, Zenon DEF TermInv, S
  <2>2. PICK Q \in SUBSET Voter :
          /\ IsQuorum(Q)
          /\ \A j \in Q : D[j].hardState.term >= t /\ Yields(H, Sent(N, R[j]), t)
    BY <1>4, Zenon DEF TermInv
  <2>3. ASSUME NEW j \in Q PROVE Yields(H, Sent(N, S[j]), t)
    <3>1. j \in Server
      BY Zenon DEF Server
    <3> QED BY <1>8, <2>2, <3>1, Zenon DEF Yields
  <2> QED BY <2>1, <2>2, <2>3, Zenon DEF TermInv
<1>10. Records(N, D, S, H)
  BY <1>4, <1>8, <1>9, ZenonT(30) DEF Records
<1> QED BY <1>10 DEF S

(* What an input or a message does keeps the history.                      *)
LEMMA MovesHistory ==
  ASSUME Counting, HistoryInv, NEW i \in Server, Moves(i), Cardinality(Voter) > 1
  PROVE  \E H : Records(network', storage', raft', H)
<1> DEFINE r == raft[i]
           q == [r EXCEPT !.panic = TRUE]
<1>1. /\ World(network, storage, raft) /\ r \in Node
      /\ UNCHANGED <<storage, network>>
  BY ElectionWorld, Zenon DEF HistoryInv, World, Moves
<1>2. PICK s : Path(network, r, s) /\ Update(i, s)
  BY DEF Moves
<1>3. /\ s.panic => raft' = [raft EXCEPT ![i] = q]
      /\ ~s.panic => raft' = [raft EXCEPT ![i] = s]
  BY <1>2, Zenon DEF Update
<1>4. Sheds(r, q)
  BY <1>1, PanicsQuiet, ZenonT(30)
<1>5. /\ storage \in [Server -> StorageType] /\ raft \in [Server -> Node]
  BY <1>1 DEF World
<1> HIDE DEF q
<1>6. CASE s.panic
  <2>1. ASSUME NEW t, Safe(network, storage, raft, t)
        PROVE  Safe(network, storage, [raft EXCEPT ![i] = q], t)
    <3>1. Led(network, r, t) => Led(network, q, t)
      BY <1>4, ShedsLed, Zenon
    <3>2. \A k \in Server : Led(network, raft[k], t) =>
            Led(network, [raft EXCEPT ![i] = q][k], t)
      BY <1>5, <3>1, Zenon
    <3> QED BY <2>1, <3>2 DEF Safe
  <2>2. PICK H : Records(network, storage, raft, H)
    BY DEF HistoryInv
  <2>3. Records(network, storage, [raft EXCEPT ![i] = q], H)
    BY <1>1, <1>4, <1>5, <2>1, <2>2, ShedsRecords, ZenonT(30)
  <2> QED BY <1>1, <1>3, <1>6, <2>3, Zenon
<1>7. CASE ~s.panic
  <2>1. \E H : Records(network, storage, [raft EXCEPT ![i] = s], H)
    BY <1>1, <1>2, <1>7, PathRecords, Zenon DEF HistoryInv
  <2> QED BY <1>1, <1>3, <1>7, <2>1, ZenonT(30)
<1> QED BY <1>6, <1>7, Zenon

(* Initially nobody has led.                                               *)
LEMMA StartHistory == ASSUME Starts, ElectionInv PROVE HistoryInv
<1> DEFINE H == [t \in Nat |-> <<>>]
<1>1. network = {}
  BY Zenon DEF Starts
<1>2. \A i \in Server :
        /\ storage[i].log = <<>> /\ storage[i].hardState.commit = 0
        /\ raft[i].log = <<>> /\ raft[i].msgs = {} /\ raft[i].committed = 0
        /\ raft[i].state = "Follower"
  BY DEF Starts, Loads, EmptyStorage
<1>3. \A t \in Nat : H[t] = <<>>
  OBVIOUS
<1>4. \A t : Faithful(H, <<>>, t)
  BY DEF Faithful
<1>9. H \in Books
  BY DEF Books
<1> HIDE DEF H
<1>5. H \in History
  BY <1>3, <1>4, <1>9 DEF History
<1>6. ASSUME NEW i \in Server
      PROVE  RecInv(network, H, raft[i]) /\ DiskInv(network, H, i, storage[i])
  <2>1. Sent(network, raft[i]) = {} /\ From(network, i) = {}
    BY <1>1, <1>2 DEF Sent, From
  <2>2. RecInv(network, H, raft[i])
    BY <1>2, <1>4, <2>1, ZenonT(30) DEF RecInv, Holds, Committed, Voiced
  <2>3. DiskInv(network, H, i, storage[i])
    BY <1>2, <1>4, <2>1, Zenon DEF DiskInv, Holds, Committed
  <2> QED BY <2>2, <2>3, Zenon
<1>7. Records(network, storage, raft, H)
  BY <1>1, <1>3, <1>5, <1>6, ZenonT(30) DEF Records, TermInv
<1> QED BY <1>7, Zenon DEF HistoryInv

(* Every step keeps the history.                                           *)
LEMMA ActsHistory ==
  ASSUME Counting, HistoryInv, ElectionInv', Acts, Cardinality(Voter) > 1
  PROVE  HistoryInv'
<1>1. World(network, storage, raft)
  BY ElectionWorld, Zenon DEF HistoryInv
<1> SUFFICES \E H : Records(network', storage', raft', H)
  BY Zenon DEF HistoryInv
<1>2. PICK H : Records(network, storage, raft, H)
  BY Zenon DEF HistoryInv
<1>3. CASE UNCHANGED <<raft, storage, network>>
  BY <1>2, <1>3, Zenon
<1>4. ASSUME NEW i \in Server, Moves(i) PROVE \E G : Records(network', storage', raft', G)
  BY <1>4, MovesHistory, Zenon
<1>5. ASSUME NEW i \in Server, Loading(i) PROVE Records(network', storage', raft', H)
  <2>1. PICK s : Loads(i, storage[i], s) /\ raft' = [raft EXCEPT ![i] = s]
    BY <1>5, Zenon DEF Loading
  <2>2. storage' = storage /\ network' = network
    BY <1>5, Zenon DEF Loading
  <2>3. \A t : Safe(network, storage, raft, t) =>
               Safe(network, storage, [raft EXCEPT ![i] = s], t)
    BY <1>1, <2>1, LoadsSafe, Zenon
  <2>4. Records(network, storage, [raft EXCEPT ![i] = s], H)
    BY <1>1, <1>2, <2>1, <2>3, LoadsRecords, ZenonT(30)
  <2> QED BY <2>1, <2>2, <2>4, ZenonT(30)
<1>6. ASSUME NEW i \in Server, Saving(i) PROVE Records(network', storage', raft', H)
  <2>1. PICK s, st :
          /\ Sheds(raft[i], s) /\ Saves(raft[i], st) /\ raft' = [raft EXCEPT ![i] = s]
          /\ storage' = [storage EXCEPT ![i] = st]
          /\ network' = network \cup raft[i].msgs
    BY <1>6, Zenon DEF Saving
  <2> DEFINE V == network \cup raft[i].msgs
             E == [storage EXCEPT ![i] = st]
  <2>2. storage \in [Server -> StorageType] /\ st \in StorageType
    BY <1>1, <2>1, ZenonT(30) DEF World, Saves
  <2>3. /\ E \in [Server -> StorageType] /\ E[i] = st
        /\ \A j \in Server \ {i} : E[j] = storage[j]
    BY <2>2
  <2>4. \A t : Safe(network, storage, raft, t) => Safe(V, E, [raft EXCEPT ![i] = s], t)
    BY <1>1, <2>1, SendsSafe, Zenon
  <2>5. storage' = E /\ network' = V /\ raft' = [raft EXCEPT ![i] = s]
        /\ V = network \cup raft[i].msgs
    BY <2>1, Zenon
  <2> HIDE DEF V, E
  <2>6. Records(V, E, [raft EXCEPT ![i] = s], H)
    BY <1>1, <1>2, <2>1, <2>3, <2>4, <2>5, ShedsRecords, ZenonT(30)
  <2> QED BY <2>5, <2>6, Zenon
<1> QED BY <1>3, <1>4, <1>5, <1>6, ZenonT(30) DEF Acts
=============================================================================
