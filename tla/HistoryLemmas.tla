--------------------------- MODULE HistoryLemmas ----------------------------
(* What a history says of the logs, and that it stays one when a node      *)
(* makes a step in which it does not append as a leader.                   *)
EXTENDS Histories, MoveLemmas
-----------------------------------------------------------------------------
(* Logs made of pieces of the history                                      *)

(* What two logs have that agree.                                          *)
LEMMA AgreeFacts ==
  ASSUME NEW l \in Seq(Entry), NEW k \in Seq(Entry), NEW j \in Seq(Entry),
         NEW n \in Nat
  PROVE  /\ Agree(l, k, n) => Agree(k, l, n)
         /\ Agree(l, k, n) /\ Agree(k, j, n) => Agree(l, j, n)
         /\ \A x \in Nat : Agree(l, k, n) /\ x <= n => Agree(l, k, x)
         /\ n <= Len(l) => Agree(l, l, n)
BY DEF Agree

(* What there is in a book of logs, and in one that has grown.             *)
LEMMA BookLogs == ASSUME NEW H \in Books, NEW t \in Nat PROVE H[t] \in Seq(Entry)
BY DEF Books

LEMMA GrownLogs ==
  ASSUME NEW H \in Books, NEW G \in Books, Grown(H, G), NEW t \in Nat
  PROVE  /\ H[t] \in Seq(Entry) /\ G[t] \in Seq(Entry) /\ Len(H[t]) <= Len(G[t])
         /\ \A x \in 1..Len(H[t]) : G[t][x] = H[t][x]
BY BookLogs DEF Grown

(* Leaders that append nothing.                                            *)
LEMMA GrownSelf == ASSUME NEW H \in Books PROVE Grown(H, H)
BY BookLogs DEF Grown

(* What l has of k, up to c.                                               *)
LEMMA AgreeUpTo ==
  ASSUME NEW l \in Seq(Entry), NEW k \in Seq(Entry), NEW c \in Nat, c <= Len(k),
         \A n \in 1..Len(k) : n <= c => n <= Len(l) /\ l[n] = k[n]
  PROVE  Agree(l, k, c)
BY DEF Agree

(* Nothing of a term is lost before there is a later one.                  *)
LEMMA NotLostYet == ASSUME NEW H, NEW t \in Nat, NEW n PROVE ~Lost(H, t, n, t)
BY DEF Lost

(* There is nothing in the empty log.                                      *)
LEMMA NothingThere == ASSUME NEW n \in Nat, n <= Len(<<>>) PROVE n = 0
OBVIOUS

(* A log that grows keeps what it has.                                     *)
LEMMA AgreeLonger ==
  ASSUME NEW l \in Seq(Entry), NEW k \in Seq(Entry), NEW j \in Seq(Entry),
         Len(k) <= Len(j), \A x \in 1..Len(k) : j[x] = k[x],
         NEW n \in Nat, Agree(l, k, n)
  PROVE  Agree(l, j, n)
<1>1. n <= Len(l) /\ n <= Len(k) /\ \A x \in 1..n : l[x] = k[x]
  BY DEF Agree
<1>2. n <= Len(j)
  BY <1>1
<1>3. ASSUME NEW x \in 1..n PROVE l[x] = j[x]
  <2>1. x \in 1..Len(k)
    BY <1>1
  <2> QED BY <1>1, <2>1
<1> QED BY <1>1, <1>2, <1>3 DEF Agree

(* What a history says of its logs.                                        *)
LEMMA HistoryFacts ==
  ASSUME NEW H \in History
  PROVE  /\ H \in Books
         /\ \A t \in Nat : Faithful(H, H[t], t)
         /\ \A t \in Nat : H[t] # <<>> => H[t][Len(H[t])].term = t
         /\ H[0] = <<>>
<1>1. /\ H \in Books
      /\ \A t \in Nat : /\ Faithful(H, H[t], t)
                        /\ H[t] # <<>> => H[t][Len(H[t])].term = t
  BY DEF History
<1>2. H[0] = <<>>
  <2> SUFFICES ASSUME H[0] # <<>> PROVE FALSE
    OBVIOUS
  <2>1. 0 \in Nat /\ H[0] \in Seq(Entry)
    BY <1>1, BookLogs
  <2>2. 1 \in 1..Len(H[0])
    BY <2>1
  <2>3. H[0][1].term \in 1..0
    BY <1>1, <2>1, <2>2 DEF Faithful
  <2> QED BY <2>3
<1> QED BY <1>1, <1>2

(* Logs made of pieces of a history that have an entry of the same index   *)
(* and term agree up to it.                                                *)
LEMMA SameTermAgree ==
  ASSUME NEW H \in History, NEW l \in Seq(Entry), NEW k \in Seq(Entry),
         NEW t \in Nat, NEW u \in Nat, Faithful(H, l, t), Faithful(H, k, u),
         NEW n \in 1..Len(l), n <= Len(k), l[n].term = k[n].term
  PROVE  Agree(l, k, n)
<1> DEFINE v == l[n].term
<1>1. v \in Nat /\ Agree(l, H[v], n)
  BY DEF Faithful
<1>2. n \in 1..Len(k)
  OBVIOUS
<1>3. Agree(k, H[v], n)
  BY <1>2 DEF Faithful
<1> HIDE DEF v
<1>4. H \in Books
  BY HistoryFacts
<1>5. H[v] \in Seq(Entry) /\ n \in Nat
  BY <1>1, <1>4, BookLogs
<1> QED BY <1>1, <1>3, <1>5, AgreeFacts

(* Terms do not go back in a log.                                          *)
LEMMA TermsAscend ==
  ASSUME NEW H \in History, NEW l \in Seq(Entry), NEW t \in Nat, Faithful(H, l, t),
         NEW n \in 1..Len(l), NEW k \in 1..n
  PROVE  l[k].term \in 1..l[n].term
<1> DEFINE v == l[n].term
<1>1. v \in Nat /\ Agree(l, H[v], n)
  BY DEF Faithful
<1>2. H[v] \in Seq(Entry) /\ Faithful(H, H[v], v)
  BY <1>1, HistoryFacts, BookLogs
<1> HIDE DEF v
<1>3. k \in 1..Len(H[v]) /\ l[k] = H[v][k]
  BY <1>1, <1>2 DEF Agree
<1>4. H[v][k].term \in 1..v
  BY <1>2, <1>3 DEF Faithful
<1> QED BY <1>3, <1>4 DEF v

(* A later leader has what an earlier one had, or it is lost: a leader     *)
(* whose log is a proper prefix would have made no entry.                  *)
LEMMA LaterHas ==
  ASSUME NEW H \in History, NEW t \in Nat, NEW u \in Nat, t <= u, H[u] # <<>>,
         NEW n \in Nat, n <= Len(H[t])
  PROVE  Has(H, H[u], t, n, u)
<1> DEFINE k == Len(H[u])
<1>1. H[t] \in Seq(Entry) /\ H[u] \in Seq(Entry) /\ Faithful(H, H[t], t)
      /\ H[u][k].term = u
  BY HistoryFacts, BookLogs
<1>2. CASE t = u
  BY <1>1, <1>2, AgreeFacts DEF Has
<1>3. CASE t # u /\ ~Lost(H, t, n, u)
  <2>1. u \in t + 1..u
    BY <1>3
  <2>2. \A x \in 1..n : x <= k => H[u][x] = H[t][x]
    BY <1>3, <2>1 DEF Lost
  <2>3. k \in Nat \ {0}
    BY <1>1
  <2>4. n <= k
    <3> SUFFICES ASSUME k < n PROVE FALSE
      BY <2>3
    <3>1. k \in 1..n /\ k \in 1..Len(H[t])
      BY <1>1, <2>3
    <3>2. H[t][k].term = u
      BY <1>1, <2>2, <2>3, <3>1, SMTT(30)
    <3>3. H[t][k].term \in 1..t
      BY <1>1, <3>1 DEF Faithful
    <3> QED BY <1>3, <3>2, <3>3
  <2>5. Agree(H[u], H[t], n)
    BY <1>1, <2>2, <2>3, <2>4 DEF Agree
  <2> QED BY <2>5 DEF Has
<1> QED BY <1>2, <1>3 DEF Has
-----------------------------------------------------------------------------
(* What was so stays so when leaders append and messages are sent.         *)

(* The pieces stay pieces.                                                 *)
LEMMA FaithfulGrows ==
  ASSUME NEW H \in Books, NEW G \in Books, Grown(H, G),
         NEW l \in Seq(Entry), NEW t \in Nat, NEW u \in Nat, t <= u,
         Faithful(H, l, t)
  PROVE  Faithful(G, l, u)
<1> SUFFICES ASSUME NEW n \in 1..Len(l)
             PROVE  l[n].term \in 1..u /\ Agree(l, G[l[n].term], n)
  BY DEF Faithful
<1> DEFINE v == l[n].term
<1>1. v \in 1..t /\ Agree(l, H[v], n)
  BY DEF Faithful
<1> HIDE DEF v
<1>2. v \in Nat /\ v \in 1..u /\ H[v] \in Seq(Entry) /\ G[v] \in Seq(Entry)
  BY <1>1, BookLogs
<1>3. Len(H[v]) <= Len(G[v]) /\ \A x \in 1..Len(H[v]) : G[v][x] = H[v][x]
  BY <1>2 DEF Grown
<1>4. Agree(l, G[v], n)
  <2> DEFINE h == H[v]
             g == G[v]
  <2>1. /\ h \in Seq(Entry) /\ g \in Seq(Entry) /\ n \in Nat /\ Agree(l, h, n)
        /\ Len(h) <= Len(g) /\ \A x \in 1..Len(h) : g[x] = h[x]
    BY <1>1, <1>2, <1>3
  <2> HIDE DEF h, g
  <2>2. Agree(l, g, n)
    BY <2>1, AgreeLonger
  <2> QED BY <2>2 DEF g
<1> QED BY <1>2, <1>4, Zenon DEF v

(* What is lost stays lost.                                                *)
LEMMA LostGrows ==
  ASSUME NEW H \in Books, NEW G \in Books, Grown(H, G),
         NEW t \in Nat, NEW n \in Nat, n <= Len(H[t]),
         NEW x \in Int, NEW y \in Int, x <= y, Lost(H, t, n, x)
  PROVE  Lost(G, t, n, y)
<1>1. /\ H[t] \in Seq(Entry) /\ G[t] \in Seq(Entry)
      /\ Len(H[t]) <= Len(G[t]) /\ \A z \in 1..Len(H[t]) : G[t][z] = H[t][z]
  BY GrownLogs
<1>2. PICK u \in t + 1..x : \E z \in 1..n : z <= Len(H[u]) /\ H[u][z] # H[t][z]
  BY DEF Lost
<1>3. PICK z \in 1..n : z <= Len(H[u]) /\ H[u][z] # H[t][z]
  BY <1>2
<1>4. u \in Nat /\ u \in t + 1..y
  OBVIOUS
<1>5. /\ H[u] \in Seq(Entry) /\ G[u] \in Seq(Entry) /\ Len(H[u]) <= Len(G[u])
      /\ \A w \in 1..Len(H[u]) : G[u][w] = H[u][w]
  BY <1>4, GrownLogs, Zenon
<1>6. z \in 1..Len(H[u]) /\ z \in 1..Len(H[t]) /\ z <= Len(G[u])
  BY <1>1, <1>3, <1>5
<1>7. G[u][z] # G[t][z]
  BY <1>1, <1>3, <1>5, <1>6, Zenon
<1> QED BY <1>4, <1>6, <1>7, Zenon DEF Lost

(* What a log has, a longer log has.                                       *)
LEMMA HasGrows ==
  ASSUME NEW H \in Books, NEW G \in Books, Grown(H, G),
         NEW l \in Seq(Entry), NEW k \in Seq(Entry), Len(l) <= Len(k),
         \A n \in 1..Len(l) : k[n] = l[n],
         NEW t \in Nat, NEW n \in Nat, n <= Len(H[t]),
         NEW x \in Int, NEW y \in Int, x <= y, Has(H, l, t, n, x)
  PROVE  Has(G, k, t, n, y)
<1>1. /\ H[t] \in Seq(Entry) /\ G[t] \in Seq(Entry)
      /\ Len(H[t]) <= Len(G[t]) /\ \A z \in 1..Len(H[t]) : G[t][z] = H[t][z]
  BY GrownLogs, Zenon
<1>2. CASE Agree(l, H[t], n)
  <2>1. Agree(G[t], l, n)
    <3>1. Agree(l, G[t], n)
      BY <1>1, <1>2, AgreeLonger, Zenon
    <3> QED BY <1>1, <3>1, AgreeFacts
  <2>2. Agree(G[t], k, n)
    BY <1>1, <2>1, AgreeLonger, Zenon
  <2>3. Agree(k, G[t], n)
    BY <1>1, <2>2, AgreeFacts
  <2> QED BY <2>3 DEF Has
<1>3. CASE Lost(H, t, n, x)
  BY <1>3, LostGrows DEF Has
<1> QED BY <1>2, <1>3 DEF Has

(* A set of voters that includes a quorum is one.                          *)
LEMMA QuorumGrows ==
  ASSUME Counting,
         NEW P \in SUBSET Voter, NEW Q \in SUBSET Voter, P \subseteq Q, IsQuorum(P)
  PROVE  IsQuorum(Q)
<1>1. /\ Cardinality(P) \in Nat /\ Cardinality(Q) \in Nat
      /\ Cardinality(P) <= Cardinality(Q) /\ Cardinality(Voter) \in Nat
  BY VoterSubsets
<1>2. P \cap Voter = P /\ Q \cap Voter = Q
  OBVIOUS
<1>3. 2 * Cardinality(P) > Cardinality(Voter)
  BY <1>2 DEF IsQuorum
<1>4. 2 * Cardinality(Q) > Cardinality(Voter)
  BY <1>1, <1>3
<1> QED BY <1>2, <1>4 DEF IsQuorum

(* Two quorums share a voter.                                              *)
LEMMA QuorumsMeet ==
  ASSUME Counting,
         NEW P \in SUBSET Voter, NEW Q \in SUBSET Voter, IsQuorum(P), IsQuorum(Q)
  PROVE  \E k \in Voter : k \in P /\ k \in Q
<1>1. P \cap Voter = P /\ Q \cap Voter = Q
  OBVIOUS
<1>2. 2 * Cardinality(P) > Cardinality(Voter) /\ 2 * Cardinality(Q) > Cardinality(Voter)
  BY <1>1 DEF IsQuorum
<1> QED BY <1>2, VotersMeet

(* What is chosen stays chosen.                                            *)
LEMMA ChosenGrows ==
  ASSUME Counting, NEW N, NEW M, N \subseteq M,
         NEW H \in Books, NEW G \in Books, Grown(H, G),
         NEW t \in Nat, NEW n \in Nat, Chosen(N, H, t, n)
  PROVE  Chosen(M, G, t, n)
<1>1. n \in 1..Len(H[t]) /\ H[t][n].term = t /\ IsQuorum(Backers(N, t, n))
  BY DEF Chosen
<1>2. H[t] \in Seq(Entry) /\ G[t] \in Seq(Entry) /\ Len(H[t]) <= Len(G[t])
      /\ \A x \in 1..Len(H[t]) : G[t][x] = H[t][x]
  BY GrownLogs
<1>3. n \in 1..Len(G[t]) /\ G[t][n].term = t
  BY <1>1, <1>2
<1>4. IsQuorum(Backers(M, t, n))
  <2>1. Backers(N, t, n) \subseteq Backers(M, t, n)
    BY DEF Backers, From
  <2>2. Backers(N, t, n) \in SUBSET Voter /\ Backers(M, t, n) \in SUBSET Voter
    BY DEF Backers
  <2> QED BY <1>1, <2>1, <2>2, QuorumGrows
<1> QED BY <1>3, <1>4 DEF Chosen

(* So do commit indices, and lower ones are as good.                       *)
LEMMA KnownGrows ==
  ASSUME Counting, NEW N, NEW M, N \subseteq M,
         NEW H \in Books, NEW G \in Books, Grown(H, G),
         NEW T \in Nat, NEW U \in Nat, T <= U,
         NEW c \in Nat, NEW d \in Nat, d <= c, Known(N, H, T, c)
  PROVE  Known(M, G, U, d)
<1>1. CASE c = 0
  BY <1>1 DEF Known
<1>2. CASE c # 0
  <2>1. PICK t \in 1..T, n \in Nat : c <= n /\ Chosen(N, H, t, n)
    BY <1>2 DEF Known
  <2>2. t \in Nat /\ t \in 1..U /\ d <= n
    BY <2>1
  <2>3. Chosen(M, G, t, n)
    BY <2>1, <2>2, ChosenGrows
  <2> QED BY <2>2, <2>3 DEF Known
<1> QED BY <1>1, <1>2

(* The same with the log that has the committed entries; a log that has    *)
(* the same up to d is as good.                                            *)
LEMMA CommittedGrows ==
  ASSUME Counting, NEW N, NEW M, N \subseteq M,
         NEW H \in Books, NEW G \in Books, Grown(H, G),
         NEW T \in Nat, NEW U \in Nat, T <= U,
         NEW c \in Nat, NEW d \in Nat, d <= c,
         NEW l \in Seq(Entry), NEW k \in Seq(Entry),
         c <= Len(l) => Agree(k, l, d),
         Committed(N, H, l, T, c)
  PROVE  Committed(M, G, k, U, d)
<1>1. CASE c = 0
  BY <1>1 DEF Committed
<1>2. CASE c # 0
  <2>1. PICK t \in 1..T, n \in Nat : c <= n /\ Chosen(N, H, t, n) /\ Agree(l, H[t], c)
    BY <1>2 DEF Committed
  <2>2. t \in Nat /\ t \in 1..U /\ d <= n
    BY <2>1
  <2>3. Chosen(M, G, t, n)
    BY <2>1, <2>2, ChosenGrows
  <2>4. /\ H[t] \in Seq(Entry) /\ G[t] \in Seq(Entry) /\ Len(H[t]) <= Len(G[t])
        /\ \A x \in 1..Len(H[t]) : G[t][x] = H[t][x]
    BY <2>2, GrownLogs, Zenon
  <2>5. Agree(k, l, d)
    BY <2>1 DEF Agree
  <2>6. Agree(k, G[t], d)
    BY <2>1, <2>4, <2>5 DEF Agree
  <2> QED BY <2>2, <2>3, <2>6, Zenon DEF Committed
<1> QED BY <1>1, <1>2

(* Messages have natural numbers.                                          *)
LEMMA ReachType ==
  ASSUME NEW m \in Msg
  PROVE  Reach(m) \in Nat /\ m.term \in Nat /\ m.index \in Nat /\ m.commit \in Nat
         /\ m.logterm \in Nat
BY MsgFields DEF Reach

(* What is promised is there.                                              *)
LEMMA ToldReach ==
  ASSUME NEW N, NEW H \in Books, NEW m \in Msg, Told(N, H, m), Promise(m),
         NEW n \in 1..Reach(m)
  PROVE  n <= Len(H[m.term])
<1>1. Reach(m) <= Len(H[m.term])
  BY Zenon DEF Told
<1>2. Reach(m) \in Nat /\ H[m.term] \in Seq(Entry)
  BY ReachType, BookLogs
<1> QED BY <1>1, <1>2

(* What a message tells stays so.                                          *)
LEMMA ToldGrows ==
  ASSUME Counting, NEW N \in SUBSET Msg, NEW M, N \subseteq M,
         NEW H \in Books, NEW G \in Books, Grown(H, G),
         NEW m \in Msg, Told(N, H, m)
  PROVE  Told(M, G, m)
<1> DEFINE t == m.term
<1>1. Reach(m) \in Nat /\ t \in Nat /\ m.index \in Nat /\ m.commit \in Nat
      /\ m.entries \in Seq(Entry)
  BY ReachType, MsgFields, Zenon
<1>2. /\ H[t] \in Seq(Entry) /\ G[t] \in Seq(Entry) /\ Len(H[t]) <= Len(G[t])
      /\ \A x \in 1..Len(H[t]) : G[t][x] = H[t][x]
  BY <1>1, GrownLogs, Zenon
<1>3. Known(N, H, t, m.commit) => Known(M, G, t, m.commit)
  BY <1>1, KnownGrows
<1>4. H[t] # <<>> /\ Quotes(m, H[t]) => G[t] # <<>> /\ Quotes(m, G[t])
  <2> SUFFICES ASSUME H[t] # <<>>, Quotes(m, H[t]) PROVE G[t] # <<>> /\ Quotes(m, G[t])
    OBVIOUS
  <2>1. G[t] # <<>>
    BY <1>2
  <2> HIDE DEF t
  <2>2. Quotes(m, G[t])
    BY <1>2, QuotesGrow
  <2> QED BY <2>1, <2>2
<1>5. From(N, m.to) \subseteq From(M, m.to) /\ \A n : Spread(N, t, n) => Spread(M, t, n)
  BY DEF From, Spread
<1> HIDE DEF t
<1>6. ASSUME Reach(m) <= Len(H[t])
      PROVE  /\ Reach(m) <= Len(G[t])
             /\ \A n \in 1..Reach(m) : G[t][n] = H[t][n]
  BY <1>1, <1>2, <1>6
<1>7. m.type = "MsgApp" =>
        G[t] # <<>> /\ Quotes(m, G[t]) /\ Known(M, G, t, m.commit)
  BY <1>3, <1>4, Zenon DEF Told, t
<1>8. m.type = "MsgHeartbeat" =>
        /\ Known(M, G, t, m.commit)
        /\ m.commit = 0 \/ \E p \in From(M, m.to) :
                             Promise(p) /\ p.term = t /\ Reach(p) >= m.commit
  BY <1>3, <1>5, Zenon DEF Told, t
<1>9. Promise(m) => Reach(m) <= Len(G[t])
  BY <1>6, Zenon DEF Told, t
<1>10. m.type # "MsgApp" /\ Promise(m) =>
         \A n \in 1..Reach(m) : G[t][n].term = t => Spread(M, t, n)
  BY <1>5, <1>6 DEF Told, t
<1> QED BY <1>7, <1>8, <1>9, <1>10, Zenon DEF Told, t

(* Promises are kept by a longer log, and fewer promises the more.         *)
LEMMA HoldsGrows ==
  ASSUME NEW H \in Books, NEW G \in Books, Grown(H, G),
         NEW M \in SUBSET Msg, NEW P \in SUBSET M, Within(H, M),
         NEW l \in Seq(Entry), NEW k \in Seq(Entry), Len(l) <= Len(k),
         \A n \in 1..Len(l) : k[n] = l[n],
         NEW T \in Nat, NEW U \in Nat, T <= U, Holds(H, M, l, T)
  PROVE  Holds(G, P, k, U)
<1> SUFFICES ASSUME NEW m \in P, Promise(m), NEW n \in 1..Reach(m)
             PROVE  m.term <= U /\ Has(G, k, m.term, n, U)
  BY DEF Holds
<1>1. m \in M /\ m \in Msg
  OBVIOUS
<1>2. Reach(m) \in Nat /\ m.term \in Nat
  BY <1>1, ReachType
<1>3. m.term <= T /\ Has(H, l, m.term, n, T)
  BY <1>1 DEF Holds
<1>4. n \in Nat /\ n <= Len(H[m.term])
  BY <1>1, <1>2 DEF Within
<1>5. Has(G, k, m.term, n, U)
  BY <1>2, <1>3, <1>4, HasGrows
<1> QED BY <1>2, <1>3, <1>5

(* A vote stays as good as it was.                                         *)
LEMMA BackedGrows ==
  ASSUME NEW N, NEW V, N \subseteq V,
         NEW H \in Books, NEW G \in Books, Grown(H, G),
         NEW M \in SUBSET Msg, NEW P \in SUBSET Msg, Within(H, M),
         NEW g \in Msg, Backed(N, H, M, g),
         \A m \in P : m \in M \/ ~Promise(m) \/ Reach(m) = 0 \/ m.term >= g.term
  PROVE  Backed(V, G, P, g)
<1>1. g.term \in Nat
  BY ReachType, Zenon
<1> SUFFICES ASSUME G[g.term] = <<>> PROVE Backed(V, G, P, g)
  BY DEF Backed
<1>2. H[g.term] = <<>>
  <2>1. H[g.term] \in Seq(Entry) /\ Len(H[g.term]) <= Len(G[g.term])
    BY <1>1, GrownLogs, ZenonT(30)
  <2> QED BY <2>1
<1>3. PICK v \in From(N, g.to) :
        /\ v.type = "MsgVote" /\ v.term = g.term
        /\ \A m \in M : Promise(m) /\ m.term < g.term =>
             \A n \in 1..Reach(m) :
               H[m.term][n].term = m.term =>
                 UpTo(v, m.term, n) \/ Lost(H, m.term, n, g.term - 1)
  BY <1>2 DEF Backed
<1>4. v \in From(V, g.to)
  BY Zenon DEF From
<1>5. ASSUME NEW m \in P, Promise(m), m.term < g.term, NEW n \in 1..Reach(m),
             G[m.term][n].term = m.term
      PROVE  UpTo(v, m.term, n) \/ Lost(G, m.term, n, g.term - 1)
  <2>1. Reach(m) \in Nat /\ m.term \in Nat
    BY ReachType, Zenon
  <2>2. m \in M
    BY <1>1, <1>5, <2>1
  <2>3. n \in Nat /\ n <= Len(H[m.term])
    BY <1>5, <2>1, <2>2 DEF Within
  <2>4. H[m.term] \in Seq(Entry)
        /\ \A x \in 1..Len(H[m.term]) : G[m.term][x] = H[m.term][x]
    BY <2>1, GrownLogs, Zenon
  <2>5. H[m.term][n].term = m.term
    BY <1>5, <2>3, <2>4, SMTT(30)
  <2>6. UpTo(v, m.term, n) \/ Lost(H, m.term, n, g.term - 1)
    BY <1>3, <1>5, <2>2, <2>5, Zenon
  <2>7. ASSUME Lost(H, m.term, n, g.term - 1)
        PROVE  Lost(G, m.term, n, g.term - 1)
    BY <1>1, <2>1, <2>3, <2>7, LostGrows
  <2> QED BY <2>6, <2>7, Zenon
<1> QED BY <1>3, <1>4, <1>5 DEF Backed

(* The mailbox of a node stays as good as it was.                          *)
LEMMA VoicedGrows ==
  ASSUME Counting, NEW N \in SUBSET Msg, NEW V \in SUBSET Msg, N \subseteq V,
         NEW H \in Books, NEW G \in Books, Grown(H, G),
         NEW r \in Node, NEW s \in Node, Voiced(N, H, r), \A m \in N : Told(N, H, m),
         s.msgs \subseteq r.msgs, Sent(V, s) \subseteq Sent(N, r)
  PROVE  Voiced(V, G, s) /\ Within(H, Sent(N, r))
<1>1. r.msgs \subseteq Msg
  BY LogFields, Zenon
<1>2. /\ Sent(N, r) \in SUBSET Msg /\ Sent(V, s) \in SUBSET Sent(N, r)
      /\ Sent(V, s) \in SUBSET Msg
  BY <1>1, Zenon DEF Sent, From
<1>3. Within(H, Sent(N, r))
  BY Zenon DEF Within, Sent, From, Told, Voiced
<1>4. \A m \in s.msgs : Told(V, G, m)
  BY <1>1, ToldGrows, ZenonT(30) DEF Voiced
<1>5. ASSUME NEW g \in Sent(V, s), Grant(g) PROVE Backed(V, G, Sent(V, s), g)
  <2>1. g \in Msg /\ Backed(N, H, Sent(N, r), g)
    BY <1>2, <1>5 DEF Voiced
  <2> QED BY <1>2, <1>3, <2>1, BackedGrows
<1> QED BY <1>3, <1>4, <1>5, Zenon DEF Voiced
-----------------------------------------------------------------------------
(* What a step makes of a record.                                          *)

(* The quorum that elected the first leader without it would share a voter *)
(* with the quorum that has promised to hold it.                           *)
LEMMA ChosenStays ==
  ASSUME Counting, NEW N, NEW D, NEW R, NEW H, Records(N, D, R, H),
         \A j \in Server : R[j].id = j
  PROVE  Complete(N, H)
<1>1. /\ H \in History /\ H \in Books
      /\ \A t \in Nat : TermInv(N, D, R, H, t)
  BY HistoryFacts DEF Records
<1> SUFFICES ASSUME NEW t \in Nat, NEW n \in Nat, Chosen(N, H, t, n)
             PROVE  \A u \in Nat : t <= u /\ H[u] # <<>> => Agree(H[u], H[t], n)
  BY Zenon DEF Complete
<1>2. /\ n \in 1..Len(H[t]) /\ H[t][n].term = t /\ IsQuorum(Backers(N, t, n))
      /\ H[t] \in Seq(Entry)
  BY <1>1, BookLogs, Zenon DEF Chosen
<1> DEFINE Bad == {u \in Nat : t <= u /\ H[u] # <<>> /\ ~Agree(H[u], H[t], n)}
<1> SUFFICES ASSUME Bad # {} PROVE FALSE
  OBVIOUS
<1>3. PICK u \in Bad : \A w \in Bad : u <= w
  BY LeastNatural, Zenon
<1>4. u \in Nat /\ t <= u /\ H[u] # <<>> /\ ~Agree(H[u], H[t], n)
  OBVIOUS
<1>5. \A w \in Nat : t <= w /\ w < u /\ H[w] # <<>> => Agree(H[w], H[t], n)
  BY <1>3, <1>4
<1> HIDE DEF Bad
<1>6. t < u
  BY <1>2, <1>4, AgreeFacts
<1>7. PICK Q \in SUBSET Voter :
        IsQuorum(Q) /\ \A j \in Q : Yields(H, Sent(N, R[j]), u)
  BY <1>1, <1>4, ZenonT(30) DEF TermInv
<1>8. PICK j \in Voter : j \in Q /\ j \in Backers(N, t, n)
  <2>1. Backers(N, t, n) \in SUBSET Voter
    BY DEF Backers
  <2> QED BY <1>2, <1>7, <2>1, QuorumsMeet, ZenonT(30)
<1>9. j \in Server
  BY DEF Server
<1>10. PICK m \in From(N, j) : Promise(m) /\ m.term = t /\ Reach(m) >= n
  BY <1>8 DEF Backers
<1>11. m \in Sent(N, R[j])
  BY <1>9 DEF Sent, From
<1>12. n \in 1..Reach(m)
  BY <1>2, <1>10
<1>13. Has(H, H[u], t, n, u - 1)
  BY <1>2, <1>6, <1>7, <1>8, <1>10, <1>11, <1>12, Zenon DEF Yields
<1>14. ~Lost(H, t, n, u - 1)
  <2> SUFFICES ASSUME Lost(H, t, n, u - 1) PROVE FALSE
    OBVIOUS
  <2>1. PICK w \in t + 1..u - 1 : \E k \in 1..n : k <= Len(H[w]) /\ H[w][k] # H[t][k]
    BY DEF Lost
  <2>2. PICK k \in 1..n : k <= Len(H[w]) /\ H[w][k] # H[t][k]
    BY <2>1, ZenonT(30)
  <2>3. w \in Nat /\ t <= w /\ w < u
    BY <1>4
  <2>4. H[w] # <<>>
    BY <2>2
  <2>5. Agree(H[w], H[t], n)
    BY <1>5, <2>3, <2>4, ZenonT(30)
  <2> QED BY <2>2, <2>5, Zenon DEF Agree
<1> QED BY <1>4, <1>13, <1>14, Zenon DEF Has

(* Votes and requests for votes are not of later terms.                    *)
LEMMA VotesBind ==
  ASSUME NEW N \in SUBSET Msg, NEW D \in [Server -> StorageType], NEW r,
         NetInv(N, D), NodeInv(N, D, r), NEW g \in Sent(N, r),
         Grant(g) \/ g.type = "MsgVote"
  PROVE  g.term <= r.term
<1>1. r \in Node /\ r.msgs \subseteq Msg /\ r.id \in Server /\ r.term \in Nat
  BY LogFields DEF NodeInv
<1>2. g \in Msg /\ g.from = r.id /\ (g \in N \/ g \in r.msgs)
  BY <1>1 DEF Sent, From
<1>3. g.to \in Server /\ g.term \in Nat
  BY <1>2, MsgFields, ZenonT(30)
<1>4. PICK c \in Server : (Grant(g) /\ g.to = c) \/ (g.type = "MsgVote" /\ c = r.id)
  BY <1>1, <1>3, ZenonT(30)
<1>5. NetVote(N, r.id, c, g.term) \/ OwnVote(r, c, g.term)
  BY <1>2, <1>4, SMTT(30) DEF NetVote, OwnVote
<1>6. Bound(r, c, g.term)
  BY <1>3, <1>5, NetVoteBinds DEF NodeInv, VoteInv
<1> QED BY <1>1, <1>3, <1>6 DEF Bound

(* What is to be shown of the record s that a step makes of r.             *)
LEMMA RecMoves ==
  ASSUME NEW N \in SUBSET Msg, NEW H \in History, \A m \in N : Told(N, H, m),
         NEW r \in Node, NEW s \in Node, Voiced(N, H, r), s.id = r.id,
         \A g \in Sent(N, r) : Grant(g) => g.term <= s.term,
         Faithful(H, s.log, s.term), Holds(H, Sent(N, r), s.log, s.term),
         Committed(N, H, s.log, s.term, s.committed),
         \A x \in s.msgs : x \in r.msgs \/ Sound(N, H, s, x),
         s.state = "Candidate" => Asks(s, Sent(N, s)),
         s.state = "Leader" => Reigns(N, H, s),
         s.term = r.term \/ s.msgs = r.msgs
  PROVE  RecInv(N, H, s) /\ Silent(r, s)
<1>1. /\ r.msgs \subseteq Msg /\ s.msgs \subseteq Msg /\ s.term \in Nat
      /\ s.log \in Seq(Entry)
  BY LogFields, ZenonT(30)
<1>2. Sent(N, r) \in SUBSET Msg /\ Sent(N, s) \in SUBSET Msg
  BY <1>1, SMTT(30) DEF Sent, From
<1>3. \A x \in Sent(N, s) : x \in Sent(N, r) \/ (x \in s.msgs /\ Sound(N, H, s, x))
  BY DEF Sent, From
<1>4. Within(H, Sent(N, r))
  BY Zenon DEF Within, Sent, From, Told, Voiced
<1>5. \A x \in s.msgs : Told(N, H, x)
  BY ZenonT(30) DEF Voiced, Sound
<1>6. H \in Books /\ H[s.term] \in Seq(Entry)
  BY <1>1, HistoryFacts, BookLogs
<1>7. Holds(H, Sent(N, s), s.log, s.term)
  <2> SUFFICES ASSUME NEW m \in Sent(N, s), Promise(m), NEW n \in 1..Reach(m)
               PROVE  m.term <= s.term /\ Has(H, s.log, m.term, n, s.term)
    BY ZenonT(30) DEF Holds
  <2>1. Reach(m) \in Nat
    BY <1>2, ReachType
  <2>2. CASE m \in Sent(N, r)
    BY <2>2, ZenonT(30) DEF Holds
  <2>3. CASE Sound(N, H, s, m)
    <3>1. Reach(m) # 0 /\ n \in Nat /\ n <= Reach(m)
      BY <2>1
    <3>2. m.term = s.term /\ Agree(s.log, H[s.term], Reach(m))
      BY <2>3, <3>1, Zenon DEF Sound
    <3>3. Agree(s.log, H[s.term], n)
      BY <1>1, <1>6, <2>1, <3>1, <3>2, AgreeFacts, Zenon
    <3> QED BY <1>1, <3>2, <3>3, SMTT(30) DEF Has
  <2> QED BY <1>3, <2>2, <2>3, Zenon
<1>8. ASSUME NEW g \in Sent(N, s), Grant(g) PROVE Backed(N, H, Sent(N, s), g)
  <2>1. CASE g \in Sent(N, r)
    <3>1. g \in Msg /\ g.term <= s.term /\ Backed(N, H, Sent(N, r), g)
      BY <1>2, <1>8, <2>1 DEF Voiced
    <3>2. ASSUME NEW m \in Sent(N, s)
          PROVE  m \in Sent(N, r) \/ ~Promise(m) \/ Reach(m) = 0 \/ m.term >= g.term
      <4>1. Sound(N, H, s, m) /\ Promise(m) /\ Reach(m) # 0 => m.term = s.term
        BY Zenon DEF Sound
      <4>2. g.term \in Nat
        BY <3>1, ReachType, Zenon
      <4> QED BY <1>1, <1>3, <3>1, <4>1, <4>2, Zenon
    <3>3. Grown(H, H)
      BY <1>6 DEF Grown
    <3> QED BY <1>2, <1>4, <1>6, <3>1, <3>2, <3>3, BackedGrows, ZenonT(30)
  <2>2. CASE Sound(N, H, s, g)
    BY <1>8, <2>2, ZenonT(30) DEF Sound
  <2> QED BY <1>3, <2>1, <2>2, Zenon
<1>9. Silent(r, s)
  BY DEF Silent, Sound
<1> QED BY <1>5, <1>7, <1>8, <1>9, ZenonT(30) DEF RecInv, Voiced

(* A record with the log of r, in a term that is not earlier, has all that *)
(* r has.                                                                  *)
LEMMA SameLogRec ==
  ASSUME Counting,
         NEW N \in SUBSET Msg, NEW H \in History, \A m \in N : Told(N, H, m),
         NEW r \in Node, NEW s \in Node, RecInv(N, H, r), s.term >= r.term,
         s.log = r.log, s.committed = r.committed
  PROVE  /\ Faithful(H, s.log, s.term) /\ Holds(H, Sent(N, r), s.log, s.term)
         /\ Committed(N, H, s.log, s.term, s.committed)
<1>1. /\ r.log \in Seq(Entry) /\ r.term \in Nat /\ s.term \in Nat /\ r.committed \in Nat
      /\ r.msgs \subseteq Msg
  BY LogFields
<1>2. H \in Books /\ Grown(H, H)
  BY HistoryFacts DEF Grown
<1>3. Sent(N, r) \in SUBSET Msg
  BY <1>1 DEF Sent, From
<1>4. Within(H, Sent(N, r))
  BY Zenon DEF Within, Sent, From, Told, RecInv, Voiced
<1>5. Faithful(H, r.log, s.term)
  BY <1>1, <1>2, FaithfulGrows, ZenonT(30) DEF RecInv
<1>6. Holds(H, Sent(N, r), r.log, s.term)
  BY <1>1, <1>2, <1>3, <1>4, HoldsGrows, SMTT(30) DEF RecInv
<1>7. Committed(N, H, r.log, s.term, r.committed)
  <2>1. r.committed <= Len(r.log) => Agree(r.log, r.log, r.committed)
    BY <1>1, AgreeFacts
  <2> QED BY <1>1, <1>2, <2>1, CommittedGrows DEF RecInv
<1> QED BY <1>5, <1>6, <1>7, ZenonT(30)

(* A new role, not the leader's.                                           *)
LEMMA RoleRec ==
  ASSUME Counting,
         NEW N \in SUBSET Msg, NEW D \in [Server -> StorageType], NEW H \in History,
         \A m \in N : Told(N, H, m), NetInv(N, D),
         NEW r, NEW s \in Node, NodeInv(N, D, r), RecInv(N, H, r),
         s.id = r.id, SameLog(r, s), s.msgs = r.msgs, s.state # "Leader",
         s.term >= r.term,
         s.state = "Candidate" => s.term > r.term \/ r.state = "Candidate"
  PROVE  RecInv(N, H, s) /\ Silent(r, s)
<1>1. r \in Node /\ r.term \in Nat /\ s.term \in Nat /\ r.msgs \subseteq Msg
  BY LogFields, Zenon DEF NodeInv
<1>2. s.log = r.log /\ s.committed = r.committed
  BY Zenon DEF SameLog
<1>3. /\ Faithful(H, s.log, s.term) /\ Holds(H, Sent(N, r), s.log, s.term)
      /\ Committed(N, H, s.log, s.term, s.committed)
  BY <1>1, <1>2, SameLogRec, Zenon
<1>4. Sent(N, s) = Sent(N, r) /\ Sent(N, r) \subseteq Msg
  BY <1>1, Zenon DEF Sent, From
<1>5. \A g \in Sent(N, r) : Grant(g) \/ g.type = "MsgVote" => g.term <= r.term /\ g.term \in Nat
  BY <1>4, VotesBind, ReachType, ZenonT(30)
<1>6. s.state = "Candidate" => Asks(s, Sent(N, s))
  <2>1. lastTerm(s) = lastTerm(r)
    BY <1>2, ZenonT(30) DEF lastTerm, term, lastIndex
  <2>2. CASE s.term > r.term
    BY <1>1, <1>4, <1>5, <2>2 DEF Asks
  <2>3. CASE s.term = r.term /\ r.state = "Candidate"
    BY <1>2, <1>4, <2>1, <2>3, ZenonT(30) DEF Asks, RecInv
  <2> QED BY <1>1, <2>2, <2>3
<1>7. \A g \in Sent(N, r) : Grant(g) => g.term <= s.term
  BY <1>1, <1>5
<1>20. Voiced(N, H, r)
  BY Zenon DEF RecInv
<1> QED BY <1>1, <1>3, <1>6, <1>7, <1>20, RecMoves, Zenon

(* What a node that does not lead does quietly.                            *)
LEMMA QuietRec ==
  ASSUME Counting,
         NEW N \in SUBSET Msg, NEW D \in [Server -> StorageType], NEW H \in History,
         \A m \in N : Told(N, H, m), NetInv(N, D),
         NEW r, NEW s, NodeInv(N, D, r), RecInv(N, H, r),
         Quiet(r, s), ~s.panic, r.state # "Leader"
  PROVE  RecInv(N, H, s) /\ Silent(r, s)
<1>1. /\ r \in Node /\ s \in Node /\ s.id = r.id /\ s.term = r.term /\ s.state = r.state
      /\ \A x \in s.msgs : x \in r.msgs \/ Harmless(r, x)
  BY Zenon DEF Quiet, Mute
<1>2. s.log = r.log /\ Orderly(r, s)
  BY Zenon DEF Quiet
<1>3. /\ s.committed = r.committed
      /\ \A x \in s.msgs : x \in r.msgs \/ (Harmless(r, x) /\ Proper(r, s, x))
  BY <1>1, <1>2, Zenon DEF Orderly
<1>4. r.term \in Nat /\ s.term \in Nat /\ r.msgs \subseteq Msg /\ s.msgs \subseteq Msg
  BY <1>1, LogFields, ZenonT(30)
<1>5. /\ Faithful(H, s.log, s.term) /\ Holds(H, Sent(N, r), s.log, s.term)
      /\ Committed(N, H, s.log, s.term, s.committed)
  BY <1>1, <1>2, <1>3, <1>4, SameLogRec
<1>6. \A g \in Sent(N, r) : Grant(g) => g.term <= s.term
  BY <1>1, VotesBind, Zenon
<1>7. ASSUME NEW x \in s.msgs, Harmless(r, x), Proper(r, s, x) PROVE Sound(N, H, s, x)
  <2>1. x.type # "MsgApp" /\ x.type # "MsgHeartbeat" /\ ~Grant(x)
    BY <1>7, ZenonT(30) DEF Harmless, LeaderType, Ballot
  <2>2. Promise(x) => Reach(x) = 0
    BY <1>7, <2>1, ZenonT(30) DEF Proper, Promise, Reach
  <2>3. x.term \in Nat
    BY <1>4, ReachType, ZenonT(30)
  <2>4. Promise(x) => Reach(x) <= Len(H[x.term])
    <3>1. H[x.term] \in Seq(Entry)
      BY <2>3, HistoryFacts, BookLogs, ZenonT(30)
    <3> QED BY <2>2, <3>1
  <2>5. Promise(x) => 1..Reach(x) = {}
    BY <2>2
  <2>6. Told(N, H, x)
    BY <2>1, <2>4, <2>5, Zenon DEF Told
  <2> QED BY <2>1, <2>2, <2>6, ZenonT(30) DEF Sound
<1>8. s.state = "Candidate" => Asks(s, Sent(N, s))
  <2> SUFFICES ASSUME s.state = "Candidate", NEW x \in Sent(N, s),
                      x.type = "MsgVote", x.term = s.term
               PROVE  x.index = Len(s.log) /\ x.logterm = lastTerm(s)
    BY ZenonT(30) DEF Asks
  <2>1. lastTerm(s) = lastTerm(r)
    BY <1>2 DEF lastTerm, term, lastIndex
  <2>2. x \in Sent(N, r) \/ Proper(r, s, x)
    BY <1>1, <1>3 DEF Sent, From
  <2>3. Asks(r, Sent(N, r))
    BY <1>1, Zenon DEF RecInv
  <2> QED BY <1>1, <1>2, <2>1, <2>2, <2>3, Zenon DEF Asks, Proper
<1>20. Voiced(N, H, r)
  BY DEF RecInv
<1> QED BY <1>1, <1>3, <1>5, <1>6, <1>7, <1>8, <1>20, RecMoves, Zenon

(* Nothing is lost in a term that nobody leads.                            *)
LEMMA NotLostNow ==
  ASSUME NEW H \in History, NEW t \in Nat, NEW n \in Nat, NEW u \in Nat,
         H[u] = <<>>, Lost(H, t, n, u)
  PROVE  Lost(H, t, n, u - 1)
<1>1. PICK w \in t + 1..u : \E k \in 1..n : k <= Len(H[w]) /\ H[w][k] # H[t][k]
  BY ZenonT(30) DEF Lost
<1>2. PICK k \in 1..n : k <= Len(H[w]) /\ H[w][k] # H[t][k]
  BY <1>1
<1>3. w # u
  BY <1>2
<1>4. w \in t + 1..u - 1
  BY <1>3
<1> QED BY <1>2, <1>4, ZenonT(30) DEF Lost

(* Who votes has asked that the candidate has all that it has promised.    *)
LEMMA VoteBacked ==
  ASSUME NEW N \in SUBSET Msg, NEW H \in History, \A m \in N : Told(N, H, m),
         NEW r \in Node, RecInv(N, H, r), NEW c \in Server, Asked(N, r, c),
         NEW g \in Msg, g.to = c, g.term = r.term, NEW P \in SUBSET Msg,
         \A m \in P : m \in Sent(N, r) \/ ~Promise(m)
  PROVE  Backed(N, H, P, g)
<1>1. r.log \in Seq(Entry) /\ r.term \in Nat /\ lastIndex(r) = Len(r.log)
  BY LogFields DEF lastIndex
<1> SUFFICES ASSUME H[r.term] = <<>> PROVE Backed(N, H, P, g)
  BY Zenon DEF Backed
<1>2. PICK v \in N : /\ v.type = "MsgVote" /\ v.from = c /\ v.term = r.term
                     /\ isUpToDate(r, v.index, v.logterm)
  BY ZenonT(30) DEF Asked
<1>3. v.index \in Nat /\ v.logterm \in Nat
  BY ReachType
<1>4. ASSUME NEW m \in P, Promise(m), m.term < r.term, NEW n \in 1..Reach(m),
             H[m.term][n].term = m.term
      PROVE  UpTo(v, m.term, n) \/ Lost(H, m.term, n, r.term - 1)
  <2>1. Reach(m) \in Nat /\ m.term \in Nat /\ n \in Nat
    BY ReachType
  <2>2. m \in Sent(N, r)
    BY <1>4
  <2>3. Has(H, r.log, m.term, n, r.term)
    BY <1>4, <2>2, Zenon DEF RecInv, Holds
  <2>4. CASE Lost(H, m.term, n, r.term)
    BY <1>1, <2>1, <2>4, NotLostNow, Zenon
  <2>5. CASE Agree(r.log, H[m.term], n)
    <3> DEFINE k == Len(r.log)
    <3>1. n <= k /\ n \in 1..k /\ k \in 1..k /\ r.log[n] = H[m.term][n]
      BY <1>1, <2>1, <2>5 DEF Agree
    <3>2. Faithful(H, r.log, r.term) /\ k \in 1..Len(r.log) /\ n \in 1..k
      BY <3>1, ZenonT(30) DEF RecInv
    <3>3. r.log[n].term \in 1..r.log[k].term
      BY <1>1, <3>2, TermsAscend, Zenon
    <3>4. lastTerm(r) = r.log[k].term
      BY <1>1, <3>1, ZenonT(30) DEF lastTerm, term
    <3>5. r.log[k].term \in Nat
      <4>1. r.log[k] \in Entry
        BY <1>1, <3>1, SMTT(30)
      <4> QED BY <4>1, ZenonT(30) DEF Entry
    <3> HIDE DEF k
    <3>6. lastTerm(r) \in Nat /\ m.term <= lastTerm(r)
      BY <1>4, <2>1, <3>1, <3>3, <3>4, <3>5, SMTT(30)
    <3>7. v.logterm > lastTerm(r) \/ (v.logterm = lastTerm(r) /\ v.index >= k)
      BY <1>1, <1>2, ZenonT(30) DEF isUpToDate, k
    <3>8. k \in Nat
      BY <1>1 DEF k
    <3>9. UpTo(v, m.term, n)
      BY <1>3, <2>1, <3>1, <3>6, <3>7, <3>8, SMTT(30) DEF UpTo
    <3> QED BY <3>9, Zenon
  <2> QED BY <2>3, <2>4, <2>5, ZenonT(30) DEF Has
<1>5. v \in From(N, g.to)
  BY <1>2 DEF From
<1> QED BY <1>2, <1>4, <1>5, Zenon DEF Backed

(* A vote.                                                                 *)
LEMMA CastsRec ==
  ASSUME Counting,
         NEW N \in SUBSET Msg, NEW D \in [Server -> StorageType], NEW H \in History,
         \A m \in N : Told(N, H, m), NetInv(N, D),
         NEW r, NEW s, NodeInv(N, D, r), RecInv(N, H, r),
         NEW c \in Server, Asked(N, r, c), Casts(r, s, c, r.term)
  PROVE  RecInv(N, H, s) /\ Silent(r, s)
<1>1. /\ r \in Node /\ s \in Node /\ s.id = r.id /\ s.term = r.term /\ s.state = r.state
      /\ s.prs = r.prs /\ s.log = r.log /\ s.committed = r.committed
      /\ \A x \in s.msgs :
           x \in r.msgs \/ (x.type = "MsgVoteResp" /\ x.to = c /\ x.term = r.term)
  BY Zenon DEF Casts, SameLog
<1>2. r.term \in Nat /\ r.msgs \subseteq Msg /\ s.msgs \subseteq Msg
  BY <1>1, LogFields, ZenonT(30)
<1>3. /\ Faithful(H, s.log, s.term) /\ Holds(H, Sent(N, r), s.log, s.term)
      /\ Committed(N, H, s.log, s.term, s.committed)
  BY <1>1, <1>2, OrderFacts, SameLogRec, Zenon
<1>4. \A g \in Sent(N, r) : Grant(g) => g.term <= s.term
  BY <1>1, VotesBind, Zenon
<1>5. \A x \in Sent(N, s) : x \in Sent(N, r) \/ x.type = "MsgVoteResp"
  BY <1>1 DEF Sent, From
<1>6. Sent(N, s) \in SUBSET Msg /\ \A m \in Sent(N, s) : m \in Sent(N, r) \/ ~Promise(m)
  BY <1>2, <1>5, Zenon DEF Sent, From, Promise
<1>7. ASSUME NEW x \in s.msgs, x.type = "MsgVoteResp", x.to = c, x.term = r.term
      PROVE  Sound(N, H, s, x)
  <2>1. Told(N, H, x) /\ ~Promise(x)
    BY <1>7, Zenon DEF Told, Promise
  <2>2. Backed(N, H, Sent(N, s), x)
    BY <1>1, <1>2, <1>6, <1>7, VoteBacked, Zenon
  <2> QED BY <2>1, <2>2, Zenon DEF Sound
<1>8. lastTerm(s) = lastTerm(r)
  BY <1>1, Zenon DEF lastTerm, term, lastIndex
<1>9. s.state = "Candidate" => Asks(s, Sent(N, s))
  BY <1>1, <1>5, <1>8, Zenon DEF Asks, RecInv
<1>10. s.state = "Leader" => Reigns(N, H, s)
  <2>1. Fits(r) => Fits(s)
    BY <1>1, Zenon DEF Fits
  <2>2. Acked(N, r) => Acked(N, s)
    BY <1>1, Zenon DEF Acked
  <2> QED BY <1>1, <2>1, <2>2, Zenon DEF RecInv, Reigns
<1>20. Voiced(N, H, r)
  BY DEF RecInv
<1> QED BY <1>1, <1>3, <1>4, <1>7, <1>9, <1>10, <1>20, RecMoves, Zenon

(* An acknowledgement that the leader counts.                              *)
LEMMA CountsRec ==
  ASSUME Counting,
         NEW N \in SUBSET Msg, NEW D \in [Server -> StorageType], NEW H \in History,
         \A m \in N : Told(N, H, m), NetInv(N, D),
         NEW r, NEW s, NodeInv(N, D, r), RecInv(N, H, r), r.state = "Leader",
         NEW m \in N, Counts(r, s, m)
  PROVE  RecInv(N, H, s) /\ Silent(r, s)
<1>1. /\ r \in Node /\ s \in Node /\ s.id = r.id /\ s.term = r.term /\ s.state = r.state
      /\ s.log = r.log /\ s.committed = r.committed /\ s.msgs = r.msgs
      /\ \A j \in Server \ {m.from} : s.prs[j] = r.prs[j]
      /\ s.prs[m.from].match \in {r.prs[m.from].match, m.index}
      /\ Fits(r) /\ m.index <= Len(r.log) => Fits(s)
  BY Zenon DEF Counts, Matches, Mute
<1>2. m.type = "MsgAppResp" /\ Promise(m) /\ Reach(m) = m.index /\ m.term \in {0, r.term}
  BY DEF Counts, Promise, Reach
<1>3. /\ r.term \in Nat /\ m.index \in Nat /\ m.from \in Server
      /\ r.log \in Seq(Entry) /\ H[0] = <<>> /\ r.log = H[r.term] /\ Reigns(N, H, r)
  BY <1>1, LogFields, MsgFields, HistoryFacts, Zenon DEF RecInv, Reigns
<1>4. m.index <= Len(H[m.term])
  BY <1>2, Zenon DEF Told
<1>5. m.index = 0 \/ m.term = r.term
  BY <1>2, <1>3, <1>4, NothingThere, Zenon
<1>6. m.index <= Len(r.log)
  BY <1>3, <1>4, <1>5
<1>7. Fits(s)
  BY <1>1, <1>3, <1>6, Zenon DEF Reigns
<1>8. ASSUME NEW j \in Server \ {s.id}
      PROVE  \/ s.prs[j].match = 0
             \/ \E x \in From(N, j) : /\ x.type # "MsgApp" /\ Promise(x) /\ x.term = s.term
                                      /\ Reach(x) >= s.prs[j].match
  <2>1. CASE s.prs[j].match = r.prs[j].match
    BY <1>1, <1>3, <2>1, ZenonT(30) DEF Reigns, Acked
  <2>2. CASE j = m.from /\ s.prs[j].match = m.index
    <3>1. m \in From(N, j)
      BY <2>2 DEF From
    <3> QED BY <1>1, <1>2, <1>3, <1>5, <2>2, <3>1, OrderFacts, Zenon
  <2> QED BY <1>1, <2>1, <2>2, Zenon
<1>9. Reigns(N, H, s)
  BY <1>1, <1>3, <1>7, <1>8, ZenonT(30) DEF Reigns, Acked
<1>10. /\ Faithful(H, s.log, s.term) /\ Holds(H, Sent(N, r), s.log, s.term)
       /\ Committed(N, H, s.log, s.term, s.committed)
  BY <1>1, <1>3, OrderFacts, SameLogRec, Zenon
<1>11. \A g \in Sent(N, r) : Grant(g) => g.term <= s.term
  BY <1>1, VotesBind, Zenon
<1>12. s.state = "Leader" /\ s.msgs = r.msgs
  BY <1>1, Zenon
<1>20. Voiced(N, H, r)
  BY Zenon DEF RecInv
<1> QED BY <1>1, <1>9, <1>10, <1>11, <1>12, <1>20, RecMoves, Zenon
-----------------------------------------------------------------------------
(* What a follower makes of a MsgApp and of a MsgHeartbeat.                *)

(* A piece of a faithful log is faithful.                                  *)
LEMMA PieceFaithful ==
  ASSUME NEW H \in Books, NEW l \in Seq(Entry), NEW k \in Seq(Entry),
         NEW t \in Nat, Faithful(H, k, t), Agree(l, k, Len(l))
  PROVE  Faithful(H, l, t)
<1> SUFFICES ASSUME NEW n \in 1..Len(l)
             PROVE  l[n].term \in 1..t /\ Agree(l, H[l[n].term], n)
  BY DEF Faithful
<1>1. n \in 1..Len(k) /\ l[n] = k[n]
  BY DEF Agree
<1> DEFINE v == l[n].term
<1>2. v \in 1..t /\ Agree(k, H[v], n)
  BY <1>1 DEF Faithful
<1> HIDE DEF v
<1>3. H[v] \in Seq(Entry)
  BY <1>2, BookLogs
<1>4. Agree(l, H[v], n)
  BY <1>2, <1>3 DEF Agree
<1> QED BY <1>2, <1>4, ZenonT(30) DEF v

(* A log with the term of the leader's log at index n, which is not its    *)
(* beginning, has the leader's log up to there.                            *)
LEMMA TermTells ==
  ASSUME NEW H \in History, NEW r \in Node, NEW u \in Nat, Faithful(H, r.log, r.term),
         NEW n \in Nat, n <= Len(H[u]), n # 0 => term(r, n) = H[u][n].term
  PROVE  Agree(r.log, H[u], n)
<1>1. r.log \in Seq(Entry) /\ r.term \in Nat
  BY LogFields
<1>2. H[u] \in Seq(Entry) /\ Faithful(H, H[u], u)
  BY HistoryFacts, BookLogs
<1>3. CASE n = 0
  BY <1>1, <1>2, <1>3 DEF Agree
<1>4. CASE n # 0
  <2>1. n \in 1..Len(H[u])
    BY <1>2, <1>4
  <2>2. H[u][n].term \in 1..u
    BY <1>2, <2>1, ZenonT(30) DEF Faithful
  <2>3. term(r, n) # 0
    BY <1>4, <2>2
  <2>4. n \in 1..Len(r.log) /\ r.log[n].term = H[u][n].term
    BY <1>4, <2>3, ZenonT(30) DEF term
  <2> QED BY <1>1, <1>2, <2>1, <2>4, SameTermAgree, ZenonT(30)
<1> QED BY <1>3, <1>4

(* Having taken the MsgApp m a follower has the leader's log as far as m   *)
(* goes, and what it already had of it.                                    *)
LEMMA TakesTells ==
  ASSUME NEW H \in History, NEW r \in Node, NEW m \in Msg, NEW l \in Seq(Entry),
         m.type = "MsgApp", m.term = r.term, Quotes(m, H[r.term]),
         Faithful(H, r.log, r.term), Takes(r, m, l)
  PROVE  /\ Agree(l, H[r.term], Reach(m))
         /\ \A n \in Nat : Agree(r.log, H[r.term], n) => Agree(l, H[r.term], n)
         /\ Faithful(H, l, r.term)
<1> DEFINE u == r.term
           i == m.index
           es == m.entries
           k == H[u]
<1>1. r.log \in Seq(Entry) /\ u \in Nat /\ i \in Nat /\ es \in Seq(Entry)
  BY LogFields, MsgFields, ZenonT(30)
<1>2. k \in Seq(Entry) /\ Faithful(H, k, u) /\ H \in Books
  BY <1>1, HistoryFacts, BookLogs, ZenonT(30)
<1>3. /\ i + Len(es) <= Len(k)
      /\ \A x \in 1..Len(es) : es[x] = k[i + x]
      /\ m.logterm = IF i = 0 THEN 0 ELSE k[i].term
  BY Zenon DEF Quotes
<1>4. Reach(m) = i + Len(es)
  BY Zenon DEF Reach
<1>5. m.logterm = term(r, i)
  BY ZenonT(30) DEF Takes
<1>10. ASSUME NEW n \in Nat, n <= Len(k), n # 0 => term(r, n) = k[n].term
       PROVE  Agree(r.log, k, n)
  <2>1. u \in Nat
    BY <1>1, Zenon
  <2> QED BY <1>10, <2>1, TermTells
<1> HIDE DEF u, i, es, k
<1>6. Agree(r.log, k, i)
  <2>1. i <= Len(k) /\ (i # 0 => term(r, i) = k[i].term)
    BY <1>1, <1>2, <1>3, <1>5
  <2> QED BY <1>1, <1>10, <2>1, ZenonT(30)
<1>7. ASSUME NEW x \in 0..Len(es), \A y \in 1..x : es[y].term = term(r, i + y)
      PROVE  Agree(r.log, k, i + x)
  <2>1. CASE x = 0
    BY <1>1, <1>6, <2>1
  <2>2. CASE x # 0
    <3>1. x \in 1..x /\ x \in 1..Len(es) /\ i + x \in Nat /\ i + x <= Len(k) /\ i + x # 0
      BY <1>1, <1>2, <1>3, <2>2
    <3>2. term(r, i + x) = k[i + x].term
      BY <1>3, <1>7, <3>1, ZenonT(30)
    <3> QED BY <1>10, <3>1, <3>2, ZenonT(30)
  <2> QED BY <2>1, <2>2, ZenonT(30)
<1>8. CASE l = r.log /\ \A x \in 1..Len(es) : es[x].term = term(r, i + x)
  <2>1. Agree(l, k, i + Len(es))
    BY <1>1, <1>7, <1>8
  <2> QED BY <1>4, <1>8, <2>1, ZenonT(30) DEF u, k
<1>9. CASE \E k0 \in 1..Len(es) :
             /\ es[k0].term # term(r, i + k0) /\ i + k0 - 1 <= Len(r.log)
             /\ Len(l) = i + Len(es) /\ Spliced(r, m, k0, l)
  <2>1. PICK k0 \in 1..Len(es) :
             /\ es[k0].term # term(r, i + k0) /\ i + k0 - 1 <= Len(r.log)
             /\ Len(l) = i + Len(es) /\ Spliced(r, m, k0, l)
    BY <1>9, ZenonT(30)
  <2>2. /\ \A x \in 1..k0 - 1 : es[x].term = term(r, i + x)
        /\ \A n \in 1..i + k0 - 1 : l[n] = r.log[n]
        /\ \A x \in k0..Len(es) : l[i + x] = es[x]
    BY <2>1, ZenonT(30) DEF Spliced, i, es
  <2>3. Agree(r.log, k, i + (k0 - 1))
    <3>1. k0 - 1 \in 0..Len(es)
      BY <1>1, SMTT(30)
    <3> QED BY <1>7, <2>2, <3>1, ZenonT(30)
  <2>4. ASSUME NEW n \in 1..i + Len(es) PROVE l[n] = k[n]
    <3>1. CASE n <= i + k0 - 1
      BY <1>1, <2>2, <2>3, <3>1, SMTT(30) DEF Agree
    <3>2. CASE n > i + k0 - 1
      <4>1. n - i \in k0..Len(es) /\ n - i \in 1..Len(es) /\ i + (n - i) = n
        BY <1>1, <3>2
      <4>2. l[n] = es[n - i] /\ es[n - i] = k[n]
        BY <1>3, <2>2, <4>1, ZenonT(30)
      <4> QED BY <4>2, Zenon
    <3> QED BY <1>1, <3>1, <3>2, SMTT(30)
  <2>5. Agree(l, k, i + Len(es))
    BY <1>1, <1>2, <1>3, <2>1, <2>4 DEF Agree
  <2>6. ASSUME NEW n \in Nat, Agree(r.log, k, n) PROVE Agree(l, k, n)
    <3>1. ~(n >= i + k0)
      <4> SUFFICES ASSUME n >= i + k0 PROVE FALSE
        BY ZenonT(30)
      <4>1. i + k0 \in 1..Len(r.log) /\ i + k0 \in 1..n
        BY <1>1, <2>6 DEF Agree
      <4>2. r.log[i + k0] = k[i + k0]
        BY <2>6, <4>1, ZenonT(30) DEF Agree
      <4>3. term(r, i + k0) = k[i + k0].term
        BY <4>1, <4>2, ZenonT(30) DEF term
      <4> QED BY <1>3, <2>1, <4>3, ZenonT(30)
    <3>2. n <= i + Len(es)
      BY <1>1, <3>1
    <3> QED BY <1>1, <1>2, <2>5, <3>2, AgreeFacts, SMTT(30)
  <2>7. Agree(l, k, Len(l))
    BY <2>1, <2>5, ZenonT(30)
  <2>8. Faithful(H, l, u)
    BY <1>1, <1>2, <2>7, PieceFaithful
  <2> QED BY <1>4, <2>5, <2>6, <2>8, ZenonT(30) DEF u, k
<1> QED BY <1>8, <1>9, ZenonT(30) DEF Takes, i, es

(* An acknowledgement of what the follower has.                            *)
LEMMA AckSound ==
  ASSUME NEW N \in SUBSET Msg, NEW H \in History, NEW r, NEW s \in Node,
         NEW x \in Msg, NEW n \in Nat, Acks(r, x, n), s.term = r.term,
         Agree(s.log, H[s.term], n),
         \A k \in 1..n : H[s.term][k].term = s.term => Spread(N, s.term, k)
  PROVE  Sound(N, H, s, x)
<1>1. x.type = "MsgAppResp" /\ x.term = s.term /\ x.index = n
  BY Zenon DEF Acks
<1>2. Reach(x) = n /\ ~Grant(x)
  BY <1>1, Zenon DEF Reach, Grant
<1>3. n <= Len(H[s.term])
  BY Zenon DEF Agree
<1>4. Told(N, H, x)
  BY <1>1, <1>2, <1>3, ZenonT(30) DEF Told
<1> QED BY <1>1, <1>2, <1>4, Zenon DEF Sound

(* What is committed is in the log of the leader of the term, who has sent *)
(* it if the entries are its own.                                          *)
LEMMA CommittedTells ==
  ASSUME Counting,
         NEW N \in SUBSET Msg, NEW H \in History, \A m \in N : Told(N, H, m),
         Complete(N, H), NEW l \in Seq(Entry), NEW u \in Nat, H[u] # <<>>,
         NEW c \in Nat, Committed(N, H, l, u, c)
  PROVE  /\ Agree(l, H[u], c)
         /\ \A k \in 1..c : H[u][k].term = u => Spread(N, u, k)
<1>1. H \in Books /\ H[u] \in Seq(Entry)
  BY HistoryFacts, BookLogs, ZenonT(30)
<1>2. CASE c = 0
  BY <1>1, <1>2 DEF Agree
<1>3. CASE c # 0
  <2>1. PICK t \in 1..u, n \in Nat : c <= n /\ Chosen(N, H, t, n) /\ Agree(l, H[t], c)
    BY <1>3, ZenonT(30) DEF Committed
  <2>2. t \in Nat /\ t <= u /\ H[t] \in Seq(Entry) /\ Faithful(H, H[t], t)
    BY HistoryFacts, BookLogs
  <2>3. Agree(H[u], H[t], n)
    BY <2>1, <2>2, Zenon DEF Complete
  <2>4. Agree(l, H[u], c)
    BY <1>1, <2>1, <2>2, <2>3 DEF Agree
  <2>5. ASSUME NEW k \in 1..c, H[u][k].term = u PROVE Spread(N, u, k)
    <3>1. k \in 1..n /\ k \in 1..Len(H[t]) /\ H[t][k].term = u
      BY <1>1, <2>1, <2>2, <2>3, <2>5, SMTT(30) DEF Agree
    <3>2. H[t][k].term \in 1..t
      BY <2>2, <3>1, Zenon DEF Faithful
    <3>3. t = u
      BY <2>2, <3>1, <3>2
    <3>4. IsQuorum(Backers(N, u, n))
      BY <2>1, <3>3, ZenonT(30) DEF Chosen
    <3>5. PICK j \in Backers(N, u, n) : TRUE
      <4>1. Backers(N, u, n) \in SUBSET Voter
        BY Zenon DEF Backers
      <4> QED BY <3>4, <4>1, QuorumsMeet, ZenonT(30)
    <3>6. PICK m \in N : Promise(m) /\ m.term = u /\ Reach(m) >= n
      BY Zenon DEF Backers, From
    <3>7. Reach(m) \in Nat
      BY ReachType, Zenon
    <3>8. CASE m.type = "MsgApp"
      <4>1. Reach(m) >= k
        BY <3>1, <3>6, <3>7
      <4> QED BY <3>6, <3>8, <4>1, ZenonT(30) DEF Spread
    <3>9. CASE m.type # "MsgApp"
      <4>1. k \in 1..Reach(m)
        BY <3>1, <3>6, <3>7
      <4> QED BY <2>5, <3>6, <3>9, <4>1, Zenon DEF Told
    <3> QED BY <3>8, <3>9, ZenonT(30)
  <2> QED BY <2>4, <2>5, ZenonT(30)
<1> QED BY <1>2, <1>3, ZenonT(30)

(* What the leader of the term has as far as c, and says is committed, is. *)
LEMMA KnownCommits ==
  ASSUME NEW N \in SUBSET Msg, NEW H \in History, Complete(N, H),
         NEW l \in Seq(Entry), NEW u \in Nat, NEW c \in Nat, NEW d \in Nat, c <= d,
         Known(N, H, u, d), Agree(l, H[u], c)
  PROVE  Committed(N, H, l, u, c)
<1>1. CASE c = 0
  BY <1>1 DEF Committed
<1>2. CASE c # 0
  <2>1. PICK t \in 1..u, n \in Nat : d <= n /\ Chosen(N, H, t, n)
    BY <1>2 DEF Known
  <2>2. t \in Nat /\ t <= u /\ H[t] \in Seq(Entry) /\ H[u] \in Seq(Entry)
    BY HistoryFacts, BookLogs
  <2>3. H[u] # <<>>
    <3>1. c <= Len(H[u])
      BY Zenon DEF Agree
    <3> QED BY <1>2, <2>2, <3>1
  <2>4. Agree(H[u], H[t], n)
    BY <2>1, <2>2, <2>3, ZenonT(30) DEF Complete
  <2>5. c <= n
    BY <2>1
  <2>6. Agree(H[u], H[t], c)
    BY <2>2, <2>4, <2>5, AgreeFacts, ZenonT(30)
  <2>7. Agree(l, H[t], c)
    BY <2>2, <2>6, AgreeFacts
  <2> QED BY <2>1, <2>5, <2>7, ZenonT(30) DEF Committed
<1> QED BY <1>1, <1>2

(* A heartbeat, or a MsgApp from before what is committed.                 *)
LEMMA HearsRec ==
  ASSUME Counting,
         NEW N \in SUBSET Msg, NEW D \in [Server -> StorageType], NEW H \in History,
         \A m \in N : Told(N, H, m), NetInv(N, D), Complete(N, H),
         NEW r, NEW s, NodeInv(N, D, r), RecInv(N, H, r), r.state = "Follower",
         NEW m \in N, m.type \in {"MsgApp", "MsgHeartbeat"}, m.term = r.term,
         m.to = r.id, Hears(r, s, m), ~s.panic
  PROVE  RecInv(N, H, s) /\ Silent(r, s)
<1>1. r \in Node /\ s \in Node /\ s.id = r.id /\ s.term = r.term /\ s.state = "Follower"
  BY Zenon DEF Hears, Mute
<1>2. /\ s.log = r.log
      /\ s.committed = r.committed \/ (m.type = "MsgHeartbeat" /\ s.committed = m.commit)
      /\ \A x \in s.msgs : x \in r.msgs \/ Replies(r, m, x)
  BY ZenonT(30) DEF Hears
<1>3. /\ r.term \in Nat /\ r.log \in Seq(Entry) /\ s.msgs \subseteq Msg
      /\ r.committed \in Nat
  BY <1>1, LogFields
<1>4. /\ Faithful(H, r.log, r.term) /\ Holds(H, Sent(N, r), r.log, r.term)
      /\ Committed(N, H, r.log, r.term, r.committed)
  BY Zenon DEF RecInv
<1>5. Committed(N, H, s.log, s.term, s.committed)
  <2>1. CASE s.committed = r.committed
    BY <1>1, <1>2, <1>4, <2>1, ZenonT(30)
  <2>2. CASE m.type = "MsgHeartbeat" /\ s.committed = m.commit /\ m.commit # 0
    <3>1. m.commit \in Nat
      BY ReachType, Zenon
    <3>2. Known(N, H, r.term, m.commit)
      BY <2>2, Zenon DEF Told
    <3>3. PICK p \in From(N, r.id) :
            Promise(p) /\ p.term = r.term /\ Reach(p) >= m.commit
      BY <2>2, ZenonT(30) DEF Told
    <3>4. p \in Sent(N, r) /\ Reach(p) \in Nat
      BY ReachType, Zenon DEF Sent, From
    <3>5. Has(H, r.log, r.term, m.commit, r.term)
      <4>1. m.commit \in 1..Reach(p)
        BY <2>2, <3>1, <3>3, <3>4, OneUpTo, Zenon
      <4> QED BY <1>4, <3>3, <3>4, <4>1, ZenonT(30) DEF Holds
    <3>6. ~Lost(H, r.term, m.commit, r.term)
      BY <1>3, NotLostYet, Zenon
    <3>7. Agree(r.log, H[r.term], m.commit)
      BY <3>5, <3>6, Zenon DEF Has
    <3>8. Committed(N, H, r.log, r.term, m.commit)
      BY <1>3, <3>1, <3>2, <3>7, OrderFacts, KnownCommits, Zenon
    <3> QED BY <1>1, <1>2, <2>2, <3>8, Zenon
  <2>3. CASE s.committed = 0
    BY <2>3, Zenon DEF Committed
  <2> QED BY <1>2, <2>1, <2>2, <2>3, Zenon
<1>6. ASSUME NEW x \in s.msgs, Replies(r, m, x) PROVE Sound(N, H, s, x)
  <2>1. CASE x.type = "MsgHeartbeatResp" \/ (x.type = "MsgAppResp" /\ x.reject)
    <3>1. ~Promise(x) /\ ~Grant(x) /\ x.type # "MsgApp" /\ x.type # "MsgHeartbeat"
      BY <2>1, Zenon DEF Promise, Grant
    <3> QED BY <3>1, Zenon DEF Sound, Told
  <2>2. CASE m.type = "MsgApp" /\ Acks(r, x, r.committed)
    <3>1. H[r.term] # <<>>
      BY <2>2, Zenon DEF Told
    <3>2. /\ Agree(r.log, H[r.term], r.committed)
          /\ \A k \in 1..r.committed : H[r.term][k].term = r.term => Spread(N, r.term, k)
      BY <1>3, <1>4, <3>1, CommittedTells, Zenon
    <3>3. x \in Msg
      BY <1>3, Zenon
    <3> QED BY <1>1, <1>2, <1>3, <2>2, <3>2, <3>3, AckSound, Zenon
  <2> QED BY <1>6, <2>1, <2>2, Zenon DEF Replies
<1>7. \A g \in Sent(N, r) : Grant(g) => g.term <= s.term
  BY <1>1, VotesBind, Zenon
<1>20. Voiced(N, H, r)
  BY Zenon DEF RecInv
<1> QED BY <1>1, <1>2, <1>4, <1>5, <1>6, <1>7, <1>20, RecMoves, Zenon

(* A MsgApp that is taken.                                                 *)
LEMMA AcceptsRec ==
  ASSUME Counting,
         NEW N \in SUBSET Msg, NEW D \in [Server -> StorageType], NEW H \in History,
         \A m \in N : Told(N, H, m), NetInv(N, D), Complete(N, H),
         NEW r, NEW s, NodeInv(N, D, r), RecInv(N, H, r), r.state = "Follower",
         NEW m \in N, m.type = "MsgApp", m.term = r.term, Accepts(r, s, m), ~s.panic
  PROVE  RecInv(N, H, s) /\ Silent(r, s)
<1> DEFINE u == r.term
<1>1. r \in Node /\ s \in Node /\ s.id = r.id /\ s.term = u /\ s.state = "Follower"
  BY Zenon DEF Accepts, Mute
<1>2. /\ Takes(r, m, s.log)
      /\ \/ s.committed = r.committed
         \/ s.committed <= m.commit /\ s.committed <= m.index + Len(m.entries)
      /\ \A x \in s.msgs : x \in r.msgs \/ Acks(r, x, m.index + Len(m.entries))
  BY Zenon DEF Accepts
<1>3. /\ u \in Nat /\ r.log \in Seq(Entry) /\ s.log \in Seq(Entry) /\ s.msgs \subseteq Msg
      /\ r.committed \in Nat /\ s.committed \in Nat /\ r.msgs \subseteq Msg
  BY <1>1, LogFields, Zenon
<1>4. /\ Faithful(H, r.log, u) /\ Holds(H, Sent(N, r), r.log, u)
      /\ Committed(N, H, r.log, u, r.committed)
  BY Zenon DEF RecInv
<1>5. m \in Msg /\ Reach(m) = m.index + Len(m.entries) /\ Reach(m) \in Nat /\ m.commit \in Nat
  BY ReachType DEF Reach
<1>6. H[u] # <<>> /\ Quotes(m, H[u]) /\ Known(N, H, u, m.commit)
  BY Zenon DEF Told
<1>7. /\ Agree(s.log, H[u], Reach(m)) /\ Faithful(H, s.log, u)
      /\ \A n \in Nat : Agree(r.log, H[u], n) => Agree(s.log, H[u], n)
  BY <1>1, <1>2, <1>3, <1>4, <1>5, <1>6, TakesTells, Zenon
<1>8. H \in Books /\ H[u] \in Seq(Entry)
  BY <1>3, HistoryFacts, BookLogs, Zenon
<1> HIDE DEF u
<1>9. Holds(H, Sent(N, r), s.log, u)
  <2> SUFFICES ASSUME NEW x \in Sent(N, r), Promise(x), NEW n \in 1..Reach(x)
               PROVE  x.term <= u /\ Has(H, s.log, x.term, n, u)
    BY Zenon DEF Holds
  <2>1. x \in Msg /\ Told(N, H, x)
    BY <1>3, Zenon DEF Sent, From, RecInv, Voiced
  <2>2. Reach(x) \in Nat /\ x.term \in Nat /\ n \in Nat /\ H[x.term] \in Seq(Entry)
    BY <1>8, <2>1, ReachType, BookLogs
  <2>3. x.term <= u /\ Has(H, r.log, x.term, n, u)
    BY <1>4, ZenonT(30) DEF Holds
  <2>4. n <= Len(H[x.term])
    BY <1>8, <2>1, ToldReach, Zenon
  <2>5. Has(H, H[u], x.term, n, u)
    BY <1>3, <1>6, <2>2, <2>3, <2>4, LaterHas, Zenon
  <2>6. ASSUME Agree(r.log, H[x.term], n), Agree(H[u], H[x.term], n)
        PROVE  Agree(s.log, H[x.term], n)
    <3>3. Agree(H[x.term], H[u], n)
      BY <1>8, <2>2, <2>6, AgreeFacts, Zenon
    <3>1. Agree(r.log, H[u], n)
      BY <1>3, <1>8, <2>2, <2>6, <3>3, AgreeFacts, Zenon
    <3>2. Agree(s.log, H[u], n)
      BY <1>7, <2>2, <3>1, Zenon
    <3> QED BY <1>3, <1>8, <2>2, <2>6, <3>2, AgreeFacts, Zenon
  <2> QED BY <2>3, <2>5, <2>6, Zenon DEF Has
<1>10. Committed(N, H, s.log, u, s.committed)
  <2>1. CASE s.committed = r.committed
    <3>1. \A n \in 1..Len(r.log) :
            n <= r.committed => n <= Len(s.log) /\ s.log[n] = r.log[n]
      BY <1>2, Zenon DEF Takes
    <3>2. r.committed <= Len(r.log) => Agree(s.log, r.log, r.committed)
      BY <1>3, <3>1, AgreeUpTo, Zenon
    <3>3. Grown(H, H)
      BY <1>8, GrownSelf, Zenon
    <3>4. N \subseteq N /\ u <= u /\ r.committed <= r.committed
      BY <1>3, OrderFacts, Zenon
    <3>5. Committed(N, H, s.log, u, r.committed)
      BY <1>3, <1>4, <1>8, <3>2, <3>3, <3>4, CommittedGrows, Zenon
    <3> QED BY <2>1, <3>5, Zenon
  <2>2. CASE s.committed <= m.commit /\ s.committed <= Reach(m)
    <3>1. Agree(s.log, H[u], s.committed)
      BY <1>3, <1>5, <1>7, <1>8, <2>2, AgreeFacts, Zenon
    <3> QED BY <1>3, <1>5, <1>6, <2>2, <3>1, KnownCommits, Zenon
  <2> QED BY <1>2, <1>5, <2>1, <2>2, Zenon
<1>11. ASSUME NEW x \in s.msgs, Acks(r, x, Reach(m)) PROVE Sound(N, H, s, x)
  <2>1. \A k \in 1..Reach(m) : Spread(N, u, k)
    BY <1>5, UpToTop, Zenon DEF Spread, u
  <2>2. x \in Msg
    BY <1>3, Zenon
  <2> QED BY <1>1, <1>5, <1>7, <1>11, <2>1, <2>2, AckSound, ZenonT(30) DEF u
<1>12. \A g \in Sent(N, r) : Grant(g) => g.term <= s.term
  BY <1>1, VotesBind DEF u
<1>20. Voiced(N, H, r)
  BY Zenon DEF RecInv
<1>13. /\ s.term = r.term /\ s.state = "Follower" /\ Faithful(H, s.log, s.term)
       /\ Holds(H, Sent(N, r), s.log, s.term) /\ Committed(N, H, s.log, s.term, s.committed)
  BY <1>1, <1>7, <1>9, <1>10, Zenon DEF u
<1>14. \A x \in s.msgs : x \in r.msgs \/ Sound(N, H, s, x)
  BY <1>2, <1>5, <1>11, Zenon
<1> QED BY <1>1, <1>12, <1>13, <1>14, <1>20, RecMoves, Zenon

(* What a move that does not make history does to a record.                *)
LEMMA StayRec ==
  ASSUME Counting, NEW N, NEW D, NEW R, NEW H, World(N, D, R), Records(N, D, R, H),
         NEW i \in Server, NEW s, Move(N, R[i], s), ~s.panic,
         ~(R[i].state = "Leader" /\ Quiet(R[i], s)),
         ~(R[i].state = "Candidate" /\ Wins(R[i], s))
  PROVE  RecInv(N, H, s) /\ Silent(R[i], s)
<1> DEFINE r == R[i]
<1>1. /\ N \in SUBSET Msg /\ D \in [Server -> StorageType] /\ NetInv(N, D)
      /\ NodeInv(N, D, r) /\ r \in Node /\ \A k \in Server : R[k].id = k
  BY Zenon DEF World
<1>2. H \in History /\ (\A m \in N : Told(N, H, m)) /\ RecInv(N, H, r)
  BY Zenon DEF Records
<1>3. Complete(N, H)
  BY <1>1, ChosenStays, Zenon
<1>4. r.term \in Nat
  BY <1>1, LogFields, Zenon
<1> HIDE DEF r
<1>5. CASE Quiet(r, s)
  BY <1>1, <1>2, <1>5, QuietRec, Zenon DEF r
<1>6. ASSUME r.state = "Follower", NEW m \in N, Heeds(r, s, m)
      PROVE  RecInv(N, H, s) /\ Silent(r, s)
  <2>1. m.type \in {"MsgApp", "MsgHeartbeat"} /\ m.term = r.term /\ m.to = r.id
    BY <1>6, Zenon DEF Heeds
  <2>2. CASE Hears(r, s, m)
    BY <1>1, <1>2, <1>3, <1>6, <2>1, <2>2, HearsRec, Zenon
  <2>3. CASE m.type = "MsgApp" /\ Accepts(r, s, m)
    BY <1>1, <1>2, <1>3, <1>6, <2>1, <2>3, AcceptsRec, Zenon
  <2> QED BY <1>6, <2>2, <2>3, Zenon DEF Heeds
<1>7. ASSUME r.state = "Leader", NEW m \in N, Counts(r, s, m)
      PROVE  RecInv(N, H, s) /\ Silent(r, s)
  BY <1>1, <1>2, <1>7, CountsRec, Zenon
<1>8. ASSUME NEW t \in Nat, t >= r.term, Follows(r, s, t)
      PROVE  RecInv(N, H, s) /\ Silent(r, s)
  <2>1. /\ s \in Node /\ s.id = r.id /\ SameLog(r, s) /\ s.msgs = r.msgs
        /\ s.state = "Follower" /\ s.term >= r.term
    BY <1>8, Zenon DEF Follows
  <2> QED BY <1>1, <1>2, <2>1, RoleRec, Zenon
<1>9. CASE Explores(r, s)
  <2>1. /\ s \in Node /\ s.id = r.id /\ SameLog(r, s) /\ s.msgs = r.msgs
        /\ s.state # "Leader" /\ s.state # "Candidate" /\ s.term >= r.term
    BY <1>4, <1>9, OrderFacts, Zenon DEF Explores
  <2>2. RecInv(N, H, s) /\ Silent(r, s)
    BY <1>1, <1>2, <2>1, RoleRec, ZenonT(30)
  <2> QED BY <2>2, ZenonT(30) DEF r
<1>12. CASE Stands(r, s)
  <2>1. /\ s \in Node /\ s.id = r.id /\ SameLog(r, s) /\ s.msgs = r.msgs
        /\ s.state # "Leader" /\ s.term >= r.term /\ s.term > r.term
    BY <1>4, <1>12, OrderFacts, Zenon DEF Stands
  <2>2. RecInv(N, H, s) /\ Silent(r, s)
    BY <1>1, <1>2, <2>1, RoleRec, Zenon
  <2> QED BY <2>2, Zenon DEF r
<1>10. ASSUME NEW k, NEW granted, Polls(r, s, k, granted), r.state # "Leader"
       PROVE  RecInv(N, H, s) /\ Silent(r, s)
  <2>1. /\ s \in Node /\ s.id = r.id /\ SameLog(r, s) /\ s.msgs = r.msgs
        /\ s.state = r.state /\ s.term >= r.term
    BY <1>4, <1>10, OrderFacts, Zenon DEF Polls
  <2>2. s.state # "Leader" /\ (s.state = "Candidate" => r.state = "Candidate")
    BY <1>10, <2>1, Zenon
  <2> QED BY <1>1, <1>2, <2>1, <2>2, RoleRec, ZenonT(30)
<1>11. ASSUME NEW c \in Server, Asked(N, r, c), Casts(r, s, c, r.term)
       PROVE  RecInv(N, H, s) /\ Silent(r, s)
  BY <1>1, <1>2, <1>11, CastsRec, Zenon
<1> QED BY <1>5, <1>6, <1>7, <1>8, <1>9, <1>10, <1>11, <1>12, Zenon DEF Move, r
-----------------------------------------------------------------------------
(* What the history says of the logs                                       *)

(* The first c entries of l, if k has them too.                            *)
LEMMA AgreePrefix ==
  ASSUME NEW l \in Seq(Entry), NEW k \in Seq(Entry), NEW c \in Nat, Agree(l, k, c)
  PROVE  Prefix(SubSeq(l, 1, c), k) /\ SubSeq(l, 1, c) = SubSeq(k, 1, c)
<1>1. c <= Len(l) /\ c <= Len(k) /\ \A x \in 1..c : l[x] = k[x]
  BY DEF Agree
<1>2. SubSeq(l, 1, c) = SubSeq(k, 1, c)
  BY <1>1
<1>3. Len(SubSeq(l, 1, c)) = c
  BY <1>1
<1> QED BY <1>1, <1>2, <1>3, ZenonT(30) DEF Prefix

(* The shorter of two prefixes of a log is a prefix of the longer.         *)
LEMMA PrefixesNest ==
  ASSUME NEW k \in Seq(Entry), NEW c \in Nat, NEW d \in Nat, c <= d, d <= Len(k)
  PROVE  Prefix(SubSeq(k, 1, c), SubSeq(k, 1, d))
<1> DEFINE a == SubSeq(k, 1, c)
           b == SubSeq(k, 1, d)
<1>1. /\ a \in Seq(Entry) /\ Len(a) = c /\ \A x \in 1..c : a[x] = k[x]
      /\ b \in Seq(Entry) /\ Len(b) = d /\ \A x \in 1..d : b[x] = k[x]
  OBVIOUS
<1> HIDE DEF a, b
<1>2. SubSeq(b, 1, c) = a
  BY <1>1
<1>3. Prefix(a, b)
  BY <1>1, <1>2, Zenon DEF Prefix
<1> QED BY <1>3 DEF a, b

(* Nothing is a prefix of everything.                                      *)
LEMMA NothingPrefix ==
  ASSUME NEW l \in Seq(Entry), NEW k \in Seq(Entry) PROVE Prefix(SubSeq(l, 1, 0), k)
<1>1. SubSeq(l, 1, 0) = <<>> /\ SubSeq(k, 1, 0) = <<>>
  OBVIOUS
<1> QED BY <1>1 DEF Prefix

(* What a history is good for.                                             *)
LEMMA HistoryTells ==
  ASSUME Counting, HistoryInv
  PROVE  /\ network \in SUBSET Msg /\ storage \in [Server -> StorageType]
         /\ raft \in [Server -> Node]
         /\ \E H \in History :
              /\ \A j \in Server : /\ RecInv(network, H, raft[j])
                                   /\ DiskInv(network, H, j, storage[j])
              /\ Complete(network, H)
<1>1. PICK H : Records(network, storage, raft, H)
  BY DEF HistoryInv
<1>2. World(network, storage, raft)
  BY ElectionWorld, Zenon DEF HistoryInv
<1>3. \A j \in Server : raft[j].id = j
  BY <1>2, Zenon DEF World
<1>4. Complete(network, H)
  BY <1>1, <1>3, ChosenStays, ZenonT(30)
<1>5. /\ network \in SUBSET Msg /\ storage \in [Server -> StorageType]
      /\ raft \in [Server -> Node]
  BY <1>2, Zenon DEF World
<1> QED BY <1>1, <1>4, <1>5, ZenonT(30) DEF Records

(* What was committed up to the term of a leader is in its log.            *)
LEMMA CommittedInLater ==
  ASSUME NEW N, NEW H \in History, Complete(N, H), NEW l \in Seq(Entry),
         NEW T \in Nat, NEW c \in Nat, Committed(N, H, l, T, c),
         NEW u \in Nat, T <= u, H[u] # <<>>
  PROVE  c # 0 => Agree(l, H[u], c)
<1> SUFFICES ASSUME c # 0 PROVE Agree(l, H[u], c)
  BY Zenon
<1>1. PICK t \in 1..T, n \in Nat : c <= n /\ Chosen(N, H, t, n) /\ Agree(l, H[t], c)
  BY Zenon DEF Committed
<1>2. t \in Nat /\ t <= u
  OBVIOUS
<1>3. Agree(H[u], H[t], n)
  BY <1>1, <1>2, Zenon DEF Complete
<1> QED BY <1>1, <1>3 DEF Agree

(* What two nodes have committed is in the log of one leader.              *)
LEMMA CommittedInOne ==
  ASSUME NEW N, NEW H \in History, Complete(N, H),
         NEW l \in Seq(Entry), NEW T \in Nat, NEW c \in Nat, Committed(N, H, l, T, c),
         NEW k \in Seq(Entry), NEW U \in Nat, NEW d \in Nat, Committed(N, H, k, U, d),
         c # 0, d # 0
  PROVE  \E u \in Nat : Agree(l, H[u], c) /\ Agree(k, H[u], d)
<1>1. PICK t \in 1..T, n \in Nat : c <= n /\ Chosen(N, H, t, n) /\ Agree(l, H[t], c)
  BY Zenon DEF Committed
<1>2. PICK v \in 1..U, m \in Nat : d <= m /\ Chosen(N, H, v, m) /\ Agree(k, H[v], d)
  BY Zenon DEF Committed
<1>3. t \in Nat /\ v \in Nat /\ H[t] \in Seq(Entry) /\ H[v] \in Seq(Entry)
  BY HistoryFacts, BookLogs, SMTT(30)
<1>4. n \in 1..Len(H[t]) /\ m \in 1..Len(H[v])
  BY <1>1, <1>2, Zenon DEF Chosen
<1>5. H[t] # <<>> /\ H[v] # <<>>
  BY <1>3, <1>4
<1>6. CASE t <= v
  <2>1. Agree(H[v], H[t], n)
    BY <1>1, <1>3, <1>5, <1>6, Zenon DEF Complete
  <2>2. Agree(l, H[v], c)
    BY <1>1, <2>1, SMTT(40) DEF Agree
  <2> QED BY <1>2, <1>3, <2>2, Zenon
<1>7. CASE v <= t
  <2>1. Agree(H[t], H[v], m)
    BY <1>2, <1>3, <1>5, <1>7 DEF Complete
  <2>2. Agree(k, H[t], d)
    BY <1>2, <2>1 DEF Agree
  <2> QED BY <1>1, <1>3, <2>2
<1> QED BY <1>3, <1>6, <1>7

(* Everybody is a quorum.                                                  *)
LEMMA EverybodyIsQuorum == ASSUME Counting, Cardinality(Voter) > 1 PROVE IsQuorum(Voter)
<1>1. Voter \cap Voter = Voter /\ Cardinality(Voter) \in Nat
  BY VoterCount, Zenon
<1> QED BY <1>1 DEF IsQuorum

(* What is chosen is not lost.                                             *)
LEMMA ChosenNotLost ==
  ASSUME NEW N, NEW H \in History, Complete(N, H), NEW t \in Nat, NEW n \in Nat,
         Chosen(N, H, t, n), NEW x \in Nat
  PROVE  ~Lost(H, t, n, x)
<1> SUFFICES ASSUME Lost(H, t, n, x) PROVE FALSE
  BY Zenon
<1>1. PICK u \in t + 1..x : \E k \in 1..n : k <= Len(H[u]) /\ H[u][k] # H[t][k]
  BY Zenon DEF Lost
<1>2. PICK k \in 1..n : k <= Len(H[u]) /\ H[u][k] # H[t][k]
  BY <1>1, Zenon
<1>3. u \in Nat /\ t <= u
  OBVIOUS
<1>4. H[u] # <<>>
  BY <1>2
<1>5. Agree(H[u], H[t], n)
  BY <1>3, <1>4, Zenon DEF Complete
<1> QED BY <1>2, <1>5, Zenon DEF Agree

(* Who has promised to hold it has saved it.                               *)
LEMMA BackersSaved ==
  ASSUME NEW N \in SUBSET Msg, NEW H \in History, Complete(N, H),
         NEW t \in Nat, NEW n \in Nat, Chosen(N, H, t, n),
         NEW j \in Backers(N, t, n), NEW e \in StorageType, DiskInv(N, H, j, e)
  PROVE  Agree(e.log, H[t], n)
<1>1. PICK m \in From(N, j) : Promise(m) /\ m.term = t /\ Reach(m) >= n
  BY DEF Backers
<1>2. Reach(m) \in Nat
  BY <1>1, ReachType, ZenonT(30) DEF From
<1>3. n \in 1..Reach(m)
  BY <1>1, <1>2 DEF Chosen
<1>4. Has(H, e.log, t, n, e.hardState.term)
  BY <1>1, <1>3, Zenon DEF DiskInv, Holds
<1>5. e.hardState.term \in Nat
  BY DEF StorageType
<1>6. ~Lost(H, t, n, e.hardState.term)
  BY <1>5, ChosenNotLost, Zenon
<1> QED BY <1>4, <1>6, Zenon DEF Has

(* So the logs agree on what is committed.                                 *)
LEMMA HistoryAgrees == ASSUME Counting, HistoryInv PROVE StateMachineSafety
<1> SUFFICES ASSUME NEW i \in Server, NEW j \in Server
             PROVE  \/ Prefix(CommittedLog(i), CommittedLog(j))
                    \/ Prefix(CommittedLog(j), CommittedLog(i))
  BY DEF StateMachineSafety
<1> DEFINE l == raft[i].log
           k == raft[j].log
           c == raft[i].committed
           d == raft[j].committed
<1>1. raft \in [Server -> Node]
  BY HistoryTells, Zenon
<1>2. PICK H \in History : /\ \A x \in Server : RecInv(network, H, raft[x])
                           /\ Complete(network, H)
  BY HistoryTells, Zenon
<1>3. /\ l \in Seq(Entry) /\ c \in Nat /\ raft[i].term \in Nat
      /\ k \in Seq(Entry) /\ d \in Nat /\ raft[j].term \in Nat
  BY <1>1, LogFields, Zenon
<1>4. /\ Committed(network, H, l, raft[i].term, c)
      /\ Committed(network, H, k, raft[j].term, d)
  BY <1>2, Zenon DEF RecInv
<1>5. c <= Len(l) /\ d <= Len(k)
  BY <1>3, <1>4 DEF Committed, Agree
<1>6. CommittedLog(i) = SubSeq(l, 1, c) /\ CommittedLog(j) = SubSeq(k, 1, d)
  BY Zenon DEF CommittedLog
<1>7. SubSeq(l, 1, c) \in Seq(Entry) /\ SubSeq(k, 1, d) \in Seq(Entry)
  BY <1>3, <1>5
<1> HIDE DEF l, k, c, d
<1>8. CASE c = 0
  <2>1. Prefix(SubSeq(l, 1, c), SubSeq(k, 1, d))
    BY <1>3, <1>7, <1>8, NothingPrefix, Zenon
  <2> QED BY <1>6, <2>1
<1>9. CASE d = 0
  <2>1. Prefix(SubSeq(k, 1, d), SubSeq(l, 1, c))
    BY <1>3, <1>7, <1>9, NothingPrefix, Zenon
  <2> QED BY <1>6, <2>1
<1>10. CASE c # 0 /\ d # 0
  <2>1. PICK u \in Nat : Agree(l, H[u], c) /\ Agree(k, H[u], d)
    BY <1>2, <1>3, <1>4, <1>10, CommittedInOne, Zenon
  <2>2. H[u] \in Seq(Entry)
    BY HistoryFacts, BookLogs
  <2>3. CommittedLog(i) = SubSeq(H[u], 1, c) /\ CommittedLog(j) = SubSeq(H[u], 1, d)
    BY <1>3, <1>6, <2>1, <2>2, AgreePrefix, Zenon
  <2>4. c <= Len(H[u]) /\ d <= Len(H[u]) /\ (c <= d \/ d <= c)
    BY <1>3, <2>1, SMTT(30) DEF Agree
  <2> QED BY <1>3, <2>2, <2>3, <2>4, PrefixesNest, Zenon
<1> QED BY <1>8, <1>9, <1>10, Zenon

(* Leaders have what is committed.                                         *)
LEMMA HistoryCompletes == ASSUME Counting, HistoryInv PROVE LeaderCompleteness
<1> SUFFICES ASSUME NEW i \in Server, NEW j \in Server,
                    raft[i].state = "Leader", raft[j].term <= raft[i].term
             PROVE  Prefix(CommittedLog(j), raft[i].log)
  BY DEF LeaderCompleteness
<1> DEFINE k == raft[j].log
           d == raft[j].committed
           T == raft[i].term
<1>1. raft \in [Server -> Node]
  BY HistoryTells, Zenon
<1>2. PICK H \in History : /\ \A x \in Server : RecInv(network, H, raft[x])
                           /\ Complete(network, H)
  BY HistoryTells, Zenon
<1>3. /\ raft[i].log \in Seq(Entry) /\ T \in Nat
      /\ k \in Seq(Entry) /\ d \in Nat /\ raft[j].term \in Nat
  BY <1>1, LogFields
<1>4. /\ Committed(network, H, k, raft[j].term, d)
      /\ raft[i].log = H[T] /\ H[T] # <<>>
  BY <1>2, Zenon DEF RecInv, Reigns
<1>5. raft[j].term <= T /\ CommittedLog(j) = SubSeq(k, 1, d)
  BY DEF CommittedLog
<1> HIDE DEF k, d, T
<1>6. d # 0 => Agree(k, raft[i].log, d)
  BY <1>2, <1>3, <1>4, <1>5, CommittedInLater, ZenonT(30)
<1>7. d = 0 => Prefix(SubSeq(k, 1, d), raft[i].log)
  BY <1>3, NothingPrefix, Zenon
<1> QED BY <1>3, <1>5, <1>6, <1>7, AgreePrefix, ZenonT(30)

(* A quorum has saved what is committed.                                   *)
LEMMA HistoryEndures == ASSUME Counting, HistoryInv, Cardinality(Voter) > 1 PROVE CommitIsDurable
<1> SUFFICES ASSUME NEW i \in Server
             PROVE  IsQuorum({j \in Voter :
                      Prefix(SubSeq(storage[i].log, 1, storage[i].hardState.commit),
                             storage[j].log)})
  BY DEF CommitIsDurable
<1> DEFINE l == storage[i].log
           c == storage[i].hardState.commit
           Q == {j \in Voter : Prefix(SubSeq(l, 1, c), storage[j].log)}
<1>1. storage \in [Server -> StorageType] /\ Voter \subseteq Server
      /\ network \in SUBSET Msg
  BY HistoryTells, Zenon DEF Server
<1>2. PICK H \in History : /\ \A x \in Server : DiskInv(network, H, x, storage[x])
                           /\ Complete(network, H)
  BY HistoryTells, Zenon
<1>3. \A j \in Server : storage[j].log \in Seq(Entry) /\ storage[j].hardState.commit \in Nat
                        /\ storage[j].hardState.term \in Nat
  BY <1>1, Zenon DEF StorageType
<1>4. l \in Seq(Entry) /\ c \in Nat
  BY <1>3, ZenonT(30)
<1>5. Committed(network, H, l, storage[i].hardState.term, c)
  BY <1>2 DEF DiskInv
<1> HIDE DEF l, c
<1>6. CASE c = 0
  <2>1. \A j \in Voter : Prefix(SubSeq(l, 1, 0), storage[j].log)
    BY <1>1, <1>3, <1>4, NothingPrefix
  <2>2. Q = Voter
    BY <1>6, <2>1
  <2> QED BY <2>2, EverybodyIsQuorum, Zenon DEF l, c
<1>7. CASE c # 0
  <2>1. PICK t \in 1..storage[i].hardState.term, n \in Nat :
          c <= n /\ Chosen(network, H, t, n) /\ Agree(l, H[t], c)
    BY <1>5, <1>7 DEF Committed
  <2>2. t \in Nat /\ IsQuorum(Backers(network, t, n))
    BY <1>3, <2>1 DEF Chosen
  <2>3. ASSUME NEW j \in Backers(network, t, n) PROVE j \in Q
    <3>1. j \in Voter /\ j \in Server
      BY <1>1 DEF Backers
    <3>2. storage[j] \in StorageType /\ DiskInv(network, H, j, storage[j])
      BY <1>1, <1>2, <3>1, ZenonT(30)
    <3>3. Agree(storage[j].log, H[t], n)
      BY <1>1, <1>2, <2>1, <2>2, <3>2, BackersSaved, ZenonT(30)
    <3>4. Agree(l, storage[j].log, c)
      BY <1>4, <2>1, <3>3 DEF Agree
    <3>5. Prefix(SubSeq(l, 1, c), storage[j].log)
      BY <1>3, <1>4, <3>1, <3>4, AgreePrefix, ZenonT(30)
    <3> QED BY <3>1, <3>5, ZenonT(30)
  <2>4. Backers(network, t, n) \in SUBSET Voter
    BY DEF Backers
  <2>5. IsQuorum(Q)
    <3>1. Q \in SUBSET Voter /\ Backers(network, t, n) \subseteq Q
      BY <2>3, Zenon
    <3> HIDE DEF Q
    <3> QED BY <2>2, <2>4, <3>1, QuorumGrows, ZenonT(30)
  <2> QED BY <2>5 DEF l, c
<1> QED BY <1>6, <1>7, ZenonT(30)

(* What a leader counts as acknowledged is saved.                          *)
LEMMA HistoryMatches == ASSUME Counting, HistoryInv PROVE MatchIsDurable
<1> SUFFICES ASSUME NEW i \in Server, NEW j \in Server,
                    raft[i].state = "Leader", i # j,
                    storage[j].hardState.term <= raft[i].term
             PROVE  Prefix(SubSeq(raft[i].log, 1, raft[i].prs[j].match), storage[j].log)
  BY Zenon DEF MatchIsDurable
<1> DEFINE T == raft[i].term
           n == raft[i].prs[j].match
           e == storage[j]
<1>1. /\ storage \in [Server -> StorageType] /\ raft \in [Server -> Node]
      /\ network \in SUBSET Msg
  BY HistoryTells, Zenon
<1>2. PICK H \in History : \A x \in Server : /\ RecInv(network, H, raft[x])
                                             /\ DiskInv(network, H, x, storage[x])
  BY HistoryTells, Zenon
<1>3. raft[i].log \in Seq(Entry) /\ T \in Nat
  BY <1>1, LogFields, Zenon
<1>4. raft[i].prs[j] \in ProgressType
  BY <1>1, LogFields, ZenonT(30)
<1>5. n \in Nat
  BY <1>4 DEF ProgressType
<1>6. raft[i].id = i
  BY ElectionWorld DEF HistoryInv, World
<1>7. e.log \in Seq(Entry) /\ e.hardState.term \in Nat /\ e.hardState.term <= T
  BY <1>1 DEF StorageType
<1>8. raft[i].log = H[T] /\ Acked(network, raft[i])
  BY <1>2, Zenon DEF RecInv, Reigns
<1>9. \/ n = 0
      \/ \E m \in From(network, j) : Promise(m) /\ m.term = T /\ Reach(m) >= n
  BY <1>6, <1>8, Zenon DEF Acked
<1>10. Holds(H, From(network, j), e.log, e.hardState.term)
  BY <1>2, Zenon DEF DiskInv
<1> HIDE DEF T, n, e
<1>11. CASE n = 0
  BY <1>3, <1>7, <1>11, NothingPrefix, Zenon DEF n, e
<1>12. CASE n # 0
  <2>1. PICK m \in From(network, j) : Promise(m) /\ m.term = T /\ Reach(m) >= n
    BY <1>9, <1>12, Zenon
  <2>2. Reach(m) \in Nat
    BY <1>1, <2>1, ReachType, Zenon DEF From
  <2>3. n \in 1..Reach(m)
    BY <1>5, <1>12, <2>1, <2>2
  <2>4. T <= e.hardState.term /\ Has(H, e.log, T, n, e.hardState.term)
    BY <1>10, <2>1, <2>3, Zenon DEF Holds
  <2>5. e.hardState.term = T
    BY <1>3, <1>7, <2>4
  <2>6. ~Lost(H, T, n, T)
    BY <1>3 DEF Lost
  <2>7. Agree(e.log, raft[i].log, n)
    BY <1>8, <2>4, <2>5, <2>6, ZenonT(30) DEF Has
  <2>8. Agree(raft[i].log, e.log, n)
    BY <2>7 DEF Agree
  <2> QED BY <1>3, <1>5, <1>7, <2>8, AgreePrefix, Zenon DEF n, e
<1> QED BY <1>11, <1>12, Zenon
=============================================================================
