----------------------------- MODULE Histories ------------------------------
(* The history that the proof of commitment is about: H[t] is the log of   *)
(* the leader of term t as far as it has come, <<>> if nobody has led t.   *)
(* Every log is made of pieces of the history.  A promise, that is a       *)
(* MsgApp or its acknowledgement, says of its sender that it has the log   *)
(* of the leader up to some entry; it has it until a later leader          *)
(* overwrites it.  Who votes does so with all its promises in its log, so  *)
(* that a new leader, who has the votes of a quorum, has what a quorum has *)
(* promised to hold.                                                       *)
(*                                                                         *)
(* N stands for the network, D for the storages, R for the records.        *)
EXTENDS Moves

(* l and k have n entries at least, and the same ones.                     *)
Agree(l, k, n) == n <= Len(l) /\ n <= Len(k) /\ \A x \in 1..n : l[x] = k[x]

(* Each entry of l was made by the leader of its term, after what comes    *)
(* before it in l.                                                         *)
Faithful(H, l, t) ==
  \A n \in 1..Len(l) : l[n].term \in 1..t /\ Agree(l, H[l[n].term], n)

(* The logs of the leaders, term by term.                                  *)
Books == [Nat -> Seq(Entry)]

(* A leader's first step is to append an entry of its term.                *)
History ==
  {H \in Books :
     \A t \in Nat : /\ Faithful(H, H[t], t)
                    /\ H[t] # <<>> => H[t][Len(H[t])].term = t}

(* Leaders append.                                                         *)
Grown(H, G) ==
  \A t \in Nat : /\ Len(H[t]) <= Len(G[t])
                 /\ \A n \in 1..Len(H[t]) : G[t][n] = H[t][n]

(* Some leader after t, of a term up to x, has other entries than the      *)
(* first n of the leader of t.                                             *)
Lost(H, t, n, x) ==
  \E u \in t + 1..x : \E k \in 1..n : k <= Len(H[u]) /\ H[u][k] # H[t][k]

(* The log l has the first n entries of the leader of t, unless they were  *)
(* lost up to x.                                                           *)
Has(H, l, t, n, x) == Agree(l, H[t], n) \/ Lost(H, t, n, x)
-----------------------------------------------------------------------------
(* The sender of m says that it has the log of the leader of m.term up to  *)
(* Reach(m).                                                               *)
Promise(m) == m.type = "MsgApp" \/ (m.type = "MsgAppResp" /\ ~m.reject)

Reach(m) == IF m.type = "MsgApp" THEN m.index + Len(m.entries) ELSE m.index

(* What j has sent, and what the node r has sent or is about to.           *)
From(N, j) == {m \in N : m.from = j}

Sent(N, r) == From(N \cup r.msgs, r.id)

(* Nobody promises more than there is.                                     *)
Within(H, M) == \A m \in M : Promise(m) => Reach(m) <= Len(H[m.term])

(* A log of the term T keeps the promises of M.                            *)
Holds(H, M, l, T) ==
  \A m \in M : Promise(m) =>
    \A n \in 1..Reach(m) : m.term <= T /\ Has(H, l, m.term, n, T)

(* The leader of t has what was promised to earlier leaders about entries  *)
(* of their terms.                                                         *)
Yields(H, M, t) ==
  \A m \in M : Promise(m) /\ m.term < t =>
    \A n \in 1..Reach(m) :
      H[m.term][n].term = m.term => Has(H, H[t], m.term, n, t - 1)

(* The voters who have promised the leader of t to hold entry n.           *)
Backers(N, t, n) ==
  {j \in Voter : \E m \in From(N, j) : Promise(m) /\ m.term = t /\ Reach(m) >= n}

(* A quorum has, and n is an entry of the term t.                          *)
Chosen(N, H, t, n) ==
  n \in 1..Len(H[t]) /\ H[t][n].term = t /\ IsQuorum(Backers(N, t, n))

(* Up to c everything is chosen, by a term up to T, ...                    *)
Known(N, H, T, c) ==
  c = 0 \/ \E t \in 1..T, n \in Nat : c <= n /\ Chosen(N, H, t, n)

(* ... and the log l has it.                                               *)
Committed(N, H, l, T, c) ==
  c = 0 \/ \E t \in 1..T, n \in Nat :
             c <= n /\ Chosen(N, H, t, n) /\ Agree(l, H[t], c)

(* The leader of t has sent its entry n.                                   *)
Spread(N, t, n) ==
  \E a \in N : a.type = "MsgApp" /\ a.term = t /\ Reach(a) >= n

(* What a message tells is so.                                             *)
Told(N, H, m) ==
  /\ m.type = "MsgApp" =>
       /\ H[m.term] # <<>> /\ Quotes(m, H[m.term])
       /\ Known(N, H, m.term, m.commit)
  /\ m.type = "MsgHeartbeat" =>
       /\ Known(N, H, m.term, m.commit)
       /\ m.commit = 0 \/ \E p \in From(N, m.to) :
                            Promise(p) /\ p.term = m.term /\ Reach(p) >= m.commit
  /\ Promise(m) => Reach(m) <= Len(H[m.term])
  /\ m.type # "MsgApp" /\ Promise(m) =>
       \A n \in 1..Reach(m) :
         H[m.term][n].term = m.term => Spread(N, m.term, n)

(* The candidate who sent v is as up to date as entry n of the leader of t. *)
UpTo(v, t, n) == v.logterm > t \/ (v.logterm = t /\ v.index >= n)

(* The vote g, of the sender of M, went to a candidate that has what M     *)
(* promises, as far as it is not lost.  It matters as long as nobody leads *)
(* the term of g.                                                          *)
Backed(N, H, M, g) ==
  H[g.term] = <<>> =>
    \E v \in From(N, g.to) :
      /\ v.type = "MsgVote" /\ v.term = g.term
      /\ \A m \in M : Promise(m) /\ m.term < g.term =>
           \A n \in 1..Reach(m) :
             H[m.term][n].term = m.term =>
               UpTo(v, m.term, n) \/ Lost(H, m.term, n, g.term - 1)
-----------------------------------------------------------------------------
(* A candidate asks for votes for the log it has.                          *)
Asks(r, M) ==
  \A m \in M : m.type = "MsgVote" /\ m.term = r.term =>
    m.index = Len(r.log) /\ m.logterm = lastTerm(r)

(* A leader knows of others what they have acknowledged.                   *)
Acked(N, r) ==
  \A j \in Server \ {r.id} :
    \/ r.prs[j].match = 0
    \/ \E m \in From(N, j) : /\ m.type # "MsgApp" /\ Promise(m) /\ m.term = r.term
                             /\ Reach(m) >= r.prs[j].match

(* Its log is that of the history.                                         *)
Reigns(N, H, r) ==
  r.log = H[r.term] /\ r.log # <<>> /\ Fits(r) /\ Acked(N, r)

(* What r is about to send is so, and its votes are backed.                *)
Voiced(N, H, r) ==
  /\ \A m \in r.msgs : Told(N, H, m)
  /\ \A g \in Sent(N, r) : Grant(g) => Backed(N, H, Sent(N, r), g)

(* What the record r of a node says is so.                                 *)
RecInv(N, H, r) ==
  /\ Faithful(H, r.log, r.term)
  /\ Holds(H, Sent(N, r), r.log, r.term)
  /\ Committed(N, H, r.log, r.term, r.committed)
  /\ Voiced(N, H, r)
  /\ r.state = "Candidate" => Asks(r, Sent(N, r))
  /\ r.state = "Leader" => Reigns(N, H, r)

(* What the node j has saved, d, does for what it has sent.                *)
DiskInv(N, H, j, d) ==
  /\ Faithful(H, d.log, d.hardState.term)
  /\ Holds(H, From(N, j), d.log, d.hardState.term)
  /\ Committed(N, H, d.log, d.hardState.term, d.hardState.commit)

(* Whoever has led t was elected by a quorum that will promise nothing to  *)
(* earlier leaders any more, and has what it has promised them.            *)
TermInv(N, D, R, H, t) ==
  H[t] # <<>> =>
    /\ Safe(N, D, R, t)
    /\ \E Q \in SUBSET Voter :
         /\ IsQuorum(Q)
         /\ \A j \in Q : D[j].hardState.term >= t /\ Yields(H, Sent(N, R[j]), t)

(* H is a history of the world.                                            *)
Records(N, D, R, H) ==
  /\ H \in History
  /\ \A m \in N : Told(N, H, m)
  /\ \A j \in Server : RecInv(N, H, R[j]) /\ DiskInv(N, H, j, D[j])
  /\ \A t \in Nat : TermInv(N, D, R, H, t)

(* The invariant of commitment: the logs of the leaders make a history.    *)
HistoryInv == ElectionInv /\ \E H : Records(network, storage, raft, H)
-----------------------------------------------------------------------------
(* What is chosen is in the log of every later leader.                     *)
Complete(N, H) ==
  \A t, u, n \in Nat : Chosen(N, H, t, n) /\ t <= u /\ H[u] # <<>> => Agree(H[u], H[t], n)

(* A message s may send: what it tells is so, what it promises s has, and  *)
(* a vote it grants is backed.                                             *)
Sound(N, H, s, x) ==
  /\ Told(N, H, x)
  /\ Promise(x) /\ Reach(x) # 0 =>
       x.term = s.term /\ Agree(s.log, H[s.term], Reach(x))
  /\ Grant(x) => Backed(N, H, Sent(N, s), x)

(* A message that s has and r has not promises nothing to earlier leaders. *)
Silent(r, s) ==
  \A x \in s.msgs : x \in r.msgs \/ ~Promise(x) \/ Reach(x) = 0 \/ x.term = r.term

(* H with l for the log of the leader of T.                                *)
Amended(H, T, l) == [H EXCEPT ![T] = l]

(* l is k with entries of T after it, and ends with one.                   *)
Prolongs(k, l, T) ==
  /\ Len(k) <= Len(l)
  /\ \A n \in 1..Len(k) : l[n] = k[n]
  /\ \A n \in Len(k) + 1..Len(l) : l[n].term = T
  /\ l # <<>> /\ l[Len(l)].term = T

(* G is the history H after r, the leader of its term now, became s.       *)
Continues(N, H, G, r, s) ==
  /\ G \in History /\ Grown(H, G) /\ \A t \in Nat : t # r.term => G[t] = H[t]
  /\ RecInv(N, G, s) /\ Silent(r, s)
=============================================================================
