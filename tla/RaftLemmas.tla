----------------------------- MODULE RaftLemmas -----------------------------
(* What the handlers' helpers do: to a sequence, to the progress of a      *)
(* follower, to a log, to a mailbox.                                       *)
EXTENDS Raft, MoveLemmas

(* The part of a sequence from m to n holds the elements found there.      *)
LEMMA SubSeqType ==
  ASSUME NEW S, NEW s, NEW m \in Int, NEW n \in Int,
         \A k \in m..n : s[k] \in S
  PROVE  /\ SubSeq(s, m, n) \in Seq(S)
         /\ Len(SubSeq(s, m, n)) = IF m <= n THEN n - m + 1 ELSE 0
         /\ \A k \in 1..n - m + 1 : SubSeq(s, m, n)[k] = s[m + k - 1]
OBVIOUS

(* Two sequences, one after the other, are one as long as both.            *)
LEMMA ConcatType ==
  ASSUME NEW S, NEW s \in Seq(S), NEW t \in Seq(S)
  PROVE  s \o t \in Seq(S) /\ Len(s \o t) = Len(s) + Len(t)
OBVIOUS

(* Min of a non-empty set of naturals is its least element.                *)
LEMMA MinType ==
  ASSUME Counting, NEW S \in SUBSET Nat, S # {}
  PROVE  Min(S) \in S /\ \A y \in S : Min(S) <= y
BY LeastNatural, Zenon DEF Min

(* A steady change after a steady change is steady.                        *)
LEMMA SteadyTrans ==
  ASSUME NEW p, NEW q, NEW x, NEW n, Steady(p, q, n), Steady(q, x, n)
  PROVE  Steady(p, x, n)
BY DEF Steady, Advances

(* A Progress that fits a log fits a longer one.                           *)
LEMMA FitGrows ==
  ASSUME NEW p \in ProgressType, NEW n \in Nat, NEW k \in Nat, n <= k, Fit(p, n)
  PROVE  Fit(p, k)
BY DEF Fit, ProgressType

(* A fresh window of in-flight messages is a window.                       *)
LEMMA EmptyWindow == <<>> \in Window
BY MaxInflightAssumption DEF Window

(* The Progress constructor builds a Progress.                             *)
LEMMA NewProgressType ==
  ASSUME NEW n \in Nat \ {0}, NEW m \in Nat, NEW b \in BOOLEAN
  PROVE  /\ NewProgress(n, m, b) \in ProgressType
         /\ NewProgress(n, m, b).isLearner = b /\ NewProgress(n, m, b).match = m
         /\ \A k \in Nat : m <= k /\ n <= k + 1 => Fit(NewProgress(n, m, b), k)
<1>1. /\ NewProgress(n, m, b) \in ProgressType
      /\ NewProgress(n, m, b).isLearner = b /\ NewProgress(n, m, b).match = m
  BY EmptyWindow DEF NewProgress, ProgressType, ProgressState
<1>2. \A k \in Nat : m <= k /\ n <= k + 1 => Fit(NewProgress(n, m, b), k)
  BY DEF NewProgress, Fit
<1> QED BY <1>1, <1>2

(* Inflights::freeTo leaves a window.                                      *)
LEMMA FreeToType ==
  ASSUME Counting, NEW ins \in Window, NEW to \in Nat
  PROVE  freeTo(ins, to) \in Window
<1> DEFINE later == {k \in 1..Len(ins) : to < ins[k]}
           n == Min(later)
<1>1. ins \in Seq(Nat) /\ Len(ins) <= MaxInflight /\ MaxInflight \in Nat
  BY MaxInflightAssumption DEF Window
<1>2. CASE later = {}
  BY <1>2, EmptyWindow DEF freeTo
<1>3. CASE later # {}
  <2>1. n \in 1..Len(ins)
    <3>1. later \in SUBSET Nat
      OBVIOUS
    <3> QED BY <1>3, <3>1, MinType, Zenon
  <2>2. freeTo(ins, to) = SubSeq(ins, n, Len(ins))
    BY <1>3, Zenon DEF freeTo
  <2> HIDE DEF n
  <2>3. \A k \in n..Len(ins) : ins[k] \in Nat
    BY <2>1, <1>1
  <2>4. /\ SubSeq(ins, n, Len(ins)) \in Seq(Nat)
        /\ Len(SubSeq(ins, n, Len(ins))) = Len(ins) - n + 1
    BY <1>1, <2>1, <2>3, SubSeqType
  <2> QED BY <1>1, <2>1, <2>2, <2>4 DEF Window
<1> QED BY <1>2, <1>3

(* Inflights::freeFirstOne, on a full window, leaves a window.             *)
LEMMA FreeFirstOneType ==
  ASSUME Counting, NEW ins \in Window, full(ins)
  PROVE  freeFirstOne(ins) \in Window
<1>1. ins[1] \in Nat
  BY MaxInflightAssumption DEF full, Window
<1> QED BY <1>1, FreeToType DEF freeFirstOne

(* resetState followed by an assignment to next_ keeps the type and match. *)
LEMMA ResetStateType ==
  ASSUME NEW p \in ProgressType, NEW st \in ProgressState \ {"Snapshot"},
         NEW n \in Nat \ {0}, NEW len \in Nat, Fit(p, len) => n <= len + 1
  PROVE  Steady(p, [resetState(p, st) EXCEPT !.next = n], len)
<1> DEFINE q == [resetState(p, st) EXCEPT !.next = n]
<1>1. q = [p EXCEPT !.state = st, !.paused = FALSE, !.pendingSnapshot = 0,
                    !.ins = <<>>, !.next = n]
  BY DEF resetState, ProgressType
<1> HIDE DEF q
<1>2. q \in ProgressType
  BY <1>1, EmptyWindow, Zenon DEF ProgressType
<1>3. q.isLearner = p.isLearner /\ q.match = p.match /\ q.next = n /\ q.state = st
  BY <1>1 DEF ProgressType
<1> QED BY <1>2, <1>3 DEF Advances, Steady, Fit, q

(* The state changes of Progress keep its type, isLearner_ and match_.     *)
LEMMA BecomeType ==
  ASSUME NEW p \in ProgressType, NEW len \in Nat
  PROVE  /\ Steady(p, becomeProbe(p), len) /\ Steady(p, becomeReplicate(p), len)
         /\ Steady(p, pause(p), len) /\ Steady(p, resume(p), len)
<1>1. p.match \in Nat /\ p.pendingSnapshot \in Nat
  BY DEF ProgressType
<1>2. Steady(p, becomeProbe(p), len)
  <2> DEFINE sent == IF p.state = "Snapshot" THEN p.pendingSnapshot ELSE 0
             n == StdMax(p.match, sent) + 1
  <2>1. n \in Nat \ {0} /\ (Fit(p, len) => n <= len + 1)
    BY <1>1, SMTT(30) DEF StdMax, Fit
  <2>2. "Probe" \in ProgressState \ {"Snapshot"}
    BY DEF ProgressState
  <2>3. becomeProbe(p) = [resetState(p, "Probe") EXCEPT !.next = n]
    BY DEF becomeProbe
  <2> HIDE DEF n
  <2> QED BY <2>1, <2>2, <2>3, ResetStateType
<1>3. Steady(p, becomeReplicate(p), len)
  <2> DEFINE n == p.match + 1
  <2>1. n \in Nat \ {0} /\ (Fit(p, len) => n <= len + 1)
    BY <1>1 DEF Fit
  <2>2. "Replicate" \in ProgressState \ {"Snapshot"}
    BY DEF ProgressState
  <2>3. becomeReplicate(p) = [resetState(p, "Replicate") EXCEPT !.next = n]
    BY DEF becomeReplicate
  <2> HIDE DEF n
  <2> QED BY <2>1, <2>2, <2>3, ResetStateType
<1>4. Steady(p, pause(p), len) /\ Steady(p, resume(p), len)
  BY Zenon DEF Steady, Advances, Fit, pause, resume, ProgressType
<1> QED BY <1>2, <1>3, <1>4

(* maybeUpdate takes over an index of the log, or leaves match_ alone.     *)
LEMMA UpdateType ==
  ASSUME NEW p \in ProgressType, NEW n \in Nat
  PROVE  LET q == maybeUpdate(p, n)
         IN  /\ Advances(p, q) /\ q.match = IF Updates(p, n) THEN n ELSE p.match
             /\ \A len \in Nat : n <= len /\ Fit(p, len) => Fit(q, len)
<1> DEFINE q == maybeUpdate(p, n)
           unpaused == ~Updates(p, n)
<1>1. /\ StdMax(p.match, n) \in Nat /\ StdMax(p.next, n + 1) \in Nat \ {0}
      /\ StdMax(p.match, n) = IF Updates(p, n) THEN n ELSE p.match
      /\ \A len \in Nat : n <= len /\ p.match <= len /\ p.next <= len + 1 =>
           StdMax(p.match, n) <= len /\ StdMax(p.next, n + 1) <= len + 1
  <2>1. p.match \in Nat /\ p.next \in Nat \ {0}
    BY DEF ProgressType
  <2> QED BY <2>1 DEF StdMax, Updates
<1>2. q = [p EXCEPT !.match = StdMax(p.match, n), !.next = StdMax(p.next, n + 1),
                    !.paused = p.paused /\ unpaused]
  BY DEF maybeUpdate, ProgressType
<1> HIDE DEF unpaused, q
<1>3. q \in ProgressType
  BY <1>1, <1>2, Zenon DEF ProgressType
<1>4. /\ q.isLearner = p.isLearner /\ q.match = StdMax(p.match, n)
      /\ q.next = StdMax(p.next, n + 1) /\ q.state = p.state
  BY <1>2 DEF ProgressType
<1>5. \A len \in Nat : n <= len /\ Fit(p, len) => Fit(q, len)
  BY <1>1, <1>4 DEF Fit
<1> QED BY <1>1, <1>3, <1>4, <1>5 DEF Advances, q

(* optimisticUpdate stays within the log it sends from.                    *)
LEMMA OptimisticType ==
  ASSUME NEW p \in ProgressType, NEW n \in Nat, NEW len \in Nat, n <= len
  PROVE  Steady(p, optimisticUpdate(p, n), len)
<1>1. n + 1 \in Nat \ {0}
  OBVIOUS
<1>2. optimisticUpdate(p, n) \in ProgressType
  BY <1>1 DEF optimisticUpdate, ProgressType
<1>3. /\ optimisticUpdate(p, n).isLearner = p.isLearner
      /\ optimisticUpdate(p, n).match = p.match
      /\ optimisticUpdate(p, n).state = p.state
      /\ optimisticUpdate(p, n).next = n + 1
  BY DEF optimisticUpdate, ProgressType
<1> QED BY <1>2, <1>3 DEF Steady, Advances, Fit

(* maybeDecrTo keeps the type of a Progress, next_ above 0 included.       *)
LEMMA DecrToType ==
  ASSUME NEW p \in ProgressType, NEW n \in Nat, NEW last \in Nat, NEW len \in Nat
  PROVE  Steady(p, maybeDecrTo(p, n, last), len)
<1> DEFINE low == StdMax(1, StdMin(n, last + 1))
<1>1. low \in Nat \ {0} /\ (n = p.next - 1 /\ Fit(p, len) => low <= len + 1)
  BY DEF StdMax, StdMin, Fit, ProgressType
<1>2. p.match + 1 \in Nat \ {0} /\ (Fit(p, len) => p.match + 1 <= len + 1)
  BY DEF ProgressType, Fit
<1>3. \/ maybeDecrTo(p, n, last) \in {p, [p EXCEPT !.next = p.match + 1]}
      \/ /\ maybeDecrTo(p, n, last) = [p EXCEPT !.next = low, !.paused = FALSE]
         /\ n = p.next - 1
  BY DEF maybeDecrTo, Decreases
<1> HIDE DEF low
<1>4. Steady(p, [p EXCEPT !.next = p.match + 1], len)
  BY <1>2 DEF Steady, Advances, ProgressType, Fit
<1>5. n = p.next - 1 => Steady(p, [p EXCEPT !.next = low, !.paused = FALSE], len)
  BY <1>1, Zenon DEF Steady, Advances, ProgressType, Fit
<1>6. Steady(p, p, len)
  BY DEF Steady, Advances
<1> QED BY <1>3, <1>4, <1>5, <1>6
-----------------------------------------------------------------------------
(* A longer log says all that a shorter one does.                          *)
LEMMA FactsGrow ==
  ASSUME NEW l \in Seq(Entry), NEW k \in Seq(Entry), Len(l) <= Len(k),
         \A n \in 1..Len(l) : k[n] = l[n]
  PROVE  Facts(l) \subseteq Facts(k)
<1> SUFFICES ASSUME NEW n \in 1..Len(l)
             PROVE  <<n, l[n], IF n = 1 THEN 0 ELSE l[n - 1].term>> \in Facts(k)
  BY Zenon DEF Facts
<1>1. n \in 1..Len(k) /\ l[n] = k[n] /\ (n # 1 => l[n - 1] = k[n - 1])
  OBVIOUS
<1> QED BY <1>1 DEF Facts

(* A mute change after a mute change is mute.                              *)
LEMMA MuteTrans ==
  ASSUME NEW r, NEW s, NEW t, Mute(r, s), Mute(s, t)
  PROVE  Mute(r, t)
BY DEF Mute, Harmless

(* A log that grows twice in a term grows.                                 *)
LEMMA ExtendsTrans ==
  ASSUME NEW r \in Node, NEW s \in Node, NEW t \in Node,
         Extends(r, s), Extends(s, t), s.term = r.term
  PROVE  Extends(r, t)
<1> SUFFICES ASSUME ~t.panic PROVE Extends(r, t)
  BY DEF Extends
<1>1. /\ r.log \in Seq(Entry) /\ s.log \in Seq(Entry) /\ t.log \in Seq(Entry)
      /\ r.committed \in Nat /\ s.committed \in Nat /\ t.committed \in Nat
  BY DEF Node, RaftType
<1>2. /\ ~s.panic /\ Len(s.log) <= Len(t.log)
      /\ \A n \in 1..Len(s.log) : t.log[n] = s.log[n]
      /\ \A n \in Len(s.log) + 1..Len(t.log) : t.log[n].term = s.term
      /\ s.committed <= t.committed
      /\ s.committed <= Len(s.log) => t.committed <= Len(t.log)
      /\ \A m \in t.msgs : \/ m \in s.msgs \/ m.type # "MsgApp"
                            \/ MsgFacts(m) \subseteq Facts(t.log)
  BY Zenon DEF Extends
<1>3. /\ ~r.panic /\ Len(r.log) <= Len(s.log)
      /\ \A n \in 1..Len(r.log) : s.log[n] = r.log[n]
      /\ \A n \in Len(r.log) + 1..Len(s.log) : s.log[n].term = r.term
      /\ r.committed <= s.committed
      /\ r.committed <= Len(r.log) => s.committed <= Len(s.log)
      /\ \A m \in s.msgs : \/ m \in r.msgs \/ m.type # "MsgApp"
                            \/ MsgFacts(m) \subseteq Facts(s.log)
  BY <1>2, Zenon DEF Extends
<1>4. Facts(s.log) \subseteq Facts(t.log)
  BY <1>1, <1>2, FactsGrow, Zenon
<1>5. /\ Len(r.log) <= Len(t.log) /\ r.committed <= t.committed
      /\ r.committed <= Len(r.log) => t.committed <= Len(t.log)
      /\ \A n \in 1..Len(r.log) : t.log[n] = r.log[n]
      /\ \A n \in Len(r.log) + 1..Len(t.log) : t.log[n].term = r.term
  <2>1. ASSUME NEW n \in 1..Len(r.log) PROVE t.log[n] = r.log[n]
    BY <1>1, <1>2, <1>3
  <2>2. ASSUME NEW n \in Len(r.log) + 1..Len(t.log) PROVE t.log[n].term = r.term
    <3>1. n \in Len(r.log) + 1..Len(s.log) \/ n \in Len(s.log) + 1..Len(t.log)
      BY <1>1, <1>2, <1>3
    <3>2. n \in 1..Len(s.log) => t.log[n] = s.log[n]
      BY <1>2
    <3>3. n \in Len(r.log) + 1..Len(s.log) => n \in 1..Len(s.log)
      BY <1>1
    <3> QED BY <1>2, <1>3, <3>1, <3>2, <3>3, ZenonT(30)
  <2> QED BY <1>1, <1>2, <1>3, <2>1, <2>2
<1>6. \A m \in t.msgs : \/ m \in r.msgs \/ m.type # "MsgApp"
                        \/ MsgFacts(m) \subseteq Facts(t.log)
  BY <1>2, <1>3, <1>4
<1> QED BY <1>3, <1>5, <1>6, Zenon DEF Extends

(* What a quorum has it has when the log grows.                            *)
LEMMA ReachedGrows ==
  ASSUME NEW s \in Node, NEW t \in Node, NEW n, Reached(s, n),
         t.id = s.id, t.term = s.term,
         Len(s.log) <= Len(t.log), \A k \in 1..Len(s.log) : t.log[k] = s.log[k],
         \A j \in Server \ {s.id} : t.prs[j].match = s.prs[j].match
  PROVE  Reached(t, n)
<1>1. s.log \in Seq(Entry) /\ t.log \in Seq(Entry)
  BY DEF Node, RaftType
<1>2. n \in 1..Len(t.log) /\ t.log[n].term = t.term
  BY <1>1 DEF Reached
<1>3. {j \in Voter : j = s.id \/ s.prs[j].match >= n}
        = {j \in Voter : j = t.id \/ t.prs[j].match >= n}
  BY DEF Server
<1> QED BY <1>2, <1>3, Zenon DEF Reached

(* What was so stays so.                                                   *)
LEMMA ProperGrows ==
  ASSUME NEW r \in Node, NEW s \in Node, NEW t \in Node, NEW m \in Msg,
         Proper(r, s, m), m.type = "MsgVote" => t.log = s.log,
         s.id = r.id, s.committed <= t.committed,
         Len(s.log) <= Len(t.log), \A k \in 1..Len(s.log) : t.log[k] = s.log[k],
         \A j \in Server \ {s.id} : t.prs[j].match = s.prs[j].match
  PROVE  Proper(r, t, m)
<1>1. /\ s.log \in Seq(Entry) /\ t.log \in Seq(Entry)
      /\ s.committed \in Nat /\ t.committed \in Nat
  BY DEF Node, RaftType
<1>2. m.commit \in Nat /\ m.to \in Server
  BY DEF Msg, MsgFrom
<1>3. m.type = "MsgApp" => m.commit <= t.committed /\ (Fits(r) => Quotes(m, t.log))
  BY <1>1, <1>2, QuotesGrow DEF Proper
<1>4. m.type = "MsgHeartbeat" =>
        m.to # r.id /\ m.commit <= t.committed /\ m.commit <= t.prs[m.to].match
  BY <1>1, <1>2 DEF Proper
<1>5. m.type = "MsgVote" => m.index = Len(t.log) /\ m.logterm = lastTerm(t)
  BY DEF Proper, lastTerm, lastIndex, term
<1> QED BY <1>3, <1>4, <1>5, Zenon DEF Proper

(* An orderly change after an orderly change is orderly.                   *)
LEMMA OrderlyTrans ==
  ASSUME NEW r \in Node, NEW s \in Node, NEW t \in Node,
         Mute(r, s), Orderly(r, s), Orderly(s, t), s.committed <= t.committed,
         r.state = "Leader" \/ t.log = s.log,
         Len(s.log) <= Len(t.log), \A k \in 1..Len(s.log) : t.log[k] = s.log[k],
         t.id = s.id, t.term = s.term
  PROVE  Orderly(r, t)
<1>1. s.id = r.id /\ s.state = r.state /\ s.msgs \subseteq Msg
  BY DEF Mute, Node, RaftType
<1>2. \A j \in Server \ {s.id} : t.prs[j].match = s.prs[j].match
  BY DEF Orderly
<1>3. \A j \in Server \ {r.id} : t.prs[j].match = r.prs[j].match
  BY <1>1, <1>2 DEF Orderly
<1>4. Fits(r) => Fits(t)
  BY DEF Orderly
<1>5. t.committed = r.committed \/ (r.state = "Leader" /\ Reached(t, t.committed))
  <2>1. CASE t.committed = s.committed
    BY <1>2, <2>1, ReachedGrows, Zenon DEF Orderly
  <2> QED BY <1>1, <2>1, Zenon DEF Orderly
<1>6. ASSUME NEW m \in t.msgs, m \notin r.msgs PROVE Proper(r, t, m)
  <2>1. CASE m \in s.msgs
    <3>1. Proper(r, s, m) /\ Harmless(r, m) /\ m \in Msg
      BY <1>1, <1>6, <2>1 DEF Orderly, Mute
    <3>2. m.type = "MsgVote" => t.log = s.log
      BY <3>1, Zenon DEF Harmless
    <3> QED BY <1>1, <1>2, <3>1, <3>2, ProperGrows, Zenon
  <2>2. CASE m \notin s.msgs
    BY <1>1, <1>4, <2>2 DEF Orderly, Proper
  <2> QED BY <2>1, <2>2
<1> QED BY <1>3, <1>4, <1>5, <1>6, Zenon DEF Orderly

(* A quiet change after a quiet change is quiet.                           *)
LEMMA QuietTrans ==
  ASSUME NEW r, NEW s, NEW t, Quiet(r, s), Quiet(s, t)
  PROVE  Quiet(r, t)
<1>1. Mute(r, s) /\ Mute(s, t) /\ Mute(r, t)
  BY MuteTrans DEF Quiet, Mute
<1>2. r \in Node /\ s \in Node /\ t \in Node /\ s.term = r.term /\ s.state = r.state
  BY <1>1 DEF Mute
<1>3. Extends(r, s) /\ Extends(s, t) /\ Extends(r, t)
  BY <1>2, ExtendsTrans DEF Quiet, Mute
<1>4. t.panic \/ ~s.panic
  BY <1>3, Zenon DEF Extends
<1>5. t.panic \/ r.state = "Leader" \/ t.log = r.log
  BY <1>2, <1>4, Zenon DEF Quiet, Mute
<1>6. ASSUME ~t.panic PROVE Orderly(r, t)
  <2>1. /\ Orderly(r, s) /\ Orderly(s, t)
        /\ r.state = "Leader" \/ t.log = s.log
    BY <1>2, <1>4, <1>6, Zenon DEF Quiet
  <2>2. /\ Len(s.log) <= Len(t.log) /\ s.committed <= t.committed
        /\ \A k \in 1..Len(s.log) : t.log[k] = s.log[k]
    BY <1>3, <1>6, Zenon DEF Extends
  <2>3. t.id = s.id /\ t.term = s.term
    BY <1>1 DEF Mute
  <2> QED BY <1>1, <1>2, <2>1, <2>2, <2>3, OrderlyTrans, Zenon
<1> QED BY <1>1, <1>3, <1>5, <1>6, Zenon DEF Quiet, Mute

(* A quiet change leaves a node.                                           *)
LEMMA QuietNode == ASSUME NEW r, NEW s, Quiet(r, s) PROVE s \in Node
BY DEF Quiet, Mute

(* A change of what is neither role, vote, log, match nor mailbox is       *)
(* quiet.                                                                  *)
LEMMA Regrouped ==
  ASSUME NEW r \in Node, NEW s \in Node,
         s.id = r.id, s.term = r.term, s.vote = r.vote, s.state = r.state,
         s.votes = r.votes, s.log = r.log, s.committed = r.committed,
         s.msgs = r.msgs, r.panic => s.panic,
         \A j \in Server \ {r.id} : s.prs[j].match = r.prs[j].match,
         Fits(r) => Fits(s)
  PROVE  Quiet(r, s)
<1>1. r.log \in Seq(Entry) /\ r.committed \in Nat
  BY DEF Node, RaftType
<1>2. Extends(r, s)
  BY <1>1 DEF Extends
<1>3. Orderly(r, s)
  BY DEF Orderly
<1> QED BY <1>2, <1>3, Zenon DEF Quiet, Mute

(* In particular one that leaves every Progress as it is.                  *)
LEMMA Untouched ==
  ASSUME NEW r \in Node, NEW s \in Node,
         s.id = r.id, s.term = r.term, s.vote = r.vote, s.state = r.state,
         s.votes = r.votes, s.log = r.log, s.committed = r.committed,
         s.msgs = r.msgs, r.panic => s.panic, s.prs = r.prs
  PROVE  Quiet(r, s)
<1>1. Fits(r) => Fits(s)
  BY DEF Fits
<1> QED BY <1>1, Regrouped

(* RAFT_LOG(PANIC) leaves everything but the fact as it is.                *)
LEMMA PanicIfType ==
  ASSUME NEW r \in Node, NEW c
  PROVE  LET s == panicIf(r, c)
         IN  /\ Quiet(r, s) /\ s.log = r.log /\ s.prs = r.prs
             /\ s.committed = r.committed /\ s.applied = r.applied
             /\ s.msgs = r.msgs /\ (c => s.panic)
<1> DEFINE s == panicIf(r, c)
<1>1. s \in RaftType
  BY Zenon DEF panicIf, RaftType, Node
<1>2. /\ s.id = r.id /\ s.term = r.term /\ s.vote = r.vote /\ s.state = r.state
      /\ s.votes = r.votes /\ s.log = r.log /\ s.committed = r.committed
      /\ s.msgs = r.msgs /\ s.prs = r.prs /\ s.applied = r.applied
  BY DEF panicIf, RaftType, Node
<1>3. (r.panic => s.panic) /\ (c => s.panic)
  BY ZenonT(30) DEF panicIf, RaftType, Node
<1> HIDE DEF s
<1>4. s \in Node
  BY <1>1, <1>2 DEF Node
<1>5. Quiet(r, s)
  BY <1>2, <1>3, <1>4, Untouched
<1> QED BY <1>2, <1>3, <1>5 DEF s

(* Assignments to single fields                                            *)

(* The Progress of one node may be replaced by one with the same match,    *)
(* and the node's own by another one.                                      *)
LEMMA SetProgress ==
  ASSUME NEW r \in Node, NEW j \in Server, NEW q, Advances(r.prs[j], q),
         j = r.id \/ q.match = r.prs[j].match,
         Fits(r) => Fit(q, Len(r.log))
  PROVE  LET s == [r EXCEPT !.prs[j] = q]
         IN  /\ Quiet(r, s) /\ s.log = r.log /\ s.msgs = r.msgs
             /\ s.prs = [r.prs EXCEPT ![j] = q] /\ s.committed = r.committed
<1> DEFINE s == [r EXCEPT !.prs[j] = q]
<1>1. s \in RaftType
  BY Zenon DEF RaftType, Node, Advances
<1>2. /\ s.id = r.id /\ s.term = r.term /\ s.vote = r.vote /\ s.state = r.state
      /\ s.votes = r.votes /\ s.log = r.log /\ s.committed = r.committed
      /\ s.msgs = r.msgs /\ s.panic = r.panic /\ s.prs = [r.prs EXCEPT ![j] = q]
  BY DEF RaftType, Node
<1> HIDE DEF s
<1>3. \A k \in Server : s.prs[k].isLearner = r.prs[k].isLearner
  BY <1>2, LogFields, Zenon DEF Advances
<1>4. s \in Node
  BY <1>1, <1>3, Zenon DEF Node
<1>5. \A k \in Server \ {r.id} : s.prs[k].match = r.prs[k].match
  BY <1>2, LogFields, Zenon
<1>6. Fits(r) => Fits(s)
  BY <1>2, LogFields DEF Fits
<1> QED BY <1>2, <1>4, <1>5, <1>6, Regrouped, Zenon DEF s

(* A steady change of a Progress is one that may be made.                  *)
LEMMA SetSteady ==
  ASSUME NEW r \in Node, NEW j \in Server, NEW q,
         Steady(r.prs[j], q, Len(r.log))
  PROVE  LET s == [r EXCEPT !.prs[j] = q]
         IN  /\ Quiet(r, s) /\ s.log = r.log /\ s.msgs = r.msgs
             /\ s.prs = [r.prs EXCEPT ![j] = q] /\ s.committed = r.committed
<1>1. /\ Advances(r.prs[j], q) /\ q.match = r.prs[j].match
      /\ Fits(r) => Fit(q, Len(r.log))
  BY DEF Steady, Fits
<1> QED BY <1>1, SetProgress

(* All Progresses may be changed steadily at once.                         *)
LEMMA SetAllProgress ==
  ASSUME NEW r \in Node, NEW p,
         p \in [Server -> ProgressType],
         \A j \in Server : Steady(r.prs[j], p[j], Len(r.log))
  PROVE  LET s == [r EXCEPT !.prs = p]
         IN  /\ Quiet(r, s) /\ s.log = r.log /\ s.msgs = r.msgs
             /\ s.prs = p /\ s.committed = r.committed
<1> DEFINE s == [r EXCEPT !.prs = p]
<1>1. s \in RaftType
  BY Zenon DEF RaftType, Node
<1>2. /\ s.id = r.id /\ s.term = r.term /\ s.vote = r.vote /\ s.state = r.state
      /\ s.votes = r.votes /\ s.log = r.log /\ s.committed = r.committed
      /\ s.msgs = r.msgs /\ s.panic = r.panic /\ s.prs = p
  BY DEF RaftType, Node
<1> HIDE DEF s
<1>3. s \in Node
  BY <1>1, <1>2, Zenon DEF Node, Steady, Advances
<1>4. \A k \in Server \ {r.id} : s.prs[k].match = r.prs[k].match
  BY <1>2 DEF Steady
<1>5. Fits(r) => Fits(s)
  BY <1>2 DEF Fits, Steady
<1> QED BY <1>2, <1>3, <1>4, <1>5, Regrouped, Zenon DEF s
-----------------------------------------------------------------------------
(* Sending                                                                 *)

(* A message before send() sets its sender.                                *)
Draft == MsgFrom(Server \cup {None})

(* The entries of a message without entries.                               *)
LEMMA NoEntries == <<>> \in Seq(Entry)
OBVIOUS

(* A new message of any type but the two of reads is a draft.              *)
LEMMA MessageIsDraft ==
  ASSUME NEW type \in MessageType \ ReadType, NEW to \in Server
  PROVE  /\ Message(type, to) \in Draft
         /\ Message(type, to).type = type /\ Message(type, to).to = to
         /\ Message(type, to).reject = FALSE /\ Message(type, to).term = 0
         /\ Message(type, to).index = 0
<1>1. <<>> \in Seq(Entry)
  OBVIOUS
<1> QED BY <1>1 DEF Message, Draft, MsgFrom

(* send() turns a draft into a message of the sender.                      *)
LEMMA StampedType ==
  ASSUME NEW r \in Node, NEW m \in Draft
  PROVE  LET x == stamped(r, m)
         IN  /\ x \in Msg
             /\ x.from = r.id /\ x.type = m.type /\ x.to = m.to
             /\ x.reject = m.reject /\ x.index = m.index
             /\ x.logterm = m.logterm /\ x.entries = m.entries
             /\ x.commit = m.commit
             /\ x.term = IF m.type \in VoteType \cup VoteRespType
                                  \cup {"MsgProp", "MsgReadIndex"}
                         THEN m.term ELSE r.term
<1>1. r.id \in Server /\ r.term \in Nat
  BY LogFields, Zenon
<1> QED BY <1>1, Zenon DEF stamped, Draft, Msg, MsgFrom

(* Sending changes nothing but the mailbox.                                *)
LEMMA SendAllType ==
  ASSUME NEW r \in Node, NEW ms, \A m \in ms : m \in Draft
  PROVE  LET s == sendAll(r, ms)
         IN  /\ s \in Node
             /\ s.id = r.id /\ s.term = r.term /\ s.vote = r.vote
             /\ s.state = r.state /\ s.votes = r.votes
             /\ s.log = r.log /\ s.prs = r.prs /\ s.committed = r.committed
             /\ s.msgs = r.msgs \cup {stamped(r, m) : m \in ms}
             /\ r.panic => s.panic
<1> DEFINE new == {stamped(r, m) : m \in ms}
           c == \E m \in ms : (m.term = 0) <=> (m.type \in VoteType \cup VoteRespType)
           s == sendAll(r, ms)
           q == panicIf(r, c)
<1>1. new \subseteq Msg
  BY StampedType
<1>2. s = [q EXCEPT !.msgs = q.msgs \cup new]
  BY Zenon DEF sendAll
<1> HIDE DEF new, c, s
<1>3. /\ q \in Node /\ q.id = r.id /\ q.term = r.term /\ q.vote = r.vote
      /\ q.state = r.state /\ q.votes = r.votes
      /\ q.log = r.log /\ q.prs = r.prs /\ q.committed = r.committed
      /\ q.msgs = r.msgs
  BY PanicIfType DEF Quiet, Mute
<1>7. r.panic => q.panic
  BY PanicIfType, Zenon DEF Quiet, Extends
<1> HIDE DEF q
<1>4. q.msgs \cup new \in SUBSET Msg
  BY <1>1, <1>3, LogFields
<1>5. s \in RaftType
  BY <1>2, <1>3, <1>4, Zenon DEF RaftType, Node
<1>6. /\ s.id = q.id /\ s.term = q.term /\ s.vote = q.vote
      /\ s.state = q.state /\ s.votes = q.votes
      /\ s.log = q.log /\ s.prs = q.prs /\ s.committed = q.committed
      /\ s.msgs = q.msgs \cup new /\ s.panic = q.panic
  BY <1>2, <1>3, Zenon DEF RaftType, Node
<1>8. s \in Node /\ s.msgs = r.msgs \cup new /\ (r.panic => s.panic)
  BY <1>3, <1>5, <1>6, <1>7, Zenon DEF Node
<1> QED BY <1>3, <1>6, <1>8, Zenon DEF s, new

(* A draft that r may send: neither a vote nor an acknowledgement, what    *)
(* leaders and candidates send only in their role, and nothing untrue.     *)
Sendable(r, m) ==
  /\ m \in Draft /\ ~Ballot(m)
  /\ m.type \in LeaderType => r.state = "Leader"
  /\ m.type = "MsgApp" => MsgFacts(m) \subseteq Facts(r.log)
  /\ m.type = "MsgVote" => r.state = "Candidate" /\ m.term = r.term
  /\ Proper(r, r, m)

(* Sending such drafts is quiet.                                           *)
LEMMA SendAllQuiet ==
  ASSUME NEW r \in Node, NEW ms, \A m \in ms : Sendable(r, m)
  PROVE  LET s == sendAll(r, ms)
         IN  /\ Quiet(r, s)
             /\ s.log = r.log /\ s.prs = r.prs /\ s.committed = r.committed
<1> DEFINE s == sendAll(r, ms)
<1>1. ASSUME NEW m \in ms
      PROVE  /\ Harmless(r, stamped(r, m)) /\ Proper(r, r, stamped(r, m))
             /\ \/ stamped(r, m).type # "MsgApp"
                \/ MsgFacts(stamped(r, m)) \subseteq Facts(r.log)
  <2> DEFINE x == stamped(r, m)
  <2>1. m \in Draft
    BY DEF Sendable
  <2>2. /\ x.from = r.id /\ x.type = m.type /\ x.to = m.to
        /\ x.reject = m.reject /\ x.index = m.index
        /\ x.logterm = m.logterm /\ x.entries = m.entries /\ x.commit = m.commit
        /\ x.term = IF m.type \in VoteType \cup VoteRespType
                             \cup {"MsgProp", "MsgReadIndex"}
                    THEN m.term ELSE r.term
    BY <2>1, StampedType, Zenon
  <2> HIDE DEF x
  <2>3. Harmless(r, x)
    BY <2>2, Zenon
       DEF Sendable, Harmless, Ballot, Grant, LeaderType, VoteType, VoteRespType
  <2>4. Proper(r, r, x)
    BY <2>2, Zenon DEF Sendable, Proper, Quotes
  <2>5. MsgFacts(x) = MsgFacts(m)
    BY <2>2, Zenon DEF MsgFacts
  <2> QED BY <2>2, <2>3, <2>4, <2>5, Zenon DEF Sendable, x
<1>2. /\ s \in Node /\ s.id = r.id /\ s.term = r.term /\ s.vote = r.vote
      /\ s.state = r.state /\ s.votes = r.votes
      /\ s.log = r.log /\ s.prs = r.prs /\ s.committed = r.committed
      /\ s.msgs = r.msgs \cup {stamped(r, m) : m \in ms}
      /\ r.panic => s.panic
  BY SendAllType, Zenon DEF Sendable
<1> HIDE DEF s
<1>3. Mute(r, s)
  BY <1>1, <1>2, Zenon DEF Mute
<1>4. r.log \in Seq(Entry) /\ r.committed \in Nat
  BY LogFields, Zenon
<1>5. \A m \in s.msgs : \/ m \in r.msgs \/ m.type # "MsgApp"
                        \/ MsgFacts(m) \subseteq Facts(s.log)
  BY <1>1, <1>2, Zenon
<1>6. Extends(r, s)
  BY <1>2, <1>4, <1>5 DEF Extends
<1>7. \A m : Proper(r, r, m) => Proper(r, s, m)
  BY <1>2, Zenon DEF Proper, lastTerm, lastIndex, term
<1>8. \A m \in s.msgs : m \in r.msgs \/ Proper(r, s, m)
  BY <1>1, <1>2, <1>7, Zenon
<1>9. Orderly(r, s)
  BY <1>2, <1>8, Zenon DEF Orderly, Fits
<1> QED BY <1>2, <1>3, <1>6, <1>9, Zenon DEF Quiet, s

(* The same for one message that tells nothing.                            *)
LEMMA SendQuiet ==
  ASSUME NEW r \in Node, NEW m \in Draft, ~Ballot(m),
         m.type \notin {"MsgApp", "MsgHeartbeat", "MsgVote"},
         m.type = "MsgAppResp" /\ ~m.reject => m.index = 0,
         m.type \in LeaderType => r.state = "Leader"
  PROVE  /\ Quiet(r, send(r, m))
         /\ send(r, m).log = r.log /\ send(r, m).prs = r.prs
         /\ send(r, m).committed = r.committed
<1>1. Sendable(r, m)
  BY Zenon DEF Sendable, Proper
<1> QED BY <1>1, SendAllQuiet, Zenon DEF send

(* A node that sends what belongs to no role, acknowledgements included,   *)
(* stays mute.                                                             *)
LEMMA SendMute ==
  ASSUME NEW r \in Node, NEW m \in Draft, ~Ballot(m),
         m.type \notin LeaderType \cup {"MsgVote"}
  PROVE  LET s == send(r, m)
         IN  /\ Mute(r, s) /\ Extends(r, s)
             /\ s.log = r.log /\ s.prs = r.prs /\ s.committed = r.committed
             /\ s.msgs = r.msgs \cup {stamped(r, m)}
<1> DEFINE s == send(r, m)
<1>1. Harmless(r, stamped(r, m)) /\ stamped(r, m).type # "MsgApp"
  BY StampedType DEF Harmless, Ballot, Grant, LeaderType, VoteType, VoteRespType
<1>2. /\ s \in Node /\ s.id = r.id /\ s.term = r.term /\ s.vote = r.vote
      /\ s.state = r.state /\ s.votes = r.votes
      /\ s.log = r.log /\ s.prs = r.prs /\ s.committed = r.committed
      /\ s.msgs = r.msgs \cup {stamped(r, m)}
      /\ r.panic => s.panic
  BY SendAllType DEF send
<1> HIDE DEF s
<1>3. Mute(r, s)
  BY <1>1, <1>2, Zenon DEF Mute
<1>4. r.log \in Seq(Entry) /\ r.committed \in Nat
  BY LogFields, Zenon
<1>5. \A x \in s.msgs : \/ x \in r.msgs \/ x.type # "MsgApp"
                        \/ MsgFacts(x) \subseteq Facts(s.log)
  BY <1>1, <1>2, Zenon
<1>6. Extends(r, s)
  BY <1>2, <1>4, <1>5 DEF Extends
<1> QED BY <1>2, <1>3, <1>6, Zenon DEF s
-----------------------------------------------------------------------------
(* The log                                                                 *)

(* RaftLog::term returns a term.                                           *)
LEMMA TermType ==
  ASSUME NEW r \in Node, NEW i \in Int
  PROVE  term(r, i) \in Nat
<1>1. r.log \in Seq(Entry)
  BY LogFields
<1>2. \A e \in Entry : e.term \in Nat
  BY DEF Entry
<1>3. CASE i \in 1..Len(r.log)
  BY <1>1, <1>2, <1>3 DEF term
<1> QED BY <1>3 DEF term

(* RaftLog::commitTo is mute and only raises the commit index, within the  *)
(* log.                                                                    *)
LEMMA CommitToType ==
  ASSUME NEW r \in Node, NEW n \in Nat
  PROVE  LET s == commitTo(r, n)
         IN  /\ Mute(r, s) /\ Extends(r, s)
             /\ s.log = r.log /\ s.prs = r.prs /\ s.msgs = r.msgs
             /\ \/ s.panic \/ s.committed = r.committed
                \/ s.committed = n /\ n > r.committed /\ n <= Len(r.log)
<1>1. CASE n <= r.committed
  BY <1>1, QuietRefl, Zenon DEF commitTo, Quiet
<1>2. CASE ~(n <= r.committed)
  <2> DEFINE q == panicIf(r, lastIndex(r) < n)
             s == [q EXCEPT !.committed = n]
  <2>1. commitTo(r, n) = s
    BY <1>2 DEF commitTo
  <2>2. /\ Quiet(r, q) /\ q.log = r.log /\ q.prs = r.prs
        /\ q.msgs = r.msgs /\ (lastIndex(r) < n => q.panic)
    BY PanicIfType, Zenon
  <2>3. q \in Node /\ (r.panic => q.panic)
    BY <2>2, Zenon DEF Quiet, Extends, Mute
  <2> HIDE DEF q
  <2>4. s \in RaftType
    BY <2>3, Zenon DEF RaftType, Node
  <2>5. /\ s.id = q.id /\ s.term = q.term /\ s.vote = q.vote /\ s.state = q.state
        /\ s.votes = q.votes /\ s.log = q.log /\ s.committed = n
        /\ s.msgs = q.msgs /\ s.panic = q.panic /\ s.prs = q.prs
    BY <2>3 DEF RaftType, Node
  <2> HIDE DEF s
  <2>6. s \in Node
    BY <2>3, <2>4, <2>5, Zenon DEF Node
  <2>7. Mute(r, s)
    BY <2>2, <2>5, <2>6, Zenon DEF Quiet, Mute
  <2>8. r.log \in Seq(Entry) /\ r.committed \in Nat /\ lastIndex(r) = Len(r.log)
    BY LogFields DEF lastIndex
  <2>9. Extends(r, s)
    <3>1. CASE s.panic
      BY <3>1, Zenon DEF Extends
    <3>2. CASE ~s.panic
      <4>1. ~r.panic /\ ~(lastIndex(r) < n)
        BY <3>2, <2>2, <2>3, <2>5, ZenonT(30)
      <4>2. r.committed <= n /\ n <= Len(r.log)
        BY <4>1, <1>2, <2>8
      <4> QED BY <4>1, <4>2, <2>2, <2>5, <2>8 DEF Extends
    <3> QED BY <3>1, <3>2
  <2>10. s.panic \/ (s.committed = n /\ n > r.committed /\ n <= Len(r.log))
    <3>1. CASE ~(lastIndex(r) < n)
      BY <3>1, <1>2, <2>5, <2>8
    <3> QED BY <3>1, <2>2, <2>5, Zenon
  <2> QED BY <2>1, <2>2, <2>5, <2>7, <2>9, <2>10, Zenon
<1> QED BY <1>1, <1>2

(* It is quiet if a leader commits what a quorum has.                      *)
LEMMA CommitToQuiet ==
  ASSUME NEW r \in Node, NEW n \in Nat, r.state = "Leader",
         n > r.committed /\ n <= Len(r.log) => Reached(r, n)
  PROVE  Quiet(r, commitTo(r, n))
<1> DEFINE s == commitTo(r, n)
<1>1. /\ Mute(r, s) /\ Extends(r, s)
      /\ s.log = r.log /\ s.prs = r.prs /\ s.msgs = r.msgs
      /\ \/ s.panic \/ s.committed = r.committed
         \/ s.committed = n /\ n > r.committed /\ n <= Len(r.log)
  BY CommitToType, Zenon
<1> HIDE DEF s
<1>2. s.term = r.term /\ s.id = r.id
  BY <1>1, Zenon DEF Mute
<1>3. Reached(r, n) => Reached(s, n)
  BY <1>1, <1>2, ZenonT(30) DEF Reached
<1>4. ASSUME s.committed = r.committed \/ Reached(s, s.committed)
      PROVE  Orderly(r, s)
  BY <1>1, <1>4 DEF Orderly, Fits
<1>5. s.panic \/ Orderly(r, s)
  BY <1>1, <1>3, <1>4, Zenon
<1> QED BY <1>1, <1>5, Zenon DEF Quiet, s

(* RaftLog::maybeCommit is quiet for an index that a quorum has reached.   *)
LEMMA MaybeCommitLogType ==
  ASSUME NEW r \in Node, NEW n \in Nat, r.state = "Leader",
         IsQuorum({j \in Voter : j = r.id \/ r.prs[j].match >= n})
  PROVE  LET s == maybeCommitLog(r, n, r.term)
         IN  Quiet(r, s) /\ s.log = r.log /\ s.prs = r.prs /\ s.msgs = r.msgs
<1>1. r.log \in Seq(Entry) /\ r.committed \in Nat
  BY LogFields, Zenon
<1>2. CASE n > r.committed /\ term(r, n) = r.term
  <2>1. n <= Len(r.log) => Reached(r, n)
    BY <1>1, <1>2 DEF Reached, term
  <2> QED BY <1>2, <2>1, CommitToType, CommitToQuiet, ZenonT(30)
             DEF maybeCommitLog
<1> QED BY <1>2, QuietRefl, Zenon DEF maybeCommitLog

(* The least match_ of all is reached by a quorum, so quorumIndex chooses  *)
(* from a nonempty set.                                                    *)
LEMMA QuorumIndexType ==
  ASSUME Counting, NEW r \in Node
  PROVE  /\ quorumIndex(r) \in Nat
         /\ IsQuorum({j \in Voter : j = r.id \/ r.prs[j].match >= quorumIndex(r)})
<1> DEFINE match == {r.prs[j].match : j \in Voter}
           Have(n) == {j \in Voter : r.prs[j].match >= n}
           S == {n \in match : Cardinality(Have(n)) >= quorum(r)}
<1>1. quorumIndex(r) = Max(S)
  BY VotersOfNode, Zenon DEF quorumIndex
<1>2. \A j \in Voter : r.prs[j].match \in Nat
  BY LogFields DEF Server, ProgressType
<1>3. match \in SUBSET Nat /\ match # {}
  BY <1>2, MembershipAssumption
<1>5. PICK n \in match : \A m \in match : n <= m
  <2> HIDE DEF match
  <2> QED BY <1>3, LeastNatural, Zenon
<1>6. Have(n) = Voter
  BY <1>2, <1>3, <1>5, Zenon
<1>7. n \in S
  <2>1. quorum(r) = Cardinality(Voter) \div 2 + 1
    BY VotersOfNode DEF quorum
  <2>2. Cardinality(Voter) >= quorum(r)
    BY <2>1, VoterCount
  <2> QED BY <2>2, <1>6
<1> DEFINE q == quorumIndex(r)
           all == {j \in Voter : j = r.id \/ r.prs[j].match >= q}
<1>9. q \in S /\ q \in Nat
  <2> DEFINE f == [j \in Server |-> r.prs[j].match]
  <2>1. S \in SUBSET Nat /\ S # {}
    BY <1>3, <1>7, Zenon
  <2>2. f \in [Server -> Nat]
    BY LogFields DEF ProgressType
  <2>3. \A x \in S : \E j \in Server : x = f[j]
    BY DEF Server
  <2> HIDE DEF S, f
  <2>4. Max(S) \in S
    BY <2>1, <2>2, <2>3, ZenonT(30) DEF Counting, Bounded
  <2> QED BY <1>1, <2>1, <2>4, Zenon
<1>10. Cardinality(Have(q)) >= Cardinality(Voter) \div 2 + 1
  BY <1>9, VotersOfNode, ZenonT(30) DEF quorum
<1> HIDE DEF q
<1>11. all \in SUBSET Voter /\ Have(q) \in SUBSET all
  OBVIOUS
<1>12. /\ Cardinality(all) \in Nat /\ Cardinality(Have(q)) \in Nat
       /\ Cardinality(Have(q)) <= Cardinality(all) /\ Cardinality(Voter) \in Nat
  BY <1>11, VoterSubsets, VoterCount, ZenonT(30)
<1>13. all \cap Voter = all
  OBVIOUS
<1> HIDE DEF all
<1>14. 2 * Cardinality(all) > Cardinality(Voter)
  BY <1>10, <1>12
<1> QED BY <1>9, <1>13, <1>14, Zenon DEF IsQuorum, all, q

(* Raft::maybeCommit is quiet for a leader.                                *)
LEMMA MaybeCommitType ==
  ASSUME Counting, NEW r \in Node, r.state = "Leader"
  PROVE  LET s == maybeCommit(r)
         IN  Quiet(r, s) /\ s.log = r.log /\ s.prs = r.prs /\ s.msgs = r.msgs
BY QuorumIndexType, MaybeCommitLogType, Zenon DEF maybeCommit

(* RaftLog::append is mute and, unless it panics, replaces what follows    *)
(* `after', which is committed nowhere and not beyond the log.             *)
LEMMA AppendType ==
  ASSUME NEW r \in Node, NEW after \in Nat, NEW ents \in Seq(Entry)
  PROVE  LET s == append(r, after, ents)
         IN  /\ Mute(r, s) /\ s.prs = r.prs /\ s.msgs = r.msgs
             /\ s.committed = r.committed /\ (r.panic => s.panic)
             /\ \/ s.panic
                \/ /\ r.committed <= after /\ after <= Len(r.log)
                   /\ Len(s.log) = after + Len(ents)
                   /\ \A n \in 1..after : s.log[n] = r.log[n]
                   /\ \A k \in 1..Len(ents) : s.log[after + k] = ents[k]
<1>1. CASE after < r.committed \/ after > lastIndex(r)
  <2> DEFINE s == panicIf(r, TRUE)
  <2>1. /\ Quiet(r, s) /\ s.prs = r.prs /\ s.msgs = r.msgs
        /\ s.committed = r.committed /\ s.panic
    BY PanicIfType, Zenon
  <2>2. append(r, after, ents) = s
    BY <1>1, Zenon DEF append
  <2> HIDE DEF s
  <2> QED BY <2>1, <2>2, Zenon DEF Quiet, Mute
<1>2. CASE ~(after < r.committed \/ after > lastIndex(r))
  <2> DEFINE old == SubSeq(r.log, 1, after)
             new == old \o ents
             s   == [r EXCEPT !.log = new]
  <2>1. /\ r.log \in Seq(Entry) /\ after <= Len(r.log) /\ Len(r.log) \in Nat
        /\ r.committed <= after
    BY <1>2, LogFields DEF lastIndex
  <2>2. old \in Seq(Entry) /\ Len(old) = after /\ \A n \in 1..after : old[n] = r.log[n]
    <3>1. \A i \in 1..after : r.log[i] \in Entry
      BY <2>1
    <3> QED BY <3>1, SubSeqType
  <2>3. append(r, after, ents) = s
    BY <1>2, Zenon DEF append
  <2> HIDE DEF old
  <2>4. /\ new \in Seq(Entry) /\ Len(new) = after + Len(ents)
        /\ \A n \in 1..after : new[n] = r.log[n]
        /\ \A k \in 1..Len(ents) : new[after + k] = ents[k]
    <3>1. new \in Seq(Entry) /\ Len(new) = Len(old) + Len(ents)
      BY <2>2, ConcatType, Zenon
    <3>2. \A n \in 1..Len(old) : new[n] = old[n]
      BY <2>2
    <3>3. \A k \in 1..Len(ents) : new[Len(old) + k] = ents[k]
      BY <2>2
    <3> HIDE DEF new
    <3> QED BY <2>2, <3>1, <3>2, <3>3, Zenon
  <2> HIDE DEF new
  <2>5. s \in RaftType
    BY <2>4, Zenon DEF RaftType, Node
  <2>6. /\ s.id = r.id /\ s.term = r.term /\ s.vote = r.vote /\ s.state = r.state
        /\ s.votes = r.votes /\ s.log = new /\ s.committed = r.committed
        /\ s.msgs = r.msgs /\ s.panic = r.panic /\ s.prs = r.prs
    BY Zenon DEF RaftType, Node
  <2> HIDE DEF s
  <2>7. s \in Node
    BY <2>5, <2>6, Zenon DEF Node
  <2>8. Mute(r, s)
    BY <2>6, <2>7, Zenon DEF Mute
  <2> QED BY <2>1, <2>3, <2>4, <2>6, <2>8, Zenon
<1> QED BY <1>1, <1>2, Zenon

(* Raft::appendEntry is quiet for a leader and sends nothing.              *)
LEMMA AppendEntryType ==
  ASSUME Counting, NEW r \in Node, r.state = "Leader", NEW es \in Seq(Entry)
  PROVE  LET s == appendEntry(r, es)
         IN  /\ Quiet(r, s) /\ s.msgs = r.msgs
             /\ s.panic \/ Len(s.log) = Len(r.log) + Len(es)
<1> DEFINE new == [k \in 1..Len(es) |-> [es[k] EXCEPT !.term = r.term]]
           r1  == append(r, lastIndex(r), new)
           pr  == maybeUpdate(r1.prs[r.id], lastIndex(r1))
           r2  == [r1 EXCEPT !.prs[r.id] = maybeUpdate(@, lastIndex(r1))]
<1>2. /\ new \in Seq(Entry) /\ Len(new) = Len(es)
      /\ \A k \in 1..Len(new) : new[k].term = r.term
  <2>1. r.term \in Nat
    BY LogFields
  <2>2. \A k \in 1..Len(es) : /\ [es[k] EXCEPT !.term = r.term] \in Entry
                              /\ [es[k] EXCEPT !.term = r.term].term = r.term
    <3>1. \A k \in 1..Len(es) : es[k] \in Entry
      OBVIOUS
    <3> QED BY <3>1, <2>1, Zenon DEF Entry
  <2> QED BY <2>2
<1>1. appendEntry(r, es) = maybeCommit(r2)
  BY DEF appendEntry
<1> HIDE DEF new
<1>7. r.log \in Seq(Entry) /\ lastIndex(r) = Len(r.log) /\ lastIndex(r) \in Nat
  BY LogFields DEF lastIndex
<1>3. /\ Mute(r, r1) /\ r1.prs = r.prs /\ r1.msgs = r.msgs
      /\ r1.committed = r.committed /\ (r.panic => r1.panic)
      /\ \/ r1.panic
         \/ /\ Len(r1.log) = Len(r.log) + Len(new)
            /\ \A n \in 1..Len(r.log) : r1.log[n] = r.log[n]
            /\ \A k \in 1..Len(new) : r1.log[Len(r.log) + k] = new[k]
  <2> DEFINE n == lastIndex(r)
             s == append(r, n, new)
  <2>1. n \in Nat /\ n = Len(r.log)
    BY <1>7
  <2> HIDE DEF n
  <2>2. /\ Mute(r, s) /\ s.prs = r.prs /\ s.msgs = r.msgs
        /\ s.committed = r.committed /\ (r.panic => s.panic)
        /\ \/ s.panic
           \/ /\ Len(s.log) = n + Len(new)
              /\ \A i \in 1..n : s.log[i] = r.log[i]
              /\ \A k \in 1..Len(new) : s.log[n + k] = new[k]
    BY <1>2, <2>1, AppendType, ZenonT(30)
  <2>3. r1 = s
    BY DEF n
  <2> HIDE DEF s, r1
  <2> QED BY <2>1, <2>2, <2>3, ZenonT(30)
<1> HIDE DEF r1
<1>8. Quiet(r, r1) /\ r1 \in Node /\ r1.state = "Leader"
  <2>1. r1 \in Node /\ r1.state = "Leader"
    BY <1>3, Zenon DEF Mute
  <2>2. r1.log \in Seq(Entry) /\ r.committed \in Nat
    BY <2>1, LogFields, Zenon
  <2>3. ASSUME ~r1.panic
        PROVE  Extends(r, r1)
    <3>1. /\ Len(r1.log) = Len(r.log) + Len(new)
          /\ \A n \in 1..Len(r.log) : r1.log[n] = r.log[n]
          /\ \A k \in 1..Len(new) : r1.log[Len(r.log) + k] = new[k]
      BY <1>3, <2>3, Zenon
    <3>2. ASSUME NEW n \in Len(r.log) + 1..Len(r1.log) PROVE r1.log[n].term = r.term
      <4>1. n - Len(r.log) \in 1..Len(new) /\ n = Len(r.log) + (n - Len(r.log))
        BY <3>1, <1>2, <1>7, <2>2
      <4> QED BY <4>1, <3>1, <1>2, Zenon
    <3>3. ~r.panic
      BY <1>3, <2>3, Zenon
    <3> QED BY <3>1, <3>2, <3>3, <1>2, <1>3, <1>7, <2>2 DEF Extends
  <2>4. ASSUME ~r1.panic
        PROVE  Orderly(r, r1)
    <3>1. Len(r.log) \in Nat /\ Len(r1.log) \in Nat /\ Len(r.log) <= Len(r1.log)
      BY <1>2, <1>3, <1>7, <2>2, <2>4
    <3>2. \A j \in Server : r.prs[j] \in ProgressType
      BY LogFields, Zenon
    <3>3. Fits(r) => Fits(r1)
      BY <1>3, <3>1, <3>2, FitGrows, ZenonT(30) DEF Fits
    <3> QED BY <1>3, <3>3, Zenon DEF Orderly
  <2> QED BY <1>3, <2>1, <2>3, <2>4, Zenon DEF Quiet, Extends
<1>4. /\ lastIndex(r1) \in Nat /\ lastIndex(r1) = Len(r1.log)
      /\ r1.prs[r.id] \in ProgressType /\ r.id \in Server
  BY <1>8, LogFields DEF lastIndex
<1>5. /\ Advances(r1.prs[r.id], pr) /\ r2 = [r1 EXCEPT !.prs[r.id] = pr]
      /\ Fits(r1) => Fit(pr, Len(r1.log))
  <2>1. /\ Advances(r1.prs[r.id], pr)
        /\ \A len \in Nat : lastIndex(r1) <= len /\ Fit(r1.prs[r.id], len) => Fit(pr, len)
    BY <1>4, UpdateType, Zenon
  <2> HIDE DEF pr
  <2>2. Fits(r1) => Fit(pr, Len(r1.log))
    BY <1>4, <2>1 DEF Fits
  <2> QED BY <2>1, <2>2, Zenon DEF pr
<1> HIDE DEF pr, r2
<1>6. /\ Quiet(r1, r2) /\ r2.msgs = r1.msgs /\ r2 \in Node /\ r2.state = "Leader"
      /\ r2.log = r1.log
  <2> DEFINE s == [r1 EXCEPT !.prs[r.id] = pr]
  <2>1. r1.id = r.id
    BY <1>3 DEF Mute
  <2>2. Quiet(r1, s) /\ s.msgs = r1.msgs /\ s.log = r1.log
    BY <1>8, <1>4, <1>5, <2>1, SetProgress, ZenonT(30)
  <2>3. r2 = s
    BY <1>5
  <2> HIDE DEF s
  <2> QED BY <2>2, <2>3, <1>8, ZenonT(30) DEF Quiet, Mute
<1>9. /\ Quiet(r2, maybeCommit(r2)) /\ maybeCommit(r2).msgs = r2.msgs
      /\ maybeCommit(r2).log = r2.log
  BY <1>6, MaybeCommitType
<1>10. Quiet(r, appendEntry(r, es)) /\ Quiet(r1, appendEntry(r, es))
  BY <1>1, <1>6, <1>8, <1>9, QuietTrans
<1>11. appendEntry(r, es).panic \/ ~r1.panic
  BY <1>10, Zenon DEF Quiet, Extends
<1>12. r1.panic \/ Len(r1.log) = Len(r.log) + Len(es)
  BY <1>2, <1>3, Zenon
<1> QED BY <1>1, <1>3, <1>6, <1>9, <1>10, <1>11, <1>12, ZenonT(30)

(* Such a log says nothing new.                                            *)
LEMMA SplicedFacts ==
  ASSUME NEW r \in Node, NEW m \in Msg, NEW l \in Seq(Entry),
         NEW k0 \in 1..Len(m.entries), m.index + k0 - 1 <= Len(r.log),
         Len(l) = m.index + Len(m.entries), Spliced(r, m, k0, l)
  PROVE  Facts(l) \subseteq Facts(r.log) \cup MsgFacts(m)
<1>1. /\ r.log \in Seq(Entry) /\ m.index \in Nat /\ m.entries \in Seq(Entry)
      /\ Len(m.entries) \in Nat /\ k0 \in Nat /\ k0 >= 1 /\ k0 <= Len(m.entries)
  BY LogFields DEF Msg, MsgFrom
<1> DEFINE before(n) == IF n = 1 THEN 0 ELSE l[n - 1].term
           prev(k) == IF k = 1 THEN m.logterm ELSE m.entries[k - 1].term
<1> SUFFICES ASSUME NEW n \in 1..Len(l)
             PROVE  <<n, l[n], before(n)>> \in Facts(r.log) \cup MsgFacts(m)
  BY Zenon DEF Facts
<1>2. CASE n <= m.index + k0 - 1
  <2>1. n \in 1..Len(r.log) /\ n \in 1..m.index + k0 - 1
        /\ (n # 1 => n - 1 \in 1..m.index + k0 - 1)
    BY <1>1, <1>2, SMTT(30)
  <2>2. l[n] = r.log[n] /\ (n # 1 => l[n - 1] = r.log[n - 1])
    BY <2>1 DEF Spliced
  <2> QED BY <2>1, <2>2 DEF Facts
<1>3. CASE ~(n <= m.index + k0 - 1)
  <2>1. PICK k \in Nat : n = m.index + k
    <3>1. n \in Nat /\ n >= m.index
      BY <1>1, <1>3
    <3>2. n - m.index \in Nat /\ n = m.index + (n - m.index)
      BY <1>1, <3>1
    <3> QED BY <3>2
  <2>2. k \in k0..Len(m.entries) /\ k \in 1..Len(m.entries)
    BY <1>1, <1>3, <2>1
  <2>3. l[n] = m.entries[k]
    BY <2>1, <2>2, Zenon DEF Spliced
  <2>4. before(n) = prev(k)
    <3>1. CASE k > k0
      <4>1. k - 1 \in k0..Len(m.entries) /\ n - 1 = m.index + (k - 1) /\ n # 1 /\ k # 1
        BY <3>1, <1>1, <2>1, <2>2, SMTT(30)
      <4>2. l[m.index + (k - 1)] = m.entries[k - 1]
        BY <4>1, Zenon DEF Spliced
      <4> QED BY <4>1, <4>2, Zenon
    <3>2. CASE k = k0
      <4>1. prev(k) = term(r, n - 1)
        <5>1. CASE k = 1
          <6>1. n - 1 = m.index
            BY <5>1, <2>1, <1>1, SMTT(30)
          <6> QED BY <5>1, <6>1, Zenon DEF Spliced
        <5>2. CASE k # 1
          <6>1. k - 1 \in 1..k0 - 1 /\ n - 1 = m.index + (k - 1)
            <7>1. k - 1 \in 1..k0 - 1
              BY <5>2, <3>2, <2>2, <1>1
            <7>2. n - 1 = m.index + (k - 1)
              BY <1>1, <2>1, SMTT(30)
            <7> QED BY <7>1, <7>2, Zenon
          <6>2. m.entries[k - 1].term = term(r, m.index + (k - 1))
            BY <6>1 DEF Spliced
          <6> QED BY <5>2, <6>1, <6>2, Zenon
        <5> QED BY <5>1, <5>2, Zenon
      <4>2. n = 1 => term(r, n - 1) = 0
        BY DEF term
      <4>3. n # 1 => n - 1 \in 1..Len(r.log) /\ n - 1 \in 1..m.index + k0 - 1
        BY <1>1, <3>2, <2>1
      <4>4. n # 1 => l[n - 1] = r.log[n - 1]
        BY <4>3, Zenon DEF Spliced
      <4> QED BY <4>1, <4>2, <4>3, <4>4, Zenon DEF term
    <3> QED BY <3>1, <3>2, <2>2, <1>1
  <2>5. <<m.index + k, m.entries[k], prev(k)>> \in MsgFacts(m)
    BY <2>2 DEF MsgFacts
  <2> QED BY <2>1, <2>3, <2>4, <2>5, Zenon
<1> QED BY <1>1, <1>2, <1>3

(* Committing and acknowledging what was accepted is part of accepting it. *)
LEMMA AcceptsTrans ==
  ASSUME NEW r, NEW s, NEW t, NEW m,
         Accepts(r, s, m), Mute(s, t), Extends(s, t), t.log = s.log,
         \/ t.panic \/ t.committed = s.committed
         \/ t.committed <= m.commit /\ t.committed <= m.index + Len(m.entries),
         \A x \in t.msgs : x \in s.msgs \/ Acks(r, x, m.index + Len(m.entries))
  PROVE  Accepts(r, t, m)
<1>1. Mute(r, t) /\ r \in Node /\ s \in Node /\ t \in Node
  BY MuteTrans, Zenon DEF Accepts, Mute
<1>2. /\ r.committed \in Nat /\ s.committed \in Nat /\ t.committed \in Nat
      /\ Len(s.log) \in Nat
  BY <1>1, LogFields
<1> DEFINE reach == m.index + Len(m.entries)
<1> HIDE DEF reach
<1>3. ASSUME ~t.panic
      PROVE  /\ ~r.panic
             /\ Takes(r, m, t.log)
             /\ r.committed <= t.committed
             /\ r.committed <= Len(r.log) => t.committed <= Len(t.log)
             /\ \/ t.committed = r.committed
                \/ t.committed <= m.commit /\ t.committed <= reach
             /\ \A x \in t.msgs : x \in r.msgs \/ Acks(r, x, reach)
  <2>1. /\ ~s.panic /\ s.committed <= t.committed
        /\ s.committed <= Len(s.log) => t.committed <= Len(t.log)
    BY <1>3, Zenon DEF Extends
  <2>2. /\ ~r.panic
        /\ Takes(r, m, s.log)
        /\ r.committed <= s.committed
        /\ r.committed <= Len(r.log) => s.committed <= Len(s.log)
        /\ \/ s.committed = r.committed
           \/ s.committed <= m.commit /\ s.committed <= reach
        /\ \A x \in s.msgs : x \in r.msgs \/ Acks(r, x, reach)
    BY <2>1, Zenon DEF Accepts, reach
  <2>3. \A x \in t.msgs : x \in r.msgs \/ Acks(r, x, reach)
    BY <2>2, ZenonT(30) DEF reach
  <2>4. r.committed <= t.committed /\ (r.committed <= Len(r.log) => t.committed <= Len(t.log))
    BY <1>2, <2>1, <2>2, SMTT(30)
  <2>5. \/ t.committed = r.committed
        \/ t.committed <= m.commit /\ t.committed <= reach
    <3>1. \/ t.committed = s.committed
          \/ t.committed <= m.commit /\ t.committed <= reach
      BY <1>3, Zenon DEF reach
    <3> QED BY <2>2, <3>1
  <2> QED BY <2>2, <2>3, <2>4, <2>5, Zenon
<1> QED BY <1>1, <1>3, ZenonT(30) DEF Accepts, reach

(* RaftLog::maybeAppend accepts the entries of a MsgApp that matches.      *)
LEMMA MaybeAppendType ==
  ASSUME Counting, NEW r \in Node, NEW m \in Msg, matchTerm(r, m.index, m.logterm)
  PROVE  LET s == maybeAppend(r, m.index, m.commit, m.entries)
         IN  Accepts(r, s, m) /\ s.msgs = r.msgs
<1> DEFINE ci   == findConflict(r, m.index, m.entries)
           new  == {k \in 1..Len(m.entries) :
                      ~matchTerm(r, m.index + k, m.entries[k].term)}
           q    == panicIf(r, ci <= r.committed)
           tail == SubSeq(m.entries, ci - m.index, Len(m.entries))
           appended == IF ci = 0 THEN r ELSE append(q, ci - 1, tail)
           to   == StdMin(m.commit, m.index + Len(m.entries))
<1>1. maybeAppend(r, m.index, m.commit, m.entries) = commitTo(appended, to)
  BY DEF maybeAppend
<1>2. /\ m.index \in Nat /\ m.commit \in Nat /\ m.entries \in Seq(Entry)
      /\ Len(m.entries) \in Nat /\ to \in Nat
      /\ to <= m.commit /\ to <= m.index + Len(m.entries)
  BY DEF Msg, MsgFrom, StdMin
<1>5. r.log \in Seq(Entry) /\ r.committed \in Nat
  BY LogFields, Zenon
<1>3. Accepts(r, appended, m) /\ appended.msgs = r.msgs
  <2>1. CASE ci = 0
    <3>1. Mute(r, r)
      BY QuietRefl, Zenon DEF Quiet
    <3>2. new = {}
      <4>1. new \in SUBSET Nat
        OBVIOUS
      <4>2. new # {} => Min(new) \in new
        <5> HIDE DEF new
        <5> QED BY <4>1, MinType, ZenonT(30)
      <4>3. new # {} => ci = m.index + Min(new) /\ Min(new) \in 1..Len(m.entries)
        BY <4>2, Zenon DEF findConflict
      <4> HIDE DEF new
      <4> QED BY <2>1, <4>3, <1>2
    <3>3. \A k \in 1..Len(m.entries) : m.entries[k].term = term(r, m.index + k)
      BY <3>2, Zenon DEF matchTerm
    <3>4. Takes(r, m, r.log)
      BY <3>3, <1>5 DEF Takes, matchTerm
    <3> HIDE DEF ci
    <3> QED BY <2>1, <3>1, <3>4, <1>5 DEF Accepts
  <2>2. CASE ci # 0
    <3>1. new # {} /\ ci = m.index + Min(new)
      BY <2>2 DEF findConflict
    <3> DEFINE k0 == Min(new)
    <3>2. k0 \in new /\ \A k \in new : k0 <= k
      <4>1. new \in SUBSET Nat
        OBVIOUS
      <4> HIDE DEF new
      <4> QED BY <3>1, <4>1, MinType, ZenonT(30)
    <3> HIDE DEF k0
    <3>3. k0 \in 1..Len(m.entries) /\ ci = m.index + k0
      BY <3>1, <3>2, ZenonT(30) DEF k0
    <3>4. \A k \in 1..k0 - 1 : m.entries[k].term = term(r, m.index + k)
      BY <3>2, <3>3, <1>2, SMTT(30) DEF matchTerm
    <3>15. m.entries[k0].term # term(r, m.index + k0)
      BY <3>2 DEF matchTerm
    <3>5. ci \in Nat /\ ci - 1 \in Nat /\ ci - m.index = k0
      BY <3>3, <1>2
    <3> HIDE DEF ci, new
    <3>6. /\ tail \in Seq(Entry) /\ Len(tail) = Len(m.entries) - k0 + 1
          /\ \A k \in 1..Len(m.entries) - k0 + 1 : tail[k] = m.entries[k0 + k - 1]
      <4>1. \A k \in k0..Len(m.entries) : m.entries[k] \in Entry
        BY <1>2, <3>3
      <4>2. tail = SubSeq(m.entries, k0, Len(m.entries))
        BY <3>5, Zenon
      <4>3. k0 \in Int /\ Len(m.entries) \in Int /\ k0 <= Len(m.entries)
        BY <1>2, <3>3
      <4> HIDE DEF tail
      <4> DEFINE len == Len(m.entries)
                 cut == SubSeq(m.entries, k0, len)
      <4>4. /\ cut \in Seq(Entry) /\ Len(cut) = IF k0 <= len THEN len - k0 + 1 ELSE 0
            /\ \A k \in 1..len - k0 + 1 : cut[k] = m.entries[k0 + k - 1]
        <5> HIDE DEF len
        <5> QED BY <4>1, <4>3, SubSeqType DEF len
      <4> HIDE DEF cut
      <4> QED BY <4>2, <4>3, <4>4, ZenonT(30) DEF cut
    <3>7. /\ Quiet(r, q) /\ q.log = r.log /\ q.msgs = r.msgs
          /\ q.committed = r.committed /\ (ci <= r.committed => q.panic)
      BY PanicIfType, Zenon
    <3>8. Mute(r, q) /\ q \in Node /\ (r.panic => q.panic)
      BY <3>7, Zenon DEF Quiet, Mute, Extends
    <3> HIDE DEF tail, q
    <3> DEFINE s == append(q, ci - 1, tail)
    <3>9. /\ Mute(q, s) /\ s.msgs = q.msgs
          /\ s.committed = q.committed /\ (q.panic => s.panic)
          /\ \/ s.panic
             \/ /\ q.committed <= ci - 1 /\ ci - 1 <= Len(q.log)
                /\ Len(s.log) = ci - 1 + Len(tail)
                /\ \A n \in 1..ci - 1 : s.log[n] = q.log[n]
                /\ \A k \in 1..Len(tail) : s.log[ci - 1 + k] = tail[k]
      BY <3>5, <3>6, <3>8, AppendType, ZenonT(30)
    <3>10. appended = s
      BY <2>2, Zenon
    <3> HIDE DEF s, appended
    <3>11. Mute(r, s) /\ s \in Node
      BY <3>8, <3>9, MuteTrans, Zenon DEF Mute
    <3>12. ASSUME ~s.panic
           PROVE  /\ ~r.panic /\ Takes(r, m, s.log)
                  /\ r.committed <= Len(r.log) => s.committed <= Len(s.log)
      <4>1. /\ ~r.panic /\ r.committed <= ci - 1 /\ ci - 1 <= Len(r.log)
            /\ Len(s.log) = ci - 1 + Len(tail)
            /\ \A n \in 1..ci - 1 : s.log[n] = r.log[n]
            /\ \A k \in 1..Len(tail) : s.log[ci - 1 + k] = tail[k]
        BY <3>7, <3>8, <3>9, <3>12, Zenon
      <4>2. Len(s.log) = m.index + Len(m.entries)
        <5>1. Len(s.log) = ci - 1 + Len(tail) /\ Len(tail) = Len(m.entries) - k0 + 1
          BY <3>6, <4>1, Zenon
        <5> QED BY <5>1, <1>2, <3>3
      <4>3. ASSUME NEW k \in k0..Len(m.entries)
            PROVE  s.log[m.index + k] = m.entries[k]
        <5> DEFINE x == k - k0 + 1
                   len == Len(m.entries)
        <5>5. /\ m.index \in Nat /\ len \in Nat /\ k0 \in Nat /\ k \in Nat
              /\ k0 <= k /\ k <= len /\ ci = m.index + k0
          BY <1>2, <3>3
        <5> HIDE DEF len
        <5>1. x \in 1..len - k0 + 1
          BY <5>5
        <5>2. ci - 1 + x = m.index + k
          BY <5>5
        <5>3. k0 + x - 1 = k
          BY <5>5
        <5> HIDE DEF x
        <5>4. s.log[ci - 1 + x] = tail[x] /\ tail[x] = m.entries[k0 + x - 1]
          BY <3>6, <4>1, <5>1, Zenon DEF len
        <5> QED BY <5>2, <5>3, <5>4, ZenonT(30)
      <4>4. \A n \in 1..m.index + k0 - 1 : s.log[n] = r.log[n]
        BY <1>2, <3>3, <4>1
      <4>5. Spliced(r, m, k0, s.log)
        BY <3>4, <4>3, <4>4, Zenon DEF Spliced, matchTerm
      <4>6. m.index + k0 - 1 <= Len(r.log) /\ s.log \in Seq(Entry)
        BY <1>2, <3>3, <3>11, <4>1, LogFields, SMTT(30)
      <4>7. Facts(s.log) \subseteq Facts(r.log) \cup MsgFacts(m)
        BY <3>3, <4>2, <4>5, <4>6, SplicedFacts, Zenon
      <4>8. r.committed <= Len(s.log) /\ s.committed = r.committed
        <5>1. Len(s.log) >= ci - 1
          BY <1>2, <3>3, <4>2
        <5>2. Len(s.log) \in Nat
          BY <1>2, <4>2
        <5> QED BY <1>5, <3>5, <3>7, <3>9, <4>1, <5>1, <5>2, SMTT(30)
      <4>9. ASSUME NEW n \in 1..Len(r.log), n <= r.committed
            PROVE  n <= Len(s.log) /\ s.log[n] = r.log[n]
        BY <1>5, <3>5, <4>1, <4>6, <4>8, <4>9, SMTT(30)
      <4>10. Takes(r, m, s.log)
        BY <3>3, <3>15, <4>2, <4>5, <4>6, <4>7, <4>9, Zenon DEF Takes, matchTerm
      <4> QED BY <4>1, <4>8, <4>10, Zenon
    <3>13. s.msgs = r.msgs /\ s.committed = r.committed
      BY <3>7, <3>9, Zenon
    <3>14. r.committed <= s.committed
      BY <3>13, <1>5
    <3>16. Accepts(r, s, m)
      BY <3>11, <3>12, <3>13, <3>14, Zenon DEF Accepts
    <3> QED BY <3>10, <3>13, <3>16, ZenonT(30)
  <2> QED BY <2>1, <2>2, Zenon
<1> HIDE DEF appended, to
<1>4. appended \in Node
  BY <1>3 DEF Accepts, Mute
<1> DEFINE t == commitTo(appended, to)
<1>6. /\ Mute(appended, t) /\ Extends(appended, t)
      /\ t.log = appended.log /\ t.msgs = appended.msgs
      /\ t.panic \/ t.committed = appended.committed \/ t.committed = to
  BY <1>2, <1>4, CommitToType, Zenon
<1> HIDE DEF t
<1>8. \/ t.panic \/ t.committed = appended.committed
      \/ t.committed <= m.commit /\ t.committed <= m.index + Len(m.entries)
  BY <1>2, <1>6, Zenon
<1>7. Accepts(r, t, m)
  BY <1>3, <1>6, <1>8, AcceptsTrans, Zenon
<1> QED BY <1>1, <1>3, <1>6, <1>7, ZenonT(30) DEF t
-----------------------------------------------------------------------------
(* Assignments to fields that have nothing to do with votes                *)

(* Both timers may be set.                                                 *)
LEMMA SetTimers ==
  ASSUME NEW r \in Node, NEW e \in Nat, NEW h \in Nat
  PROVE  LET s == [r EXCEPT !.heartbeatElapsed = h, !.electionElapsed = e]
         IN  /\ Quiet(r, s) /\ s.log = r.log /\ s.prs = r.prs /\ s.msgs = r.msgs
             /\ s.committed = r.committed
<1> DEFINE s == [r EXCEPT !.heartbeatElapsed = h, !.electionElapsed = e]
<1>1. s \in RaftType
  BY Zenon DEF RaftType, Node
<1>2. /\ s.id = r.id /\ s.term = r.term /\ s.vote = r.vote /\ s.state = r.state
      /\ s.votes = r.votes /\ s.log = r.log /\ s.committed = r.committed
      /\ s.msgs = r.msgs /\ s.panic = r.panic /\ s.prs = r.prs
  BY DEF RaftType, Node
<1> HIDE DEF s
<1>3. s \in Node
  BY <1>1, <1>2 DEF Node
<1> QED BY <1>2, <1>3, Untouched, Zenon DEF s

(* heartbeatElapsed_ may be set.                                           *)
LEMMA SetHeartbeatElapsed ==
  ASSUME NEW r \in Node, NEW h \in Nat
  PROVE  LET s == [r EXCEPT !.heartbeatElapsed = h]
         IN  /\ Quiet(r, s) /\ s.log = r.log /\ s.prs = r.prs /\ s.msgs = r.msgs
             /\ s.committed = r.committed
<1> DEFINE s == [r EXCEPT !.heartbeatElapsed = h]
<1>1. s \in RaftType
  BY Zenon DEF RaftType, Node
<1>2. /\ s.id = r.id /\ s.term = r.term /\ s.vote = r.vote /\ s.state = r.state
      /\ s.votes = r.votes /\ s.log = r.log /\ s.committed = r.committed
      /\ s.msgs = r.msgs /\ s.panic = r.panic /\ s.prs = r.prs
  BY DEF RaftType, Node
<1> HIDE DEF s
<1>3. s \in Node
  BY <1>1, <1>2 DEF Node
<1> QED BY <1>2, <1>3, Untouched, Zenon DEF s

(* electionElapsed_ may be set.                                            *)
LEMMA SetElectionElapsed ==
  ASSUME NEW r \in Node, NEW e \in Nat
  PROVE  LET s == [r EXCEPT !.electionElapsed = e]
         IN  /\ Quiet(r, s) /\ s.log = r.log /\ s.prs = r.prs /\ s.msgs = r.msgs
             /\ s.committed = r.committed
<1> DEFINE s == [r EXCEPT !.electionElapsed = e]
<1>1. s \in RaftType
  BY Zenon DEF RaftType, Node
<1>2. /\ s.id = r.id /\ s.term = r.term /\ s.vote = r.vote /\ s.state = r.state
      /\ s.votes = r.votes /\ s.log = r.log /\ s.committed = r.committed
      /\ s.msgs = r.msgs /\ s.panic = r.panic /\ s.prs = r.prs
  BY DEF RaftType, Node
<1> HIDE DEF s
<1>3. s \in Node
  BY <1>1, <1>2 DEF Node
<1> QED BY <1>2, <1>3, Untouched, Zenon DEF s

(* A follower may note who leads.                                          *)
LEMMA SetLead ==
  ASSUME NEW r \in Node, NEW e \in Nat, NEW l \in Server
  PROVE  LET s == [r EXCEPT !.electionElapsed = e, !.lead = l]
         IN  /\ Quiet(r, s) /\ s.log = r.log /\ s.prs = r.prs /\ s.msgs = r.msgs
             /\ s.committed = r.committed
<1> DEFINE s == [r EXCEPT !.electionElapsed = e, !.lead = l]
<1>1. s \in RaftType
  BY Zenon DEF RaftType, Node
<1>2. /\ s.id = r.id /\ s.term = r.term /\ s.vote = r.vote /\ s.state = r.state
      /\ s.votes = r.votes /\ s.log = r.log /\ s.committed = r.committed
      /\ s.msgs = r.msgs /\ s.panic = r.panic /\ s.prs = r.prs
  BY DEF RaftType, Node
<1> HIDE DEF s
<1>3. s \in Node
  BY <1>1, <1>2 DEF Node
<1> QED BY <1>2, <1>3, Untouched, Zenon DEF s

(* leadTransferee_ may be set.                                             *)
LEMMA SetTransferee ==
  ASSUME NEW r \in Node, NEW t \in Server \cup {None}
  PROVE  LET s == [r EXCEPT !.leadTransferee = t]
         IN  /\ Quiet(r, s) /\ s.log = r.log /\ s.prs = r.prs /\ s.msgs = r.msgs
             /\ s.committed = r.committed
<1> DEFINE s == [r EXCEPT !.leadTransferee = t]
<1>1. s \in RaftType
  BY Zenon DEF RaftType, Node
<1>2. /\ s.id = r.id /\ s.term = r.term /\ s.vote = r.vote /\ s.state = r.state
      /\ s.votes = r.votes /\ s.log = r.log /\ s.committed = r.committed
      /\ s.msgs = r.msgs /\ s.panic = r.panic /\ s.prs = r.prs
  BY DEF RaftType, Node
<1> HIDE DEF s
<1>3. s \in Node
  BY <1>1, <1>2 DEF Node
<1> QED BY <1>2, <1>3, Untouched, Zenon DEF s

(* A transfer may begin: leadTransferee_ and the election timer.           *)
LEMMA SetTransfer ==
  ASSUME NEW r \in Node, NEW e \in Nat, NEW t \in Server \cup {None}
  PROVE  LET s == [r EXCEPT !.electionElapsed = e, !.leadTransferee = t]
         IN  /\ Quiet(r, s) /\ s.log = r.log /\ s.prs = r.prs /\ s.msgs = r.msgs
             /\ s.committed = r.committed
<1> DEFINE s == [r EXCEPT !.electionElapsed = e, !.leadTransferee = t]
<1>1. s \in RaftType
  BY Zenon DEF RaftType, Node
<1>2. /\ s.id = r.id /\ s.term = r.term /\ s.vote = r.vote /\ s.state = r.state
      /\ s.votes = r.votes /\ s.log = r.log /\ s.committed = r.committed
      /\ s.msgs = r.msgs /\ s.panic = r.panic /\ s.prs = r.prs
  BY DEF RaftType, Node
<1> HIDE DEF s
<1>3. s \in Node
  BY <1>1, <1>2 DEF Node
<1> QED BY <1>2, <1>3, Untouched, Zenon DEF s

(* The queue of read requests may be replaced.                             *)
LEMMA SetReadOnly ==
  ASSUME NEW r \in Node, NEW q \in Seq(ReadRequest)
  PROVE  LET s == [r EXCEPT !.readOnly = q]
         IN  /\ Quiet(r, s) /\ s.log = r.log /\ s.prs = r.prs /\ s.msgs = r.msgs
             /\ s.committed = r.committed
<1> DEFINE s == [r EXCEPT !.readOnly = q]
<1>1. s \in RaftType
  BY Zenon DEF RaftType, Node
<1>2. /\ s.id = r.id /\ s.term = r.term /\ s.vote = r.vote /\ s.state = r.state
      /\ s.votes = r.votes /\ s.log = r.log /\ s.committed = r.committed
      /\ s.msgs = r.msgs /\ s.panic = r.panic /\ s.prs = r.prs
  BY DEF RaftType, Node
<1> HIDE DEF s
<1>3. s \in Node
  BY <1>1, <1>2 DEF Node
<1> QED BY <1>2, <1>3, Untouched, Zenon DEF s

(* The set of answered reads may be replaced.                              *)
LEMMA SetReadStates ==
  ASSUME NEW r \in Node, NEW q \in SUBSET [ctx : ReadCtx, index : Nat]
  PROVE  LET s == [r EXCEPT !.readStates = q]
         IN  /\ Quiet(r, s) /\ s.log = r.log /\ s.prs = r.prs /\ s.msgs = r.msgs
             /\ s.committed = r.committed
<1> DEFINE s == [r EXCEPT !.readStates = q]
<1>1. s \in RaftType
  BY Zenon DEF RaftType, Node
<1>2. /\ s.id = r.id /\ s.term = r.term /\ s.vote = r.vote /\ s.state = r.state
      /\ s.votes = r.votes /\ s.log = r.log /\ s.committed = r.committed
      /\ s.msgs = r.msgs /\ s.panic = r.panic /\ s.prs = r.prs
  BY DEF RaftType, Node
<1> HIDE DEF s
<1>3. s \in Node
  BY <1>1, <1>2, Zenon DEF Node
<1> QED BY <1>2, <1>3, Untouched, Zenon DEF s

(* The types of the other fields of a node.                                *)
LEMMA MinorFields ==
  ASSUME NEW r \in Node
  PROVE  /\ r.lead \in Server \cup {None} /\ r.leadTransferee \in Server \cup {None}
         /\ r.electionElapsed \in Nat /\ r.heartbeatElapsed \in Nat
         /\ r.readOnly \in Seq(ReadRequest)
         /\ r.readStates \in SUBSET [ctx : ReadCtx, index : Nat]
BY DEF RaftType, Node
-----------------------------------------------------------------------------
(* Replication                                                             *)

(* The MsgApp that maybeSendAppend builds is a draft, says what the log    *)
(* says, and is a piece of it if the log reaches that far.                 *)
LEMMA AppMsgType ==
  ASSUME NEW r \in Node, NEW to \in Server, NEW next \in Nat \ {0}
  PROVE  /\ appMsg(r, to, next) \in Draft /\ appMsg(r, to, next).type = "MsgApp"
         /\ MsgFacts(appMsg(r, to, next)) \subseteq Facts(r.log)
         /\ appMsg(r, to, next).commit = r.committed
         /\ next <= Len(r.log) + 1 => Quotes(appMsg(r, to, next), r.log)
<1> DEFINE m == Message("MsgApp", to)
           last == StdMin(next + MaxSize - 1, lastIndex(r))
           es == entries(r, next, MaxSize)
           x  == appMsg(r, to, next)
<1>1. m \in Draft /\ m.type = "MsgApp"
  BY MessageIsDraft, Zenon DEF MessageType, ReadType
<1>2. last \in Int /\ last <= lastIndex(r)
  BY LogFields, ConfigAssumption DEF StdMin
<1>3. /\ es \in Seq(Entry) /\ Len(es) = (IF next <= last THEN last - next + 1 ELSE 0)
      /\ \A k \in 1..last - next + 1 : es[k] = r.log[next + k - 1]
  <2>1. \A k \in next..last : r.log[k] \in Entry
    BY <1>2, LogFields DEF lastIndex
  <2>2. es = SubSeq(r.log, next, last)
    BY Zenon DEF entries
  <2> HIDE DEF last, es
  <2> QED BY <1>2, <2>1, <2>2, SubSeqType, SMTT(30)
<1>4. term(r, next - 1) \in Nat /\ r.committed \in Nat /\ next - 1 \in Nat
  BY TermType, LogFields, SMTT(30)
<1> HIDE DEF m
<1>5. x = [m EXCEPT !.index = next - 1, !.logterm = term(r, next - 1),
                    !.entries = es, !.commit = r.committed]
  BY DEF appMsg, m
<1> HIDE DEF es, x, last
<1>6. x \in Draft /\ x.type = "MsgApp"
  BY <1>1, <1>3, <1>4, <1>5, Zenon DEF Draft, MsgFrom, ReadType
<1>7. /\ x.index = next - 1 /\ x.logterm = term(r, next - 1) /\ x.entries = es
      /\ x.commit = r.committed
  BY <1>1, <1>5, Zenon DEF Draft, MsgFrom
<1>8. ASSUME NEW k \in 1..Len(es)
      PROVE  <<next - 1 + k, es[k], IF k = 1 THEN term(r, next - 1) ELSE es[k - 1].term>>
               \in Facts(r.log)
  <2>1. /\ r.log \in Seq(Entry) /\ lastIndex(r) = Len(r.log) /\ Len(es) = last - next + 1
        /\ next <= last
    BY <1>3, LogFields DEF lastIndex
  <2>2. PICK n \in 1..Len(r.log) : n = next - 1 + k
    BY <1>2, <2>1
  <2>3. es[k] = r.log[n]
    <3>1. k \in 1..last - next + 1 /\ next + k - 1 = n
      BY <2>1, <2>2, SMTT(30)
    <3> QED BY <3>1, <1>3, Zenon
  <2>4. (IF k = 1 THEN term(r, next - 1) ELSE es[k - 1].term)
          = (IF n = 1 THEN 0 ELSE r.log[n - 1].term)
    <3>1. CASE k = 1
      <4>1. next - 1 = n - 1 /\ (n # 1 => n - 1 \in 1..Len(r.log))
        BY <3>1, <2>1, <2>2, SMTT(30)
      <4> QED BY <3>1, <4>1 DEF term
    <3>2. CASE k # 1
      <4>1. k - 1 \in 1..last - next + 1 /\ next + (k - 1) - 1 = n - 1 /\ n # 1
        BY <3>2, <2>1, <2>2
      <4>2. es[k - 1] = r.log[next + (k - 1) - 1]
        BY <4>1, <1>3, Zenon
      <4> QED BY <3>2, <4>1, <4>2, ZenonT(30)
    <3> QED BY <3>1, <3>2, Zenon
  <2> QED BY <2>2, <2>3, <2>4, ZenonT(30) DEF Facts
<1>9. MsgFacts(x) \subseteq Facts(r.log)
  BY <1>7, <1>8, ZenonT(30) DEF MsgFacts
<1>10. ASSUME next <= Len(r.log) + 1 PROVE Quotes(x, r.log)
  <2>1. lastIndex(r) = Len(r.log) /\ Len(r.log) \in Nat
    BY LogFields, Zenon DEF lastIndex
  <2>2. x.index + Len(es) <= Len(r.log)
    BY <1>2, <1>3, <1>7, <1>10, <2>1, SMTT(30)
  <2>3. ASSUME NEW k \in 1..Len(es) PROVE es[k] = r.log[x.index + k]
    <3>1. k \in 1..last - next + 1 /\ next + k - 1 = x.index + k
      BY <1>2, <1>3, <1>7, SMTT(30)
    <3>2. es[k] = r.log[next + k - 1]
      BY <3>1, <1>3, Zenon
    <3> QED BY <3>1, <3>2, Zenon
  <2>4. x.logterm = IF x.index = 0 THEN 0 ELSE r.log[x.index].term
    <3>1. x.index \in Nat /\ x.index <= Len(r.log)
      BY <1>7, <1>10, <2>1
    <3> QED BY <1>7, <3>1, <2>1 DEF term
  <2> QED BY <1>7, <2>2, <2>3, <2>4, ZenonT(30) DEF Quotes
<1> QED BY <1>6, <1>7, <1>9, <1>10, Zenon DEF x

(* A leader that has noted that it sends it may do so.                     *)
LEMMA AppSendable ==
  ASSUME NEW r \in Node, NEW to \in Server, NEW next \in Nat \ {0},
         NEW s \in Node, s.state = "Leader", s.log = r.log,
         s.committed = r.committed, Fits(s) => next <= Len(r.log) + 1
  PROVE  Sendable(s, appMsg(r, to, next))
<1> DEFINE x == appMsg(r, to, next)
<1>1. /\ x \in Draft /\ x.type = "MsgApp" /\ MsgFacts(x) \subseteq Facts(r.log)
      /\ x.commit = r.committed /\ (next <= Len(r.log) + 1 => Quotes(x, r.log))
      /\ r.committed \in Nat
  BY AppMsgType, LogFields, ZenonT(30)
<1> HIDE DEF x
<1>2. Proper(s, s, x)
  BY <1>1 DEF Proper
<1> QED BY <1>1, <1>2, Zenon DEF Sendable, Ballot, Grant, x

(* A chunk of entries ends within the log.                                 *)
LEMMA ChunkEndType ==
  ASSUME NEW r \in Node, NEW p \in ProgressType, NEW k \in Nat
  PROVE  chunkEnd(r, p, k) \in Nat /\ chunkEnd(r, p, k) <= Len(r.log)
<1>1. p.next - 1 \in Nat /\ lastIndex(r) \in Nat
  BY LogFields DEF ProgressType
<1>2. k * MaxSize \in Nat
  BY ConfigAssumption
<1>3. p.next - 1 + k * MaxSize \in Nat
  BY <1>1, <1>2
<1> QED BY <1>1, <1>3, SMTT(30) DEF chunkEnd, StdMin, lastIndex

(* A window that is not full takes one message more.                       *)
LEMMA SentAppendType ==
  ASSUME NEW p \in ProgressType, NEW last \in Nat, ~IsPaused(p),
         NEW len \in Nat, last <= len
  PROVE  /\ Steady(p, sentAppend(p, last), len)
         /\ Fit(sentAppend(p, last), len) => p.next <= len + 1
<1> DEFINE q == optimisticUpdate(p, last)
<1>1. Steady(p, q, len) /\ q \in ProgressType /\ q.ins = p.ins
  BY OptimisticType, Zenon DEF Steady, Advances, optimisticUpdate, ProgressType
<1>2. Steady(p, p, len) /\ Steady(p, pause(p), len)
  BY BecomeType DEF Steady, Advances
<1>3. ASSUME p.state = "Replicate"
      PROVE  Steady(p, [q EXCEPT !.ins = Append(@, last)], len)
  <2> HIDE DEF q
  <2>1. p.ins \in Seq(Nat) /\ Len(p.ins) <= MaxInflight /\ Len(p.ins) # MaxInflight
    BY <1>3 DEF ProgressType, Window, IsPaused, full
  <2>2. Append(q.ins, last) \in Window
    BY <1>1, <2>1, MaxInflightAssumption DEF Window
  <2> DEFINE x == [q EXCEPT !.ins = Append(@, last)]
  <2>3. /\ x \in ProgressType /\ x.isLearner = q.isLearner /\ x.match = q.match
        /\ x.next = q.next /\ x.state = q.state
    BY <2>2, <1>1, Zenon DEF ProgressType
  <2> HIDE DEF x
  <2>4. Steady(p, x, len)
    BY <1>1, <2>3, Zenon DEF Steady, Advances, Fit
  <2> QED BY <2>4 DEF x
<1>4. Fit(sentAppend(p, last), len) => p.next <= len + 1
  <2>1. p.next \in Nat
    BY DEF ProgressType
  <2>2. CASE last < p.next
    BY <2>2 DEF sentAppend, Fit
  <2> QED BY <2>1, <2>2
<1> QED BY <1>2, <1>3, <1>4, Zenon DEF sentAppend

(* sendAppend to some nodes is quiet for a leader.                         *)
LEMMA SendAppendsQuiet ==
  ASSUME NEW r \in Node, r.state = "Leader", NEW S \in SUBSET Server
  PROVE  Quiet(r, sendAppends(r, S))
<1> DEFINE ready == {j \in S : ~IsPaused(r.prs[j])}
           p == [j \in DOMAIN r.prs |->
                  IF j \in ready THEN sentAppend(r.prs[j], chunkEnd(r, r.prs[j], 1))
                                 ELSE r.prs[j]]
           s == [r EXCEPT !.prs = p]
           ms == {appMsg(r, j, r.prs[j].next) : j \in ready}
<1>1. sendAppends(r, S) = sendAll(s, ms)
  BY Zenon DEF sendAppends
<1>2. DOMAIN r.prs = Server /\ \A j \in Server : r.prs[j] \in ProgressType
  BY LogFields, Zenon
<1>3. ready \subseteq Server
  OBVIOUS
<1> HIDE DEF ready
<1>4. ASSUME NEW j \in Server
      PROVE  /\ Steady(r.prs[j], p[j], Len(r.log))
             /\ j \in ready /\ Fit(p[j], Len(r.log)) => r.prs[j].next <= Len(r.log) + 1
  <2>1. /\ chunkEnd(r, r.prs[j], 1) \in Nat
        /\ chunkEnd(r, r.prs[j], 1) <= Len(r.log) /\ Len(r.log) \in Nat
    <3>1. Len(r.log) \in Nat
      BY LogFields
    <3>2. r.prs[j] \in ProgressType /\ 1 \in Nat
      BY <1>2, Zenon
    <3> QED BY <3>1, <3>2, ChunkEndType, ZenonT(30)
  <2>2. CASE j \in ready
    <3>1. ~IsPaused(r.prs[j])
      BY <2>2, Zenon DEF ready
    <3> DEFINE q == sentAppend(r.prs[j], chunkEnd(r, r.prs[j], 1))
    <3>2. /\ Steady(r.prs[j], q, Len(r.log))
          /\ Fit(q, Len(r.log)) => r.prs[j].next <= Len(r.log) + 1
      BY <1>2, <2>1, <3>1, SentAppendType, ZenonT(30)
    <3>3. p[j] = q
      BY <1>2, <2>2, Zenon
    <3> QED BY <3>2, <3>3, Zenon
  <2>3. CASE j \notin ready
    <3>1. p[j] = r.prs[j]
      BY <1>2, <2>3, Zenon
    <3> QED BY <1>2, <2>3, <3>1, Zenon DEF Steady, Advances
  <2> QED BY <2>2, <2>3, Zenon
<1>5. p \in [Server -> ProgressType]
  <2>1. \A j \in Server : p[j] \in ProgressType
    BY <1>4, Zenon DEF Steady, Advances
  <2> QED BY <1>2, <2>1
<1> HIDE DEF p
<1>6. /\ Quiet(r, s) /\ s.log = r.log /\ s.prs = p /\ s.committed = r.committed
  BY <1>4, <1>5, SetAllProgress, Zenon
<1>7. s \in Node /\ s.state = "Leader"
  BY <1>6, Zenon DEF Quiet, Mute
<1> HIDE DEF s
<1>8. ASSUME NEW m \in ms PROVE Sendable(s, m)
  <2>1. PICK j \in ready : m = appMsg(r, j, r.prs[j].next)
    BY Zenon
  <2>2. r.prs[j].next \in Nat \ {0} /\ j \in Server
    BY <1>2, <1>3, Zenon DEF ProgressType
  <2>3. Fits(s) => r.prs[j].next <= Len(r.log) + 1
    BY <1>4, <1>6, <2>2, Zenon DEF Fits
  <2> QED BY <2>1, <2>2, <2>3, <1>6, <1>7, AppSendable, ZenonT(30)
<1> HIDE DEF ms
<1>9. Quiet(s, sendAll(s, ms))
  BY <1>7, <1>8, SendAllQuiet, Zenon
<1> QED BY <1>1, <1>6, <1>9, QuietTrans, ZenonT(30) DEF s

(* bcastAppend and sendAppend are quiet for a leader.                      *)
LEMMA BcastQuiet ==
  ASSUME NEW r \in Node, r.state = "Leader"
  PROVE  Quiet(r, bcastAppend(r)) /\ \A j \in Server : Quiet(r, sendAppend(r, j))
<1>1. DOMAIN r.prs \ {r.id} \in SUBSET Server
  BY LogFields
<1>2. ASSUME NEW j \in Server PROVE Quiet(r, sendAppend(r, j))
  <2>1. {j} \in SUBSET Server
    OBVIOUS
  <2> QED BY <2>1, SendAppendsQuiet, Zenon DEF sendAppend
<1> QED BY <1>1, <1>2, SendAppendsQuiet, ZenonT(30) DEF bcastAppend

(* The loop of maybeSendAppend is quiet for a leader.                      *)
LEMMA SendRemainingQuiet ==
  ASSUME NEW r \in Node, r.state = "Leader", NEW to \in Server
  PROVE  Quiet(r, sendRemaining(r, to))
<1> DEFINE pr   == r.prs[to]
           n    == roundsLeft(r, pr)
           sent == [k \in 1..n |-> chunkEnd(r, pr, k)]
           opt  == optimisticUpdate(pr, chunkEnd(r, pr, n))
           pr1  == IF n = 0 THEN pr
                   ELSE IF pr.state = "Replicate"
                        THEN [opt EXCEPT !.ins = @ \o sent]
                        ELSE pause(pr)
           s    == [r EXCEPT !.prs[to] = pr1]
           ms   == {appMsg(r, to, chunkEnd(r, pr, k - 1) + 1) : k \in 1..n}
<1>1. sendRemaining(r, to) = sendAll(s, ms)
  BY DEF sendRemaining
<1>2. pr \in ProgressType
  BY LogFields, Zenon
<1>3. /\ n \in Nat
      /\ pr.state = "Replicate" => n <= MaxInflight - Len(pr.ins) \/ n = 0
  <2> DEFINE left == lastIndex(r) + 1 - pr.next
  <2>1. left \in Int
    BY <1>2, LogFields DEF ProgressType
  <2>2. MaxSize \in Nat \ {0} /\ MaxInflight \in Nat
    BY ConfigAssumption, MaxInflightAssumption
  <2>3. Len(pr.ins) \in Nat /\ Len(pr.ins) <= MaxInflight
    BY <1>2 DEF ProgressType, Window
  <2> HIDE DEF left, pr
  <2>4. ASSUME ~(left <= 0) PROVE (left + MaxSize - 1) \div MaxSize \in Nat
    BY <2>1, <2>2, <2>4
  <2>5. n = IF IsPaused(pr) \/ left <= 0 THEN 0
            ELSE IF pr.state = "Replicate"
                 THEN StdMin(MaxInflight - Len(pr.ins), (left + MaxSize - 1) \div MaxSize)
                 ELSE 1
    BY DEF roundsLeft, left
  <2> HIDE DEF n
  <2> QED BY <2>1, <2>2, <2>3, <2>4, <2>5 DEF StdMin
<1> HIDE DEF n, pr
<1>4. \A k \in 0..n : chunkEnd(r, pr, k) \in Nat /\ chunkEnd(r, pr, k) <= Len(r.log)
  BY <1>2, <1>3, ChunkEndType
<1>5. sent \in Seq(Nat) /\ Len(sent) = n
  BY <1>3, <1>4
<1> HIDE DEF sent
<1>6. Steady(pr, pr1, Len(r.log))
  <2>1. Steady(pr, pr, Len(r.log)) /\ Steady(pr, pause(pr), Len(r.log))
    BY <1>2, BecomeType, LogFields DEF Steady, Advances
  <2>2. ASSUME n # 0, pr.state = "Replicate"
        PROVE  Steady(pr, [opt EXCEPT !.ins = @ \o sent], Len(r.log))
    <3>1. Steady(pr, opt, Len(r.log)) /\ opt \in ProgressType
      <4>1. /\ chunkEnd(r, pr, n) \in Nat /\ chunkEnd(r, pr, n) <= Len(r.log)
            /\ Len(r.log) \in Nat
        BY <1>3, <1>4, LogFields
      <4>2. Steady(pr, opt, Len(r.log))
        BY <1>2, <4>1, OptimisticType, Zenon
      <4> QED BY <4>2, Zenon DEF Steady, Advances
    <3>2. opt.ins = pr.ins
      BY <1>2, Zenon DEF optimisticUpdate, ProgressType
    <3> HIDE DEF opt
    <3>3. opt.ins \in Seq(Nat) /\ n <= MaxInflight - Len(opt.ins)
      BY <3>1, <3>2, <2>2, <1>3, Zenon DEF ProgressType, Window
    <3>4. opt.ins \o sent \in Seq(Nat) /\ Len(opt.ins \o sent) = Len(opt.ins) + n
      BY <3>3, <1>5, ConcatType, Zenon
    <3>5. opt.ins \o sent \in Window
      BY <3>3, <3>4, <1>3, MaxInflightAssumption DEF Window
    <3> DEFINE x == [opt EXCEPT !.ins = @ \o sent]
    <3>6. /\ x \in ProgressType /\ x.isLearner = opt.isLearner /\ x.match = opt.match
          /\ x.next = opt.next /\ x.state = opt.state
      BY <3>1, <3>5, Zenon DEF ProgressType
    <3> HIDE DEF x
    <3>7. Steady(pr, x, Len(r.log))
      BY <3>1, <3>6, ZenonT(30) DEF Steady, Advances, Fit
    <3> QED BY <3>7, Zenon DEF x
  <2> QED BY <2>1, <2>2, Zenon
<1> HIDE DEF pr1
<1>7. Quiet(r, s) /\ s.log = r.log /\ s.committed = r.committed
  BY <1>6, SetSteady DEF pr
<1>8. s \in Node /\ s.state = "Leader"
  BY <1>7, Zenon DEF Quiet, Mute
<1> HIDE DEF s
<1>9. ASSUME NEW m \in ms PROVE Sendable(s, m)
  <2>1. PICK k \in 1..n : m = appMsg(r, to, chunkEnd(r, pr, k - 1) + 1)
    OBVIOUS
  <2>2. k - 1 \in 0..n
    BY <1>3
  <2>3. /\ chunkEnd(r, pr, k - 1) + 1 \in Nat \ {0}
        /\ chunkEnd(r, pr, k - 1) + 1 <= Len(r.log) + 1
    BY <2>2, <1>4, LogFields
  <2> QED BY <2>1, <2>3, <1>7, <1>8, AppSendable, Zenon
<1> HIDE DEF ms
<1>10. Quiet(s, sendAll(s, ms))
  BY <1>8, <1>9, SendAllQuiet, Zenon
<1> QED BY <1>1, <1>7, <1>10, QuietTrans, ZenonT(30) DEF s

(* The broadcasts of heartbeats are quiet for a leader.                    *)
LEMMA BcastHeartbeatQuiet ==
  ASSUME NEW r \in Node, r.state = "Leader"
  PROVE  /\ \A ctx \in ReadCtx \cup {None} : Quiet(r, bcastHeartbeatWithCtx(r, ctx))
         /\ Quiet(r, bcastHeartbeat(r))
<1>1. ASSUME NEW ctx \in ReadCtx \cup {None}
      PROVE  Quiet(r, bcastHeartbeatWithCtx(r, ctx))
  <2> DEFINE beat(j) == [Message("MsgHeartbeat", j) EXCEPT
                           !.commit  = StdMin(r.prs[j].match, r.committed),
                           !.context = ctx]
             ms == {beat(j) : j \in DOMAIN r.prs \ {r.id}}
  <2>1. ASSUME NEW j \in Server \ {r.id} PROVE Sendable(r, beat(j))
    <3> DEFINE c == StdMin(r.prs[j].match, r.committed)
               m == Message("MsgHeartbeat", j)
               x == beat(j)
    <3>1. c \in Nat /\ c <= r.committed /\ c <= r.prs[j].match
      <4>1. r.prs[j] \in ProgressType /\ r.committed \in Nat
        BY LogFields
      <4> QED BY <4>1 DEF ProgressType, StdMin
    <3>2. m \in Draft /\ m.type = "MsgHeartbeat" /\ m.to = j
      BY MessageIsDraft, Zenon DEF MessageType, ReadType
    <3>3. x = [m EXCEPT !.commit = c, !.context = ctx]
      OBVIOUS
    <3> HIDE DEF c, m, x
    <3>4. x \in Draft /\ x.type = "MsgHeartbeat" /\ x.to = j /\ x.commit = c
      BY <3>1, <3>2, <3>3, ZenonT(30) DEF Draft, MsgFrom, ReadType
    <3>5. Proper(r, r, x)
      BY <3>1, <3>4, Zenon DEF Proper
    <3> QED BY <3>4, <3>5, Zenon DEF Sendable, Ballot, Grant, x
  <2>2. \A m \in ms : Sendable(r, m)
    <3>1. DOMAIN r.prs = Server
      BY LogFields
    <3> HIDE DEF beat
    <3> QED BY <2>1, <3>1, Zenon
  <2>3. bcastHeartbeatWithCtx(r, ctx) = sendAll(r, ms)
    BY Zenon DEF bcastHeartbeatWithCtx
  <2> HIDE DEF ms
  <2> QED BY <2>2, <2>3, SendAllQuiet, Zenon
<1>2. ASSUME r.readOnly # <<>>
      PROVE  r.readOnly[Len(r.readOnly)].ctx \in ReadCtx
  <2>1. r.readOnly \in Seq(ReadRequest)
    BY MinorFields, Zenon
  <2>2. r.readOnly[Len(r.readOnly)] \in ReadRequest
    BY <1>2, <2>1
  <2> QED BY <2>2, Zenon DEF ReadRequest
<1> QED BY <1>1, <1>2, Zenon DEF bcastHeartbeat

(* handleHeartbeat hears the leader.                                       *)
LEMMA HandleHeartbeatType ==
  ASSUME NEW r \in Node, NEW m \in Msg, m.type = "MsgHeartbeat"
  PROVE  Hears(r, handleHeartbeat(r, m), m)
<1> DEFINE q == commitTo(r, m.commit)
           resp == Message("MsgHeartbeatResp", m.from)
           x == [resp EXCEPT !.context = m.context]
           t == send(q, x)
<1>1. m.commit \in Nat /\ m.from \in Server
      /\ m.context \in ReadCtx \cup {None, CampaignTransfer}
  BY DEF Msg, MsgFrom
<1>2. /\ Mute(r, q) /\ Extends(r, q) /\ q.log = r.log /\ q.msgs = r.msgs
      /\ q.panic \/ q.committed = r.committed \/ q.committed = m.commit
  BY <1>1, CommitToType, Zenon
<1>3. resp \in Draft /\ resp.type = "MsgHeartbeatResp"
  BY <1>1, MessageIsDraft, Zenon DEF MessageType, ReadType
<1>9. q \in Node /\ r \in Node /\ q.term = r.term
  BY <1>2, Zenon DEF Mute
<1> HIDE DEF q, resp
<1>4. x \in Draft /\ x.type = "MsgHeartbeatResp"
  BY <1>1, <1>3, Zenon DEF Draft, MsgFrom, ReadType
<1> HIDE DEF x
<1>5. /\ Mute(q, t) /\ Extends(q, t) /\ t.log = q.log /\ t.committed = q.committed
      /\ t.msgs = q.msgs \cup {stamped(q, x)}
  BY <1>9, <1>4, SendMute, Zenon DEF Ballot, Grant, LeaderType
<1>6. Replies(r, m, stamped(q, x))
  <2>1. stamped(q, x).type = "MsgHeartbeatResp"
    BY <1>4, <1>9, StampedType, Zenon
  <2> QED BY <2>1, Zenon DEF Replies
<1> HIDE DEF t
<1>7. Mute(r, t) /\ Extends(r, t)
  <2>1. t \in Node
    BY <1>5, Zenon DEF Mute
  <2> QED BY <2>1, <1>2, <1>5, <1>9, MuteTrans, ExtendsTrans, Zenon
<1>8. t.panic \/ ~q.panic
  BY <1>5, Zenon DEF Extends
<1>10. t.panic \/ t.committed = r.committed \/ t.committed = m.commit
  BY <1>2, <1>5, <1>8, ZenonT(30)
<1>11. \A y \in t.msgs : y \in r.msgs \/ Replies(r, m, y)
  BY <1>2, <1>5, <1>6, Zenon
<1>13. t.log = r.log
  BY <1>2, <1>5, Zenon
<1>12. Hears(r, t, m)
  BY <1>7, <1>10, <1>11, <1>13, Zenon DEF Hears
<1> QED BY <1>12, Zenon DEF handleHeartbeat, q, x, resp, t

(* handleAppendEntries accepts the entries, or hears the leader.           *)
LEMMA HandleAppendEntriesType ==
  ASSUME Counting, NEW r \in Node, NEW m \in Msg, m.type = "MsgApp"
  PROVE  \/ Hears(r, handleAppendEntries(r, m), m)
         \/ Accepts(r, handleAppendEntries(r, m), m)
<1> DEFINE resp == Message("MsgAppResp", m.from)
           x == [resp EXCEPT !.index = r.committed]
           y == [resp EXCEPT !.index = m.index + Len(m.entries)]
           z == [resp EXCEPT !.index = m.index, !.reject = TRUE,
                             !.rejecthint = lastIndex(r)]
           q == maybeAppend(r, m.index, m.commit, m.entries)
<1>1. /\ m.commit \in Nat /\ m.index \in Nat /\ m.from \in Server
      /\ m.entries \in Seq(Entry)
  BY Zenon DEF Msg, MsgFrom
<1>2. m.index + Len(m.entries) \in Nat /\ r.committed \in Nat /\ lastIndex(r) \in Nat
  BY <1>1, LogFields
<1>3. resp \in Draft /\ resp.type = "MsgAppResp" /\ resp.reject = FALSE
  BY <1>1, MessageIsDraft, ZenonT(30) DEF MessageType, ReadType
<1>4. matchTerm(r, m.index, m.logterm) => Accepts(r, q, m)
  BY MaybeAppendType
<1>5. \/ handleAppendEntries(r, m) \in {send(r, x), send(r, z)}
      \/ matchTerm(r, m.index, m.logterm) /\ handleAppendEntries(r, m) = send(q, y)
  BY DEF handleAppendEntries
<1> HIDE DEF resp, q
<1>6. /\ x \in Draft /\ x.type = "MsgAppResp" /\ ~x.reject /\ x.index = r.committed
      /\ y \in Draft /\ y.type = "MsgAppResp" /\ ~y.reject
      /\ y.index = m.index + Len(m.entries)
      /\ z \in Draft /\ z.type = "MsgAppResp" /\ z.reject
  BY <1>1, <1>2, <1>3, Zenon DEF Draft, MsgFrom, ReadType
<1> HIDE DEF x, y, z
<1>7. ASSUME NEW w \in {x, z} PROVE Hears(r, send(r, w), m)
  <2> DEFINE t == send(r, w)
  <2>1. /\ Mute(r, t) /\ Extends(r, t) /\ t.log = r.log /\ t.committed = r.committed
        /\ t.msgs = r.msgs \cup {stamped(r, w)}
    BY <1>6, SendMute, ZenonT(30) DEF Ballot, Grant, LeaderType
  <2>2. LET v == stamped(r, w)
        IN  v.type = "MsgAppResp" /\ v.term = r.term /\ v.reject = w.reject
            /\ v.index = w.index
    BY <1>6, StampedType DEF VoteType, VoteRespType
  <2>3. Replies(r, m, stamped(r, w))
    BY <1>6, <2>2, ZenonT(30) DEF Acks, Replies
  <2> HIDE DEF t
  <2>4. \A v \in t.msgs : v \in r.msgs \/ Replies(r, m, v)
    BY <2>1, <2>3, Zenon
  <2>5. Hears(r, t, m)
    BY <2>1, <2>4, Zenon DEF Hears
  <2> QED BY <2>5 DEF t
<1>8. ASSUME matchTerm(r, m.index, m.logterm)
      PROVE  Accepts(r, send(q, y), m)
  <2> DEFINE t == send(q, y)
  <2>1. Accepts(r, q, m) /\ q \in Node /\ q.term = r.term
    BY <1>4, <1>8, Zenon DEF Accepts, Mute
  <2>2. /\ Mute(q, t) /\ Extends(q, t) /\ t.log = q.log /\ t.committed = q.committed
        /\ t.msgs = q.msgs \cup {stamped(q, y)}
    BY <1>6, <2>1, SendMute, ZenonT(30) DEF Ballot, Grant, LeaderType
  <2>3. LET v == stamped(q, y)
        IN  v.type = "MsgAppResp" /\ v.term = r.term /\ v.reject = y.reject
            /\ v.index = y.index
    BY <1>6, <2>1, StampedType, Zenon DEF VoteType, VoteRespType
  <2>4. Acks(r, stamped(q, y), m.index + Len(m.entries))
    BY <1>6, <2>3, Zenon DEF Acks
  <2> HIDE DEF t
  <2> QED BY <2>1, <2>2, <2>4, AcceptsTrans, Zenon DEF t
<1> QED BY <1>5, <1>7, <1>8, Zenon
-----------------------------------------------------------------------------
(* The leader's handlers                                                   *)

(* Advancing a Progress twice advances it.                                 *)
LEMMA AdvancesTrans ==
  ASSUME NEW p, NEW q, NEW s, Advances(p, q), Advances(q, s)
  PROVE  Advances(p, s)
BY DEF Advances

(* recentActive_ may be set.                                               *)
LEMMA ActiveType ==
  ASSUME NEW p \in ProgressType, NEW b \in BOOLEAN, NEW len
  PROVE  Steady(p, [p EXCEPT !.recentActive = b], len)
BY Zenon DEF Steady, Fit, Advances, ProgressType

(* sendTimeoutNow is quiet for a leader.                                   *)
LEMMA SendTimeoutNowQuiet ==
  ASSUME NEW r \in Node, r.state = "Leader", NEW to \in Server
  PROVE  Quiet(r, sendTimeoutNow(r, to))
<1>1. Message("MsgTimeoutNow", to) \in Draft /\ Message("MsgTimeoutNow", to).type = "MsgTimeoutNow"
  BY MessageIsDraft, Zenon DEF MessageType, ReadType
<1> QED BY <1>1, SendQuiet, Zenon DEF sendTimeoutNow, Ballot, Grant

(* A rejected MsgApp is handled quietly.                                   *)
LEMMA HandleAppRejectedQuiet ==
  ASSUME NEW r \in Node, r.state = "Leader", NEW m \in Msg
  PROVE  Quiet(r, handleAppRejected(r, m))
<1> DEFINE old == r.prs[m.from]
           pr  == [old EXCEPT !.recentActive = TRUE]
           pr1 == maybeDecrTo(pr, m.index, m.rejecthint)
           pr2 == IF pr1.state = "Replicate" THEN becomeProbe(pr1) ELSE pr1
           s   == [r EXCEPT !.prs[m.from] = pr]
           s2  == [r EXCEPT !.prs[m.from] = pr2]
<1>1. handleAppRejected(r, m) \in {s, sendAppend(s2, m.from)}
  BY Zenon DEF handleAppRejected
<1>2. old \in ProgressType /\ m.from \in Server /\ m.index \in Nat /\ m.rejecthint \in Nat
  BY LogFields, MsgFields, Zenon
<1> HIDE DEF old
<1> DEFINE len == Len(r.log)
<1>10. len \in Nat
  BY LogFields
<1> HIDE DEF len
<1>3. Steady(old, pr, len) /\ pr \in ProgressType
  BY <1>2, ActiveType, Zenon DEF Steady, Advances
<1> HIDE DEF pr
<1>4. Steady(pr, pr1, len) /\ pr1 \in ProgressType
  BY <1>2, <1>3, <1>10, DecrToType, ZenonT(30) DEF Steady, Advances
<1> HIDE DEF pr1
<1>5. Steady(pr1, pr2, len)
  BY <1>4, <1>10, BecomeType, Zenon DEF Steady, Advances
<1> HIDE DEF pr2
<1>6. Steady(old, pr2, len)
  BY <1>3, <1>4, <1>5, SteadyTrans
<1>7. Quiet(r, s) /\ Quiet(r, s2)
  BY <1>2, <1>3, <1>6, SetSteady, Zenon DEF old, len
<1> HIDE DEF s, s2
<1>8. s2 \in Node /\ s2.state = "Leader"
  BY <1>7, Zenon DEF Quiet, Mute
<1>9. Quiet(s2, sendAppend(s2, m.from))
  BY <1>2, <1>8, BcastQuiet, Zenon
<1> QED BY <1>1, <1>7, <1>9, QuietTrans, ZenonT(30)

(* The Progress of the sender of an acknowledgement may be replaced.       *)
LEMMA SetMatch ==
  ASSUME NEW r \in Node, NEW m \in Msg, NEW q,
         Advances(r.prs[m.from], q), q.match \in {r.prs[m.from].match, m.index},
         Fits(r) /\ m.index <= Len(r.log) => Fit(q, Len(r.log))
  PROVE  Matches(r, [r EXCEPT !.prs[m.from] = q], m)
<1> DEFINE s == [r EXCEPT !.prs[m.from] = q]
<1>1. s \in RaftType
  BY MsgFields, Zenon DEF RaftType, Node, Advances
<1>2. /\ s.id = r.id /\ s.term = r.term /\ s.vote = r.vote /\ s.state = r.state
      /\ s.votes = r.votes /\ s.log = r.log /\ s.committed = r.committed
      /\ s.msgs = r.msgs /\ s.panic = r.panic /\ s.prs = [r.prs EXCEPT ![m.from] = q]
  BY Zenon DEF RaftType, Node
<1> HIDE DEF s
<1>3. m.from \in Server /\ r.prs \in [Server -> ProgressType]
  BY MsgFields, LogFields, ZenonT(30)
<1>4. \A k \in Server : s.prs[k].isLearner = r.prs[k].isLearner
  BY <1>2, <1>3, Zenon DEF Advances
<1>5. s \in Node
  BY <1>1, <1>4, ZenonT(30) DEF Node
<1>6. Mute(r, s)
  BY <1>2, <1>5, ZenonT(30) DEF Mute
<1>7. /\ \A j \in Server \ {m.from} : s.prs[j] = r.prs[j]
      /\ s.prs[m.from] = q
  BY <1>2, <1>3, Zenon
<1>8. Fits(r) /\ m.index <= Len(r.log) => Fits(s)
  BY <1>2, <1>3, <1>7, ZenonT(30) DEF Fits
<1> QED BY <1>2, <1>6, <1>7, <1>8, Zenon DEF Matches, s

(* handleAppendEntries succeeded: the leader learns how far the sender has *)
(* its log, and what follows is quiet.                                     *)
LEMMA HandleAppAcceptedType ==
  ASSUME Counting, NEW r \in Node, r.state = "Leader", NEW m \in Msg
  PROVE  \E a \in Node : Matches(r, a, m) /\ Quiet(a, handleAppAccepted(r, m))
<1> DEFINE old == r.prs[m.from]
           pr  == [old EXCEPT !.recentActive = TRUE]
           pr1 == maybeUpdate(pr, m.index)
           pr2 == IF pr1.state = "Probe" THEN becomeReplicate(pr1)
                  ELSE IF needSnapshotAbort(pr1) THEN becomeProbe(pr1)
                  ELSE IF pr1.state = "Replicate"
                  THEN [pr1 EXCEPT !.ins = freeTo(@, m.index)]
                  ELSE pr1
           s   == [r EXCEPT !.prs[m.from] = pr1]
           s2  == [r EXCEPT !.prs[m.from] = pr2]
           r2  == maybeCommit(s2)
           r3  == IF r2.committed # r.committed THEN bcastAppend(r2)
                  ELSE IF IsPaused(pr) THEN sendAppend(r2, m.from)
                  ELSE r2
           r4  == sendRemaining(r3, m.from)
           len == Len(r.log)
<1>1. handleAppAccepted(r, m) \in {s, r4, sendTimeoutNow(r4, m.from)}
  BY Zenon DEF handleAppAccepted
<1>2. /\ old \in ProgressType /\ m.from \in Server /\ m.index \in Nat
      /\ len \in Nat
  BY LogFields, MsgFields
<1> HIDE DEF old, len
<1>3. Steady(old, pr, len) /\ pr \in ProgressType /\ pr.match = old.match
  BY <1>2, ActiveType, Zenon DEF Steady, Advances
<1> HIDE DEF pr
<1>4. /\ Advances(pr, pr1) /\ pr1 \in ProgressType /\ pr1.match \in {old.match, m.index}
      /\ m.index <= len /\ Fit(pr, len) => Fit(pr1, len)
  BY <1>2, <1>3, UpdateType, Zenon DEF Advances
<1> HIDE DEF pr1
<1>5. Steady(pr1, pr2, len)
  <2>1. pr1 \in ProgressType
    BY <1>4 DEF Advances
  <2>2. Steady(pr1, [pr1 EXCEPT !.ins = freeTo(@, m.index)], len)
    <3>1. freeTo(pr1.ins, m.index) \in Window
      BY <1>2, <2>1, FreeToType, Zenon DEF ProgressType
    <3> QED BY <2>1, <3>1, ZenonT(30) DEF Advances, ProgressType, Steady, Fit
  <2>3. Steady(pr1, pr1, len) /\ Steady(pr1, becomeReplicate(pr1), len)
        /\ Steady(pr1, becomeProbe(pr1), len)
    BY <1>2, <2>1, BecomeType, ZenonT(30) DEF Advances, Steady
  <2> QED BY <2>2, <2>3, Zenon
<1> HIDE DEF pr2
<1>6. /\ Advances(old, pr1) /\ Advances(old, pr2)
      /\ pr1.match \in {old.match, m.index} /\ pr2.match \in {old.match, m.index}
      /\ m.index <= len /\ Fit(old, len) => Fit(pr1, len) /\ Fit(pr2, len)
  BY <1>3, <1>4, <1>5, AdvancesTrans, ZenonT(30) DEF Steady
<1>7. Matches(r, s, m) /\ Matches(r, s2, m)
  <2>1. Fits(r) => Fit(old, len)
    BY <1>2 DEF Fits, old, len
  <2> QED BY <1>2, <1>6, <2>1, SetMatch, Zenon DEF old, len
<1> HIDE DEF s, s2
<1>8. s \in Node /\ s2 \in Node /\ s2.state = "Leader"
  BY <1>7 DEF Matches, Mute
<1>17. Quiet(s, s)
  BY <1>8, QuietRefl, Zenon
<1>18. Quiet(s2, r2)
  BY <1>8, MaybeCommitType, ZenonT(30)
<1>9. r2 \in Node /\ r2.state = "Leader"
  BY <1>8, <1>18, ZenonT(30) DEF Quiet, Mute
<1> HIDE DEF r2
<1>10. Quiet(r2, r3)
  BY <1>2, <1>9, BcastQuiet, QuietRefl, ZenonT(30)
<1>11. r3 \in Node /\ r3.state = "Leader"
  BY <1>9, <1>10, Zenon DEF Quiet, Mute
<1> HIDE DEF r3
<1>12. Quiet(r3, r4)
  BY <1>2, <1>11, SendRemainingQuiet, ZenonT(30)
<1>13. r4 \in Node /\ r4.state = "Leader"
  BY <1>11, <1>12, Zenon DEF Quiet, Mute
<1> HIDE DEF r4
<1>14. Quiet(r4, sendTimeoutNow(r4, m.from))
  BY <1>2, <1>13, SendTimeoutNowQuiet, ZenonT(30)
<1>15. Quiet(s2, r4)
  BY <1>18, <1>10, <1>12, QuietTrans, ZenonT(30)
<1>16. Quiet(s2, sendTimeoutNow(r4, m.from))
  BY <1>14, <1>15, QuietTrans, ZenonT(30)
<1> DEFINE h == handleAppAccepted(r, m)
<1> HIDE DEF h
<1>19. CASE h = s
  BY <1>7, <1>8, <1>17, <1>19, Zenon DEF h
<1>20. CASE h = r4 \/ h = sendTimeoutNow(r4, m.from)
  <2>1. Quiet(s2, h)
    BY <1>15, <1>16, <1>20, Zenon
  <2> QED BY <1>7, <1>8, <2>1, Zenon DEF h
<1> QED BY <1>1, <1>19, <1>20, ZenonT(30) DEF h
=============================================================================
