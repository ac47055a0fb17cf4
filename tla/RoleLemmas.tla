----------------------------- MODULE RoleLemmas -----------------------------
(* What the other handlers do.  Reads, proposals and transfers of          *)
(* leadership are quiet; a change of role, a vote and a restart are what   *)
(* Moves says they are.                                                    *)
EXTENDS RaftLemmas
-----------------------------------------------------------------------------
(* Read-only requests                                                      *)

(* ReadOnly::addRequest keeps the type of the queue.                       *)
LEMMA AddRequestType ==
  ASSUME NEW q \in Seq(ReadRequest), NEW n \in Nat,
         NEW from \in Server \cup {None}, NEW ctx \in ReadCtx
  PROVE  addRequest(q, n, from, ctx) \in Seq(ReadRequest)
<1>1. ReadIndexStatus(ctx, n, from) \in ReadRequest
  BY DEF ReadIndexStatus, ReadRequest
<1> QED BY <1>1 DEF addRequest

(* ReadOnly::recvAck keeps the type of the queue.                          *)
LEMMA RecvAckType ==
  ASSUME NEW q \in Seq(ReadRequest), NEW from \in Server, NEW ctx
  PROVE  recvAck(q, from, ctx) \in Seq(ReadRequest)
<1>1. ASSUME NEW k \in 1..Len(q)
      PROVE  [q[k] EXCEPT !.acks = @ \cup {from}] \in ReadRequest
  <2>1. q[k] \in ReadRequest
    OBVIOUS
  <2> QED BY <2>1, Zenon DEF ReadRequest
<1> QED BY <1>1 DEF recvAck

(* ReadOnly::advance splits the queue in two queues.                       *)
LEMMA AdvanceType ==
  ASSUME Counting, NEW q \in Seq(ReadRequest), NEW ctx
  PROVE  /\ advanced(q, ctx) \in Seq(ReadRequest)
         /\ advance(q, ctx) \in Seq(ReadRequest)
<1> DEFINE P == Positions(q, ctx)
           d == advanced(q, ctx)
<1>1. d \in Seq(ReadRequest) /\ Len(d) <= Len(q)
  <2>1. CASE P = {}
    BY <2>1 DEF advanced
  <2>2. CASE P # {}
    <3>1. Min(P) \in 1..Len(q)
      <4>1. P \in SUBSET Nat /\ P \subseteq 1..Len(q)
        BY DEF Positions
      <4> QED BY <2>2, <4>1, MinType, Zenon
    <3>2. d = SubSeq(q, 1, Min(P))
      BY <2>2, Zenon DEF advanced
    <3> HIDE DEF P, d
    <3>3. \A k \in 1..Min(P) : q[k] \in ReadRequest
      BY <3>1
    <3>4. /\ SubSeq(q, 1, Min(P)) \in Seq(ReadRequest)
          /\ Len(SubSeq(q, 1, Min(P))) = Min(P)
      BY <3>1, <3>3, SubSeqType
    <3> QED BY <3>1, <3>2, <3>4
  <2> QED BY <2>1, <2>2
<1> HIDE DEF d
<1>2. SubSeq(q, Len(d) + 1, Len(q)) \in Seq(ReadRequest)
  <2>1. Len(d) \in Nat /\ Len(q) \in Nat
    BY <1>1
  <2>2. \A k \in (Len(d) + 1)..Len(q) : q[k] \in ReadRequest
    BY <2>1
  <2> QED BY <2>1, <2>2, SubSeqType
<1> QED BY <1>1, <1>2 DEF advance, d

(* Answering confirmed reads is quiet.                                     *)
LEMMA RespondReadsQuiet ==
  ASSUME NEW r \in Node, NEW Q \in SUBSET ReadRequest
  PROVE  Quiet(r, respondReads(r, Q))
<1> DEFINE isLocal(q) == q.from \in {None, r.id}
           answers == {[ctx |-> q.ctx, index |-> q.index] :
                         q \in {q \in Q : isLocal(q)}}
           s  == [r EXCEPT !.readStates = @ \cup answers]
           ms == {[Message("MsgReadIndexResp", q.from)
                     EXCEPT !.index = q.index, !.context = q.ctx] :
                    q \in {q \in Q : ~isLocal(q)}}
<1>1. respondReads(r, Q) = sendAll(s, ms)
  BY DEF respondReads
<1>2. ASSUME NEW q \in Q
      PROVE  q.ctx \in ReadCtx /\ q.index \in Nat /\ q.from \in Server \cup {None}
  BY DEF ReadRequest
<1>3. answers \in SUBSET [ctx : ReadCtx, index : Nat]
  BY <1>2
<1>4. ASSUME NEW m \in ms PROVE m \in Draft /\ m.type = "MsgReadIndexResp"
  <2>1. PICK q \in Q : /\ ~isLocal(q)
                       /\ m = [Message("MsgReadIndexResp", q.from)
                                 EXCEPT !.index = q.index, !.context = q.ctx]
    BY Zenon
  <2>2. q.from \in Server /\ "MsgReadIndexResp" \in ReadType
    BY <1>2, <2>1, Zenon DEF ReadType
  <2>3. q.ctx \in ReadCtx /\ q.index \in Nat
    BY <1>2, Zenon
  <2> DEFINE x == [Message("MsgReadIndexResp", q.from)
                     EXCEPT !.index = q.index, !.context = q.ctx]
  <2>4. x \in Draft /\ x.type = "MsgReadIndexResp"
    <3> HIDE DEF ms
    <3>1. "MsgReadIndexResp" \in MessageType
      BY DEF MessageType
    <3> QED BY <2>2, <2>3, <3>1, NoEntries, Zenon DEF Message, Draft, MsgFrom
  <2> QED BY <2>1, <2>4, Zenon
<1> HIDE DEF answers, ms
<1>5. Quiet(r, s)
  <2> DEFINE q == r.readStates \cup answers
  <2>1. q \in SUBSET [ctx : ReadCtx, index : Nat]
    BY <1>3, MinorFields
  <2> HIDE DEF q
  <2>2. Quiet(r, [r EXCEPT !.readStates = q])
    BY <2>1, SetReadStates
  <2> QED BY <2>2 DEF q
<1> HIDE DEF s
<1>6. Quiet(s, sendAll(s, ms))
  <2>1. \A m \in ms : Sendable(s, m)
    BY <1>4 DEF Sendable, Proper, Ballot, Grant, LeaderType
  <2> QED BY <2>1, <1>5, QuietNode, SendAllQuiet, ZenonT(30)
<1> QED BY <1>1, <1>5, <1>6, QuietTrans, Zenon

(* A MsgHeartbeatResp is handled quietly.                                  *)
LEMMA HandleHeartbeatRespQuiet ==
  ASSUME Counting, NEW r \in Node, r.state = "Leader", NEW m \in Msg
  PROVE  Quiet(r, handleHeartbeatResp(r, m))
<1> DEFINE old == r.prs[m.from]
           prr == resume(old)
           pr  == [prr EXCEPT !.recentActive = TRUE]
           pr1 == IF pr.state = "Replicate" /\ full(pr.ins)
                  THEN [pr EXCEPT !.ins = freeFirstOne(@)] ELSE pr
           r1  == [r EXCEPT !.prs[m.from] = pr1]
           r2  == IF pr1.match < lastIndex(r) THEN sendAppend(r1, m.from) ELSE r1
           acked == recvAck(r2.readOnly, m.from, m.context)
           done  == advanced(acked, m.context)
           rest  == advance(acked, m.context)
           Q     == {done[k] : k \in 1..Len(done)}
           s     == [r2 EXCEPT !.readOnly = acked]
           s2    == [r2 EXCEPT !.readOnly = rest]
<1>1. handleHeartbeatResp(r, m) \in {r2, s, respondReads(s2, Q)}
  BY Zenon DEF handleHeartbeatResp
<1>2. old \in ProgressType /\ m.from \in Server
  BY LogFields, MsgFields
<1> HIDE DEF old
<1> DEFINE len == Len(r.log)
<1>18. len \in Nat
  BY LogFields
<1> HIDE DEF len
<1>3. Steady(old, prr, len)
  BY <1>2, <1>18, BecomeType, ZenonT(30)
<1>4. prr \in ProgressType
  BY <1>3 DEF Steady, Advances
<1> HIDE DEF prr
<1>5. Steady(prr, pr, len)
  BY <1>4, ActiveType, Zenon
<1>6. pr \in ProgressType
  BY <1>5 DEF Steady, Advances
<1> HIDE DEF pr
<1>7. Steady(pr, pr1, len)
  <2>1. CASE pr.state = "Replicate" /\ full(pr.ins)
    <3>1. pr.ins \in Window
      BY <1>6 DEF ProgressType
    <3>2. freeFirstOne(pr.ins) \in Window
      BY <2>1, <3>1, FreeFirstOneType, ZenonT(30)
    <3> QED BY <1>6, <2>1, <3>2, Zenon DEF Steady, Fit, Advances, ProgressType
  <2>2. CASE ~(pr.state = "Replicate" /\ full(pr.ins))
    BY <1>6, <2>2 DEF Steady, Advances
  <2> QED BY <2>1, <2>2
<1> HIDE DEF pr1
<1>8. Steady(old, pr1, len)
  BY <1>3, <1>5, <1>7, SteadyTrans, ZenonT(30)
<1>9. Quiet(r, r1)
  BY <1>2, <1>8, SetSteady, ZenonT(30) DEF old, len
<1> HIDE DEF r1
<1>10. r1 \in Node /\ r1.state = "Leader"
  BY <1>9 DEF Quiet, Mute
<1>11. Quiet(r1, r2)
  BY <1>2, <1>10, BcastQuiet, QuietRefl, ZenonT(30)
<1>12. Quiet(r, r2) /\ r2 \in Node
  BY <1>9, <1>11, QuietTrans, QuietNode, ZenonT(30)
<1> HIDE DEF r2
<1>13. acked \in Seq(ReadRequest)
  <2>1. r2.readOnly \in Seq(ReadRequest)
    BY <1>12, MinorFields
  <2> QED BY <1>2, <2>1, RecvAckType, ZenonT(30)
<1> HIDE DEF acked
<1>14. done \in Seq(ReadRequest) /\ rest \in Seq(ReadRequest)
  BY <1>13, AdvanceType, Zenon
<1> HIDE DEF done, rest
<1>15. Q \in SUBSET ReadRequest
  BY <1>14
<1> HIDE DEF Q
<1>16. Quiet(r2, s) /\ Quiet(r2, s2)
  BY <1>12, <1>13, <1>14, SetReadOnly, ZenonT(30)
<1> HIDE DEF s, s2
<1>17. Quiet(s2, respondReads(s2, Q))
  BY <1>15, <1>16, QuietNode, RespondReadsQuiet, ZenonT(30)
<1> QED BY <1>1, <1>12, <1>16, <1>17, QuietTrans

(* A leader handles MsgReadIndex quietly.                                  *)
LEMMA HandleReadIndexQuiet ==
  ASSUME NEW r \in Node, r.state = "Leader",
         NEW from \in Server \cup {None}, NEW ctx \in ReadCtx
  PROVE  Quiet(r, handleReadIndex(r, from, ctx))
<1> DEFINE req == ReadIndexStatus(ctx, r.committed, from)
           R   == r.readStates \cup {[ctx |-> ctx, index |-> r.committed]}
           Q   == addRequest(r.readOnly, r.committed, from, ctx)
           s   == [r EXCEPT !.readStates = R]
           s2  == [r EXCEPT !.readOnly = Q]
<1>1. handleReadIndex(r, from, ctx)
        \in {r, s, respondReads(r, {req}), bcastHeartbeatWithCtx(s2, ctx)}
  BY DEF handleReadIndex
<1>2. r.committed \in Nat
  BY LogFields
<1>3. R \in SUBSET [ctx : ReadCtx, index : Nat]
  BY <1>2, MinorFields
<1>4. Q \in Seq(ReadRequest)
  BY <1>2, MinorFields, AddRequestType, Zenon
<1>5. {req} \in SUBSET ReadRequest
  BY <1>2 DEF ReadIndexStatus, ReadRequest
<1> HIDE DEF R, Q, req
<1>6. Quiet(r, s) /\ Quiet(r, s2)
  BY <1>3, <1>4, SetReadStates, SetReadOnly, Zenon
<1> HIDE DEF s, s2
<1>7. Quiet(r, respondReads(r, {req}))
  BY <1>5, RespondReadsQuiet
<1>8. s2 \in Node /\ s2.state = "Leader"
  BY <1>6 DEF Quiet, Mute
<1>9. Quiet(s2, bcastHeartbeatWithCtx(s2, ctx))
  BY <1>8, BcastHeartbeatQuiet
<1> QED BY <1>1, <1>6, <1>7, <1>9, QuietRefl, QuietTrans

(* Every node handles MsgReadIndex quietly.                                *)
LEMMA StepReadIndexQuiet ==
  ASSUME NEW r \in Node, NEW from \in Server \cup {None}, NEW ctx \in ReadCtx
  PROVE  Quiet(r, stepReadIndex(r, from, ctx))
<1>1. CASE r.state = "Leader"
  BY <1>1, HandleReadIndexQuiet, Zenon DEF stepReadIndex
<1>2. CASE r.state # "Leader" /\ r.state = "Follower" /\ r.lead # None
  <2> DEFINE x == [Message("MsgReadIndex", r.lead) EXCEPT !.context = ctx]
  <2>1. r.lead \in Server
    BY <1>2, MinorFields
  <2>2. x \in Draft /\ x.type = "MsgReadIndex"
    BY <2>1, NoEntries, Zenon DEF Message, Draft, MsgFrom, MessageType
  <2>3. stepReadIndex(r, from, ctx) = send(r, x)
    BY <1>2 DEF stepReadIndex
  <2> HIDE DEF x
  <2> QED BY <2>2, <2>3, SendQuiet, ZenonT(30) DEF Ballot, Grant, LeaderType
<1>3. CASE r.state # "Leader" /\ ~(r.state = "Follower" /\ r.lead # None)
  BY <1>3, QuietRefl DEF stepReadIndex
<1> QED BY <1>1, <1>2, <1>3, ZenonT(30)
-----------------------------------------------------------------------------
(* Transfer of leadership, proposals, messages of an earlier term          *)

(* A leader handles MsgTransferLeader quietly.                             *)
LEMMA HandleTransferLeaderQuiet ==
  ASSUME NEW r \in Node, r.state = "Leader", NEW j \in Server
  PROVE  Quiet(r, handleTransferLeader(r, j))
<1> DEFINE r1 == [r EXCEPT !.electionElapsed = 0, !.leadTransferee = j]
           r2 == [r EXCEPT !.leadTransferee = None]
<1>1. handleTransferLeader(r, j)
        \in {r, r2, sendTimeoutNow(r1, j), sendAppend(r1, j)}
  BY DEF handleTransferLeader
<1>2. Quiet(r, r1) /\ Quiet(r, r2)
  BY SetTransfer, SetTransferee, Zenon
<1> HIDE DEF r1, r2
<1>3. r1 \in Node /\ r1.state = "Leader"
  BY <1>2 DEF Quiet, Mute
<1>4. Quiet(r1, sendTimeoutNow(r1, j)) /\ Quiet(r1, sendAppend(r1, j))
  BY <1>3, SendTimeoutNowQuiet, BcastQuiet, ZenonT(30)
<1> QED BY <1>1, <1>2, <1>4, QuietRefl, QuietTrans, ZenonT(30)

(* Every node handles MsgTransferLeader quietly.                           *)
LEMMA StepTransferLeaderQuiet ==
  ASSUME NEW r \in Node, NEW m, m.from \in Server,
         \A l \in Server : LET x == [m EXCEPT !.to = l]
                           IN  x \in Draft /\ x.type = "MsgTransferLeader"
  PROVE  Quiet(r, stepTransferLeader(r, m))
<1>1. CASE r.state = "Leader"
  BY <1>1, HandleTransferLeaderQuiet DEF stepTransferLeader
<1>2. CASE r.state # "Leader" /\ r.state = "Follower" /\ r.lead # None
  <2> DEFINE x == [m EXCEPT !.to = r.lead]
  <2>1. r.lead \in Server
    BY <1>2, MinorFields
  <2>2. x \in Draft /\ x.type = "MsgTransferLeader"
    BY <2>1
  <2>3. stepTransferLeader(r, m) = send(r, x)
    BY <1>2 DEF stepTransferLeader
  <2> HIDE DEF x
  <2> QED BY <2>2, <2>3, SendQuiet, ZenonT(30) DEF Ballot, Grant, LeaderType
<1>3. CASE r.state # "Leader" /\ ~(r.state = "Follower" /\ r.lead # None)
  BY <1>3, QuietRefl DEF stepTransferLeader
<1> QED BY <1>1, <1>2, <1>3, ZenonT(30)

(* MsgProp is handled quietly.                                             *)
LEMMA HandlePropQuiet ==
  ASSUME Counting, NEW r \in Node, NEW es \in Seq(Entry)
  PROVE  Quiet(r, handleProp(r, es))
<1> DEFINE r1 == appendEntry(r, es)
           lead == Message("MsgProp", r.lead)
           x == [lead EXCEPT !.entries = es]
<1>1. CASE r.state = "Leader"
  <2>1. Quiet(r, r1)
    BY <1>1, AppendEntryType
  <2> HIDE DEF r1
  <2>2. r1 \in Node /\ r1.state = "Leader"
    BY <1>1, <2>1, ZenonT(30) DEF Quiet, Mute
  <2>3. Quiet(r1, bcastAppend(r1))
    BY <2>2, BcastQuiet
  <2>4. handleProp(r, es) \in {r, bcastAppend(r1)}
    BY <1>1 DEF handleProp, r1
  <2> QED BY <2>1, <2>3, <2>4, QuietRefl, QuietTrans, ZenonT(30)
<1>2. CASE r.state # "Leader" /\ r.lead # None
  <2>1. r.lead \in Server
    BY <1>2, MinorFields
  <2>2. lead \in Draft /\ lead.type = "MsgProp"
    BY <2>1, MessageIsDraft, Zenon DEF MessageType, ReadType
  <2>3. handleProp(r, es) \in {r, send(r, x)}
    BY <1>2 DEF handleProp
  <2> HIDE DEF lead
  <2>4. x \in Draft /\ x.type = "MsgProp"
    BY <2>2, ZenonT(30) DEF Draft, MsgFrom, ReadType
  <2> HIDE DEF x
  <2>5. Quiet(r, send(r, x))
    BY <2>4, SendQuiet DEF Ballot, Grant, LeaderType
  <2> QED BY <2>3, <2>5, QuietRefl, ZenonT(30)
<1>3. CASE r.state # "Leader" /\ r.lead = None
  BY <1>3, QuietRefl DEF handleProp
<1> QED BY <1>1, <1>2, <1>3, ZenonT(30)

(* A message of an earlier term is handled quietly.                        *)
LEMMA HandleLowerTermQuiet ==
  ASSUME NEW r \in Node, NEW m \in Msg
  PROVE  Quiet(r, handleLowerTerm(r, m))
<1> DEFINE x == Message("MsgAppResp", m.from)
           no == Message("MsgPreVoteResp", m.from)
           y == [no EXCEPT !.term = r.term, !.reject = TRUE]
<1>1. handleLowerTerm(r, m) \in {r, send(r, x), send(r, y)}
  BY DEF handleLowerTerm
<1>2. m.from \in Server /\ r.term \in Nat
  BY MsgFields, LogFields
<1>3. /\ x \in Draft /\ x.type = "MsgAppResp" /\ x.index = 0
      /\ no \in Draft /\ no.type = "MsgPreVoteResp"
  <2>1. {"MsgAppResp", "MsgPreVoteResp"} \subseteq MessageType \ ReadType
    BY DEF MessageType, ReadType, VoteRespType
  <2> QED BY <1>2, <2>1, MessageIsDraft, ZenonT(30)
<1> HIDE DEF x, no
<1>4. y \in Draft /\ y.type = "MsgPreVoteResp"
  BY <1>2, <1>3, Zenon DEF Draft, MsgFrom, ReadType
<1> HIDE DEF y
<1>5. Quiet(r, send(r, x)) /\ Quiet(r, send(r, y))
  BY <1>3, <1>4, SendQuiet DEF Ballot, Grant, LeaderType
<1> QED BY <1>1, <1>5, QuietRefl

(* Noting the answer to a forwarded read is quiet.                         *)
LEMMA AddReadStateQuiet ==
  ASSUME NEW r \in Node, NEW ctx \in ReadCtx, NEW n \in Nat
  PROVE  Quiet(r, [r EXCEPT !.readStates = @ \cup {[ctx |-> ctx, index |-> n]}])
<1> DEFINE R == r.readStates \cup {[ctx |-> ctx, index |-> n]}
<1>1. R \in SUBSET [ctx : ReadCtx, index : Nat]
  BY MinorFields
<1> HIDE DEF R
<1>2. Quiet(r, [r EXCEPT !.readStates = R])
  BY <1>1, SetReadStates, ZenonT(30)
<1> QED BY <1>2 DEF R
-----------------------------------------------------------------------------
(* Changes of role                                                         *)

(* Logs that are the same as the same are the same.                        *)
LEMMA SameLogTrans ==
  ASSUME NEW r, NEW s, NEW t, SameLog(r, s), SameLog(s, t)
  PROVE  SameLog(r, t)
BY DEF SameLog

(* RAFT_LOG(PANIC) leaves the log.                                         *)
LEMMA PanicIfSame ==
  ASSUME NEW r \in Node, NEW c
  PROVE  SameLog(r, panicIf(r, c))
<1> DEFINE s == panicIf(r, c)
<1>1. Quiet(r, s) /\ s.log = r.log /\ s.committed = r.committed
  BY PanicIfType, Zenon
<1> HIDE DEF s
<1>2. r.panic => s.panic
  BY <1>1, Zenon DEF Quiet, Extends
<1> QED BY <1>1, <1>2 DEF SameLog, s

(* reset starts term t, and forgets the vote only in a new term.           *)
LEMMA ResetType ==
  ASSUME NEW r \in Node, NEW t \in Nat
  PROVE  LET s == reset(r, t)
         IN  /\ s \in Node /\ s.id = r.id /\ s.state = r.state /\ s.msgs = r.msgs
             /\ s.term = t /\ s.vote = IF r.term # t THEN None ELSE r.vote
             /\ s.votes = NoVotes /\ SameLog(r, s)
             /\ Fits(s) /\ \A j \in Server \ {r.id} : s.prs[j].match = 0
<1> DEFINE n == lastIndex(r)
           prs == [j \in DOMAIN r.prs |->
                     NewProgress(n + 1, IF j = r.id THEN n ELSE 0, r.prs[j].isLearner)]
           vote == IF r.term # t THEN None ELSE r.vote
           s == reset(r, t)
<1>1. n \in Nat /\ vote \in Server \cup {None} /\ DOMAIN r.prs = Server
  BY LogFields
<1>2. s = [r EXCEPT !.term = t, !.vote = vote, !.lead = None,
                    !.electionElapsed = 0, !.heartbeatElapsed = 0,
                    !.leadTransferee = None, !.votes = NoVotes,
                    !.prs = prs, !.readOnly = <<>>]
  BY DEF reset
<1>3. /\ prs \in [Server -> ProgressType]
      /\ \A j \in Server : prs[j].isLearner = r.prs[j].isLearner
  <2>1. ASSUME NEW j \in Server
        PROVE  LET p == NewProgress(n + 1, IF j = r.id THEN n ELSE 0, r.prs[j].isLearner)
               IN  p \in ProgressType /\ p.isLearner = r.prs[j].isLearner
    <3>1. r.prs[j] \in ProgressType
      BY LogFields, ZenonT(30)
    <3>2. r.prs[j].isLearner \in BOOLEAN
      BY <3>1 DEF ProgressType
    <3> DEFINE k == IF j = r.id THEN n ELSE 0
               b == r.prs[j].isLearner
               p == NewProgress(n + 1, k, b)
    <3>3. n + 1 \in Nat \ {0} /\ k \in Nat
      BY <1>1
    <3> HIDE DEF n, k, b, prs
    <3>4. b \in BOOLEAN
      BY <3>2, ZenonT(30) DEF b
    <3>5. p \in ProgressType /\ p.isLearner = b
      BY <3>3, <3>4, NewProgressType
    <3> QED BY <3>5, ZenonT(30) DEF k, b
  <2> QED BY <1>1, <2>1, ZenonT(30)
<1>9. \A j \in Server : /\ prs[j].match = IF j = r.id THEN n ELSE 0
                        /\ Fit(prs[j], n)
  <2> SUFFICES ASSUME NEW j \in Server
               PROVE  /\ prs[j].match = IF j = r.id THEN n ELSE 0
                      /\ Fit(prs[j], n)
    BY ZenonT(30)
  <2> DEFINE k == IF j = r.id THEN n ELSE 0
             b == r.prs[j].isLearner
  <2>1. r.prs[j] \in ProgressType
    BY LogFields
  <2>2. b \in BOOLEAN
    BY <2>1 DEF ProgressType
  <2>3. n + 1 \in Nat \ {0} /\ k \in Nat /\ k <= n /\ n + 1 <= n + 1
    BY <1>1
  <2>4. prs[j] = NewProgress(n + 1, k, b)
    BY <1>1, ZenonT(30)
  <2> HIDE DEF n, k, b, prs
  <2>5. prs[j].match = k /\ Fit(prs[j], n)
    BY <1>1, <2>2, <2>3, <2>4, NewProgressType
  <2> QED BY <2>5, Zenon DEF k
<1>4. NoVotes \in [Server -> {"unknown", "granted", "rejected"}] /\ <<>> \in Seq(ReadRequest)
  BY DEF NoVotes
<1> HIDE DEF prs, vote, s, n
<1>5. s \in RaftType
  BY <1>1, <1>2, <1>3, <1>4, ZenonT(30) DEF RaftType, Node
<1>6. /\ s.id = r.id /\ s.state = r.state /\ s.msgs = r.msgs
      /\ s.term = t /\ s.vote = vote /\ s.votes = NoVotes /\ s.prs = prs
      /\ s.log = r.log /\ s.committed = r.committed /\ s.panic = r.panic
  BY <1>2 DEF RaftType, Node
<1>7. SameLog(r, s)
  BY <1>6 DEF SameLog
<1>8. Fits(s) /\ \A j \in Server \ {r.id} : s.prs[j].match = 0
  BY <1>6, <1>9 DEF Fits, n, lastIndex
<1> QED BY <1>3, <1>5, <1>6, <1>7, <1>8, ZenonT(30) DEF Node, vote, s

(* becomeFollower does what Follows says.                                  *)
LEMMA BecomeFollowerType ==
  ASSUME NEW r \in Node, NEW t \in Nat, NEW lead \in Server \cup {None}
  PROVE  Follows(r, becomeFollower(r, t, lead), t)
<1> DEFINE q == reset(r, t)
           s == [q EXCEPT !.lead = lead, !.state = "Follower"]
<1>1. /\ q \in Node /\ q.id = r.id /\ q.msgs = r.msgs /\ SameLog(r, q)
      /\ q.term = t /\ q.vote = IF r.term # t THEN None ELSE r.vote
  BY ResetType
<1>2. becomeFollower(r, t, lead) = s
  BY DEF becomeFollower
<1> HIDE DEF q
<1>3. /\ s \in RaftType /\ s.prs = q.prs /\ s.id = q.id /\ s.msgs = q.msgs
      /\ s.term = q.term /\ s.vote = q.vote /\ s.state = "Follower"
      /\ s.log = q.log /\ s.committed = q.committed /\ s.panic = q.panic
  BY <1>1, Zenon DEF RaftType, Node
<1> HIDE DEF s
<1>4. SameLog(r, s)
  BY <1>1, <1>3, ZenonT(30) DEF SameLog
<1>5. s \in Node
  BY <1>1, <1>3, ZenonT(30) DEF Node
<1> QED BY <1>1, <1>2, <1>3, <1>4, <1>5, ZenonT(30) DEF Follows

(* poll does what Polls says.                                              *)
LEMMA PollType ==
  ASSUME NEW r \in Node, NEW k \in Server, NEW granted \in BOOLEAN
  PROVE  Polls(r, poll(r, k, granted), k, granted)
<1> DEFINE v == IF granted THEN "granted" ELSE "rejected"
           s == [r EXCEPT !.votes[k] = v]
<1>1. /\ s \in RaftType /\ s.prs = r.prs /\ s.id = r.id /\ s.msgs = r.msgs
      /\ s.term = r.term /\ s.vote = r.vote /\ s.state = r.state
      /\ s.votes = [r.votes EXCEPT ![k] = v]
      /\ s.log = r.log /\ s.committed = r.committed /\ s.panic = r.panic
  BY Zenon DEF RaftType, Node
<1>2. r.votes \in [Server -> {"unknown", "granted", "rejected"}]
  BY LogFields
<1>3. poll(r, k, granted) \in {r, s}
  BY DEF poll
<1>4. Polls(r, r, k, granted)
  BY DEF Polls, SameLog
<1> HIDE DEF s
<1>6. SameLog(r, s) /\ s \in Node
  BY <1>1, ZenonT(30) DEF SameLog, Node
<1>5. Polls(r, s, k, granted)
  BY <1>1, <1>2, <1>6, ZenonT(30) DEF Polls
<1> QED BY <1>3, <1>4, <1>5, ZenonT(30)

(* becomeCandidate and the vote for oneself do what Stands says.           *)
LEMMA BecomeCandidateType ==
  ASSUME NEW r \in Node
  PROVE  Stands(r, poll(becomeCandidate(r), r.id, TRUE))
<1> DEFINE p == panicIf(r, r.state = "Leader")
           q == reset(p, r.term + 1)
           s == [q EXCEPT !.vote = r.id, !.state = "Candidate"]
<1>1. becomeCandidate(r) = s
  BY DEF becomeCandidate
<1>2. p \in Node /\ p.id = r.id /\ p.term = r.term /\ p.msgs = r.msgs
  BY PanicIfType DEF Quiet, Mute
<1>8. SameLog(r, p)
  BY PanicIfSame, Zenon
<1>3. r.term + 1 \in Nat /\ r.id \in Server
  BY LogFields
<1> HIDE DEF p
<1>4. /\ q \in Node /\ q.id = r.id /\ q.msgs = r.msgs /\ q.term = r.term + 1
      /\ q.votes = NoVotes /\ SameLog(p, q)
  BY <1>2, <1>3, ResetType, Zenon
<1> HIDE DEF q
<1>5. /\ s \in RaftType /\ s.prs = q.prs /\ s.id = q.id /\ s.msgs = q.msgs
      /\ s.term = q.term /\ s.vote = r.id /\ s.state = "Candidate"
      /\ s.votes = q.votes
      /\ s.log = q.log /\ s.committed = q.committed /\ s.panic = q.panic
  BY <1>3, <1>4, Zenon DEF RaftType, Node
<1>6. s \in Node
  BY <1>4, <1>5, Zenon DEF Node
<1> HIDE DEF s
<1>7. Polls(s, poll(s, r.id, TRUE), r.id, TRUE)
  BY <1>3, <1>6, PollType, Zenon
<1> DEFINE t == poll(s, r.id, TRUE)
<1> HIDE DEF t
<1>9. SameLog(q, s) /\ SameLog(s, t)
  BY <1>5, <1>7, Zenon DEF SameLog, Polls, t
<1>10. SameLog(r, t)
  BY <1>4, <1>8, <1>9, SameLogTrans, ZenonT(30)
<1>11. Stands(r, t)
  BY <1>4, <1>5, <1>7, <1>10, ZenonT(30) DEF Polls, Stands, NoVotes, t
<1> QED BY <1>1, <1>11, Zenon DEF t

(* becomePreCandidate and the own pre-vote do what Explores says.          *)
LEMMA BecomePreCandidateType ==
  ASSUME NEW r \in Node
  PROVE  Explores(r, poll(becomePreCandidate(r), r.id, TRUE))
<1> DEFINE q == panicIf(r, r.state = "Leader")
           s == [q EXCEPT !.votes = NoVotes, !.state = "PreCandidate"]
<1>1. becomePreCandidate(r) = s
  BY ZenonT(30) DEF becomePreCandidate
<1>2. /\ q \in Node /\ q.id = r.id /\ q.term = r.term /\ q.msgs = r.msgs
      /\ q.vote = r.vote /\ r.id \in Server
  BY PanicIfType, LogFields DEF Quiet, Mute
<1>7. SameLog(r, q)
  BY PanicIfSame
<1>3. NoVotes \in [Server -> {"unknown", "granted", "rejected"}]
  BY DEF NoVotes
<1> HIDE DEF q
<1>4. /\ s \in RaftType /\ s.prs = q.prs /\ s.id = q.id /\ s.msgs = q.msgs
      /\ s.term = q.term /\ s.vote = q.vote /\ s.state = "PreCandidate"
      /\ s.log = q.log /\ s.committed = q.committed /\ s.panic = q.panic
  BY <1>2, <1>3, Zenon DEF RaftType, Node
<1>5. s \in Node
  BY <1>2, <1>4, Zenon DEF Node
<1> HIDE DEF s
<1>6. Polls(s, poll(s, r.id, TRUE), r.id, TRUE)
  BY <1>2, <1>5, PollType, Zenon
<1> DEFINE t == poll(s, r.id, TRUE)
<1> HIDE DEF t
<1>8. SameLog(q, s) /\ SameLog(s, t)
  BY <1>4, <1>6, Zenon DEF SameLog, Polls, t
<1>9. SameLog(r, t)
  BY <1>7, <1>8, SameLogTrans, ZenonT(30)
<1>10. Explores(r, t)
  BY <1>2, <1>4, <1>6, <1>9, Zenon DEF Polls, Explores, t
<1> QED BY <1>1, <1>10, Zenon DEF t

(* becomeLeader does what Wins says.                                       *)
LEMMA BecomeLeaderType ==
  ASSUME Counting, NEW r \in Node
  PROVE  Wins(r, becomeLeader(r))
<1> DEFINE p == panicIf(r, r.state = "Follower")
           q == reset(p, r.term)
           s == [q EXCEPT !.lead = r.id, !.state = "Leader"]
           es == <<NewEntry(EmptyData)>>
<1>1. becomeLeader(r) = appendEntry(s, es)
  BY ZenonT(30) DEF becomeLeader
<1>2. /\ p \in Node /\ p.id = r.id /\ p.term = r.term /\ p.msgs = r.msgs
      /\ p.vote = r.vote
  BY PanicIfType DEF Quiet, Mute
<1>9. SameLog(r, p)
  BY PanicIfSame, Zenon
<1>3. r.term \in Nat /\ r.id \in Server
  BY LogFields, Zenon
<1> HIDE DEF p
<1>4. /\ q \in Node /\ q.id = r.id /\ q.msgs = r.msgs /\ q.term = r.term
      /\ q.vote = r.vote /\ SameLog(p, q)
      /\ Fits(q) /\ \A j \in Server \ {r.id} : q.prs[j].match = 0
  BY <1>2, <1>3, ResetType
<1> HIDE DEF q
<1>5. /\ s \in RaftType /\ s.prs = q.prs /\ s.id = q.id /\ s.msgs = q.msgs
      /\ s.term = q.term /\ s.vote = q.vote /\ s.state = "Leader"
      /\ s.log = q.log /\ s.committed = q.committed /\ s.panic = q.panic
  BY <1>3, <1>4, Zenon DEF RaftType, Node
<1>6. s \in Node
  BY <1>4, <1>5, Zenon DEF Node
<1>7. es \in Seq(Entry) /\ Len(es) = 1
  BY DEF NewEntry, Entry
<1> DEFINE t == appendEntry(s, es)
<1> HIDE DEF s, es
<1>8. /\ Quiet(s, t) /\ t.msgs = s.msgs
      /\ t.panic \/ Len(t.log) = Len(s.log) + Len(es)
  BY <1>5, <1>6, <1>7, AppendEntryType, Zenon
<1> HIDE DEF t
<1>10. SameLog(r, s)
  <2>1. SameLog(q, s)
    BY <1>5, ZenonT(30) DEF SameLog
  <2> QED BY <1>4, <1>9, <2>1, SameLogTrans, ZenonT(30)
<1>11. Mute(s, t) /\ Extends(r, t)
  <2>1. Extends(s, t) /\ Mute(s, t)
    BY <1>8, ZenonT(30) DEF Quiet
  <2> QED BY <2>1, <1>4, <1>5, <1>10, ZenonT(30) DEF SameLog, Extends
<1>13. ASSUME ~t.panic PROVE Enthroned(r, t)
  <2>1. Orderly(s, t) /\ Len(t.log) = Len(s.log) + 1
    BY <1>7, <1>8, <1>13, Zenon DEF Quiet
  <2>2. Fits(s) /\ s.log = r.log /\ s.committed = r.committed
    BY <1>4, <1>5, <1>10, ZenonT(30) DEF Fits, SameLog
  <2>3. \A j \in Server \ {r.id} : t.prs[j].match = 0
    BY <1>4, <1>5, <2>1, ZenonT(30) DEF Orderly
  <2> QED BY <2>1, <2>2, <2>3, ZenonT(30) DEF Orderly, Enthroned
<1>14. t.panic \/ Enthroned(r, t)
  BY <1>13, Zenon
<1>12. Wins(r, t)
  <2>1. /\ t \in Node /\ t.id = r.id /\ t.state = "Leader" /\ t.msgs = r.msgs
        /\ t.term = r.term /\ t.vote = r.vote
    BY <1>4, <1>5, <1>8, <1>11, ZenonT(30) DEF Mute
  <2> QED BY <1>11, <1>14, <2>1, Zenon DEF Wins
<1> QED BY <1>1, <1>12, ZenonT(30) DEF t
-----------------------------------------------------------------------------
(* Elections                                                               *)

Campaigns(r, s) ==
  \E c : /\ Stands(r, c)
         /\ Quiet(c, s) \/ (votesGranted(c) = quorum(c) /\ Wins(c, s))

(* RaftLog::lastTerm returns a term.                                       *)
LEMMA LastTermType == ASSUME NEW r \in Node PROVE lastTerm(r) \in Nat
BY LogFields, TermType DEF lastTerm

(* Asking for votes of a term above 0 is quiet.                            *)
LEMMA VoteMsgsQuiet ==
  ASSUME NEW r \in Node, NEW t \in Nat \ {0}, NEW type \in VoteType,
         NEW ctx \in {None, CampaignTransfer},
         type = "MsgVote" => r.state = "Candidate" /\ t = r.term
  PROVE  Quiet(r, sendAll(r, voteMsgs(r, type, t, ctx)))
<1> DEFINE ms == voteMsgs(r, type, t, ctx)
           x(j) == [Message(type, j) EXCEPT !.term = t, !.index = lastIndex(r),
                      !.logterm = lastTerm(r), !.context = ctx]
<1>1. ASSUME NEW j \in Server
      PROVE  /\ x(j) \in Draft /\ x(j).type = type /\ x(j).term = t
             /\ x(j).index = Len(r.log) /\ x(j).logterm = lastTerm(r)
  <2> DEFINE m == Message(type, j)
             n == lastIndex(r)
             l == lastTerm(r)
  <2>1. m \in Draft /\ m.type = type
    BY MessageIsDraft, Zenon DEF MessageType, ReadType, VoteType
  <2>2. n \in Nat /\ l \in Nat /\ type \notin ReadType
    BY LogFields, LastTermType, ZenonT(30) DEF ReadType, VoteType
  <2> HIDE DEF m, n, l
  <2>3. LET y == [m EXCEPT !.term = t, !.index = n, !.logterm = l, !.context = ctx]
        IN  /\ y \in Draft /\ y.type = type /\ y.term = t
            /\ y.index = n /\ y.logterm = l
    BY <2>1, <2>2, ZenonT(30) DEF Draft, MsgFrom
  <2> QED BY <2>3, Zenon DEF m, n, l, lastIndex
<1>2. ms \subseteq {x(j) : j \in Server}
  BY LogFields, Zenon DEF voteMsgs, voters
<1>3. \A m \in ms : /\ m \in Draft /\ m.type = type /\ m.term = t
                     /\ m.index = Len(r.log) /\ m.logterm = lastTerm(r)
  <2> HIDE DEF x
  <2> QED BY <1>1, <1>2, ZenonT(30)
<1> HIDE DEF ms
<1>4. type \in {"MsgVote", "MsgPreVote"} /\ type \notin LeaderType
  BY ZenonT(30) DEF VoteType, LeaderType
<1>5. \A m \in ms : Sendable(r, m)
  <2> SUFFICES ASSUME NEW m \in ms PROVE Sendable(r, m)
    BY Zenon
  <2>1. ~Ballot(m) /\ m.type \notin LeaderType
    BY <1>3, <1>4, ZenonT(30) DEF Ballot, Grant
  <2>2. Proper(r, r, m)
    BY <1>3, <1>4, ZenonT(30) DEF Proper
  <2> QED BY <1>3, <1>4, <2>1, <2>2, ZenonT(30) DEF Sendable, LeaderType
<1>6. Quiet(r, sendAll(r, ms))
  BY <1>5, SendAllQuiet, ZenonT(30)
<1> QED BY <1>6 DEF ms

(* campaign does what Campaigns says.                                      *)
LEMMA CampaignType ==
  ASSUME Counting, NEW r \in Node, NEW ctx \in {None, CampaignTransfer}
  PROVE  Campaigns(r, campaign(r, ctx))
<1> DEFINE c == poll(becomeCandidate(r), r.id, TRUE)
<1>1. Stands(r, c)
  BY BecomeCandidateType, Zenon
<1>2. \/ votesGranted(c) = quorum(c) /\ campaign(r, ctx) = becomeLeader(c)
      \/ campaign(r, ctx) = sendAll(c, voteMsgs(c, "MsgVote", c.term, ctx))
  BY Zenon DEF campaign
<1> HIDE DEF c
<1>3. c \in Node /\ c.term \in Nat \ {0} /\ c.state = "Candidate"
  BY <1>1, LogFields DEF Stands
<1>4. Wins(c, becomeLeader(c))
  BY <1>3, BecomeLeaderType, Zenon
<1>5. Quiet(c, sendAll(c, voteMsgs(c, "MsgVote", c.term, ctx)))
  BY <1>3, VoteMsgsQuiet, Zenon DEF VoteType
<1> QED BY <1>1, <1>2, <1>4, <1>5, ZenonT(30) DEF Campaigns

PreCampaigns(r, s) ==
  \E p : Explores(r, p) /\ (Quiet(p, s) \/ Campaigns(p, s))

(* campaign(campaignPreElection) does what PreCampaigns says.              *)
LEMMA PreCampaignType ==
  ASSUME Counting, NEW r \in Node
  PROVE  PreCampaigns(r, preCampaign(r))
<1> DEFINE p == poll(becomePreCandidate(r), r.id, TRUE)
<1>1. Explores(r, p)
  BY BecomePreCandidateType, Zenon
<1>2. \/ preCampaign(r) = campaign(p, None)
      \/ preCampaign(r) = sendAll(p, voteMsgs(p, "MsgPreVote", p.term + 1, None))
  BY Zenon DEF preCampaign
<1> HIDE DEF p
<1>3. p \in Node /\ p.term + 1 \in Nat \ {0}
  BY <1>1, LogFields DEF Explores
<1>4. Campaigns(p, campaign(p, None))
  BY <1>3, CampaignType, Zenon
<1>5. Quiet(p, sendAll(p, voteMsgs(p, "MsgPreVote", p.term + 1, None)))
  BY <1>3, VoteMsgsQuiet, ZenonT(30) DEF VoteType
<1> QED BY <1>1, <1>2, <1>4, <1>5, ZenonT(30) DEF PreCampaigns

(* MsgHup is ignored, or starts a campaign or a pre-campaign.              *)
LEMMA HupType ==
  ASSUME Counting, NEW r \in Node
  PROVE  Quiet(r, hup(r)) \/ Campaigns(r, hup(r)) \/ PreCampaigns(r, hup(r))
<1>1. hup(r) \in {r, preCampaign(r), campaign(r, None)}
  BY DEF hup
<1>2. Quiet(r, r) /\ Campaigns(r, campaign(r, None)) /\ PreCampaigns(r, preCampaign(r))
  BY QuietRefl, CampaignType, PreCampaignType, ZenonT(30)
<1> QED BY <1>1, <1>2, ZenonT(30)

(* A request for a vote is answered quietly or with a vote, which only a   *)
(* voter casts, only if it has not voted for another, and only for a log   *)
(* that is up to date.                                                     *)
LEMMA HandleVoteType ==
  ASSUME NEW r \in Node, NEW m \in Msg, m.type \in VoteType
  PROVE  \/ Quiet(r, handleVote(r, m))
         \/ /\ m.type = "MsgVote" /\ r.id \in Voter
            /\ r.vote = m.from \/ r.vote = None
            /\ isUpToDate(r, m.index, m.logterm)
            /\ Casts(r, handleVote(r, m), m.from, m.term)
<1> DEFINE type == voteRespMsgType(m.type)
           resp == Message(type, m.from)
           yes  == [resp EXCEPT !.term = m.term]
           no   == [resp EXCEPT !.term = r.term, !.reject = TRUE]
           cast == send(r, yes)
           s    == [cast EXCEPT !.electionElapsed = 0, !.vote = m.from]
<1>1. m.from \in Server /\ m.term \in Nat /\ r.term \in Nat /\ r.id \in Server
  BY MsgFields, LogFields, ZenonT(30)
<1>2. /\ type \in VoteRespType
      /\ type = "MsgVoteResp" => m.type = "MsgVote"
      /\ m.type = "MsgVote" => type = "MsgVoteResp"
  BY DEF voteRespMsgType, VoteRespType, VoteType
<1>3. /\ type \in MessageType \ ReadType /\ type \notin LeaderType
      /\ type \notin {"MsgApp", "MsgHeartbeat", "MsgVote", "MsgAppResp"}
  BY <1>2 DEF MessageType, ReadType, VoteRespType, LeaderType
<1>4. \/ handleVote(r, m) = r
      \/ handleVote(r, m) = send(r, no)
      \/ /\ ~r.prs[r.id].isLearner /\ canVote(r, m)
         /\ isUpToDate(r, m.index, m.logterm)
         /\ handleVote(r, m) = IF m.type = "MsgVote" THEN s ELSE cast
  BY DEF handleVote
<1> HIDE DEF type
<1>5. resp \in Draft /\ resp.type = type /\ resp.to = m.from /\ resp.reject = FALSE
  BY <1>1, <1>3, MessageIsDraft, ZenonT(30)
<1> HIDE DEF resp
<1>6. /\ no \in Draft /\ no.type = type /\ no.reject = TRUE
      /\ yes \in Draft /\ yes.type = type /\ yes.to = m.from /\ yes.term = m.term
  BY <1>1, <1>3, <1>5, Zenon DEF Draft, MsgFrom
<1> HIDE DEF no, yes
<1>7. Quiet(r, send(r, no))
  BY <1>3, <1>6, SendQuiet, Zenon DEF Ballot, Grant
<1>8. CASE m.type # "MsgVote"
  <2>1. Quiet(r, cast)
    <3>1. ~Ballot(yes)
      BY <1>2, <1>3, <1>6, <1>8, ZenonT(30) DEF Ballot, Grant
    <3> QED BY <1>3, <1>6, <3>1, SendQuiet, ZenonT(30)
  <2> QED BY <1>4, <1>7, <1>8, <2>1, QuietRefl, ZenonT(30)
<1>9. CASE m.type = "MsgVote"
  <2>1. /\ cast \in Node /\ cast.id = r.id /\ cast.term = r.term
        /\ cast.state = r.state /\ cast.votes = r.votes
        /\ cast.msgs = r.msgs \cup {stamped(r, y) : y \in {yes}}
        /\ SameLog(r, cast) /\ cast.prs = r.prs
    BY <1>6, SendAllType DEF send, SameLog
  <2>2. LET x == stamped(r, yes)
        IN  /\ x.from = r.id /\ x.type = "MsgVoteResp"
            /\ x.to = m.from /\ x.term = m.term
    BY <1>2, <1>6, <1>9, StampedType DEF VoteRespType
  <2> HIDE DEF cast
  <2>3. /\ s \in RaftType /\ s.prs = cast.prs /\ s.id = cast.id
        /\ s.term = cast.term /\ s.state = cast.state /\ s.votes = cast.votes
        /\ s.msgs = cast.msgs /\ s.vote = m.from
        /\ s.log = cast.log /\ s.committed = cast.committed /\ s.panic = cast.panic
    BY <1>1, <2>1, ZenonT(30) DEF RaftType, Node
  <2> HIDE DEF s
  <2>4. s \in Node /\ SameLog(r, s)
    BY <2>1, <2>3, ZenonT(30) DEF Node, SameLog
  <2>5. Casts(r, s, m.from, m.term)
    BY <2>1, <2>2, <2>3, <2>4 DEF Casts
  <2>6. ~r.prs[r.id].isLearner => r.id \in Voter
    BY <1>1 DEF Node, Server
  <2>7. canVote(r, m) => r.vote = m.from \/ r.vote = None
    BY <1>9, ZenonT(30) DEF canVote
  <2> QED BY <1>4, <1>7, <1>9, <2>5, <2>6, <2>7, QuietRefl, ZenonT(30)
<1> QED BY <1>8, <1>9, ZenonT(30)

(* An answer is polled; then the node goes on, gives up, campaigns after a *)
(* pre-election, or wins with a quorum.                                    *)
LEMMA HandleVoteRespType ==
  ASSUME Counting, NEW r \in Node, NEW m \in Msg
  PROVE  \E p : /\ Polls(r, p, m.from, ~m.reject)
                /\ LET s == handleVoteResp(r, m)
                   IN  \/ s = p
                       \/ Follows(p, s, p.term)
                       \/ p.state = "PreCandidate" /\ Campaigns(p, s)
                       \/ /\ p.state # "PreCandidate"
                          /\ votesGranted(p) = quorum(p)
                          /\ \E w : Wins(p, w) /\ Quiet(w, s)
<1> DEFINE p == poll(r, m.from, ~m.reject)
           w == becomeLeader(p)
           s == handleVoteResp(r, m)
<1>1. m.from \in Server
  BY MsgFields
<1>2. Polls(r, p, m.from, ~m.reject)
  <2> DEFINE g == ~m.reject
  <2>1. g \in BOOLEAN
    OBVIOUS
  <2> HIDE DEF g
  <2>2. Polls(r, poll(r, m.from, g), m.from, g)
    BY <1>1, <2>1, PollType, ZenonT(30)
  <2> QED BY <2>2 DEF g
<1>3. \/ s = p
      \/ s = becomeFollower(p, p.term, None)
      \/ p.state = "PreCandidate" /\ s = campaign(p, None)
      \/ /\ p.state # "PreCandidate" /\ votesGranted(p) = quorum(p)
         /\ s = bcastAppend(w)
  BY ZenonT(30) DEF handleVoteResp
<1> HIDE DEF p, s
<1>4. p \in Node /\ p.term \in Nat
  BY <1>2, LogFields, ZenonT(30) DEF Polls
<1>5. Follows(p, becomeFollower(p, p.term, None), p.term)
  BY <1>4, BecomeFollowerType, ZenonT(30)
<1>6. Campaigns(p, campaign(p, None))
  BY <1>4, CampaignType, ZenonT(30)
<1>7. Wins(p, w)
  BY <1>4, BecomeLeaderType, ZenonT(30)
<1> HIDE DEF w
<1>8. w \in Node /\ w.state = "Leader"
  BY <1>7 DEF Wins
<1>9. Quiet(w, bcastAppend(w))
  BY <1>8, BcastQuiet, ZenonT(30)
<1>10. \/ s = p
       \/ Follows(p, s, p.term)
       \/ p.state = "PreCandidate" /\ Campaigns(p, s)
       \/ /\ p.state # "PreCandidate" /\ votesGranted(p) = quorum(p)
          /\ Wins(p, w) /\ Quiet(w, s)
  BY <1>3, <1>5, <1>6, <1>7, <1>9, ZenonT(30)
<1> QED BY <1>2, <1>10, ZenonT(30) DEF s

(* The prologue of Step leaves the node or makes it a follower in the      *)
(* later term of the message.                                              *)
LEMMA StepTermType ==
  ASSUME NEW r \in Node, NEW m \in Msg
  PROVE  LET s == stepTerm(r, m)
         IN  /\ s = r \/ (m.term > r.term /\ Follows(r, s, m.term))
             /\ m.type \notin {"MsgPreVote", "MsgPreVoteResp"} =>
                  s.term >= m.term
<1>1. m.term \in Nat /\ m.from \in Server /\ r.term \in Nat
  BY MsgFields, LogFields, ZenonT(30)
<1>2. \A lead \in Server \cup {None} :
        Follows(r, becomeFollower(r, m.term, lead), m.term)
  BY <1>1, BecomeFollowerType, ZenonT(30)
<1> QED BY <1>1, <1>2 DEF stepTerm, Follows

(* The prologue of Step keeps type and id.                                 *)
LEMMA StepTermNode ==
  ASSUME NEW r \in Node, NEW m \in Msg
  PROVE  stepTerm(r, m) \in Node /\ stepTerm(r, m).id = r.id
BY StepTermType DEF Follows

(* Hearing a leader is quiet or makes the node its follower.               *)
LEMMA FollowLeaderType ==
  ASSUME NEW r \in Node, NEW m \in Msg
  PROVE  LET s == followLeader(r, m)
         IN  (r.state = "Follower" /\ Quiet(r, s)) \/ Follows(r, s, m.term)
<1>1. m.term \in Nat /\ m.from \in Server
  BY MsgFields
<1>2. Quiet(r, [r EXCEPT !.electionElapsed = 0, !.lead = m.from])
  BY <1>1, SetLead, Zenon
<1>3. Follows(r, becomeFollower(r, m.term, m.from), m.term)
  BY <1>1, BecomeFollowerType, ZenonT(30)
<1> QED BY <1>2, <1>3, ZenonT(30) DEF followLeader

(* A leader that is quiet, or steps down at the end.                       *)
Retires(r, s) == \E a : Quiet(r, a) /\ Follows(a, s, a.term)

(* MsgCheckQuorum is quiet or makes the leader step down.                  *)
LEMMA CheckQuorumType ==
  ASSUME NEW r \in Node
  PROVE  Quiet(r, checkQuorum(r)) \/ Retires(r, checkQuorum(r))
<1> DEFINE active(j) == r.prs[j].recentActive /\ j = r.id
           prs == [j \in DOMAIN r.prs |->
                     [r.prs[j] EXCEPT !.recentActive = active(j)]]
           a == [r EXCEPT !.prs = prs]
<1>1. checkQuorum(r) \in {a, becomeFollower(a, a.term, None)}
  BY DEF checkQuorum
<1>2. /\ prs \in [Server -> ProgressType]
      /\ \A j \in Server : Steady(r.prs[j], prs[j], Len(r.log))
  <2>1. DOMAIN r.prs = Server /\ r.prs \in [Server -> ProgressType]
    BY LogFields, ZenonT(30)
  <2>2. ASSUME NEW j \in Server
        PROVE  LET q == [r.prs[j] EXCEPT !.recentActive = active(j)]
               IN  q \in ProgressType /\ Steady(r.prs[j], q, Len(r.log))
    <3> DEFINE old == r.prs[j]
               b == active(j)
    <3>1. old \in ProgressType /\ b \in BOOLEAN
      BY <2>1 DEF ProgressType
    <3> HIDE DEF old, b
    <3> DEFINE q == [old EXCEPT !.recentActive = b]
    <3>2. Steady(old, q, Len(r.log))
      BY <3>1, ActiveType, ZenonT(30)
    <3>3. q \in ProgressType
      BY <3>2 DEF Steady, Advances
    <3> QED BY <3>2, <3>3, ZenonT(30) DEF old, b
  <2> HIDE DEF active
  <2>3. ASSUME NEW j \in Server
        PROVE  prs[j] = [r.prs[j] EXCEPT !.recentActive = active(j)]
    BY <2>1
  <2>4. prs = [j \in Server |-> prs[j]]
    BY <2>1
  <2> HIDE DEF prs
  <2> QED BY <2>2, <2>3, <2>4, Zenon
<1> HIDE DEF prs
<1>3. Quiet(r, a)
  BY <1>2, SetAllProgress, ZenonT(30)
<1> HIDE DEF a
<1>4. a \in Node /\ a.term \in Nat
  BY <1>3, QuietNode, LogFields, ZenonT(30)
<1>5. Follows(a, becomeFollower(a, a.term, None), a.term)
  BY <1>4, BecomeFollowerType, Zenon
<1> QED BY <1>1, <1>3, <1>5, ZenonT(30) DEF Retires

(* tickHeartbeat is quiet or makes the leader step down.                   *)
LEMMA TickHeartbeatType ==
  ASSUME NEW r \in Node, r.state = "Leader"
  PROVE  Quiet(r, tickHeartbeat(r)) \/ Retires(r, tickHeartbeat(r))
<1> DEFINE timedOut == r.electionElapsed + 1 >= ElectionTick
           e  == IF timedOut THEN 0 ELSE r.electionElapsed + 1
           h  == r.heartbeatElapsed + 1
           r1 == [r EXCEPT !.heartbeatElapsed = h, !.electionElapsed = e]
           r2 == IF timedOut /\ CheckQuorum THEN checkQuorum(r1) ELSE r1
           r3 == IF timedOut /\ r2.state = "Leader"
                 THEN [r2 EXCEPT !.leadTransferee = None] ELSE r2
           r4 == [r3 EXCEPT !.heartbeatElapsed = 0]
<1>1. \/ tickHeartbeat(r) = r3
      \/ r3.state = "Leader" /\ tickHeartbeat(r) = bcastHeartbeat(r4)
  BY DEF tickHeartbeat
<1>2. e \in Nat /\ h \in Nat
  BY MinorFields
<1> HIDE DEF timedOut, e, h
<1>3. Quiet(r, r1)
  BY <1>2, SetTimers, Zenon
<1> HIDE DEF r1
<1>4. r1 \in Node
  BY <1>3, QuietNode, ZenonT(30)
<1>5. Quiet(r1, r2) \/ Retires(r1, r2)
  BY <1>4, CheckQuorumType, QuietRefl, ZenonT(30)
<1> HIDE DEF r2
<1>6. CASE Retires(r1, r2)
  <2>1. r2.state = "Follower"
    BY <1>6 DEF Retires, Follows
  <2>2. r3 = r2 /\ r3.state # "Leader"
    BY <2>1
  <2>3. PICK a : Quiet(r1, a) /\ Follows(a, r2, a.term)
    BY <1>6 DEF Retires
  <2>4. Quiet(r, a)
    BY <1>3, <2>3, QuietTrans, ZenonT(30)
  <2> HIDE DEF r3, r4
  <2> QED BY <1>1, <2>2, <2>3, <2>4, ZenonT(30) DEF Retires
<1>7. CASE Quiet(r1, r2)
  <2>1. Quiet(r2, r3)
    <3>1. r2 \in Node
      BY <1>7, QuietNode, ZenonT(30)
    <3>2. Quiet(r2, [r2 EXCEPT !.leadTransferee = None])
      BY <3>1, SetTransferee, ZenonT(30)
    <3> QED BY <3>1, <3>2, QuietRefl, ZenonT(30)
  <2> HIDE DEF r3
  <2>2. Quiet(r, r3) /\ r3 \in Node
    BY <1>3, <1>7, <2>1, QuietTrans, QuietNode, ZenonT(30)
  <2>3. ASSUME r3.state = "Leader"
        PROVE  Quiet(r3, bcastHeartbeat(r4))
    <3>1. Quiet(r3, r4)
      BY <2>2, SetHeartbeatElapsed
    <3> HIDE DEF r4
    <3>2. r4 \in Node /\ r4.state = "Leader"
      BY <2>3, <3>1, ZenonT(30) DEF Quiet, Mute
    <3>3. Quiet(r4, bcastHeartbeat(r4))
      BY <3>2, BcastHeartbeatQuiet, ZenonT(30)
    <3> QED BY <3>1, <3>3, QuietTrans, ZenonT(30)
  <2> QED BY <1>1, <2>2, <2>3, QuietTrans
<1> QED BY <1>5, <1>6, <1>7, ZenonT(30)
-----------------------------------------------------------------------------
(* The life of a node                                                      *)

(* RaftLog::appliedTo is quiet.                                            *)
LEMMA AppliedToQuiet ==
  ASSUME NEW r \in Node, NEW n \in Nat
  PROVE  LET s == appliedTo(r, n)
         IN  Quiet(r, s) /\ s.msgs = r.msgs /\ SameLog(r, s) /\ s.prs = r.prs
<1> DEFINE q == panicIf(r, r.committed < n \/ n < r.applied)
           s == [q EXCEPT !.applied = n]
<1>1. appliedTo(r, n) \in {r, s}
  BY DEF appliedTo
<1>2. Quiet(r, q) /\ q \in Node /\ q.msgs = r.msgs /\ SameLog(r, q) /\ q.prs = r.prs
  BY PanicIfType, PanicIfSame, QuietNode, ZenonT(30)
<1> HIDE DEF q
<1>3. Quiet(q, s) /\ s.msgs = q.msgs /\ SameLog(q, s) /\ s.prs = q.prs
  <2>1. s \in RaftType
    BY <1>2, Zenon DEF RaftType, Node
  <2>2. /\ s.id = q.id /\ s.term = q.term /\ s.vote = q.vote /\ s.state = q.state
        /\ s.votes = q.votes /\ s.log = q.log /\ s.committed = q.committed
        /\ s.msgs = q.msgs /\ s.panic = q.panic /\ s.prs = q.prs
    BY <1>2, ZenonT(30) DEF RaftType, Node
  <2> HIDE DEF s
  <2>3. s \in Node
    BY <1>2, <2>1, <2>2, ZenonT(30) DEF Node
  <2> QED BY <1>2, <2>2, <2>3, Untouched, ZenonT(30) DEF SameLog
<1> HIDE DEF s
<1>4. SameLog(r, r) /\ SameLog(r, s)
  BY <1>2, <1>3, SameLogTrans, ZenonT(30) DEF SameLog
<1> QED BY <1>1, <1>2, <1>3, <1>4, QuietRefl, QuietTrans, ZenonT(30)

(* Raft::New takes term, vote, log and commit index from the storage, as a *)
(* follower that has sent nothing.                                         *)
LEMMA NewRaftType ==
  ASSUME NEW i \in Server, NEW st \in StorageType, NEW n \in Nat
  PROVE  LET s == newRaft(i, st, n)
         IN  /\ s \in Node /\ s.id = i /\ s.state = "Follower" /\ s.msgs = {}
             /\ s.term = st.hardState.term /\ s.vote = st.hardState.vote
             /\ s.log = st.log /\ s.committed = st.hardState.commit
<1> DEFINE prs == [j \in Server |-> NewProgress(1, 0, j \in Learner)]
           fresh == [id |-> i, term |-> 0, vote |-> None, state |-> "Follower",
                 lead |-> None, votes |-> NoVotes, leadTransferee |-> None,
                 electionElapsed |-> 0, heartbeatElapsed |-> 0,
                 prs |-> prs,
                 readOnly |-> <<>>, readStates |-> {}, log |-> st.log,
                 committed |-> 0, applied |-> 0, msgs |-> {}, panic |-> FALSE]
           hs == st.hardState
           q == panicIf(fresh, hs.commit > Len(st.log))
           loaded == [q EXCEPT !.committed = hs.commit, !.term = hs.term,
                               !.vote = hs.vote]
           a == appliedTo(loaded, n)
           s == newRaft(i, st, n)
<1>1. s = becomeFollower(a, hs.term, None)
  BY DEF newRaft
<1>2. /\ hs.term \in Nat /\ hs.vote \in Server \cup {None} /\ hs.commit \in Nat
      /\ st.log \in Seq(Entry)
  BY DEF StorageType
<1>3. /\ prs \in [Server -> ProgressType]
      /\ \A j \in Server : prs[j].isLearner <=> j \in Learner
  <2>1. ASSUME NEW j \in Server
        PROVE  LET p == NewProgress(1, 0, j \in Learner)
               IN  p \in ProgressType /\ (p.isLearner <=> j \in Learner)
    <3> DEFINE b == j \in Learner
    <3>1. b \in BOOLEAN
      OBVIOUS
    <3> HIDE DEF b
    <3>2. NewProgress(1, 0, b) \in ProgressType /\ NewProgress(1, 0, b).isLearner = b
      BY <3>1, NewProgressType
    <3> QED BY <3>2, Zenon DEF b
  <2> QED BY <2>1
<1>4. NoVotes \in [Server -> {"unknown", "granted", "rejected"}]
  BY DEF NoVotes
<1> HIDE DEF prs
<1>5. /\ fresh \in RaftType /\ fresh.prs = prs /\ fresh.id = i /\ fresh.msgs = {}
      /\ fresh.log = st.log
  <2>1. fresh.prs = prs /\ fresh.id = i /\ fresh.msgs = {} /\ fresh.log = st.log
    BY Zenon
  <2>2. fresh \in RaftType
    BY <1>2, <1>3, <1>4, SMTT(60) DEF RaftType
  <2> QED BY <2>1, <2>2, Zenon
<1>6. fresh \in Node
  BY <1>3, <1>5, ZenonT(30) DEF Node
<1> HIDE DEF fresh, s
<1>7. q \in Node /\ q.id = i /\ q.msgs = {} /\ q.log = st.log
  <2>1. Quiet(fresh, q) /\ q.log = fresh.log /\ q.msgs = fresh.msgs
    BY <1>6, PanicIfType, ZenonT(30)
  <2>2. q \in Node /\ q.id = fresh.id
    BY <2>1, Zenon DEF Quiet, Mute
  <2> QED BY <1>5, <2>1, <2>2, Zenon
<1> HIDE DEF q, hs
<1>8. /\ loaded \in RaftType /\ loaded.prs = q.prs /\ loaded.id = q.id
      /\ loaded.msgs = q.msgs /\ loaded.term = hs.term /\ loaded.vote = hs.vote
      /\ loaded.log = q.log /\ loaded.committed = hs.commit
  BY <1>2, <1>7, Zenon DEF RaftType, Node
<1>9. loaded \in Node
  BY <1>7, <1>8, Zenon DEF Node
<1> HIDE DEF loaded
<1>10. Quiet(loaded, a) /\ a.msgs = loaded.msgs /\ SameLog(loaded, a)
  BY <1>9, AppliedToQuiet, ZenonT(30)
<1>11. /\ a \in Node /\ a.id = i /\ a.msgs = {} /\ a.term = hs.term
       /\ a.vote = hs.vote /\ a.log = st.log /\ a.committed = hs.commit
  BY <1>7, <1>8, <1>10, ZenonT(30) DEF Quiet, Mute, SameLog
<1> HIDE DEF a
<1>12. Follows(a, becomeFollower(a, hs.term, None), hs.term)
  BY <1>2, <1>11, BecomeFollowerType, ZenonT(30)
<1> QED BY <1>1, <1>11, <1>12, ZenonT(30) DEF Follows, SameLog, hs, s
=============================================================================
