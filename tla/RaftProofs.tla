----------------------------- MODULE RaftProofs -----------------------------
(* Every handler, fed with any message of the right type, leaves a record  *)
(* of the right type, and every action but Ready and Restart is a path of  *)
(* moves.                                                                  *)
EXTENDS RoleLemmas
-----------------------------------------------------------------------------
(* The type invariant                                                      *)

(* raft[i] becomes s, or i panics.                                         *)
LEMMA UpdateNode ==
  ASSUME TypeInv, NEW i \in Server, NEW s \in Node, s.id = i, Update(i, s)
  PROVE  /\ raft' \in [Server -> Node]
         /\ \A j \in Server : raft'[j].id = j
<1> DEFINE q == [raft[i] EXCEPT !.panic = TRUE]
<1>1. raft[i] \in Node /\ raft[i].id = i
  BY DEF TypeInv
<1>2. q \in Node /\ q.id = i
  <2>1. q \in RaftType /\ q.prs = raft[i].prs /\ q.id = raft[i].id
    BY <1>1, Zenon DEF Node, RaftType
  <2> QED BY <1>1, <2>1, Zenon DEF Node
<1>3. raft' = [raft EXCEPT ![i] = IF s.panic THEN q ELSE s]
  BY DEF Update
<1> HIDE DEF q
<1> QED BY <1>2, <1>3, ZenonT(30) DEF TypeInv

(* The budget is counted in naturals.                                      *)
LEMMA SpendType ==
  ASSUME TypeInv, NEW kind \in InputKind, Spend(kind)
  PROVE  spent' \in [InputKind -> Nat]
BY DEF TypeInv, Spend

(* A Ready's HardState holds the node's term and vote, and no later commit *)
(* index.                                                                  *)
LEMMA HardStateType ==
  ASSUME NEW r \in Node, NEW st \in StorageType
  PROVE  LET hs == readyHardState(r, st.hardState)
         IN  /\ hs \in [term : Nat, vote : Server \cup {None}, commit : Nat]
             /\ hs.term = r.term /\ hs.vote = r.vote /\ hs.commit <= r.committed
<1> DEFINE prev == st.hardState
           last == lastOfNextEnts(r, MaxSize)
<1>1. /\ r.term \in Nat /\ r.vote \in Server \cup {None} /\ r.committed \in Nat
      /\ r.applied \in Nat
  BY LogFields, Zenon
<1>2. last \in Nat /\ last <= r.committed
  BY <1>1, ConfigAssumption DEF lastOfNextEnts, StdMin
<1>3. prev \in [term : Nat, vote : Server \cup {None}, commit : Nat]
  BY DEF StorageType
<1> HIDE DEF prev, last
<1>4. LET hs == readyHardState(r, prev)
      IN  /\ hs \in [term : Nat, vote : Server \cup {None}, commit : Nat]
          /\ hs.term = r.term /\ hs.vote = r.vote /\ hs.commit <= r.committed
  BY <1>1, <1>2, <1>3 DEF readyHardState, hardState, last
<1> QED BY <1>4, Zenon DEF prev

(* Advance empties the mailbox and keeps role, term, vote and log.         *)
LEMMA ReadyNode ==
  ASSUME NEW r \in Node, NEW n \in Nat
  PROVE  LET s == [appliedTo(r, n) EXCEPT !.msgs = {}, !.readStates = {}]
         IN  /\ s \in Node /\ s.id = r.id /\ s.term = r.term /\ s.vote = r.vote
             /\ s.state = r.state /\ s.votes = r.votes /\ s.msgs = {}
             /\ SameLog(r, s) /\ s.prs = r.prs
<1> DEFINE q == appliedTo(r, n)
           s == [q EXCEPT !.msgs = {}, !.readStates = {}]
<1>1. /\ q \in Node /\ q.id = r.id /\ q.term = r.term /\ q.vote = r.vote
      /\ q.state = r.state /\ q.votes = r.votes /\ SameLog(r, q) /\ q.prs = r.prs
  BY AppliedToQuiet, ZenonT(30) DEF Quiet, Mute
<1> HIDE DEF q
<1>2. /\ s \in RaftType /\ s.prs = q.prs /\ s.id = q.id /\ s.term = q.term
      /\ s.vote = q.vote /\ s.state = q.state /\ s.votes = q.votes /\ s.msgs = {}
      /\ s.log = q.log /\ s.committed = q.committed /\ s.panic = q.panic
  BY <1>1, Zenon DEF Node, RaftType
<1>3. s \in Node
  BY <1>1, <1>2, Zenon DEF Node
<1>4. SameLog(r, s)
  BY <1>1, <1>2, Zenon DEF SameLog
<1> QED BY <1>1, <1>2, <1>3, <1>4, Zenon DEF q

(* The Ready loop saves what the node holds, then sends its messages.      *)
LEMMA ReadySaves ==
  ASSUME TypeInv, NEW i \in Server, Ready(i)
  PROVE  \E s, st :
           /\ Sheds(raft[i], s) /\ Saves(raft[i], st)
           /\ raft' = [raft EXCEPT ![i] = s]
           /\ storage' = [storage EXCEPT ![i] = st]
           /\ network' = network \cup raft[i].msgs
           /\ UNCHANGED <<spent, readBound>>
<1> DEFINE r  == raft[i]
           hs == readyHardState(r, storage[i].hardState)
           q  == [appliedTo(r, hs.commit) EXCEPT !.msgs = {}, !.readStates = {}]
           p  == [r EXCEPT !.panic = TRUE]
           s  == IF q.panic THEN p ELSE q
           st == [hardState |-> hs, log |-> r.log]
<1>1. /\ storage' = [storage EXCEPT ![i] = st]
      /\ network' = network \cup r.msgs
      /\ UNCHANGED <<spent, readBound>>
      /\ raft' = [raft EXCEPT ![i] = s]
  BY DEF Ready, Update
<1>2. r \in Node /\ storage[i] \in StorageType
  BY Zenon DEF TypeInv
<1>3. /\ hs \in [term : Nat, vote : Server \cup {None}, commit : Nat]
      /\ hs.term = r.term /\ hs.vote = r.vote /\ hs.commit <= r.committed
  BY <1>2, HardStateType, Zenon
<1>4. r.log \in Seq(Entry)
  BY <1>2, LogFields, ZenonT(30)
<1> HIDE DEF hs, r
<1>5. Saves(r, st)
  BY <1>3, <1>4, Zenon DEF StorageType, Saves
<1>6. Sheds(r, p)
  BY <1>2, PanicsQuiet, ZenonT(30)
<1>7. Sheds(r, q)
  <2>1. hs.commit \in Nat
    BY <1>3
  <2>2. /\ q \in Node /\ q.id = r.id /\ q.term = r.term /\ q.vote = r.vote
        /\ q.state = r.state /\ q.votes = r.votes /\ q.msgs = {} /\ SameLog(r, q)
        /\ q.prs = r.prs
    BY <1>2, <2>1, ReadyNode, Zenon
  <2> HIDE DEF q
  <2> QED BY <2>2, Zenon DEF Sheds, SameLog
<1>8. Sheds(r, s)
  <2> HIDE DEF p, q
  <2> QED BY <1>6, <1>7, ZenonT(30)
<1> HIDE DEF s, st
<1> QED BY <1>1, <1>5, <1>8, Zenon DEF r

(* The highest committed index is a natural number.                        *)
LEMMA ReadBoundType ==
  ASSUME Counting, TypeInv PROVE Max({raft[j].committed : j \in Server}) \in Nat
<1> DEFINE f == [j \in Server |-> raft[j].committed]
           S == {raft[j].committed : j \in Server}
<1>1. f \in [Server -> Nat]
  BY LogFields, ZenonT(30) DEF TypeInv
<1>2. S \in SUBSET Nat /\ S # {} /\ \A x \in S : \E j \in Server : x = f[j]
  BY <1>1, MembershipAssumption, ZenonT(30) DEF Server
<1> HIDE DEF S, f
<1>3. Max(S) \in S
  BY <1>1, <1>2, ZenonT(30) DEF Counting, Bounded
<1> QED BY <1>2, <1>3, ZenonT(30) DEF S

(* However its role changes, a node keeps its type and its id.             *)
LEMMA StillNode ==
  ASSUME NEW r, NEW s,
         \/ Quiet(r, s) \/ Campaigns(r, s) \/ PreCampaigns(r, s) \/ Retires(r, s)
         \/ \E t : Follows(r, s, t)
  PROVE  s \in Node /\ s.id = r.id
BY Zenon DEF Quiet, Mute, Campaigns, Stands, Wins, PreCampaigns, Explores,
   Retires, Follows

(* An action that updates one node to a node keeps the types.              *)
LEMMA KeepsTypes ==
  ASSUME TypeInv, NEW i \in Server, NEW s, s \in Node, s.id = raft[i].id, Update(i, s),
         UNCHANGED <<storage, network>>,
         spent' \in [InputKind -> Nat], readBound' \in [ReadCtx -> Nat \cup {None}]
  PROVE  TypeInv'
<1>1. s.id = i
  BY DEF TypeInv
<1>2. raft' \in [Server -> Node] /\ \A j \in Server : raft'[j].id = j
  BY <1>1, UpdateNode, Zenon
<1> QED BY <1>2, Zenon DEF TypeInv

(* RawNode::TransferLeader is handled quietly.                             *)
LEMMA ForwardedTransfer ==
  ASSUME NEW r \in Node, NEW j \in Server
  PROVE  Quiet(r, stepTransferLeader(r,
                    [Message("MsgTransferLeader", None) EXCEPT !.from = j]))
<1> DEFINE m == [Message("MsgTransferLeader", None) EXCEPT !.from = j]
<1>1. "MsgTransferLeader" \in MessageType \ ReadType
  BY DEF MessageType, ReadType
<1>2. /\ m.from \in Server
      /\ \A l \in Server : LET x == [m EXCEPT !.to = l]
                           IN  x \in Draft /\ x.type = "MsgTransferLeader"
  BY <1>1, NoEntries, Zenon DEF Message, Draft, MsgFrom
<1> HIDE DEF m
<1>3. Quiet(r, stepTransferLeader(r, m))
  BY <1>2, StepTransferLeaderQuiet, ZenonT(30)
<1> QED BY <1>3, Zenon DEF m

(* Ticks and requests of the application                                   *)
LEMMA InputTypes ==
  ASSUME Counting, TypeInv, NEW i \in Server,
         \/ TickElectionIdle(i) \/ TickElectionHup(i) \/ Campaign(i)
         \/ TickHeartbeat(i)
         \/ \E v \in Value : Propose(i, v)
         \/ \E j \in Server : ReportUnreachable(i, j) \/ TransferLeader(i, j)
         \/ \E c \in ReadCtx : ReadIndex(i, c)
  PROVE  TypeInv'
<1> DEFINE r == raft[i]
<1>1. r \in Node
  BY Zenon DEF TypeInv
<1>2. r.electionElapsed + 1 \in Nat
  BY <1>1, MinorFields
<1>3. spent \in [InputKind -> Nat] /\ readBound \in [ReadCtx -> Nat \cup {None}]
  BY DEF TypeInv
<1>4. CASE TickElectionIdle(i)
  <2> DEFINE s == [r EXCEPT !.electionElapsed = @ + 1]
  <2>1. Quiet(r, s)
    <3> HIDE DEF r
    <3> QED BY <1>1, <1>2, SetElectionElapsed, ZenonT(30)
  <2>2. Update(i, s) /\ UNCHANGED <<storage, network, spent, readBound>>
    BY <1>4, ZenonT(30) DEF TickElectionIdle
  <2> HIDE DEF s
  <2> QED BY <1>3, <2>1, <2>2, StillNode, KeepsTypes, Zenon
<1>5. CASE TickElectionHup(i)
  <2> DEFINE q == [r EXCEPT !.electionElapsed = 0]
             s == hup(q)
  <2>1. Quiet(r, q)
    BY <1>1, SetElectionElapsed, ZenonT(30)
  <2>2. /\ Update(i, s) /\ UNCHANGED <<storage, network, readBound>>
        /\ spent' \in [InputKind -> Nat]
    BY <1>5, SpendType, ZenonT(30) DEF TickElectionHup, InputKind
  <2> HIDE DEF q
  <2>3. q \in Node /\ q.id = r.id
    BY <2>1, StillNode, ZenonT(30)
  <2>4. s \in Node /\ s.id = q.id
    BY <2>3, HupType, StillNode, ZenonT(30)
  <2> HIDE DEF s
  <2> QED BY <1>3, <2>2, <2>3, <2>4, KeepsTypes, ZenonT(30)
<1>6. CASE Campaign(i)
  <2> DEFINE s == hup(r)
  <2>1. /\ Update(i, s) /\ UNCHANGED <<storage, network, readBound>>
        /\ spent' \in [InputKind -> Nat]
    BY <1>6, SpendType, ZenonT(30) DEF Campaign, InputKind
  <2>2. s \in Node /\ s.id = r.id
    BY <1>1, HupType, StillNode, ZenonT(30)
  <2> HIDE DEF s
  <2> QED BY <1>3, <2>1, <2>2, KeepsTypes, ZenonT(30)
<1>7. CASE TickHeartbeat(i)
  <2> DEFINE s == tickHeartbeat(r)
  <2>1. /\ Update(i, s) /\ UNCHANGED <<storage, network, readBound>>
        /\ spent' \in [InputKind -> Nat] /\ r.state = "Leader"
    BY <1>7, SpendType, Zenon DEF TickHeartbeat, InputKind
  <2>2. s \in Node /\ s.id = r.id
    BY <1>1, <2>1, TickHeartbeatType, StillNode, ZenonT(30)
  <2> HIDE DEF s
  <2> QED BY <1>3, <2>1, <2>2, KeepsTypes, ZenonT(30)
<1>8. ASSUME NEW v \in Value, Propose(i, v) PROVE TypeInv'
  <2> DEFINE es == <<NewEntry(v)>>
             s == handleProp(r, es)
  <2>1. Update(i, s) /\ UNCHANGED <<storage, network, spent, readBound>>
    BY <1>8, ZenonT(30) DEF Propose
  <2>2. es \in Seq(Entry)
    BY DEF NewEntry, Entry
  <2> HIDE DEF es
  <2>3. Quiet(r, s)
    BY <1>1, <2>2, HandlePropQuiet, ZenonT(30)
  <2> HIDE DEF s
  <2> QED BY <1>3, <2>1, <2>3, StillNode, KeepsTypes, ZenonT(30)
<1>9. ASSUME NEW j \in Server, ReportUnreachable(i, j) PROVE TypeInv'
  <2> DEFINE p == becomeProbe(r.prs[j])
             s == [r EXCEPT !.prs[j] = p]
  <2>1. /\ Update(i, s) /\ UNCHANGED <<storage, network, readBound>>
        /\ spent' \in [InputKind -> Nat]
    BY <1>9, SpendType, Zenon DEF ReportUnreachable, InputKind
  <2>2. r.prs[j] \in ProgressType /\ Len(r.log) \in Nat
    BY <1>1, LogFields
  <2>3. Steady(r.prs[j], p, Len(r.log))
    BY <2>2, BecomeType, Zenon
  <2> HIDE DEF p
  <2>4. Quiet(r, s)
    BY <1>1, <2>3, SetSteady, ZenonT(30)
  <2> HIDE DEF s
  <2> QED BY <1>3, <2>1, <2>4, StillNode, KeepsTypes, ZenonT(30)
<1>10. ASSUME NEW j \in Server, TransferLeader(i, j) PROVE TypeInv'
  <2> DEFINE m == [Message("MsgTransferLeader", None) EXCEPT !.from = j]
             s == stepTransferLeader(r, m)
  <2>1. /\ Update(i, s) /\ UNCHANGED <<storage, network, readBound>>
        /\ spent' \in [InputKind -> Nat]
    BY <1>10, SpendType, Zenon DEF TransferLeader, InputKind
  <2>2. Quiet(r, s)
    BY <1>1, ForwardedTransfer, ZenonT(30)
  <2> HIDE DEF m, s
  <2> QED BY <1>3, <2>1, <2>2, StillNode, KeepsTypes, Zenon
<1>11. ASSUME NEW c \in ReadCtx, ReadIndex(i, c) PROVE TypeInv'
  <2> DEFINE s == stepReadIndex(r, None, c)
             n == Max({raft[j].committed : j \in Server})
  <2>1. /\ Update(i, s) /\ UNCHANGED <<storage, network, spent>>
        /\ readBound' = [readBound EXCEPT ![c] = n]
    BY <1>11, Zenon DEF ReadIndex
  <2>2. n \in Nat
    BY ReadBoundType, Zenon
  <2>3. Quiet(r, s)
    BY <1>1, StepReadIndexQuiet, Zenon
  <2> HIDE DEF s, n
  <2>4. readBound' \in [ReadCtx -> Nat \cup {None}]
    BY <1>3, <2>1, <2>2, ZenonT(30)
  <2> QED BY <1>3, <2>1, <2>3, <2>4, StillNode, KeepsTypes, ZenonT(30)
<1> QED BY <1>4, <1>5, <1>6, <1>7, <1>8, <1>9, <1>10, <1>11, ZenonT(30)

(* Messages of the current or a later term, and of an earlier one          *)
LEMMA MessageTypes ==
  ASSUME Counting, TypeInv, NEW i \in Server, NEW m \in network,
         \/ StepProp(i, m) \/ StepVote(i, m) \/ StepVoteResp(i, m)
         \/ StepApp(i, m) \/ StepAppResp(i, m)
         \/ StepHeartbeat(i, m) \/ StepHeartbeatResp(i, m)
         \/ StepTransferLeader(i, m) \/ StepTimeoutNow(i, m)
         \/ StepReadIndex(i, m) \/ StepReadIndexResp(i, m)
         \/ StepLowerTerm(i, m)
  PROVE  TypeInv'
<1> DEFINE r == stepTerm(raft[i], m)
<1>1. m \in Msg /\ raft[i] \in Node
  BY Zenon DEF TypeInv
<1>2. r \in Node /\ r.id = raft[i].id
  BY <1>1, StepTermNode, ZenonT(30)
<1>3. spent \in [InputKind -> Nat] /\ readBound \in [ReadCtx -> Nat \cup {None}]
  BY DEF TypeInv
<1> SUFFICES ASSUME TRUE
             PROVE  /\ UNCHANGED <<storage, network, readBound>>
                    /\ spent' \in [InputKind -> Nat]
                    /\ \E s : s \in Node /\ s.id = raft[i].id /\ Update(i, s)
  BY <1>3, KeepsTypes, Zenon
<1>4. CASE StepProp(i, m)
  <2>1. Quiet(raft[i], handleProp(raft[i], m.entries))
    BY <1>1, MsgFields, HandlePropQuiet, Zenon
  <2> QED BY <1>3, <1>4, <2>1, StillNode, Zenon DEF StepProp, Receive
<1>5. CASE StepVote(i, m)
  <2>1. m.type \in VoteType
    BY <1>5, Zenon DEF StepVote, Receive
  <2>2. handleVote(r, m) \in Node /\ handleVote(r, m).id = r.id
    BY <1>1, <1>2, <2>1, HandleVoteType, ZenonT(30) DEF Quiet, Mute, Casts
  <2>3. m.type \notin {"MsgApp", "MsgReadIndex"}
    BY <2>1 DEF VoteType
  <2> QED BY <1>2, <1>3, <1>5, <2>2, <2>3, Zenon DEF StepVote, Receive
<1>6. CASE StepVoteResp(i, m)
  <2> DEFINE s == handleVoteResp(r, m)
  <2>1. s \in Node /\ s.id = r.id
    <3>1. PICK p : /\ Polls(r, p, m.from, ~m.reject)
                   /\ \/ s = p
                      \/ Follows(p, s, p.term)
                      \/ Campaigns(p, s)
                      \/ \E w : Wins(p, w) /\ Quiet(w, s)
      BY <1>1, <1>2, HandleVoteRespType, ZenonT(30)
    <3>2. p \in Node /\ p.id = r.id
      BY <3>1, Zenon DEF Polls
    <3>3. CASE Follows(p, s, p.term) \/ Campaigns(p, s)
      BY <3>2, <3>3, StillNode, Zenon
    <3>4. CASE \E w : Wins(p, w) /\ Quiet(w, s)
      BY <3>2, <3>4, Zenon DEF Wins, Quiet, Mute
    <3> QED BY <3>1, <3>2, <3>3, <3>4, ZenonT(30)
  <2>2. m.type \notin {"MsgApp", "MsgReadIndex"}
    BY <1>6, Zenon DEF StepVoteResp, Receive, VoteRespType
  <2>3. Update(i, r) \/ Update(i, s)
    BY <1>6 DEF StepVoteResp
  <2> HIDE DEF s
  <2> QED BY <1>2, <1>3, <1>6, <2>1, <2>2, <2>3, ZenonT(30)
             DEF StepVoteResp, Receive
<1>7. CASE StepApp(i, m)
  <2> DEFINE f == followLeader(r, m)
             s == handleAppendEntries(f, m)
  <2>1. f \in Node /\ f.id = r.id
    BY <1>1, <1>2, FollowLeaderType, StillNode, ZenonT(30)
  <2>2. Update(i, r) \/ Update(i, s)
    BY <1>7 DEF StepApp
  <2> HIDE DEF f
  <2>6. m.type = "MsgApp"
    BY <1>7, Zenon DEF StepApp, Receive
  <2>3. Hears(f, s, m) \/ Accepts(f, s, m)
    BY <1>1, <2>1, <2>6, HandleAppendEntriesType, Zenon
  <2>4. s \in Node /\ s.id = f.id
    BY <2>3, Zenon DEF Hears, Accepts, Mute
  <2>5. spent' \in [InputKind -> Nat]
    BY <1>7, SpendType, ZenonT(30) DEF StepApp, InputKind
  <2> HIDE DEF s
  <2> QED BY <1>2, <1>7, <2>1, <2>2, <2>4, <2>5, ZenonT(30) DEF StepApp, Receive
<1>8. CASE StepHeartbeat(i, m)
  <2> DEFINE f == followLeader(r, m)
             s == handleHeartbeat(f, m)
  <2>1. f \in Node /\ f.id = r.id
    BY <1>1, <1>2, FollowLeaderType, StillNode, Zenon
  <2>2. Update(i, r) \/ Update(i, s)
    BY <1>8, ZenonT(30) DEF StepHeartbeat
  <2> HIDE DEF f
  <2>5. m.type = "MsgHeartbeat"
    BY <1>8, Zenon DEF StepHeartbeat, Receive
  <2>3. Hears(f, s, m)
    BY <1>1, <2>1, <2>5, HandleHeartbeatType, ZenonT(30)
  <2>4. s \in Node /\ s.id = f.id
    BY <2>3, Zenon DEF Hears, Mute
  <2> HIDE DEF s
  <2> QED BY <1>2, <1>3, <1>8, <2>1, <2>2, <2>4, ZenonT(30)
             DEF StepHeartbeat, Receive
<1>9. CASE StepAppResp(i, m)
  <2>1. ASSUME r.state = "Leader"
        PROVE  /\ handleAppAccepted(r, m) \in Node
               /\ handleAppAccepted(r, m).id = r.id
    <3>1. PICK a \in Node : Matches(r, a, m) /\ Quiet(a, handleAppAccepted(r, m))
      BY <1>1, <1>2, <2>1, HandleAppAcceptedType, Zenon
    <3> QED BY <3>1, Zenon DEF Matches, Quiet, Mute
  <2>2. \E s : s \in Node /\ s.id = r.id /\ Update(i, s)
    BY <1>1, <1>2, <1>9, <2>1, HandleAppRejectedQuiet, StillNode,
       ZenonT(30) DEF StepAppResp
  <2> QED BY <1>2, <1>3, <1>9, <2>2, ZenonT(30) DEF StepAppResp, Receive
<1>10. CASE StepHeartbeatResp(i, m)
  <2>1. \E s : (s = r \/ Quiet(r, s)) /\ Update(i, s)
    BY <1>1, <1>2, <1>10, HandleHeartbeatRespQuiet, ZenonT(30)
       DEF StepHeartbeatResp
  <2> QED BY <1>2, <1>3, <1>10, <2>1, StillNode, ZenonT(30)
             DEF StepHeartbeatResp, Receive
<1>11. CASE StepTransferLeader(i, m)
  <2>1. m.type = "MsgTransferLeader"
    BY <1>11, Zenon DEF StepTransferLeader, Receive
  <2>2. /\ m.from \in Server
        /\ \A l \in Server : LET x == [m EXCEPT !.to = l]
                             IN  x \in Draft /\ x.type = "MsgTransferLeader"
    BY <1>1, <2>1, ZenonT(30) DEF Msg, MsgFrom, Draft
  <2>3. Quiet(r, stepTransferLeader(r, m))
    BY <1>2, <2>2, StepTransferLeaderQuiet, ZenonT(30)
  <2> QED BY <1>2, <1>3, <1>11, <2>3, StillNode, ZenonT(30)
             DEF StepTransferLeader, Receive
<1>12. CASE StepTimeoutNow(i, m)
  <2>1. Campaigns(r, campaign(r, CampaignTransfer))
    BY <1>2, CampaignType, ZenonT(30)
  <2>2. \E s : (s = r \/ Campaigns(r, s)) /\ Update(i, s)
    BY <1>12, <2>1, ZenonT(30) DEF StepTimeoutNow
  <2> QED BY <1>2, <1>3, <1>12, <2>2, StillNode, ZenonT(30)
             DEF StepTimeoutNow, Receive
<1>13. CASE StepReadIndex(i, m)
  <2>1. m.type \in ReadType
    BY <1>13, Zenon DEF StepReadIndex, Receive, ReadType
  <2>2. m.from \in Server \cup {None} /\ m.context \in ReadCtx
    BY <1>1, <2>1, MsgFields, ZenonT(30)
  <2>3. Quiet(raft[i], stepReadIndex(raft[i], m.from, m.context))
    BY <1>1, <2>2, StepReadIndexQuiet, ZenonT(30)
  <2>4. spent' \in [InputKind -> Nat]
    BY <1>13, SpendType, ZenonT(30) DEF StepReadIndex, InputKind
  <2> QED BY <1>13, <2>3, <2>4, StillNode, ZenonT(30) DEF StepReadIndex, Receive
<1>14. CASE StepReadIndexResp(i, m)
  <2> DEFINE s == [r EXCEPT !.readStates = @ \cup
                     {[ctx |-> m.context, index |-> m.index]}]
  <2>1. m.type \in ReadType
    BY <1>14, ZenonT(30) DEF StepReadIndexResp, Receive, ReadType
  <2>2. m.context \in ReadCtx /\ m.index \in Nat
    BY <1>1, <2>1, MsgFields, Zenon
  <2>3. Update(i, r) \/ Update(i, s)
    BY <1>14, ZenonT(30) DEF StepReadIndexResp
  <2>4. Quiet(r, s)
    <3> HIDE DEF r
    <3> QED BY <1>2, <2>2, AddReadStateQuiet, ZenonT(30)
  <2> HIDE DEF s
  <2> QED BY <1>2, <1>3, <1>14, <2>3, <2>4, StillNode, ZenonT(30)
             DEF StepReadIndexResp, Receive
<1>15. CASE StepLowerTerm(i, m)
  <2>1. Quiet(raft[i], handleLowerTerm(raft[i], m))
    BY <1>1, HandleLowerTermQuiet, ZenonT(30)
  <2> QED BY <1>3, <1>15, <2>1, StillNode, ZenonT(30) DEF StepLowerTerm
<1> QED BY <1>4, <1>5, <1>6, <1>7, <1>8, <1>9, <1>10, <1>11, <1>12, <1>13,
           <1>14, <1>15, ZenonT(30)

(* The Ready loop keeps the types.                                         *)
LEMMA ReadyTypes ==
  ASSUME TypeInv, NEW i \in Server, Ready(i)
  PROVE  TypeInv'
<1>1. PICK s, st :
        /\ Sheds(raft[i], s) /\ Saves(raft[i], st)
        /\ raft' = [raft EXCEPT ![i] = s]
        /\ storage' = [storage EXCEPT ![i] = st]
        /\ network' = network \cup raft[i].msgs
        /\ UNCHANGED <<spent, readBound>>
  BY ReadySaves, ZenonT(30)
<1>2. s \in Node /\ s.id = i /\ st \in StorageType
  BY <1>1, Zenon DEF TypeInv, Sheds, Saves
<1>3. raft[i].msgs \subseteq Msg
  BY LogFields, Zenon DEF TypeInv
<1> QED BY <1>1, <1>2, <1>3, ZenonT(30) DEF TypeInv

(* A restart loads what was saved.                                         *)
LEMMA RestartLoads ==
  ASSUME TypeInv, NEW i \in Server, Restart(i)
  PROVE  /\ \E s : Loads(i, storage[i], s) /\ raft' = [raft EXCEPT ![i] = s]
         /\ UNCHANGED <<storage, network, readBound>>
         /\ spent' \in [InputKind -> Nat]
<1>1. storage[i] \in StorageType
  BY Zenon DEF TypeInv
<1>2. storage[i].hardState.commit \in Nat
  BY <1>1, Zenon DEF StorageType
<1>3. PICK n \in {0, storage[i].hardState.commit} :
        raft' = [raft EXCEPT ![i] = newRaft(i, storage[i], n)]
  BY Zenon DEF Restart
<1>4. n \in Nat
  BY <1>2
<1>5. Loads(i, storage[i], newRaft(i, storage[i], n))
  BY <1>1, <1>4, NewRaftType DEF Loads
<1>6. spent' \in [InputKind -> Nat] /\ UNCHANGED <<storage, network, readBound>>
  BY SpendType, Zenon DEF Restart, InputKind
<1> QED BY <1>3, <1>5, <1>6, ZenonT(30)

(* A restart keeps the types.                                              *)
LEMMA RestartTypes ==
  ASSUME TypeInv, NEW i \in Server, Restart(i)
  PROVE  TypeInv'
<1>1. PICK s : Loads(i, storage[i], s) /\ raft' = [raft EXCEPT ![i] = s]
  BY RestartLoads, ZenonT(30)
<1>2. s \in Node /\ s.id = i
  BY <1>1, ZenonT(30) DEF Loads
<1>3. UNCHANGED <<storage, network, readBound>> /\ spent' \in [InputKind -> Nat]
  BY RestartLoads, ZenonT(30)
<1> QED BY <1>1, <1>2, <1>3, Zenon DEF TypeInv

(* Every process starts on an empty storage.                               *)
LEMMA InitLoads ==
  ASSUME Init, NEW i \in Server
  PROVE  /\ storage[i] = EmptyStorage /\ EmptyStorage \in StorageType
         /\ Loads(i, EmptyStorage, raft[i])
<1>1. storage[i] = EmptyStorage /\ EmptyStorage \in StorageType
  BY DEF Init, EmptyStorage, StorageType
<1>2. raft[i] = newRaft(i, EmptyStorage, 0)
  BY ZenonT(30) DEF Init
<1> HIDE DEF EmptyStorage
<1>3. Loads(i, EmptyStorage, raft[i])
  BY <1>1, <1>2, NewRaftType DEF Loads
<1> QED BY <1>1, <1>3, ZenonT(30)

(* The types are right initially.                                          *)
LEMMA InitTypes == Init => TypeInv
<1> SUFFICES ASSUME Init PROVE TypeInv
  BY Zenon
<1>1. \A i \in Server : raft[i] \in Node /\ raft[i].id = i /\ storage[i] \in StorageType
  BY InitLoads, ZenonT(30) DEF Loads
<1> QED BY <1>1, Zenon DEF Init, TypeInv

(* Every step keeps the types.                                             *)
LEMMA NextTypes ==
  ASSUME Counting
  PROVE TypeInv /\ [Next]_vars => TypeInv'
<1> SUFFICES ASSUME TypeInv, [Next]_vars PROVE TypeInv'
  BY ZenonT(30)
<1>1. CASE UNCHANGED vars
  BY <1>1, ZenonT(30) DEF vars, TypeInv
<1>2. CASE Next
  BY <1>2, InputTypes, MessageTypes, ReadyTypes, RestartTypes, ZenonT(30)
     DEF Next
<1> QED BY <1>1, <1>2, ZenonT(30)
-----------------------------------------------------------------------------
(* Handlers are paths of moves                                             *)

(* A voter campaigns in two moves, after a pre-campaign in three.          *)
LEMMA CampaignsMoves ==
  ASSUME NEW N, NEW r, NEW s, r.id \in Voter
  PROVE  /\ Campaigns(r, s) => \E a : Move(N, r, a) /\ Move(N, a, s)
         /\ PreCampaigns(r, s) =>
              \E a, b : Move(N, r, a) /\ Move(N, a, b) /\ Move(N, b, s)
<1>1. ASSUME NEW q, q.id \in Voter, Campaigns(q, s)
      PROVE  \E a : Move(N, q, a) /\ Move(N, a, s)
  <2>1. PICK c : /\ Stands(q, c)
                 /\ Quiet(c, s) \/ (votesGranted(c) = quorum(c) /\ Wins(c, s))
    BY <1>1, ZenonT(30) DEF Campaigns
  <2>2. c.state = "Candidate"
    BY <2>1, ZenonT(30) DEF Stands
  <2>3. Move(N, q, c) /\ Move(N, c, s)
    BY <1>1, <2>1, <2>2, ZenonT(30) DEF Move
  <2> QED BY <2>3, ZenonT(30)
<1>2. ASSUME PreCampaigns(r, s)
      PROVE  \E a, b : Move(N, r, a) /\ Move(N, a, b) /\ Move(N, b, s)
  <2>1. PICK p : Explores(r, p) /\ (Quiet(p, s) \/ Campaigns(p, s))
    BY <1>2 DEF PreCampaigns
  <2>2. Move(N, r, p) /\ p \in Node /\ p.id \in Voter
    BY <2>1, ZenonT(30) DEF Move, Explores
  <2>3. CASE Quiet(p, s)
    <3>1. Move(N, p, s) /\ Move(N, p, p)
      BY <2>2, <2>3, QuietRefl, ZenonT(30) DEF Move
    <3> QED BY <2>2, <3>1, ZenonT(30)
  <2>4. CASE Campaigns(p, s)
    BY <1>1, <2>2, <2>4, ZenonT(30)
  <2> QED BY <2>1, <2>3, <2>4, ZenonT(30)
<1> QED BY <1>1, <1>2, ZenonT(30)

(* A leader retires in two moves.                                          *)
LEMMA RetiresMoves ==
  ASSUME NEW N, NEW r, NEW s, Retires(r, s)
  PROVE  \E a : Move(N, r, a) /\ Move(N, a, s)
<1>1. PICK a : Quiet(r, a) /\ Follows(a, s, a.term)
  BY Zenon DEF Retires
<1>2. a.term \in Nat
  BY <1>1, LogFields, Zenon DEF Follows
<1>3. a.term >= a.term
  BY <1>2
<1>4. Move(N, r, a) /\ Move(N, a, s)
  BY <1>1, <1>2, <1>3, ZenonT(30) DEF Move
<1> QED BY <1>4, ZenonT(30)

(* The prologue of Step is a move.                                         *)
LEMMA StepTermMove ==
  ASSUME NEW N, NEW r \in Node, NEW m \in Msg
  PROVE  Move(N, r, stepTerm(r, m))
<1> DEFINE s == stepTerm(r, m)
<1>1. m.term \in Nat /\ r.term \in Nat
  BY LogFields, MsgFields, ZenonT(30)
<1>2. s = r \/ (m.term > r.term /\ Follows(r, s, m.term))
  BY StepTermType, Zenon
<1> HIDE DEF s
<1>3. m.term > r.term => m.term >= r.term
  BY <1>1
<1>4. Move(N, r, s)
  BY <1>1, <1>2, <1>3, QuietRefl, ZenonT(30) DEF Move
<1> QED BY <1>4, ZenonT(30) DEF s

(* m answers the candidate r: its sender supports r in the term of r.      *)
LEMMA HandleVoteRespMoves ==
  ASSUME Counting, NEW N, NEW D, NEW r, NEW m \in Msg, NodeInv(N, D, r),
         r.state \in {"PreCandidate", "Candidate"},
         r.state = "Candidate" /\ ~m.reject => m.from \in Supporters(N, r.id, r.term)
  PROVE  LET s == handleVoteResp(r, m)
         IN  \E a, b : Move(N, r, a) /\ Move(N, a, b) /\ Move(N, b, s)
<1> DEFINE s == handleVoteResp(r, m)
           g == ~m.reject
<1>1. r \in Node /\ r.id \in Voter
  BY Zenon DEF NodeInv, RoleInv
<1>2. PICK p : /\ Polls(r, p, m.from, g)
               /\ \/ s = p
                  \/ Follows(p, s, p.term)
                  \/ p.state = "PreCandidate" /\ Campaigns(p, s)
                  \/ /\ p.state # "PreCandidate" /\ votesGranted(p) = quorum(p)
                     /\ \E w : Wins(p, w) /\ Quiet(w, s)
  BY <1>1, HandleVoteRespType, ZenonT(30)
<1>3. r.state = "Candidate" /\ g => m.from \in Supporters(N, r.id, r.term)
  BY Zenon
<1> HIDE DEF s, g
<1>4. Move(N, r, p)
  <2>1. r.state # "Leader"
    BY Zenon
  <2> QED BY <1>2, <1>3, <2>1, ZenonT(30) DEF Move
<1>5. p \in Node /\ p.state \in {"PreCandidate", "Candidate"} /\ p.id \in Voter
  BY <1>1, <1>2, ZenonT(30) DEF Polls
<1>6. p.term \in Nat /\ Move(N, p, p)
  BY <1>5, LogFields, QuietRefl, ZenonT(30) DEF Move
<1>7. CASE s = p
  BY <1>4, <1>6, <1>7, ZenonT(30) DEF s
<1>8. CASE Follows(p, s, p.term)
  <2>1. p.term >= p.term
    BY <1>6
  <2>2. Move(N, p, s)
    BY <1>6, <1>8, <2>1, ZenonT(30) DEF Move
  <2> QED BY <1>4, <1>6, <2>2, ZenonT(30) DEF s
<1>9. CASE Campaigns(p, s)
  BY <1>4, <1>5, <1>9, CampaignsMoves DEF s
<1>10. CASE /\ p.state # "PreCandidate" /\ votesGranted(p) = quorum(p)
            /\ \E w : Wins(p, w) /\ Quiet(w, s)
  <2>1. PICK w : Wins(p, w) /\ Quiet(w, s)
    BY <1>10, Zenon
  <2>2. Move(N, p, w) /\ Move(N, w, s)
    BY <1>5, <1>10, <2>1, ZenonT(30) DEF Move
  <2> QED BY <1>4, <2>2, Zenon DEF s
<1> QED BY <1>2, <1>7, <1>8, <1>9, <1>10, ZenonT(30) DEF s

(* MsgHup takes a voter three moves at most.                               *)
LEMMA HupMoves ==
  ASSUME Counting, NEW N, NEW r \in Node, r.id \in Voter
  PROVE  \E a, b : Move(N, r, a) /\ Move(N, a, b) /\ Move(N, b, hup(r))
<1> DEFINE s == hup(r)
<1>1. Quiet(r, s) \/ Campaigns(r, s) \/ PreCampaigns(r, s)
  BY HupType, Zenon
<1> HIDE DEF s
<1>2. Move(N, r, r) /\ (Quiet(r, s) => Move(N, r, s))
  BY QuietRefl, Zenon DEF Move
<1>3. CASE Campaigns(r, s)
  BY <1>2, <1>3, CampaignsMoves, ZenonT(30) DEF s
<1>4. CASE PreCampaigns(r, s)
  BY <1>4, CampaignsMoves, ZenonT(30) DEF s
<1> QED BY <1>1, <1>2, <1>3, <1>4, ZenonT(30) DEF s

(* A quiet change is a path.                                               *)
LEMMA QuietPath ==
  ASSUME NEW N, NEW r, NEW s, Quiet(r, s) PROVE Path(N, r, s)
<1>1. s \in Node /\ Move(N, r, s)
  BY QuietNode, ZenonT(30) DEF Move
<1> QED BY <1>1, ShortPath, ZenonT(30)

(* Ticks and requests of the application are paths of moves.               *)
LEMMA InputMoves ==
  ASSUME Counting, TypeInv, Campaigner \subseteq Voter, NEW i \in Server,
         \/ TickElectionIdle(i) \/ TickElectionHup(i) \/ Campaign(i)
         \/ TickHeartbeat(i)
         \/ \E v \in Value : Propose(i, v)
         \/ \E j \in Server : ReportUnreachable(i, j) \/ TransferLeader(i, j)
         \/ \E c \in ReadCtx : ReadIndex(i, c)
  PROVE  Moves(i)
<1> DEFINE r == raft[i]
           P(s) == Path(network, r, s)
<1>1. r \in Node /\ r.id = i
  BY Zenon DEF TypeInv
<1>2. r.electionElapsed + 1 \in Nat
  BY <1>1, MinorFields
<1>3. UNCHANGED <<storage, network>>
  BY Zenon
     DEF TickElectionIdle, TickElectionHup, Campaign, TickHeartbeat, Propose,
         ReportUnreachable, TransferLeader, ReadIndex
<1>4. ~r.panic
  BY Zenon
     DEF TickElectionIdle, TickElectionHup, Campaign, TickHeartbeat, Propose,
               ReportUnreachable, TransferLeader, ReadIndex, CanStep
<1> SUFFICES ASSUME TRUE PROVE \E s : P(s) /\ Update(i, s)
  BY <1>3, <1>4, Zenon DEF Moves
<1>5. CASE TickElectionIdle(i)
  <2> DEFINE s == [r EXCEPT !.electionElapsed = @ + 1]
  <2>1. Quiet(r, s)
    <3> HIDE DEF r
    <3> QED BY <1>1, <1>2, SetElectionElapsed, ZenonT(30)
  <2>2. Update(i, s)
    BY <1>5, Zenon DEF TickElectionIdle
  <2> HIDE DEF s
  <2> QED BY <2>1, <2>2, QuietPath, ZenonT(30)
<1>6. CASE TickElectionHup(i)
  <2> DEFINE q == [r EXCEPT !.electionElapsed = 0]
             s == hup(q)
  <2>1. Quiet(r, q)
    BY <1>1, SetElectionElapsed, ZenonT(30)
  <2>2. Update(i, s) /\ promotable(r)
    BY <1>6, ZenonT(30) DEF TickElectionHup
  <2> HIDE DEF q
  <2>3. q \in Node /\ q.id \in Voter
    BY <1>1, <2>1, <2>2, VotersOfNode, ZenonT(30) DEF promotable, Quiet, Mute
  <2>4. Move(network, r, q)
    BY <2>1, ZenonT(30) DEF Move
  <2>5. P(s)
    BY <2>3, <2>4, HupMoves, ZenonT(30) DEF Path
  <2> QED BY <2>2, <2>5, ZenonT(30)
<1>7. CASE Campaign(i)
  <2>1. Update(i, hup(r)) /\ i \in Voter
    BY <1>7, ZenonT(30) DEF Campaign
  <2>2. Move(network, r, r)
    BY <1>1, QuietRefl, Zenon DEF Move
  <2>3. P(hup(r))
    BY <1>1, <2>1, <2>2, HupMoves, ZenonT(30) DEF Path
  <2> QED BY <2>1, <2>3
<1>8. CASE TickHeartbeat(i)
  <2> DEFINE s == tickHeartbeat(r)
  <2>1. Update(i, s) /\ r.state = "Leader"
    BY <1>8, Zenon DEF TickHeartbeat
  <2>2. Quiet(r, s) \/ Retires(r, s)
    BY <1>1, <2>1, TickHeartbeatType, Zenon
  <2> HIDE DEF s
  <2>3. s \in Node
    BY <2>2, StillNode, ZenonT(30)
  <2>4. P(s)
    BY <2>2, <2>3, QuietPath, RetiresMoves, ShortPath, Zenon
  <2> QED BY <2>1, <2>4, ZenonT(30)
<1>9. ASSUME NEW v \in Value, Propose(i, v)
      PROVE  \E s : P(s) /\ Update(i, s)
  <2> DEFINE es == <<NewEntry(v)>>
  <2>1. Update(i, handleProp(r, es))
    BY <1>9, ZenonT(30) DEF Propose
  <2>2. es \in Seq(Entry)
    BY DEF NewEntry, Entry
  <2> HIDE DEF es
  <2>3. Quiet(r, handleProp(r, es))
    BY <1>1, <2>2, HandlePropQuiet, ZenonT(30)
  <2> QED BY <2>1, <2>3, QuietPath
<1>10. ASSUME NEW j \in Server, ReportUnreachable(i, j)
       PROVE  \E s : P(s) /\ Update(i, s)
  <2> DEFINE p == becomeProbe(r.prs[j])
             s == [r EXCEPT !.prs[j] = p]
  <2>1. Update(i, s)
    BY <1>10, ZenonT(30) DEF ReportUnreachable
  <2>2. r.prs[j] \in ProgressType /\ Len(r.log) \in Nat
    BY <1>1, LogFields
  <2>3. Steady(r.prs[j], p, Len(r.log))
    BY <2>2, BecomeType, Zenon
  <2> HIDE DEF p
  <2>4. Quiet(r, s)
    BY <1>1, <2>3, SetSteady, Zenon
  <2> HIDE DEF s
  <2> QED BY <2>1, <2>4, QuietPath, ZenonT(30)
<1>11. ASSUME NEW j \in Server, TransferLeader(i, j)
       PROVE  \E s : P(s) /\ Update(i, s)
  <2> DEFINE m == [Message("MsgTransferLeader", None) EXCEPT !.from = j]
  <2>1. Update(i, stepTransferLeader(r, m))
    BY <1>11, ZenonT(30) DEF TransferLeader
  <2>2. Quiet(r, stepTransferLeader(r, m))
    BY <1>1, ForwardedTransfer, ZenonT(30)
  <2> HIDE DEF m
  <2> QED BY <2>1, <2>2, QuietPath
<1>12. ASSUME NEW c \in ReadCtx, ReadIndex(i, c)
       PROVE  \E s : P(s) /\ Update(i, s)
  <2>1. Update(i, stepReadIndex(r, None, c))
    BY <1>12, Zenon DEF ReadIndex
  <2>2. Quiet(r, stepReadIndex(r, None, c))
    BY <1>1, StepReadIndexQuiet, ZenonT(30)
  <2> QED BY <2>1, <2>2, QuietPath, ZenonT(30)
<1> QED BY <1>5, <1>6, <1>7, <1>8, <1>9, <1>10, <1>11, <1>12, ZenonT(30)

(* The delivery of a message is a path of moves.                           *)
LEMMA MessageMoves ==
  ASSUME Counting, ElectionInv, NEW i \in Server, NEW m \in network,
         \/ StepProp(i, m) \/ StepVote(i, m) \/ StepVoteResp(i, m)
         \/ StepApp(i, m) \/ StepAppResp(i, m)
         \/ StepHeartbeat(i, m) \/ StepHeartbeatResp(i, m)
         \/ StepTransferLeader(i, m) \/ StepTimeoutNow(i, m)
         \/ StepReadIndex(i, m) \/ StepReadIndexResp(i, m)
         \/ StepLowerTerm(i, m)
  PROVE  Moves(i)
<1> DEFINE r == stepTerm(raft[i], m)
           P(s) == Path(network, raft[i], s)
<1>1. /\ TypeInv /\ storage \in [Server -> StorageType]
      /\ m \in Msg /\ raft[i] \in Node /\ raft[i].id = i
  BY Zenon DEF ElectionInv, TypeInv
<1>2. NodeInv(network, storage, raft[i]) /\ NetInv(network, storage)
      /\ MsgInv(network, m)
  BY Zenon DEF ElectionInv, NetInv
<1>3. r \in Node /\ r.id = i /\ Move(network, raft[i], r)
  BY <1>1, StepTermNode, StepTermMove, Zenon
<1>4. /\ r = raft[i] \/ (m.term > raft[i].term /\ Follows(raft[i], r, m.term))
      /\ m.type \notin {"MsgPreVote", "MsgPreVoteResp"} => r.term >= m.term
  BY <1>1, StepTermType, Zenon
<1>5. m.term \in Nat /\ raft[i].term \in Nat /\ r.term \in Nat
  BY <1>1, <1>3, MsgFields, LogFields, ZenonT(30)
<1>6. UNCHANGED <<storage, network>>
  BY ZenonT(30)
     DEF StepProp, StepVote, StepVoteResp, StepApp, StepAppResp, StepHeartbeat,
         StepHeartbeatResp, StepTransferLeader, StepTimeoutNow, StepReadIndex,
         StepReadIndexResp, StepLowerTerm, Receive
<1>7. ~raft[i].panic
  BY Zenon
     DEF StepProp, StepVote, StepVoteResp, StepApp, StepAppResp, StepHeartbeat,
         StepHeartbeatResp, StepTransferLeader, StepTimeoutNow, StepReadIndex,
         StepReadIndexResp, StepLowerTerm, Receive, CanStep
<1> SUFFICES ASSUME TRUE PROVE \E s : P(s) /\ Update(i, s)
  BY <1>6, <1>7, Zenon DEF Moves
<1> HIDE DEF r
<1>8. /\ P(r)
      /\ \A s : Quiet(r, s) => P(s)
      /\ \A s : Quiet(raft[i], s) => P(s)
  <2>1. \A s : Quiet(r, s) => Move(network, r, s) /\ s \in Node
    BY QuietNode, ZenonT(30) DEF Move
  <2> QED BY <1>3, <2>1, ShortPath, QuietPath, ZenonT(30)
<1>a. ASSUME m.term >= 1, m.term = 0 \/ m.term >= raft[i].term,
             m.type \notin {"MsgPreVote", "MsgPreVoteResp"}
      PROVE  r.term = m.term
  <2>1. CASE r = raft[i]
    <3>1. raft[i].term >= m.term
      BY <1>4, <1>a, <2>1, ZenonT(30)
    <3> QED BY <1>5, <1>a, <2>1, <3>1, SameTerm, Zenon
  <2>2. CASE Follows(raft[i], r, m.term)
    BY <2>2, ZenonT(30) DEF Follows
  <2> QED BY <1>4, <2>1, <2>2, ZenonT(30)
<1>9. CASE StepProp(i, m)
  <2>1. Quiet(raft[i], handleProp(raft[i], m.entries))
    BY <1>1, MsgFields, HandlePropQuiet, ZenonT(30)
  <2> QED BY <1>8, <1>9, <2>1, Zenon DEF StepProp
<1>10. CASE StepVote(i, m)
  <2> DEFINE s == handleVote(r, m)
  <2>1. /\ m.type \in VoteType
        /\ m.term = 0 \/ m.term >= raft[i].term
        /\ Update(i, s)
    BY <1>10, Zenon DEF StepVote, Receive, r
  <2>2. \/ Quiet(r, s)
        \/ /\ m.type = "MsgVote" /\ r.id \in Voter
           /\ r.vote = m.from \/ r.vote = None
           /\ isUpToDate(r, m.index, m.logterm)
           /\ Casts(r, s, m.from, m.term)
    BY <1>1, <1>3, <2>1, HandleVoteType, ZenonT(30)
  <2> HIDE DEF s
  <2>3. CASE Quiet(r, s)
    BY <1>8, <2>1, <2>3, ZenonT(30)
  <2>4. CASE /\ m.type = "MsgVote" /\ r.id \in Voter
             /\ r.vote = m.from \/ r.vote = None
             /\ isUpToDate(r, m.index, m.logterm)
             /\ Casts(r, s, m.from, m.term)
    <3>1. m.term >= 1 /\ r.term >= m.term
      BY <1>2, <1>4, <2>4, ZenonT(30) DEF MsgInv
    <3>2. r.term = m.term
      BY <1>a, <2>1, <2>4, <3>1, ZenonT(30)
    <3>3. m.from \in Server
      BY <1>1, MsgFields, ZenonT(30)
    <3>6. Asked(network, r, m.from)
      BY <2>4, <3>2, Zenon DEF Asked
    <3>7. Casts(r, s, m.from, r.term) /\ s \in Node
      BY <2>4, <3>2, ZenonT(30) DEF Casts
    <3>4. Move(network, r, s) /\ s \in Node
      BY <2>4, <3>1, <3>2, <3>3, <3>6, <3>7, ZenonT(30) DEF Move
    <3>5. P(s)
      BY <1>3, <3>4, ShortPath, ZenonT(30)
    <3> QED BY <2>1, <3>5, Zenon
  <2> QED BY <2>2, <2>3, <2>4, ZenonT(30)
<1>11. CASE StepVoteResp(i, m)
  <2> DEFINE s == handleVoteResp(r, m)
  <2>1. /\ m.term = 0 \/ m.term >= raft[i].term
        /\ m.to = i /\ m.type \in VoteRespType
    BY <1>11, ZenonT(30) DEF StepVoteResp, Receive
  <2>2. \/ Update(i, r)
        \/ /\ \/ r.state = "PreCandidate"
              \/ r.state = "Candidate" /\ m.type = "MsgVoteResp"
           /\ Update(i, s)
    BY <1>11, Zenon DEF StepVoteResp, r
  <2>3. CASE /\ \/ r.state = "PreCandidate"
                \/ r.state = "Candidate" /\ m.type = "MsgVoteResp"
             /\ Update(i, s)
    <3>1. ASSUME r.state = "Candidate", ~m.reject
          PROVE  m.from \in Supporters(network, r.id, r.term)
      <4>1. Grant(m)
        BY <2>3, <3>1, ZenonT(30) DEF Grant
      <4>2. m.term >= 1 /\ m.from \in Voter
        BY <1>2, <4>1, ZenonT(30) DEF MsgInv
      <4>3. r.term = m.term
        BY <1>a, <2>1, <4>1, <4>2, ZenonT(30) DEF Grant
      <4> QED BY <1>3, <2>1, <4>1, <4>2, <4>3, ZenonT(30) DEF Supporters
    <3>2. NodeInv(network, storage, r)
      BY <1>2, <1>4, <2>3, ZenonT(30) DEF Follows
    <3>3. \E a, b : Move(network, r, a) /\ Move(network, a, b) /\ Move(network, b, s)
      BY <1>1, <2>3, <3>1, <3>2, HandleVoteRespMoves, ZenonT(30)
    <3> HIDE DEF s
    <3>4. P(s)
      BY <1>3, <3>3, ZenonT(30) DEF Path
    <3> QED BY <2>3, <3>4, ZenonT(30)
  <2> QED BY <1>8, <2>2, <2>3, ZenonT(30)
<1>12. ASSUME m.type \in LeaderType, m.term = 0 \/ m.term >= raft[i].term
       PROVE  LET f == followLeader(r, m)
              IN  /\ f \in Node /\ f.state = "Follower" /\ Move(network, r, f)
                  /\ f.term = m.term /\ f.id = i
  <2> DEFINE f == followLeader(r, m)
  <2>1. m.term >= 1
    BY <1>2, <1>12, Zenon DEF MsgInv, Elected
  <2>2. r.term = m.term
    BY <1>a, <1>12, <2>1, ZenonT(30) DEF LeaderType
  <2>3. m.term >= r.term
    BY <1>5, <2>2, OrderFacts, Zenon
  <2>4. (r.state = "Follower" /\ Quiet(r, f)) \/ Follows(r, f, m.term)
    BY <1>1, <1>3, FollowLeaderType, ZenonT(30)
  <2> HIDE DEF f
  <2>5. f \in Node /\ f.state = "Follower" /\ f.term = m.term /\ f.id = i
    BY <1>3, <2>2, <2>4, ZenonT(30) DEF Quiet, Mute, Follows
  <2>6. Move(network, r, f)
    BY <1>5, <2>3, <2>4, ZenonT(30) DEF Move
  <2> QED BY <2>5, <2>6, Zenon DEF f
<1>13. CASE StepApp(i, m)
  <2> DEFINE f == followLeader(r, m)
             s == handleAppendEntries(f, m)
  <2>1. /\ m.type = "MsgApp" /\ (m.term = 0 \/ m.term >= raft[i].term)
        /\ m.to = i
    BY <1>13, Zenon DEF StepApp, Receive
  <2>2. /\ f \in Node /\ f.state = "Follower" /\ Move(network, r, f)
        /\ f.term = m.term /\ f.id = i
    BY <1>12, <2>1, ZenonT(30) DEF LeaderType
  <2>3. Update(i, r) \/ Update(i, s)
    BY <1>13 DEF StepApp, r
  <2> HIDE DEF f
  <2>4. Hears(f, s, m) \/ Accepts(f, s, m)
    BY <1>1, <2>1, <2>2, HandleAppendEntriesType, ZenonT(30)
  <2> HIDE DEF s
  <2>7. Heeds(f, s, m) /\ s \in Node
    BY <2>1, <2>2, <2>4, ZenonT(30) DEF Heeds, Hears, Accepts, Mute
  <2>5. Move(network, f, s) /\ s \in Node
    BY <2>2, <2>7, ZenonT(30) DEF Move
  <2>6. P(s)
    BY <1>3, <2>2, <2>5, ShortPath, ZenonT(30)
  <2> QED BY <1>8, <2>3, <2>6, ZenonT(30)
<1>14. CASE StepHeartbeat(i, m)
  <2> DEFINE f == followLeader(r, m)
             s == handleHeartbeat(f, m)
  <2>1. /\ m.type = "MsgHeartbeat" /\ (m.term = 0 \/ m.term >= raft[i].term)
        /\ m.to = i
    BY <1>14, Zenon DEF StepHeartbeat, Receive
  <2>2. /\ f \in Node /\ f.state = "Follower" /\ Move(network, r, f)
        /\ f.term = m.term /\ f.id = i
    BY <1>12, <2>1, ZenonT(30) DEF LeaderType
  <2>3. Update(i, r) \/ Update(i, s)
    BY <1>14 DEF StepHeartbeat, r
  <2> HIDE DEF f
  <2>4. Hears(f, s, m)
    BY <1>1, <2>1, <2>2, HandleHeartbeatType, ZenonT(30)
  <2> HIDE DEF s
  <2>7. Heeds(f, s, m) /\ s \in Node
    BY <2>1, <2>2, <2>4, ZenonT(30) DEF Heeds, Hears, Mute
  <2>5. Move(network, f, s) /\ s \in Node
    BY <2>2, <2>7, Zenon DEF Move
  <2>6. P(s)
    BY <1>3, <2>2, <2>5, ShortPath, Zenon
  <2> QED BY <1>8, <2>3, <2>6
<1>15. CASE StepAppResp(i, m)
  <2> DEFINE s == handleAppAccepted(r, m)
  <2>1. /\ m.type = "MsgAppResp" /\ (m.term = 0 \/ m.term >= raft[i].term)
        /\ \/ Update(i, r)
           \/ r.state = "Leader" /\ m.reject /\ Update(i, handleAppRejected(r, m))
           \/ r.state = "Leader" /\ ~m.reject /\ Update(i, s)
    BY <1>15, Zenon DEF StepAppResp, Receive, r
  <2>2. CASE r.state = "Leader" /\ m.reject /\ Update(i, handleAppRejected(r, m))
    <3>1. Quiet(r, handleAppRejected(r, m))
      BY <1>1, <1>3, <2>2, HandleAppRejectedQuiet, ZenonT(30)
    <3> QED BY <1>8, <2>2, <3>1, ZenonT(30)
  <2>3. CASE r.state = "Leader" /\ ~m.reject /\ Update(i, s)
    <3>1. PICK a \in Node : Matches(r, a, m) /\ Quiet(a, s)
      BY <1>1, <1>3, <2>3, HandleAppAcceptedType, ZenonT(30)
    <3> HIDE DEF s
    <3>2. r.term = m.term \/ m.term = 0
      <4>1. m.term = 0 \/ m.term >= 1
        BY <1>5, ZeroOrMore, Zenon
      <4>2. m.term = 0 \/ m.term >= raft[i].term
        BY <2>1, Zenon
      <4>3. m.type \notin {"MsgPreVote", "MsgPreVoteResp"}
        BY <2>1, Zenon
      <4> QED BY <1>a, <4>1, <4>2, <4>3, ZenonT(30)
    <3>3. Counts(r, a, m)
      BY <2>1, <2>3, <3>1, <3>2, ZenonT(30) DEF Counts
    <3>4. Move(network, r, a) /\ Move(network, a, s) /\ s \in Node
      BY <2>3, <3>1, <3>3, QuietNode, ZenonT(30) DEF Move
    <3>5. P(s)
      BY <1>3, <3>4, ShortPath, ZenonT(30)
    <3> QED BY <2>3, <3>5, ZenonT(30)
  <2> QED BY <1>8, <2>1, <2>2, <2>3, ZenonT(30)
<1>16. CASE StepHeartbeatResp(i, m)
  <2>1. \E s : (s = r \/ Quiet(r, s)) /\ Update(i, s)
    BY <1>1, <1>3, <1>16, HandleHeartbeatRespQuiet, ZenonT(30)
       DEF StepHeartbeatResp, r
  <2> QED BY <1>8, <2>1, ZenonT(30)
<1>17. CASE StepTransferLeader(i, m)
  <2>1. m.type = "MsgTransferLeader" /\ Update(i, stepTransferLeader(r, m))
    BY <1>17, Zenon DEF StepTransferLeader, Receive, r
  <2>2. /\ m.from \in Server
        /\ \A l \in Server : LET x == [m EXCEPT !.to = l]
                             IN  x \in Draft /\ x.type = "MsgTransferLeader"
    BY <1>1, <2>1, ZenonT(30) DEF Msg, MsgFrom, Draft
  <2>3. Quiet(r, stepTransferLeader(r, m))
    BY <1>3, <2>2, StepTransferLeaderQuiet, ZenonT(30)
  <2> QED BY <1>8, <2>1, <2>3, ZenonT(30)
<1>18. CASE StepTimeoutNow(i, m)
  <2> DEFINE s == campaign(r, CampaignTransfer)
  <2>1. Campaigns(r, s)
    BY <1>3, CampaignType, ZenonT(30)
  <2>2. Update(i, r) \/ (promotable(r) /\ Update(i, s))
    BY <1>18, Zenon DEF StepTimeoutNow, r
  <2> HIDE DEF s
  <2>3. CASE promotable(r) /\ Update(i, s)
    <3>1. r.id \in Voter
      BY <1>3, <2>3, VotersOfNode, Zenon DEF promotable
    <3>2. s \in Node
      BY <2>1, StillNode, Zenon
    <3>3. P(s)
      BY <1>3, <2>1, <3>1, <3>2, CampaignsMoves, ShortPath, ZenonT(30)
    <3> QED BY <2>3, <3>3, ZenonT(30)
  <2> QED BY <1>8, <2>2, <2>3, ZenonT(30)
<1>19. CASE StepReadIndex(i, m)
  <2>1. m.type \in ReadType
    BY <1>19, Zenon DEF StepReadIndex, Receive, ReadType
  <2>2. m.from \in Server \cup {None} /\ m.context \in ReadCtx
    BY <1>1, <2>1, MsgFields, ZenonT(30)
  <2>3. Quiet(raft[i], stepReadIndex(raft[i], m.from, m.context))
    BY <1>1, <2>2, StepReadIndexQuiet, ZenonT(30)
  <2> QED BY <1>8, <1>19, <2>3, ZenonT(30) DEF StepReadIndex
<1>20. CASE StepReadIndexResp(i, m)
  <2> DEFINE s == [r EXCEPT !.readStates = @ \cup
                     {[ctx |-> m.context, index |-> m.index]}]
  <2>1. m.type \in ReadType
    BY <1>20 DEF StepReadIndexResp, Receive, ReadType
  <2>2. m.context \in ReadCtx /\ m.index \in Nat
    BY <1>1, <2>1, MsgFields, ZenonT(30)
  <2>3. Update(i, r) \/ Update(i, s)
    BY <1>20 DEF StepReadIndexResp, r
  <2>4. Quiet(r, s)
    BY <1>3, <2>2, AddReadStateQuiet, ZenonT(30)
  <2> HIDE DEF s
  <2> QED BY <1>8, <2>3, <2>4, ZenonT(30)
<1>21. CASE StepLowerTerm(i, m)
  <2>1. Quiet(raft[i], handleLowerTerm(raft[i], m))
    BY <1>1, HandleLowerTermQuiet, Zenon
  <2> QED BY <1>8, <1>21, <2>1, Zenon DEF StepLowerTerm
<1> QED BY <1>9, <1>10, <1>11, <1>13, <1>14, <1>15, <1>16, <1>17, <1>18, <1>19,
           <1>20, <1>21, ZenonT(30)
=============================================================================
