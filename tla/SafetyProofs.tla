---------------------------- MODULE SafetyProofs ----------------------------
(* The safety theorems.  Init and the steps of the cluster do what Starts  *)
(* and Acts say, which keeps the invariants of elections, logs and         *)
(* commitment; and these imply what the users of the library rely on.      *)
EXTENDS RaftProofs, CommitLemmas, FiniteSetTheorems
-----------------------------------------------------------------------------
(* Numbers and finite sets                                                 *)

(* A nonempty set of natural numbers has a least element.                  *)
LEMMA NumbersOrdered ==
  ASSUME NEW S \in SUBSET Nat, S # {}
  PROVE  \E x \in S : \A y \in S : x <= y
<1> DEFINE R == {ss \in Nat \X Nat : ss[1] < ss[2]}
<1>1. IsWellFoundedOn(R, Nat)
  BY NatLessThanWellFounded, Zenon DEF OpToRel
<1>2. PICK x \in S : \A y \in S : ~ (<<y, x>> \in R)
  BY <1>1, WFMin, Zenon
<1>3. ASSUME NEW y \in S PROVE x <= y
  <2>1. x \in Nat /\ y \in Nat /\ <<y, x>> \in Nat \X Nat
    BY Zenon
  <2>2. ~ (y < x)
    BY <2>1, <1>2, Zenon
  <2> QED BY <2>1, <2>2, NaturalOrder, Zenon
<1> QED BY <1>3, Zenon

(* A finite nonempty set of natural numbers has a greatest element: one of *)
(* the smallest cardinality without it would lose it by losing an element. *)
LEMMA GreatestNatural ==
  ASSUME NEW S \in SUBSET Nat, IsFiniteSet(S), S # {}
  PROVE  \E x \in S : \A y \in S : x >= y
<1> DEFINE HasMax(T) == \E x \in T : \A y \in T : x >= y
           Bad(T) == T \in SUBSET Nat /\ IsFiniteSet(T) /\ T # {} /\ ~HasMax(T)
           Sizes == {n \in Nat : \E T \in SUBSET Nat : Bad(T) /\ Cardinality(T) = n}
<1>1. SUFFICES ASSUME Bad(S) PROVE FALSE
  BY Zenon
<1>2. Sizes # {}
  BY <1>1, FS_CardinalityType, Zenon
<1>3. PICK n \in Sizes : \A k \in Sizes : n <= k
  <2> HIDE DEF Sizes
  <2>1. Sizes \in SUBSET Nat
    BY Zenon DEF Sizes
  <2> QED BY <1>2, <2>1, NumbersOrdered, Zenon
<1>4. PICK T \in SUBSET Nat : Bad(T) /\ Cardinality(T) = n
  BY <1>3, Zenon
<1>5. PICK x \in T : TRUE
  BY <1>4, Zenon
<1>6. IsFiniteSet(T \ {x}) /\ Cardinality(T \ {x}) = n - 1
  BY <1>4, <1>5, FS_RemoveElement, Zenon
<1>7. T \ {x} # {}
  <2> SUFFICES ASSUME T \ {x} = {} PROVE FALSE
    BY Zenon
  <2>1. x \in T /\ x >= x
    BY <1>4, <1>5, NaturalOrder, Zenon
  <2>2. \A y \in T : y = x
    BY Zenon
  <2>3. HasMax(T)
    BY <2>1, <2>2, Zenon
  <2> QED BY <2>3, <1>4, Zenon
<1>8. HasMax(T \ {x})
  <2>1. n - 1 \notin Sizes
    BY <1>3, NaturalOrder, Zenon
  <2>2. n - 1 \in Nat
    BY <1>6, FS_CardinalityType, Zenon
  <2>3. ~Bad(T \ {x})
    BY <2>1, <2>2, <1>6, <1>4, Zenon
  <2> QED BY <2>3, <1>6, <1>7, <1>4, Zenon
<1>9. PICK m \in T \ {x} : \A y \in T \ {x} : m >= y
  BY <1>8, Zenon
<1>10. HasMax(T)
  <2>1. x \in Nat /\ m \in Nat /\ \A y \in T : y \in Nat
    BY <1>4, <1>5, <1>9, Zenon
  <2>2. CASE x >= m
    <3>1. \A y \in T : x >= y
      BY <2>1, <2>2, <1>9, NaturalOrder, Zenon
    <3> QED BY <3>1, <1>5, Zenon
  <2>3. CASE m >= x
    <3>1. \A y \in T : m >= y
      BY <2>1, <2>3, <1>9, NaturalOrder, Zenon
    <3> QED BY <3>1, <1>9, Zenon
  <2> QED BY <2>1, <2>2, <2>3, NaturalOrder, Zenon
<1> QED BY <1>10, <1>4, Zenon

(* Max of a finite, non-empty set of naturals is its greatest element.     *)
LEMMA MaxType ==
  ASSUME NEW S \in SUBSET Nat, IsFiniteSet(S), S # {}
  PROVE  Max(S) \in S /\ \A y \in S : Max(S) >= y
BY GreatestNatural, Zenon DEF Max

(* The values of a function on a finite set are finitely many.             *)
LEMMA FiniteRange ==
  ASSUME NEW S, IsFiniteSet(S), NEW f, f = [x \in S |-> f[x]]
  PROVE  IsFiniteSet({f[x] : x \in S})
<1> DEFINE T == {f[x] : x \in S}
<1>1. f \in [S -> T] /\ \A t \in T : \E x \in S : f[x] = t
  BY Zenon
<1>2. f \in Surjection(S, T)
  BY <1>1, Zenon DEF Surjection
<1> QED BY <1>2, FS_Surjection, Zenon

(* What the lemmas assume of numbers and of sets of voters.                *)
LEMMA CountingHolds == Counting
<1>1. WellOrdered
  BY NumbersOrdered, Zenon DEF WellOrdered
<1>2. Bounded
  <2> SUFFICES ASSUME NEW f \in [Server -> Nat], NEW S \in SUBSET Nat, S # {},
                      \A x \in S : \E j \in Server : x = f[j]
               PROVE  Max(S) \in S
    BY Zenon DEF Bounded
  <2>1. IsFiniteSet(Server)
    BY MembershipAssumption, FS_Union, Zenon DEF Server
  <2>2. IsFiniteSet({f[j] : j \in Server})
    BY <2>1, FiniteRange
  <2>3. S \subseteq {f[j] : j \in Server}
    <3> SUFFICES ASSUME NEW x \in S PROVE x \in {f[j] : j \in Server}
      BY Zenon
    <3>1. PICK j \in Server : x = f[j]
      BY Zenon
    <3> QED BY <3>1, Zenon
  <2>4. IsFiniteSet(S)
    BY <2>2, <2>3, FS_Subset, Zenon
  <2> QED BY <2>4, MaxType, Zenon
<1>3. VoterSets
  <2>1. Cardinality(Voter) # 0
    BY MembershipAssumption, FS_EmptySet, Zenon
  <2>2. ASSUME NEW Q \in SUBSET Voter
        PROVE  IsFiniteSet(Q) /\ Cardinality(Q) \in Nat
    BY MembershipAssumption, FS_Subset, FS_CardinalityType, Zenon
  <2>3. ASSUME NEW P \in SUBSET Voter, NEW Q \in SUBSET Voter, P \subseteq Q
        PROVE  Cardinality(P) <= Cardinality(Q)
    BY <2>2, <2>3, FS_Subset, Zenon
  <2>4. ASSUME NEW P \in SUBSET Voter, NEW Q \in SUBSET Voter,
               Cardinality(P) + Cardinality(Q) > Cardinality(Voter)
        PROVE  P \cap Q # {}
    BY <2>4, MembershipAssumption, FS_MajoritiesIntersect, Zenon
  <2>5. ASSUME NEW P \in SUBSET Voter, NEW i, P \subseteq {i}
        PROVE  Cardinality(P) <= 1
    <3>1. IsFiniteSet({i}) /\ Cardinality({i}) = 1
      BY FS_Singleton, Zenon
    <3> QED BY <2>5, <3>1, FS_Subset, Zenon
  <2> QED BY <2>1, <2>2, <2>3, <2>4, <2>5, Zenon DEF VoterSets
<1> QED BY <1>1, <1>2, <1>3, Zenon DEF Counting
-----------------------------------------------------------------------------
(* From the specification to what it does to nodes, storages and network   *)

(* The cluster starts with nothing saved, sent or loaded.                  *)
LEMMA InitStarts == Init => Starts
<1> SUFFICES ASSUME Init PROVE Starts
  BY Zenon
<1>1. TypeInv /\ network = {}
  BY InitTypes, Zenon DEF Init
<1>2. ASSUME NEW i \in Server
      PROVE  storage[i] = EmptyStorage /\ Loads(i, storage[i], raft[i])
  BY InitLoads, Zenon
<1> QED BY <1>1, <1>2, Zenon DEF Starts

(* Every handler moves a node, Ready saves and sends, Restart loads.       *)
LEMMA NextActs ==
  ASSUME Counting, Campaigner \subseteq Voter, ElectionInv, [Next]_vars
  PROVE  TypeInv' /\ Acts
<1>1. TypeInv
  BY Zenon DEF ElectionInv
<1>2. TypeInv'
  BY <1>1, NextTypes, Zenon
<1>3. CASE UNCHANGED vars
  BY <1>2, <1>3, Zenon DEF vars, Acts
<1>4. ASSUME NEW i \in Server, Ready(i) PROVE Acts
  <2>1. Saving(i)
    BY <1>1, <1>4, ReadySaves, Zenon DEF Saving
  <2> QED BY <2>1, Zenon DEF Acts
<1>5. ASSUME NEW i \in Server, Restart(i) PROVE Acts
  <2>1. Loading(i)
    BY <1>1, <1>5, RestartLoads, Zenon DEF Loading
  <2> QED BY <2>1, Zenon DEF Acts
<1>6. ASSUME NEW i \in Server, Moves(i) PROVE Acts
  BY <1>6, Zenon DEF Acts
<1>7. CASE Next
  <2>1. Acts
    BY <1>1, <1>4, <1>5, <1>6, <1>7, InputMoves, MessageMoves, Zenon DEF Next
  <2> QED BY <1>2, <2>1, Zenon
<1> QED BY <1>3, <1>7, Zenon

(* So the invariant of elections is kept,                                  *)
LEMMA NextElections ==
  ASSUME Counting, Campaigner \subseteq Voter
  PROVE  ElectionInv /\ [Next]_vars => ElectionInv' /\ Acts
  BY NextActs, ActsElections, Zenon

(* the invariant of what is saved,                                         *)
LEMMA NextCommits ==
  ASSUME Counting, Campaigner \subseteq Voter
  PROVE  CommitsInv /\ [Next]_vars => CommitsInv' /\ Acts
<1> SUFFICES ASSUME CommitsInv, [Next]_vars PROVE CommitsInv' /\ Acts
  BY Zenon
<1>1. ElectionInv' /\ Acts
  BY NextElections, Zenon DEF CommitsInv
<1> QED BY <1>1, ActsCommits, Zenon

(* the agreement of the logs,                                              *)
LEMMA NextLogs ==
  ASSUME Counting, Campaigner \subseteq Voter
  PROVE  LogsInv /\ [Next]_vars => LogsInv' /\ Acts
<1> SUFFICES ASSUME LogsInv, [Next]_vars PROVE LogsInv' /\ Acts
  BY Zenon
<1>1. ElectionInv' /\ Acts
  BY NextElections, Zenon DEF LogsInv
<1> QED BY <1>1, ActsLogs, Zenon

(* and the history.                                                        *)
LEMMA NextHistory ==
  ASSUME Counting, Campaigner \subseteq Voter, Cardinality(Voter) > 1
  PROVE  HistoryInv /\ [Next]_vars => HistoryInv'
<1> SUFFICES ASSUME HistoryInv, [Next]_vars PROVE HistoryInv'
  BY Zenon
<1>1. ElectionInv' /\ Acts
  BY NextElections, Zenon DEF HistoryInv
<1> QED BY <1>1, ActsHistory, Zenon
-----------------------------------------------------------------------------
(* The theorems                                                            *)

(* Whatever messages arrive, in whatever order, and however often nodes    *)
(* restart: the handlers of Raft, the Ready loop and the stable storage    *)
(* only ever hold values of their types, for every cluster, configuration  *)
(* and bound.                                                              *)
THEOREM TypeCorrect == Spec => []TypeOK
<1>1. TypeInv => TypeOK
  BY Zenon DEF TypeInv, TypeOK, Node
<1>2. TypeInv /\ [Next]_vars => TypeInv'
  BY CountingHolds, NextTypes, Zenon
<1> QED BY <1>1, <1>2, InitTypes, PTL DEF Spec

(* At most one node ever acts as leader in a term, for every cluster and   *)
(* every configuration: with PreVote, CheckQuorum and transfers of         *)
(* leadership, messages lost, duplicated and reordered, and processes that *)
(* end between any two steps.  It takes an application that lets only      *)
(* voters campaign: MsgHup does not ask whether the node is promotable.    *)
THEOREM OneLeaderPerTerm ==
  ASSUME Campaigner \subseteq Voter
  PROVE  Spec => []ElectionSafety
<1>1. Init => ElectionInv
  BY InitStarts, StartElections, Zenon
<1>2. ElectionInv /\ [Next]_vars => ElectionInv'
  BY CountingHolds, NextElections, Zenon
<1>3. ElectionInv => ElectionSafety
  BY CountingHolds, ElectionsSafe, Zenon
<1> QED BY <1>1, <1>2, <1>3, PTL DEF Spec

(* What a node has saved never goes back: not its term, not the vote it    *)
(* cast in a term, and not an entry it saved as committed; for every       *)
(* cluster and configuration, whatever the network loses, duplicates or    *)
(* delays, and wherever a process ends.                                    *)
THEOREM SavedStateAdvances ==
  ASSUME Campaigner \subseteq Voter
  PROVE  Spec => DurableStateAdvances
<1>1. Init => CommitsInv
  BY InitStarts, StartCommits, Zenon
<1>2. CommitsInv /\ [Next]_vars => CommitsInv'
  BY CountingHolds, NextCommits, Zenon
<1>3. CommitsInv /\ [Next]_vars =>
        [\A i \in Server :
           LET old == storage[i].hardState
               new == storage'[i].hardState
           IN  /\ old.term <= new.term
               /\ old.term = new.term /\ old.vote # None => new.vote = old.vote
               /\ Prefix(SubSeq(storage[i].log, 1, old.commit), storage'[i].log)
        ]_vars
  BY CountingHolds, NextCommits, SavedAdvances, Zenon
<1> QED BY <1>1, <1>2, <1>3, PTL DEF Spec, DurableStateAdvances

(* Two logs, in memory or saved, that agree on the term of an entry are    *)
(* equal up to it: for every cluster and configuration, whatever the       *)
(* network loses, duplicates or delays, and wherever a process ends.       *)
THEOREM LogsMatch ==
  ASSUME Campaigner \subseteq Voter
  PROVE  Spec => []LogMatching
<1>1. Init => LogsInv
  BY InitStarts, StartLogs, Zenon
<1>2. LogsInv /\ [Next]_vars => LogsInv'
  BY CountingHolds, NextLogs, Zenon
<1>3. LogsInv => LogMatching
  BY CountingHolds, LogsAgree, Zenon
<1> QED BY <1>1, <1>2, <1>3, PTL DEF Spec

(* The history holds in every state.                                       *)
LEMMA HistoryKept ==
  ASSUME Campaigner \subseteq Voter, Cardinality(Voter) > 1
  PROVE  Spec => []HistoryInv
<1>1. Init => HistoryInv
  BY InitStarts, StartElections, StartHistory, Zenon
<1>2. HistoryInv /\ [Next]_vars => HistoryInv'
  BY CountingHolds, NextHistory, Zenon
<1> QED BY <1>1, <1>2, PTL DEF Spec

(* No two processes commit different entries at the same index, or one in  *)
(* a different order: for every cluster of two voters or more, whatever    *)
(* the network loses, duplicates or delays, and wherever a process ends.   *)
THEOREM CommitsAgree ==
  ASSUME Campaigner \subseteq Voter, Cardinality(Voter) > 1
  PROVE  Spec => []StateMachineSafety
<1>1. HistoryInv => StateMachineSafety
  BY CountingHolds, HistoryAgrees, Zenon
<1> QED BY <1>1, HistoryKept, PTL

(* A leader has every entry that was committed up to its term.             *)
THEOREM LeadersComplete ==
  ASSUME Campaigner \subseteq Voter, Cardinality(Voter) > 1
  PROVE  Spec => []LeaderCompleteness
<1>1. HistoryInv => LeaderCompleteness
  BY CountingHolds, HistoryCompletes, Zenon
<1> QED BY <1>1, HistoryKept, PTL

(* What a process has saved as committed a quorum has saved in its log:    *)
(* the crash of any minority, or of everybody, loses none of it.           *)
THEOREM CommitsDurable ==
  ASSUME Campaigner \subseteq Voter, Cardinality(Voter) > 1
  PROVE  Spec => []CommitIsDurable
<1>1. HistoryInv => CommitIsDurable
  BY CountingHolds, HistoryEndures, Zenon
<1> QED BY <1>1, HistoryKept, PTL

(* What a leader believes a process to have, that process has saved, as    *)
(* long as it has saved no later term.                                     *)
THEOREM MatchesDurable ==
  ASSUME Campaigner \subseteq Voter, Cardinality(Voter) > 1
  PROVE  Spec => []MatchIsDurable
<1>1. HistoryInv => MatchIsDurable
  BY CountingHolds, HistoryMatches, Zenon
<1> QED BY <1>1, HistoryKept, PTL
=============================================================================
