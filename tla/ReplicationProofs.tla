------------------------- MODULE ReplicationProofs --------------------------
(* For every size of the window and every run of Replication, the ring     *)
(* buffer of Inflights is the queue that Progress takes it for.  Nothing   *)
(* is assumed of the indexes that the messages hold.                       *)
EXTENDS Replication, FiniteSetTheorems, TLAPS

(* A nonempty set of natural numbers has a least element.                  *)
LEMMA LeastNatural ==
  ASSUME NEW S \in SUBSET Nat, S # {}
  PROVE  \E x \in S : \A y \in S : x <= y
<1> DEFINE R == {ss \in Nat \X Nat : ss[1] < ss[2]}
<1>1. IsWellFoundedOn(R, Nat)
  BY NatLessThanWellFounded DEF OpToRel
<1>2. PICK x \in S : \A y \in S : ~ (<<y, x>> \in R)
  BY <1>1, WFMin
<1>3. ASSUME NEW y \in S PROVE x <= y
  <2>1. x \in Nat /\ y \in Nat /\ <<y, x>> \in Nat \X Nat
    OBVIOUS
  <2>2. ~ (y < x)
    BY <2>1, <1>2
  <2> QED BY <2>1, <2>2
<1> QED BY <1>3

(* Min of a non-empty set of naturals is its least element.                *)
LEMMA MinType ==
  ASSUME NEW S \in SUBSET Nat, S # {}
  PROVE  Min(S) \in S /\ \A y \in S : Min(S) <= y
BY LeastNatural DEF Min

(* A sequence, of whatever elements.                                       *)
IsSequence(s) == s \in Seq({s[k] : k \in DOMAIN s})

(* What Inflights keeps true of its fields: the places that hold messages  *)
(* are in the buffer, which wraps only once it has its full size.          *)
RingOK(r) ==
  /\ r = [start |-> r.start, count |-> r.count, buffer |-> r.buffer]
  /\ r.start \in Nat /\ r.start < MaxInflight
  /\ r.count \in Nat /\ r.count <= MaxInflight
  /\ IsSequence(r.buffer) /\ Len(r.buffer) <= MaxInflight
  /\ Len(r.buffer) = MaxInflight \/ r.start + r.count <= Len(r.buffer)

-----------------------------------------------------------------------------
(* A sequence is the function of its elements.                             *)
LEMMA SequenceFacts ==
  ASSUME NEW s, IsSequence(s)
  PROVE  /\ Len(s) \in Nat /\ DOMAIN s = 1..Len(s)
         /\ s = [k \in 1..Len(s) |-> s[k]]
BY DEF IsSequence

(* A function on 1..n is a sequence of length n.                           *)
LEMMA FunctionIsSequence ==
  ASSUME NEW n \in Nat, NEW s, s = [k \in 1..n |-> s[k]]
  PROVE  IsSequence(s) /\ Len(s) = n /\ DOMAIN s = 1..n
BY DEF IsSequence

(* Appending to a sequence makes it one longer.                            *)
LEMMA AppendAny ==
  ASSUME NEW s, IsSequence(s), NEW x
  PROVE  /\ IsSequence(Append(s, x)) /\ Len(Append(s, x)) = Len(s) + 1
         /\ \A k \in 1..Len(s) : Append(s, x)[k] = s[k]
         /\ Append(s, x)[Len(s) + 1] = x
<1> DEFINE S == {s[k] : k \in DOMAIN s} \cup {x}
           a == Append(s, x)
<1>1. s \in Seq(S)
  BY DEF IsSequence
<1>2. a \in Seq(S) /\ Len(a) = Len(s) + 1
  BY <1>1
<1>3. \A k \in 1..Len(s) : a[k] = s[k]
  BY <1>1
<1>4. a[Len(s) + 1] = x
  BY <1>1
<1>5. a \in Seq({a[k] : k \in DOMAIN a})
  <2> HIDE DEF a
  <2> QED BY <1>2
<1> QED BY <1>2, <1>3, <1>4, <1>5 DEF IsSequence

(* Overwriting an element keeps the others and the length.                 *)
LEMMA ReplaceAny ==
  ASSUME NEW s, IsSequence(s), NEW i \in 1..Len(s), NEW x
  PROVE  LET e == [s EXCEPT ![i] = x]
         IN  /\ IsSequence(e) /\ Len(e) = Len(s) /\ e[i] = x
             /\ \A k \in 1..Len(s) : k # i => e[k] = s[k]
<1> DEFINE S == {s[k] : k \in DOMAIN s} \cup {x}
           e == [s EXCEPT ![i] = x]
<1>1. s \in Seq(S) /\ Len(s) \in Nat /\ DOMAIN s = 1..Len(s)
  BY DEF IsSequence
<1>2. e \in Seq(S) /\ Len(e) = Len(s)
  BY <1>1
<1>3. e[i] = x /\ \A k \in 1..Len(s) : k # i => e[k] = s[k]
  BY <1>1
<1>4. e \in Seq({e[k] : k \in DOMAIN e})
  <2> HIDE DEF e
  <2> QED BY <1>2
<1> QED BY <1>2, <1>3, <1>4 DEF IsSequence

(* The places of the messages in a ring are distinct and in the buffer.    *)
LEMMA Places ==
  ASSUME NEW r, RingOK(r), NEW k \in 0..MaxInflight - 1
  PROVE  /\ rotate(r.start + k) \in 0..MaxInflight - 1
         /\ \A j \in 0..MaxInflight - 1 :
              rotate(r.start + k) = rotate(r.start + j) => k = j
         /\ k < r.count => rotate(r.start + k) < Len(r.buffer)
         /\ k <= r.count => rotate(r.start + k) <= Len(r.buffer)
BY MaxInflightAssumption DEF RingOK, rotate, IsSequence

(* A ring that is not full takes a message without a panic, at the end.    *)
LEMMA AddIsAppend ==
  ASSUME NEW r, RingOK(r), ~ringFull(r), NEW x
  PROVE  /\ ~addFails(r) /\ RingOK(add(r, x))
         /\ Contents(add(r, x)) = Append(Contents(r), x)
<1> DEFINE n == rotate(r.start + r.count)
           b == IF n = Len(r.buffer) THEN Append(r.buffer, x)
                ELSE [r.buffer EXCEPT ![n + 1] = x]
           a == [start |-> r.start, count |-> r.count + 1, buffer |-> b]
<1>1. r.count \in 0..MaxInflight - 1 /\ IsSequence(r.buffer) /\ Len(r.buffer) \in Nat
  BY SequenceFacts, MaxInflightAssumption DEF RingOK, ringFull
<1>2. n \in 0..MaxInflight - 1 /\ n <= Len(r.buffer)
  BY <1>1, Places
<1>3. add(r, x) = a
  BY DEF add
<1>4. /\ IsSequence(b) /\ b[n + 1] = x
      /\ Len(b) = IF n = Len(r.buffer) THEN Len(r.buffer) + 1 ELSE Len(r.buffer)
      /\ \A k \in 1..Len(r.buffer) : k # n + 1 => b[k] = r.buffer[k]
  <2>1. CASE n = Len(r.buffer)
    BY <2>1, <1>1, <1>2, AppendAny
  <2>2. CASE n # Len(r.buffer)
    <3>1. n + 1 \in 1..Len(r.buffer)
      BY <2>2, <1>1, <1>2
    <3> QED BY <2>2, <3>1, <1>1, ReplaceAny
  <2> QED BY <2>1, <2>2
<1>5. RingOK(a)
  <2> HIDE DEF b
  <2> QED BY <1>1, <1>2, <1>4, MaxInflightAssumption DEF RingOK, rotate
<1>6. ~addFails(r)
  BY <1>2, <1>1 DEF addFails
<1>7. Contents(a) = Append(Contents(r), x)
  <2> HIDE DEF b
  <2>1. \A k \in 0..r.count - 1 : InflightAt(a, k) = InflightAt(r, k)
    <3> TAKE k \in 0..r.count - 1
    <3>1. k \in 0..MaxInflight - 1 /\ k < r.count /\ k # r.count
      BY <1>1, MaxInflightAssumption
    <3> DEFINE p == rotate(r.start + k) + 1
    <3>2. p \in 1..Len(r.buffer) /\ p # n + 1
      <4> DEFINE q == rotate(r.start + k)
      <4>1. q \in Nat /\ q < Len(r.buffer) /\ q # n
        BY <3>1, <1>1, Places
      <4> HIDE DEF q, n
      <4> QED BY <4>1, <1>1, <1>2 DEF p, q
    <3>3. b[p] = r.buffer[p]
      <4> HIDE DEF p, n
      <4> QED BY <3>2, <1>4
    <3> QED BY <3>3 DEF InflightAt
  <2>2. InflightAt(a, r.count) = x
    BY <1>4 DEF InflightAt
  <2> DEFINE c == Contents(r)
             A == Append(c, x)
  <2>3. IsSequence(c) /\ Len(c) = r.count /\ DOMAIN c = 1..r.count
    <3>1. r.count \in Nat /\ c = [k \in 1..r.count |-> c[k]]
      BY <1>1 DEF Contents
    <3> HIDE DEF c
    <3> QED BY <3>1, FunctionIsSequence
  <2>4. \A k \in 1..r.count : c[k] = InflightAt(r, k - 1)
    BY DEF Contents
  <2> HIDE DEF c
  <2>5. /\ IsSequence(A) /\ Len(A) = r.count + 1 /\ A[r.count + 1] = x
        /\ \A k \in 1..r.count : A[k] = c[k]
    BY <2>3, AppendAny
  <2> HIDE DEF A, a
  <2>6. A = [k \in 1..r.count + 1 |-> A[k]]
    BY <2>5, SequenceFacts
  <2>7. \A k \in 1..r.count + 1 : A[k] = InflightAt(a, k - 1)
    <3> TAKE k \in 1..r.count + 1
    <3>1. CASE k = r.count + 1
      <4>1. k - 1 = r.count
        BY <3>1, <1>1
      <4> QED BY <3>1, <4>1, <2>2, <2>5
    <3>2. CASE k # r.count + 1
      <4>1. k \in 1..r.count /\ k - 1 \in 0..r.count - 1
        BY <3>2, <1>1
      <4> QED BY <4>1, <2>1, <2>4, <2>5
    <3> QED BY <3>1, <3>2
  <2>8. A = [k \in 1..r.count + 1 |-> InflightAt(a, k - 1)]
    BY <2>6, <2>7, Zenon
  <2>9. a.count = r.count + 1
    BY DEF a
  <2> QED BY <2>8, <2>9 DEF Contents, A, c
<1> QED BY <1>3, <1>5, <1>6, <1>7

(* Rotating by parts is rotating at once.                                  *)
LEMMA RotateTwice ==
  ASSUME NEW r, RingOK(r), NEW i \in 0..MaxInflight - 1, NEW k \in Nat,
         i + k <= MaxInflight - 1
  PROVE  rotate(rotate(r.start + i) + k) = rotate(r.start + (i + k))
BY MaxInflightAssumption DEF RingOK, rotate

(* Shifting a set of numbers shifts its minimum.                           *)
LEMMA MinShifted ==
  ASSUME NEW S \in SUBSET Nat, S # {}, NEW T, T = {k + 1 : k \in S}
  PROVE  T # {} /\ Min(T) = Min(S) + 1
<1>1. Min(S) \in S /\ \A y \in S : Min(S) <= y
  BY MinType
<1>2. T \in SUBSET Nat /\ T # {}
  <2>1. PICK k \in S : TRUE
    OBVIOUS
  <2>2. k + 1 \in T
    BY <2>1
  <2>3. \A t \in T : t \in Nat
    OBVIOUS
  <2> QED BY <2>2, <2>3
<1>3. Min(T) \in T /\ \A y \in T : Min(T) <= y
  BY <1>2, MinType
<1>4. Min(S) + 1 \in T
  BY <1>1
<1>5. PICK k \in S : Min(T) = k + 1
  BY <1>3
<1>6. Min(S) <= k /\ k + 1 <= Min(S) + 1 /\ k \in Nat /\ Min(S) \in Nat
  BY <1>1, <1>3, <1>4, <1>5
<1> QED BY <1>2, <1>5, <1>6

(* Freeing the ring frees the queue.                                       *)
LEMMA FreeToIsFreeTo ==
  ASSUME NEW r, RingOK(r), NEW to
  PROVE  /\ RingOK(ringFreeTo(r, to))
         /\ Contents(ringFreeTo(r, to)) = freeTo(Contents(r), to)
<1> DEFINE c == Contents(r)
           S == {k \in 0..(r.count - 1) : to < InflightAt(r, k)}
           T == {k \in 1..Len(c) : to < c[k]}
           i == freed(r, to)
<1>1. /\ r.count \in Nat /\ r.count <= MaxInflight
      /\ r.start \in Nat /\ r.start < MaxInflight
  BY DEF RingOK
<1>2. IsSequence(c) /\ Len(c) = r.count /\ DOMAIN c = 1..r.count
  <2>1. c = [k \in 1..r.count |-> c[k]]
    BY DEF Contents
  <2> HIDE DEF c
  <2> QED BY <2>1, <1>1, FunctionIsSequence
<1>3. \A k \in 1..r.count : c[k] = InflightAt(r, k - 1)
  BY DEF Contents
<1>4. S \in SUBSET Nat
  BY <1>1
<1>5. T = {k + 1 : k \in S}
  <2> HIDE DEF c
  <2>1. ASSUME NEW k \in T PROVE k \in {j + 1 : j \in S}
    <3>1. k \in 1..r.count /\ to < c[k]
      BY <1>2
    <3>2. k - 1 \in 0..(r.count - 1) /\ (k - 1) + 1 = k /\ to < InflightAt(r, k - 1)
      BY <3>1, <1>1, <1>3
    <3> QED BY <3>2
  <2>2. ASSUME NEW j \in S PROVE j + 1 \in T
    <3>1. j + 1 \in 1..r.count /\ (j + 1) - 1 = j
      BY <1>1
    <3>2. c[j + 1] = InflightAt(r, j)
      BY <3>1, <1>3
    <3> QED BY <3>1, <3>2, <1>2
  <2> QED BY <2>1, <2>2
<1>6. CASE S = {}
  <2>1. T = {} /\ i = r.count
    BY <1>5, <1>6 DEF freed
  <2>2. freeTo(c, to) = <<>>
    BY <2>1 DEF freeTo
  <2>3. CASE r.count = 0
    <3>1. ringFreeTo(r, to) = r
      BY <2>3 DEF ringFreeTo
    <3>2. c = <<>>
      BY <2>3 DEF Contents
    <3> QED BY <3>1, <3>2, <2>2
  <2>4. CASE r.count # 0
    <3>1. ~(to < InflightAt(r, 0))
      BY <1>6, <2>4, <1>1
    <3>2. ringFreeTo(r, to) = [start |-> 0, count |-> r.count - i, buffer |-> r.buffer]
      BY <3>1, <2>1, <2>4 DEF ringFreeTo, RingOK
    <3>3. r.count - i = 0
      BY <2>1, <1>1
    <3>4. RingOK(ringFreeTo(r, to))
      BY <3>2, <3>3, MaxInflightAssumption, SequenceFacts DEF RingOK
    <3>5. Contents(ringFreeTo(r, to)) = <<>>
      BY <3>2, <3>3 DEF Contents
    <3> QED BY <3>4, <3>5, <2>2
  <2> QED BY <2>3, <2>4
<1>7. CASE S # {}
  <2>1. i = Min(S) /\ i \in S /\ (\A y \in S : i <= y) /\ Min(T) = i + 1 /\ T # {}
    BY <1>4, <1>5, <1>7, MinType, MinShifted DEF freed
  <2> HIDE DEF c
  <2>2. i \in 0..(r.count - 1) /\ i \in 0..MaxInflight - 1
    BY <2>1, <1>1, MaxInflightAssumption
  <2>3. freeTo(c, to) = SubSeq(c, i + 1, r.count)
    BY <2>1, <1>2 DEF freeTo
  <2> HIDE DEF S, T, i
  <2>4. CASE to < InflightAt(r, 0)
    <3>1. ringFreeTo(r, to) = r
      BY <2>4 DEF ringFreeTo
    <3>2. i = 0
      <4>1. 0 \in S
        BY <2>4, <1>1, <2>2 DEF S
      <4> QED BY <4>1, <2>1, <2>2
    <3>3. SubSeq(c, 1, r.count) = c
      BY <1>1, <1>2 DEF IsSequence
    <3> QED BY <3>1, <3>2, <3>3, <2>3 DEF c
  <2>5. CASE ~(to < InflightAt(r, 0))
    <3> DEFINE f == [start |-> rotate(r.start + i), count |-> r.count - i,
                     buffer |-> r.buffer]
    <3>1. ringFreeTo(r, to) = f
      <4>1. r.count # 0 /\ i # r.count
        BY <2>2, <1>1
      <4>2. r = [start |-> r.start, count |-> r.count, buffer |-> r.buffer]
        BY DEF RingOK
      <4> QED BY <2>5, <4>1, <4>2 DEF ringFreeTo, i
    <3>2. RingOK(f)
      <4> DEFINE n == rotate(r.start + i)
      <4>1. /\ n \in Nat /\ n < MaxInflight
            /\ n + (r.count - i) <= r.start + r.count
        BY <2>2, <1>1, MaxInflightAssumption DEF rotate
      <4>2. r.count - i \in Nat /\ r.count - i <= MaxInflight
        BY <2>2, <1>1, MaxInflightAssumption
      <4>3. /\ IsSequence(r.buffer) /\ Len(r.buffer) <= MaxInflight
            /\ Len(r.buffer) = MaxInflight \/ r.start + r.count <= Len(r.buffer)
        BY DEF RingOK
      <4>4. Len(r.buffer) \in Nat
        BY <4>3, SequenceFacts
      <4> HIDE DEF n
      <4>5. Len(r.buffer) = MaxInflight \/ n + (r.count - i) <= Len(r.buffer)
        BY <1>1, <4>1, <4>2, <4>3, <4>4
      <4>6. f = [start |-> n, count |-> r.count - i, buffer |-> r.buffer]
        BY DEF n
      <4> QED BY <4>1, <4>2, <4>3, <4>5, <4>6 DEF RingOK
    <3>3. \A k \in 1..r.count - i : InflightAt(f, k - 1) = c[i + k]
      <4> TAKE k \in 1..r.count - i
      <4>1. k - 1 \in Nat /\ i + (k - 1) <= MaxInflight - 1 /\ i + (k - 1) = (i + k) - 1
            /\ i + k \in 1..r.count
        <5>1. i \in Int /\ r.count \in Int /\ k \in Int /\ MaxInflight \in Int
          BY <1>1, <2>2, MaxInflightAssumption
        <5>2. 0 <= i /\ 1 <= k /\ k <= r.count - i /\ r.count <= MaxInflight
          BY <1>1, <2>2, <5>1
        <5> QED BY <5>1, <5>2
      <4>2. rotate(rotate(r.start + i) + (k - 1)) = rotate(r.start + (i + (k - 1)))
        BY <4>1, <2>2, RotateTwice
      <4>3. c[i + k] = InflightAt(r, (i + k) - 1)
        <5> DEFINE j == i + k
        <5>1. j \in 1..r.count
          BY <4>1
        <5> HIDE DEF j
        <5>2. c[j] = InflightAt(r, j - 1)
          BY <5>1, <1>3
        <5> QED BY <5>2 DEF j
      <4> QED BY <4>1, <4>2, <4>3 DEF InflightAt
    <3> DEFINE d == SubSeq(c, i + 1, r.count)
    <3>4. d = [k \in 1..r.count - i |-> c[i + k]]
      <4>1. c \in Seq({c[k] : k \in DOMAIN c})
        BY <1>2 DEF IsSequence
      <4>2. (r.count - (i + 1)) + 1 = r.count - i
        BY <1>1, <2>2
      <4> QED BY <4>1, <4>2, <1>1, <1>2, <2>2
    <3>5. f.count = r.count - i
      OBVIOUS
    <3> HIDE DEF f
    <3>6. Contents(f) = [k \in 1..r.count - i |-> InflightAt(f, k - 1)]
      BY <3>5 DEF Contents
    <3>7. Contents(f) = d
      BY <3>3, <3>4, <3>6, Zenon
    <3> QED BY <3>1, <3>2, <3>7, <2>3 DEF c
  <2> QED BY <2>4, <2>5
<1> QED BY <1>6, <1>7

-----------------------------------------------------------------------------
(* The records have the fields that matter, of whatever values.            *)
PrShape(pr) == "ins" \in DOMAIN pr

LeaderShape(l) == "pr" \in DOMAIN l /\ "ring" \in DOMAIN l

(* The inductive invariant, of the leader before, during and after a step. *)
InStep(l) ==
  /\ LeaderShape(l) /\ PrShape(l.pr) /\ RingOK(l.ring)
  /\ Contents(l.ring) = l.pr.ins

(* The methods of Progress that leave the window alone.                    *)
LEMMA WindowKept ==
  ASSUME NEW pr, PrShape(pr), NEW n, NEW x
  PROVE  /\ PrShape(pause(pr)) /\ pause(pr).ins = pr.ins
         /\ PrShape(resume(pr)) /\ resume(pr).ins = pr.ins
         /\ PrShape(optimisticUpdate(pr, n)) /\ optimisticUpdate(pr, n).ins = pr.ins
         /\ PrShape(maybeUpdate(pr, n)) /\ maybeUpdate(pr, n).ins = pr.ins
         /\ PrShape(maybeDecrTo(pr, n, x)) /\ maybeDecrTo(pr, n, x).ins = pr.ins
         /\ PrShape(snapshotFailure(pr)) /\ snapshotFailure(pr).ins = pr.ins
         /\ PrShape([pr EXCEPT !.recentActive = TRUE])
         /\ [pr EXCEPT !.recentActive = TRUE].ins = pr.ins
         /\ PrShape([pr EXCEPT !.ins = x]) /\ [pr EXCEPT !.ins = x].ins = x
<1>1. PrShape(pause(pr)) /\ pause(pr).ins = pr.ins
  BY DEF PrShape, pause
<1>2. PrShape(resume(pr)) /\ resume(pr).ins = pr.ins
  BY DEF PrShape, resume
<1>3. PrShape(optimisticUpdate(pr, n)) /\ optimisticUpdate(pr, n).ins = pr.ins
  BY DEF PrShape, optimisticUpdate
<1>4. PrShape(maybeUpdate(pr, n)) /\ maybeUpdate(pr, n).ins = pr.ins
  BY DEF PrShape, maybeUpdate
<1>5. PrShape(maybeDecrTo(pr, n, x)) /\ maybeDecrTo(pr, n, x).ins = pr.ins
  BY DEF PrShape, maybeDecrTo
<1>6. PrShape(snapshotFailure(pr)) /\ snapshotFailure(pr).ins = pr.ins
  BY DEF PrShape, snapshotFailure
<1>7. /\ PrShape([pr EXCEPT !.recentActive = TRUE])
      /\ [pr EXCEPT !.recentActive = TRUE].ins = pr.ins
  BY DEF PrShape
<1>8. PrShape([pr EXCEPT !.ins = x]) /\ [pr EXCEPT !.ins = x].ins = x
  BY DEF PrShape
<1> QED BY <1>1, <1>2, <1>3, <1>4, <1>5, <1>6, <1>7, <1>8

(* The methods that change the state empty the window.                     *)
LEMMA WindowEmptied ==
  ASSUME NEW pr, PrShape(pr), NEW n
  PROVE  /\ PrShape(becomeProbe(pr)) /\ becomeProbe(pr).ins = <<>>
         /\ PrShape(becomeReplicate(pr)) /\ becomeReplicate(pr).ins = <<>>
         /\ PrShape(becomeSnapshot(pr, n)) /\ becomeSnapshot(pr, n).ins = <<>>
<1>1. PrShape(becomeProbe(pr)) /\ becomeProbe(pr).ins = <<>>
  BY DEF PrShape, becomeProbe, resetState
<1>2. PrShape(becomeReplicate(pr)) /\ becomeReplicate(pr).ins = <<>>
  BY DEF PrShape, becomeReplicate, resetState
<1>3. PrShape(becomeSnapshot(pr, n)) /\ becomeSnapshot(pr, n).ins = <<>>
  BY DEF PrShape, becomeSnapshot, resetState
<1> QED BY <1>1, <1>2, <1>3

(* Failed checks, messages and the operations of the log keep both as they *)
(* are.                                                                    *)
LEMMA LogOperations ==
  ASSUME NEW l, InStep(l), NEW x, NEW y, NEW s
  PROVE  /\ InStep(panicIf(l, x)) /\ InStep(post(l, x))
         /\ InStep(commitTo(l, s, x)) /\ InStep(appliedTo(l, x))
         /\ InStep(logAppend(l, x)) /\ InStep(stableTo(l, x, y))
         /\ InStep(settle(l))
<1>1. ASSUME NEW k, InStep(k), NEW p
      PROVE  /\ InStep([k EXCEPT !.panic = p]) /\ InStep([k EXCEPT !.msgs = p])
             /\ InStep([k EXCEPT !.unstable = p]) /\ InStep([k EXCEPT !.committed = p])
             /\ InStep([k EXCEPT !.applied = p])
  <2>1. InStep([k EXCEPT !.panic = p])
    BY <1>1 DEF InStep, LeaderShape
  <2>2. InStep([k EXCEPT !.msgs = p])
    BY <1>1 DEF InStep, LeaderShape
  <2>3. InStep([k EXCEPT !.unstable = p])
    BY <1>1 DEF InStep, LeaderShape
  <2>4. InStep([k EXCEPT !.committed = p])
    BY <1>1 DEF InStep, LeaderShape
  <2>5. InStep([k EXCEPT !.applied = p])
    BY <1>1 DEF InStep, LeaderShape
  <2> QED BY <2>1, <2>2, <2>3, <2>4, <2>5
<1>2. \A k, z : InStep(k) => InStep(panicIf(k, z))
  BY <1>1 DEF panicIf
<1>3. InStep(post(l, x))
  BY <1>1 DEF post
<1>4. InStep(commitTo(l, s, x))
  BY <1>1, <1>2 DEF commitTo
<1>5. \A k, z : InStep(k) => InStep(appliedTo(k, z))
  BY <1>1, <1>2 DEF appliedTo
<1>6. InStep(logAppend(l, x))
  BY <1>1, <1>2 DEF logAppend
<1>7. \A k, z, t : InStep(k) => InStep(stableTo(k, z, t))
  BY <1>1 DEF stableTo
<1>8. InStep(settle(l))
  <2>1. InStep([l EXCEPT !.msgs = {}])
    BY <1>1
  <2>2. InStep(appliedTo([l EXCEPT !.msgs = {}], l.committed))
    BY <2>1, <1>5
  <2> QED BY <2>2, <1>7 DEF settle
<1> QED BY <1>2, <1>3, <1>4, <1>5, <1>6, <1>7, <1>8

(* An empty ring is an empty queue.                                        *)
LEMMA EmptyRing ==
  /\ RingOK(NewInflights) /\ Contents(NewInflights) = <<>>
  /\ \A r : RingOK(r) => RingOK(ringReset(r)) /\ Contents(ringReset(r)) = <<>>
<1>1. IsSequence(<<>>) /\ Len(<<>>) = 0
  BY DEF IsSequence
<1>2. RingOK(NewInflights)
  BY <1>1, MaxInflightAssumption DEF RingOK, NewInflights
<1>3. Contents(NewInflights) = <<>>
  BY DEF Contents, NewInflights
<1>4. ASSUME NEW r, RingOK(r)
      PROVE  RingOK(ringReset(r)) /\ Contents(ringReset(r)) = <<>>
  <2>1. ringReset(r) = [start |-> 0, count |-> 0, buffer |-> r.buffer]
    BY DEF ringReset
  <2>2. RingOK(ringReset(r))
    BY <2>1, <1>4, MaxInflightAssumption, SequenceFacts DEF RingOK
  <2>3. ringReset(r).count = 0
    BY <2>1
  <2> QED BY <2>2, <2>3 DEF Contents
<1> QED BY <1>2, <1>3, <1>4

(* Changing the state of the Progress empties both.                        *)
LEMMA StateChange ==
  ASSUME NEW l, InStep(l), NEW pr, PrShape(pr), pr.ins = <<>>
  PROVE  InStep(toState(l, pr))
<1>1. LeaderShape(l) /\ RingOK(l.ring)
  BY DEF InStep
<1>2. toState(l, pr) = [l EXCEPT !.pr = pr, !.ring = ringReset(l.ring)]
  BY DEF toState
<1> DEFINE x == [l EXCEPT !.pr = pr, !.ring = ringReset(l.ring)]
<1>3. LeaderShape(x) /\ x.pr = pr /\ x.ring = ringReset(l.ring)
  BY <1>1 DEF LeaderShape
<1> HIDE DEF x
<1>4. InStep(x)
  BY <1>1, <1>3, EmptyRing DEF InStep
<1> QED BY <1>2, <1>4 DEF x

(* A message in flight is added to both, and finds room.                   *)
LEMMA InflightAdded ==
  ASSUME NEW l, InStep(l), ~full(l.pr.ins), NEW last
  PROVE  InStep(inflight(l, last)) /\ ~addFails(l.ring)
<1>1. LeaderShape(l) /\ PrShape(l.pr) /\ RingOK(l.ring) /\ Contents(l.ring) = l.pr.ins
  BY DEF InStep
<1>2. ~ringFull(l.ring)
  <2> DEFINE c == Contents(l.ring)
  <2>1. l.ring.count \in Nat /\ c = [k \in 1..l.ring.count |-> c[k]]
    BY <1>1 DEF RingOK, Contents
  <2>2. Len(c) = l.ring.count
    <3> HIDE DEF c
    <3> QED BY <2>1, FunctionIsSequence
  <2> QED BY <2>2, <1>1 DEF full, ringFull
<1>3. /\ ~addFails(l.ring) /\ RingOK(add(l.ring, last))
      /\ Contents(add(l.ring, last)) = Append(l.pr.ins, last)
  BY <1>1, <1>2, AddIsAppend
<1> DEFINE k == panicIf(l, addFails(l.ring))
           p0 == optimisticUpdate(l.pr, last)
           p == [p0 EXCEPT !.ins = Append(l.pr.ins, last)]
           x == [k EXCEPT !.pr = p, !.ring = add(l.ring, last)]
<1>4. InStep(k)
  BY LogOperations
<1>5. PrShape(p0)
  BY <1>1, WindowKept
<1>6. inflight(l, last) = x
  BY DEF inflight
<1> HIDE DEF k, p0
<1>7. PrShape(p) /\ p.ins = Append(l.pr.ins, last)
  BY <1>5, WindowKept
<1> HIDE DEF p
<1>8. LeaderShape(x) /\ x.pr = p /\ x.ring = add(l.ring, last)
  BY <1>4 DEF InStep, LeaderShape
<1> HIDE DEF x
<1>9. InStep(x)
  BY <1>3, <1>7, <1>8 DEF InStep
<1> QED BY <1>3, <1>6, <1>9

-----------------------------------------------------------------------------
(* Replacing the Progress by one with the same window.                     *)
LEMMA ProgressChange ==
  ASSUME NEW l, InStep(l), NEW pr, PrShape(pr), pr.ins = l.pr.ins
  PROVE  InStep([l EXCEPT !.pr = pr])
BY DEF InStep, LeaderShape

(* Sending: an append, a snapshot, or nothing.                             *)
LEMMA Sending ==
  ASSUME NEW l, InStep(l), NEW b
  PROVE  /\ InStep(sendSnapshot(l)) /\ InStep(maybeSendAppend(l, b))
         /\ InStep(sendAppend(l))
<1>1. PrShape(l.pr)
  BY DEF InStep
<1>2. InStep(sendSnapshot(l))
  <2> DEFINE i == disk.leader.snapshot.index
             t == toState(l, becomeSnapshot(l.pr, i))
  <2>1. PrShape(becomeSnapshot(l.pr, i)) /\ becomeSnapshot(l.pr, i).ins = <<>>
    BY <1>1, WindowEmptied
  <2>2. InStep(t)
    BY <2>1, StateChange
  <2> HIDE DEF t
  <2>3. InStep(panicIf(t, i = 0))
    BY <2>2, LogOperations
  <2>4. InStep(post(panicIf(t, i = 0), [type |-> "MsgSnap", snapshot |-> disk.leader.snapshot]))
    BY <2>3, LogOperations
  <2> QED BY <2>4 DEF sendSnapshot, t
<1>3. ASSUME NEW c PROVE InStep(maybeSendAppend(l, c))
  <2> DEFINE next == l.pr.next
             es   == IF next > leaderLast(l) THEN [err |-> "", ents |-> <<>>]
                     ELSE slice(l, disk.leader, next, leaderLast(l) + 1, MaxSize)
             last == next + Len(es.ents) - 1
             l1   == IF es.ents = <<>> THEN l
                     ELSE IF l.pr.state = "Replicate" THEN inflight(l, last)
                     ELSE [l EXCEPT !.pr = pause(l.pr)]
             m    == [type |-> "MsgApp", index |-> next - 1,
                      logterm |-> term(l, disk.leader, next - 1),
                      entries |-> es.ents, commit |-> l.committed]
             p    == panicIf(l1, es.err # "")
             none == IsPaused(l.pr) \/ (es.ents = <<>> /\ ~c)
             snap == \/ term(l, disk.leader, next - 1) \in {ErrCompacted, ErrUnavailable}
                     \/ es.err = "ErrCompacted"
  <2>0. maybeSendAppend(l, c) = IF none THEN l
                                ELSE IF snap THEN sendSnapshot(l) ELSE post(p, m)
    BY Zenon DEF maybeSendAppend
  <2>1. \/ maybeSendAppend(l, c) = l
        \/ maybeSendAppend(l, c) = sendSnapshot(l)
        \/ ~IsPaused(l.pr) /\ maybeSendAppend(l, c) = post(p, m)
    <3>1. ~none => ~IsPaused(l.pr)
      OBVIOUS
    <3> HIDE DEF p, m, snap, es, none
    <3>2. CASE none
      BY <2>0, <3>2, Zenon
    <3>3. CASE ~none /\ snap
      BY <2>0, <3>3, Zenon
    <3>4. CASE ~none /\ ~snap
      BY <2>0, <3>1, <3>4, Zenon
    <3> QED BY <3>2, <3>3, <3>4, Zenon
  <2>2. ASSUME ~IsPaused(l.pr) PROVE InStep(l1)
    <3> HIDE DEF last, es
    <3>1. CASE es.ents = <<>>
      BY <3>1
    <3>2. CASE es.ents # <<>> /\ l.pr.state = "Replicate"
      <4>1. ~full(l.pr.ins)
        BY <2>2, <3>2 DEF IsPaused
      <4> QED BY <3>2, <4>1, InflightAdded
    <3>3. CASE es.ents # <<>> /\ l.pr.state # "Replicate"
      <4>1. PrShape(pause(l.pr)) /\ pause(l.pr).ins = l.pr.ins
        BY <1>1, WindowKept
      <4> QED BY <3>3, <4>1, ProgressChange
    <3> QED BY <3>1, <3>2, <3>3
  <2> HIDE DEF l1, m, es
  <2>3. ASSUME ~IsPaused(l.pr) PROVE InStep(post(p, m))
    <3>1. InStep(p)
      BY <2>2, <2>3, LogOperations
    <3> HIDE DEF p
    <3> QED BY <3>1, LogOperations
  <2> QED BY <1>2, <2>1, <2>3
<1> QED BY <1>2, <1>3 DEF sendAppend

(* The loop of sendRemaining is well defined ...                           *)
LEMMA RoundsExist ==
  ASSUME NEW l
  PROVE  \A n \in Nat : \E f : f = [k \in 0..n |->
           IF k = 0 THEN l ELSE maybeSendAppend(f[k - 1], FALSE)]
<1> DEFINE IsRound(f, n) == f = [k \in 0..n |->
             IF k = 0 THEN l ELSE maybeSendAppend(f[k - 1], FALSE)]
           Bad == {n \in Nat : ~\E f : IsRound(f, n)}
<1>1. SUFFICES ASSUME Bad # {} PROVE FALSE
  OBVIOUS
<1>2. PICK n \in Bad : \A y \in Bad : n <= y
  <2> HIDE DEF Bad
  <2>1. Bad \in SUBSET Nat
    BY DEF Bad
  <2> QED BY <1>1, <2>1, LeastNatural
<1>3. n \in Nat
  OBVIOUS
<1>4. CASE n = 0
  <2> DEFINE g == [k \in 0..0 |-> l]
  <2>1. \A k \in 0..0 : l = IF k = 0 THEN l ELSE maybeSendAppend(g[k - 1], FALSE)
    OBVIOUS
  <2>2. IsRound(g, 0)
    BY <2>1, Zenon
  <2> QED BY <2>2, <1>4
<1>5. CASE n # 0
  <2>1. n - 1 \in Nat /\ n - 1 \notin Bad
    <3> HIDE DEF Bad
    <3>1. n - 1 \in Nat /\ ~(n <= n - 1)
      BY <1>3, <1>5
    <3> QED BY <1>2, <3>1
  <2>2. PICK f : IsRound(f, n - 1)
    BY <2>1
  <2>3. \A k \in 0..n - 1 : f[k] = IF k = 0 THEN l ELSE maybeSendAppend(f[k - 1], FALSE)
    BY <2>2, Zenon
  <2> DEFINE g == [k \in 0..n |-> IF k = n THEN maybeSendAppend(f[n - 1], FALSE) ELSE f[k]]
  <2>4. \A k \in 0..n : k # 0 => g[k - 1] = f[k - 1]
    <3> TAKE k \in 0..n
    <3>1. k # 0 => k - 1 \in 0..n /\ k - 1 # n
      BY <1>3
    <3> QED BY <3>1
  <2>5. \A k \in 0..n : g[k] = IF k = 0 THEN l ELSE maybeSendAppend(g[k - 1], FALSE)
    <3> TAKE k \in 0..n
    <3>1. CASE k = n
      <4>1. g[k] = maybeSendAppend(f[k - 1], FALSE)
        BY <3>1
      <4> QED BY <4>1, <2>4, <3>1, <1>5
    <3>2. CASE k # n
      <4>1. k \in 0..n - 1
        BY <3>2, <1>3
      <4>2. g[k] = f[k]
        BY <3>2
      <4> QED BY <4>1, <4>2, <2>3, <2>4
    <3> QED BY <3>1, <3>2
  <2>6. g = [k \in 0..n |-> g[k]]
    OBVIOUS
  <2> HIDE DEF g
  <2>7. IsRound(g, n)
    BY <2>5, <2>6, Zenon
  <2> QED BY <2>7
<1> QED BY <1>4, <1>5

(* ... and keeps the invariant in every round.                             *)
LEMMA SendingRemaining ==
  ASSUME NEW l, InStep(l)
  PROVE  InStep(sendRemaining(l))
<1> DEFINE IsRound(f) == f = [k \in 0..MaxInflight |->
             IF k = 0 THEN l ELSE maybeSendAppend(f[k - 1], FALSE)]
           f == CHOOSE f : IsRound(f)
<1>1. IsRound(f)
  <2>1. \E g : IsRound(g)
    BY RoundsExist, MaxInflightAssumption, Zenon
  <2> QED BY <2>1, Zenon
<1>2. sendRemaining(l) = f[MaxInflight]
  BY Zenon DEF sendRemaining
<1> HIDE DEF f
<1>3. \A k \in 0..MaxInflight :
        f[k] = IF k = 0 THEN l ELSE maybeSendAppend(f[k - 1], FALSE)
  BY <1>1, Zenon
<1> HIDE DEF IsRound
<1> DEFINE Bad == {k \in 0..MaxInflight : ~InStep(f[k])}
<1>4. Bad = {}
  <2> SUFFICES ASSUME Bad # {} PROVE FALSE
    OBVIOUS
  <2>1. Bad \in SUBSET Nat
    BY MaxInflightAssumption
  <2>2. PICK n \in Bad : \A y \in Bad : n <= y
    <3> HIDE DEF Bad
    <3> QED BY <2>1, LeastNatural
  <2>3. n \in 0..MaxInflight /\ ~InStep(f[n])
    BY <2>2
  <2>4. n # 0
    BY <2>3, <1>3
  <2>5. n - 1 \in 0..MaxInflight /\ ~(n <= n - 1)
    BY <2>3, <2>4, MaxInflightAssumption
  <2>6. InStep(f[n - 1])
    BY <2>2, <2>5
  <2>7. f[n] = maybeSendAppend(f[n - 1], FALSE)
    BY <1>3, <2>3, <2>4
  <2> QED BY <2>3, <2>6, <2>7, Sending
<1>5. MaxInflight \in 0..MaxInflight
  BY MaxInflightAssumption
<1> QED BY <1>2, <1>4, <1>5

(* MsgAppResp that rejects.                                                *)
LEMMA AppRejected ==
  ASSUME NEW l, InStep(l), NEW m
  PROVE  InStep(handleAppRejected(l, m))
<1> DEFINE p1 == [l.pr EXCEPT !.recentActive = TRUE]
           l1 == [l EXCEPT !.pr = p1]
           pr == maybeDecrTo(l1.pr, m.index, m.rejecthint)
           l2 == IF pr.state = "Replicate" THEN toState(l1, becomeProbe(pr))
                 ELSE [l1 EXCEPT !.pr = pr]
<1>1. PrShape(p1) /\ p1.ins = l.pr.ins
  BY WindowKept DEF InStep
<1>2. handleAppRejected(l, m) =
        IF Decreases(l1.pr, m.index) THEN sendAppend(l2) ELSE l1
  BY Zenon DEF handleAppRejected
<1> HIDE DEF p1
<1>3. InStep(l1)
  BY <1>1, ProgressChange
<1> HIDE DEF l1
<1>4. PrShape(pr) /\ pr.ins = l1.pr.ins
  <2>1. PrShape(l1.pr)
    BY <1>3 DEF InStep
  <2>2. \A i, h : /\ PrShape(maybeDecrTo(l1.pr, i, h))
                  /\ maybeDecrTo(l1.pr, i, h).ins = l1.pr.ins
    BY <2>1 DEF PrShape, maybeDecrTo
  <2> QED BY <2>2
<1> HIDE DEF pr
<1>5. InStep([l1 EXCEPT !.pr = pr])
  BY <1>3, <1>4, ProgressChange
<1>6. PrShape(becomeProbe(pr)) /\ becomeProbe(pr).ins = <<>>
  BY <1>4, WindowEmptied
<1>7. InStep(toState(l1, becomeProbe(pr)))
  BY <1>3, <1>6, StateChange
<1>8. InStep(l2)
  <2>1. CASE pr.state = "Replicate"
    BY <1>7, <2>1
  <2>2. CASE pr.state # "Replicate"
    BY <1>5, <2>2
  <2> QED BY <2>1, <2>2
<1> HIDE DEF l2
<1>9. InStep(sendAppend(l2))
  BY <1>8, Sending
<1> QED BY <1>2, <1>3, <1>9, Zenon

(* Freeing both.                                                           *)
LEMMA BothFreed ==
  ASSUME NEW l, InStep(l), NEW to
  PROVE  InStep([l EXCEPT !.pr = [l.pr EXCEPT !.ins = freeTo(l.pr.ins, to)],
                          !.ring = ringFreeTo(l.ring, to)])
<1> DEFINE p == [l.pr EXCEPT !.ins = freeTo(l.pr.ins, to)]
           x == [l EXCEPT !.pr = p, !.ring = ringFreeTo(l.ring, to)]
<1>1. LeaderShape(l) /\ PrShape(l.pr) /\ RingOK(l.ring) /\ Contents(l.ring) = l.pr.ins
  BY DEF InStep
<1>2. PrShape(p) /\ p.ins = freeTo(l.pr.ins, to)
  BY <1>1, WindowKept
<1> HIDE DEF p
<1>3. LeaderShape(x) /\ x.pr = p /\ x.ring = ringFreeTo(l.ring, to)
  BY <1>1 DEF LeaderShape
<1>4. RingOK(ringFreeTo(l.ring, to)) /\ Contents(ringFreeTo(l.ring, to)) = freeTo(l.pr.ins, to)
  BY <1>1, FreeToIsFreeTo
<1> HIDE DEF x
<1>5. InStep(x)
  BY <1>2, <1>3, <1>4 DEF InStep
<1> QED BY <1>5 DEF x, p

(* MsgAppResp that accepts.                                                *)
LEMMA AppAccepted ==
  ASSUME NEW l, InStep(l), NEW m
  PROVE  InStep(handleAppAccepted(l, m))
<1> DEFINE p0 == [l.pr EXCEPT !.recentActive = TRUE]
           p1 == maybeUpdate(p0, m.index)
           l1 == [l EXCEPT !.pr = p1]
           fr == [l1 EXCEPT !.pr = [l1.pr EXCEPT !.ins = freeTo(l1.pr.ins, m.index)],
                            !.ring = ringFreeTo(l1.ring, m.index)]
           l2 == IF l1.pr.state = "Probe" THEN toState(l1, becomeReplicate(l1.pr))
                 ELSE IF needSnapshotAbort(l1.pr) THEN toState(l1, becomeProbe(l1.pr))
                 ELSE IF l1.pr.state = "Replicate" THEN fr
                 ELSE l1
           l3 == IF IsPaused(l.pr) THEN sendAppend(l2) ELSE l2
<1>1. PrShape(p0) /\ p0.ins = l.pr.ins
  BY WindowKept DEF InStep
<1>2. handleAppAccepted(l, m) =
        IF Updates(l.pr, m.index) THEN sendRemaining(l3) ELSE l1
  BY Zenon DEF handleAppAccepted
<1> HIDE DEF p0
<1>3. PrShape(p1) /\ p1.ins = l.pr.ins
  BY <1>1, WindowKept
<1> HIDE DEF p1
<1>4. InStep(l1)
  BY <1>3, ProgressChange
<1> HIDE DEF l1
<1>5. PrShape(l1.pr)
  BY <1>4 DEF InStep
<1>6. InStep(toState(l1, becomeReplicate(l1.pr)))
  BY <1>4, <1>5, WindowEmptied, StateChange
<1>7. InStep(toState(l1, becomeProbe(l1.pr)))
  BY <1>4, <1>5, WindowEmptied, StateChange
<1>8. InStep(fr)
  BY <1>4, BothFreed
<1> HIDE DEF fr
<1>9. InStep(l2)
  BY <1>4, <1>6, <1>7, <1>8, Zenon
<1> HIDE DEF l2
<1>10. InStep(l3)
  BY <1>9, Sending
<1> HIDE DEF l3
<1>11. InStep(sendRemaining(l3))
  BY <1>10, SendingRemaining
<1> QED BY <1>2, <1>4, <1>11, Zenon

(* MsgHeartbeatResp                                                        *)
LEMMA HeartbeatAnswered ==
  ASSUME NEW l, InStep(l), NEW m
  PROVE  InStep(handleHeartbeatResp(l, m))
<1> DEFINE p0 == resume(l.pr)
           p1 == [p0 EXCEPT !.recentActive = TRUE]
           l1 == [l EXCEPT !.pr = p1]
           fr == [l1 EXCEPT !.pr = [l1.pr EXCEPT !.ins = freeFirstOne(l1.pr.ins)],
                            !.ring = ringFreeFirstOne(l1.ring)]
           l2 == IF l1.pr.state = "Replicate" /\ full(l1.pr.ins) THEN fr ELSE l1
<1>1. PrShape(p0) /\ p0.ins = l.pr.ins
  BY WindowKept DEF InStep
<1>2. handleHeartbeatResp(l, m) =
        IF l2.pr.match < leaderLast(l2) THEN sendAppend(l2) ELSE l2
  BY Zenon DEF handleHeartbeatResp
<1> HIDE DEF p0
<1>3. PrShape(p1) /\ p1.ins = l.pr.ins
  BY <1>1, WindowKept
<1> HIDE DEF p1
<1>4. InStep(l1)
  BY <1>3, ProgressChange
<1> HIDE DEF l1
<1>5. ASSUME full(l1.pr.ins) PROVE InStep(fr)
  <2>1. /\ l1.ring.count \in Nat
        /\ l1.pr.ins = [k \in 1..l1.ring.count |-> InflightAt(l1.ring, k - 1)]
    BY <1>4 DEF InStep, RingOK, Contents
  <2>2. Len(l1.pr.ins) = l1.ring.count
    BY <2>1, FunctionIsSequence
  <2>3. 1 \in 1..l1.ring.count
    BY <1>5, <2>1, <2>2, MaxInflightAssumption DEF full
  <2>4. l1.pr.ins[1] = InflightAt(l1.ring, 0)
    BY <2>1, <2>3
  <2>5. fr = [l1 EXCEPT !.pr = [l1.pr EXCEPT !.ins = freeTo(l1.pr.ins, l1.pr.ins[1])],
                        !.ring = ringFreeTo(l1.ring, l1.pr.ins[1])]
    BY <2>4 DEF freeFirstOne, ringFreeFirstOne
  <2> QED BY <2>5, <1>4, BothFreed
<1> HIDE DEF fr
<1>6. InStep(l2)
  BY <1>4, <1>5, Zenon
<1> HIDE DEF l2
<1>7. InStep(sendAppend(l2))
  BY <1>6, Sending
<1> QED BY <1>2, <1>6, <1>7, Zenon

(* MsgSnapStatus and MsgUnreachable                                        *)
LEMMA Reported ==
  ASSUME NEW l, InStep(l), NEW failed
  PROVE  InStep(handleSnapStatus(l, failed)) /\ InStep(handleUnreachable(l))
<1>1. PrShape(l.pr)
  BY DEF InStep
<1>2. InStep(handleUnreachable(l))
  BY <1>1, WindowEmptied, StateChange DEF handleUnreachable
<1> DEFINE p0 == IF failed THEN snapshotFailure(l.pr) ELSE l.pr
           p1 == becomeProbe(p0)
<1>3. PrShape(p0)
  BY <1>1, WindowKept, Zenon
<1>4. handleSnapStatus(l, failed) =
        IF l.pr.state # "Snapshot" THEN l ELSE toState(l, pause(p1))
  BY Zenon DEF handleSnapStatus
<1> HIDE DEF p0
<1>5. PrShape(p1) /\ p1.ins = <<>>
  BY <1>3, WindowEmptied
<1> HIDE DEF p1
<1>6. PrShape(pause(p1)) /\ pause(p1).ins = <<>>
  BY <1>5, WindowKept
<1>7. InStep(toState(l, pause(p1)))
  BY <1>6, StateChange
<1> QED BY <1>2, <1>4, <1>7, Zenon

-----------------------------------------------------------------------------
(* The leader starts with an empty window.                                 *)
LEMMA InitInStep == Init => InStep(leader)
<1> SUFFICES ASSUME Init PROVE InStep(leader)
  OBVIOUS
<1> DEFINE n == Len(LeaderTerms)
           p == pause(NewProgress(n, 0, FALSE))
<1>1. LeaderShape(leader) /\ leader.pr = p /\ leader.ring = NewInflights
  BY DEF Init, LeaderShape
<1>2. PrShape(p) /\ p.ins = <<>>
  BY DEF PrShape, pause, NewProgress
<1> HIDE DEF p
<1> QED BY <1>1, <1>2, EmptyRing DEF InStep

(* A step of the leader that ends in l keeps the invariant if l does.      *)
LEMMA LeaderStep ==
  ASSUME NEW l, InStep(l), LeaderDoes(l)
  PROVE  InStep(leader')
BY LogOperations DEF LeaderDoes

(* Every step of the system keeps the invariant.                           *)
LEMMA NextInStep == InStep(leader) /\ [Next]_vars => InStep(leader)'
<1> SUFFICES ASSUME InStep(leader), [Next]_vars PROVE InStep(leader')
  OBVIOUS
<1>1. CASE Propose
  <2> DEFINE l == logAppend(leader, [k \in 1..ProposalSize |->
                                      EntryAt(leaderLast(leader) + k, LeaderTerm)])
  <2>1. LeaderDoes(sendAppend(l))
    BY <1>1, Zenon DEF Propose
  <2>2. InStep(l)
    BY LogOperations
  <2> HIDE DEF l
  <2>3. InStep(sendAppend(l))
    BY <2>2, Sending
  <2> QED BY <2>1, <2>3, LeaderStep
<1>2. CASE OthersAck
  <2> DEFINE l == commitTo(leader, disk.leader, leaderLast(leader))
  <2>1. LeaderDoes(sendAppend(l))
    BY <1>2, Zenon DEF OthersAck
  <2>2. InStep(l)
    BY LogOperations
  <2> HIDE DEF l
  <2>3. InStep(sendAppend(l))
    BY <2>2, Sending
  <2> QED BY <2>1, <2>3, LeaderStep
<1>3. CASE TickHeartbeat
  <2>1. PICK m : LeaderDoes(post(leader, m))
    BY <1>3, Zenon DEF TickHeartbeat
  <2>2. InStep(post(leader, m))
    BY LogOperations
  <2> QED BY <2>1, <2>2, LeaderStep
<1>4. CASE ReportSnapshot
  BY <1>4, Reported DEF ReportSnapshot
<1>5. CASE ReportUnreachable
  <2>1. LeaderDoes(handleUnreachable(leader))
    BY <1>5 DEF ReportUnreachable
  <2>2. InStep(handleUnreachable(leader))
    BY Reported
  <2> QED BY <2>1, <2>2, LeaderStep
<1>6. CASE CompactLeader
  BY <1>6 DEF CompactLeader
<1>7. ASSUME NEW m, StepApp(m) \/ StepHeartbeat(m) \/ StepSnapshot(m) \/ Lose(m)
      PROVE  InStep(leader')
  <2>1. leader' = leader
    BY <1>7, Zenon DEF StepApp, StepHeartbeat, StepSnapshot, Lose, FollowerDoes
  <2> QED BY <2>1
<1>8. ASSUME NEW m, StepAppResp(m) PROVE InStep(leader')
  <2> DEFINE l == IF m.reject THEN handleAppRejected(leader, m)
                  ELSE handleAppAccepted(leader, m)
  <2>1. LeaderDoes(l)
    BY <1>8, Zenon DEF StepAppResp
  <2>2. InStep(l)
    BY AppRejected, AppAccepted, Zenon
  <2> QED BY <2>1, <2>2, LeaderStep
<1>9. ASSUME NEW m, StepHeartbeatResp(m) PROVE InStep(leader')
  <2>1. LeaderDoes(handleHeartbeatResp(leader, m))
    BY <1>9, Zenon DEF StepHeartbeatResp
  <2>2. InStep(handleHeartbeatResp(leader, m))
    BY HeartbeatAnswered
  <2> QED BY <2>1, <2>2, LeaderStep
<1>10. CASE UNCHANGED vars
  BY <1>10 DEF vars
<1> QED
  BY <1>1, <1>2, <1>3, <1>4, <1>5, <1>6, <1>7, <1>8, <1>9, <1>10, Zenon DEF Next

(* Whatever the size of the window, the messages and their order, the ring *)
(* buffer of Inflights holds exactly the queue that Progress reasons with. *)
THEOREM RingAlwaysQueue == Spec => []RingIsQueue
<1>1. InStep(leader) => RingIsQueue
  BY DEF InStep, RingIsQueue
<1> QED BY <1>1, InitInStep, NextInStep, PTL DEF Spec
=============================================================================
