----------------------------- MODULE Inflights ------------------------------
(* The ring buffer of class Inflights, which Progress takes for a queue.   *)
(* A ring is a record [start, count, buffer]; the buffer grows up to the   *)
(* capacity that the constructor reserves.                                 *)
EXTENDS Progress

NewInflights == [start |-> 0, count |-> 0, buffer |-> <<>>]

(* A place in the ring, rotated once where it passes the end.              *)
rotate(i) == IF i >= MaxInflight THEN i - MaxInflight ELSE i

InflightAt(r, k) == r.buffer[rotate(r.start + k) + 1]

ringFull(r) == r.count = MaxInflight

(* add panics on a full ring and asserts that it leaves no hole.           *)
addFails(r) == ringFull(r) \/ rotate(r.start + r.count) > Len(r.buffer)

add(r, inflight) ==
  LET next == rotate(r.start + r.count)
  IN  [start |-> r.start, count |-> r.count + 1,
       buffer |-> IF next = Len(r.buffer) THEN Append(r.buffer, inflight)
                  ELSE [r.buffer EXCEPT ![next + 1] = inflight]]

(* How many messages, from the oldest on, end at `to' or before.           *)
freedBug(r, to) ==                      \* the message that ends at `to' stays
  LET later == {k \in 0..(r.count - 1) : to <= InflightAt(r, k)}
  IN  IF later = {} THEN r.count ELSE Min(later)

freed(r, to) ==
  LET later == {k \in 0..(r.count - 1) : to < InflightAt(r, k)}
  IN  IF later = {} THEN r.count ELSE Min(later)

ringFreeTo(r, to) ==
  LET i == freed(r, to)
  IN  IF r.count = 0 \/ to < InflightAt(r, 0) THEN r
      ELSE [r EXCEPT !.count = @ - i,
                     !.start = IF i = r.count THEN 0 ELSE rotate(@ + i)]

ringFreeFirstOne(r) == ringFreeTo(r, InflightAt(r, 0))

ringReset(r) == [start |-> 0, count |-> 0, buffer |-> r.buffer]

(* The queue that a ring stands for.                                       *)
Contents(r) == [k \in 1..r.count |-> InflightAt(r, k - 1)]
=============================================================================
