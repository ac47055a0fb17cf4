----------------------------- MODULE DurableLog -----------------------------
(* What a node's log promises, without the parts it is kept in: a sequence *)
(* of entries in memory, one on disk, and a state machine.  This is the    *)
(* view that Raft takes of a node and its storage.                         *)
EXTENDS RaftLog

CONSTANTS
  Chosen,          \* the entries that leaders commit
  Appends,         \* the MsgApps that leaders send
  First            \* the entries that a node with an empty log starts with

VARIABLES
  log, committed,  \* in memory
  ready,           \* the log that the application was told to save
  saved,           \* on disk
  sm               \* the state machine

logVars == <<log, committed, ready, saved, sm>>

Init ==
  /\ log = First /\ committed = Len(First)
  /\ ready = <<>> /\ saved = <<>> /\ sm = <<>>

(* The log matches at m.prev and takes over the entries that it lacks.     *)
Receive(m) ==
  LET r  == [log |-> log, committed |-> committed, panic |-> FALSE]
      r1 == maybeAppend(r, m.prev, m.commit, m.entries)
  IN  /\ m.prev >= committed /\ matchTerm(r, m.prev, m.logterm)
      /\ ~r1.panic
      /\ log' = r1.log /\ committed' = r1.committed
      /\ UNCHANGED <<ready, saved, sm>>

Commit(n) ==
  /\ committed < n /\ n <= Len(log)
  /\ committed' = n
  /\ UNCHANGED <<log, ready, saved, sm>>

(* A snapshot of the first n chosen entries replaces the log.              *)
Install(n) ==
  /\ committed < n /\ n <= Len(Chosen)
  /\ log' = SubSeq(Chosen, 1, n) /\ committed' = n
  /\ UNCHANGED <<ready, saved, sm>>

Take == ready' = log /\ UNCHANGED <<log, committed, saved, sm>>

Save == saved' = ready /\ UNCHANGED <<log, committed, ready, sm>>

(* Only committed entries are applied, each once and in order.             *)
Apply(n) ==
  /\ Len(sm) < n /\ n <= committed
  /\ sm' = SubSeq(log, 1, n)
  /\ UNCHANGED <<log, committed, ready, saved>>

(* The log is what was saved, and the state machine a part of it.          *)
Crash(c, n) ==
  /\ log' = IF saved = <<>> THEN First ELSE saved
  /\ committed' = c /\ c <= Len(log')
  /\ sm' = SubSeq(log', 1, n) /\ n <= c
  /\ ready' = saved /\ UNCHANGED saved

Next ==
  \/ \E m \in Appends : Receive(m)
  \/ \E n \in 1..Len(Chosen) : Commit(n) \/ Install(n) \/ Apply(n)
  \/ Take \/ Save
  \/ \E c \in 0..Len(Chosen), n \in 0..Len(Chosen) : Crash(c, n)

Spec == Init /\ [][Next]_logVars
=============================================================================
