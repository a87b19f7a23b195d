------------------------------ MODULE CommitLog ------------------------------
(***************************************************************************)
(* What the write-ahead log promises to Nest and to the projector, without *)
(* queues, batches, segments or fsync: a sequence of committed records     *)
(* that only grows, the records whose commit was confirmed to the caller,  *)
(* and the acknowledged prefix, which need not be replayed.                *)
(***************************************************************************)
EXTENDS Naturals, Sequences

VARIABLES
  log,        \* committed records, in commit order
  confirmed,  \* records whose Append returned, or whose ticket resolved
  acked       \* length of the acknowledged prefix

vars == <<log, confirmed, acked>>

Committed == {log[p] : p \in 1..Len(log)}

Init == log = <<>> /\ confirmed = {} /\ acked = 0

\* log' continues log.
Extends ==
  /\ log' \in Seq(Nat)
  /\ Len(log) <= Len(log')
  /\ \A p \in 1..Len(log) : log'[p] = log[p]

\* Records commit, and commits are confirmed, never before the record is in.
Commit ==
  /\ Extends
  /\ confirmed \subseteq confirmed' /\ confirmed' \subseteq Committed'
  /\ UNCHANGED acked

\* Acknowledgements advance, never past what is committed.
Acknowledge ==
  /\ acked' \in Nat /\ acked < acked' /\ acked' <= Len(log)
  /\ UNCHANGED <<log, confirmed>>

\* A restart may find records nobody was told about, and an acknowledgement
\* whose caller was told it failed.  It loses nothing.
Recover ==
  /\ Extends
  /\ UNCHANGED confirmed
  /\ acked' \in Nat /\ acked <= acked' /\ acked' <= Len(log')

Next == Commit \/ Acknowledge \/ Recover

Spec == Init /\ [][Next]_vars
=============================================================================
