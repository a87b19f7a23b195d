------------------------------- MODULE MCOutbox -------------------------------
(***************************************************************************)
(* Instances of Outbox for TLC: two claim loops of one process, and a      *)
(* third one of another process.                                           *)
(***************************************************************************)
EXTENDS Outbox

CONSTANTS w1, w2, w3, p, q

TwoProcesses == [w \in Workers |-> IF w = w3 THEN q ELSE p]
=============================================================================
