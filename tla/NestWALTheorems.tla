--------------------------- MODULE NestWALTheorems ---------------------------
(***************************************************************************)
(* What is proved of the write-ahead log, for any number of callers, any   *)
(* sizes of queue, batch, segment and disk and any combination of faults.  *)
(***************************************************************************)
EXTENDS NestWALProofs, NestWALOrderProofs, NestWALDurableProofs, NestWALRecoveryProofs, NestWALRefinementProofs,
        FiniteSetTheorems

\* A batch reserves space for finitely many records.
LEMMA ReservedFinite == TypeOK => Cardinality(Reserved) \in Nat
<1>. SUFFICES ASSUME TypeOK PROVE Cardinality(Reserved) \in Nat
  OBVIOUS
<1>a. batch \in Seq(Requests) /\ recs \in Seq(Record)
  BY ProcessFacts DEF TypeOK, WriterType
<1>1. Reserved \subseteq 1..Len(recs)
  <2>1. \A i \in DOMAIN batch : batch[i] \in Requests
    BY <1>a
  <2>2. \A i \in DOMAIN batch : batch[i].rec \in {0} \cup DOMAIN recs
    BY <2>1 DEF Requests
  <2>3. DOMAIN recs = 1..Len(recs)
    BY <1>a
  <2>. QED  BY <2>2, <2>3 DEF Reserved, IdsOf
<1>2. IsFiniteSet(1..Len(recs))
  BY <1>a, FS_Interval
<1>3. IsFiniteSet(Reserved)
  BY <1>1, <1>2, FS_Subset
<1>. QED  BY <1>3, FS_CardinalityType

\* Every reachable state is well typed, for every number of clients, every size
\* of queue, batch, segment and disk, and every combination of faults.
THEOREM TypeCorrect == Spec => []TypeOK
<1>1. TypeOK /\ [Next]_vars => TypeOK'
  BY ReservedFinite, TypeStep
<1>. QED  BY <1>1, TypeInit, PTL DEF Spec

\* Records move from the queue through the batch into the file in order, and no
\* ticket record of the running process goes astray.
THEOREM OrderCorrect == Spec => []OrderInv
<1>1. TypeOK /\ OrderInv /\ [Next]_vars => OrderInv'
  BY OrderStep
<1>. QED  BY <1>1, OrderInit, TypeCorrect, PTL DEF Spec

\* The log keeps submission order, without a record written twice and without a
\* hole where a ticket record should be, through batching, rotation, I/O errors,
\* process crashes and power losses, for any number of callers and any sizes.
THEOREM LogOrder == Spec => [](LogOrdered /\ NoHole)
<1>1. OrderInv => LogOrdered /\ NoHole
  BY DEF OrderInv
<1>. QED  BY <1>1, OrderCorrect, PTL

\* Once an fsync, a write or the creation of a segment has failed, nothing more
\* becomes stable and the watermark does not move, whatever the callers, the
\* writer and the ticker go on to do.
THEOREM TerminalFinal == Spec => TerminalFreezes
<1>1. ASSUME [Next]_vars, phase = "up", phase' = "up", terminal
      PROVE  terminal' /\ stable' = stable /\ durableLSN' = durableLSN
  BY <1>1, TerminalStep
<1>. QED  BY <1>1, PTL DEF Spec, TerminalFreezes

\* DurableInv is inductive when a failure of the process is a loss of power.
THEOREM DurableCorrect ==
  ASSUME "process" \notin CrashKinds
  PROVE  Spec => []DurableInv
<1>1. TypeOK /\ OrderInv /\ DurableInv /\ [Next]_vars => DurableInv'
  BY DurableStep
<1>. QED  BY <1>1, DurableInit, TypeCorrect, OrderCorrect, PTL DEF Spec

\* Durability, for any number of callers, any sizes and every combination of I/O
\* faults and power losses: a strict Append that returned, a ticket that resolved
\* and the DurableLSN watermark are covered by stable storage, and so is the
\* checkpoint of either slot.  A process crash is left out because Open takes the
\* page cache it finds for synced (run wal_reopen_async).
THEOREM Durability ==
  ASSUME "process" \notin CrashKinds
  PROVE  Spec => [](ConfirmedStable /\ WatermarkStable /\ CheckpointStable)
<1>1. Spec => []DurableInv
  BY DurableCorrect
<1>2. DurableInv => ConfirmedStable /\ WatermarkStable /\ CheckpointStable
  BY DEF DurableInv
<1>. QED  BY <1>1, <1>2, PTL

\* The slots alternate and the segment files cover the log from behind the checkpoint,
\* as long as failures are all of one kind: power is lost, or the process dies.
THEOREM RecoveryCorrect ==
  ASSUME ~({"process", "power"} \subseteq CrashKinds)
  PROVE  Spec => []RecoveryInv
<1>1. CASE "process" \notin CrashKinds
  <2>1. RecoveryInv /\ TypeOK /\ DurableInv /\ [Next]_vars => RecoveryInv'
    BY RecoveryStep DEF DurableInv
  <2>. QED  BY <1>1, <2>1, RecoveryInit, TypeCorrect, DurableCorrect, PTL DEF Spec
<1>2. CASE "power" \notin CrashKinds
  <2>1. RecoveryInv /\ TypeOK /\ [Next]_vars => RecoveryInv'
    BY <1>2, RecoveryStep
  <2>. QED  BY <2>1, RecoveryInit, TypeCorrect, PTL DEF Spec
<1>. QED  BY <1>1, <1>2

\* Ack removes segments only below the checkpoint a recovery would load: whatever is
\* missing of the log was acknowledged.
THEOREM Pruning ==
  ASSUME ~({"process", "power"} \subseteq CrashKinds)
  PROVE  Spec => []PruneAcked
BY PrunedAcked, TypeCorrect, RecoveryCorrect, PTL

\* Open accepts the log a power loss left, unless the loss put foreign bytes into it:
\* its checkpoint, its remaining segments and the cut of its last write never refuse.
THEOREM Recovery ==
  ASSUME "process" \notin CrashKinds, "remove" \notin Faults
  PROVE  Spec => []OpenAccepts
<1>1. TypeOK /\ DurableInv /\ RecoveryInv /\ OpenAccepts /\ [Next]_vars => OpenAccepts'
  BY OpenStep
<1>2. ~({"process", "power"} \subseteq CrashKinds)
  OBVIOUS
<1>3. Spec => []RecoveryInv
  BY <1>2, RecoveryCorrect
<1>. QED  BY <1>1, <1>3, OpenInit, TypeCorrect, DurableCorrect, PTL DEF Spec

\* A registered ticket is pending and registered once, and a caller about to register
\* one holds a record without outcome: no outcome is given twice.
THEOREM PendingCorrect ==
  ASSUME "process" \notin CrashKinds
  PROVE  Spec => []TicketsPending
<1>1. TypeOK /\ DurableInv /\ TicketsPending /\ [Next]_vars => TicketsPending'
  BY PendingStep DEF DurableInv
<1>. QED  BY <1>1, PendingInit, TypeCorrect, DurableCorrect, PTL DEF Spec

\* The log implements CommitLog, for any number of callers, any sizes and every
\* combination of I/O faults and power losses: what was confirmed or acknowledged is
\* in the committed prefix and stays there, and that prefix is only ever extended.
THEOREM Refinement ==
  ASSUME "process" \notin CrashKinds
  PROVE  Spec => ImplementsCommitLog
<1>1. /\ TypeOK /\ TypeOK' /\ DurableInv /\ DurableInv' /\ RecoveryInv /\ TicketsPending
      /\ [Next]_vars
      => [Log!Next]_Log!vars
  BY LogStep
<1>2. Spec => []RecoveryInv
  BY RecoveryCorrect
<1>3. Spec => []DurableInv /\ []TicketsPending
  BY DurableCorrect, PendingCorrect, PTL
<1>4. Spec => Log!Spec
  BY <1>1, <1>2, <1>3, LogInit, TypeCorrect, PTL DEF Spec, Log!Spec
<1>. QED  BY <1>4 DEF ImplementsCommitLog
=============================================================================
