----------------------- MODULE NestWALRecoveryProofs ------------------------
(***************************************************************************)
(* Checkpoints, pruning and recovery of the log: RecoveryInv is kept, what *)
(* is pruned was acknowledged, and Open accepts what a power loss leaves.  *)
(***************************************************************************)
EXTENDS NestWALFacts

-----------------------------------------------------------------------------
(* Positions and segments *)

\* The segment a position behind o falls into.
LEMMA SegmentOfNext ==
  ASSUME NEW s \in Nat \ {0}, NEW o \in Nat, (s - 1) * SegmentRecords <= o, o < s * SegmentRecords
  PROVE  SegmentOf(o + 1) = s
<1>2. ASSUME NEW a \in Nat, NEW n \in Nat \ {0}, NEW q \in Nat, q * n <= a, a < q * n + n
      PROVE  a \div n = q
  BY SMTT(20), <1>2
<1>. DEFINE a == o + 1 + SegmentRecords - 1
<1>. HIDE DEF a
<1>. QED  BY SizeAssumption, <1>2 DEF SegmentOf, a

\* Segments are in the order of the positions they hold.
LEMMA SegmentOfMono ==
  ASSUME NEW f \in Nat, NEW g \in Nat, f <= g
  PROVE  SegmentOf(f) \in Nat /\ SegmentOf(f) <= SegmentOf(g)
<1>2. ASSUME NEW a \in Nat, NEW b \in Nat, NEW n \in Nat \ {0}, a <= b
      PROVE  a \div n \in Nat /\ a \div n <= b \div n
  BY SMTT(20), <1>2
<1>. QED  BY SizeAssumption, <1>2 DEF SegmentOf

\* A position up to the end of segment s is in s or an earlier one.
LEMMA SegmentOfBound ==
  ASSUME NEW f \in Nat, NEW s \in Nat, f <= s * SegmentRecords
  PROVE  SegmentOf(f) <= s
<1>2. ASSUME NEW a \in Nat, NEW n \in Nat \ {0}, NEW q \in Nat, a < q * n + n
      PROVE  a \div n <= q
  BY SMTT(20), <1>2
<1>. QED  BY SizeAssumption, <1>2 DEF SegmentOf

\* Numbers of segments, as multiples of their size.
LEMMA SegmentArithmetic ==
  /\ SegmentRecords \in Nat \ {0}
  /\ \A s \in Nat : s * SegmentRecords \in Nat /\ (s - 1) * SegmentRecords \in Int
  /\ \A s \in Nat : ((s + 1) - 1) * SegmentRecords = s * SegmentRecords
  /\ \A s, t \in Nat : s <= t => s * SegmentRecords <= t * SegmentRecords
BY SizeAssumption

-----------------------------------------------------------------------------
(* The checkpoint slots *)

-----------------------------------------------------------------------------
(* RecoveryInv is kept *)

\* Steps that leave the log, its checkpoint and Ack alone.
LEMMA RecoveryFrame ==
  ASSUME TypeOK, RecoveryInv, UNCHANGED <<file, segs, slots, phase, offset, seg, checkpoint, apc, afence>>,
         wpc' = "create" => wpc = "create" \/ (phase = "up" /\ SegmentFull)
  PROVE  RecoveryInv'
BY DEF RecoveryInv, SlotsInv, AckInv, Acked, Contiguous, SegmentFull, loadCheckpoint, SegmentsInv

\* Callers other than Ack.
LEMMA RecoveryClient ==
  ASSUME TypeOK, RecoveryInv, NEW c \in Clients, ClientStep(c) \/ ClientChoice(c)
  PROVE  RecoveryInv'
<1>1. UNCHANGED <<file, segs, slots, phase, offset, seg, checkpoint, apc, afence>> /\ wpc' = wpc
  BY SMTT(30) DEF ClientStep, ClientChoice, AppendSend, AppendReturn, EnqueueRefuse, EnqueueCheck, EnqueueSend,
     EnqueueRegister, SyncBoundary, SyncCheck, SyncSend, SyncReply, SyncFlush, SyncReturn, AppendBegin,
     AppendCancel, EnqueueReserve, SyncBegin, SyncCancel, diskVars, posVars, writerVars, ackVars, processVars
<1>. QED  BY <1>1, RecoveryFrame

\* The writer, as long as it neither writes nor creates a segment.
LEMMA RecoveryQuietWriter ==
  ASSUME TypeOK, RecoveryInv,
         WriterTake \/ WriterCollect \/ WriterDrain \/ WriterRefuse \/ WriterAdmit \/ WriterRotate \/ WriterFinish
         \/ WriterStop \/ WriterCloseActive \/ WriterExit \/ WriterTick \/ Close
  PROVE  RecoveryInv'
<1>1. UNCHANGED <<file, segs, slots, phase, offset, seg, checkpoint, apc, afence>>
  BY SMTT(30) DEF WriterTake, WriterCollect, WriterDrain, WriterRefuse, WriterAdmit, WriterRotate, WriterFinish, WriterStop,
     WriterCloseActive, WriterExit, WriterTick, Close, diskVars, posVars, ackVars, processVars
<1>2. wpc' = "create" => wpc = "create" \/ (phase = "up" /\ SegmentFull)
  BY SMTT(30) DEF WriterTake, WriterCollect, WriterDrain, WriterRefuse, WriterAdmit, WriterRotate, WriterFinish, WriterStop,
     WriterCloseActive, WriterExit, WriterTick, Close, writerVars, Back, BatchFailed, Writing
<1>. QED  BY <1>1, <1>2, RecoveryFrame

\* Ack takes a fence between the checkpoint and the end of the log.
LEMMA RecoveryAck ==
  ASSUME TypeOK, RecoveryInv, Ack
  PROVE  RecoveryInv'
<1>1. /\ UNCHANGED <<file, segs, slots, phase, offset, seg, checkpoint, wpc>>
      /\ phase = "up" /\ apc = "idle"
      /\ UNCHANGED <<apc, afence>> \/ (apc' = "store" /\ afence' \in checkpoint.fence + 1 .. offset)
  BY DEF Ack, diskVars, posVars, writerVars, processVars
<1>a. checkpoint.fence \in Nat /\ offset \in Nat
  BY SlotFacts, ProcessFacts
<1>2. AckInv'
  <2>1. CASE UNCHANGED <<apc, afence>>
    BY <1>1, <2>1 DEF AckInv
  <2>2. CASE apc' = "store" /\ afence' \in checkpoint.fence + 1 .. offset
    BY <1>1, <1>a, <2>2 DEF AckInv
  <2>. QED  BY <1>1, <2>1, <2>2
<1>3. SlotsInv' /\ Acked' = Acked /\ Contiguous' = Contiguous /\ SegmentFull' = SegmentFull
  BY <1>1 DEF RecoveryInv, SlotsInv, Acked, Contiguous, SegmentFull, loadCheckpoint
<1>. QED  BY <1>2, <1>3, <1>1 DEF RecoveryInv, SegmentsInv

\* The next checkpoint goes to the slot that does not hold the one in memory.
LEMMA RecoveryStore ==
  ASSUME TypeOK, RecoveryInv, storeCheckpoint
  PROVE  RecoveryInv'
<1>1. /\ UNCHANGED <<file, segs, phase, offset, seg, wpc, afence>>
      /\ phase = "up" /\ apc = "store" /\ apc' = "prune" /\ checkpoint' = NextCheckpoint
      /\ slots' = [slots EXCEPT ![NextCheckpoint.gen % 2] = NextCheckpoint]
  BY DEF storeCheckpoint, posVars, writerVars, processVars
<1>. DEFINE g == checkpoint.gen
            n == g % 2
            m == 1 - n
<1>2. /\ g \in Nat /\ n \in 0..1 /\ m \in 0..1 /\ n # m /\ (g + 1) % 2 = m /\ 1 - m = n
      /\ NextCheckpoint.gen = g + 1 /\ NextCheckpoint.fence = afence
  BY SlotFacts DEF NextCheckpoint
<1>3. slots'[m] = NextCheckpoint /\ slots'[n] = slots[n]
  BY <1>1, <1>2, SlotFacts
<1>4. slots[n] = checkpoint /\ checkpoint.fence < afence /\ afence <= offset
  BY <1>1 DEF RecoveryInv, SlotsInv, AckInv
<1>5. SlotsInv'
  <2>1. ASSUME NEW k \in 0..1 PROVE (slots'[k].gen > 0 /\ slots'[k].gen % 2 = k) \/ slots'[k] = [gen |-> 0, fence |-> 0]
    <3>1. CASE k = m
      <4>1. slots'[k].gen = g + 1 /\ (g + 1) % 2 = k /\ g + 1 > 0
        BY <1>2, <3>1, <1>3
      <4>. QED  BY ONLY <4>1
    <3>2. CASE k # m
      BY Zenon, <1>1, <1>2, <3>2, SlotFacts DEF RecoveryInv, SlotsInv
    <3>. QED  BY <3>1, <3>2
  <2>2. slots'[m] = checkpoint' /\ slots'[n].gen < checkpoint'.gen
    BY <1>1, <1>2, <1>3, <1>4
  <2>. QED  BY <2>1, <2>2, <1>1, <1>2 DEF SlotsInv
<1>8. SegmentsInv'
  <2>1. Acked < Acked' /\ Acked \in Nat /\ Acked' \in Nat
    BY <1>4, <1>1, <1>2, SlotFacts DEF Acked
  <2>. QED  BY <1>1, QueueFacts, <2>1 DEF RecoveryInv, SegmentsInv, Contiguous, SegmentFull
<1>. QED  BY <1>5, <1>1, <1>2, <1>4, <1>8 DEF RecoveryInv, AckInv

\* A store that is reported as failed leaves the checkpoint in memory as it is.
LEMMA RecoveryStoreFails ==
  ASSUME TypeOK, RecoveryInv, storeCheckpointFails
  PROVE  RecoveryInv'
<1>1. /\ UNCHANGED <<file, segs, phase, offset, seg, wpc, checkpoint>>
      /\ phase = "up" /\ apc = "store" /\ apc' = "idle"
      /\ slots' \in {slots, [slots EXCEPT ![NextCheckpoint.gen % 2] = NextCheckpoint]}
  BY DEF storeCheckpointFails, posVars, writerVars, processVars
<1>. DEFINE g == checkpoint.gen
            n == g % 2
            m == 1 - n
<1>2. /\ g \in Nat /\ n \in 0..1 /\ m \in 0..1 /\ n # m /\ (g + 1) % 2 = m /\ 1 - m = n
      /\ NextCheckpoint.gen = g + 1 /\ NextCheckpoint.fence = afence
  BY SlotFacts DEF NextCheckpoint
<1>3. slots'[n] = slots[n] /\ (slots'[m] = NextCheckpoint \/ slots' = slots)
  BY Zenon, <1>1, <1>2, SlotFacts
<1>4. slots[n] = checkpoint /\ checkpoint.fence < afence
  BY <1>1 DEF RecoveryInv, SlotsInv, AckInv
<1>5. SlotsInv'
  <2>1. CASE slots' = slots
    BY <1>1, <2>1 DEF RecoveryInv, SlotsInv
  <2>2. CASE slots'[m] = NextCheckpoint
    <3>1. ASSUME NEW k \in 0..1 PROVE (slots'[k].gen > 0 /\ slots'[k].gen % 2 = k) \/ slots'[k] = [gen |-> 0, fence |-> 0]
      <4>1. CASE k = m
        <5>a. \A x \in Nat : x + 1 > 0
          OBVIOUS
        <5>1. slots'[k].gen = g + 1 /\ (g + 1) % 2 = k /\ g + 1 > 0
          BY Zenon, <1>2, <2>2, <4>1, <5>a
        <5>. QED  BY Zenon, <5>1
      <4>2. CASE k = n
        BY <1>1, <1>3, <4>2 DEF RecoveryInv, SlotsInv
      <4>. QED  BY <1>2, <4>1, <4>2
    <3>2. slots'[n] = checkpoint' /\ slots'[m].gen = checkpoint'.gen + 1 /\ checkpoint'.fence < slots'[m].fence
      BY <1>1, <1>2, <1>3, <1>4, <2>2
    <3>3. checkpoint'.gen % 2 = n /\ 1 - (checkpoint'.gen % 2) = m
      BY <1>1, <1>2
    <3>. QED  BY <3>1, <3>2, <3>3 DEF SlotsInv
  <2>. QED  BY <1>3, <2>1, <2>2
<1>6. AckInv'
  BY <1>1 DEF AckInv
<1>7. Acked' = Acked /\ Contiguous' = Contiguous /\ SegmentFull' = SegmentFull
  BY <1>1 DEF Acked, Contiguous, SegmentFull
<1>8. SegmentsInv'
  BY <1>1, <1>7 DEF RecoveryInv, SegmentsInv
<1>. QED  BY <1>5, <1>6, <1>8 DEF RecoveryInv

\* The new active segment begins where the full one ends.
LEMMA RecoveryCreate ==
  ASSUME TypeOK, RecoveryInv, WriterCreate
  PROVE  RecoveryInv'
<1>1. /\ UNCHANGED <<file, slots, phase, offset, checkpoint, apc, afence>>
      /\ phase = "up" /\ wpc = "create" /\ wpc' = "write" /\ seg' = seg + 1 /\ segs' = segs \cup {seg + 1}
  BY DEF WriterCreate, ackVars, processVars
<1>2. /\ seg \in Nat /\ segs \subseteq Nat /\ Len(file) \in Nat /\ seg \in segs
      /\ offset = Len(file) /\ offset = seg * SegmentRecords /\ \A s \in segs : s <= seg + 1
  BY <1>1, ProcessFacts DEF RecoveryInv, SegmentsInv, SegmentFull
<1>3. /\ ((seg + 1) - 1) * SegmentRecords = Len(file) /\ Len(file) <= (seg + 1) * SegmentRecords
      /\ \A s \in segs : s \in Nat /\ s \in Int
  BY <1>2, SegmentArithmetic
<1>4. \A s \in segs' : (s - 1) * SegmentRecords <= Len(file)
  BY Zenon, <1>1, <1>2, <1>3 DEF RecoveryInv, SegmentsInv
<1>5. Contiguous => Contiguous'
  <2>. SUFFICES ASSUME Contiguous, NEW s \in segs', NEW t \in segs', NEW u \in s..t PROVE u \in segs'
    BY DEF Contiguous
  <2>2. CASE u = seg + 1
    BY <1>1, <2>2
  <2>3. CASE u # seg + 1
    BY <1>1, <1>2, <2>3 DEF Contiguous
  <2>. QED  BY <2>2, <2>3
<1>6. Acked' = Acked /\ SlotsInv' /\ AckInv'
  BY <1>1 DEF RecoveryInv, SlotsInv, AckInv, Acked
<1>7. SegmentsInv'
  BY <1>1, <1>3, <1>2, <1>5, <1>6, <1>4 DEF RecoveryInv, SegmentsInv
<1>. QED  BY <1>6, <1>7 DEF RecoveryInv

\* A failed write changes nothing here; a failed creation may leave its file.
LEMMA RecoveryFails ==
  ASSUME TypeOK, RecoveryInv, WriterFails
  PROVE  RecoveryInv'
<1>1. /\ UNCHANGED <<file, slots, phase, offset, seg, checkpoint, apc, afence>>
      /\ phase = "up" /\ wpc' # "create"
      /\ segs' = segs \/ (wpc = "create" /\ segs' = segs \cup {seg + 1})
  BY DEF WriterFails, BatchFailed, Back, Writing, posVars, ackVars, processVars
<1>2. CASE segs' = segs
  BY <1>1, <1>2, RecoveryFrame
<1>3. CASE wpc = "create" /\ segs' = segs \cup {seg + 1}
  <2>2. /\ seg \in Nat /\ segs \subseteq Nat /\ Len(file) \in Nat /\ seg \in segs
        /\ offset = Len(file) /\ offset = seg * SegmentRecords /\ \A s \in segs : s <= seg + 1
    BY <1>1, <1>3, ProcessFacts DEF RecoveryInv, SegmentsInv, SegmentFull
  <2>3. ((seg + 1) - 1) * SegmentRecords = Len(file)
    BY <2>2, SegmentArithmetic
  <2>4. \A s \in segs' : (s - 1) * SegmentRecords <= Len(file)
    BY Zenon, <1>3, <2>2, <2>3 DEF RecoveryInv, SegmentsInv
  <2>5. Contiguous => Contiguous'
    <3>. SUFFICES ASSUME Contiguous, NEW s \in segs', NEW t \in segs', NEW u \in s..t PROVE u \in segs'
      BY DEF Contiguous
    <3>2. CASE u = seg + 1
      BY <1>3, <3>2
    <3>3. CASE u # seg + 1
      BY <1>3, <2>2, <3>3 DEF Contiguous
    <3>. QED  BY <3>2, <3>3
  <2>6. Acked' = Acked /\ SlotsInv' /\ AckInv'
    BY <1>1 DEF RecoveryInv, SlotsInv, AckInv, Acked
  <2>7. SegmentsInv'
    BY <1>1, <1>3, <2>2, SegmentArithmetic, <2>5, <2>6, <2>4 DEF RecoveryInv, SegmentsInv
  <2>. QED  BY <2>6, <2>7 DEF RecoveryInv
<1>. QED  BY <1>1, <1>2, <1>3

\* A frame goes to the active segment.
LEMMA RecoveryWrite ==
  ASSUME TypeOK, RecoveryInv, WriterWrite
  PROVE  RecoveryInv'
<1>1. PICK r : file' = Append(file, r)
  BY DEF WriterWrite
<1>2. /\ UNCHANGED <<segs, seg, slots, phase, checkpoint, apc, afence>>
      /\ phase = "up" /\ wpc' = "write" /\ offset' = offset + 1 /\ ~SegmentFull
  BY DEF WriterWrite, Writing, ackVars, processVars
<1>3. /\ seg \in Nat \ {0} /\ Len(file) \in Nat /\ seg \in segs /\ offset = Len(file) /\ offset < seg * SegmentRecords
      /\ (seg - 1) * SegmentRecords <= Len(file) /\ seg * SegmentRecords \in Nat
  <2>1. seg \in segs /\ offset = Len(file) /\ offset <= seg * SegmentRecords /\ (seg - 1) * SegmentRecords <= Len(file)
    BY <1>2 DEF RecoveryInv, SegmentsInv
  <2>2. seg \in Nat \ {0} /\ Len(file) \in Nat
    BY <2>1, ProcessFacts
  <2>. QED  BY <2>1, <2>2, <1>2, SegmentArithmetic DEF SegmentFull
<1>4. Len(file') = Len(file) + 1 /\ DOMAIN file' = DOMAIN file \cup {Len(file) + 1}
  BY <1>1, <1>3, ProcessFacts
<1>6. Acked' = Acked /\ Contiguous' = Contiguous /\ SlotsInv' /\ AckInv'
  <2>. QED  BY <1>2, <1>3, SlotFacts DEF RecoveryInv, SlotsInv, Acked, Contiguous, AckInv
<1>7. SegmentsInv'
  <2>1. \A s \in segs' : (s - 1) * SegmentRecords <= Len(file')
    <3>1. \A s \in segs : (s - 1) * SegmentRecords <= Len(file) /\ s \in Nat
      BY ProcessFacts DEF RecoveryInv, SegmentsInv
    <3>. QED  BY <1>2, <1>3, <1>4, <3>1, SegmentArithmetic
  <2>3. \A p \in DOMAIN file' : SegmentOf(p) \notin segs' => p <= Acked'
    BY <1>2, <1>3, <1>4, SegmentOfNext, <1>6 DEF RecoveryInv, SegmentsInv
  <2>. QED  BY <1>2, <2>1, <1>3, <1>4, <2>3, <1>6 DEF SegmentsInv, RecoveryInv
<1>. QED  BY <1>6, <1>7 DEF RecoveryInv

\* What pruneAcked removes lies behind the stored checkpoint.
LEMMA RecoveryPrune ==
  ASSUME TypeOK, RecoveryInv, pruneAcked
  PROVE  RecoveryInv'
<1>1. /\ UNCHANGED <<file, slots, phase, offset, seg, checkpoint, wpc>>
      /\ phase = "up" /\ apc = "prune" /\ apc' = "idle"
  BY DEF pruneAcked, posVars, writerVars, processVars
<1>2. PICK removed \in SUBSET Prunable : segs' = segs \ removed /\ ("remove" \notin Faults => removed = Prunable)
  BY Zenon DEF pruneAcked
<1>. DEFINE b == SegmentOf(afence)
<1>3. /\ afence = checkpoint.fence /\ Acked = afence /\ Acked' = afence /\ afence \in Nat
      /\ afence <= seg * SegmentRecords /\ seg \in segs /\ seg \in Nat /\ segs \subseteq Nat \ {0}
  <2>a. afence \in Nat /\ offset \in Nat /\ seg \in Nat /\ segs \subseteq Nat \ {0}
    BY SlotFacts, ProcessFacts
  <2>. QED  BY <1>1, <2>a, SegmentArithmetic DEF Acked, RecoveryInv, AckInv, SegmentsInv
<1>4. b \in Nat /\ b <= seg /\ RetainSegments \in Nat \ {0}
  BY <1>3, SegmentOfMono, SegmentOfBound, SizeAssumption
<1>. HIDE DEF b
<1>5. \A s \in removed : s \in segs /\ s < b - RetainSegments
  BY DEF Prunable, b
<1>6. seg \in segs'
  BY <1>2, <1>3, <1>4, <1>5
<1>7. ASSUME "remove" \notin Faults PROVE Contiguous'
  <2>1. removed = Prunable /\ Contiguous
    BY <1>2, <1>7 DEF RecoveryInv, SegmentsInv
  <2>. SUFFICES ASSUME NEW s \in segs', NEW t \in segs', NEW u \in s..t PROVE u \in segs'
    BY DEF Contiguous
  <2>. QED  BY <1>3, <1>4, <1>2, <2>1 DEF Contiguous, Prunable, b
<1>8. ASSUME NEW p \in DOMAIN file, SegmentOf(p) \notin segs' PROVE p <= afence
  <2>1. p \in Nat
    BY ProcessFacts
  <2>2. CASE SegmentOf(p) \notin segs
    BY <1>3, <2>2 DEF RecoveryInv, SegmentsInv
  <2>3. CASE SegmentOf(p) \in segs
    <3>a. SegmentOf(p) \in removed
      BY <1>2, <1>8, <2>3
    <3>1. SegmentOf(p) < b /\ SegmentOf(p) \in Nat
      BY <1>4, <1>5, <3>a, <2>1, SegmentOfMono
    <3>2. ~(afence <= p)
      BY <1>3, <1>4, <2>1, <3>1, SegmentOfMono DEF b
    <3>. QED  BY <1>3, <2>1, <3>2
  <2>. QED  BY <2>2, <2>3
<1>9. ASSUME 1 \notin segs' PROVE afence > 0
  <2>1. CASE 1 \notin segs
    BY <1>3, <2>1 DEF RecoveryInv, SegmentsInv
  <2>2. CASE 1 \in segs
    <3>1. b > 0
      BY <1>2, <1>4, <1>5, <1>9, <2>2
    <3>2. afence # 0
      BY <1>4, <3>1, SegmentOfBound, SegmentArithmetic DEF b
    <3>. QED  BY <1>3, <3>2
  <2>. QED  BY <2>1, <2>2
<1>10. SegmentsInv'
  BY <1>2, <1>1, <1>3, <1>6, <1>7, <1>8, <1>9 DEF RecoveryInv, SegmentsInv, SegmentFull
<1>. QED  BY <1>10, <1>1 DEF RecoveryInv, SlotsInv, AckInv

\* The process dies: the slots, the log and its segments stay.
LEMMA RecoveryCrash ==
  ASSUME TypeOK, RecoveryInv, phase = "up", Forget, UNCHANGED <<segs, slots>>,
         NEW k \in 0..Len(file), file' = file \/ file' = SubSeq(file, 1, k), Len(file') = k,
         \A s \in segs : (s - 1) * SegmentRecords <= k
  PROVE  RecoveryInv'
<1>1. phase' = "down" /\ apc' = "idle" /\ wpc' = "loop"
  BY DEF Forget
<1>3. /\ Acked = checkpoint.fence /\ Acked' = loadCheckpoint.fence /\ Acked <= Acked'
      /\ Acked \in Nat /\ Acked' \in Nat
  BY <1>1, SlotFacts, LoadsNewest DEF RecoveryInv, Acked, loadCheckpoint
<1>4. /\ file \in Seq(DOMAIN recs) /\ Len(file) \in Nat /\ DOMAIN file' \subseteq DOMAIN file /\ DOMAIN file = 1..Len(file)
      /\ segs \subseteq Nat
  BY ProcessFacts
<1>5. \E s \in segs : Len(file') <= s * SegmentRecords
  <2>1. PICK s \in segs : Len(file) <= s * SegmentRecords
    BY DEF RecoveryInv, SegmentsInv
  <2>. QED  BY <1>4, <2>1, SegmentArithmetic
<1>6. \A p \in DOMAIN file' : SegmentOf(p) \notin segs => p <= Acked'
  <2>. SUFFICES ASSUME NEW p \in DOMAIN file', SegmentOf(p) \notin segs PROVE p <= Acked'
    OBVIOUS
  <2>. QED  BY <1>3, <1>4 DEF RecoveryInv, SegmentsInv
<1>9. SegmentsInv'
  BY <1>1, <1>5, <1>6, <1>3 DEF SegmentsInv, RecoveryInv, Contiguous
<1>. QED  BY <1>1, <1>9 DEF RecoveryInv, SlotsInv, AckInv

LEMMA RecoveryProcessCrash ==
  ASSUME TypeOK, RecoveryInv, ProcessCrash
  PROVE  RecoveryInv'
<1>1. /\ phase = "up" /\ Forget /\ UNCHANGED <<segs, slots>> /\ file' = file
      /\ Len(file) \in 0..Len(file) /\ Len(file') = Len(file)
  BY ProcessFacts DEF ProcessCrash
<1>. QED  BY <1>1, RecoveryCrash DEF RecoveryInv, SegmentsInv

\* A power loss cuts the log where it was not stable, which is in its last segment.
LEMMA RecoveryPowerLoss ==
  ASSUME TypeOK, RecoveryInv, SegmentsStable, PowerLoss
  PROVE  RecoveryInv'
<1>1. PICK k \in stable..Len(file) : file' = SubSeq(file, 1, k)
  BY DEF PowerLoss
<1>3. k \in 0..Len(file) /\ Len(file') = k /\ stable <= k /\ stable \in Nat /\ k \in Nat /\ segs \subseteq Nat
  BY <1>1, ProcessFacts
<1>4. \A s \in segs : (s - 1) * SegmentRecords <= k
  <2>. SUFFICES ASSUME NEW s \in segs PROVE (s - 1) * SegmentRecords <= k
    OBVIOUS
  <2>. QED  BY <1>3, SegmentArithmetic DEF SegmentsStable
<1>. QED  BY <1>1, <1>3, <1>4, RecoveryCrash DEF PowerLoss

\* Open goes on from the newest checkpoint, in the last segment.
LEMMA RecoveryOpen ==
  ASSUME TypeOK, RecoveryInv, Open \/ OpenRefused
  PROVE  RecoveryInv'
<1>1. UNCHANGED <<file, segs, slots, apc, afence, wpc>> /\ phase = "down" /\ wpc # "create" /\ apc = "idle"
  BY DEF Open, OpenRefused, diskVars, writerVars, ackVars, RecoveryInv, SegmentsInv, AckInv
<1>3. Acked' = Acked
  <2>1. CASE phase' = "up" /\ checkpoint' = loadCheckpoint
    BY <1>1, <2>1 DEF Acked
  <2>2. CASE phase' = "refused"
    BY <1>1, <2>2 DEF Acked, loadCheckpoint
  <2>. QED  BY <2>1, <2>2 DEF Open, OpenRefused
<1>4. SlotsInv'
  <2>1. CASE OpenRefused
    BY <1>1, <2>1 DEF OpenRefused, RecoveryInv, SlotsInv
  <2>2. CASE Open
    <3>1. checkpoint' = loadCheckpoint
      BY <2>2 DEF Open
    <3>. DEFINE zero == [gen |-> 0, fence |-> 0]
    <3>2. /\ slots[0].gen \in Nat /\ slots[1].gen \in Nat /\ zero.gen = 0
          /\ (slots[0].gen > 0 /\ slots[0].gen % 2 = 0) \/ slots[0] = zero
          /\ (slots[1].gen > 0 /\ slots[1].gen % 2 = 1) \/ slots[1] = zero
      BY SlotFacts DEF RecoveryInv, SlotsInv
    <3>. HIDE DEF zero
    <3>3. CASE slots[0].gen > slots[1].gen
      BY <3>3, <3>2, <3>1, <1>1 DEF loadCheckpoint, RecoveryInv, SlotsInv
    <3>4. CASE slots[1].gen > slots[0].gen
      BY <3>2, <3>4, <3>1, <1>1 DEF loadCheckpoint, RecoveryInv, SlotsInv
    <3>5. CASE slots[0].gen = slots[1].gen
      BY <3>2, <3>5, <3>1, <1>1 DEF loadCheckpoint, RecoveryInv, SlotsInv
    <3>. QED  BY <3>2, <3>3, <3>4, <3>5
  <2>. QED  BY <2>1, <2>2
<1>6. phase' = "up" => /\ offset' = Len(file') /\ seg' \in segs' /\ offset' <= seg' * SegmentRecords
                      /\ \A s \in segs' : s <= seg' + 1
  <2>. SUFFICES ASSUME Open PROVE /\ offset' = Len(file') /\ seg' \in segs' /\ offset' <= seg' * SegmentRecords
                                  /\ \A s \in segs' : s <= seg' + 1
    BY DEF OpenRefused
  <2>1. offset' = Len(file) /\ seg' \in segs /\ \A t \in segs : t <= seg'
    BY DEF Open, IsLastSegment
  <2>2. PICK s \in segs : Len(file) <= s * SegmentRecords
    BY DEF RecoveryInv, SegmentsInv
  <2>3. s \in Nat /\ seg' \in Nat /\ s <= seg' /\ Len(file) \in Nat /\ segs \subseteq Nat
    BY <2>1, ProcessFacts
  <2>4. s * SegmentRecords <= seg' * SegmentRecords /\ s * SegmentRecords \in Nat /\ seg' * SegmentRecords \in Nat
    BY Zenon, <2>3, SegmentArithmetic
  <2>5. offset' <= seg' * SegmentRecords
    BY <2>1, <2>2, <2>3, <2>4
  <2>6. ASSUME NEW t \in segs PROVE t <= seg' + 1
    <3>1. t \in Nat /\ t <= seg' /\ seg' \in Nat
      BY <2>1, <2>3
    <3>2. \A a, b \in Nat : a <= b => a <= b + 1
      OBVIOUS
    <3>. QED  BY Zenon, <3>1, <3>2
  <2>. QED  BY <1>1, <2>1, <2>5, <2>6
<1>7. SegmentsInv'
  BY <1>1, <1>3, <1>6 DEF RecoveryInv, SegmentsInv, Contiguous
<1>. QED  BY <1>1, <1>4, <1>7 DEF RecoveryInv, AckInv

\* Every step keeps RecoveryInv, with what durability says of a power loss.
LEMMA RecoveryStep ==
  ASSUME TypeOK, RecoveryInv, "power" \in CrashKinds => SegmentsStable, [Next]_vars
  PROVE  RecoveryInv'
<1>1. CASE UNCHANGED vars
  BY <1>1, RecoveryFrame DEF vars
<1>2. ASSUME NEW c \in Clients, ClientStep(c) \/ ClientChoice(c) PROVE RecoveryInv'
  BY <1>2, RecoveryClient
<1>3. CASE WriterStep \/ WriterTick \/ Close
  BY <1>3, RecoveryQuietWriter, RecoveryCreate, RecoveryWrite, RecoveryFails DEF WriterStep
<1>4. CASE Ack \/ AckStep
  BY <1>4, RecoveryAck, RecoveryStore, RecoveryStoreFails, RecoveryPrune DEF AckStep
<1>5. CASE PowerLoss
  BY Zenon, <1>5, RecoveryPowerLoss DEF PowerLoss
<1>6. CASE ProcessCrash \/ Open \/ OpenRefused
  BY <1>6, RecoveryProcessCrash, RecoveryOpen
<1>. QED  BY <1>1, <1>2, <1>3, <1>4, <1>5, <1>6 DEF Next

LEMMA RecoveryInit == Init => RecoveryInv
<1>. SUFFICES ASSUME Init PROVE RecoveryInv
  OBVIOUS
<1>. QED  BY SegmentArithmetic DEF RecoveryInv, AckInv, SegmentsInv, Contiguous, SlotsInv, Init

\* What is missing of the log was acknowledged.
LEMMA PrunedAcked == TypeOK /\ RecoveryInv => PruneAcked
<1>. SUFFICES ASSUME TypeOK, RecoveryInv, NEW p \in DOMAIN file, SegmentOf(p) \notin segs
              PROVE  p <= loadCheckpoint.fence
  BY DEF PruneAcked
<1>a. p \in Nat
  BY ProcessFacts
<1>1. p <= Acked
  BY DEF RecoveryInv, SegmentsInv
<1>. QED  BY <1>a, <1>1, SlotFacts, LoadsNewest DEF Acked, RecoveryInv

\* Nothing is refused yet.
LEMMA OpenInit == Init => OpenAccepts
BY DEF Init, OpenAccepts

\* Every step keeps OpenAccepts.
LEMMA OpenStep ==
  ASSUME "process" \notin CrashKinds, "remove" \notin Faults, TypeOK, DurableInv, RecoveryInv, OpenAccepts, [Next]_vars
  PROVE  OpenAccepts'
<1>. SUFFICES ASSUME phase' = "refused" PROVE corrupt'
  BY DEF OpenAccepts
<1>1. CASE UNCHANGED vars
  BY <1>1 DEF OpenAccepts, vars
<1>2. CASE OpenRefused
  <2>3. loadCheckpoint.fence <= stable
    BY SlotFacts DEF DurableInv, CheckpointStable
  <2>a. loadCheckpoint.fence \in Nat /\ stable \in Nat /\ Len(file) \in Nat /\ stable <= Len(file)
    BY SlotFacts, ProcessFacts
  <2>4. loadCheckpoint.fence <= Len(file)
    BY ONLY <2>3, <2>a
  <2>. QED  BY <1>2, <2>4 DEF Recoverable, RecoveryInv, SegmentsInv, Acked, OpenRefused, diskVars
<1>3. CASE Open \/ ProcessCrash \/ PowerLoss
  BY <1>3 DEF Open, ProcessCrash, PowerLoss, Forget
<1>4. CASE WriterStep \/ WriterTick \/ Close \/ Ack \/ AckStep
  <2>1. phase = "up" /\ phase' = phase
    BY Zenon, <1>4 DEF WriterStep, WriterTick, Close, Ack, AckStep, WriterTake, WriterCollect, WriterDrain, WriterRefuse,
       WriterAdmit, WriterRotate, WriterCreate, WriterWrite, WriterFails, WriterFinish, WriterStop, WriterCloseActive,
       WriterExit, Writing, storeCheckpoint, storeCheckpointFails, pruneAcked, processVars
  <2>. QED  BY <2>1
<1>5. ASSUME NEW c \in Clients, ClientStep(c) \/ ClientChoice(c) PROVE phase = "up" /\ phase' = phase
  BY SMTT(30), <1>5 DEF ClientStep, ClientChoice, AppendSend, AppendReturn, EnqueueRefuse, EnqueueCheck, EnqueueSend,
     EnqueueRegister, SyncBoundary, SyncCheck, SyncSend, SyncReply, SyncFlush, SyncReturn, AppendBegin,
     AppendCancel, EnqueueReserve, SyncBegin, SyncCancel, At, processVars
<1>. QED  BY <1>1, <1>2, <1>3, <1>4, <1>5 DEF Next
=============================================================================
