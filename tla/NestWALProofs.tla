--------------------------- MODULE NestWALProofs ----------------------------
(***************************************************************************)
(* Every step of the log keeps the types.                                  *)
(***************************************************************************)
EXTENDS NestWALFacts

\* What the parts of TypeOK are over.
LEMMA TypeUnchanged ==
  /\ TypeOK /\ UNCHANGED <<recs, file, stable, segs, slots, corrupt>> => DiskType'
  /\ TypeOK /\ UNCHANGED <<recs, file, phase, closed, terminal, unsynced, offset, seg, writtenLSN, durableLSN,
                           nextLSN, reserved, tickets>> => ProcessType'
  /\ TypeOK /\ UNCHANGED <<recs, queue, batch, wpc, todo, draining>> => WriterType'
  /\ TypeOK /\ UNCHANGED <<checkpoint, apc, afence>> => AckType'
  /\ TypeOK /\ UNCHANGED <<recs, cl>> => ClientType'
  /\ TypeOK /\ UNCHANGED <<recs, crashes>> => HistoryType'
<1>1. TypeOK /\ UNCHANGED <<recs, file, stable, segs, slots, corrupt>> => DiskType'
  BY DEF TypeOK, DiskType
<1>3. TypeOK /\ UNCHANGED <<recs, queue, batch, wpc, todo, draining>> => WriterType'
  BY DEF TypeOK, WriterType, Requests
<1>. QED  BY <1>1, <1>3 DEF TypeOK, HistoryType, ClientType, ClientStates, AckType, ProcessType

\* A caller that moves on or returns keeps the callers typed.
LEMMA ClientUpdate ==
  ASSUME TypeOK, NEW c \in Clients, UNCHANGED recs
  PROVE  /\ \A p \in ClientPCs \ {"register"} : Goto(c, p) => ClientType'
         /\ Return(c) => ClientType'
<1>2. cl \in [Clients -> ClientStates] /\ ClientStates' = ClientStates
  BY DEF TypeOK, ClientType, ClientStates
<1>3. Return(c) => ClientType'
  BY <1>2 DEF TypeOK, ClientType, Return, IdleClient, ClientPCs, ClientStates
<1>4. ASSUME NEW p \in ClientPCs \ {"register"}, Goto(c, p)
      PROVE  ClientType'
  BY <1>2, <1>4 DEF ClientStates, Goto, TypeOK, ClientType
<1>. QED  BY <1>3, <1>4

\* Steps of a caller that touch only the caller itself.
LEMMA ClientStepType ==
  ASSUME TypeOK, NEW c \in Clients,
         \/ AppendBegin(c) \/ AppendCancel(c) \/ AppendReturn(c) \/ EnqueueCheck(c)
         \/ SyncBegin(c) \/ SyncBoundary(c) \/ SyncCheck(c) \/ SyncReturn(c)
  PROVE  TypeOK'
<1>1. UNCHANGED <<diskVars, syncVars, posVars, writerVars, ackVars, processVars, closed, nextLSN, reserved, queue>>
  BY DEF AppendBegin, AppendCancel, AppendReturn, EnqueueCheck, SyncBegin, SyncBoundary, SyncCheck, SyncReturn
<1>2. DiskType' /\ ProcessType' /\ WriterType' /\ AckType' /\ HistoryType'
  BY <1>1, TypeUnchanged DEF diskVars, syncVars, posVars, writerVars, ackVars, processVars
<1>3. ClientType'
  <2>1. CASE SyncBegin(c)
    <3>1. [cl[c] EXCEPT !.pc = "syncRead", !.promised = Promised] \in ClientStates
      BY Zenon DEF TypeOK, ClientType, ClientStates, ClientPCs, Promised
    <3>2. cl' = [cl EXCEPT ![c] = [cl[c] EXCEPT !.pc = "syncRead", !.promised = Promised]]
      BY Zenon, <2>1 DEF SyncBegin
    <3>. QED  BY <1>1, <3>1, <3>2 DEF TypeOK, ClientType, ClientStates, syncVars
  <2>2. CASE SyncBoundary(c)
    <3>1. [cl[c] EXCEPT !.pc = "syncCheck", !.boundary = nextLSN] \in ClientStates
      BY Zenon DEF TypeOK, ProcessType, ClientType, ClientStates, ClientPCs
    <3>2. cl' = [cl EXCEPT ![c] = [cl[c] EXCEPT !.pc = "syncCheck", !.boundary = nextLSN]]
      BY Zenon, <2>2 DEF SyncBoundary
    <3>. QED  BY <1>1, <3>1, <3>2 DEF TypeOK, ClientType, ClientStates, syncVars
  <2>3. CASE ~SyncBegin(c) /\ ~SyncBoundary(c)
    BY <2>3, <1>1, ClientUpdate DEF AppendBegin, AppendCancel, AppendReturn, EnqueueCheck, SyncCheck, SyncReturn,
       ClientPCs, syncVars
  <2>. QED  BY <2>1, <2>2, <2>3
<1>. QED  BY <1>2, <1>3 DEF TypeOK

\* A submission leaves every reference to an earlier record valid.
LEMMA SubmitType ==
  ASSUME TypeOK, NEW c \in Clients, NEW kind \in Kinds, NEW lsn \in Nat, NEW next \in ClientPCs,
         Submit(c, kind, lsn, next)
  PROVE  /\ recs' \in Seq(Record) /\ Len(recs') = Len(recs) + 1
         /\ DOMAIN recs \subseteq DOMAIN recs' /\ Requests \subseteq Requests'
         /\ queue' \in Seq(Requests') /\ ClientType'
<1>a. recs \in Seq(Record) /\ crashes \in Nat /\ queue \in Seq(Requests) /\ cl \in [Clients -> ClientStates]
  BY DEF TypeOK, HistoryType, WriterType, ClientType
<1>2. recs' \in Seq(Record) /\ Len(recs') = Len(recs) + 1
  BY <1>a, AppendType DEF Submit, Record, Outcomes
<1>3. DOMAIN recs \subseteq DOMAIN recs' /\ Len(recs) + 1 \in DOMAIN recs'
  BY <1>a, <1>2
<1>4. Requests \subseteq Requests' /\ ClientStates \subseteq ClientStates'
  BY <1>3 DEF Requests, ClientStates
<1>5. Request(Len(recs) + 1) \in Requests'
  BY <1>3 DEF Request, Requests
<1>6. queue' \in Seq(Requests')
  BY <1>a, <1>4, SeqSubset, <1>5, AppendType DEF Submit
<1>7. ClientType'
  <2>1. [cl[c] EXCEPT !.pc = next, !.rec = Len(recs) + 1] \in ClientStates'
    <3>1. cl[c] \in ClientStates'
      BY <1>a, <1>4
    <3>. QED  BY Zenon, <3>1, <1>3 DEF ClientStates
  <2>2. cl' = [cl EXCEPT ![c] = [cl[c] EXCEPT !.pc = next, !.rec = Len(recs) + 1]]
    BY Zenon DEF Submit
  <2>. QED  BY <1>a, <1>4, <2>1, <2>2 DEF TypeOK, ClientType, ClientStates
<1>. QED  BY <1>2, <1>3, <1>4, <1>6, <1>7

\* A send of Append or Enqueue: one record more, one request more in the channel.
LEMMA SendType ==
  ASSUME TypeOK, NEW c \in Clients, AppendSend(c) \/ EnqueueSend(c)
  PROVE  TypeOK'
<1>1. \E kind \in Kinds, lsn \in Nat, next \in ClientPCs : Submit(c, kind, lsn, next)
  BY DEF TypeOK, ProcessType, AppendSend, EnqueueSend, Kinds, ClientPCs
<1>2. /\ recs' \in Seq(Record) /\ Len(recs') = Len(recs) + 1
      /\ DOMAIN recs \subseteq DOMAIN recs' /\ Requests \subseteq Requests'
      /\ queue' \in Seq(Requests') /\ ClientType'
  BY <1>1, SubmitType
<1>3. /\ UNCHANGED <<diskVars, posVars, writerVars, ackVars, processVars, stable, unsynced,
                     terminal, durableLSN, tickets, closed, reserved>>
      /\ nextLSN' \in {nextLSN, nextLSN + 1}
  BY DEF AppendSend, EnqueueSend
<1>4. DiskType'
  <2>. QED  BY <1>3, <1>2, SeqSubset DEF TypeOK, DiskType, diskVars
<1>5. ProcessType'
  BY <1>2, SeqSubset, <1>3 DEF TypeOK, ProcessType, diskVars, posVars, processVars
<1>7. AckType' /\ HistoryType'
  BY <1>2, <1>3 DEF TypeOK, AckType, HistoryType, ackVars, processVars
<1>. QED  BY <1>2, <1>4, <1>5, SeqSubset, <1>3, <1>7 DEF TypeOK, WriterType, writerVars

\* Enqueue around its send: the reservation, its refusal, the registration.
LEMMA EnqueueType ==
  ASSUME TypeOK, NEW c \in Clients, EnqueueReserve(c) \/ EnqueueRefuse(c) \/ EnqueueRegister(c)
  PROVE  TypeOK'
<1>1. /\ UNCHANGED <<diskVars, posVars, writerVars, ackVars, processVars, closed, nextLSN, queue>>
      /\ UNCHANGED <<stable, unsynced, terminal, durableLSN, recs>>
  BY DEF EnqueueReserve, EnqueueRefuse, EnqueueRegister, syncVars
<1>2. DiskType' /\ WriterType' /\ AckType' /\ HistoryType'
  BY <1>1, TypeUnchanged DEF diskVars, writerVars, ackVars, processVars
<1>3. reserved' \in Int /\ tickets' \in Seq(DOMAIN recs)
  <2>1. CASE EnqueueReserve(c) \/ EnqueueRefuse(c)
    BY <2>1 DEF EnqueueReserve, EnqueueRefuse, syncVars, TypeOK, ProcessType
  <2>2. CASE EnqueueRegister(c)
    BY <2>2, AppendType DEF EnqueueRegister, At, TypeOK, ClientType, ClientStates, ProcessType
  <2>. QED  BY <2>1, <2>2
<1>4. ProcessType'
  BY <1>1, <1>3 DEF TypeOK, ProcessType, diskVars, posVars, processVars
<1>5. ClientType'
  BY <1>1, ClientUpdate DEF EnqueueReserve, EnqueueRefuse, EnqueueRegister, ClientPCs
<1>. QED  BY <1>2, <1>4, <1>5 DEF TypeOK

\* Answering the barriers of a batch keeps the callers typed.
LEMMA AnsweredType ==
  ASSUME TypeOK, NEW b, NEW res \in {"ok", "err"}, Len(recs') = Len(recs), recs' \in Seq(Record),
         cl' = Answered(b, res)
  PROVE  ClientType'
<1>a. cl \in [Clients -> ClientStates] /\ recs \in Seq(Record)
  BY DEF TypeOK, ClientType, HistoryType
<1>1. ClientStates' = ClientStates
  <2>1. DOMAIN recs' = DOMAIN recs
    BY <1>a
  <2>. QED  BY <2>1 DEF ClientStates
<1>2. \A c \in Clients : /\ [cl[c] EXCEPT !.reply = res] \in ClientStates
                         /\ [cl[c] EXCEPT !.reply = res].pc = cl[c].pc
                         /\ [cl[c] EXCEPT !.reply = res].rec = cl[c].rec
  BY Zenon, <1>a DEF ClientStates
<1>. QED  BY <1>a, <1>1, <1>2 DEF Answered, TypeOK, ClientType

\* The barrier of Sync: send, reply, cancellation.
LEMMA SyncStepType ==
  ASSUME TypeOK, NEW c \in Clients, SyncSend(c) \/ SyncReply(c) \/ SyncCancel(c)
  PROVE  TypeOK'
<1>1. UNCHANGED <<diskVars, syncVars, posVars, ackVars, processVars, closed, nextLSN, reserved, wpc, todo, draining>>
  BY DEF SyncSend, SyncReply, SyncCancel, writerVars
<1>2. DiskType' /\ ProcessType' /\ AckType' /\ HistoryType'
  BY <1>1, TypeUnchanged DEF diskVars, syncVars, posVars, ackVars, processVars
<1>3. WriterType'
  <2>a. queue \in Seq(Requests) /\ batch \in Seq(Requests) /\ Requests' = Requests
    BY <1>1 DEF TypeOK, WriterType, Requests, syncVars
  <2>1. CASE SyncSend(c)
    <3>2. queue' \in Seq(Requests) /\ batch' = batch
      BY <2>1, <2>a, AppendType DEF SyncSend, writerVars, Barrier, Requests
    <3>. QED  BY <1>1, <2>a, <3>2 DEF TypeOK, WriterType
  <2>2. CASE queue' = Abandoned(queue, c) /\ batch' = Abandoned(batch, c)
    <3>1. /\ queue' \in Seq(Requests) /\ batch' \in Seq(Requests) /\ Len(batch') = Len(batch)
          /\ \A i \in DOMAIN batch : batch'[i].rec = batch[i].rec
      BY <2>2, <2>a, AbandonedType
    <3>. QED  BY <1>1, <2>a, <3>1 DEF TypeOK, WriterType
  <2>. QED  BY <2>1, <2>2 DEF SyncReply, SyncCancel
<1>4. ClientType'
  BY <1>1, ClientUpdate DEF SyncSend, SyncReply, SyncCancel, ClientPCs, syncVars
<1>. QED  BY <1>2, <1>3, <1>4 DEF TypeOK

\* A step that does no more to the disk, the process and the history than
\* syncActiveLocked does.
LEMMA SyncedType ==
  ASSUME TypeOK, NEW R \in Seq(Record), Len(R) = Len(recs), NEW result, syncActiveLocked(result, R),
         UNCHANGED <<diskVars, posVars, processVars, closed, nextLSN, reserved>>
  PROVE  /\ DiskType' /\ ProcessType' /\ HistoryType'
         /\ DOMAIN recs' = DOMAIN recs /\ Requests' = Requests /\ ClientStates' = ClientStates
<1>1. /\ stable' \in 0..Len(file) /\ stable <= stable'
      /\ unsynced' \in BOOLEAN /\ terminal' \in BOOLEAN
      /\ durableLSN' \in Nat /\ tickets' \in Seq(DOMAIN recs)
      /\ recs' \in Seq(Record) /\ Len(recs') = Len(recs)
  BY SyncActiveType
<1>2. DOMAIN recs' = DOMAIN recs
  BY <1>1 DEF TypeOK, HistoryType
<1>4. ProcessType'
  BY <1>1, <1>2 DEF TypeOK, ProcessType, diskVars, posVars, processVars
<1>. QED  BY <1>2, <1>1, <1>4 DEF Requests, ClientStates, TypeOK, HistoryType, processVars, DiskType, diskVars

\* The fsync that Sync issues itself.
LEMMA SyncFlushType ==
  ASSUME TypeOK, NEW c \in Clients, SyncFlush(c)
  PROVE  TypeOK'
<1>1. /\ \E result : syncActiveLocked(result, recs)
      /\ UNCHANGED <<diskVars, posVars, writerVars, ackVars, processVars, closed, nextLSN, reserved, queue>>
  BY DEF SyncFlush
<1>2. /\ DiskType' /\ ProcessType' /\ HistoryType'
      /\ Requests' = Requests /\ ClientStates' = ClientStates
  BY <1>1, SyncedType DEF TypeOK, HistoryType
<1>3. WriterType' /\ AckType'
  BY <1>1, <1>2 DEF TypeOK, WriterType, AckType, writerVars, ackVars
<1>4. ClientType'
  <2>1. cl' = [cl EXCEPT ![c] = [cl[c] EXCEPT !.pc = "synced"]] \/ cl' = [cl EXCEPT ![c] = IdleClient]
    BY DEF SyncFlush, Goto, Return
  <2>2. /\ [cl[c] EXCEPT !.pc = "synced"] \in ClientStates /\ [cl[c] EXCEPT !.pc = "synced"].pc = "synced"
        /\ IdleClient \in ClientStates /\ IdleClient.pc = "idle"
    BY DEF TypeOK, ClientType, ClientStates, ClientPCs, IdleClient
  <2>. QED  BY Zenon, <1>2, <2>1, <2>2 DEF TypeOK, ClientType
<1>. QED  BY <1>2, <1>3, <1>4 DEF TypeOK

\* takeQueued, collectBatch and the drain move requests from the channel to the batch.
LEMMA WriterTakeType ==
  ASSUME TypeOK, WriterTake \/ WriterCollect \/ WriterDrain
  PROVE  TypeOK'
<1>1. UNCHANGED <<diskVars, syncVars, posVars, ackVars, processVars, closed, nextLSN, reserved, draining, cl>>
  BY DEF WriterTake, WriterCollect, WriterDrain
<1>2. DiskType' /\ ProcessType' /\ AckType' /\ ClientType' /\ HistoryType'
  BY <1>1, TypeUnchanged DEF diskVars, syncVars, posVars, ackVars, processVars
<1>a. queue \in Seq(Requests) /\ batch \in Seq(Requests) /\ Requests' = Requests
  BY <1>1 DEF TypeOK, WriterType, Requests, syncVars
<1>b. todo = {} /\ todo' = {} /\ wpc' = "collect"
  BY DEF WriterTake, WriterCollect, WriterDrain, TypeOK, WriterType
<1>3. queue' \in Seq(Requests) /\ batch' \in Seq(Requests)
  <2>1. CASE WriterTake
    BY <1>a, <2>1, TailType DEF WriterTake
  <2>2. CASE WriterCollect
    BY <1>a, <2>2, TailType, AppendType DEF WriterCollect
  <2>3. CASE WriterDrain
    <3>1. PICK n \in 1..Len(queue) : batch' = SubSeq(queue, 1, n) /\ queue' = SubSeq(queue, n + 1, Len(queue))
      <4>1. BatchMaxRecords \in Nat \ {0} /\ Len(queue) \in Nat \ {0}
        BY <1>a, <2>3, SizeAssumption, NonEmptyLength DEF WriterDrain
      <4>. DEFINE k == IF Len(queue) < BatchMaxRecords THEN Len(queue) ELSE BatchMaxRecords
      <4>2. batch' = SubSeq(queue, 1, k) /\ queue' = SubSeq(queue, k + 1, Len(queue))
        BY <2>3 DEF WriterDrain
      <4>3. k \in 1..Len(queue)
        BY <4>1
      <4>. HIDE DEF k
      <4>. QED  BY <4>2, <4>3
    <3>. QED  BY <1>a, <3>1, SubSeqType
  <2>. QED  BY <2>1, <2>2, <2>3
<1>4. WriterType'
  BY <1>1, <1>3, <1>a, <1>b DEF TypeOK, WriterType
<1>. QED  BY <1>2, <1>4 DEF TypeOK

\* A step that keeps the log and leaves the history as long as it was.
LEMMA SameLengthType ==
  ASSUME TypeOK, recs' \in Seq(Record), Len(recs') = Len(recs), tickets' \in Seq(DOMAIN recs),
         durableLSN' \in Nat, stable' \in 0..Len(file), unsynced' \in BOOLEAN, terminal' \in BOOLEAN,
         reserved' \in Int, segs' \subseteq Nat \ {0}, seg' \in Nat,
         UNCHANGED <<file, slots, corrupt, offset, writtenLSN, processVars, closed, nextLSN>>
  PROVE  /\ DiskType' /\ ProcessType' /\ HistoryType'
         /\ DOMAIN recs' = DOMAIN recs /\ Requests' = Requests /\ ClientStates' = ClientStates
<1>1. DOMAIN recs' = DOMAIN recs
  BY DEF TypeOK, HistoryType
<1>. QED  BY <1>1 DEF Requests, ClientStates, TypeOK, HistoryType, processVars, ProcessType, DiskType

\* failPendingTickets after a batch was answered keeps the history typed.
LEMMA FailPendingType ==
  ASSUME TypeOK, NEW ids, NEW res \in Outcomes,
         failPendingTickets(Replied(recs, ids, res))
  PROVE  /\ recs' \in Seq(Record) /\ Len(recs') = Len(recs)
         /\ tickets' \in Seq(DOMAIN recs) /\ durableLSN' \in Nat
BY ProcessFacts, RepliedType, SettledType DEF failPendingTickets

\* The writer is done with its batch.
LEMMA BatchDoneType ==
  ASSUME TypeOK, batch' = <<>>, todo' = {}, wpc' = Back, UNCHANGED <<queue, draining>>, Requests' = Requests
  PROVE  WriterType'
BY DEF Back, TypeOK, WriterType

\* processRecords refusing a batch after a terminal error.
LEMMA WriterRefuseType ==
  ASSUME TypeOK, WriterRefuse
  PROVE  TypeOK'
<1>1. UNCHANGED <<file, segs, slots, corrupt, stable, unsynced, terminal, offset, seg, writtenLSN, ackVars,
                  processVars, closed, nextLSN, reserved, queue, todo, draining>>
  BY DEF WriterRefuse, diskVars, posVars
<1>2. /\ recs' \in Seq(Record) /\ Len(recs') = Len(recs)
      /\ tickets' \in Seq(DOMAIN recs) /\ durableLSN' \in Nat
  <2>1. CASE UNCHANGED <<recs, tickets, durableLSN>>
    BY <2>1, ProcessFacts
  <2>2. CASE failPendingTickets(Replied(recs, IdsOf(batch), "err"))
    BY <2>2, FailPendingType DEF Outcomes
  <2>. QED  BY <2>1, <2>2 DEF WriterRefuse
<1>3. /\ DiskType' /\ ProcessType' /\ HistoryType'
      /\ DOMAIN recs' = DOMAIN recs /\ Requests' = Requests /\ ClientStates' = ClientStates
  BY <1>1, <1>2, ProcessFacts, SameLengthType
<1>. QED  BY <1>3, <1>1, TypeUnchanged, BatchDoneType, <1>2, AnsweredType DEF TypeOK, WriterRefuse, WriterType,
       ackVars

\* processRecords admitting a batch under the disk limit.
LEMMA WriterAdmitType ==
  ASSUME TypeOK, Cardinality(Reserved) \in Nat, WriterAdmit
  PROVE  TypeOK'
<1>1. UNCHANGED <<file, segs, slots, corrupt, stable, unsynced, terminal, durableLSN, tickets, offset, seg,
                  writtenLSN, ackVars, processVars, closed, nextLSN, queue, draining>>
  BY DEF WriterAdmit, diskVars, posVars
<1>2. recs' \in Seq(Record) /\ Len(recs') = Len(recs)
  BY ProcessFacts, RepliedType DEF Outcomes, WriterAdmit
<1>4. /\ DiskType' /\ ProcessType' /\ HistoryType'
      /\ DOMAIN recs' = DOMAIN recs /\ Requests' = Requests /\ ClientStates' = ClientStates
  BY <1>1, <1>2, ProcessFacts, SameLengthType DEF WriterAdmit
<1>5. AckType'
  BY <1>1, TypeUnchanged DEF ackVars
<1>6. CASE Admitted = {}
  BY <1>6, <1>1, <1>4, BatchDoneType, <1>2, AnsweredType, <1>5 DEF WriterAdmit, TypeOK, WriterType
<1>7. CASE Admitted # {}
  <2>1. /\ todo' = {p \in DOMAIN batch : batch[p].rec \in Admitted}
        /\ wpc' = "ready" /\ cl' = cl /\ batch' = batch
    BY <1>7 DEF WriterAdmit
  <2>2. 0 \notin Admitted
    BY DEF Admitted, Reserved, IdsOf
  <2>3. WriterType'
    BY Zenon, <1>1, <1>4, <2>1, <2>2 DEF TypeOK, WriterType
  <2>. QED  BY <1>4, <1>5, <2>3, <2>1 DEF TypeOK, ClientType
<1>. QED  BY <1>6, <1>7

\* A step in which the writer calls syncActiveLocked and gives up its batch.
LEMMA SyncedBatchType ==
  ASSUME TypeOK, NEW ids, NEW res \in Outcomes, NEW result,
         syncActiveLocked(result, Replied(recs, ids, res)),
         UNCHANGED <<diskVars, posVars, processVars, closed, nextLSN, reserved>>
  PROVE  /\ DiskType' /\ ProcessType' /\ HistoryType'
         /\ DOMAIN recs' = DOMAIN recs /\ Requests' = Requests /\ ClientStates' = ClientStates
         /\ recs' \in Seq(Record) /\ Len(recs') = Len(recs)
<1>. QED  BY ProcessFacts, RepliedType, SyncActiveType, SyncedType

\* rotateLocked syncing the full segment.
LEMMA WriterRotateType ==
  ASSUME TypeOK, WriterRotate
  PROVE  TypeOK'
<1>1. UNCHANGED <<diskVars, posVars, ackVars, processVars, closed, nextLSN, reserved, queue, draining>>
  BY DEF WriterRotate
<1>2. AckType'
  BY <1>1, TypeUnchanged DEF ackVars
<1>3. CASE syncActiveLocked("nil", recs) /\ wpc' = "create" /\ UNCHANGED <<cl, batch, todo>>
  <2>1. /\ DiskType' /\ ProcessType' /\ HistoryType'
        /\ DOMAIN recs' = DOMAIN recs /\ Requests' = Requests /\ ClientStates' = ClientStates
    BY <1>1, <1>3, ProcessFacts, SyncedType
  <2>2. WriterType' /\ ClientType'
    BY <1>1, <1>3, <2>1 DEF TypeOK, WriterType, ClientType
  <2>. QED  BY <1>2, <2>1, <2>2 DEF TypeOK
<1>4. CASE syncActiveLocked("err", Replied(recs, IdsOf(batch), "err")) /\ BatchFailed
  <2>1. /\ DiskType' /\ ProcessType' /\ HistoryType'
        /\ DOMAIN recs' = DOMAIN recs /\ Requests' = Requests /\ ClientStates' = ClientStates
        /\ recs' \in Seq(Record) /\ Len(recs') = Len(recs)
    BY <1>1, <1>4, SyncedBatchType DEF Outcomes
  <2>2. WriterType'
    BY <1>1, <1>4, <2>1, BatchDoneType DEF BatchFailed
  <2>. QED  BY <1>2, <2>1, <2>2, <1>4, AnsweredType DEF TypeOK, BatchFailed
<1>. QED  BY <1>3, <1>4 DEF WriterRotate

\* The end of writeBatch: the sync it needs and the answers.
LEMMA WriterFinishType ==
  ASSUME TypeOK, WriterFinish
  PROVE  TypeOK'
<1>1. /\ UNCHANGED <<diskVars, posVars, ackVars, processVars, closed, nextLSN, reserved, queue, draining>>
      /\ todo' = {} /\ batch' = <<>> /\ wpc' = Back
  BY DEF WriterFinish
<1>3. PICK res \in {"ok", "err"} :
        /\ cl' = Answered(batch, res)
        /\ \/ \E result : syncActiveLocked(result, Replied(recs, IdsOf(batch), res))
           \/ /\ recs' = Replied(recs, IdsOf(batch), "ok")
              /\ UNCHANGED <<stable, unsynced, terminal, durableLSN, tickets>>
  BY DEF WriterFinish
<1>4. res \in Outcomes /\ "ok" \in Outcomes
  BY DEF Outcomes
<1>5. /\ DiskType' /\ ProcessType' /\ HistoryType' /\ Requests' = Requests
      /\ recs' \in Seq(Record) /\ Len(recs') = Len(recs)
  <2>1. CASE \E result : syncActiveLocked(result, Replied(recs, IdsOf(batch), res))
    BY ZenonT(30), <1>1, <1>4, <2>1, SyncedBatchType
  <2>2. CASE /\ recs' = Replied(recs, IdsOf(batch), "ok")
             /\ UNCHANGED <<stable, unsynced, terminal, durableLSN, tickets>>
    BY <1>4, <2>2, ProcessFacts, RepliedType, <1>1, SameLengthType DEF diskVars, posVars
  <2>. QED  BY <1>3, <2>1, <2>2
<1>6. WriterType'
  BY <1>1, <1>5, BatchDoneType
<1>. QED  BY <1>1, TypeUnchanged, <1>5, <1>6, <1>3, AnsweredType DEF TypeOK, ackVars

\* writeBatch failing to write or to create a segment.
LEMMA WriterFailsType ==
  ASSUME TypeOK, WriterFails
  PROVE  TypeOK'
<1>1. /\ UNCHANGED <<file, slots, corrupt, stable, unsynced, offset, seg, writtenLSN, ackVars, processVars,
                     closed, nextLSN, reserved, queue, draining>>
      /\ terminal' = TRUE
      /\ cl' = Answered(batch, "err") /\ todo' = {} /\ batch' = <<>> /\ wpc' = Back
  BY DEF WriterFails, BatchFailed, posVars
<1>2. segs' \subseteq Nat \ {0}
  <2>. QED  BY ProcessFacts DEF WriterFails
<1>3. "err" \in Outcomes
  BY DEF Outcomes
<1>4. /\ recs' \in Seq(Record) /\ Len(recs') = Len(recs)
      /\ tickets' \in Seq(DOMAIN recs) /\ durableLSN' \in Nat
  <2>1. CASE recs' = Replied(recs, IdsOf(batch), "err") /\ UNCHANGED <<durableLSN, tickets>>
    BY <1>3, <2>1, ProcessFacts, RepliedType
  <2>2. CASE failPendingTickets(Replied(recs, IdsOf(batch), "err"))
    BY <1>3, <2>2, FailPendingType
  <2>. QED  BY <2>1, <2>2 DEF WriterFails
<1>5. /\ DiskType' /\ ProcessType' /\ HistoryType'
      /\ DOMAIN recs' = DOMAIN recs /\ Requests' = Requests /\ ClientStates' = ClientStates
  BY <1>1, <1>2, <1>4, ProcessFacts, SameLengthType
<1>8. ClientType'
  BY <1>1, <1>4, AnsweredType
<1>. QED  BY <1>5, <1>1, TypeUnchanged, BatchDoneType, <1>8 DEF TypeOK, ackVars

\* rotateLocked creating the next segment.
LEMMA WriterCreateType ==
  ASSUME TypeOK, WriterCreate
  PROVE  TypeOK'
<1>1. /\ UNCHANGED <<file, slots, corrupt, stable, unsynced, terminal, durableLSN, tickets, recs, offset,
                     writtenLSN, ackVars, processVars, closed, nextLSN, reserved, queue, batch, todo,
                     draining, cl>>
      /\ seg' = seg + 1 /\ segs' = segs \cup {seg + 1} /\ wpc' = "write" /\ wpc = "create"
  BY DEF WriterCreate, syncVars
<1>2. segs' \subseteq Nat \ {0} /\ seg' \in Nat
  <2>. QED  BY <1>1, ProcessFacts
<1>3. /\ DiskType' /\ ProcessType' /\ HistoryType'
      /\ DOMAIN recs' = DOMAIN recs /\ Requests' = Requests /\ ClientStates' = ClientStates
  BY <1>1, <1>2, ProcessFacts, SameLengthType
<1>. QED  BY <1>3, <1>1, TypeUnchanged DEF TypeOK, WriterType, ackVars

\* writeBatch writing one frame.
LEMMA WriterWriteType ==
  ASSUME TypeOK, WriterWrite
  PROVE  TypeOK'
<1>1. PICK p \in todo :
        /\ file' = Append(file, batch[p].rec)
        /\ todo' = todo \ {p}
        /\ writtenLSN' = IF recs[batch[p].rec].lsn > writtenLSN THEN recs[batch[p].rec].lsn ELSE writtenLSN
  BY DEF WriterWrite
<1>2. /\ offset' = offset + 1 /\ unsynced' = TRUE /\ wpc' = "write"
      /\ UNCHANGED <<stable, segs, slots, corrupt, terminal, durableLSN, tickets, recs, seg, ackVars,
                     processVars, closed, nextLSN, reserved, queue, batch, draining, cl>>
  BY DEF WriterWrite
<1>3. batch[p].rec \in DOMAIN recs
  <2>1. batch \in Seq(Requests) /\ p \in DOMAIN batch /\ batch[p].rec # 0
    BY DEF TypeOK, WriterType
  <2>2. batch[p] \in Requests
    BY <2>1
  <2>. QED  BY <2>1, <2>2 DEF Requests
<1>4. file' \in Seq(DOMAIN recs) /\ Len(file') = Len(file) + 1
  BY <1>1, <1>3, ProcessFacts, AppendType
<1>5. writtenLSN' \in Nat
  <2>1. recs[batch[p].rec] \in Record
    BY <1>3, ProcessFacts
  <2>2. recs[batch[p].rec].lsn \in Nat
    BY <2>1 DEF Record
  <2>. QED  BY <1>1, <2>2, ProcessFacts
<1>6. DiskType'
  <2>1. stable' \in 0..Len(file')
    BY <1>2, <1>4, ProcessFacts
  <2>. QED  BY <1>2, <1>4, <2>1 DEF TypeOK, DiskType
<1>7. ProcessType'
  BY <1>2, <1>4, ProcessFacts, <1>5 DEF TypeOK, ProcessType, processVars
<1>8. WriterType'
  BY <1>1, <1>2 DEF TypeOK, WriterType, Requests
<1>. QED  BY <1>6, <1>7, <1>8, <1>2, TypeUnchanged DEF TypeOK, ackVars, processVars

\* WriterTick, WriterCloseActive and Ack do no more than syncActiveLocked.
LEMMA TickType ==
  ASSUME TypeOK, WriterTick \/ WriterCloseActive \/ Ack
  PROVE  TypeOK'
<1>1. /\ \E result : syncActiveLocked(result, recs)
      /\ UNCHANGED <<diskVars, posVars, processVars, closed, nextLSN, reserved, queue, batch, todo, draining, cl,
                     checkpoint>>
  BY DEF WriterTick, WriterCloseActive, Ack, writerVars, ackVars
<1>2. /\ DiskType' /\ ProcessType' /\ HistoryType'
      /\ DOMAIN recs' = DOMAIN recs /\ Requests' = Requests /\ ClientStates' = ClientStates
  BY <1>1, ProcessFacts, SyncedType
<1>3. ClientType'
  BY ZenonT(30), <1>1, <1>2 DEF TypeOK, ClientType
<1>4. WriterType'
  BY <1>1, <1>2 DEF WriterTick, WriterCloseActive, Ack, writerVars, TypeOK, WriterType
<1>5. AckType'
  <2>1. \/ UNCHANGED <<apc, afence>>
        \/ apc' = "store" /\ \E fence \in checkpoint.fence + 1 .. offset : afence' = fence
    BY DEF WriterTick, WriterCloseActive, Ack, writerVars, ackVars
  <2>3. afence' \in Nat
    <3>2. ASSUME NEW fence \in checkpoint.fence + 1 .. offset PROVE fence \in Nat
      BY ProcessFacts DEF TypeOK, AckType
    <3>. QED  BY <2>1, <3>2 DEF TypeOK, AckType
  <2>. QED  BY <1>1, <2>1, <2>3 DEF TypeOK, AckType
<1>. QED  BY <1>2, <1>3, <1>4, <1>5 DEF TypeOK

\* Close, and the writer leaving its loop.
LEMMA StopType ==
  ASSUME TypeOK, Close \/ WriterStop \/ WriterExit
  PROVE  TypeOK'
<1>1. /\ UNCHANGED <<diskVars, syncVars, posVars, ackVars, processVars, nextLSN, reserved, queue, batch, todo, cl>>
      /\ closed' \in {closed, TRUE} /\ draining' \in {draining, TRUE}
      /\ wpc' = wpc \/ (wpc \in {"loop", "stop"} /\ wpc' \in {"drain", "exited"})
  BY Zenon DEF Close, WriterStop, WriterExit, writerVars
<1>2. DiskType' /\ AckType' /\ ClientType' /\ HistoryType'
  BY <1>1, TypeUnchanged DEF diskVars, syncVars, ackVars, processVars
<1>3. ProcessType'
  BY Zenon, <1>1 DEF TypeOK, ProcessType, diskVars, syncVars, posVars, processVars
<1>4. WriterType'
  <2>2. draining' \in BOOLEAN
    BY Zenon, <1>1 DEF TypeOK, WriterType
  <2>. QED  BY <1>1, <2>2 DEF TypeOK, WriterType, Requests, syncVars
<1>. QED  BY <1>2, <1>3, <1>4 DEF TypeOK

\* Ack storing its checkpoint, or failing to.
LEMMA StoreType ==
  ASSUME TypeOK, storeCheckpoint \/ storeCheckpointFails
  PROVE  TypeOK'
<1>1. /\ UNCHANGED <<file, segs, corrupt, syncVars, posVars, writerVars, processVars, closed, nextLSN,
                     reserved, queue, cl>>
      /\ slots' \in {slots, [slots EXCEPT ![NextCheckpoint.gen % 2] = NextCheckpoint]}
      /\ checkpoint' \in {checkpoint, NextCheckpoint}
      /\ apc' \in {"prune", "idle"} /\ afence' \in {afence, 0}
  BY DEF storeCheckpoint, storeCheckpointFails
<1>2. NextCheckpoint \in [gen : Nat, fence : Nat]
  BY DEF TypeOK, AckType, NextCheckpoint
<1>4. DiskType'
  BY <1>1, <1>2 DEF TypeOK, DiskType, syncVars
<1>5. ProcessType' /\ WriterType' /\ ClientType' /\ HistoryType'
  BY <1>1, TypeUnchanged DEF syncVars, posVars, writerVars, processVars
<1>. QED  BY <1>4, <1>5, <1>1, <1>2 DEF TypeOK, AckType

\* pruneAcked removing segments.
LEMMA PruneType ==
  ASSUME TypeOK, pruneAcked
  PROVE  TypeOK'
<1>1. /\ UNCHANGED <<file, slots, corrupt, syncVars, posVars, writerVars, processVars, closed, nextLSN,
                     reserved, queue, cl, checkpoint>>
      /\ apc' = "idle" /\ afence' = 0 /\ segs' \subseteq segs
  BY DEF pruneAcked
<1>3. ProcessType' /\ WriterType' /\ ClientType' /\ HistoryType'
  BY <1>1, TypeUnchanged DEF syncVars, posVars, writerVars, processVars
<1>. QED  BY <1>1, <1>3 DEF TypeOK, AckType, DiskType, syncVars

\* The two ways the process ends.
LEMMA CrashType ==
  ASSUME TypeOK, ProcessCrash \/ PowerLoss
  PROVE  TypeOK'
<1>1. Forget
  BY Zenon DEF ProcessCrash, PowerLoss
<1>3. file' \in Seq(DOMAIN recs) /\ stable' \in 0..Len(file') /\ corrupt' \in BOOLEAN /\ UNCHANGED <<segs, slots>>
  <2>1. CASE ProcessCrash
    BY <2>1, ProcessFacts DEF ProcessCrash, TypeOK, DiskType
  <2>2. CASE PowerLoss
    <3>1. PICK k \in stable..Len(file) : file' = SubSeq(file, 1, k) /\ stable' = k
      BY <2>2 DEF PowerLoss
    <3>2. k \in 0..Len(file) /\ 1 \in Nat \ {0}
      BY ProcessFacts
    <3>3. file' \in Seq(DOMAIN recs) /\ Len(file') = k
      BY <3>1, <3>2, ProcessFacts, SubSeqType
    <3>4. corrupt' \in BOOLEAN /\ UNCHANGED <<segs, slots>>
      BY Zenon, <2>2 DEF PowerLoss
    <3>. QED  BY <3>1, <3>2, <3>3, <3>4
  <2>. QED  BY <2>1, <2>2
<1>. QED  BY <1>1, <1>3, ForgetType DEF TypeOK, DiskType

\* Open accepting or refusing the directory.
LEMMA OpenType ==
  ASSUME TypeOK, Open \/ OpenRefused
  PROVE  TypeOK'
<1>1. /\ UNCHANGED <<diskVars, syncVars, writerVars, apc, afence, closed, writtenLSN, nextLSN, reserved,
                     queue, cl, crashes>>
      /\ phase' \in {"up", "refused"} /\ offset' \in {offset, Len(file)} /\ checkpoint' \in {checkpoint, loadCheckpoint}
      /\ seg' = seg \/ seg' \in segs
  BY DEF Open, OpenRefused, posVars, ackVars
<1>3. ProcessType'
  <2>. QED  BY <1>1, ProcessFacts DEF TypeOK, ProcessType, diskVars, syncVars
<1>4. AckType'
  BY <1>1 DEF loadCheckpoint, TypeOK, DiskType, AckType
<1>. QED  BY <1>1, TypeUnchanged, <1>3, <1>4 DEF TypeOK, diskVars, syncVars, writerVars

\* The initial state is well typed.
LEMMA TypeInit == Init => TypeOK
<1>. SUFFICES ASSUME Init PROVE TypeOK
  OBVIOUS
<1>2. DiskType /\ ProcessType /\ AckType /\ HistoryType
  <2>1. corrupt \in BOOLEAN /\ closed \in BOOLEAN /\ terminal \in BOOLEAN /\ unsynced \in BOOLEAN
    BY Zenon DEF Init
  <2>. QED  BY <2>1 DEF DiskType, ProcessType, AckType, HistoryType, Init
<1>3. WriterType
  <2>1. draining \in BOOLEAN
    BY Zenon DEF Init
  <2>. QED  BY <2>1 DEF WriterType, Init
<1>4. ClientType
  BY DEF Init, IdleClient, ClientStates, ClientPCs, ClientType
<1>. QED  BY <1>2, <1>3, <1>4 DEF TypeOK

\* Every step keeps the types.
LEMMA TypeStep ==
  ASSUME TypeOK, Cardinality(Reserved) \in Nat, [Next]_vars
  PROVE  TypeOK'
<1>1. CASE UNCHANGED vars
  BY <1>1, TypeUnchanged DEF vars, TypeOK
<1>2. ASSUME NEW c \in Clients, ClientStep(c) \/ ClientChoice(c) PROVE TypeOK'
  BY <1>2, ClientStepType, SendType, EnqueueType, SyncStepType, SyncFlushType
     DEF ClientStep, ClientChoice
<1>3. CASE WriterStep
  BY <1>3, WriterTakeType, WriterRefuseType, WriterAdmitType, WriterRotateType, WriterCreateType,
     WriterWriteType, WriterFailsType, WriterFinishType, StopType, TickType
     DEF WriterStep
<1>4. CASE WriterTick \/ Close \/ Ack
  BY <1>4, TickType, StopType
<1>5. CASE AckStep
  BY <1>5, StoreType, PruneType DEF AckStep
<1>6. CASE ProcessCrash \/ PowerLoss \/ Open \/ OpenRefused
  BY <1>6, CrashType, OpenType
<1>. QED  BY <1>1, <1>2, <1>3, <1>4, <1>5, <1>6 DEF Next
=============================================================================
