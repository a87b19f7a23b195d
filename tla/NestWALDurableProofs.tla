------------------------ MODULE NestWALDurableProofs ------------------------
(***************************************************************************)
(* What the log confirms is on stable storage: DurableInv is kept by every *)
(* step but a process crash.                                               *)
(***************************************************************************)
EXTENDS NestWALFacts

-----------------------------------------------------------------------------
(* What most steps leave alone *)

\* Tickets are resolved, or registered by the caller that holds them.
TicketsKept ==
  /\ \A p \in DOMAIN tickets' : \/ \E q \in DOMAIN tickets : tickets'[p] = tickets[q]
                                \/ \E c \in Clients : cl[c].pc = "register" /\ tickets'[p] = cl[c].rec
  /\ \A c \in Clients : cl'[c].pc = "register" => cl[c].pc = "register" /\ cl'[c].rec = cl[c].rec

\* No segment is created, and no Ack starts.
SegmentsKept ==
  /\ UNCHANGED <<offset, seg, phase>> /\ segs' \subseteq segs
  /\ ~unsynced' => stable' = Len(file)
  /\ wpc' = "create" => wpc = "create"
  /\ apc' = "store" => apc = "store" /\ afence' = afence

\* The writer keeps the batch it admitted, or has none.
BatchKept ==
  \/ Resting'
  \/ /\ ~Resting /\ todo' = todo /\ DOMAIN batch' = DOMAIN batch
     /\ \A p \in DOMAIN batch : batch'[p].rec = batch[p].rec

\* Steps that keep the segments stable.
LEMMA SegmentsFrame ==
  ASSUME TypeOK, DurableInv, UNCHANGED file, stable <= stable', stable' \in Nat, SegmentsKept
  PROVE  SegmentsStable'
<1>1. /\ stable \in Nat /\ seg \in Nat /\ afence \in Nat /\ Len(file) \in Nat /\ segs \subseteq Nat
      /\ \A s \in Nat : (s - 1) * SegmentRecords \in Int /\ s * SegmentRecords \in Int
  BY ProcessFacts, SizeAssumption, QueueFacts DEF TypeOK, AckType
<1>2. /\ phase = "up" => offset = Len(file) /\ (seg - 1) * SegmentRecords <= stable
      /\ wpc = "create" => phase = "up" /\ seg * SegmentRecords <= stable
      /\ \A s \in segs : (s - 1) * SegmentRecords <= stable
      /\ apc = "store" => afence <= stable
  BY DEF DurableInv, SegmentsStable
<1>3. \A x \in Int : x <= stable => x <= stable'
  BY <1>1
<1>4. /\ phase = "up" => (seg - 1) * SegmentRecords <= stable'
      /\ wpc = "create" => seg * SegmentRecords <= stable'
      /\ \A s \in segs : (s - 1) * SegmentRecords <= stable'
      /\ apc = "store" => afence <= stable'
  <2>. DEFINE x == (seg - 1) * SegmentRecords
              y == seg * SegmentRecords
  <2>1. x \in Int /\ y \in Int /\ (phase = "up" => x <= stable) /\ (wpc = "create" => y <= stable)
    BY <1>1, <1>2
  <2>2. ASSUME NEW s \in segs PROVE (s - 1) * SegmentRecords <= stable'
    <3>. DEFINE z == (s - 1) * SegmentRecords
    <3>. HIDE DEF z
    <3>. QED  BY <1>3, <1>1, <1>2 DEF z
  <2>. HIDE DEF x, y
  <2>3. (phase = "up" => x <= stable') /\ (wpc = "create" => y <= stable')
    BY <1>3, <2>1
  <2>. QED  BY <2>2, <2>3, <1>1, <1>2, <1>3 DEF x, y
<1>. QED  BY <1>2, <1>4 DEF SegmentsStable, SegmentsKept

\* Steps that keep the batch placed.
LEMMA BatchFrame ==
  ASSUME TypeOK, DurableInv, UNCHANGED file, NEW all, Resolves(recs', all), BatchKept
  PROVE  BatchPlaced'
<1>1. CASE Resting'
  BY <1>1 DEF BatchPlaced
<1>2. CASE /\ ~Resting /\ todo' = todo /\ DOMAIN batch' = DOMAIN batch
           /\ \A p \in DOMAIN batch : batch'[p].rec = batch[p].rec
  <2>1. ASSUME NEW p \in DOMAIN batch, batch[p].rec # 0, recs'[batch[p].rec].res = "pending",
               recs'[batch[p].rec].kind # "ticket"
        PROVE  p \in todo \/ InFile(batch[p].rec)
    BY <2>1, QueueFacts, <1>2 DEF Resolves, SameHistory, IsTicket, DurableInv, BatchPlaced
  <2>. QED  BY <1>2, <2>1 DEF BatchPlaced, IsTicket, InFile
<1>. QED  BY <1>1, <1>2 DEF BatchKept

\* Steps that keep the tickets of this process.
LEMMA TicketsFrame ==
  ASSUME TypeOK, DurableInv, NEW all, Resolves(recs', all), UNCHANGED crashes, TicketsKept
  PROVE  TicketsCurrent'
<1>2. /\ \A p \in DOMAIN tickets : tickets[p] \in DOMAIN recs
      /\ \A c \in Clients : cl[c].pc = "register" => cl[c].rec \in DOMAIN recs
  BY ProcessFacts DEF TypeOK, ClientType, ClientStates
<1>. QED  BY <1>2 DEF TicketsKept, TicketsCurrent, IsTicket, DurableInv, Resolves, SameHistory

\* Steps that keep the file and the watermarks in order.
LEMMA PrefixFrame ==
  ASSUME TypeOK, DurableInv, NEW all, Resolves(recs', all), UNCHANGED <<file, crashes, writtenLSN, nextLSN>>,
         durableLSN' \in {durableLSN, writtenLSN}
  PROVE  LSNOrder' /\ WrittenPrefix'
<1>1. /\ DOMAIN recs' = DOMAIN recs
      /\ \A i \in DOMAIN recs : recs'[i].kind = recs[i].kind /\ recs'[i].inc = recs[i].inc /\ recs'[i].lsn = recs[i].lsn
  BY ProcessFacts DEF Resolves, SameHistory
<1>3. WrittenPrefix'
  BY <1>1 DEF DurableInv, WrittenPrefix, IsTicket, InFile
<1>. QED  BY <1>1, <1>3 DEF DurableInv, LSNOrder, IsTicket

\* A stored checkpoint stays stable when the stable prefix grows.
LEMMA CheckpointFrame ==
  ASSUME TypeOK, DurableInv, stable <= stable', stable' \in Nat, UNCHANGED slots
  PROVE  CheckpointStable'
BY ProcessFacts DEF TypeOK, DiskType, DurableInv, CheckpointStable

\* A step in which nothing is submitted, written, synced or answered with success.
LEMMA DurableQuiet ==
  ASSUME TypeOK, DurableInv, NEW ok, Resolves(recs', ok), ok \subseteq StableRecords,
         UNCHANGED <<file, stable, unsynced, crashes, writtenLSN, nextLSN, durableLSN>>, TicketsKept
  PROVE  /\ SegmentsKept => SegmentsStable'
         /\ BatchKept => BatchPlaced'
         /\ UNCHANGED slots => CheckpointStable'
         /\ LSNOrder' /\ TicketsCurrent' /\ WrittenPrefix' /\ ConfirmedStable' /\ WatermarkStable'
<1>2. ConfirmedStable' /\ WatermarkStable'
  BY PromisesKept DEF StableRecords
<1>3. stable <= stable' /\ stable' \in Nat
  BY ProcessFacts
<1>. QED  BY <1>2, <1>3, SegmentsFrame, BatchFrame, CheckpointFrame, TicketsFrame, PrefixFrame

-----------------------------------------------------------------------------
(* The callers *)

\* Steps of callers that neither submit a record nor sync.
LEMMA DurableQuietClient ==
  ASSUME TypeOK, DurableInv, NEW c \in Clients,
         \/ AppendReturn(c) \/ EnqueueRefuse(c) \/ EnqueueCheck(c) \/ EnqueueRegister(c) \/ SyncBoundary(c)
         \/ SyncCheck(c) \/ SyncSend(c) \/ SyncReturn(c) \/ AppendBegin(c) \/ AppendCancel(c) \/ EnqueueReserve(c)
         \/ SyncBegin(c) \/ SyncReply(c) \/ SyncCancel(c)
  PROVE  DurableInv'
<1>1. UNCHANGED <<file, stable, unsynced, crashes, writtenLSN, nextLSN, durableLSN, recs, slots, segs, offset, seg, phase,
                  wpc, todo, apc, afence>>
  BY DEF AppendReturn, EnqueueRefuse, EnqueueCheck, EnqueueRegister, SyncBoundary, SyncCheck, SyncReturn, SyncSend,
     AppendBegin, AppendCancel, EnqueueReserve, SyncBegin, SyncReply, SyncCancel, diskVars, syncVars, posVars,
     writerVars, ackVars, processVars
<1>2. DOMAIN batch' = DOMAIN batch /\ \A p \in DOMAIN batch : batch'[p].rec = batch[p].rec
  <2>1. batch' = batch \/ batch' = Abandoned(batch, c)
    BY SMTT(30) DEF AppendReturn, EnqueueRefuse, EnqueueCheck, EnqueueRegister, SyncBoundary, SyncCheck, SyncReturn, SyncSend,
       AppendBegin, AppendCancel, EnqueueReserve, SyncBegin, SyncReply, SyncCancel, writerVars
  <2>. QED  BY <2>1, AbandonedType DEF TypeOK, WriterType
<1>3. cl'[c].pc # "register" /\ \A d \in Clients \ {c} : cl'[d] = cl[d]
  <2>1. \/ Return(c)
        \/ \E p \in ClientPCs \ {"register"} : Goto(c, p)
        \/ cl' = [cl EXCEPT ![c].pc = "syncRead", ![c].promised = Promised]
        \/ cl' = [cl EXCEPT ![c].pc = "syncCheck", ![c].boundary = nextLSN]
    BY DEF AppendReturn, EnqueueRefuse, EnqueueCheck, EnqueueRegister, SyncBoundary, SyncCheck, SyncReturn, SyncSend,
       AppendBegin, AppendCancel, EnqueueReserve, SyncBegin, SyncReply, SyncCancel, ClientPCs
  <2>. QED  BY <2>1, ClientMoves
<1>4. TicketsKept
  <2>1. CASE UNCHANGED tickets
    BY SMTT(30), <1>3, <2>1 DEF TicketsKept
  <2>2. CASE EnqueueRegister(c)
    <3>1. tickets' = Append(tickets, cl[c].rec) /\ cl[c].pc = "register"
      BY ZenonT(30), <2>2 DEF EnqueueRegister, At
    <3>2. tickets \in Seq(DOMAIN recs) /\ Len(tickets) \in Nat
      BY SMTT(30), ProcessFacts
    <3>. QED  BY <1>3, <3>1, <3>2 DEF TicketsKept
  <2>. QED  BY <2>1, <2>2 DEF AppendReturn, EnqueueRefuse, EnqueueCheck, SyncBoundary, SyncCheck, SyncReturn, SyncSend,
       AppendBegin, AppendCancel, EnqueueReserve, SyncBegin, SyncReply, SyncCancel, syncVars
<1>6. BatchKept
  BY ZenonT(30), <1>1, <1>2 DEF BatchKept, Resting
<1>. QED  BY <1>1, <1>4, <1>6, ResolvesSelf, DurableQuiet DEF DurableInv, SegmentsKept, SegmentsStable

\* A submitted record has the highest LSN and is confirmed to nobody.
LEMMA DurableSend ==
  ASSUME TypeOK, OrderInv, DurableInv, NEW c \in Clients, AppendSend(c) \/ EnqueueSend(c)
  PROVE  DurableInv'
<1>. DEFINE k == Len(recs) + 1
<1>1. /\ UNCHANGED <<file, stable, unsynced, crashes, writtenLSN, durableLSN, slots, segs, offset, seg, phase,
                     wpc, batch, todo, apc, afence, tickets>>
      /\ DOMAIN recs' = DOMAIN recs \cup {k} /\ \A i \in DOMAIN recs : recs'[i] = recs[i]
      /\ \A d \in Clients \ {c} : cl'[d] = cl[d]
  BY ZenonT(30), SendFacts
<1>2. PICK lsn : Sends(c, lsn)
  BY ZenonT(30), SendFacts
<1>3. /\ recs'[k].inc = crashes /\ recs'[k].res = "pending"
      /\ \/ /\ recs'[k].kind = "ticket" /\ recs'[k].lsn = nextLSN + 1 /\ nextLSN' = nextLSN + 1 /\ cl'[c].rec = k
         \/ recs'[k].kind # "ticket" /\ recs'[k].lsn = 0 /\ nextLSN' = nextLSN /\ cl'[c].pc # "register"
  BY <1>2 DEF Sends
<1>a. k \in Nat /\ k \notin DOMAIN recs /\ nextLSN \in Nat /\ writtenLSN \in Nat /\ durableLSN \in Nat
      /\ \A i \in DOMAIN recs : i \in Nat /\ i < k /\ recs[i].lsn \in Nat
  <2>2. \A i \in DOMAIN recs : recs[i].lsn \in Nat
    <3>1. \A i \in DOMAIN recs : recs[i] \in Record
      BY ProcessFacts
    <3>. QED  BY <3>1 DEF Record
  <2>. QED  BY QueueFacts, <2>2, ProcessFacts
<1>. HIDE DEF k
<1>4. LSNOrder'
  <2>1. /\ writtenLSN <= nextLSN /\ durableLSN <= nextLSN
        /\ \A i \in DOMAIN recs : recs[i].inc = crashes => recs[i].lsn <= nextLSN
        /\ \A i \in DOMAIN recs : recs[i].kind # "ticket" => recs[i].lsn = 0
        /\ \A i, j \in DOMAIN recs :
             i < j /\ recs[i].kind = "ticket" /\ recs[j].kind = "ticket" /\ recs[i].inc = crashes /\ recs[j].inc = crashes
               => recs[i].lsn < recs[j].lsn
    BY DEF DurableInv, LSNOrder, IsTicket
  <2>2. /\ writtenLSN <= nextLSN' /\ durableLSN <= nextLSN'
        /\ \A i \in DOMAIN recs' : recs'[i].inc = crashes => recs'[i].lsn <= nextLSN'
        /\ \A i \in DOMAIN recs' : recs'[i].kind # "ticket" => recs'[i].lsn = 0
    BY <1>1, <1>3, <1>a, <2>1
  <2>3. ASSUME NEW i \in DOMAIN recs', NEW j \in DOMAIN recs', i < j, recs'[i].kind = "ticket", recs'[j].kind = "ticket",
               recs'[i].inc = crashes, recs'[j].inc = crashes
        PROVE  recs'[i].lsn < recs'[j].lsn
    <3>1. i \in DOMAIN recs
      <4>1. ASSUME i = k PROVE FALSE
        BY <1>1, <1>a, <2>3, <4>1
      <4>. QED  BY <1>1, <4>1
    <3>2. CASE j \in DOMAIN recs
      BY <1>1, <2>1, <2>3, <3>1, <3>2
    <3>3. CASE j = k
      BY <1>1, <1>a, <2>3, <3>1, <2>1, <1>3, <3>3
    <3>. QED  BY <1>1, <3>2, <3>3
  <2>. QED  BY <1>1, <2>2, <2>3 DEF LSNOrder, IsTicket
<1>5. TicketsCurrent'
  <2>1. /\ \A p \in DOMAIN tickets : tickets[p] \in DOMAIN recs
        /\ \A d \in Clients : cl[d].pc = "register" => cl[d].rec \in DOMAIN recs
    BY ProcessFacts DEF TypeOK, ClientType, ClientStates
  <2>. QED  BY <1>1, <1>3, <2>1 DEF DurableInv, TicketsCurrent, IsTicket
<1>6. WrittenPrefix' /\ WatermarkStable' /\ ConfirmedStable'
  <2>1. StableRecords' = StableRecords /\ \A i : InFile(i)' = InFile(i)
    BY <1>1 DEF StableRecords, InFile
  <2>5. ConfirmedStable'
    BY ZenonT(30), <1>1, <1>3, <2>1 DEF DurableInv, ConfirmedStable
  <2>. QED  BY <1>1, <2>1, <1>3, <1>a, <2>5 DEF DurableInv, WatermarkStable, IsTicket, WrittenPrefix, LSNOrder
<1>7. SegmentsStable' /\ CheckpointStable'
  <2>1. SegmentsKept /\ stable <= stable' /\ stable' \in Nat
    BY <1>1, ProcessFacts DEF SegmentsKept, DurableInv, SegmentsStable
  <2>. QED  BY ZenonT(30), <1>1, <2>1, SegmentsFrame, CheckpointFrame
<1>8. BatchPlaced'
  BY <1>1, QueueFacts DEF DurableInv, BatchPlaced, Resting, IsTicket, InFile
<1>. QED  BY <1>4, <1>5, <1>6, <1>7, <1>8 DEF DurableInv

-----------------------------------------------------------------------------
(* Steps that sync *)

\* syncActiveLocked confirms what the fsync has just made stable, or nothing.
LEMMA DurableSync ==
  ASSUME TypeOK, DurableInv, phase = "up", NEW R, NEW ok, Resolves(R, ok), NEW result, syncActiveLocked(result, R),
         result # "nil" => ok = {}, \A i \in ok : InFile(i),
         UNCHANGED <<file, crashes, writtenLSN, nextLSN, slots, segs, offset, seg, phase>>,
         \A c \in Clients : cl'[c].pc = "register" => cl[c].pc = "register" /\ cl'[c].rec = cl[c].rec,
         BatchKept,
         wpc' = "create" => wpc = "create" \/ (result = "nil" /\ SegmentFull),
         apc' = "store" => (apc = "store" /\ afence' = afence) \/ (result = "nil" /\ afence' <= offset)
  PROVE  DurableInv'
<1>1. PICK all : Resolves(recs', all)
  BY SyncEffect
<1>3. /\ stable <= stable' /\ (result = "nil" => stable' = Len(file)) /\ (~unsynced' => stable' = Len(file))
      /\ durableLSN' \in {durableLSN, writtenLSN}
      /\ \A p \in DOMAIN tickets' : \E q \in DOMAIN tickets : tickets'[p] = tickets[q]
  BY SMTT(30), SyncEffect
<1>4. stable' \in Nat
  BY SyncActiveType, QueueFacts DEF Resolves, SameHistory
<1>5. TicketsKept
  BY <1>3 DEF TicketsKept
<1>6. LSNOrder' /\ WrittenPrefix' /\ TicketsCurrent' /\ BatchPlaced' /\ CheckpointStable'
  BY <1>1, <1>3, <1>4, <1>5, PrefixFrame, TicketsFrame, BatchFrame, CheckpointFrame
<1>7. SegmentsStable'
  <2>1. /\ stable \in Nat /\ seg \in Nat /\ afence \in Nat /\ Len(file) \in Nat /\ segs \subseteq Nat /\ offset = Len(file)
        /\ \A s \in Nat : (s - 1) * SegmentRecords \in Int /\ s * SegmentRecords \in Int
    BY ProcessFacts, SizeAssumption, QueueFacts DEF TypeOK, AckType, DurableInv, SegmentsStable
  <2>2. \A x \in Int : x <= stable => x <= stable'
    BY SMTT(30), <1>3, <1>4, <2>1
  <2>. DEFINE x == (seg - 1) * SegmentRecords
              y == seg * SegmentRecords
  <2>3. /\ x \in Int /\ y \in Int /\ x <= stable /\ (wpc = "create" => y <= stable) /\ (apc = "store" => afence <= stable)
        /\ SegmentFull => y = Len(file)
    <3>1. x \in Int /\ y \in Int
      BY <2>1
    <3>. QED  BY <2>1, <3>1 DEF DurableInv, SegmentsStable, SegmentFull
  <2>4. ASSUME NEW s \in segs PROVE (s - 1) * SegmentRecords <= stable'
    <3>. DEFINE z == (s - 1) * SegmentRecords
    <3>1. z \in Int /\ z <= stable
      BY <2>1 DEF DurableInv, SegmentsStable
    <3>. HIDE DEF z
    <3>. QED  BY <2>2, <3>1 DEF z
  <2>. HIDE DEF x, y
  <2>5. x <= stable' /\ (wpc' = "create" => y <= stable')
    BY <1>3, <1>4, <2>2, <2>3
  <2>6. apc' = "store" => afence' <= stable'
    <3>1. CASE apc = "store" /\ afence' = afence
      BY <2>1, <2>2, <2>3, <3>1
    <3>2. CASE result = "nil" /\ afence' <= offset
      BY <1>3, <2>1, <3>2
    <3>. QED  BY <3>1, <3>2
  <2>. QED  BY <2>4, <2>6, <1>3, <2>1, <2>5 DEF SegmentsStable, x, y
<1>. QED  BY SyncEffect, <1>6, <1>7 DEF DurableInv

\* Sync's flush, the ticker, the end of Close, and the flush of Ack.
LEMMA DurableFlush ==
  ASSUME TypeOK, DurableInv, WriterTick \/ WriterCloseActive \/ Ack \/ \E c \in Clients : SyncFlush(c)
  PROVE  DurableInv'
<1>1. /\ UNCHANGED <<file, crashes, writtenLSN, nextLSN, slots, segs, offset, seg, phase, batch, todo>>
      /\ wpc' = wpc \/ (wpc = "drain" /\ wpc' = "stop")
      /\ phase = "up"
  BY DEF WriterTick, WriterCloseActive, Ack, SyncFlush, diskVars, posVars, writerVars, processVars, At
<1>2. \E result : /\ syncActiveLocked(result, recs)
                  /\ apc' = "store" => (apc = "store" /\ afence' = afence) \/ (result = "nil" /\ afence' <= offset)
  <2>1. CASE Ack
    <3>1. PICK fence \in checkpoint.fence + 1 .. offset :
            \/ syncActiveLocked("nil", recs) /\ apc' = "store" /\ afence' = fence
            \/ syncActiveLocked("err", recs) /\ UNCHANGED <<apc, afence>>
      BY <2>1 DEF Ack
    <3>2. fence <= offset
      BY ProcessFacts DEF TypeOK, AckType
    <3>. QED  BY <3>1, <3>2
  <2>2. CASE WriterTick \/ WriterCloseActive \/ \E c \in Clients : SyncFlush(c)
    BY <2>2 DEF WriterTick, WriterCloseActive, SyncFlush, ackVars
  <2>. QED  BY <2>1, <2>2
<1>3. \A c \in Clients : cl'[c].pc = "register" => cl[c].pc = "register" /\ cl'[c].rec = cl[c].rec
  <2>1. CASE UNCHANGED cl
    BY <2>1
  <2>2. ASSUME NEW c \in Clients, SyncFlush(c)
        PROVE  \A d \in Clients : cl'[d].pc = "register" => cl[d].pc = "register" /\ cl'[d].rec = cl[d].rec
    <3>1. Return(c) \/ \E p \in ClientPCs \ {"register"} : Goto(c, p)
      BY <2>2 DEF SyncFlush, ClientPCs
    <3>. QED  BY ZenonT(30), <3>1, ClientMoves
  <2>. QED  BY ZenonT(30), <2>1, <2>2 DEF WriterTick, WriterCloseActive, Ack
<1>. QED  BY <1>1, <1>2, <1>3, ResolvesSelf, DurableSync DEF BatchKept, Resting

-----------------------------------------------------------------------------
(* The writer, Close and Ack *)

\* Steps of the writer, Close and pruneAcked that leave the file as it is.
LEMMA DurableQuietWriter ==
  ASSUME TypeOK, DurableInv,
         WriterTake \/ WriterCollect \/ WriterDrain \/ WriterStop \/ WriterExit \/ Close \/ pruneAcked
  PROVE  DurableInv'
<1>1. UNCHANGED <<file, stable, unsynced, crashes, writtenLSN, nextLSN, durableLSN, recs, slots, offset, seg, phase,
                  tickets, cl>>
  BY SMTT(30) DEF WriterTake, WriterCollect, WriterDrain, WriterStop, WriterExit, Close, pruneAcked, diskVars, syncVars, posVars,
     processVars
<1>2. segs' \subseteq segs /\ (apc' = "store" => apc = "store" /\ afence' = afence)
  BY DEF WriterTake, WriterCollect, WriterDrain, WriterStop, WriterExit, Close, pruneAcked, diskVars, ackVars
<1>3. UNCHANGED <<wpc, batch, todo>> \/ wpc' \in {"collect", "drain", "exited"}
  BY DEF WriterTake, WriterCollect, WriterDrain, WriterStop, WriterExit, Close, pruneAcked, writerVars
<1>4. BatchKept
  BY <1>3 DEF BatchKept, Resting
<1>5. SegmentsKept
  BY <1>1, <1>2, <1>3 DEF SegmentsKept, DurableInv, SegmentsStable
<1>6. TicketsKept
  BY <1>1 DEF TicketsKept
<1>7. Resolves(recs', {})
  BY <1>1, ResolvesSelf
<1>. QED  BY <1>1, <1>4, <1>5, <1>6, <1>7, DurableQuiet DEF DurableInv

\* Ack stores a fence it has flushed.
LEMMA DurableStore ==
  ASSUME TypeOK, DurableInv, storeCheckpoint \/ storeCheckpointFails
  PROVE  DurableInv'
<1>1. /\ UNCHANGED <<file, stable, unsynced, crashes, writtenLSN, nextLSN, durableLSN, recs, offset, seg, phase,
                     tickets, cl, segs, wpc, batch, todo>>
      /\ apc = "store" /\ apc' # "store"
      /\ slots' \in {slots, [slots EXCEPT ![NextCheckpoint.gen % 2] = NextCheckpoint]}
  BY SMTT(30) DEF storeCheckpoint, storeCheckpointFails, syncVars, posVars, processVars, writerVars
<1>2. BatchKept /\ SegmentsKept /\ TicketsKept
  BY <1>1 DEF BatchKept, SegmentsKept, TicketsKept, Resting, DurableInv, SegmentsStable
<1>4. CheckpointStable'
  BY <1>1 DEF TypeOK, DiskType, NextCheckpoint, DurableInv, SegmentsStable, CheckpointStable
<1>. QED  BY <1>1, <1>2, ResolvesSelf, <1>4, DurableQuiet DEF DurableInv

\* Replies with an error confirm nothing and leave nothing they answer pending.
LEMMA ErrorReplies ==
  ASSUME TypeOK, NEW ids, NEW res \in Outcomes \ {"pending", "ok"}
  PROVE  /\ Resolves(Replied(recs, ids, res), {})
         /\ \A i \in DOMAIN recs : i \in ids /\ ~IsTicket(i) => Replied(recs, ids, res)[i].res # "pending"
<1>1. {i \in DOMAIN recs : res = "ok" /\ i \in ids /\ ~IsTicket(i) /\ recs[i].kind # "async" /\ recs[i].res = "pending"} = {}
  OBVIOUS
<1>. QED  BY <1>1, RepliedResolves

\* Replies of a batch that failed confirm nothing.
LEMMA FailedReplies ==
  ASSUME TypeOK
  PROVE  Resolves(Replied(recs, IdsOf(batch), "err"), {})
BY ErrorReplies DEF Outcomes

\* A refused batch is confirmed to nobody.
LEMMA DurableRefuse ==
  ASSUME TypeOK, DurableInv, WriterRefuse
  PROVE  DurableInv'
<1>1. /\ UNCHANGED <<file, stable, unsynced, crashes, writtenLSN, nextLSN, slots, offset, seg, phase, segs, apc, afence>>
      /\ wpc' = Back /\ \E res : cl' = Answered(batch, res)
  BY DEF WriterRefuse, diskVars, posVars, processVars, ackVars
<1>2. BatchKept /\ SegmentsKept
  BY ZenonT(30), <1>1 DEF BatchKept, SegmentsKept, Resting, Back, DurableInv, SegmentsStable
<1>3. \A c \in Clients : cl'[c].pc = "register" => cl[c].pc = "register" /\ cl'[c].rec = cl[c].rec
  BY <1>1, AnsweredKept
<1>4. CASE UNCHANGED <<recs, tickets, durableLSN>>
  BY <1>3, <1>4, ResolvesSelf, <1>1, <1>2, DurableQuiet DEF TicketsKept, DurableInv
<1>5. CASE failPendingTickets(Replied(recs, IdsOf(batch), "err"))
  <2>2. Resolves(recs', Covered(durableLSN)) /\ tickets' = <<>> /\ durableLSN' = durableLSN
    BY <1>5, FailedReplies, FailResolves DEF DurableInv, Resolves
  <2>3. TicketsKept
    BY SMTT(30), <1>3, <2>2 DEF TicketsKept
  <2>. QED  BY <1>1, <1>2, <2>2, <2>3, DurableQuiet, CoveredInFile DEF DurableInv
<1>. QED  BY <1>4, <1>5 DEF WriterRefuse

\* Admission answers the records it refuses, with an error.
LEMMA DurableAdmit ==
  ASSUME TypeOK, DurableInv, WriterAdmit
  PROVE  DurableInv'
<1>1. /\ UNCHANGED <<file, stable, unsynced, crashes, writtenLSN, nextLSN, slots, offset, seg, phase, segs, apc, afence,
                     tickets, durableLSN>>
      /\ wpc' \in {Back, "ready"} /\ (cl' = cl \/ cl' = Answered(batch, "ok"))
      /\ recs' = Replied(recs, IdsOf(batch) \ Admitted, "rejected")
  BY SMTT(30) DEF WriterAdmit, diskVars, posVars, processVars, ackVars
<1>2. SegmentsKept
  BY <1>1 DEF SegmentsKept, Back, DurableInv, SegmentsStable
<1>4. /\ Resolves(recs', {})
      /\ \A i \in DOMAIN recs : i \in IdsOf(batch) \ Admitted /\ ~IsTicket(i) => recs'[i].res # "pending"
  BY <1>1, ErrorReplies DEF Outcomes
<1>5. BatchPlaced'
  <2>1. CASE Admitted = {}
    BY <2>1 DEF WriterAdmit, BatchPlaced, Resting, Back
  <2>2. CASE Admitted # {}
    <3>1. batch' = batch /\ todo' = {p \in DOMAIN batch : batch[p].rec \in Admitted}
      BY <2>2 DEF WriterAdmit
    <3>2. ASSUME NEW p \in DOMAIN batch, batch[p].rec # 0, recs'[batch[p].rec].res = "pending",
                 recs'[batch[p].rec].kind # "ticket"
          PROVE  batch[p].rec \in Admitted
      <4>. QED  BY <1>4, <3>2, QueueFacts DEF Resolves, SameHistory, IsTicket, IdsOf
    <3>. QED  BY <3>1, <3>2 DEF BatchPlaced, IsTicket
  <2>. QED  BY <2>1, <2>2
<1>7. SegmentsStable' /\ CheckpointStable' /\ LSNOrder' /\ TicketsCurrent' /\ WrittenPrefix'
      /\ ConfirmedStable' /\ WatermarkStable'
  BY <1>2, <1>1, AnsweredKept, <1>4, DurableQuiet DEF TicketsKept
<1>. QED  BY <1>5, <1>7 DEF DurableInv

\* rotateLocked syncs a segment before it leaves it.
LEMMA DurableRotate ==
  ASSUME TypeOK, DurableInv, WriterRotate
  PROVE  DurableInv'
<1>1. /\ UNCHANGED <<file, crashes, writtenLSN, nextLSN, slots, segs, offset, seg, phase, apc, afence>>
      /\ phase = "up" /\ ~Resting /\ SegmentFull
  BY DEF WriterRotate, Writing, Resting, diskVars, posVars, processVars, ackVars
<1>2. CASE syncActiveLocked("nil", recs) /\ wpc' = "create" /\ UNCHANGED <<cl, batch, todo>>
  BY <1>1, <1>2, ResolvesSelf, DurableSync DEF BatchKept
<1>3. CASE syncActiveLocked("err", Replied(recs, IdsOf(batch), "err")) /\ BatchFailed
  <2>1. wpc' \in {"drain", "loop"} /\ cl' = Answered(batch, "err")
    BY <1>3 DEF BatchFailed, Back
  <2>2. BatchKept
    BY <2>1 DEF BatchKept, Resting
  <2>3. \A c \in Clients : cl'[c].pc = "register" => cl[c].pc = "register" /\ cl'[c].rec = cl[c].rec
    BY <2>1, AnsweredKept
  <2>4. wpc' # "create" /\ (apc' = "store" => apc = "store" /\ afence' = afence)
    BY <1>1, <2>1
  <2>. QED  BY <1>1, <1>3, <2>2, <2>3, <2>4, FailedReplies, DurableSync
<1>. QED  BY <1>2, <1>3 DEF WriterRotate

\* writeBatch confirms its batch after the sync the batch required.
LEMMA DurableFinish ==
  ASSUME TypeOK, DurableInv, WriterFinish
  PROVE  DurableInv'
<1>. DEFINE R == Replied(recs, IdsOf(batch), "ok")
            ok == {i \in DOMAIN recs : "ok" = "ok" /\ i \in IdsOf(batch) /\ ~IsTicket(i) /\ recs[i].kind # "async"
                                       /\ recs[i].res = "pending"}
<1>1. /\ UNCHANGED <<file, crashes, writtenLSN, nextLSN, slots, segs, offset, seg, phase, apc, afence>>
      /\ phase = "up" /\ ~Resting /\ todo = {} /\ wpc' \in {"drain", "loop"}
  BY SMTT(30) DEF WriterFinish, Writing, Resting, diskVars, posVars, processVars, ackVars, Back
<1>2. Resolves(R, ok)
  BY ZenonT(30), RepliedResolves DEF Outcomes
<1>3. \A i \in ok : InFile(i)
  <2>1. ASSUME NEW i \in ok PROVE \E p \in DOMAIN batch : batch[p].rec = i /\ i # 0
    BY DEF IdsOf
  <2>. QED  BY <1>1, <2>1 DEF DurableInv, BatchPlaced
<1>4. BatchKept
  BY <1>1 DEF BatchKept, Resting
<1>5. \A c \in Clients : cl'[c].pc = "register" => cl[c].pc = "register" /\ cl'[c].rec = cl[c].rec
  BY AnsweredKept DEF WriterFinish
<1>6. ~RequireSync => ok = {}
  BY SMTT(30) DEF RequireSync
<1>. HIDE DEF R, ok
<1>7. CASE syncActiveLocked("nil", R)
  BY ZenonT(30), <1>1, <1>2, <1>3, <1>4, <1>5, <1>7, DurableSync
<1>8. CASE syncActiveLocked("err", Replied(recs, IdsOf(batch), "err"))
  BY <1>1, <1>4, <1>5, <1>8, FailedReplies, DurableSync
<1>9. CASE ~RequireSync /\ recs' = R /\ UNCHANGED <<stable, unsynced, terminal, durableLSN, tickets>>
  <2>1. SegmentsKept /\ TicketsKept
    BY <1>1, <1>5, <1>9 DEF SegmentsKept, TicketsKept, DurableInv, SegmentsStable
  <2>2. Resolves(recs', {})
    BY <1>2, <1>6, <1>9
  <2>. QED  BY <1>1, <1>4, <1>9, <2>1, <2>2, DurableQuiet DEF DurableInv
<1>. QED  BY <1>7, <1>8, <1>9 DEF WriterFinish, R

\* The segment to be created starts on stable storage.
LEMMA NextSegment ==
  ASSUME TypeOK, DurableInv, wpc = "create"
  PROVE  ((seg + 1) - 1) * SegmentRecords <= stable
BY ProcessFacts DEF DurableInv, SegmentsStable

\* A failed batch is confirmed to nobody.
LEMMA DurableFails ==
  ASSUME TypeOK, DurableInv, WriterFails
  PROVE  DurableInv'
<1>1. /\ UNCHANGED <<file, stable, unsynced, crashes, writtenLSN, nextLSN, slots, offset, seg, phase, apc, afence>>
      /\ wpc' \in {"drain", "loop"} /\ cl' = Answered(batch, "err")
      /\ segs' = segs \/ (wpc = "create" /\ segs' \subseteq segs \cup {seg + 1})
  BY SMTT(30) DEF WriterFails, BatchFailed, posVars, processVars, ackVars, Back
<1>3. \A c \in Clients : cl'[c].pc = "register" => cl[c].pc = "register" /\ cl'[c].rec = cl[c].rec
  BY <1>1, AnsweredKept
<1>4. SegmentsStable'
  BY <1>1, NextSegment DEF DurableInv, SegmentsStable
<1>5. PICK ok : ok \subseteq StableRecords /\ Resolves(recs', ok) /\ durableLSN' = durableLSN
                /\ (tickets' = tickets \/ tickets' = <<>>)
  <2>1. CASE recs' = Replied(recs, IdsOf(batch), "err") /\ UNCHANGED <<durableLSN, tickets>>
    BY <2>1, FailedReplies
  <2>2. CASE failPendingTickets(Replied(recs, IdsOf(batch), "err"))
    BY <2>2, FailedReplies, FailResolves, CoveredInFile DEF DurableInv
  <2>. QED  BY <2>1, <2>2 DEF WriterFails
<1>. QED  BY <1>1, <1>4, <1>5, <1>3, DurableQuiet DEF DurableInv, TicketsKept, BatchKept, Resting

\* A new segment begins on a stable boundary.
LEMMA DurableCreate ==
  ASSUME TypeOK, DurableInv, WriterCreate
  PROVE  DurableInv'
<1>1. /\ UNCHANGED <<file, stable, unsynced, crashes, writtenLSN, nextLSN, slots, offset, phase, apc, afence, recs,
                     durableLSN, tickets, cl, batch, todo>>
      /\ wpc = "create" /\ wpc' = "write" /\ seg' = seg + 1 /\ segs' = segs \cup {seg + 1}
  BY DEF WriterCreate, syncVars, posVars, processVars, ackVars
<1>3. SegmentsStable'
  BY <1>1, NextSegment DEF DurableInv, SegmentsStable
<1>. QED  BY <1>1, <1>3, ResolvesSelf, DurableQuiet DEF DurableInv, BatchKept, TicketsKept, Resting

\* A frame is written behind all earlier ones, so the written LSN remains a prefix.
LEMMA DurableWrite ==
  ASSUME TypeOK, OrderInv, DurableInv, WriterWrite
  PROVE  DurableInv'
<1>1. PICK p \in todo :
        /\ \A q \in todo : p <= q
        /\ file' = Append(file, batch[p].rec)
        /\ todo' = todo \ {p}
        /\ writtenLSN' = IF recs[batch[p].rec].lsn > writtenLSN THEN recs[batch[p].rec].lsn ELSE writtenLSN
  BY DEF WriterWrite, NextFrame
<1>2. /\ UNCHANGED <<stable, segs, slots, durableLSN, tickets, recs, seg, apc, afence, phase, crashes, nextLSN, batch, cl>>
      /\ offset' = offset + 1 /\ unsynced' = TRUE /\ wpc' = "write" /\ phase = "up" /\ ~Resting
  BY DEF WriterWrite, Writing, Resting, ackVars, processVars
<1>. DEFINE n == Len(file)
            k == batch[p].rec
<1>3. k \in DOMAIN recs /\ k # 0 /\ p \in DOMAIN batch
  BY QueueFacts
<1>4. /\ n \in Nat /\ DOMAIN file = 1..n /\ DOMAIN file' = 1..(n + 1) /\ Len(file') = n + 1
      /\ \A j \in 1..n : file'[j] = file[j]
      /\ file'[n + 1] = k
  <2>. QED  BY <1>1, <1>3, ProcessFacts
<1>5. recs[k].inc = crashes
  BY <1>3 DEF OrderInv, Current
<1>t. /\ writtenLSN \in Nat /\ \A i \in DOMAIN recs : recs[i].lsn \in Nat /\ i \in Nat
      /\ stable \in 0..n
  <2>1. \A i \in DOMAIN recs : recs[i] \in Record
    BY ProcessFacts
  <2>2. \A i \in DOMAIN recs : recs[i].lsn \in Nat
    BY <2>1 DEF Record
  <2>. QED  BY <2>2, ProcessFacts, QueueFacts
<1>w. /\ writtenLSN' = writtenLSN \/ writtenLSN' = recs[k].lsn
      /\ recs[k].lsn <= writtenLSN'
      /\ writtenLSN' # writtenLSN => writtenLSN' = recs[k].lsn /\ recs[k].lsn > 0
  BY <1>1, <1>3, <1>t
<1>. HIDE DEF n, k
<1>6. \A i : i = k \/ InFile(i) => InFile(i)'
  BY <1>4 DEF InFile
<1>8. LSNOrder'
  BY <1>2, <1>3, <1>5, <1>w DEF DurableInv, LSNOrder, IsTicket
<1>9. WrittenPrefix'
  <2>1. SUFFICES ASSUME NEW i \in DOMAIN recs, IsTicket(i), recs[i].inc = crashes, recs[i].lsn <= writtenLSN'
                 PROVE  InFile(i)'
    BY <1>2 DEF WrittenPrefix, IsTicket
  <2>2. CASE writtenLSN' = writtenLSN
    BY <1>6, <2>1, <2>2 DEF DurableInv, WrittenPrefix
  <2>3. CASE writtenLSN' = recs[k].lsn /\ recs[k].lsn > 0
    <3>2. ~(k < i)
      <4>1. k < i => recs[k].lsn < recs[i].lsn
        BY <1>3, <1>5, <2>1, <2>3 DEF DurableInv, LSNOrder
      <4>2. recs[k].lsn \in Nat /\ recs[i].lsn \in Nat /\ recs[i].lsn <= recs[k].lsn
        BY <1>3, <1>t, <2>1, <2>3
      <4>. QED  BY <4>1, <4>2
    <3>3. CASE i = k
      BY <1>6, <3>3
    <3>4. CASE i < k
      <4>1. InFile(i)
        BY SMTT(30), <1>1, <1>2, <2>1, <3>4, EarlierInFile DEF k
      <4>. QED  BY <1>6, <4>1
    <3>. QED  BY <1>3, <1>t, <3>2, <3>3, <3>4
  <2>. QED  BY <1>w, <2>2, <2>3
<1>10. TicketsCurrent' /\ ConfirmedStable' /\ WatermarkStable' /\ CheckpointStable'
  BY <1>2, <1>4, <1>t DEF DurableInv, TicketsCurrent, ConfirmedStable, WatermarkStable, CheckpointStable, IsTicket,
     StableRecords
<1>11. SegmentsStable'
  <2>1. offset' = Len(file')
    BY ZenonT(30), <1>2, <1>4 DEF DurableInv, SegmentsStable, n
  <2>. QED  BY <1>2, <2>1 DEF DurableInv, SegmentsStable
<1>12. BatchPlaced'
  <2>1. ASSUME NEW q \in DOMAIN batch, batch[q].rec # 0, recs[batch[q].rec].res = "pending", ~IsTicket(batch[q].rec)
        PROVE  q \in todo' \/ InFile(batch[q].rec)'
    <3>1. q \in todo \/ InFile(batch[q].rec)
      BY <1>2, <2>1 DEF DurableInv, BatchPlaced
    <3>2. batch'[q] = batch[q]
      BY <1>2
    <3>3. CASE q = p
      BY <1>2, <1>6, <3>3 DEF k, InFile
    <3>4. CASE q # p
      BY <1>1, <1>2, <1>6, <3>1, <3>4 DEF InFile
    <3>. QED  BY <3>3, <3>4
  <2>. QED  BY <1>2, <2>1 DEF BatchPlaced, IsTicket
<1>. QED  BY <1>8, <1>9, <1>10, <1>11, <1>12 DEF DurableInv

-----------------------------------------------------------------------------
(* Power loss and recovery *)

\* A power loss keeps the stable prefix, and with it all that was confirmed.
LEMMA DurablePowerLoss ==
  ASSUME TypeOK, OrderInv, DurableInv, PowerLoss
  PROVE  DurableInv'
<1>1. /\ UNCHANGED <<segs, slots>> /\ crashes' = crashes + 1 /\ wpc' = "loop" /\ apc' = "idle" /\ phase' = "down"
      /\ tickets' = <<>> /\ cl' = [c \in Clients |-> IdleClient]
      /\ writtenLSN' = 0 /\ durableLSN' = 0 /\ nextLSN' = 0
  BY DEF PowerLoss, Forget
<1>2. PICK k \in stable..Len(file) : file' = SubSeq(file, 1, k) /\ stable' = k
  BY DEF PowerLoss
<1>3. file \in Seq(DOMAIN recs) /\ stable \in 0..Len(file) /\ Len(file) \in Nat /\ crashes \in Nat
  BY ProcessFacts
<1>4. k \in 0..Len(file) /\ stable <= k /\ k \in Nat
  BY <1>3
<1>5. file' \in Seq(DOMAIN recs) /\ Len(file') = k /\ \A p \in 1..k : file'[p] = file[p]
  BY <1>2, <1>3, <1>4, SubSeqType
<1>6. StableRecords \subseteq StableRecords'
  BY <1>3, <1>4, <1>5, <1>2 DEF StableRecords
<1>7. /\ DOMAIN recs' = DOMAIN recs
      /\ \A i \in DOMAIN recs : /\ recs'[i].kind = recs[i].kind /\ recs'[i].lsn = recs[i].lsn /\ recs'[i].inc = recs[i].inc
                                /\ recs'[i].res = "ok" => recs[i].res = "ok"
  BY ProcessFacts DEF PowerLoss, Forget, Record
<1>8. \A i \in DOMAIN recs : recs'[i].inc # crashes'
  BY QueueFacts, <1>1, <1>3, <1>7 DEF OrderInv, Current
<1>9. LSNOrder' /\ TicketsCurrent' /\ WrittenPrefix' /\ WatermarkStable' /\ BatchPlaced'
  <2>3. TicketsCurrent' /\ WrittenPrefix' /\ WatermarkStable' /\ BatchPlaced'
    BY <1>1, <1>7, <1>8 DEF TicketsCurrent, WrittenPrefix, WatermarkStable, BatchPlaced, Resting, IdleClient
  <2>. QED  BY <1>1, <1>7, <1>8, <2>3 DEF LSNOrder, IsTicket, DurableInv
<1>11. CheckpointStable'
  BY <1>1, <1>2, <1>4, CheckpointFrame
<1>12. SegmentsStable'
  <2>1. ASSUME NEW s \in segs PROVE (s - 1) * SegmentRecords <= k
    <3>. DEFINE z == (s - 1) * SegmentRecords
    <3>. HIDE DEF z
    <3>. QED  BY <1>3, <1>4, ProcessFacts, SizeAssumption DEF z, DurableInv, SegmentsStable
  <2>. QED  BY ZenonT(30), <1>1, <1>2, <1>5, <2>1 DEF SegmentsStable
<1>. QED  BY <1>9, <1>6, <1>7, <1>11, <1>12 DEF DurableInv, ConfirmedStable

\* Open takes over what a power loss left, all of it stable.
LEMMA DurableOpen ==
  ASSUME TypeOK, DurableInv, Open \/ OpenRefused
  PROVE  DurableInv'
<1>1. /\ UNCHANGED <<file, stable, unsynced, crashes, writtenLSN, nextLSN, durableLSN, recs, slots, segs, tickets, cl,
                     wpc, batch, todo, apc, afence>>
      /\ phase' = "up" => offset' = Len(file) /\ seg' \in segs
      /\ phase # "up"
  BY DEF Open, OpenRefused, diskVars, syncVars, posVars, writerVars, ackVars
<1>2. BatchKept /\ TicketsKept
  BY ZenonT(30), <1>1 DEF BatchKept, TicketsKept, Resting
<1>. QED  BY <1>1, <1>2, ResolvesSelf, DurableQuiet DEF DurableInv, SegmentsStable

-----------------------------------------------------------------------------

\* Nothing is confirmed yet.
LEMMA DurableInit == Init => DurableInv
<1>. SUFFICES ASSUME Init PROVE DurableInv
  OBVIOUS
<1>1. /\ DOMAIN recs = {} /\ DOMAIN tickets = {} /\ Len(file) = 0 /\ stable = 0 /\ segs = {1} /\ wpc = "loop"
      /\ offset = 0 /\ seg = 1 /\ apc = "idle" /\ writtenLSN = 0 /\ durableLSN = 0 /\ nextLSN = 0
  BY DEF Init
<1>6. LSNOrder /\ TicketsCurrent /\ WrittenPrefix /\ BatchPlaced
  BY <1>1 DEF LSNOrder, BatchPlaced, Resting, TicketsCurrent, WrittenPrefix, Init, IdleClient
<1>. QED  BY <1>1, SizeAssumption, <1>6 DEF DurableInv, ConfirmedStable, WatermarkStable, CheckpointStable,
       SegmentsStable, Init

\* Every step keeps DurableInv when a failure of the process is a loss of power.
LEMMA DurableStep ==
  ASSUME "process" \notin CrashKinds, TypeOK, OrderInv, DurableInv, [Next]_vars
  PROVE  DurableInv'
<1>1. CASE UNCHANGED vars
  <2>1. UNCHANGED <<file, stable, unsynced, crashes, writtenLSN, nextLSN, durableLSN, recs, slots, offset, seg, phase,
                    tickets, cl, segs, wpc, batch, todo, apc, afence>>
    BY SMTT(30), <1>1 DEF vars
  <2>2. BatchKept /\ SegmentsKept /\ TicketsKept
    BY Zenon, <2>1 DEF BatchKept, SegmentsKept, TicketsKept, Resting, DurableInv, SegmentsStable
  <2>. QED  BY <2>1, <2>2, ResolvesSelf, DurableQuiet DEF DurableInv
<1>2. ASSUME NEW c \in Clients, ClientStep(c) \/ ClientChoice(c) PROVE DurableInv'
  BY <1>2, DurableSend, DurableQuietClient, DurableFlush DEF ClientStep, ClientChoice
<1>3. CASE WriterStep
  BY <1>3, DurableQuietWriter, DurableRefuse, DurableAdmit, DurableRotate, DurableCreate, DurableWrite, DurableFails,
     DurableFinish, DurableFlush DEF WriterStep
<1>4. CASE WriterTick \/ Close \/ Ack
  BY <1>4, DurableFlush, DurableQuietWriter
<1>5. CASE AckStep
  BY <1>5, DurableStore, DurableQuietWriter DEF AckStep
<1>6. CASE ProcessCrash \/ PowerLoss \/ Open \/ OpenRefused
  BY <1>6, DurablePowerLoss, DurableOpen DEF ProcessCrash
<1>. QED  BY <1>1, <1>2, <1>3, <1>4, <1>5, <1>6 DEF Next
=============================================================================
