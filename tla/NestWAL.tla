------------------------------- MODULE NestWAL -------------------------------
(***************************************************************************)
(* The segmented write-ahead log of framework/nestwal: one writer          *)
(* goroutine that batches, writes and fsyncs; blocking Append, pipelined   *)
(* Enqueue with durability tickets, Sync, Ack with its two-slot            *)
(* checkpoint, Close, process and power failures, and Open's recovery.     *)
(*                                                                         *)
(* Data abstraction: a record is its submission number, every frame has    *)
(* unit size, so a fence (segment, offset) is the number of records up to  *)
(* it and segment s holds the positions (s-1)*SegmentRecords+1 ..          *)
(* s*SegmentRecords.  Errors are told apart only as "rejected" (known not  *)
(* written) and "err" (closed by the terminal state: outcome unknown).     *)
(* Calls refused before they change anything (closed, terminal, invalid    *)
(* fence) leave no step.                                                   *)
(*                                                                         *)
(* A definition named X_fault is X with one seeded fault.  Nothing uses it *)
(* but the mutation runs listed in PROJECT.json.                           *)
(***************************************************************************)
EXTENDS Integers, Sequences, FiniteSets

CONSTANTS
  Clients,          \* goroutines calling Append, Enqueue, Sync
  None,             \* no client: a record, or a barrier nobody waits for
  Ops,              \* calls the clients make, a subset of {"async", "strict", "ticket", "sync"}
  MaxRecords,       \* bound: records submitted in a behaviour
  QueueCapacity,    \* Options.QueueCapacity
  BatchMaxRecords,  \* Options.BatchMaxRecords
  SegmentRecords,   \* Options.SegmentBytes, in records
  MaxDiskRecords,   \* Options.MaxDiskBytes, in records
  RetainSegments,   \* Options.RetainSegments
  Faults,           \* which I/O may fail, a subset of {"write", "fsync", "checkpoint", "remove"}
  CrashKinds,       \* a subset of {"process", "power", "garbage"}
  MaxCrashes        \* bound: failures in a behaviour

ASSUME NoneAssumption == None \notin Clients
ASSUME SizeAssumption ==
  /\ MaxRecords \in Nat /\ MaxCrashes \in Nat /\ MaxDiskRecords \in Nat
  /\ QueueCapacity \in Nat \ {0} /\ BatchMaxRecords \in Nat \ {0}
  /\ SegmentRecords \in Nat \ {0} /\ RetainSegments \in Nat \ {0}

VARIABLES
  \* stable storage and page cache
  file,        \* record numbers in the segment files, in log order
  stable,      \* length of the prefix of file that is on stable storage
  segs,        \* numbers of the segment files that exist
  slots,       \* the two checkpoint slots
  corrupt,     \* a power loss left unreadable non-zero bytes after the last whole frame
  \* the WAL object
  phase,       \* "up", "down" (before Open) or "refused" (Open returned ErrCorrupt)
  closed, terminal,
  offset, seg, unsynced,
  writtenLSN, durableLSN, nextLSN,
  reserved,    \* reservedBytes
  tickets,     \* pending tickets in registration order
  checkpoint,
  queue,       \* appendCh
  wpc,         \* where the writer goroutine is
  batch,       \* the batch it holds
  todo,        \* positions of the batch still to be written
  draining,    \* the writer is in drainAndClose
  \* callers and history
  cl,          \* what each client is doing
  apc, afence, \* the goroutine calling Ack, and the fence it acknowledges
  recs,        \* every submitted record: kind, LSN, incarnation and outcome
  crashes

vars == <<file, stable, segs, slots, corrupt, phase, closed, terminal, offset, seg,
          unsynced, writtenLSN, durableLSN, nextLSN, reserved, tickets, checkpoint,
          queue, wpc, batch, todo, draining, cl, apc, afence, recs, crashes>>

diskVars == <<file, segs, slots, corrupt>>
syncVars == <<stable, unsynced, terminal, durableLSN, tickets, recs>>
posVars == <<offset, seg, writtenLSN>>
writerVars == <<wpc, batch, todo, draining>>
ackVars == <<apc, afence, checkpoint>>
processVars == <<phase, crashes>>

-----------------------------------------------------------------------------
(* Helpers *)

Kinds == {"async", "strict", "ticket"}
Outcomes == {"pending", "ok", "rejected", "err", "lost"}

\* A request in appendCh: a record, or (rec = 0) the barrier of a Sync caller.
Request(i) == [rec |-> i, from |-> None]
Barrier(c) == [rec |-> 0, from |-> c]
Abandoned(s, c) == [i \in DOMAIN s |-> IF s[i] = Barrier(c) THEN Barrier(None) ELSE s[i]]

IdsOf(b) == {b[i].rec : i \in DOMAIN b} \ {0}
Waiting(b) == {b[i].from : i \in DOMAIN b} \ {None}

IsTicket(i) == recs[i].kind = "ticket"
SegmentOf(f) == (f + SegmentRecords - 1) \div SegmentRecords

\* The diskBytes counter: frames written, less the frames of removed segments.
DiskRecords == Cardinality({p \in 1..offset : SegmentOf(p) \in segs})

\* stateMu is held across the steps of writeBatch.
StateFree == wpc \notin {"write", "create"}
\* enqueueMu is held between the send of a ticket record and its registration.
EnqueueFree == \A c \in Clients : cl[c].pc # "register"
\* lifecycleMu.RLock is held from the closed check until the call left appendCh.
Admitting == {"sendAsync", "sendStrict", "sendTicket", "register"}

IdleClient == [pc |-> "idle", rec |-> 0, boundary |-> 0, promised |-> {}, reply |-> "none"]
At(c, p) == phase = "up" /\ cl[c].pc = p
Goto(c, p) == cl' = [cl EXCEPT ![c].pc = p]
Return(c) == cl' = [cl EXCEPT ![c] = IdleClient]

\* done <- appendResult{...}: only Append listens there, a ticket record is
\* answered through its ticket.
Replied(R, ids, res) ==
  [i \in DOMAIN R |-> IF i \in ids /\ R[i].kind # "ticket" /\ R[i].res = "pending"
                      THEN [R[i] EXCEPT !.res = res] ELSE R[i]]

Answered_fault(b, res) ==
  [c \in Clients |-> IF c \in Waiting(b) /\ res = "ok" THEN [cl[c] EXCEPT !.reply = res] ELSE cl[c]]

\* Replies to the barriers of a batch.
Answered(b, res) ==
  [c \in Clients |-> IF c \in Waiting(b) THEN [cl[c] EXCEPT !.reply = res] ELSE cl[c]]

-----------------------------------------------------------------------------
(* Tickets and fsync: resolveDurableLocked, failPendingTickets and           *)
(* syncActiveLocked.  R is recs after the replies the caller itself sends.   *)

Settled(R, ids, durable) ==
  [i \in DOMAIN R |-> IF i \in ids
                      THEN [R[i] EXCEPT !.res = IF R[i].lsn <= durable THEN "ok" ELSE "err"]
                      ELSE R[i]]

resolveDurable_fault(R) ==
  /\ durableLSN' = nextLSN
  /\ recs' = R
  /\ UNCHANGED tickets

\* The watermark is published before the tickets it covers are closed in FIFO
\* order, stopping at the first one beyond it.
resolveDurable(R) ==
  /\ durableLSN' = IF durableLSN < writtenLSN THEN writtenLSN ELSE durableLSN
  /\ \E n \in 0..Len(tickets) :
       /\ \A j \in 1..n : R[tickets[j]].lsn <= writtenLSN
       /\ n < Len(tickets) => R[tickets[n + 1]].lsn > writtenLSN
       /\ tickets' = SubSeq(tickets, n + 1, Len(tickets))
       /\ recs' = Settled(R, {tickets[j] : j \in 1..n}, writtenLSN)

\* Every pending ticket is closed; one the watermark already covers succeeds.
failPendingTickets(R) ==
  /\ recs' = Settled(R, {tickets[j] : j \in DOMAIN tickets}, durableLSN)
  /\ tickets' = <<>>
  /\ UNCHANGED durableLSN

\* fsync of the active segment makes the log stable to its end provided that
\* every earlier segment already is.
Flushed == IF stable >= (seg - 1) * SegmentRecords THEN Len(file) ELSE stable

\* fsync is tried again after it failed.
syncActiveLocked_fault(result, R) ==
  \/ ~unsynced /\ result = "nil" /\ resolveDurable(R) /\ UNCHANGED <<stable, unsynced, terminal>>
  \/ unsynced /\ result = "nil" /\ resolveDurable(R) /\ stable' = Flushed /\ unsynced' = FALSE /\ UNCHANGED terminal
  \/ /\ unsynced /\ "fsync" \in Faults /\ result = "err" /\ failPendingTickets(R)
     /\ terminal' = TRUE /\ UNCHANGED <<stable, unsynced>>

\* Tickets registered after the fsync that covers them are not looked at again.
syncActiveLocked_fault2(result, R) ==
  \/ terminal /\ result = "err" /\ failPendingTickets(R) /\ UNCHANGED <<stable, unsynced, terminal>>
  \/ ~terminal /\ ~unsynced /\ result = "nil" /\ recs' = R /\ UNCHANGED <<stable, unsynced, terminal, durableLSN, tickets>>
  \/ /\ ~terminal /\ unsynced /\ result = "nil" /\ resolveDurable(R)
     /\ stable' = Flushed /\ unsynced' = FALSE /\ UNCHANGED terminal

syncActiveLocked(result, R) ==
  \/ /\ terminal
     /\ result = "err"
     /\ failPendingTickets(R)
     /\ UNCHANGED <<stable, unsynced, terminal>>
  \/ /\ ~terminal /\ ~unsynced
     /\ result = "nil"
     /\ resolveDurable(R)
     /\ UNCHANGED <<stable, unsynced, terminal>>
  \/ /\ ~terminal /\ unsynced
     /\ result = "nil"
     /\ stable' = Flushed
     /\ unsynced' = FALSE
     /\ resolveDurable(R)
     /\ UNCHANGED terminal
  \/ /\ ~terminal /\ unsynced /\ "fsync" \in Faults
     /\ result = "err"
     /\ terminal' = TRUE
     /\ failPendingTickets(R)
     /\ UNCHANGED <<stable, unsynced>>

-----------------------------------------------------------------------------
(* Append: ctx only covers the send; after it the caller waits for the writer *)

\* Bound: records submitted, or about to be.
WithinBound ==
  Len(recs) + Cardinality({d \in Clients : cl[d].pc \in {"sendAsync", "sendStrict", "reserved", "sendTicket"}})
    < MaxRecords

Submit(c, kind, lsn, next) ==
  /\ Len(queue) < QueueCapacity
  /\ recs' = Append(recs, [kind |-> kind, lsn |-> lsn, inc |-> crashes, res |-> "pending"])
  /\ queue' = Append(queue, Request(Len(recs) + 1))
  /\ cl' = [cl EXCEPT ![c].pc = next, ![c].rec = Len(recs) + 1]

AppendBegin(c) ==
  /\ At(c, "idle") /\ ~closed /\ ~terminal
  /\ \/ "async" \in Ops /\ Goto(c, "sendAsync")
     \/ "strict" \in Ops /\ Goto(c, "sendStrict")
  /\ WithinBound
  /\ UNCHANGED <<diskVars, syncVars, posVars, writerVars, ackVars, processVars,
                 closed, nextLSN, reserved, queue>>

AppendSend(c) ==
  /\ \/ At(c, "sendAsync") /\ Submit(c, "async", 0, "wait")
     \/ At(c, "sendStrict") /\ Submit(c, "strict", 0, "wait")
  /\ UNCHANGED <<diskVars, posVars, writerVars, ackVars, processVars, stable, unsynced,
                 terminal, durableLSN, tickets, closed, nextLSN, reserved>>

AppendCancel(c) ==
  /\ At(c, "sendAsync") \/ At(c, "sendStrict")
  /\ Return(c)
  /\ UNCHANGED <<diskVars, syncVars, posVars, writerVars, ackVars, processVars,
                 closed, nextLSN, reserved, queue>>

AppendReturn(c) ==
  /\ At(c, "wait") /\ recs[cl[c].rec].res # "pending"
  /\ Return(c)
  /\ UNCHANGED <<diskVars, syncVars, posVars, writerVars, ackVars, processVars,
                 closed, nextLSN, reserved, queue>>

-----------------------------------------------------------------------------
(* Enqueue: reserve capacity, check closed and terminal under lifecycleMu,    *)
(* send with the next LSN, and only then register the ticket                  *)

EnqueueReserve(c) ==
  /\ At(c, "idle") /\ "ticket" \in Ops
  /\ WithinBound
  /\ reserved' = reserved + 1
  /\ Goto(c, IF DiskRecords + reserved + 1 > MaxDiskRecords THEN "over" ELSE "reserved")
  /\ UNCHANGED <<diskVars, syncVars, posVars, writerVars, ackVars, processVars,
                 closed, nextLSN, queue>>

EnqueueRefuse_fault(c) ==
  /\ At(c, "over") \/ (At(c, "reserved") /\ (closed \/ terminal))
     \/ (At(c, "sendTicket") /\ EnqueueFree /\ Len(queue) >= QueueCapacity)
  /\ Return(c)
  /\ UNCHANGED <<diskVars, syncVars, posVars, writerVars, ackVars, processVars,
                 closed, nextLSN, reserved, queue>>

EnqueueRefuse(c) ==
  /\ \/ At(c, "over")
     \/ At(c, "reserved") /\ (closed \/ terminal)
     \/ At(c, "sendTicket") /\ EnqueueFree /\ Len(queue) >= QueueCapacity
  /\ reserved' = reserved - 1
  /\ Return(c)
  /\ UNCHANGED <<diskVars, syncVars, posVars, writerVars, ackVars, processVars,
                 closed, nextLSN, queue>>

EnqueueCheck(c) ==
  /\ At(c, "reserved") /\ ~closed /\ ~terminal
  /\ Goto(c, "sendTicket")
  /\ UNCHANGED <<diskVars, syncVars, posVars, writerVars, ackVars, processVars,
                 closed, nextLSN, reserved, queue>>

EnqueueSend(c) ==
  /\ At(c, "sendTicket") /\ EnqueueFree
  /\ Submit(c, "ticket", nextLSN + 1, "register")
  /\ nextLSN' = nextLSN + 1
  /\ UNCHANGED <<diskVars, posVars, writerVars, ackVars, processVars, stable, unsynced,
                 terminal, durableLSN, tickets, closed, reserved>>

EnqueueRegister(c) ==
  /\ At(c, "register")
  /\ tickets' = Append(tickets, cl[c].rec)
  /\ Return(c)
  /\ UNCHANGED <<diskVars, posVars, writerVars, ackVars, processVars, stable, unsynced,
                 terminal, durableLSN, recs, closed, nextLSN, reserved, queue>>

-----------------------------------------------------------------------------
(* Sync: a barrier through the same queue, unless the watermark already       *)
(* covers every issued LSN and the queue is empty; then an fsync              *)

\* What a Sync that starts now must make stable: records of this incarnation
\* whose ticket was handed out or whose Append returned success.
Promised ==
  {i \in DOMAIN recs :
     /\ recs[i].inc = crashes
     /\ \/ IsTicket(i) /\ ~\E d \in Clients : At(d, "register") /\ cl[d].rec = i
        \/ recs[i].res = "ok"}

SyncBegin(c) ==
  /\ At(c, "idle") /\ "sync" \in Ops /\ ~terminal
  /\ cl' = [cl EXCEPT ![c].pc = "syncRead", ![c].promised = Promised]
  /\ UNCHANGED <<diskVars, syncVars, posVars, writerVars, ackVars, processVars,
                 closed, nextLSN, reserved, queue>>

SyncBoundary(c) ==
  /\ At(c, "syncRead") /\ EnqueueFree
  /\ cl' = [cl EXCEPT ![c].pc = "syncCheck", ![c].boundary = nextLSN]
  /\ UNCHANGED <<diskVars, syncVars, posVars, writerVars, ackVars, processVars,
                 closed, nextLSN, reserved, queue>>

SyncCheck_fault(c) ==
  /\ At(c, "syncCheck")
  /\ Goto(c, IF closed \/ (durableLSN >= cl[c].boundary /\ queue = <<>>) THEN "syncFlush" ELSE "syncSend")
  /\ UNCHANGED <<diskVars, syncVars, posVars, writerVars, ackVars, processVars,
                 closed, nextLSN, reserved, queue>>

SyncCheck(c) ==
  /\ At(c, "syncCheck")
  /\ Goto(c, IF durableLSN >= cl[c].boundary /\ queue = <<>> THEN "syncFlush" ELSE "syncSend")
  /\ UNCHANGED <<diskVars, syncVars, posVars, writerVars, ackVars, processVars,
                 closed, nextLSN, reserved, queue>>

SyncSend(c) ==
  /\ At(c, "syncSend") /\ Len(queue) < QueueCapacity
  /\ queue' = Append(queue, Barrier(c))
  /\ Goto(c, "syncWait")
  /\ UNCHANGED <<diskVars, syncVars, posVars, writerVars, ackVars, processVars,
                 closed, nextLSN, reserved>>

\* The barrier's reply, or, once the writer has exited, the terminal state.
SyncReply(c) ==
  /\ \/ At(c, "syncSend") /\ wpc = "exited"
     \/ At(c, "syncWait") /\ (wpc = "exited" \/ cl[c].reply # "none")
  /\ IF cl[c].reply = "err" \/ (cl[c].reply = "none" /\ terminal) THEN Return(c) ELSE Goto(c, "syncFlush")
  /\ queue' = Abandoned(queue, c)
  /\ batch' = Abandoned(batch, c)
  /\ UNCHANGED <<diskVars, syncVars, posVars, ackVars, processVars, closed, nextLSN, reserved,
                 wpc, todo, draining>>

SyncCancel(c) ==
  /\ At(c, "syncSend") \/ At(c, "syncWait")
  /\ Return(c)
  /\ queue' = Abandoned(queue, c)
  /\ batch' = Abandoned(batch, c)
  /\ UNCHANGED <<diskVars, syncVars, posVars, ackVars, processVars, closed, nextLSN, reserved,
                 wpc, todo, draining>>

SyncFlush(c) ==
  /\ At(c, "syncFlush") /\ StateFree
  /\ \/ syncActiveLocked("nil", recs) /\ Goto(c, "synced")
     \/ syncActiveLocked("err", recs) /\ Return(c)
  /\ UNCHANGED <<diskVars, posVars, writerVars, ackVars, processVars, closed, nextLSN, reserved, queue>>

SyncReturn(c) ==
  /\ At(c, "synced")
  /\ Return(c)
  /\ UNCHANGED <<diskVars, syncVars, posVars, writerVars, ackVars, processVars,
                 closed, nextLSN, reserved, queue>>

-----------------------------------------------------------------------------
(* The writer goroutine *)

\* Where processBatch returns to.
Back == IF draining THEN "drain" ELSE "loop"

WriterTake ==
  /\ phase = "up" /\ wpc = "loop" /\ queue # <<>>
  /\ batch' = <<Head(queue)>>
  /\ queue' = Tail(queue)
  /\ wpc' = "collect"
  /\ UNCHANGED <<diskVars, syncVars, posVars, ackVars, processVars, closed, nextLSN, reserved,
                 todo, draining, cl>>

\* A barrier received after the first request ends the batch.
WriterCollect ==
  /\ phase = "up" /\ wpc = "collect" /\ ~draining /\ queue # <<>>
  /\ Len(batch) < BatchMaxRecords
  /\ Len(batch) = 1 \/ batch[Len(batch)].rec # 0
  /\ batch' = Append(batch, Head(queue))
  /\ queue' = Tail(queue)
  /\ UNCHANGED <<diskVars, syncVars, posVars, ackVars, processVars, closed, nextLSN, reserved,
                 wpc, todo, draining, cl>>

\* takeQueued: what is queued now, at most BatchMaxRecords, barriers included.
WriterDrain ==
  /\ phase = "up" /\ wpc = "drain" /\ queue # <<>>
  /\ LET n == IF Len(queue) < BatchMaxRecords THEN Len(queue) ELSE BatchMaxRecords IN
       /\ batch' = SubSeq(queue, 1, n)
       /\ queue' = SubSeq(queue, n + 1, Len(queue))
  /\ wpc' = "collect"
  /\ UNCHANGED <<diskVars, syncVars, posVars, ackVars, processVars, closed, nextLSN, reserved,
                 todo, draining, cl>>

Unreserved == {i \in IdsOf(batch) : ~IsTicket(i)}
Reserved == {i \in IdsOf(batch) : IsTicket(i)}


\* admitUnreserved: over the disk limit every blocking record of the batch is
\* rejected; a ticket record holds its reservation and never is.
Admitted ==
  IF \/ Unreserved = {}
     \/ DiskRecords + reserved + Cardinality(Unreserved) <= MaxDiskRecords
  THEN IdsOf(batch) ELSE Reserved

Fenced_fault == FALSE

\* processRecords looks at the terminal state before anything else.
Fenced == terminal

\* processRecords before the write: nothing to write, or the WAL is terminal.
WriterRefuse ==
  /\ phase = "up" /\ wpc = "collect"
  /\ \/ /\ IdsOf(batch) = {}
        /\ cl' = Answered(batch, IF terminal THEN "err" ELSE "ok")
        /\ UNCHANGED <<recs, tickets, durableLSN>>
     \/ /\ IdsOf(batch) # {} /\ Fenced
        /\ failPendingTickets(Replied(recs, IdsOf(batch), "err"))
        /\ cl' = Answered(batch, "err")
  /\ batch' = <<>>
  /\ wpc' = Back
  /\ UNCHANGED <<diskVars, stable, unsynced, terminal, posVars, ackVars, processVars, closed,
                 nextLSN, reserved, queue, todo, draining>>

\* processRecords: capacity admission, then the reservation of what is written
\* is given back.
WriterAdmit ==
  /\ phase = "up" /\ wpc = "collect" /\ IdsOf(batch) # {} /\ ~Fenced
  /\ recs' = Replied(recs, IdsOf(batch) \ Admitted, "rejected")
  /\ reserved' = reserved - Cardinality(Reserved)
  /\ IF Admitted = {}
     THEN /\ cl' = Answered(batch, "ok")
          /\ batch' = <<>>
          /\ wpc' = Back
          /\ UNCHANGED todo
     ELSE /\ todo' = {p \in DOMAIN batch : batch[p].rec \in Admitted}
          /\ wpc' = "ready"
          /\ UNCHANGED <<cl, batch>>
  /\ UNCHANGED <<diskVars, stable, unsynced, terminal, durableLSN, tickets, posVars, ackVars,
                 processVars, closed, nextLSN, queue, draining>>

Writing == phase = "up" /\ wpc \in {"ready", "write"}
SegmentFull == offset = seg * SegmentRecords

\* A failed writeBatch: the whole batch is answered with the terminal error.
BatchFailed ==
  /\ cl' = Answered(batch, "err")
  /\ batch' = <<>>
  /\ todo' = {}
  /\ wpc' = Back

\* rotateLocked: the full segment is synced, then the next one is created.
WriterRotate ==
  /\ Writing /\ todo # {} /\ SegmentFull
  /\ \/ /\ syncActiveLocked("nil", recs)
        /\ wpc' = "create"
        /\ UNCHANGED <<cl, batch, todo>>
     \/ /\ syncActiveLocked("err", Replied(recs, IdsOf(batch), "err"))
        /\ BatchFailed
  /\ UNCHANGED <<diskVars, posVars, ackVars, processVars, closed, nextLSN, reserved, queue, draining>>

WriterCreate ==
  /\ phase = "up" /\ wpc = "create"
  /\ seg' = seg + 1
  /\ segs' = segs \cup {seg + 1}
  /\ wpc' = "write"
  /\ UNCHANGED <<file, slots, corrupt, syncVars, offset, writtenLSN, ackVars, processVars, closed,
                 nextLSN, reserved, queue, batch, todo, draining, cl>>

NextFrame(p) == p \in todo /\ \A q \in todo : p <= q

\* One frame of the buffer writeBatch writes: a failure can leave any whole
\* number of its frames in the file.
WriterWrite ==
  /\ Writing /\ ~SegmentFull
  /\ \E p \in todo :
       /\ NextFrame(p)
       /\ file' = Append(file, batch[p].rec)
       /\ todo' = todo \ {p}
       /\ writtenLSN' = IF recs[batch[p].rec].lsn > writtenLSN THEN recs[batch[p].rec].lsn ELSE writtenLSN
  /\ offset' = offset + 1
  /\ unsynced' = TRUE
  /\ wpc' = "write"
  /\ UNCHANGED <<stable, segs, slots, corrupt, terminal, durableLSN, tickets, recs, seg, ackVars,
                 processVars, closed, nextLSN, reserved, queue, batch, draining, cl>>

\* A failed write, or a failed creation of the next segment, whose file may be
\* left behind.  setTerminal follows the unlock of stateMu; a Sync or an Ack in
\* between does no more than it would have done before the write.
WriterFails ==
  /\ "write" \in Faults
  /\ \/ Writing /\ todo # {} /\ ~SegmentFull /\ UNCHANGED segs
     \/ phase = "up" /\ wpc = "create" /\ segs' \in {segs, segs \cup {seg + 1}}
  /\ terminal' = TRUE
  /\ IF terminal
     THEN recs' = Replied(recs, IdsOf(batch), "err") /\ UNCHANGED <<durableLSN, tickets>>
     ELSE failPendingTickets(Replied(recs, IdsOf(batch), "err"))
  /\ BatchFailed
  /\ UNCHANGED <<file, slots, corrupt, stable, unsynced, posVars, ackVars, processVars, closed, nextLSN,
                 reserved, queue, draining>>

RequireSync_fault == \E i \in IdsOf(batch) : IsTicket(i)

RequireSync == \E i \in IdsOf(batch) : recs[i].kind # "async" /\ recs[i].res # "rejected"

\* The end of writeBatch, and the replies.
WriterFinish ==
  /\ Writing /\ todo = {}
  /\ \/ /\ RequireSync
        /\ syncActiveLocked("nil", Replied(recs, IdsOf(batch), "ok"))
        /\ cl' = Answered(batch, "ok")
     \/ /\ RequireSync
        /\ syncActiveLocked("err", Replied(recs, IdsOf(batch), "err"))
        /\ cl' = Answered(batch, "err")
     \/ /\ ~RequireSync
        /\ recs' = Replied(recs, IdsOf(batch), "ok")
        /\ cl' = Answered(batch, "ok")
        /\ UNCHANGED <<stable, unsynced, terminal, durableLSN, tickets>>
  /\ batch' = <<>>
  /\ wpc' = Back
  /\ UNCHANGED <<diskVars, posVars, ackVars, processVars, closed, nextLSN, reserved, queue, todo, draining>>

\* The group-commit ticker.
WriterTick ==
  /\ phase = "up" /\ wpc = "loop"
  /\ \E result \in {"nil", "err"} : syncActiveLocked(result, recs)
  /\ UNCHANGED <<diskVars, posVars, writerVars, ackVars, processVars, closed, nextLSN, reserved, queue, cl>>

-----------------------------------------------------------------------------
(* Close *)

Close ==
  /\ phase = "up" /\ ~closed
  /\ \A c \in Clients : cl[c].pc \notin Admitting
  /\ closed' = TRUE
  /\ UNCHANGED <<diskVars, syncVars, posVars, writerVars, ackVars, processVars,
                 nextLSN, reserved, queue, cl>>

WriterStop_fault ==
  /\ phase = "up" /\ wpc = "loop" /\ closed
  /\ wpc' = "stop"
  /\ UNCHANGED <<diskVars, syncVars, posVars, ackVars, processVars, closed, nextLSN, reserved,
                 queue, batch, todo, draining, cl>>

WriterStop ==
  /\ phase = "up" /\ wpc = "loop" /\ closed
  /\ wpc' = "drain"
  /\ draining' = TRUE
  /\ UNCHANGED <<diskVars, syncVars, posVars, ackVars, processVars, closed, nextLSN, reserved,
                 queue, batch, todo, cl>>

WriterCloseActive_fault ==
  /\ phase = "up" /\ wpc = "drain" /\ queue = <<>>
  /\ syncActiveLocked("nil", recs)
  /\ wpc' = "stop"
  /\ UNCHANGED <<diskVars, posVars, ackVars, processVars, closed, nextLSN, reserved, queue, batch,
                 todo, draining, cl>>

\* syncAndCloseActive once the queue was found empty.
WriterCloseActive ==
  /\ phase = "up" /\ wpc = "drain" /\ queue = <<>>
  /\ \E result \in {"nil", "err"} : syncActiveLocked(result, recs)
  /\ wpc' = "stop"
  /\ UNCHANGED <<diskVars, posVars, ackVars, processVars, closed, nextLSN, reserved, queue, batch,
                 todo, draining, cl>>

\* The directory lock is handed over only after the last Ack has left.
WriterExit ==
  /\ phase = "up" /\ wpc = "stop" /\ apc = "idle"
  /\ wpc' = "exited"
  /\ UNCHANGED <<diskVars, syncVars, posVars, ackVars, processVars, closed, nextLSN, reserved,
                 queue, batch, todo, draining, cl>>

-----------------------------------------------------------------------------
(* Ack, under checkpointMu: flush the covering segment, store the checkpoint  *)
(* in its slot, remove acknowledged segments beyond the retained ones         *)

Ack_fault ==
  /\ phase = "up" /\ wpc # "exited" /\ apc = "idle" /\ StateFree /\ ~terminal
  /\ \E fence \in checkpoint.fence + 1 .. offset : apc' = "store" /\ afence' = fence
  /\ UNCHANGED <<diskVars, syncVars, posVars, writerVars, processVars, closed, nextLSN, reserved,
                 queue, cl, checkpoint>>

\* An Ack admitted before Close may run until the writer exits; the terminal
\* check it makes first is made again by syncActive, which decides.
Ack ==
  /\ phase = "up" /\ wpc # "exited" /\ apc = "idle" /\ StateFree
  /\ \E fence \in checkpoint.fence + 1 .. offset :
       \/ syncActiveLocked("nil", recs) /\ apc' = "store" /\ afence' = fence
       \/ syncActiveLocked("err", recs) /\ UNCHANGED <<apc, afence>>
  /\ UNCHANGED <<diskVars, posVars, writerVars, processVars, closed, nextLSN, reserved, queue, cl, checkpoint>>

NextCheckpoint == [gen |-> checkpoint.gen + 1, fence |-> afence]

storeCheckpoint ==
  /\ phase = "up" /\ apc = "store"
  /\ slots' = [slots EXCEPT ![NextCheckpoint.gen % 2] = NextCheckpoint]
  /\ checkpoint' = NextCheckpoint
  /\ apc' = "prune"
  /\ UNCHANGED <<file, segs, corrupt, syncVars, posVars, writerVars, processVars, closed, nextLSN,
                 reserved, queue, cl, afence>>

\* The slot may or may not hold the new value when an error is returned.
storeCheckpointFails ==
  /\ phase = "up" /\ apc = "store" /\ "checkpoint" \in Faults
  /\ slots' \in {slots, [slots EXCEPT ![NextCheckpoint.gen % 2] = NextCheckpoint]}
  /\ apc' = "idle"
  /\ afence' = 0
  /\ UNCHANGED <<file, segs, corrupt, syncVars, posVars, writerVars, processVars, closed, nextLSN,
                 reserved, queue, cl, checkpoint>>

Prunable_fault == {s \in segs : s < seg - RetainSegments}

Prunable == {s \in segs : s < SegmentOf(afence) - RetainSegments}

\* A segment whose removal fails stays behind; the loop goes on with the next.
pruneAcked ==
  /\ phase = "up" /\ apc = "prune"
  /\ \E removed \in IF "remove" \in Faults THEN SUBSET Prunable ELSE {Prunable} :
       segs' = segs \ removed
  /\ apc' = "idle"
  /\ afence' = 0
  /\ UNCHANGED <<file, slots, corrupt, syncVars, posVars, writerVars, processVars, closed, nextLSN,
                 reserved, queue, cl, checkpoint>>

-----------------------------------------------------------------------------
(* Failures and recovery *)

\* What lives in the process is gone; callers still waiting never hear back.
Forget ==
  /\ phase' = "down"
  /\ crashes' = crashes + 1
  /\ closed' = FALSE /\ terminal' = FALSE /\ unsynced' = FALSE /\ draining' = FALSE
  /\ offset' = 0 /\ seg' = 0
  /\ writtenLSN' = 0 /\ durableLSN' = 0 /\ nextLSN' = 0 /\ reserved' = 0
  /\ tickets' = <<>> /\ queue' = <<>> /\ batch' = <<>> /\ todo' = {}
  /\ wpc' = "loop"
  /\ checkpoint' = [gen |-> 0, fence |-> 0]
  /\ apc' = "idle" /\ afence' = 0
  /\ cl' = [c \in Clients |-> IdleClient]
  /\ recs' = [i \in DOMAIN recs |-> IF recs[i].res = "pending" THEN [recs[i] EXCEPT !.res = "lost"] ELSE recs[i]]

\* The process dies (or, after Close, exits); the page cache survives it.
ProcessCrash ==
  /\ phase = "up" /\ crashes < MaxCrashes /\ "process" \in CrashKinds
  /\ Forget
  /\ UNCHANGED <<file, stable, segs, slots, corrupt>>

\* The machine loses power: of what was not synced any prefix survives, followed
\* by nothing, an incomplete frame, zeros, or by other bytes.
PowerLoss ==
  /\ phase = "up" /\ crashes < MaxCrashes /\ "power" \in CrashKinds
  /\ Forget
  /\ \E k \in stable..Len(file) :
       /\ k >= (seg - 1) * SegmentRecords
       /\ file' = SubSeq(file, 1, k)
       /\ stable' = k
       /\ corrupt' \in IF "garbage" \in CrashKinds /\ k < Len(file) THEN BOOLEAN ELSE {FALSE}
  /\ UNCHANGED <<segs, slots>>

loadCheckpoint_fault == IF slots[0].gen > 0 THEN slots[0] ELSE slots[1]

loadCheckpoint == IF slots[0].gen > slots[1].gen THEN slots[0] ELSE slots[1]

IsLastSegment(s) == s \in segs /\ \A t \in segs : t <= s

Contiguous == \A s, t \in segs : \A u \in s..t : u \in segs

\* openActive, recoverTail and checkRecoveredEnd: a tail that can only be an
\* unfinished write is cut off; a gap in the segments, missing segments nobody
\* acknowledged, unreadable bytes, or an end before the checkpoint refuse.
Recoverable ==
  /\ Contiguous
  /\ 1 \notin segs => loadCheckpoint.fence > 0
  /\ ~corrupt
  /\ loadCheckpoint.fence <= Len(file)

Open ==
  /\ phase = "down"
  /\ phase' = "up"
  /\ Recoverable
  /\ checkpoint' = loadCheckpoint
  /\ \E s \in segs : IsLastSegment(s) /\ seg' = s
  /\ offset' = Len(file)
  /\ UNCHANGED <<diskVars, syncVars, writerVars, apc, afence, closed, writtenLSN, nextLSN, reserved,
                 queue, cl, crashes>>

OpenRefused ==
  /\ phase = "down"
  /\ phase' = "refused"
  /\ ~Recoverable
  /\ UNCHANGED <<diskVars, syncVars, posVars, writerVars, ackVars, closed, nextLSN, reserved,
                 queue, cl, crashes>>

-----------------------------------------------------------------------------
(* The specification *)

Init ==
  /\ file = <<>> /\ stable = 0 /\ segs = {1} /\ corrupt = FALSE
  /\ slots = [n \in 0..1 |-> [gen |-> 0, fence |-> 0]]
  /\ phase = "up" /\ closed = FALSE /\ terminal = FALSE
  /\ offset = 0 /\ seg = 1 /\ unsynced = FALSE
  /\ writtenLSN = 0 /\ durableLSN = 0 /\ nextLSN = 0 /\ reserved = 0
  /\ tickets = <<>> /\ checkpoint = [gen |-> 0, fence |-> 0]
  /\ queue = <<>> /\ wpc = "loop" /\ batch = <<>> /\ todo = {} /\ draining = FALSE
  /\ cl = [c \in Clients |-> IdleClient]
  /\ apc = "idle" /\ afence = 0
  /\ recs = <<>> /\ crashes = 0

\* Steps of a call that is under way.
ClientStep(c) ==
  \/ AppendSend(c) \/ AppendReturn(c)
  \/ EnqueueRefuse(c) \/ EnqueueCheck(c) \/ EnqueueSend(c) \/ EnqueueRegister(c)
  \/ SyncBoundary(c) \/ SyncCheck(c) \/ SyncSend(c) \/ SyncReply(c) \/ SyncFlush(c) \/ SyncReturn(c)

\* Steps a caller may or may not take.
ClientChoice(c) ==
  AppendBegin(c) \/ AppendCancel(c) \/ EnqueueReserve(c) \/ SyncBegin(c) \/ SyncCancel(c)

WriterStep ==
  \/ WriterTake \/ WriterCollect \/ WriterDrain \/ WriterRefuse \/ WriterAdmit \/ WriterRotate
  \/ WriterCreate \/ WriterWrite \/ WriterFails \/ WriterFinish \/ WriterStop \/ WriterCloseActive
  \/ WriterExit

AckStep == storeCheckpoint \/ storeCheckpointFails \/ pruneAcked

Next ==
  \/ \E c \in Clients : ClientStep(c) \/ ClientChoice(c)
  \/ WriterStep \/ WriterTick \/ Close
  \/ Ack \/ AckStep
  \/ ProcessCrash \/ PowerLoss \/ Open \/ OpenRefused

Spec == Init /\ [][Next]_vars

\* A goroutine that can run does.  Strong fairness where the runtime gives it:
\* blocked senders and mutex waiters are served in turn, and the select of
\* writerLoop picks among its ready cases at random, so neither the ticker nor
\* closeCh is passed over for ever.  Callers need not call, cancel or close, and
\* nothing need fail.
Fairness ==
  /\ \A c \in Clients : SF_vars(ClientStep(c))
  /\ WF_vars(WriterStep) /\ SF_vars(WriterStop) /\ SF_vars(WriterTick) /\ WF_vars(AckStep)

FairSpec == Spec /\ Fairness

-----------------------------------------------------------------------------
(* Properties *)

StableRecords == {file[p] : p \in 1..stable}

ClientPCs == {"idle", "sendAsync", "sendStrict", "wait", "over", "reserved", "sendTicket", "register",
              "syncRead", "syncCheck", "syncSend", "syncWait", "syncFlush", "synced"}

Record == [kind : Kinds, lsn : Nat, inc : Nat, res : Outcomes]

Requests == [rec : {0} \cup DOMAIN recs, from : Clients \cup {None}]

DiskType ==
  /\ file \in Seq(DOMAIN recs) /\ stable \in 0..Len(file)
  /\ segs \subseteq Nat \ {0} /\ slots \in [0..1 -> [gen : Nat, fence : Nat]] /\ corrupt \in BOOLEAN

ProcessType ==
  /\ phase \in {"up", "down", "refused"}
  /\ closed \in BOOLEAN /\ terminal \in BOOLEAN /\ unsynced \in BOOLEAN
  /\ offset \in 0..Len(file) /\ seg \in Nat
  /\ writtenLSN \in Nat /\ durableLSN \in Nat /\ nextLSN \in Nat /\ reserved \in Int
  /\ tickets \in Seq(DOMAIN recs)

WriterType ==
  /\ queue \in Seq(Requests) /\ batch \in Seq(Requests)
  /\ wpc \in {"loop", "collect", "ready", "write", "create", "drain", "stop", "exited"}
  /\ todo \subseteq DOMAIN batch /\ \A p \in todo : batch[p].rec # 0
  /\ wpc \notin {"ready", "write", "create"} => todo = {}
  /\ draining \in BOOLEAN

AckType ==
  /\ checkpoint \in [gen : Nat, fence : Nat]
  /\ apc \in {"idle", "store", "prune"} /\ afence \in Nat

ClientStates == [pc : ClientPCs, rec : {0} \cup DOMAIN recs, boundary : Nat,
                 promised : SUBSET DOMAIN recs, reply : {"none", "ok", "err"}]

ClientType ==
  /\ cl \in [Clients -> ClientStates]
  /\ \A c \in Clients : cl[c].pc = "register" => cl[c].rec # 0

HistoryType == recs \in Seq(Record) /\ crashes \in Nat

\* Type correctness of the WAL's state.
TypeOK == DiskType /\ ProcessType /\ WriterType /\ AckType /\ ClientType /\ HistoryType

\* A strict Append that returned a fence, and a ticket that resolved without an
\* error, are on stable storage: Append waits for the fsync of its batch and
\* resolveDurableLocked runs only after one.
ConfirmedStable ==
  \A i \in DOMAIN recs : recs[i].res = "ok" /\ recs[i].kind # "async" => i \in StableRecords

\* DurableLSN is a prefix watermark: every ticket record of this process whose
\* LSN it covers is stable, also one whose ticket is not registered yet.
WatermarkStable ==
  \A i \in DOMAIN recs :
    IsTicket(i) /\ recs[i].inc = crashes /\ recs[i].lsn <= durableLSN => i \in StableRecords

\* Sync returns nil only when everything handed out before it was called is
\* stable, with the shortcut, the barrier and a closing writer alike.
SyncStable == \A c \in Clients : At(c, "synced") => cl[c].promised \subseteq StableRecords

\* Whatever a failure leaves of the log is a history without holes: a record is
\* never there without the ticket records submitted before it by its process.
NoHole ==
  \A p \in DOMAIN file : \A i \in 1..(file[p] - 1) :
    IsTicket(i) /\ recs[i].inc = recs[file[p]].inc => \E q \in 1..(p - 1) : file[q] = i

\* The log keeps submission order and no record is written twice.
LogOrdered == \A p, q \in DOMAIN file : p < q => file[p] < file[q]

\* Ack flushes the covering segment before it stores a checkpoint, so neither
\* slot ever points past stable storage.
CheckpointStable == \A n \in 0..1 : slots[n].fence <= stable

\* Segments are removed only below the checkpoint a recovery would load.
PruneAcked == \A p \in DOMAIN file : SegmentOf(p) \notin segs => p <= loadCheckpoint.fence

\* Open refuses the log only when a power loss left foreign bytes in it: never
\* because of the checkpoint, the segments that remain, or how a write was cut.
OpenAccepts == phase = "refused" => corrupt

\* Until the WAL is terminal, reservedBytes counts exactly the admitted ticket
\* records that have not reached the write path, and the calls in between.
Unwritten == IdsOf(queue) \cup (IF wpc = "collect" THEN IdsOf(batch) ELSE {})
ReservationExact ==
  phase = "up" /\ ~terminal =>
    reserved = Cardinality({i \in Unwritten : IsTicket(i)})
               + Cardinality({c \in Clients : cl[c].pc \in {"over", "reserved", "sendTicket"}})


\* When the writer has exited no caller is left without an answer, and without
\* a terminal error everything written is stable.
CloseComplete ==
  wpc = "exited" =>
    /\ \A i \in DOMAIN recs : recs[i].res # "pending"
    /\ ~terminal => stable = Len(file)

\* A failed fsync is final: nothing becomes stable and the watermark does not
\* move for the rest of the process.
TerminalFreezes ==
  [][phase = "up" /\ phase' = "up" /\ terminal =>
       terminal' /\ stable' = stable /\ durableLSN' = durableLSN]_vars

-----------------------------------------------------------------------------
(* The promise: stable records are the commit log *)

Confirmed == {i \in DOMAIN recs : recs[i].res = "ok" /\ recs[i].kind # "async"}
Acked == IF phase = "up" THEN checkpoint.fence ELSE loadCheckpoint.fence

Log == INSTANCE CommitLog WITH log <- SubSeq(file, 1, stable), confirmed <- Confirmed, acked <- Acked

\* The WAL implements CommitLog: through batching, group commit, rotation, prune,
\* I/O errors and power losses, what Append, a ticket or Ack confirmed stays.
ImplementsCommitLog == Log!Spec

-----------------------------------------------------------------------------
(* Liveness *)

\* drainAndClose goes on as long as barriers arrive, and a closed WAL still
\* accepts them: nothing below is owed while callers call Sync for ever.
SyncsForEver == []<><<\E c \in Clients : SyncBegin(c)>>_vars

\* Every ticket and every Append that reached the queue is answered, even when
\* the ticket is registered after the fsync or the terminal sweep it needed.
Answers ==
  \/ SyncsForEver
  \/ \A i \in 1..MaxRecords :
       (i \in DOMAIN recs /\ recs[i].res = "pending") ~> (i \in DOMAIN recs /\ recs[i].res # "pending")

\* Every call of Sync returns.
SyncReturns == \A c \in Clients : cl[c].pc = "syncRead" ~> cl[c].pc = "idle"

\* Close returns.
CloseReturns == SyncsForEver \/ (closed ~> wpc = "exited")
=============================================================================
