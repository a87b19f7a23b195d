----------------------------- MODULE NestWALInv ------------------------------
(***************************************************************************)
(* The inductive invariants behind the theorems about the write-ahead log: *)
(* where a record can be on its way to the file, and what is stable.       *)
(***************************************************************************)
EXTENDS NestWAL

\* Positions of the batch that may still be written.
Live == IF wpc = "collect" THEN {p \in DOMAIN batch : batch[p].rec # 0} ELSE todo

InFile(i) == \E p \in DOMAIN file : file[p] = i
InQueue(i) == \E p \in DOMAIN queue : queue[p].rec = i
InBatch(i) == \E p \in Live : batch[p].rec = i

\* The writer holds no batch it admitted.
Resting == wpc \notin {"ready", "write", "create"}

Ordered(s) == \A p, q \in DOMAIN s : p < q /\ s[p].rec # 0 /\ s[q].rec # 0 => s[p].rec < s[q].rec

\* Records pass through the queue and the batch into the file in the order they
\* were submitted.
QueueInOrder ==
  /\ Ordered(queue) /\ Ordered(batch)
  /\ \A p \in DOMAIN batch, q \in DOMAIN queue : queue[q].rec # 0 => batch[p].rec < queue[q].rec
  /\ \A p \in DOMAIN file : /\ \A q \in DOMAIN queue : queue[q].rec # 0 => file[p] < queue[q].rec
                            /\ \A q \in Live : file[p] < batch[q].rec

\* What is on its way was submitted to this process.
Current ==
  /\ \A i \in DOMAIN recs : recs[i].inc <= crashes
  /\ \A p \in DOMAIN queue : queue[p].rec # 0 => recs[queue[p].rec].inc = crashes
  /\ \A p \in DOMAIN batch : batch[p].rec # 0 => recs[batch[p].rec].inc = crashes

\* A ticket record of this process is in the file or on its way there, unless a
\* terminal error has stopped the writer.
Placed ==
  \A i \in DOMAIN recs :
    IsTicket(i) /\ recs[i].inc = crashes => InFile(i) \/ InQueue(i) \/ InBatch(i) \/ (terminal /\ Resting)

\* The order of the log: channel, batch and file hold the records in submission
\* order, and no ticket record of a running writer is dropped on the way.
OrderInv == QueueInOrder /\ Current /\ Placed /\ LogOrdered /\ NoHole

-----------------------------------------------------------------------------

\* LSNs are handed out in submission order.
LSNOrder ==
  /\ writtenLSN <= nextLSN /\ durableLSN <= nextLSN
  /\ \A i \in DOMAIN recs : recs[i].inc = crashes => recs[i].lsn <= nextLSN
  /\ \A i \in DOMAIN recs : ~IsTicket(i) => recs[i].lsn = 0
  /\ \A i, j \in DOMAIN recs :
       i < j /\ IsTicket(i) /\ IsTicket(j) /\ recs[i].inc = crashes /\ recs[j].inc = crashes
         => recs[i].lsn < recs[j].lsn

\* Pending tickets, and the ones about to be registered, are of this process.
TicketsCurrent ==
  /\ \A p \in DOMAIN tickets : IsTicket(tickets[p]) /\ recs[tickets[p]].inc = crashes
  /\ \A c \in Clients : cl[c].pc = "register" => IsTicket(cl[c].rec) /\ recs[cl[c].rec].inc = crashes

\* writtenLSN is a prefix watermark of the file.
WrittenPrefix ==
  \A i \in DOMAIN recs : IsTicket(i) /\ recs[i].inc = crashes /\ recs[i].lsn <= writtenLSN => InFile(i)

\* The segments before the active one are stable, and all of the file is when
\* nothing is unsynced.
SegmentsStable ==
  /\ ~unsynced => stable = Len(file)
  /\ phase = "up" => offset = Len(file) /\ (seg - 1) * SegmentRecords <= stable
  /\ wpc = "create" => phase = "up" /\ seg * SegmentRecords <= stable
  /\ \A s \in segs : (s - 1) * SegmentRecords <= stable
  /\ apc = "store" => afence <= stable

\* Of the batch the writer admitted, a record is still to be written, in the
\* file, or answered.
BatchPlaced ==
  ~Resting => \A p \in DOMAIN batch :
    batch[p].rec # 0 /\ recs[batch[p].rec].res = "pending" /\ ~IsTicket(batch[p].rec)
      => p \in todo \/ InFile(batch[p].rec)

\* Durability, with what makes it inductive: LSNs follow submission, the written LSN
\* is a prefix of the file, rotation leaves only stable segments behind, and an
\* admitted record is written or answered.
DurableInv ==
  /\ LSNOrder /\ TicketsCurrent /\ WrittenPrefix /\ SegmentsStable /\ BatchPlaced
  /\ ConfirmedStable /\ WatermarkStable /\ CheckpointStable
-----------------------------------------------------------------------------

\* Generations alternate between the slots.  The checkpoint in memory is in its
\* slot; the other one is older, or holds a checkpoint whose store was reported as
\* failed.
SlotsInv ==
  /\ \A n \in 0..1 : (slots[n].gen > 0 /\ slots[n].gen % 2 = n) \/ slots[n] = [gen |-> 0, fence |-> 0]
  /\ phase = "up" =>
       LET other == slots[1 - (checkpoint.gen % 2)] IN
       /\ slots[checkpoint.gen % 2] = checkpoint
       /\ \/ other.gen < checkpoint.gen
          \/ other = checkpoint
          \/ other.gen = checkpoint.gen + 1 /\ checkpoint.fence < other.fence

\* A running Ack moves the checkpoint forward, and not past the end of the log.
AckInv ==
  /\ apc # "idle" => phase = "up" /\ afence <= offset
  /\ apc = "store" => checkpoint.fence < afence
  /\ apc = "prune" => afence = checkpoint.fence

\* The segment files cover the log from behind the checkpoint to its end, the
\* active one among them, and a segment that a failed rotation left behind it.
SegmentsInv ==
  /\ \A s \in segs : (s - 1) * SegmentRecords <= Len(file)
  /\ \E s \in segs : Len(file) <= s * SegmentRecords
  /\ phase = "up" => /\ offset = Len(file) /\ seg \in segs /\ offset <= seg * SegmentRecords
                     /\ \A s \in segs : s <= seg + 1
  /\ wpc = "create" => phase = "up" /\ SegmentFull
  /\ "remove" \notin Faults => Contiguous
  /\ \A p \in DOMAIN file : SegmentOf(p) \notin segs => p <= Acked
  /\ 1 \notin segs => Acked > 0

\* What recovery rests on: slots, checkpoint and segments.
RecoveryInv == SlotsInv /\ AckInv /\ SegmentsInv

\* A ticket is registered once, and is pending as long as it is registered.
TicketsPending ==
  /\ \A p \in DOMAIN tickets : recs[tickets[p]].res = "pending"
  /\ \A p, q \in DOMAIN tickets : tickets[p] = tickets[q] => p = q
  /\ \A c \in Clients : cl[c].pc = "register" =>
       /\ recs[cl[c].rec].res = "pending"
       /\ \A p \in DOMAIN tickets : tickets[p] # cl[c].rec
       /\ \A d \in Clients : cl[d].pc = "register" => d = c
=============================================================================
