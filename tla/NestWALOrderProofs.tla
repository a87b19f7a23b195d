------------------------- MODULE NestWALOrderProofs -------------------------
(***************************************************************************)
(* The log keeps submission order without duplicates or holes: OrderInv is *)
(* kept by every step, process crashes included.                           *)
(***************************************************************************)
EXTENDS NestWALFacts

\* failPendingTickets changes outcomes only.
LEMMA FailSame ==
  ASSUME TypeOK, NEW R, SameHistory(R), failPendingTickets(R)
  PROVE  SameHistory(recs')
BY SettledSame DEF failPendingTickets

\* syncActiveLocked changes outcomes only, and a terminal error stays.
LEMMA SyncSame ==
  ASSUME TypeOK, NEW R, SameHistory(R), NEW result, syncActiveLocked(result, R)
  PROVE  SameHistory(recs') /\ (terminal => terminal') /\ (result = "err" => terminal')
<1>1. ASSUME resolveDurable(R) PROVE SameHistory(recs')
  BY <1>1, SettledSame DEF resolveDurable
<1>2. ASSUME failPendingTickets(R) PROVE SameHistory(recs')
  BY <1>2, FailSame
<1>. QED  BY <1>1, <1>2 DEF syncActiveLocked

\* A step that moves no record.
LEMMA OrderUnchanged ==
  ASSUME TypeOK, OrderInv, SameHistory(recs'), terminal => terminal', UNCHANGED <<file, crashes>>,
         DOMAIN queue' = DOMAIN queue, \A p \in DOMAIN queue : queue'[p].rec = queue[p].rec,
         DOMAIN batch' = DOMAIN batch, \A p \in DOMAIN batch : batch'[p].rec = batch[p].rec,
         Live' = Live, Resting => Resting'
  PROVE  OrderInv'
<1>1. DOMAIN recs' = DOMAIN recs
  BY ProcessFacts DEF SameHistory
<1>2. /\ \A i \in DOMAIN recs : IsTicket(i)' = IsTicket(i) /\ recs'[i].inc = recs[i].inc
      /\ Live \subseteq DOMAIN batch
  BY QueueFacts DEF SameHistory, IsTicket, Live
<1>4. Current'
  BY ZenonT(30), <1>1, <1>2, QueueFacts DEF OrderInv, Current
<1>5. Placed'
  BY <1>2, <1>1 DEF InFile, InQueue, InBatch, OrderInv, Placed
<1>7. NoHole'
  <2>. QED  BY <1>2, QueueFacts DEF OrderInv, NoHole
<1>. QED  BY <1>2, <1>4, <1>5, <1>7 DEF OrderInv, LogOrdered, QueueInOrder, Ordered

\* A record or a barrier joins the end of the queue.
Submitted(r) ==
  \/ r.rec = 0 /\ UNCHANGED recs
  \/ /\ r.rec = Len(recs) + 1
     /\ \E new \in Record : new.inc = crashes /\ recs' = Append(recs, new)

\* A send adds at most one record, the newest, and changes no other.
LEMMA SubmittedFacts ==
  ASSUME TypeOK, NEW r, Submitted(r)
  PROVE  /\ DOMAIN recs \subseteq DOMAIN recs' /\ DOMAIN recs' \subseteq DOMAIN recs \cup {Len(recs) + 1}
         /\ \A i \in DOMAIN recs : recs'[i] = recs[i]
         /\ Len(recs) + 1 \in DOMAIN recs' => r.rec = Len(recs) + 1 /\ recs'[Len(recs) + 1].inc = crashes
         /\ r.rec # 0 => r.rec = Len(recs) + 1 /\ r.rec \in DOMAIN recs'
<1>a. recs \in Seq(Record) /\ Len(recs) \in Nat /\ DOMAIN recs = 1..Len(recs)
  BY ProcessFacts
<1>1. CASE r.rec = 0 /\ UNCHANGED recs
  BY <1>a, <1>1
<1>2. CASE r.rec = Len(recs) + 1 /\ \E new \in Record : new.inc = crashes /\ recs' = Append(recs, new)
  <2>1. PICK new \in Record : new.inc = crashes /\ recs' = Append(recs, new)
    BY <1>2
  <2>. QED  BY <1>a, <1>2, <2>1, AppendType
<1>. QED  BY <1>1, <1>2 DEF Submitted

\* A request sent to the channel goes behind everything on its way.
LEMMA OrderSend ==
  ASSUME TypeOK, OrderInv, NEW r, queue' = Append(queue, r),
         UNCHANGED <<file, batch, todo, wpc, terminal, crashes>>, Submitted(r)
  PROVE  OrderInv'
<1>a. /\ Len(queue') = Len(queue) + 1 /\ DOMAIN queue' = 1..(Len(queue) + 1)
      /\ \A p \in 1..Len(queue) : queue'[p] = queue[p]
      /\ queue'[Len(queue) + 1] = r
  BY DEF TypeOK, WriterType
<1>b. /\ DOMAIN recs \subseteq DOMAIN recs' /\ DOMAIN recs' \subseteq DOMAIN recs \cup {Len(recs) + 1}
      /\ \A i \in DOMAIN recs : recs'[i] = recs[i]
      /\ Len(recs) + 1 \in DOMAIN recs' => r.rec = Len(recs) + 1 /\ recs'[Len(recs) + 1].inc = crashes
      /\ r.rec # 0 => r.rec = Len(recs) + 1 /\ r.rec \in DOMAIN recs'
  BY SubmittedFacts
<1>c. Live' = Live /\ Live \subseteq DOMAIN batch
  BY QueueFacts DEF Live
<1>1. QueueInOrder'
  <2>3. \A p \in DOMAIN batch', q \in DOMAIN queue' : queue'[q].rec # 0 => batch'[p].rec < queue'[q].rec
    BY <1>a, <1>b, QueueFacts DEF OrderInv, QueueInOrder
  <2>4. \A p \in DOMAIN file : \A q \in DOMAIN queue' : queue'[q].rec # 0 => file[p] < queue'[q].rec
    BY <1>a, <1>b, QueueFacts DEF OrderInv, QueueInOrder
  <2>. QED  BY <1>c, <1>a, <1>b, QueueFacts, <2>3, <2>4 DEF OrderInv, QueueInOrder, Ordered
<1>3. Placed'
  <2>4. SUFFICES ASSUME NEW i \in DOMAIN recs', IsTicket(i)', recs'[i].inc = crashes
                 PROVE  (InFile(i) \/ InQueue(i) \/ InBatch(i) \/ (terminal /\ Resting))'
    BY DEF Placed
  <2>5. CASE i \in DOMAIN recs
    BY <1>b, <2>4, <2>5, <1>c, <1>a, QueueFacts DEF IsTicket, OrderInv, Placed, Resting, InQueue, InFile, InBatch
  <2>6. CASE i = Len(recs) + 1
    <3>1. Len(queue) + 1 \in DOMAIN queue'
      BY <1>a, QueueFacts
    <3>2. queue'[Len(queue) + 1].rec = i
      BY <1>a, <1>b, <2>4, <2>6
    <3>. QED  BY <3>1, <3>2 DEF InQueue
  <2>. QED  BY <1>b, <2>5, <2>6
<1>5. NoHole'
  <2>1. \A p \in DOMAIN file : \A i \in 1..(file[p] - 1) : i \in DOMAIN recs /\ file[p] \in DOMAIN recs
    BY QueueFacts
  <2>. QED  BY <1>b, <2>1 DEF OrderInv, NoHole, IsTicket
<1>. QED  BY <1>1, <1>a, <1>b, QueueFacts, <1>3, <1>5 DEF OrderInv, LogOrdered, Current

\* b2 and q2 are b and q, of lengths m and L, once the first n elements of q have
\* moved to the end of b.
Shifted(L, m, n, q, b, q2, b2) ==
  /\ n <= L
  /\ \A p \in 1..m : b2[p] = b[p]
  /\ \A p \in 1..n : b2[m + p] = q[p]
  /\ \A p \in 1..(L - n) : q2[p] = q[n + p]

\* The records of b followed by those of q are in order.
Sorted(L, m, q, b) ==
  /\ \A p \in 1..L : q[p].rec \in Nat
  /\ \A p, r \in 1..L : p < r /\ q[p].rec # 0 /\ q[r].rec # 0 => q[p].rec < q[r].rec
  /\ \A p, r \in 1..m : p < r /\ b[p].rec # 0 /\ b[r].rec # 0 => b[p].rec < b[r].rec
  /\ \A p \in 1..m, r \in 1..L : q[r].rec # 0 => b[p].rec < q[r].rec

\* Where the elements are after the move.
Located(L, m, n, q, b, q2, b2) ==
  /\ \A p \in 1..(m + n) : (p \in 1..m /\ b2[p] = b[p]) \/ \E r \in 1..L : b2[p] = q[r]
  /\ \A p \in 1..(L - n) : \E r \in 1..L : q2[p] = q[r]
  /\ \A r \in 1..L : (\E p \in 1..(m + n) : b2[p] = q[r]) \/ (\E p \in 1..(L - n) : q2[p] = q[r])
  /\ \A p \in 1..m : p \in 1..(m + n) /\ b2[p] = b[p]

\* No element is lost or invented by the move.
LEMMA TakeIndex ==
  ASSUME NEW L \in Nat, NEW m \in Nat, NEW n \in Nat, NEW q, NEW b, NEW q2, NEW b2,
         Shifted(L, m, n, q, b, q2, b2)
  PROVE  Located(L, m, n, q, b, q2, b2)
<1>. USE DEF Shifted
<1>1. ASSUME NEW p \in 1..(m + n) PROVE (p \in 1..m /\ b2[p] = b[p]) \/ \E r \in 1..L : b2[p] = q[r]
  <2>1. CASE p <= m
    BY <2>1
  <2>2. CASE p > m
    BY <2>2
  <2>. QED  BY <2>1, <2>2
<1>2. ASSUME NEW p \in 1..(L - n) PROVE \E r \in 1..L : q2[p] = q[r]
  OBVIOUS
<1>3. ASSUME NEW r \in 1..L
      PROVE  (\E p \in 1..(m + n) : b2[p] = q[r]) \/ (\E p \in 1..(L - n) : q2[p] = q[r])
  <2>1. CASE r <= n
    BY <2>1
  <2>2. CASE r > n
    BY <2>2
  <2>. QED  BY <2>1, <2>2
<1>. QED  BY <1>1, <1>2, <1>3 DEF Located

\* The move keeps the records in order.
LEMMA TakeOrder ==
  ASSUME NEW L \in Nat, NEW m \in Nat, NEW n \in Nat, NEW q, NEW b, NEW q2, NEW b2,
         Shifted(L, m, n, q, b, q2, b2), Sorted(L, m, q, b)
  PROVE  /\ \A p, r \in 1..(L - n) : p < r /\ q2[p].rec # 0 /\ q2[r].rec # 0 => q2[p].rec < q2[r].rec
         /\ \A p, r \in 1..(m + n) : p < r /\ b2[p].rec # 0 /\ b2[r].rec # 0 => b2[p].rec < b2[r].rec
         /\ \A p \in 1..(m + n), r \in 1..(L - n) : q2[r].rec # 0 => b2[p].rec < q2[r].rec
<1>. USE DEF Shifted, Sorted
<1>1. \A p \in 1..(L - n) : n + p \in 1..L /\ q2[p] = q[n + p]
  OBVIOUS
<1>2. ASSUME NEW p \in 1..(m + n), p > m PROVE p - m \in 1..n /\ p - m \in 1..L /\ b2[p] = q[p - m]
  BY <1>2
<1>3. ASSUME NEW p \in 1..(L - n), NEW r \in 1..(L - n), p < r, q2[p].rec # 0, q2[r].rec # 0
      PROVE  q2[p].rec < q2[r].rec
  BY <1>1, <1>3
<1>4. ASSUME NEW p \in 1..(m + n), NEW r \in 1..(m + n), p < r, b2[p].rec # 0, b2[r].rec # 0
      PROVE  b2[p].rec < b2[r].rec
  <2>1. CASE r <= m
    BY <1>4, <2>1
  <2>2. CASE p <= m /\ r > m
    BY <2>2, <1>2, <1>4
  <2>3. CASE p > m
    BY <1>4, <2>3, <1>2
  <2>. QED  BY <1>4, <2>1, <2>2, <2>3
<1>5. ASSUME NEW p \in 1..(m + n), NEW r \in 1..(L - n), q2[r].rec # 0 PROVE b2[p].rec < q2[r].rec
  <2>1. CASE p <= m
    BY <2>1, <1>1, <1>5
  <2>2. CASE p > m
    <3>1. p - m < n + r /\ p - m \in 1..L /\ n + r \in 1..L /\ b2[p] = q[p - m] /\ q2[r] = q[n + r]
      BY <1>1, <1>2, <2>2
    <3>3. CASE q[p - m].rec = 0
      BY <1>5, <3>1, <3>3
    <3>4. CASE q[p - m].rec # 0
      BY <1>5, <3>1, <3>4
    <3>. QED  BY <3>3, <3>4
  <2>. QED  BY <2>1, <2>2
<1>. QED  BY <1>3, <1>4, <1>5

\* The writer moves the first n requests of the queue to the end of its batch.
Moved(L, m, n) ==
  /\ L = Len(queue)
  /\ wpc = "collect" => m = Len(batch)
  /\ wpc # "collect" => m = 0
  /\ DOMAIN batch' = 1..(m + n) /\ DOMAIN queue' = 1..(L - n)
  /\ Shifted(L, m, n, queue, batch, queue', batch')

\* What moving the head of the channel to the batch means for positions.
LEMMA MovedFacts ==
  ASSUME TypeOK, OrderInv, NEW L \in Nat, NEW m \in Nat, NEW n \in Nat, Moved(L, m, n), todo = {}
  PROVE  /\ DOMAIN queue = 1..L /\ \A p \in 1..L : queue[p].rec \in Nat
         /\ 1..m \subseteq DOMAIN batch
         /\ DOMAIN queue' = 1..(L - n) /\ DOMAIN batch' = 1..(m + n)
         /\ Live = {p \in 1..m : batch[p].rec # 0}
         /\ 0 \notin DOMAIN recs
<1>1. DOMAIN queue = 1..Len(queue) /\ \A p \in DOMAIN queue : queue[p].rec \in Nat
  BY QueueFacts
<1>2. DOMAIN batch = 1..Len(batch) /\ Len(batch) \in Nat /\ 0 \notin DOMAIN recs
  BY QueueFacts
<1>3. L = Len(queue) /\ DOMAIN queue' = 1..(L - n) /\ DOMAIN batch' = 1..(m + n)
  BY DEF Moved
<1>4. CASE wpc = "collect"
  BY <1>4, <1>1, <1>2, <1>3 DEF Moved, Live
<1>5. CASE wpc # "collect"
  BY <1>5, <1>1, <1>2, <1>3 DEF Moved, Live
<1>. QED  BY <1>4, <1>5

\* Moving the head of the channel to the end of the batch keeps the order.
LEMMA MovedOrder ==
  ASSUME TypeOK, OrderInv, NEW L \in Nat, NEW m \in Nat, NEW n \in Nat, Moved(L, m, n), todo = {}
  PROVE  /\ \A p, r \in 1..(L - n) :
              p < r /\ queue'[p].rec # 0 /\ queue'[r].rec # 0 => queue'[p].rec < queue'[r].rec
         /\ \A p, r \in 1..(m + n) :
              p < r /\ batch'[p].rec # 0 /\ batch'[r].rec # 0 => batch'[p].rec < batch'[r].rec
         /\ \A p \in 1..(m + n), r \in 1..(L - n) : queue'[r].rec # 0 => batch'[p].rec < queue'[r].rec
         /\ \A p \in 1..(m + n) : (p \in 1..m /\ batch'[p] = batch[p]) \/ \E r \in 1..L : batch'[p] = queue[r]
         /\ \A p \in 1..(L - n) : \E r \in 1..L : queue'[p] = queue[r]
         /\ \A r \in 1..L : (\E p \in 1..(m + n) : batch'[p] = queue[r]) \/ (\E p \in 1..(L - n) : queue'[p] = queue[r])
         /\ \A p \in 1..m : p \in 1..(m + n) /\ batch'[p] = batch[p]
<1>1. DOMAIN queue = 1..L /\ 1..m \subseteq DOMAIN batch /\ \A p \in 1..L : queue[p].rec \in Nat
  BY Zenon, MovedFacts
<1>2. Sorted(L, m, queue, batch)
  BY <1>1 DEF OrderInv, QueueInOrder, Ordered, Sorted
<1>3. Shifted(L, m, n, queue, batch, queue', batch')
  BY DEF Moved
<1>4. /\ \A p \in 1..(m + n) : (p \in 1..m /\ batch'[p] = batch[p]) \/ \E r \in 1..L : batch'[p] = queue[r]
      /\ \A p \in 1..(L - n) : \E r \in 1..L : queue'[p] = queue[r]
      /\ \A r \in 1..L : (\E p \in 1..(m + n) : batch'[p] = queue[r]) \/ (\E p \in 1..(L - n) : queue'[p] = queue[r])
      /\ \A p \in 1..m : p \in 1..(m + n) /\ batch'[p] = batch[p]
  <2>1. Located(L, m, n, queue, batch, queue', batch')
    BY <1>3, TakeIndex
  <2>. QED  BY <2>1 DEF Located
<1>5. /\ \A p, r \in 1..(L - n) :
           p < r /\ queue'[p].rec # 0 /\ queue'[r].rec # 0 => queue'[p].rec < queue'[r].rec
      /\ \A p, r \in 1..(m + n) :
           p < r /\ batch'[p].rec # 0 /\ batch'[r].rec # 0 => batch'[p].rec < batch'[r].rec
      /\ \A p \in 1..(m + n), r \in 1..(L - n) : queue'[r].rec # 0 => batch'[p].rec < queue'[r].rec
  BY <1>2, <1>3, TakeOrder
<1>. QED  BY <1>4, <1>5

\* takeQueued keeps the records in order and in place.
LEMMA OrderTake ==
  ASSUME TypeOK, OrderInv, NEW L \in Nat, NEW m \in Nat, NEW n \in Nat, Moved(L, m, n),
         wpc' = "collect", todo = {}, UNCHANGED <<file, terminal, crashes, recs>>
  PROVE  OrderInv'
<1>t. /\ DOMAIN queue = 1..L /\ 1..m \subseteq DOMAIN batch
      /\ Live = {p \in 1..m : batch[p].rec # 0}
      /\ 0 \notin DOMAIN recs
  BY MovedFacts
<1>d. DOMAIN queue' = 1..(L - n) /\ DOMAIN batch' = 1..(m + n)
  BY MovedFacts
<1>a. /\ \A p \in 1..(m + n) : (p \in 1..m /\ batch'[p] = batch[p]) \/ \E r \in 1..L : batch'[p] = queue[r]
      /\ \A p \in 1..(L - n) : \E r \in 1..L : queue'[p] = queue[r]
      /\ \A r \in 1..L : (\E p \in 1..(m + n) : batch'[p] = queue[r]) \/ (\E p \in 1..(L - n) : queue'[p] = queue[r])
      /\ \A p \in 1..m : p \in 1..(m + n) /\ batch'[p] = batch[p]
  BY MovedOrder
<1>c. Live' = {p \in 1..(m + n) : batch'[p].rec # 0}
  BY <1>d DEF Live
<1>1. QueueInOrder'
  <2>2. /\ \A p, r \in 1..(L - n) :
             p < r /\ queue'[p].rec # 0 /\ queue'[r].rec # 0 => queue'[p].rec < queue'[r].rec
        /\ \A p, r \in 1..(m + n) :
             p < r /\ batch'[p].rec # 0 /\ batch'[r].rec # 0 => batch'[p].rec < batch'[r].rec
        /\ \A p \in 1..(m + n), r \in 1..(L - n) : queue'[r].rec # 0 => batch'[p].rec < queue'[r].rec
    BY MovedOrder
  <2>3. /\ \A p \in DOMAIN file : \A q \in 1..L : queue[q].rec # 0 => file[p] < queue[q].rec
        /\ \A p \in DOMAIN file : \A q \in 1..m : batch[q].rec # 0 => file[p] < batch[q].rec
    BY <1>t DEF OrderInv, QueueInOrder
  <2>4. \A p \in DOMAIN file : \A q \in 1..(L - n) : queue'[q].rec # 0 => file[p] < queue'[q].rec
    BY <1>a, <2>3
  <2>5. \A p \in DOMAIN file : \A q \in 1..(m + n) : batch'[q].rec # 0 => file[p] < batch'[q].rec
    BY <1>a, <2>3
  <2>. QED  BY <1>c, <1>d, <2>2, <2>4, <2>5 DEF QueueInOrder, Ordered
<1>2. Current'
  <2>1. /\ \A p \in 1..L : queue[p].rec # 0 => recs[queue[p].rec].inc = crashes
        /\ \A p \in 1..m : batch[p].rec # 0 => recs[batch[p].rec].inc = crashes
    BY <1>t DEF OrderInv, Current
  <2>3. \A p \in 1..(L - n) : queue'[p].rec # 0 => recs[queue'[p].rec].inc = crashes
    BY <1>a, <2>1
  <2>4. \A p \in 1..(m + n) : batch'[p].rec # 0 => recs[batch'[p].rec].inc = crashes
    BY <1>a, <2>1
  <2>. QED  BY <1>d, <2>3, <2>4 DEF OrderInv, Current
<1>3. Placed'
  <2>2. ASSUME NEW i \in DOMAIN recs, InBatch(i) PROVE InBatch(i)'
    BY <1>a, <1>c, <1>t, <2>2 DEF InBatch
  <2>3. ASSUME NEW i \in DOMAIN recs, InQueue(i) PROVE InQueue(i)' \/ InBatch(i)'
    <3>1. PICK p \in 1..L : queue[p].rec = i
      BY <1>t, <2>3 DEF InQueue
    <3>3. CASE \E q \in 1..(m + n) : batch'[q] = queue[p]
      BY <1>c, <3>1, <1>t, <3>3 DEF InBatch
    <3>4. CASE \E q \in 1..(L - n) : queue'[q] = queue[p]
      BY <1>d, <3>1, <3>4 DEF InQueue
    <3>. QED  BY <1>a, <3>3, <3>4
  <2>. QED  BY <2>2, <2>3 DEF OrderInv, Placed, IsTicket, Resting, InFile
<1>4. LogOrdered' /\ NoHole'
  BY DEF OrderInv, LogOrdered, NoHole, IsTicket
<1>. QED  BY <1>1, <1>2, <1>3, <1>4 DEF OrderInv

\* The writer lets go of its batch: without a ticket record left in it, or with
\* the WAL terminal.
LEMMA OrderDrop ==
  ASSUME TypeOK, OrderInv, SameHistory(recs'), terminal => terminal', UNCHANGED <<file, crashes, queue>>,
         batch' = <<>>, todo' = {}, wpc' \in {"drain", "loop"},
         terminal' \/ \A p \in Live : ~IsTicket(batch[p].rec)
  PROVE  OrderInv'
<1>1. DOMAIN recs' = DOMAIN recs
  BY ProcessFacts DEF SameHistory
<1>2. \A i \in DOMAIN recs : IsTicket(i)' = IsTicket(i) /\ recs'[i].inc = recs[i].inc
  BY QueueFacts DEF SameHistory, IsTicket
<1>3. Live' = {} /\ Resting' /\ DOMAIN batch' = {}
  BY DEF Live, Resting
<1>5. Current'
  BY <1>1, <1>2, <1>3, QueueFacts DEF OrderInv, Current
<1>6. Placed'
  <2>2. SUFFICES ASSUME NEW i \in DOMAIN recs, IsTicket(i), recs[i].inc = crashes
                 PROVE  InFile(i) \/ InQueue(i) \/ terminal'
    BY <1>1, <1>2, <1>3 DEF Placed, InFile, InQueue
  <2>4. ASSUME InBatch(i) PROVE terminal'
    BY <2>2, <2>4 DEF InBatch
  <2>. QED  BY <2>2, <2>4 DEF OrderInv, Placed
<1>8. NoHole'
  BY QueueFacts, <1>2 DEF OrderInv, NoHole
<1>. QED  BY <1>3, <1>5, <1>6, <1>8 DEF OrderInv, LogOrdered, QueueInOrder, Ordered

\* Admission removes blocking records from the batch, never a ticket record.
LEMMA OrderAdmit ==
  ASSUME TypeOK, OrderInv, SameHistory(recs'), UNCHANGED <<file, crashes, queue, batch, terminal>>, ~terminal,
         Live' \subseteq Live, \A p \in Live : IsTicket(batch[p].rec) => p \in Live'
  PROVE  OrderInv'
<1>1. DOMAIN recs' = DOMAIN recs
  BY ProcessFacts DEF SameHistory
<1>2. \A i \in DOMAIN recs : IsTicket(i)' = IsTicket(i) /\ recs'[i].inc = recs[i].inc
  BY QueueFacts DEF SameHistory, IsTicket
<1>4. Current'
  BY Zenon, <1>1, <1>2, QueueFacts DEF OrderInv, Current
<1>5. Placed'
  <2>2. SUFFICES ASSUME NEW i \in DOMAIN recs, IsTicket(i), recs[i].inc = crashes
                 PROVE  InFile(i) \/ InQueue(i) \/ InBatch(i)'
    BY <1>1, <1>2 DEF Placed, InFile, InQueue
  <2>4. ASSUME InBatch(i) PROVE InBatch(i)'
    BY <2>2, <2>4 DEF InBatch
  <2>. QED  BY <2>2, <2>4 DEF OrderInv, Placed
<1>7. NoHole'
  <2>1. \A p \in DOMAIN file : \A i \in 1..(file[p] - 1) : i \in DOMAIN recs /\ file[p] \in DOMAIN recs
    BY QueueFacts
  <2>. QED  BY <1>2, <2>1 DEF OrderInv, NoHole
<1>. QED  BY <1>4, <1>5, <1>7 DEF OrderInv, LogOrdered, QueueInOrder, Ordered

\* Writing the first record of what is left of the batch.
LEMMA OrderWrite ==
  ASSUME TypeOK, OrderInv, ~Resting, NEW p \in todo, \A q \in todo : p <= q,
         file' = Append(file, batch[p].rec), todo' = todo \ {p}, wpc' = "write",
         UNCHANGED <<crashes, queue, batch, terminal, recs>>
  PROVE  OrderInv'
<1>. DEFINE n == Len(file)
<1>a. /\ n \in Nat /\ DOMAIN file = 1..n /\ DOMAIN file' = 1..(n + 1)
      /\ \A k \in 1..n : file'[k] = file[k]
      /\ file'[n + 1] = batch[p].rec
  BY ProcessFacts, QueueFacts, AppendType
<1>. HIDE DEF n
<1>b. Live = todo /\ Live' = todo \ {p} /\ p \in DOMAIN batch /\ todo \subseteq DOMAIN batch
  BY QueueFacts DEF Live, Resting
<1>c. \A q \in todo : batch[q].rec # 0 /\ batch[q].rec \in Nat /\ q \in Nat
  BY QueueFacts
<1>1. QueueInOrder'
  <2>1. ASSUME NEW k \in 1..(n + 1), NEW q \in DOMAIN queue, queue[q].rec # 0 PROVE file'[k] < queue[q].rec
    <3>1. CASE k \in 1..n
      BY <1>a, <2>1, <3>1 DEF OrderInv, QueueInOrder
    <3>2. CASE k = n + 1
      BY <1>a, <1>b, <2>1, <3>2 DEF OrderInv, QueueInOrder
    <3>. QED  BY <1>a, <3>1, <3>2
  <2>2. ASSUME NEW k \in 1..(n + 1), NEW q \in todo \ {p} PROVE file'[k] < batch[q].rec
    <3>1. CASE k \in 1..n
      BY <1>a, <1>b, <3>1 DEF OrderInv, QueueInOrder
    <3>2. CASE k = n + 1
      BY <1>a, <1>c, <1>b, <3>2 DEF OrderInv, QueueInOrder, Ordered
    <3>. QED  BY <1>a, <3>1, <3>2
  <2>. QED  BY <1>a, <1>b, <2>1, <2>2 DEF OrderInv, QueueInOrder, Ordered
<1>3. Placed'
  <2>1. ASSUME NEW i, InFile(i) PROVE InFile(i)'
    BY <1>a, <2>1 DEF InFile
  <2>2. ASSUME NEW i, InBatch(i) PROVE InFile(i)' \/ InBatch(i)'
    <3>1. PICK q \in todo : batch[q].rec = i
      BY <1>b, <2>2 DEF InBatch
    <3>2. CASE q = p
      BY <1>a, <3>1, <3>2 DEF InFile
    <3>3. CASE q # p
      BY <1>b, <3>1, <3>3 DEF InBatch
    <3>. QED  BY <3>2, <3>3
  <2>3. \A i : InQueue(i)' = InQueue(i) /\ IsTicket(i)' = IsTicket(i)
    BY DEF InQueue, IsTicket
  <2>. QED  BY <2>1, <2>2, <2>3 DEF OrderInv, Placed
<1>4. LogOrdered'
  <2>1. ASSUME NEW k \in 1..(n + 1), NEW q \in 1..(n + 1), k < q PROVE file'[k] < file'[q]
    <3>1. CASE q \in 1..n
      BY <1>a, <2>1, <3>1 DEF OrderInv, LogOrdered
    <3>2. CASE q = n + 1
      BY <1>a, <2>1, <3>2, <1>b DEF OrderInv, QueueInOrder
    <3>. QED  BY <1>a, <3>1, <3>2
  <2>. QED  BY <1>a, <2>1 DEF LogOrdered
<1>5. NoHole'
  <2>0. SUFFICES ASSUME NEW k \in 1..(n + 1), NEW i \in 1..(file'[k] - 1), IsTicket(i), recs[i].inc = recs[file'[k]].inc
                 PROVE  \E q \in 1..(k - 1) : file'[q] = i
    BY <1>a DEF NoHole, IsTicket
  <2>1. CASE k \in 1..n
    BY <1>a, <2>0, <2>1 DEF OrderInv, NoHole
  <2>2. CASE k = n + 1
    <3>1. file'[k] = batch[p].rec /\ batch[p].rec \in DOMAIN recs
      BY <1>a, <1>b, <1>c, <2>2, QueueFacts
    <3>3. i \in DOMAIN recs /\ i < batch[p].rec
      BY <3>1, QueueFacts
    <3>4. InFile(i)
      BY <2>0, <3>1, <1>b, <1>c, <3>3, EarlierInFile DEF OrderInv, Current
    <3>. QED  BY <1>a, <2>2, <3>4 DEF InFile
  <2>. QED  BY <1>a, <2>1, <2>2
<1>. QED  BY <1>1, <1>3, <1>4, <1>5 DEF OrderInv, Current

\* A failure keeps a prefix of the file and empties the rest.
LEMMA OrderCrash ==
  ASSUME TypeOK, OrderInv, SameHistory(recs'), NEW k \in 0..Len(file),
         DOMAIN file' = 1..k, \A p \in 1..k : file'[p] = file[p],
         queue' = <<>>, batch' = <<>>, todo' = {}, wpc' = "loop", crashes' = crashes + 1
  PROVE  OrderInv'
<1>1. DOMAIN recs' = DOMAIN recs
  BY ProcessFacts DEF SameHistory
<1>2. \A i \in DOMAIN recs : IsTicket(i)' = IsTicket(i) /\ recs'[i].inc = recs[i].inc
  BY QueueFacts DEF SameHistory, IsTicket
<1>3. Live' = {} /\ DOMAIN batch' = {} /\ DOMAIN queue' = {}
  BY DEF Live
<1>4. QueueInOrder'
  BY <1>3 DEF QueueInOrder, Ordered
<1>5. \A i \in DOMAIN recs : recs'[i].inc <= crashes /\ recs'[i].inc \in Nat /\ crashes \in Nat
  BY <1>2, QueueFacts DEF OrderInv, Current
<1>6. Current'
  BY <1>1, <1>3, <1>5 DEF Current
<1>8. 1..k \subseteq DOMAIN file
  BY QueueFacts
<1>10. NoHole'
  <2>1. \A p \in DOMAIN file : \A i \in 1..(file[p] - 1) : i \in DOMAIN recs /\ file[p] \in DOMAIN recs
    BY QueueFacts
  <2>2. ASSUME NEW p \in 1..k, NEW i \in 1..(file[p] - 1), IsTicket(i), recs[i].inc = recs[file[p]].inc
        PROVE  \E q \in 1..(p - 1) : file'[q] = i
    BY <1>8, <2>2 DEF OrderInv, NoHole
  <2>. QED  BY <1>2, <1>8, <2>1, <2>2 DEF NoHole
<1>. QED  BY <1>4, <1>6, <1>1, <1>5, <1>8, <1>10 DEF OrderInv, LogOrdered, Placed

\* The callers: only a submission touches the queue's records.
LEMMA OrderClient ==
  ASSUME TypeOK, OrderInv, NEW c \in Clients, ClientStep(c) \/ ClientChoice(c)
  PROVE  OrderInv'
<1>0. SameHistory(recs)
  BY SameSelf
<1>1. CASE UNCHANGED <<file, crashes, queue, batch, todo, wpc, terminal, recs>>
  BY <1>0, <1>1, OrderUnchanged DEF Live, Resting
<1>2. CASE AppendSend(c) \/ EnqueueSend(c)
  <2>1. /\ UNCHANGED <<file, batch, todo, wpc, terminal, crashes>>
        /\ \E kind \in Kinds, lsn \in Nat : \E next : Submit(c, kind, lsn, next)
    <3>1. nextLSN + 1 \in Nat
      BY ProcessFacts
    <3>. QED  BY <1>2, <3>1 DEF AppendSend, EnqueueSend, Kinds, diskVars, writerVars, processVars
  <2>p. PICK kind \in Kinds, lsn \in Nat : \E next : Submit(c, kind, lsn, next)
    BY <2>1
  <2>2. PICK next : Submit(c, kind, lsn, next)
    BY <2>p
  <2>3. [kind |-> kind, lsn |-> lsn, inc |-> crashes, res |-> "pending"] \in Record
    BY ProcessFacts DEF Record, Outcomes
  <2>4. Submitted(Request(Len(recs) + 1)) /\ queue' = Append(queue, Request(Len(recs) + 1))
    BY <2>2, <2>3 DEF Submit, Submitted, Request
  <2>. QED  BY <2>1, <2>4, OrderSend
<1>3. CASE SyncSend(c)
  <2>1. UNCHANGED <<file, batch, todo, wpc, terminal, crashes>> /\ queue' = Append(queue, Barrier(c)) /\ UNCHANGED recs
    BY <1>3 DEF SyncSend, diskVars, writerVars, processVars, syncVars
  <2>2. Submitted(Barrier(c))
    BY <2>1 DEF Submitted, Barrier
  <2>. QED  BY <2>1, <2>2, OrderSend
<1>4. CASE SyncReply(c) \/ SyncCancel(c)
  <2>1. /\ UNCHANGED <<file, todo, wpc, terminal, crashes, recs>>
        /\ queue' = Abandoned(queue, c) /\ batch' = Abandoned(batch, c)
    BY <1>4 DEF SyncReply, SyncCancel, diskVars, processVars, syncVars
  <2>2. queue \in Seq(Requests) /\ batch \in Seq(Requests)
    BY DEF TypeOK, WriterType
  <2>3. /\ DOMAIN queue' = DOMAIN queue /\ \A p \in DOMAIN queue : queue'[p].rec = queue[p].rec
        /\ DOMAIN batch' = DOMAIN batch /\ \A p \in DOMAIN batch : batch'[p].rec = batch[p].rec
    BY <2>1, <2>2, AbandonedType
  <2>4. Live' = Live /\ Resting' = Resting
    BY Zenon, <2>1, <2>3 DEF Live, Resting
  <2>. QED  BY <1>0, <2>1, <2>3, <2>4, OrderUnchanged
<1>5. CASE SyncFlush(c)
  <2>1. UNCHANGED <<file, crashes, queue, batch, todo, wpc>> /\ \E result : syncActiveLocked(result, recs)
    BY <1>5 DEF SyncFlush, diskVars, writerVars, processVars
  <2>2. SameHistory(recs') /\ (terminal => terminal')
    BY <1>0, <2>1, SyncSame
  <2>. QED  BY <2>1, <2>2, OrderUnchanged DEF Live, Resting
<1>6. CASE \/ AppendReturn(c) \/ EnqueueRefuse(c) \/ EnqueueCheck(c) \/ EnqueueRegister(c) \/ SyncBoundary(c)
           \/ SyncCheck(c) \/ SyncReturn(c) \/ AppendBegin(c) \/ AppendCancel(c) \/ EnqueueReserve(c) \/ SyncBegin(c)
  <2>1. UNCHANGED <<file, crashes, queue, batch, todo, wpc, terminal, recs>>
    BY <1>6 DEF AppendReturn, EnqueueRefuse, EnqueueCheck, EnqueueRegister, SyncBoundary, SyncCheck, SyncReturn,
       AppendBegin, AppendCancel, EnqueueReserve, SyncBegin, diskVars, writerVars, processVars, syncVars
  <2>. QED  BY <1>1, <2>1
<1>. QED  BY <1>2, <1>3, <1>4, <1>5, <1>6 DEF ClientStep, ClientChoice

\* The writer receives requests.
LEMMA OrderReceive ==
  ASSUME TypeOK, OrderInv, WriterTake \/ WriterCollect \/ WriterDrain
  PROVE  OrderInv'
<1>1. UNCHANGED <<file, terminal, crashes, recs>> /\ wpc' = "collect" /\ todo = {} /\ queue # <<>>
  BY DEF WriterTake, WriterCollect, WriterDrain, diskVars, syncVars, processVars, TypeOK, WriterType
<1>2. queue \in Seq(Requests) /\ batch \in Seq(Requests) /\ Len(queue) \in Nat \ {0} /\ Len(batch) \in Nat
  BY <1>1, NonEmptyLength DEF TypeOK, WriterType
<1>3. CASE WriterTake
  BY <1>2, <1>3, TailType, <1>1, OrderTake DEF WriterTake, Moved, Shifted
<1>4. CASE WriterCollect
  <2>1. Moved(Len(queue), Len(batch), 1)
    BY <1>2, <1>4, TailType, AppendType DEF WriterCollect, Moved, Shifted
  <2>. QED  BY <1>1, <1>2, <2>1, OrderTake
<1>5. CASE WriterDrain
  <2>. DEFINE n == IF Len(queue) < BatchMaxRecords THEN Len(queue) ELSE BatchMaxRecords
  <2>1. n \in 1..Len(queue)
    BY <1>2, SizeAssumption
  <2>2. batch' = SubSeq(queue, 1, n) /\ queue' = SubSeq(queue, n + 1, Len(queue)) /\ wpc = "drain"
    BY <1>5 DEF WriterDrain
  <2>. HIDE DEF n
  <2>3. /\ batch' \in Seq(Requests) /\ Len(batch') = n /\ \A p \in 1..n : batch'[p] = queue[p]
    BY <1>2, <2>1, <2>2, SubSeqType
  <2>4. /\ queue' \in Seq(Requests) /\ Len(queue') = Len(queue) - n
        /\ \A p \in 1..(Len(queue) - n) : queue'[p] = queue[n + p]
    BY <1>2, <2>1, <2>2, SubSeqType
  <2>5. Moved(Len(queue), 0, n)
    BY <1>2, <2>1, <2>2, <2>3, <2>4 DEF Moved, Shifted
  <2>. QED  BY <1>1, <1>2, <2>1, <2>5, OrderTake
<1>. QED  BY <1>3, <1>4, <1>5

\* The writer admits or refuses what it received.
LEMMA OrderProcess ==
  ASSUME TypeOK, OrderInv, WriterRefuse \/ WriterAdmit
  PROVE  OrderInv'
<1>0. SameHistory(recs) /\ "err" \in Outcomes /\ "rejected" \in Outcomes
  BY SameSelf DEF Outcomes
<1>1. /\ UNCHANGED <<file, crashes, queue, terminal>> /\ wpc = "collect" /\ todo = {}
      /\ Live = {p \in DOMAIN batch : batch[p].rec # 0} /\ Back \in {"drain", "loop"}
  BY DEF WriterRefuse, WriterAdmit, diskVars, processVars, TypeOK, WriterType, Live, Back
<1>2. CASE WriterRefuse
  BY <1>2, <1>0, RepliedSame, FailSame, <1>1, OrderDrop DEF WriterRefuse, Fenced, IdsOf
<1>3. CASE WriterAdmit
  <2>1. SameHistory(recs') /\ ~terminal
    BY <1>0, <1>3, RepliedSame DEF WriterAdmit, Fenced
  <2>2. \A p \in Live : batch[p].rec \in IdsOf(batch) /\ (IsTicket(batch[p].rec) => batch[p].rec \in Admitted)
    BY <1>1 DEF IdsOf, Admitted, Reserved
  <2>3. CASE Admitted = {}
    <3>1. batch' = <<>> /\ wpc' = Back /\ todo' = todo
      BY <1>3, <2>3 DEF WriterAdmit
    <3>. QED  BY ZenonT(30), <1>1, <2>1, <2>2, <2>3, <3>1, OrderDrop
  <2>4. CASE Admitted # {}
    <3>1. batch' = batch /\ wpc' = "ready" /\ todo' = {p \in DOMAIN batch : batch[p].rec \in Admitted}
      BY <1>3, <2>4 DEF WriterAdmit
    <3>4. Live' \subseteq Live /\ \A p \in Live : IsTicket(batch[p].rec) => p \in Live'
      BY <1>1, <2>2, <3>1 DEF Admitted, Reserved, IdsOf, Live
    <3>. QED  BY ZenonT(30), <1>1, <2>1, <3>1, <3>4, OrderAdmit
  <2>. QED  BY <2>3, <2>4
<1>. QED  BY <1>2, <1>3

\* The writer writes, rotates, fails and finishes.
LEMMA OrderWriting ==
  ASSUME TypeOK, OrderInv, WriterRotate \/ WriterCreate \/ WriterWrite \/ WriterFails \/ WriterFinish
  PROVE  OrderInv'
<1>0. SameHistory(recs) /\ "err" \in Outcomes /\ "ok" \in Outcomes
  BY SameSelf DEF Outcomes
<1>1. SameHistory(Replied(recs, IdsOf(batch), "err")) /\ SameHistory(Replied(recs, IdsOf(batch), "ok"))
  BY <1>0, RepliedSame
<1>2. UNCHANGED <<crashes, queue>> /\ wpc \in {"ready", "write", "create"} /\ ~Resting /\ Live = todo
  BY Zenon DEF WriterRotate, WriterCreate, WriterWrite, WriterFails, WriterFinish, Writing, processVars, Live, Resting
<1>b. Back \in {"drain", "loop"}
  BY DEF Back
<1>3. CASE WriterRotate
  <2>0. UNCHANGED file
    BY <1>3 DEF WriterRotate, diskVars
  <2>1. CASE syncActiveLocked("nil", recs) /\ wpc' = "create" /\ UNCHANGED <<cl, batch, todo>>
    BY <1>0, <2>1, SyncSame, <1>2, <2>0, OrderUnchanged DEF Live
  <2>2. CASE syncActiveLocked("err", Replied(recs, IdsOf(batch), "err")) /\ BatchFailed
    BY <1>1, <2>2, SyncSame, <1>2, <1>b, <2>0, OrderDrop DEF BatchFailed
  <2>. QED  BY <1>3, <2>1, <2>2 DEF WriterRotate
<1>4. CASE WriterCreate
  BY <1>4, <1>2, <1>0, OrderUnchanged DEF WriterCreate, syncVars, Live
<1>5. CASE WriterWrite
  <2>1. PICK p \in todo : NextFrame(p) /\ file' = Append(file, batch[p].rec) /\ todo' = todo \ {p}
    BY ZenonT(30), <1>5 DEF WriterWrite
  <2>. QED  BY <1>2, <2>1, <1>5, OrderWrite DEF WriterWrite, NextFrame
<1>6. CASE WriterFails
  BY <1>6, <1>1, FailSame, <1>2, <1>b, OrderDrop DEF WriterFails, BatchFailed
<1>7. CASE WriterFinish
  BY <1>7, <1>1, SyncSame, <1>2, <1>b, OrderDrop DEF WriterFinish, diskVars
<1>. QED  BY <1>3, <1>4, <1>5, <1>6, <1>7

\* Everything else moves no record, or is a failure.
LEMMA OrderOther ==
  ASSUME TypeOK, OrderInv,
         \/ WriterStop \/ WriterCloseActive \/ WriterExit \/ WriterTick \/ Close \/ Ack \/ AckStep
         \/ ProcessCrash \/ PowerLoss \/ Open \/ OpenRefused
  PROVE  OrderInv'
<1>0. SameHistory(recs)
  BY SameSelf
<1>1. CASE WriterStop \/ WriterExit \/ Close \/ AckStep \/ Open \/ OpenRefused
  <2>1. /\ UNCHANGED <<file, crashes, queue, batch, todo, terminal, recs>>
        /\ wpc' = wpc \/ (wpc \in {"loop", "stop"} /\ wpc' \in {"drain", "exited"})
    BY Zenon, <1>1 DEF WriterStop, WriterExit, Close, AckStep, storeCheckpoint, storeCheckpointFails, pruneAcked, Open,
       OpenRefused, diskVars, syncVars, writerVars, processVars
  <2>2. Live' = Live /\ Resting' = Resting
    BY <2>1 DEF Live, Resting
  <2>. QED  BY <1>0, <2>1, <2>2, OrderUnchanged
<1>2. CASE WriterCloseActive \/ WriterTick \/ Ack
  <2>1. /\ UNCHANGED <<file, crashes, queue, batch, todo>>
        /\ \E result : syncActiveLocked(result, recs)
        /\ wpc' = wpc \/ (wpc = "drain" /\ wpc' = "stop")
    BY <1>2 DEF WriterCloseActive, WriterTick, Ack, diskVars, writerVars, processVars
  <2>2. SameHistory(recs') /\ (terminal => terminal')
    BY <1>0, <2>1, SyncSame
  <2>3. Live' = Live /\ Resting' = Resting
    BY <2>1 DEF Live, Resting
  <2>. QED  BY <2>1, <2>2, <2>3, OrderUnchanged
<1>3. CASE ProcessCrash \/ PowerLoss
  <2>1. Forget
    BY Zenon, <1>3 DEF ProcessCrash, PowerLoss
  <2>2. queue' = <<>> /\ batch' = <<>> /\ todo' = {} /\ wpc' = "loop" /\ crashes' = crashes + 1
    BY <2>1 DEF Forget
  <2>3. SameHistory(recs')
    <3>1. DOMAIN recs' = DOMAIN recs /\ recs' \in Seq(Record)
      BY <2>1, ForgetType DEF HistoryType
    <3>2. \A i \in DOMAIN recs : recs[i] \in Record
      BY ProcessFacts
    <3>3. \A i \in DOMAIN recs : recs'[i] = recs[i] \/ recs'[i] = [recs[i] EXCEPT !.res = "lost"]
      BY <2>1 DEF Forget
    <3>4. \A i \in DOMAIN recs : recs'[i].kind = recs[i].kind /\ recs'[i].lsn = recs[i].lsn /\ recs'[i].inc = recs[i].inc
      BY Zenon, <3>2, <3>3 DEF Record
    <3>5. Len(recs') = Len(recs)
      BY <3>1, ProcessFacts
    <3>. QED  BY <3>1, <3>4, <3>5 DEF SameHistory
  <2>4. \E k \in 0..Len(file) : DOMAIN file' = 1..k /\ \A p \in 1..k : file'[p] = file[p]
    <3>1. file \in Seq(DOMAIN recs) /\ stable \in 0..Len(file) /\ Len(file) \in Nat
      BY ProcessFacts
    <3>2. CASE ProcessCrash
      BY <3>1, <3>2 DEF ProcessCrash
    <3>3. CASE PowerLoss
      <4>1. PICK k \in stable..Len(file) : file' = SubSeq(file, 1, k)
        BY <3>3 DEF PowerLoss
      <4>2. k \in 0..Len(file)
        BY <3>1
      <4>3. file' \in Seq(DOMAIN recs) /\ Len(file') = k /\ \A p \in 1..k : file'[p] = file[p]
        BY <3>1, <4>1, <4>2, SubSeqType
      <4>. QED  BY <4>2, <4>3
    <3>. QED  BY <1>3, <3>2, <3>3
  <2>. QED  BY <2>2, <2>3, <2>4, OrderCrash
<1>. QED  BY <1>1, <1>2, <1>3

\* Nothing is submitted yet.
LEMMA OrderInit == Init => OrderInv
<1>. SUFFICES ASSUME Init PROVE OrderInv
  OBVIOUS
<1>1. DOMAIN recs = {} /\ DOMAIN file = {} /\ DOMAIN queue = {} /\ DOMAIN batch = {} /\ todo = {} /\ wpc = "loop"
  BY DEF Init
<1>. QED  BY Zenon, <1>1 DEF OrderInv, QueueInOrder, Ordered, Current, Placed, LogOrdered, NoHole, Live

\* Every step keeps the order.
LEMMA OrderStep ==
  ASSUME TypeOK, OrderInv, [Next]_vars
  PROVE  OrderInv'
<1>1. CASE UNCHANGED vars
  BY <1>1, SameSelf, OrderUnchanged DEF vars, Live, Resting
<1>2. CASE Next
  BY <1>2, OrderClient, OrderReceive, OrderProcess, OrderWriting, OrderOther DEF Next, WriterStep
<1>. QED  BY <1>1, <1>2
=============================================================================
