---------------------------- MODULE NestWALFacts ----------------------------
(***************************************************************************)
(* What the proofs about the log use everywhere: sequences, outcomes in    *)
(* the history, the queue, and what the steps of callers leave alone.      *)
(***************************************************************************)
EXTENDS NestWALInv, TLAPS

-----------------------------------------------------------------------------
(* Sequences *)

\* A function over the positions of a sequence is a sequence of the same length.
LEMMA FunSeq ==
  ASSUME NEW S, NEW R \in Seq(S), NEW T, NEW f \in [DOMAIN R -> T]
  PROVE  f \in Seq(T) /\ Len(f) = Len(R)
<1>1. f \in [1..Len(R) -> T]
  OBVIOUS
<1>. QED  BY <1>1

\* Type, length and elements of a subsequence.
LEMMA SubSeqType ==
  ASSUME NEW S, NEW s \in Seq(S), NEW m \in Nat \ {0}, NEW n \in 0..Len(s)
  PROVE  /\ SubSeq(s, m, n) \in Seq(S)
         /\ Len(SubSeq(s, m, n)) = IF m <= n THEN n - m + 1 ELSE 0
         /\ \A i \in 1..(n - m + 1) : SubSeq(s, m, n)[i] = s[m + i - 1]
<1>1. \A i \in m..n : s[i] \in S
  OBVIOUS
<1>. QED  BY <1>1

\* Type, length and elements of an extended sequence.
LEMMA AppendType ==
  ASSUME NEW S, NEW s \in Seq(S), NEW e \in S
  PROVE  /\ Append(s, e) \in Seq(S) /\ Len(Append(s, e)) = Len(s) + 1
         /\ \A i \in 1..Len(s) : Append(s, e)[i] = s[i]
         /\ Append(s, e)[Len(s) + 1] = e
OBVIOUS

\* Type, length and elements of what follows the first element.
LEMMA TailType ==
  ASSUME NEW S, NEW s \in Seq(S), s # <<>>
  PROVE  /\ Head(s) \in S /\ Tail(s) \in Seq(S) /\ Len(Tail(s)) = Len(s) - 1
         /\ \A i \in 1..Len(Tail(s)) : Tail(s)[i] = s[i + 1]
OBVIOUS

\* A sequence over a set is one over a larger set.
LEMMA SeqSubset ==
  ASSUME NEW S, NEW T, S \subseteq T, NEW s \in Seq(S)
  PROVE  s \in Seq(T)
OBVIOUS

\* A sequence that is not empty has an element.
LEMMA NonEmptyLength ==
  ASSUME NEW S, NEW s \in Seq(S), s # <<>>
  PROVE  Len(s) \in Nat \ {0}
OBVIOUS

-----------------------------------------------------------------------------
(* Outcomes *)

\* Replacing the outcome of a record leaves a record.
LEMMA RecordExcept ==
  ASSUME NEW r \in Record, NEW x \in Outcomes
  PROVE  [r EXCEPT !.res = x] \in Record
BY DEF Record

\* Answering the requests of a batch keeps the history typed.
LEMMA RepliedType ==
  ASSUME NEW R \in Seq(Record), NEW ids, NEW res \in Outcomes
  PROVE  Replied(R, ids, res) \in Seq(Record) /\ Len(Replied(R, ids, res)) = Len(R)
<1>0. \A i \in DOMAIN R : R[i] \in Record /\ [R[i] EXCEPT !.res = res] \in Record
  BY RecordExcept
<1>1. Replied(R, ids, res) \in [DOMAIN R -> Record]
  BY <1>0 DEF Replied
<1>. QED  BY <1>1, FunSeq

\* Resolving tickets keeps the history typed.
LEMMA SettledType ==
  ASSUME NEW R \in Seq(Record), NEW ids, NEW d
  PROVE  Settled(R, ids, d) \in Seq(Record) /\ Len(Settled(R, ids, d)) = Len(R)
<1>0. \A i \in DOMAIN R : /\ R[i] \in Record
                          /\ [R[i] EXCEPT !.res = "ok"] \in Record
                          /\ [R[i] EXCEPT !.res = "err"] \in Record
  <2>1. "ok" \in Outcomes /\ "err" \in Outcomes
    BY DEF Outcomes
  <2>. QED  BY <2>1, RecordExcept
<1>1. Settled(R, ids, d) \in [DOMAIN R -> Record]
  BY Zenon, <1>0 DEF Settled
<1>. QED  BY <1>1, FunSeq

\* The parts of the type invariant most steps need.
LEMMA ProcessFacts ==
  ASSUME TypeOK
  PROVE  /\ recs \in Seq(Record) /\ tickets \in Seq(DOMAIN recs) /\ durableLSN \in Nat
         /\ file \in Seq(DOMAIN recs) /\ stable \in 0..Len(file) /\ offset \in 0..Len(file)
         /\ unsynced \in BOOLEAN /\ terminal \in BOOLEAN /\ reserved \in Int
         /\ segs \subseteq Nat \ {0} /\ seg \in Nat /\ writtenLSN \in Nat /\ nextLSN \in Nat
         /\ crashes \in Nat
BY DEF TypeOK, HistoryType, ProcessType, DiskType

\* syncActiveLocked keeps what it assigns typed, and the stable prefix never shrinks.
LEMMA SyncActiveType ==
  ASSUME TypeOK, NEW R \in Seq(Record), Len(R) = Len(recs), NEW result, syncActiveLocked(result, R)
  PROVE  /\ stable' \in 0..Len(file) /\ stable <= stable'
         /\ unsynced' \in BOOLEAN /\ terminal' \in BOOLEAN
         /\ durableLSN' \in Nat /\ tickets' \in Seq(DOMAIN recs)
         /\ recs' \in Seq(Record) /\ Len(recs') = Len(recs)
<1>a. /\ file \in Seq(DOMAIN recs) /\ stable \in 0..Len(file) /\ tickets \in Seq(DOMAIN recs)
      /\ writtenLSN \in Nat /\ durableLSN \in Nat /\ seg \in Nat /\ recs \in Seq(Record)
  BY DEF TypeOK, DiskType, ProcessType, HistoryType
<1>b. unsynced \in BOOLEAN /\ terminal \in BOOLEAN
  BY DEF TypeOK, ProcessType
<1>1. ASSUME resolveDurable(R)
      PROVE  /\ durableLSN' \in Nat /\ tickets' \in Seq(DOMAIN recs)
             /\ recs' \in Seq(Record) /\ Len(recs') = Len(recs)
  <2>1. PICK n \in 0..Len(tickets) :
               /\ tickets' = SubSeq(tickets, n + 1, Len(tickets))
               /\ recs' = Settled(R, {tickets[j] : j \in 1..n}, writtenLSN)
    BY Zenon, <1>1 DEF resolveDurable
  <2>2. tickets' \in Seq(DOMAIN recs)
    <3>1. n + 1 \in Nat \ {0} /\ Len(tickets) \in 0..Len(tickets)
      BY <1>a
    <3>. QED  BY <1>a, <2>1, <3>1, SubSeqType
  <2>3. durableLSN' \in Nat
    BY <1>1, <1>a DEF resolveDurable
  <2>. QED  BY <1>a, <2>1, <2>2, <2>3, SettledType
<1>2. ASSUME failPendingTickets(R)
      PROVE  /\ durableLSN' \in Nat /\ tickets' \in Seq(DOMAIN recs)
             /\ recs' \in Seq(Record) /\ Len(recs') = Len(recs)
  BY <1>a, <1>2, SettledType DEF failPendingTickets
<1>3. Flushed \in 0..Len(file) /\ stable <= Flushed
  BY <1>a, SizeAssumption DEF Flushed
<1>4. \/ resolveDurable(R) /\ stable' \in {stable, Flushed} /\ unsynced' \in {unsynced, FALSE} /\ terminal' = terminal
      \/ failPendingTickets(R) /\ stable' = stable /\ unsynced' = unsynced /\ terminal' \in {terminal, TRUE}
  BY Zenon DEF syncActiveLocked
<1>5. unsynced' \in BOOLEAN /\ terminal' \in BOOLEAN
  BY Zenon, <1>4, <1>b
<1>6. stable' \in 0..Len(file) /\ stable <= stable'
  <2>1. stable' = stable \/ stable' = Flushed
    BY Zenon, <1>4
  <2>. QED  BY <1>a, <1>3, <2>1
<1>. QED  BY Zenon, <1>1, <1>2, <1>4, <1>5, <1>6

\* R differs from recs in outcomes only.
SameHistory(R) ==
  /\ R \in Seq(Record) /\ Len(R) = Len(recs)
  /\ \A i \in DOMAIN recs : R[i].kind = recs[i].kind /\ R[i].lsn = recs[i].lsn /\ R[i].inc = recs[i].inc

\* The history is a possible later form of itself.
LEMMA SameSelf == TypeOK => SameHistory(recs)
BY ProcessFacts DEF SameHistory

\* Answering a batch changes outcomes only.
LEMMA RepliedSame ==
  ASSUME TypeOK, NEW ids, NEW res \in Outcomes
  PROVE  SameHistory(Replied(recs, ids, res))
<1>1. Replied(recs, ids, res) \in Seq(Record) /\ Len(Replied(recs, ids, res)) = Len(recs)
  BY ProcessFacts, RepliedType
<1>2. \A i \in DOMAIN recs : recs[i] \in Record
  BY ProcessFacts
<1>3. \A i \in DOMAIN recs : \/ Replied(recs, ids, res)[i] = recs[i]
                             \/ Replied(recs, ids, res)[i] = [recs[i] EXCEPT !.res = res]
  BY DEF Replied
<1>4. ASSUME NEW i \in DOMAIN recs
      PROVE  LET r == Replied(recs, ids, res)[i] IN
               r.kind = recs[i].kind /\ r.lsn = recs[i].lsn /\ r.inc = recs[i].inc
  BY Zenon, <1>2, <1>3 DEF Record
<1>. QED  BY <1>1, <1>4 DEF SameHistory

\* Resolving tickets changes outcomes only.
LEMMA SettledSame ==
  ASSUME TypeOK, NEW R, SameHistory(R), NEW ids, NEW d
  PROVE  SameHistory(Settled(R, ids, d))
<1>0. R \in Seq(Record) /\ DOMAIN R = DOMAIN recs
  BY ProcessFacts DEF SameHistory
<1>1. Settled(R, ids, d) \in Seq(Record) /\ Len(Settled(R, ids, d)) = Len(R)
  BY <1>0, SettledType
<1>2. \A i \in DOMAIN recs : R[i] \in Record
  BY <1>0
<1>3. \A i \in DOMAIN recs : \/ Settled(R, ids, d)[i] = R[i]
                             \/ \E x : Settled(R, ids, d)[i] = [R[i] EXCEPT !.res = x]
  BY Zenon, <1>0 DEF Settled
<1>4. ASSUME NEW i \in DOMAIN recs
      PROVE  LET r == Settled(R, ids, d)[i] IN
               r.kind = R[i].kind /\ r.lsn = R[i].lsn /\ r.inc = R[i].inc
  BY Zenon, <1>2, <1>3 DEF Record
<1>. QED  BY <1>1, <1>4 DEF SameHistory

\* The parts of the type invariant the order argument needs.
LEMMA QueueFacts ==
  ASSUME TypeOK
  PROVE  /\ \A p \in DOMAIN queue : queue[p].rec \in {0} \cup DOMAIN recs
         /\ \A p \in DOMAIN batch : batch[p].rec \in {0} \cup DOMAIN recs
         /\ DOMAIN recs = 1..Len(recs) /\ Len(recs) \in Nat
         /\ DOMAIN queue = 1..Len(queue) /\ Len(queue) \in Nat
         /\ DOMAIN batch = 1..Len(batch) /\ Len(batch) \in Nat
         /\ DOMAIN file = 1..Len(file) /\ Len(file) \in Nat
         /\ \A p \in DOMAIN file : file[p] \in DOMAIN recs
         /\ \A i \in DOMAIN recs : recs[i].inc \in Nat
         /\ todo \subseteq DOMAIN batch /\ \A p \in todo : batch[p].rec # 0
         /\ crashes \in Nat
<1>1. queue \in Seq(Requests) /\ batch \in Seq(Requests) /\ recs \in Seq(Record) /\ file \in Seq(DOMAIN recs)
  BY ProcessFacts DEF TypeOK, WriterType
<1>2. \A r \in Requests : r.rec \in {0} \cup DOMAIN recs
  BY DEF Requests
<1>3. \A r \in Record : r.inc \in Nat
  BY DEF Record
<1>4. /\ \A p \in DOMAIN queue : queue[p] \in Requests
      /\ \A p \in DOMAIN batch : batch[p] \in Requests
      /\ \A p \in DOMAIN file : file[p] \in DOMAIN recs
      /\ \A i \in DOMAIN recs : recs[i] \in Record
  BY <1>1
<1>5. /\ DOMAIN recs = 1..Len(recs) /\ Len(recs) \in Nat
      /\ DOMAIN queue = 1..Len(queue) /\ Len(queue) \in Nat
      /\ DOMAIN batch = 1..Len(batch) /\ Len(batch) \in Nat
      /\ DOMAIN file = 1..Len(file) /\ Len(file) \in Nat
  BY <1>1
<1>6. todo \subseteq DOMAIN batch /\ \A p \in todo : batch[p].rec # 0
  BY DEF TypeOK, WriterType
<1>. QED  BY <1>2, <1>3, <1>4, <1>5, <1>6, ProcessFacts

-----------------------------------------------------------------------------
(* Callers, crashes and the order of the log *)

\* A caller that moves on or returns is not about to register a ticket, and moves alone.
LEMMA ClientMoves ==
  ASSUME TypeOK, NEW c \in Clients,
         \/ Return(c)
         \/ \E p \in ClientPCs \ {"register"} : Goto(c, p)
         \/ cl' = [cl EXCEPT ![c].pc = "syncRead", ![c].promised = Promised]
         \/ cl' = [cl EXCEPT ![c].pc = "syncCheck", ![c].boundary = nextLSN]
  PROVE  cl'[c].pc # "register" /\ \A d \in Clients \ {c} : cl'[d] = cl[d]
<1>1. cl \in [Clients -> ClientStates] /\ cl[c] \in ClientStates
  BY DEF TypeOK, ClientType
<1>2. \A d \in Clients \ {c} : cl'[d] = cl[d]
  BY <1>1 DEF Return, Goto
<1>3. cl'[c].pc # "register"
  BY <1>1 DEF Return, Goto, IdleClient, ClientStates
<1>. QED  BY <1>2, <1>3

\* A cancelled barrier leaves its request in place, without a waiter.
LEMMA AbandonedType ==
  ASSUME NEW s \in Seq(Requests), NEW c \in Clients
  PROVE  /\ Abandoned(s, c) \in Seq(Requests) /\ Len(Abandoned(s, c)) = Len(s)
         /\ \A i \in DOMAIN s : Abandoned(s, c)[i].rec = s[i].rec
<1>1. Barrier(None) \in Requests
  BY DEF Barrier, Requests
<1>2. Abandoned(s, c) \in [DOMAIN s -> Requests]
  BY <1>1 DEF Abandoned
<1>3. ASSUME NEW i \in DOMAIN s  PROVE Abandoned(s, c)[i].rec = s[i].rec
  <2>1. Abandoned(s, c)[i] = IF s[i] = Barrier(c) THEN Barrier(None) ELSE s[i]
    BY DEF Abandoned
  <2>2. Barrier(c).rec = 0 /\ Barrier(None).rec = 0
    BY DEF Barrier
  <2>. QED  BY <2>1, <2>2
<1>. QED  BY <1>2, <1>3, FunSeq

\* Replies to the barriers of a batch move no caller.
LEMMA AnsweredKept ==
  ASSUME TypeOK, NEW b, NEW res, cl' = Answered(b, res)
  PROVE  \A c \in Clients : cl'[c].pc = "register" => cl[c].pc = "register" /\ cl'[c].rec = cl[c].rec
<1>1. \A c \in Clients : cl[c] \in ClientStates
  BY DEF TypeOK, ClientType
<1>2. \A c \in Clients : cl'[c] = cl[c] \/ cl'[c] = [cl[c] EXCEPT !.reply = res]
  BY DEF Answered
<1>. QED  BY Zenon, <1>1, <1>2 DEF ClientStates

\* What a crash does to the memory of the process.
LEMMA ForgetType ==
  ASSUME TypeOK, Forget
  PROVE  /\ WriterType' /\ AckType' /\ ClientType' /\ HistoryType'
         /\ (file' \in Seq(DOMAIN recs) => ProcessType')
         /\ DOMAIN recs' = DOMAIN recs
<1>1. recs' \in Seq(Record) /\ Len(recs') = Len(recs)
  <2>1. \A i \in DOMAIN recs : recs[i] \in Record /\ [recs[i] EXCEPT !.res = "lost"] \in Record
    <3>1. \A i \in DOMAIN recs : recs[i] \in Record
      BY ProcessFacts
    <3>2. "lost" \in Outcomes
      BY DEF Outcomes
    <3>. QED  BY <3>1, <3>2, RecordExcept
  <2>2. recs' \in [DOMAIN recs -> Record]
    BY <2>1 DEF Forget
  <2>. QED  BY <2>2, ProcessFacts, FunSeq
<1>2. DOMAIN recs' = DOMAIN recs
  BY <1>1, ProcessFacts
<1>3. WriterType'
  <2>1. draining' \in BOOLEAN
    BY Zenon DEF Forget
  <2>2. queue' = <<>> /\ batch' = <<>> /\ todo' = {} /\ wpc' = "loop"
    BY DEF Forget
  <2>. QED  BY <2>1, <2>2 DEF WriterType
<1>4. AckType'
  BY DEF Forget, AckType
<1>5. ClientType'
  <2>1. cl' = [c \in Clients |-> IdleClient]
    BY DEF Forget
  <2>2. IdleClient \in ClientStates'
    BY DEF IdleClient, ClientStates, ClientPCs
  <2>3. \A c \in Clients : cl'[c] = IdleClient
    BY <2>1
  <2>4. IdleClient.pc = "idle"
    BY DEF IdleClient
  <2>. QED  BY <2>1, <2>2, <2>3, <2>4 DEF ClientType
<1>6. HistoryType'
  <2>1. crashes' = crashes + 1
    BY DEF Forget
  <2>. QED  BY <1>1, <2>1, ProcessFacts DEF HistoryType
<1>7. ASSUME file' \in Seq(DOMAIN recs) PROVE ProcessType'
  <2>1. 0 \in 0..Len(file')
    BY <1>7
  <2>2. closed' \in BOOLEAN /\ terminal' \in BOOLEAN /\ unsynced' \in BOOLEAN
    BY Zenon DEF Forget
  <2>3. /\ phase' = "down" /\ offset' = 0 /\ seg' = 0 /\ writtenLSN' = 0 /\ durableLSN' = 0 /\ nextLSN' = 0
        /\ reserved' = 0 /\ tickets' = <<>>
    BY DEF Forget
  <2>. QED  BY <2>1, <2>2, <2>3 DEF ProcessType
<1>. QED  BY <1>2, <1>3, <1>4, <1>5, <1>6, <1>7

\* Every ticket record submitted before the next record to be written is in the
\* file already.
LEMMA EarlierInFile ==
  ASSUME TypeOK, OrderInv, ~Resting, NEW p \in todo, \A q \in todo : p <= q,
         NEW i \in DOMAIN recs, i < batch[p].rec, IsTicket(i), recs[i].inc = crashes
  PROVE  InFile(i)
<1>0. Live = todo /\ p \in DOMAIN batch /\ batch[p].rec \in Nat /\ i \in Nat /\ batch[p].rec # 0
  BY QueueFacts DEF Live, Resting
<1>1. InFile(i) \/ InQueue(i) \/ InBatch(i)
  BY DEF OrderInv, Placed
<1>2. ASSUME InQueue(i) PROVE FALSE
  <2>1. PICK q \in DOMAIN queue : queue[q].rec = i
    BY <1>2 DEF InQueue
  <2>2. i # 0
    BY QueueFacts
  <2>3. batch[p].rec < i
    BY <1>0, <2>1, <2>2 DEF OrderInv, QueueInOrder
  <2>. QED  BY <1>0, <2>3
<1>3. ASSUME InBatch(i) PROVE FALSE
  <2>1. PICK q \in todo : batch[q].rec = i
    BY <1>0, <1>3 DEF InBatch
  <2>2. q \in DOMAIN batch /\ q \in Nat /\ p \in Nat /\ i # 0
    BY <1>0, QueueFacts
  <2>3. CASE q = p
    BY <1>0, <2>1, <2>3
  <2>4. CASE p < q
    <3>1. batch[p].rec < batch[q].rec
      BY <1>0, <2>1, <2>2, <2>4 DEF OrderInv, QueueInOrder, Ordered
    <3>. QED  BY <1>0, <2>1, <3>1
  <2>. QED  BY <2>2, <2>3, <2>4
<1>. QED  BY <1>1, <1>2, <1>3

\* What a call to Append or Enqueue adds to the history.
Sends(c, lsn) ==
  /\ recs'[Len(recs) + 1].inc = crashes /\ recs'[Len(recs) + 1].res = "pending" /\ recs'[Len(recs) + 1].lsn = lsn
  /\ \/ /\ recs'[Len(recs) + 1].kind = "ticket" /\ lsn = nextLSN + 1 /\ nextLSN' = nextLSN + 1
        /\ cl'[c].rec = Len(recs) + 1
     \/ /\ recs'[Len(recs) + 1].kind # "ticket" /\ lsn = 0 /\ nextLSN' = nextLSN
        /\ cl'[c].pc # "register"

\* What a send of Append or Enqueue adds and what it leaves alone.
LEMMA SendFacts ==
  ASSUME TypeOK, NEW c \in Clients, AppendSend(c) \/ EnqueueSend(c)
  PROVE  /\ UNCHANGED <<file, stable, unsynced, crashes, writtenLSN, durableLSN, slots, segs, offset, seg, phase,
                        wpc, batch, todo, apc, afence, tickets>>
         /\ DOMAIN recs' = DOMAIN recs \cup {Len(recs) + 1} /\ \A i \in DOMAIN recs : recs'[i] = recs[i]
         /\ \A d \in Clients \ {c} : cl'[d] = cl[d]
         /\ \E lsn : Sends(c, lsn)
<1>1. UNCHANGED <<file, stable, unsynced, crashes, writtenLSN, durableLSN, slots, segs, offset, seg, phase,
                  wpc, batch, todo, apc, afence, tickets>>
  BY DEF AppendSend, EnqueueSend, diskVars, posVars, writerVars, ackVars, processVars
<1>2. PICK kind, lsn, next :
        /\ Submit(c, kind, lsn, next)
        /\ \/ kind = "ticket" /\ lsn = nextLSN + 1 /\ nextLSN' = nextLSN + 1
           \/ kind # "ticket" /\ lsn = 0 /\ nextLSN' = nextLSN /\ next = "wait"
  <2>1. CASE AppendSend(c)
    BY <2>1 DEF AppendSend
  <2>2. CASE EnqueueSend(c)
    BY <2>2 DEF EnqueueSend
  <2>. QED  BY <2>1, <2>2
<1>. DEFINE new == [kind |-> kind, lsn |-> lsn, inc |-> crashes, res |-> "pending"]
<1>3. recs' = Append(recs, new) /\ cl' = [cl EXCEPT ![c].pc = next, ![c].rec = Len(recs) + 1]
  BY <1>2 DEF Submit
<1>4. recs \in Seq(Record) /\ Len(recs) \in Nat /\ cl \in [Clients -> ClientStates] /\ cl[c] \in ClientStates
  BY ProcessFacts DEF TypeOK, ClientType
<1>5. \A d \in Clients \ {c} : cl'[d] = cl[d]
  BY <1>3, <1>4
<1>6. cl'[c].pc = next /\ cl'[c].rec = Len(recs) + 1
  BY <1>3, <1>4 DEF ClientStates
<1>7. new.kind = kind /\ new.lsn = lsn /\ new.inc = crashes /\ new.res = "pending"
  OBVIOUS
<1>. HIDE DEF new
<1>8. DOMAIN recs' = DOMAIN recs \cup {Len(recs) + 1} /\ recs'[Len(recs) + 1] = new /\ \A i \in DOMAIN recs : recs'[i] = recs[i]
  BY <1>3, <1>4
<1>9. Sends(c, lsn)
  BY <1>2, <1>6, <1>7, <1>8 DEF Sends
<1>. QED  BY ZenonT(30), <1>1, <1>5, <1>8, <1>9

\* Types of what the slots and the checkpoint hold.
LEMMA SlotFacts ==
  ASSUME TypeOK
  PROVE  /\ slots \in [0..1 -> [gen : Nat, fence : Nat]] /\ checkpoint \in [gen : Nat, fence : Nat]
         /\ checkpoint.gen \in Nat /\ checkpoint.fence \in Nat /\ afence \in Nat
         /\ \A n \in 0..1 : slots[n].gen \in Nat /\ slots[n].fence \in Nat
         /\ checkpoint.gen % 2 \in 0..1 /\ (checkpoint.gen + 1) % 2 = 1 - (checkpoint.gen % 2)
         /\ loadCheckpoint \in {slots[0], slots[1]} /\ loadCheckpoint.fence \in Nat /\ Acked \in Nat
<1>1. slots \in [0..1 -> [gen : Nat, fence : Nat]] /\ checkpoint \in [gen : Nat, fence : Nat] /\ afence \in Nat
  BY DEF TypeOK, DiskType, AckType
<1>. QED  BY <1>1 DEF Acked, loadCheckpoint

\* A recovery never loads a checkpoint behind the one in memory.
LEMMA LoadsNewest ==
  ASSUME TypeOK, SlotsInv, phase = "up"
  PROVE  checkpoint.fence <= loadCheckpoint.fence
BY SlotFacts DEF loadCheckpoint, SlotsInv

-----------------------------------------------------------------------------
(* Outcomes: what a reply or the end of a ticket can change *)

\* R is recs with some pending records answered, those in ok with success.
Resolves(R, ok) ==
  /\ SameHistory(R)
  /\ \A i \in DOMAIN recs : R[i].res = "pending" => recs[i].res = "pending"
  /\ \A i \in DOMAIN recs : R[i].res = "ok" /\ recs[i].kind # "async" => recs[i].res = "ok" \/ i \in ok

\* An unchanged history resolves nothing.
LEMMA ResolvesSelf == TypeOK => Resolves(recs, {})
BY SameSelf DEF Resolves

\* Answering a batch confirms only its strict Appends, and leaves none of them pending.
LEMMA RepliedResolves ==
  ASSUME TypeOK, NEW ids, NEW res \in Outcomes \ {"pending"}
  PROVE  /\ Resolves(Replied(recs, ids, res),
                     {i \in DOMAIN recs : res = "ok" /\ i \in ids /\ ~IsTicket(i) /\ recs[i].kind # "async" /\ recs[i].res = "pending"})
         /\ \A i \in DOMAIN recs : i \in ids /\ ~IsTicket(i) => Replied(recs, ids, res)[i].res # "pending"
<1>4. ASSUME NEW i \in DOMAIN recs
      PROVE  IF i \in ids /\ ~IsTicket(i) /\ recs[i].res = "pending"
             THEN Replied(recs, ids, res)[i].res = res ELSE Replied(recs, ids, res)[i] = recs[i]
  BY ProcessFacts DEF Replied, IsTicket, Record
<1>. QED  BY RepliedSame, <1>4 DEF Resolves

\* Resolving tickets confirms those at or below the watermark.
LEMMA SettledResolves ==
  ASSUME TypeOK, NEW R, NEW ok, Resolves(R, ok), NEW ids, NEW d
  PROVE  Resolves(Settled(R, ids, d), ok \cup {i \in ids : i \in DOMAIN recs /\ recs[i].lsn <= d})
<1>0. SameHistory(R)
  BY DEF Resolves
<1>2. R \in Seq(Record) /\ DOMAIN R = DOMAIN recs /\ \A i \in DOMAIN recs : R[i].lsn = recs[i].lsn
  BY <1>0, ProcessFacts DEF SameHistory
<1>5. ASSUME NEW i \in DOMAIN recs
      PROVE  /\ i \notin ids => Settled(R, ids, d)[i] = R[i]
             /\ i \in ids => Settled(R, ids, d)[i].res # "pending"
             /\ i \in ids /\ Settled(R, ids, d)[i].res = "ok" => recs[i].lsn <= d
  <2>1. CASE i \notin ids
    BY <1>2, <2>1 DEF Settled
  <2>2. CASE i \in ids
    <3>. DEFINE x == IF R[i].lsn <= d THEN "ok" ELSE "err"
    <3>1. Settled(R, ids, d)[i] = [R[i] EXCEPT !.res = x]
      BY <1>2, <2>2 DEF Settled
    <3>3. x # "pending" /\ (x = "ok" => recs[i].lsn <= d)
      BY <1>2
    <3>. HIDE DEF x
    <3>. QED  BY <2>2, <1>2, <3>1, <3>3 DEF Record
  <2>. QED  BY <2>1, <2>2
<1>. QED  BY <1>0, SettledSame, <1>5 DEF Resolves

\* Tickets whose LSN d covers.
Covered(d) == {i \in DOMAIN recs : IsTicket(i) /\ recs[i].inc = crashes /\ recs[i].lsn <= d}

\* failPendingTickets confirms only tickets at or below DurableLSN.
LEMMA FailResolves ==
  ASSUME TypeOK, TicketsCurrent, NEW R, NEW ok, Resolves(R, ok), failPendingTickets(R)
  PROVE  /\ Resolves(recs', ok \cup Covered(durableLSN))
         /\ tickets' = <<>> /\ durableLSN' = durableLSN
<1>. DEFINE ids == {tickets[j] : j \in DOMAIN tickets}
<1>1. recs' = Settled(R, ids, durableLSN) /\ tickets' = <<>> /\ durableLSN' = durableLSN
  BY DEF failPendingTickets
<1>2. \A i \in ids : i \in DOMAIN recs /\ IsTicket(i) /\ recs[i].inc = crashes
  BY ProcessFacts DEF TicketsCurrent
<1>. HIDE DEF ids
<1>3. Resolves(recs', ok \cup {i \in ids : i \in DOMAIN recs /\ recs[i].lsn <= durableLSN})
  BY <1>1, SettledResolves
<1>. QED  BY <1>1, <1>3, <1>2 DEF Resolves, Covered

\* resolveDurableLocked confirms only tickets at or below the written LSN.
LEMMA ResolveResolves ==
  ASSUME TypeOK, TicketsCurrent, NEW R, NEW ok, Resolves(R, ok), resolveDurable(R)
  PROVE  /\ Resolves(recs', ok \cup Covered(writtenLSN))
         /\ \A p \in DOMAIN tickets' : \E q \in DOMAIN tickets : tickets'[p] = tickets[q]
<1>1. PICK n \in 0..Len(tickets) :
        /\ tickets' = SubSeq(tickets, n + 1, Len(tickets))
        /\ recs' = Settled(R, {tickets[j] : j \in 1..n}, writtenLSN)
  BY Zenon DEF resolveDurable
<1>. DEFINE ids == {tickets[j] : j \in 1..n}
<1>a. tickets \in Seq(DOMAIN recs) /\ Len(tickets) \in Nat
  BY ProcessFacts
<1>2. \A i \in ids : i \in DOMAIN recs /\ IsTicket(i) /\ recs[i].inc = crashes
  BY <1>a DEF TicketsCurrent
<1>3. recs' = Settled(R, ids, writtenLSN)
  BY <1>1
<1>. HIDE DEF ids
<1>4. Resolves(recs', ok \cup {i \in ids : i \in DOMAIN recs /\ recs[i].lsn <= writtenLSN})
  BY <1>3, SettledResolves
<1>5. {i \in ids : i \in DOMAIN recs /\ recs[i].lsn <= writtenLSN} \subseteq Covered(writtenLSN)
  BY <1>2 DEF Covered
<1>6. \A p \in DOMAIN tickets' : \E q \in DOMAIN tickets : tickets'[p] = tickets[q]
  <2>1. /\ tickets' \in Seq(DOMAIN recs) /\ Len(tickets') = Len(tickets) - n
        /\ \A p \in 1..(Len(tickets) - n) : tickets'[p] = tickets[n + p]
    BY <1>1, <1>a, SubSeqType
  <2>2. \A p \in 1..(Len(tickets) - n) : n + p \in 1..Len(tickets)
    BY <1>a
  <2>3. DOMAIN tickets = 1..Len(tickets) /\ DOMAIN tickets' = 1..(Len(tickets) - n)
    BY <1>a, <2>1
  <2>. QED  BY Zenon, <2>1, <2>2, <2>3
<1>. QED  BY <1>4, <1>5, <1>6 DEF Resolves

-----------------------------------------------------------------------------
(* fsync *)

\* After a step that makes the whole file stable, what is in it is stable.
LEMMA InFileStable ==
  ASSUME TypeOK, UNCHANGED file, stable' = Len(file), NEW i, InFile(i)
  PROVE  i \in StableRecords'
BY QueueFacts DEF InFile, StableRecords

\* What is stable is in the file.
LEMMA StableInFile ==
  ASSUME TypeOK, NEW i \in StableRecords
  PROVE  InFile(i)
<1>1. PICK p \in 1..stable : file[p] = i
  BY DEF StableRecords
<1>2. stable \in 0..Len(file) /\ Len(file) \in Nat /\ DOMAIN file = 1..Len(file)
  BY ProcessFacts, QueueFacts
<1>. QED  BY <1>1, <1>2 DEF InFile

\* What the records' outcomes and the watermark promise, once R's answers are
\* given and every record in ok is stable.
LEMMA PromisesKept ==
  ASSUME TypeOK, DurableInv, NEW ok, Resolves(recs', ok), UNCHANGED crashes, StableRecords \subseteq StableRecords',
         ok \subseteq StableRecords', durableLSN' = durableLSN \/ Covered(durableLSN') \subseteq StableRecords'
  PROVE  ConfirmedStable' /\ WatermarkStable'
<1>1. DOMAIN recs' = DOMAIN recs /\ \A i \in DOMAIN recs : recs'[i].kind = recs[i].kind /\ recs'[i].lsn = recs[i].lsn
                                                           /\ recs'[i].inc = recs[i].inc
  BY ProcessFacts DEF Resolves, SameHistory
<1>2. ConfirmedStable'
  <2>1. ASSUME NEW i \in DOMAIN recs, recs'[i].res = "ok", recs[i].kind # "async" PROVE i \in StableRecords'
    BY <2>1 DEF Resolves, DurableInv, ConfirmedStable
  <2>. QED  BY <1>1, <2>1 DEF ConfirmedStable
<1>3. WatermarkStable'
  <2>1. ASSUME NEW i \in DOMAIN recs, IsTicket(i), recs[i].inc = crashes, recs[i].lsn <= durableLSN'
        PROVE  i \in StableRecords'
    <3>1. CASE durableLSN' = durableLSN
      BY <2>1, <3>1 DEF DurableInv, WatermarkStable
    <3>2. CASE Covered(durableLSN') \subseteq StableRecords'
      BY <2>1, <3>2 DEF Covered
    <3>. QED  BY <3>1, <3>2
  <2>. QED  BY <1>1, <2>1 DEF WatermarkStable, IsTicket
<1>. QED  BY <1>2, <1>3

\* The written watermark covers records of the file, the durable one stable records.
LEMMA CoveredInFile ==
  ASSUME DurableInv
  PROVE  /\ \A i \in Covered(writtenLSN) : InFile(i)
         /\ Covered(durableLSN) \subseteq StableRecords
BY DEF DurableInv, WrittenPrefix, WatermarkStable, Covered

\* syncActiveLocked after R's replies: on success all of the file is stable, and
\* only then may R have answered a record with success.
LEMMA SyncEffect ==
  ASSUME TypeOK, DurableInv, phase = "up", NEW R, NEW ok, Resolves(R, ok), NEW result, syncActiveLocked(result, R),
         UNCHANGED <<file, crashes>>, result # "nil" => ok = {}, \A i \in ok : InFile(i)
  PROVE  /\ \E all : Resolves(recs', all)
         /\ ConfirmedStable' /\ WatermarkStable'
         /\ stable <= stable' /\ (result = "nil" => stable' = Len(file)) /\ (~unsynced' => stable' = Len(file))
         /\ durableLSN' \in {durableLSN, writtenLSN}
         /\ \A p \in DOMAIN tickets' : \E q \in DOMAIN tickets : tickets'[p] = tickets[q]
<1>a. TicketsCurrent
  BY DEF DurableInv
<1>b. /\ ~unsynced => stable = Len(file)
      /\ (seg - 1) * SegmentRecords <= stable
  BY DEF DurableInv, SegmentsStable
<1>c. stable \in Nat /\ Len(file) \in Nat /\ stable <= Len(file)
  BY ProcessFacts, QueueFacts
<1>1. CASE result = "nil"
  <2>1. resolveDurable(R) /\ stable' = Len(file)
    <3>1. Flushed = Len(file)
      BY ProcessFacts, SizeAssumption, <1>b, <1>c DEF Flushed
    <3>. QED  BY <1>1, <1>b, <3>1 DEF syncActiveLocked
  <2>2. /\ Resolves(recs', ok \cup Covered(writtenLSN))
        /\ \A p \in DOMAIN tickets' : \E q \in DOMAIN tickets : tickets'[p] = tickets[q]
    BY <1>a, <2>1, ResolveResolves
  <2>3. StableRecords \subseteq StableRecords'
    BY <2>1, StableInFile, InFileStable
  <2>4. ok \cup Covered(writtenLSN) \subseteq StableRecords'
    BY <2>1, InFileStable, CoveredInFile
  <2>5. durableLSN' \in {durableLSN, writtenLSN}
    BY <2>1 DEF resolveDurable
  <2>6. ConfirmedStable' /\ WatermarkStable'
    BY <2>4, <2>5, <2>2, <2>3, PromisesKept
  <2>. QED  BY <1>1, <1>c, <2>1, <2>2, <2>5, <2>6
<1>2. CASE result # "nil"
  <2>1. failPendingTickets(R) /\ UNCHANGED <<stable, unsynced>>
    BY <1>2 DEF syncActiveLocked
  <2>2. Resolves(recs', ok \cup Covered(durableLSN)) /\ tickets' = <<>> /\ durableLSN' = durableLSN
    BY <1>a, <2>1, FailResolves
  <2>5. ConfirmedStable' /\ WatermarkStable'
    BY <2>2, <2>1, <1>2, CoveredInFile, PromisesKept DEF StableRecords
  <2>. QED  BY <1>2, <1>b, <1>c, <2>1, <2>2, <2>5
<1>. QED  BY <1>1, <1>2
=============================================================================
