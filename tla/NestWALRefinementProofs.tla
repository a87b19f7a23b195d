---------------------- MODULE NestWALRefinementProofs -----------------------
(***************************************************************************)
(* A terminal error of the log and the outcome of a call are final, and the*)
(* steps of the log are steps of CommitLog.                                *)
(***************************************************************************)
EXTENDS NestWALFacts

-----------------------------------------------------------------------------
(* A terminal error is final *)

\* A sync of a terminal WAL changes neither stable storage nor the watermark.
LEMMA SyncTerminal ==
  ASSUME terminal, NEW result, NEW R, syncActiveLocked(result, R)
  PROVE  terminal' /\ stable' = stable /\ durableLSN' = durableLSN
BY DEF syncActiveLocked, failPendingTickets

\* A step of the running process moves nothing once an error is terminal.
LEMMA TerminalStep ==
  ASSUME [Next]_vars, phase = "up", phase' = "up", terminal
  PROVE  terminal' /\ stable' = stable /\ durableLSN' = durableLSN
<1>1. CASE UNCHANGED <<stable, terminal, durableLSN>>
  BY <1>1
<1>2. CASE \E result, R : syncActiveLocked(result, R)
  BY <1>2, SyncTerminal
<1>3. CASE \E R : failPendingTickets(R) /\ stable' = stable /\ terminal'
  BY <1>3 DEF failPendingTickets
<1>4. CASE UNCHANGED vars
  BY <1>1, <1>4 DEF vars
<1>5. ASSUME NEW c \in Clients, ClientStep(c) \/ ClientChoice(c)
      PROVE  UNCHANGED <<stable, terminal, durableLSN>> \/ \E result, R : syncActiveLocked(result, R)
  <2>1. CASE SyncFlush(c)
    BY Zenon, <2>1 DEF SyncFlush, syncVars
  <2>2. CASE AppendSend(c) \/ AppendReturn(c) \/ EnqueueRefuse(c) \/ EnqueueCheck(c) \/ EnqueueSend(c)
             \/ EnqueueRegister(c) \/ SyncBoundary(c)
    BY Zenon, <2>2 DEF AppendSend, AppendReturn, EnqueueRefuse, EnqueueCheck, EnqueueSend, EnqueueRegister, SyncBoundary, syncVars
  <2>3. CASE SyncCheck(c) \/ SyncSend(c) \/ SyncReply(c) \/ SyncReturn(c) \/ ClientChoice(c)
    BY Zenon, <2>3 DEF SyncCheck, SyncSend, SyncReply, SyncReturn, ClientChoice, AppendBegin, AppendCancel, EnqueueReserve,
       SyncBegin, SyncCancel, syncVars
  <2>. QED  BY Zenon, <1>5, <2>1, <2>2, <2>3 DEF ClientStep
<1>6. CASE WriterTake \/ WriterCollect \/ WriterDrain \/ WriterAdmit \/ WriterCreate \/ WriterWrite \/ WriterStop
           \/ WriterExit \/ Close \/ AckStep \/ Open \/ OpenRefused
  BY Zenon, <1>1, <1>6 DEF WriterTake, WriterCollect, WriterDrain, WriterAdmit, WriterCreate, WriterWrite, WriterStop,
     WriterExit, Close, AckStep, storeCheckpoint, storeCheckpointFails, pruneAcked, Open, OpenRefused, syncVars
<1>7. CASE WriterRefuse \/ WriterFails
  BY Zenon, <1>1, <1>3, <1>7 DEF WriterRefuse, WriterFails
<1>8. CASE WriterRotate \/ WriterFinish \/ WriterCloseActive \/ WriterTick \/ Ack
  BY Zenon, <1>1, <1>2, <1>8 DEF WriterRotate, WriterFinish, WriterCloseActive, WriterTick, Ack
<1>9. CASE ProcessCrash \/ PowerLoss
  BY <1>9 DEF ProcessCrash, PowerLoss, Forget
<1>. QED  BY Zenon, <1>1, <1>2, <1>4, <1>5, <1>6, <1>7, <1>8, <1>9 DEF Next, WriterStep

-----------------------------------------------------------------------------
(* Outcomes are final: a registered ticket is pending until it is resolved *)

\* R is recs with some pending Appends answered.
AppendsAnswered(R) ==
  /\ SameHistory(R)
  /\ \A i \in DOMAIN recs : recs[i].res # "pending" \/ IsTicket(i) => R[i].res = recs[i].res

\* Pending Appends are answered, and the first n registered tickets resolved.
Resolved(n) ==
  /\ SameHistory(recs')
  /\ \A i \in DOMAIN recs : recs[i].res # "pending" => recs'[i].res = recs[i].res
  /\ \A i \in DOMAIN recs : IsTicket(i) /\ (\A p \in 1..n : tickets[p] # i) => recs'[i].res = recs[i].res
  /\ n \in 0..Len(tickets) /\ DOMAIN tickets' = 1..(Len(tickets) - n)
  /\ \A p \in 1..(Len(tickets) - n) : tickets'[p] = tickets[n + p]

\* No caller begins to register a ticket.
RegisterKept == \A c \in Clients : cl'[c].pc = "register" => cl[c].pc = "register" /\ cl'[c].rec = cl[c].rec

LEMMA RepliedAnswers ==
  ASSUME TypeOK, NEW ids, NEW res \in Outcomes
  PROVE  AppendsAnswered(recs) /\ AppendsAnswered(Replied(recs, ids, res))
<1>1. SameHistory(recs) /\ SameHistory(Replied(recs, ids, res))
  BY SameSelf, RepliedSame
<1>. QED  BY <1>1 DEF AppendsAnswered, Replied, IsTicket

\* Resolving the first tickets leaves every other outcome alone.
LEMMA SettledResolved ==
  ASSUME TypeOK, TicketsCurrent, TicketsPending, NEW R, AppendsAnswered(R), NEW n \in 0..Len(tickets), NEW d,
         recs' = Settled(R, {tickets[j] : j \in 1..n}, d),
         DOMAIN tickets' = 1..(Len(tickets) - n), \A p \in 1..(Len(tickets) - n) : tickets'[p] = tickets[n + p]
  PROVE  Resolved(n)
<1>. DEFINE ids == {tickets[j] : j \in 1..n}
<1>1. SameHistory(R) /\ DOMAIN R = DOMAIN recs
  BY ProcessFacts DEF AppendsAnswered, SameHistory
<1>2. SameHistory(recs')
  BY <1>1, SettledSame
<1>3. \A i \in DOMAIN recs : i \notin ids => recs'[i] = R[i]
  BY <1>1 DEF Settled
<1>4. \A j \in 1..n : j \in DOMAIN tickets
  BY ProcessFacts
<1>6. \A i \in DOMAIN recs : recs[i].res # "pending" => recs'[i].res = recs[i].res
  BY <1>3, <1>4 DEF AppendsAnswered, TicketsPending
<1>7. \A i \in DOMAIN recs : IsTicket(i) /\ (\A p \in 1..n : tickets[p] # i) => recs'[i].res = recs[i].res
  BY <1>3 DEF AppendsAnswered
<1>. QED  BY Zenon, <1>2, <1>6, <1>7 DEF Resolved

\* A step that resolves tickets keeps the others registered and pending.
LEMMA ResolvedPending ==
  ASSUME TypeOK, TicketsCurrent, TicketsPending, NEW n, Resolved(n), RegisterKept
  PROVE  TicketsPending'
<1>1. /\ tickets \in Seq(DOMAIN recs) /\ Len(tickets) \in Nat /\ n \in 0..Len(tickets) /\ DOMAIN tickets = 1..Len(tickets)
      /\ \A c \in Clients : cl[c].pc = "register" => cl[c].rec \in DOMAIN recs
  BY ProcessFacts DEF Resolved, TypeOK, ClientType, ClientStates
<1>2. ASSUME NEW p \in DOMAIN tickets'
      PROVE  n + p \in DOMAIN tickets /\ tickets'[p] = tickets[n + p] /\ n + p \notin 1..n
  BY <1>1 DEF Resolved
<1>3. ASSUME NEW q \in DOMAIN tickets, q \notin 1..n PROVE recs'[tickets[q]].res = "pending"
  <2>2. \A j \in 1..n : tickets[j] # tickets[q]
    BY <1>1, <1>3 DEF TicketsPending
  <2>. QED  BY <1>1, <2>2 DEF Resolved, TicketsCurrent, TicketsPending
<1>5. ASSUME NEW p \in DOMAIN tickets', NEW q \in DOMAIN tickets', tickets'[p] = tickets'[q] PROVE p = q
  BY <1>2, <1>5, <1>1 DEF TicketsPending, Resolved
<1>6. ASSUME NEW c \in Clients, cl'[c].pc = "register"
      PROVE  /\ recs'[cl'[c].rec].res = "pending"
             /\ \A p \in DOMAIN tickets' : tickets'[p] # cl'[c].rec
             /\ \A d \in Clients : cl'[d].pc = "register" => d = c
  <2>1. cl[c].pc = "register" /\ cl'[c].rec = cl[c].rec /\ cl[c].rec \in DOMAIN recs
    BY <1>1, <1>6 DEF RegisterKept
  <2>2. /\ recs[cl[c].rec].res = "pending" /\ IsTicket(cl[c].rec)
        /\ \A p \in DOMAIN tickets : tickets[p] # cl[c].rec
        /\ \A d \in Clients : cl[d].pc = "register" => d = c
    BY <2>1 DEF TicketsPending, TicketsCurrent
  <2>3. \A j \in 1..n : tickets[j] # cl[c].rec
    BY <1>1, <2>2
  <2>4. recs'[cl[c].rec].res = "pending"
    BY Zenon, <2>1, <2>2, <2>3 DEF Resolved
  <2>. QED  BY <1>2, <2>1, <2>2, <2>4 DEF RegisterKept
<1>. QED  BY <1>2, <1>3, <1>5, <1>6 DEF TicketsPending

\* failPendingTickets, resolveDurableLocked and so syncActiveLocked resolve a prefix
\* of the registered tickets.
LEMMA SyncResolves ==
  ASSUME TypeOK, TicketsCurrent, TicketsPending, NEW R, AppendsAnswered(R)
  PROVE  /\ failPendingTickets(R) => \E n : Resolved(n)
         /\ \A result : syncActiveLocked(result, R) => \E n : Resolved(n)
         /\ recs' = R /\ tickets' = tickets => \E n : Resolved(n)
<1>0. tickets \in Seq(DOMAIN recs) /\ Len(tickets) \in Nat /\ DOMAIN tickets = 1..Len(tickets)
  BY ProcessFacts
<1>1. ASSUME failPendingTickets(R) PROVE \E n : Resolved(n)
  <2>1. recs' = Settled(R, {tickets[j] : j \in 1..Len(tickets)}, durableLSN) /\ DOMAIN tickets' = {}
    <3>1. {tickets[j] : j \in DOMAIN tickets} = {tickets[j] : j \in 1..Len(tickets)} /\ DOMAIN <<>> = {}
      BY <1>0
    <3>. QED  BY Zenon, <1>1, <3>1 DEF failPendingTickets
  <2>2. 1..(Len(tickets) - Len(tickets)) = {} /\ Len(tickets) \in 0..Len(tickets)
    BY <1>0
  <2>3. Resolved(Len(tickets))
    BY Zenon, <2>1, <2>2, SettledResolved
  <2>. QED  BY <2>3
<1>2. ASSUME resolveDurable(R) PROVE \E n : Resolved(n)
  <2>1. PICK n \in 0..Len(tickets) : /\ tickets' = SubSeq(tickets, n + 1, Len(tickets))
                                     /\ recs' = Settled(R, {tickets[j] : j \in 1..n}, writtenLSN)
    BY Zenon, <1>2 DEF resolveDurable
  <2>2. /\ tickets' \in Seq(DOMAIN recs) /\ Len(tickets') = Len(tickets) - n
        /\ \A p \in 1..(Len(tickets) - n) : tickets'[p] = tickets[n + p]
    <3>1. n + 1 \in Nat \ {0} /\ Len(tickets) \in 0..Len(tickets)
      BY <1>0
    <3>2. /\ tickets' \in Seq(DOMAIN recs) /\ Len(tickets') = IF n + 1 <= Len(tickets) THEN Len(tickets) - (n + 1) + 1 ELSE 0
          /\ \A p \in 1..(Len(tickets) - (n + 1) + 1) : tickets'[p] = tickets[(n + 1) + p - 1]
      BY <1>0, <2>1, <3>1, SubSeqType
    <3>a. \A m \in Nat : \A k \in 0..m : (IF k + 1 <= m THEN m - (k + 1) + 1 ELSE 0) = m - k
      OBVIOUS
    <3>3. Len(tickets') = Len(tickets) - n
      BY Zenon, <1>0, <3>2, <3>a
    <3>4. Len(tickets) - (n + 1) + 1 = Len(tickets) - n /\ \A p \in Int : (n + 1) + p - 1 = n + p
      BY <1>0
    <3>. QED  BY <3>2, <3>3, <3>4
  <2>3. DOMAIN tickets' = 1..(Len(tickets) - n)
    BY <2>2
  <2>4. Resolved(n)
    BY <2>1, <2>2, <2>3, SettledResolved
  <2>. QED  BY <2>4
<1>3. ASSUME NEW result, syncActiveLocked(result, R) PROVE \E n : Resolved(n)
  BY <1>1, <1>2, <1>3 DEF syncActiveLocked
<1>4. ASSUME recs' = R, tickets' = tickets PROVE \E n : Resolved(n)
  <2>1. /\ 0 \in 0..Len(tickets) /\ DOMAIN tickets' = 1..(Len(tickets) - 0)
        /\ \A p \in 1..(Len(tickets) - 0) : tickets'[p] = tickets[0 + p]
    BY <1>0, <1>4
  <2>2. Resolved(0)
    BY <1>4, <2>1 DEF Resolved, AppendsAnswered
  <2>. QED  BY <2>2
<1>. QED  BY <1>1, <1>3, <1>4

\* Every step but the sends, the registration of a ticket and a crash resolves tickets in order.
LEMMA HistoryClient ==
  ASSUME TypeOK, TicketsCurrent, TicketsPending, NEW c \in Clients,
         \/ AppendReturn(c) \/ EnqueueRefuse(c) \/ EnqueueCheck(c) \/ SyncBoundary(c)
         \/ SyncCheck(c) \/ SyncSend(c) \/ SyncReturn(c) \/ AppendBegin(c) \/ AppendCancel(c) \/ EnqueueReserve(c)
         \/ SyncBegin(c) \/ SyncReply(c) \/ SyncCancel(c) \/ SyncFlush(c)
  PROVE  RegisterKept /\ \E n : Resolved(n)
<1>1. RegisterKept
  <2>1. \/ Return(c)
        \/ \E p \in ClientPCs \ {"register"} : Goto(c, p)
        \/ cl' = [cl EXCEPT ![c].pc = "syncRead", ![c].promised = Promised]
        \/ cl' = [cl EXCEPT ![c].pc = "syncCheck", ![c].boundary = nextLSN]
    BY DEF AppendReturn, EnqueueRefuse, EnqueueCheck, SyncBoundary, SyncCheck, SyncReturn, SyncSend,
       AppendBegin, AppendCancel, EnqueueReserve, SyncBegin, SyncReply, SyncCancel, SyncFlush, ClientPCs
  <2>. QED  BY <2>1, ClientMoves DEF RegisterKept
<1>2. (recs' = recs /\ tickets' = tickets) \/ \E result : syncActiveLocked(result, recs)
  BY SMTT(30) DEF AppendReturn, EnqueueRefuse, EnqueueCheck, SyncBoundary, SyncCheck, SyncReturn, SyncSend,
     AppendBegin, AppendCancel, EnqueueReserve, SyncBegin, SyncReply, SyncCancel, SyncFlush, syncVars
<1>. QED  BY <1>1, <1>2, RepliedAnswers, SyncResolves DEF Outcomes

LEMMA HistoryWriter ==
  ASSUME TypeOK, TicketsCurrent, TicketsPending, WriterStep \/ WriterTick
  PROVE  RegisterKept /\ \E n : Resolved(n)
<1>1. RegisterKept
  <2>1. cl' = cl \/ \E res : cl' = Answered(batch, res)
    <3>1. CASE WriterTick \/ WriterTake \/ WriterCollect \/ WriterDrain \/ WriterCreate \/ WriterWrite \/ WriterStop
               \/ WriterCloseActive \/ WriterExit
      BY Zenon, <3>1 DEF WriterTick, WriterTake, WriterCollect, WriterDrain, WriterCreate, WriterWrite, WriterStop,
         WriterCloseActive, WriterExit
    <3>2. CASE WriterRefuse \/ WriterAdmit \/ WriterRotate \/ WriterFails \/ WriterFinish
      BY <3>2 DEF WriterRefuse, WriterAdmit, WriterRotate, WriterFails, WriterFinish, BatchFailed
    <3>. QED  BY <3>1, <3>2 DEF WriterStep
  <2>. QED  BY <2>1, AnsweredKept DEF RegisterKept
<1>2. AppendsAnswered(recs) /\ \A ids : \A res \in Outcomes : AppendsAnswered(Replied(recs, ids, res))
  BY RepliedAnswers DEF Outcomes
<1>3. {"ok", "err", "rejected"} \subseteq Outcomes
  BY DEF Outcomes
<1>4. CASE WriterTake \/ WriterCollect \/ WriterDrain \/ WriterCreate \/ WriterWrite \/ WriterStop \/ WriterExit
  <2>1. recs' = recs /\ tickets' = tickets
    BY Zenon, <1>4 DEF WriterTake, WriterCollect, WriterDrain, WriterCreate, WriterWrite, WriterStop, WriterExit, syncVars
  <2>. QED  BY <1>1, <1>2, <2>1, SyncResolves
<1>5. CASE WriterTick \/ WriterCloseActive
  BY <1>5, <1>1, <1>2, SyncResolves DEF WriterTick, WriterCloseActive
<1>6. CASE WriterRefuse
  BY <1>6, <1>1, <1>2, <1>3, SyncResolves DEF WriterRefuse
<1>7. CASE WriterAdmit
  BY <1>7, <1>1, <1>2, <1>3, SyncResolves DEF WriterAdmit
<1>8. CASE WriterRotate
  BY <1>8, <1>1, <1>2, <1>3, SyncResolves DEF WriterRotate
<1>9. CASE WriterFails
  BY <1>9, <1>1, <1>2, <1>3, SyncResolves DEF WriterFails
<1>10. CASE WriterFinish
  BY <1>10, <1>1, <1>2, <1>3, SyncResolves DEF WriterFinish
<1>. QED  BY <1>4, <1>5, <1>6, <1>7, <1>8, <1>9, <1>10 DEF WriterStep

LEMMA HistoryOther ==
  ASSUME TypeOK, TicketsCurrent, TicketsPending, Close \/ Ack \/ AckStep \/ Open \/ OpenRefused \/ UNCHANGED vars
  PROVE  RegisterKept /\ \E n : Resolved(n)
<1>1. cl' = cl
  BY DEF Close, Ack, AckStep, storeCheckpoint, storeCheckpointFails, pruneAcked, Open, OpenRefused, vars
<1>2. (recs' = recs /\ tickets' = tickets) \/ \E result : syncActiveLocked(result, recs)
  BY DEF Close, Ack, AckStep, storeCheckpoint, storeCheckpointFails, pruneAcked, Open, OpenRefused, vars, syncVars
<1>3. AppendsAnswered(recs)
  BY RepliedAnswers DEF Outcomes
<1>. QED  BY <1>1, <1>2, <1>3, SyncResolves DEF RegisterKept

\* Sends, the registration of a ticket, and a crash.
LEMMA PendingSend ==
  ASSUME TypeOK, TicketsPending, NEW c \in Clients, AppendSend(c) \/ EnqueueSend(c)
  PROVE  TicketsPending'
<1>. DEFINE k == Len(recs) + 1
<1>1. /\ tickets' = tickets /\ DOMAIN recs' = DOMAIN recs \cup {k} /\ \A i \in DOMAIN recs : recs'[i] = recs[i]
      /\ \A d \in Clients \ {c} : cl'[d] = cl[d]
  BY ZenonT(30), SendFacts
<1>2. PICK lsn : Sends(c, lsn)
  BY ZenonT(30), SendFacts
<1>3. recs'[k].res = "pending" /\ (cl'[c].rec = k \/ cl'[c].pc # "register")
  BY <1>2 DEF Sends
<1>4. /\ \A p \in DOMAIN tickets : tickets[p] \in DOMAIN recs
      /\ \A d \in Clients : cl[d].pc = "register" => cl[d].rec \in DOMAIN recs
      /\ k \notin DOMAIN recs
  BY ProcessFacts DEF TypeOK, ClientType, ClientStates
<1>. HIDE DEF k
<1>5. \A d \in Clients \ {c} : cl'[d].pc = "register" => cl'[c].pc # "register"
  <2>1. CASE AppendSend(c)
    BY <2>1 DEF AppendSend, Submit, TypeOK, ClientType, ClientStates
  <2>2. CASE EnqueueSend(c)
    BY <1>1, <2>2 DEF EnqueueSend, EnqueueFree
  <2>. QED  BY <2>1, <2>2
<1>6. \A d \in Clients : cl'[d].pc = "register" =>
        \/ cl'[d] = cl[d] /\ d # c /\ cl'[c].pc # "register"
        \/ d = c /\ cl'[d].rec = k /\ \A e \in Clients \ {c} : cl'[e].pc # "register"
  BY Zenon, <1>1, <1>3, <1>5
<1>7. \A d \in Clients : cl'[d].pc = "register" =>
        /\ recs'[cl'[d].rec].res = "pending"
        /\ \A p \in DOMAIN tickets : tickets[p] # cl'[d].rec
        /\ \A e \in Clients : cl'[e].pc = "register" => e = d
  BY <1>1, <1>3, <1>4, <1>6 DEF TicketsPending
<1>. QED  BY <1>1, <1>7, <1>4 DEF TicketsPending

LEMMA PendingRegister ==
  ASSUME TypeOK, TicketsPending, NEW c \in Clients, EnqueueRegister(c)
  PROVE  TicketsPending' /\ recs' = recs
<1>1. tickets' = Append(tickets, cl[c].rec) /\ cl[c].pc = "register" /\ Return(c) /\ recs' = recs
  BY DEF EnqueueRegister, At
<1>2. tickets \in Seq(DOMAIN recs) /\ Len(tickets) \in Nat /\ DOMAIN tickets = 1..Len(tickets)
  BY ProcessFacts
<1>3. /\ DOMAIN tickets' = 1..(Len(tickets) + 1) /\ tickets'[Len(tickets) + 1] = cl[c].rec
      /\ \A p \in 1..Len(tickets) : tickets'[p] = tickets[p]
  BY <1>1, <1>2
<1>4. cl'[c].pc # "register" /\ \A d \in Clients \ {c} : cl'[d] = cl[d]
  BY Zenon, <1>1, ClientMoves
<1>5. /\ recs[cl[c].rec].res = "pending" /\ (\A p \in DOMAIN tickets : tickets[p] # cl[c].rec)
      /\ \A d \in Clients : cl[d].pc = "register" => d = c
  BY Zenon, <1>1 DEF TicketsPending
<1>7. \A p \in DOMAIN tickets' : p \in DOMAIN tickets \/ p = Len(tickets) + 1
  BY <1>2, <1>3
<1>. QED  BY <1>1, <1>2, <1>3, <1>5, <1>4, <1>7 DEF TicketsPending

LEMMA PendingCrash ==
  ASSUME Forget
  PROVE  TicketsPending'
BY DEF Forget, IdleClient, TicketsPending

\* No ticket is registered yet.
LEMMA PendingInit == Init => TicketsPending
<1>. SUFFICES ASSUME Init PROVE TicketsPending
  OBVIOUS
<1>. QED  BY DEF TicketsPending, Init, IdleClient

\* Every step keeps TicketsPending.
LEMMA PendingStep ==
  ASSUME "process" \notin CrashKinds, TypeOK, TicketsCurrent, TicketsPending, [Next]_vars
  PROVE  TicketsPending'
<1>1. ASSUME NEW c \in Clients, ClientStep(c) \/ ClientChoice(c) PROVE TicketsPending'
  BY <1>1, PendingSend, PendingRegister, HistoryClient, ResolvedPending DEF ClientStep, ClientChoice
<1>2. CASE WriterStep \/ WriterTick
  BY <1>2, HistoryWriter, ResolvedPending
<1>3. CASE Close \/ Ack \/ AckStep \/ Open \/ OpenRefused \/ UNCHANGED vars
  BY <1>3, HistoryOther, ResolvedPending
<1>4. CASE ProcessCrash \/ PowerLoss
  BY Zenon, <1>4, PendingCrash DEF ProcessCrash, PowerLoss
<1>. QED  BY <1>1, <1>2, <1>3, <1>4 DEF Next

-----------------------------------------------------------------------------
(* The log implements CommitLog *)

\* The history only grows, and outcomes are final.
OutcomesKept ==
  /\ DOMAIN recs \subseteq DOMAIN recs'
  /\ \A i \in DOMAIN recs : recs'[i].kind = recs[i].kind /\ (recs[i].res = "ok" => recs'[i].res = "ok")

\* What is stable stays.
LogGrows == stable <= stable' /\ \A p \in 1..stable : file'[p] = file[p]

\* Length and elements of the committed prefix.
LEMMA StablePrefix ==
  ASSUME NEW S, NEW f \in Seq(S), NEW n \in 0..Len(f)
  PROVE  /\ SubSeq(f, 1, n) \in Seq(S) /\ Len(SubSeq(f, 1, n)) = n
         /\ \A p \in 1..n : SubSeq(f, 1, n)[p] = f[p]
BY SubSeqType

\* The committed prefix after a step continues the one before it.
LEMMA PrefixExtends ==
  ASSUME TypeOK, TypeOK', LogGrows
  PROVE  Log!Extends
<1>1. /\ file \in Seq(DOMAIN recs) /\ stable \in 0..Len(file) /\ Len(file) \in Nat
      /\ file' \in Seq(DOMAIN recs') /\ stable' \in 0..Len(file') /\ Len(file') \in Nat
      /\ DOMAIN recs' \subseteq Nat
  BY DEF TypeOK, DiskType, HistoryType
<1>2. file' \in Seq(Nat)
  BY <1>1
<1>3. /\ Len(SubSeq(file, 1, stable)) = stable /\ \A p \in 1..stable : SubSeq(file, 1, stable)[p] = file[p]
      /\ SubSeq(file', 1, stable') \in Seq(Nat) /\ Len(SubSeq(file', 1, stable')) = stable'
      /\ \A p \in 1..stable' : SubSeq(file', 1, stable')[p] = file'[p]
  BY Zenon, <1>1, <1>2, StablePrefix
<1>4. \A p \in 1..stable : p \in 1..stable'
  BY <1>1 DEF LogGrows
<1>5. \A p \in 1..stable : SubSeq(file', 1, stable')[p] = SubSeq(file, 1, stable)[p]
  BY Zenon, <1>3, <1>4 DEF LogGrows
<1>6. Len(SubSeq(file, 1, stable)) <= Len(SubSeq(file', 1, stable'))
  BY Zenon, <1>3 DEF LogGrows
<1>. QED  BY Zenon, <1>3, <1>5, <1>6 DEF Log!Extends

\* A step that leaves the checkpoint alone commits, or stutters.
LEMMA CommitStep ==
  ASSUME TypeOK, TypeOK', ConfirmedStable', OutcomesKept, LogGrows, Acked' = Acked
  PROVE  Log!Commit
<1>3. Confirmed' \subseteq Log!Committed'
  <2>1. file' \in Seq(DOMAIN recs') /\ stable' \in 0..Len(file')
    BY DEF TypeOK, DiskType
  <2>2. Len(SubSeq(file', 1, stable')) = stable' /\ \A p \in 1..stable' : SubSeq(file', 1, stable')[p] = file'[p]
    BY Zenon, <2>1, StablePrefix
  <2>3. Confirmed' \subseteq StableRecords'
    BY DEF Confirmed, ConfirmedStable
  <2>. QED  BY Zenon, <2>2, <2>3 DEF StableRecords, Log!Committed
<1>. QED  BY PrefixExtends, <1>3 DEF Log!Commit, Confirmed, OutcomesKept

\* What is stable stays, also when power is lost.
LEMMA GrowStep ==
  ASSUME TypeOK, [Next]_vars
  PROVE  LogGrows
<1>0. stable \in Nat /\ Len(file) \in Nat /\ stable <= Len(file) /\ file \in Seq(DOMAIN recs)
  BY ProcessFacts
<1>1. CASE UNCHANGED <<file, stable>>
  BY <1>0, <1>1 DEF LogGrows
<1>2. ASSUME UNCHANGED file, NEW R, SameHistory(R), NEW result, syncActiveLocked(result, R) PROVE LogGrows
  BY <1>2, SyncActiveType, <1>0 DEF SameHistory, LogGrows
<1>3. SameHistory(recs) /\ \A res \in {"ok", "err"} : SameHistory(Replied(recs, IdsOf(batch), res))
  BY SameSelf, RepliedSame DEF Outcomes
<1>4. CASE WriterWrite
  <2>1. PICK p \in todo : file' = Append(file, batch[p].rec)
    BY <1>4 DEF WriterWrite
  <2>. QED  BY <1>0, <1>4, <2>1 DEF LogGrows, WriterWrite
<1>5. ASSUME NEW c \in Clients, ClientStep(c) \/ ClientChoice(c) PROVE LogGrows
  <2>1. UNCHANGED <<file, stable>> \/ (UNCHANGED file /\ \E result : syncActiveLocked(result, recs))
    BY SMTT(30), <1>5 DEF ClientStep, ClientChoice, AppendSend, AppendReturn, EnqueueRefuse, EnqueueCheck, EnqueueSend,
       EnqueueRegister, SyncBoundary, SyncCheck, SyncSend, SyncReply, SyncFlush, SyncReturn, AppendBegin,
       AppendCancel, EnqueueReserve, SyncBegin, SyncCancel, diskVars, syncVars
  <2>. QED  BY <1>1, <1>2, <1>3, <2>1
<1>6. CASE \/ WriterTake \/ WriterCollect \/ WriterDrain \/ WriterRefuse \/ WriterAdmit \/ WriterCreate \/ WriterFails
           \/ WriterStop \/ WriterExit \/ Close \/ AckStep \/ Open \/ OpenRefused \/ UNCHANGED vars
  <2>1. UNCHANGED <<file, stable>>
    BY Zenon, <1>6 DEF WriterTake, WriterCollect, WriterDrain, WriterRefuse, WriterAdmit, WriterCreate, WriterFails, WriterStop,
       WriterExit, Close, AckStep, storeCheckpoint, storeCheckpointFails, pruneAcked, Open, OpenRefused, diskVars, syncVars,
       vars
  <2>. QED  BY <1>1, <2>1
<1>7. CASE WriterTick \/ WriterCloseActive \/ Ack
  BY <1>7, <1>2, <1>3 DEF WriterTick, WriterCloseActive, Ack, diskVars
<1>8. CASE WriterRotate \/ WriterFinish
  BY <1>8, <1>1, <1>2, <1>3 DEF WriterRotate, WriterFinish, diskVars
<1>9. CASE ProcessCrash
  BY <1>1, <1>9 DEF ProcessCrash
<1>10. CASE PowerLoss
  <2>1. PICK k \in stable..Len(file) : file' = SubSeq(file, 1, k) /\ stable' = k
    BY <1>10 DEF PowerLoss
  <2>2. k \in 0..Len(file)
    BY <1>0
  <2>3. \A p \in 1..k : file'[p] = file[p]
    BY <1>0, <2>1, <2>2, StablePrefix
  <2>4. stable <= stable' /\ \A p \in 1..stable : p \in 1..k
    BY <1>0, <2>1, <2>2
  <2>. QED  BY Zenon, <2>3, <2>4 DEF LogGrows
<1>. QED  BY <1>4, <1>5, <1>6, <1>7, <1>8, <1>9, <1>10 DEF Next, WriterStep

\* Outcomes are kept by every step.
LEMMA OutcomesStep ==
  ASSUME TypeOK, TicketsCurrent, TicketsPending, [Next]_vars
  PROVE  OutcomesKept
<1>1. ASSUME NEW n, Resolved(n) PROVE OutcomesKept
  <2>1. DOMAIN recs' = DOMAIN recs
    BY <1>1, ProcessFacts DEF Resolved, SameHistory
  <2>. QED  BY <1>1, <2>1 DEF Resolved, SameHistory, OutcomesKept
<1>2. ASSUME NEW c \in Clients, ClientStep(c) \/ ClientChoice(c) PROVE OutcomesKept
  <2>1. CASE AppendSend(c) \/ EnqueueSend(c)
    <3>1. DOMAIN recs' = DOMAIN recs \cup {Len(recs) + 1} /\ \A i \in DOMAIN recs : recs'[i] = recs[i]
      BY ZenonT(30), <2>1, SendFacts
    <3>. QED  BY <3>1 DEF OutcomesKept
  <2>2. CASE EnqueueRegister(c)
    BY <2>2, PendingRegister DEF OutcomesKept
  <2>. QED  BY <1>1, <1>2, <2>1, <2>2, HistoryClient DEF ClientStep, ClientChoice
<1>3. CASE WriterStep \/ WriterTick
  BY <1>1, <1>3, HistoryWriter
<1>4. CASE Close \/ Ack \/ AckStep \/ Open \/ OpenRefused \/ UNCHANGED vars
  BY <1>1, <1>4, HistoryOther
<1>5. CASE ProcessCrash \/ PowerLoss
  <2>1. \A i \in DOMAIN recs : recs[i] \in Record
    BY ProcessFacts
  <2>2. /\ DOMAIN recs' = DOMAIN recs
        /\ \A i \in DOMAIN recs : \/ recs'[i] = recs[i]
                                  \/ recs[i].res = "pending" /\ recs'[i] = [recs[i] EXCEPT !.res = "lost"]
    BY Zenon, <1>5 DEF ProcessCrash, PowerLoss, Forget
  <2>. QED  BY <2>1, <2>2 DEF OutcomesKept, Record
<1>. QED  BY <1>2, <1>3, <1>4, <1>5 DEF Next

\* Only a stored checkpoint, or a crash, moves the acknowledged prefix.
LEMMA AckedStep ==
  ASSUME TypeOK, [Next]_vars, ~ProcessCrash, ~PowerLoss, ~storeCheckpoint
  PROVE  Acked' = Acked
<1>1. CASE UNCHANGED <<phase, checkpoint, slots>>
  BY <1>1 DEF Acked, loadCheckpoint
<1>2. ASSUME NEW c \in Clients, ClientStep(c) \/ ClientChoice(c) PROVE UNCHANGED <<phase, checkpoint, slots>>
  BY SMTT(30), <1>2 DEF ClientStep, ClientChoice, AppendSend, AppendReturn, EnqueueRefuse, EnqueueCheck, EnqueueSend,
     EnqueueRegister, SyncBoundary, SyncCheck, SyncSend, SyncReply, SyncFlush, SyncReturn, AppendBegin,
     AppendCancel, EnqueueReserve, SyncBegin, SyncCancel, diskVars, ackVars, processVars
<1>3. CASE WriterStep \/ WriterTick \/ Close \/ Ack \/ pruneAcked \/ UNCHANGED vars
  <2>1. CASE \/ WriterTake \/ WriterCollect \/ WriterDrain \/ WriterRefuse \/ WriterAdmit \/ WriterRotate \/ WriterCreate
             \/ WriterWrite \/ WriterFails
    <3>1. UNCHANGED <<phase, checkpoint, slots>>
      BY ZenonT(30), <2>1 DEF WriterTake, WriterCollect, WriterDrain, WriterRefuse, WriterAdmit, WriterRotate, WriterCreate, WriterWrite,
         WriterFails, diskVars, ackVars, processVars
    <3>. QED  BY <1>1, <3>1
  <2>2. CASE \/ WriterFinish \/ WriterStop \/ WriterCloseActive \/ WriterExit \/ WriterTick \/ Close \/ Ack \/ pruneAcked
             \/ UNCHANGED vars
    <3>1. UNCHANGED <<phase, checkpoint, slots>>
      BY ZenonT(30), <2>2 DEF WriterFinish, WriterStop, WriterCloseActive, WriterExit, WriterTick, Close, Ack, pruneAcked, diskVars,
         ackVars, processVars, vars
    <3>. QED  BY <1>1, <3>1
  <2>. QED  BY <1>3, <2>1, <2>2 DEF WriterStep
<1>4. CASE storeCheckpointFails
  BY <1>4 DEF storeCheckpointFails, processVars, Acked
<1>5. CASE Open
  BY <1>5 DEF Open, Acked
<1>6. CASE OpenRefused
  BY <1>6 DEF OpenRefused, diskVars, Acked, loadCheckpoint
<1>. QED  BY <1>1, <1>2, <1>3, <1>4, <1>5, <1>6 DEF Next, AckStep

\* Ack acknowledges what it has just made stable.
LEMMA AcknowledgeStep ==
  ASSUME TypeOK, DurableInv, RecoveryInv, storeCheckpoint
  PROVE  Log!Acknowledge
<1>1. /\ UNCHANGED <<file, stable, recs, phase>> /\ phase = "up" /\ apc = "store" /\ checkpoint' = NextCheckpoint
  BY DEF storeCheckpoint, syncVars, processVars
<1>3. Acked = checkpoint.fence /\ Acked' = afence
  BY <1>1 DEF Acked, NextCheckpoint
<1>4. afence \in Nat /\ checkpoint.fence < afence /\ afence <= stable
  BY <1>1, SlotFacts DEF RecoveryInv, AckInv, DurableInv, SegmentsStable
<1>5. Len(SubSeq(file, 1, stable)) = stable
  BY ProcessFacts, StablePrefix
<1>6. Confirmed' = Confirmed
  BY <1>1 DEF Confirmed
<1>. QED  BY Zenon, <1>1, <1>3, <1>4, <1>5, <1>6 DEF Log!Acknowledge

\* A power loss keeps what was confirmed; the checkpoint a recovery will load is stable.
LEMMA RecoverStep ==
  ASSUME TypeOK, TypeOK', DurableInv, RecoveryInv, TicketsPending, PowerLoss
  PROVE  Log!Recover
<1>1. Log!Extends /\ LogGrows
  BY GrowStep, PrefixExtends DEF Next
<1>2. Confirmed' = Confirmed
  <2>1. \A i \in DOMAIN recs : recs[i] \in Record
    BY ProcessFacts
  <2>. QED  BY <2>1 DEF Confirmed, Record, PowerLoss, Forget
<1>3. phase = "up" /\ phase' = "down" /\ slots' = slots
  BY DEF PowerLoss, Forget
<1>5. checkpoint.fence <= loadCheckpoint.fence /\ loadCheckpoint.fence \in Nat
  BY <1>3, LoadsNewest, SlotFacts DEF RecoveryInv
<1>7. Len(SubSeq(file', 1, stable')) = stable' /\ stable' \in Nat /\ stable \in Nat
  <2>1. file' \in Seq(DOMAIN recs') /\ stable' \in 0..Len(file') /\ stable \in Nat
    BY ProcessFacts DEF TypeOK, DiskType
  <2>2. Len(SubSeq(file', 1, stable')) = stable'
    BY Zenon, <2>1, StablePrefix
  <2>3. \A m \in Nat : \A k \in 0..m : k \in Nat
    OBVIOUS
  <2>4. Len(file') \in Nat
    BY <2>1
  <2>. QED  BY Zenon, <2>1, <2>2, <2>3, <2>4
<1>8. loadCheckpoint.fence <= stable'
  BY <1>1, <1>5, SlotFacts, <1>7 DEF LogGrows, DurableInv, CheckpointStable
<1>. QED  BY <1>1, <1>2, <1>3, <1>5, <1>7, <1>8 DEF Log!Recover, Acked, loadCheckpoint

\* The initial state of the log is one of CommitLog.
LEMMA LogInit == Init => Log!Init
<1>. SUFFICES ASSUME Init PROVE Log!Init
  OBVIOUS
<1>. QED  BY DEF Log!Init, Confirmed, Acked, Init

\* A step of the log is a step of CommitLog.
LEMMA LogStep ==
  ASSUME "process" \notin CrashKinds, TypeOK, TypeOK', DurableInv, DurableInv', RecoveryInv, TicketsPending, [Next]_vars
  PROVE  Log!Next
<1>1. CASE PowerLoss
  BY <1>1, RecoverStep DEF Log!Next
<1>2. CASE storeCheckpoint
  BY <1>2, AcknowledgeStep DEF Log!Next
<1>3. CASE ~PowerLoss /\ ~storeCheckpoint
  BY <1>3, GrowStep, OutcomesStep, AckedStep, CommitStep DEF DurableInv, ProcessCrash, Log!Next
<1>. QED  BY <1>1, <1>2, <1>3
=============================================================================
