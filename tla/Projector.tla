------------------------------ MODULE Projector ------------------------------
(***************************************************************************)
(* framework/dataengine/engine: admission of Nest transactions in front of *)
(* the write-ahead log, the replay passes that project the log into Mongo  *)
(* (serial units and parallel lanes, batches, fallback to single records,  *)
(* checkpoints of the contiguous prefix), cold loads that wait for an      *)
(* entity's projections, entity.unload, the fatal and WAL-terminal stops,  *)
(* start-up recovery, Close and process crashes.                           *)
(*                                                                         *)
(* Data abstraction: a document is its version and its last transaction;   *)
(* a transaction writes some documents and may emit one effect.  Receipts  *)
(* are staged by the same rule as effects and Remote writes are left out,  *)
(* so no record is a planning barrier.  Byte limits are record counts.     *)
(* The WAL is a queue of records of which Replay reads the written prefix; *)
(* a Mongo transaction is one step, and may fail before or after it took   *)
(* effect.  Calls refused before they change anything leave no step.       *)
(*                                                                         *)
(* A definition named X_fault is X with one seeded fault.  Nothing uses it *)
(* but the mutation runs listed in PROJECT.json.                           *)
(***************************************************************************)
EXTENDS Integers, Sequences, FiniteSets, SequencesExt

CONSTANTS
  Docs,                \* entities, one document each
  Effects,             \* effect identities
  None,                \* no effect, nobody waiting
  Shapes,              \* the transactions handlers commit: records [docs, effect]
  MaxTx,               \* bound: transactions in a behaviour
  MaxUnackedRecords,   \* ProjectorOptions.MaxUnackedRecords
  ReplayBatchRecords,  \* ProjectorOptions.ReplayBatchRecords
  ProjectionWorkers,   \* ProjectorOptions.ProjectionWorkers
  MaxFaults,           \* bound: store and checkpoint calls that fail
  MaxCrashes,          \* bound: process failures
  Stops                \* what else may happen, a subset of {"terminal", "unload", "drop", "close"}

Absent == -1           \* the entity is not resident

VARIABLES
  \* the write-ahead log
  tx,        \* transactions by number: documents, effect and the versions written
  log,       \* transactions in log order, the queued ones included
  written,   \* length of the prefix Replay can read
  acked,     \* the checkpoint in memory
  slot,      \* the checkpoint on disk
  terminal,  \* the WAL is unhealthy
  \* Mongo
  doc,       \* _version and _last_tx of each document
  markers,   \* transactions with a durable marker
  outbox,    \* effect -> the transaction that staged it, 0 when absent
  staged,    \* history: how often each transaction staged its effect
  \* the process
  phase,     \* "down", "recovering", "up", "closing"
  mem,       \* version of each resident entity
  locked,    \* transactions holding their entity locks
  held, admitted, pending,
  failed,    \* pending entries finished with an error
  fatal, walTerminal,
  load,      \* documents being loaded: the pending entries they wait for
  unload,    \* entity.unload in progress: the entries its drain waits for
  pass,      \* the replay pass that owns replayGate
  \* bounds
  faults, crashes

walVars == <<tx, log, written, acked, slot, terminal>>
mongoVars == <<doc, markers, outbox, staged>>
admissionVars == <<locked, held, admitted>>
waitVars == <<pending, failed, fatal, walTerminal>>
entityVars == <<mem, load, unload>>
boundVars == <<faults, crashes>>
vars == <<walVars, mongoVars, admissionVars, waitVars, entityVars, phase, pass, boundVars>>

-----------------------------------------------------------------------------
(* Records *)

Ids == DOMAIN tx
Logged == ToSet(log)
Rec(p) == tx[log[p]]
Keys(i) == tx[i].docs \cup ({tx[i].effect} \ {None})

\* isLocalBatchRecord and projectsOnFastPath.
IsLocal(i) == tx[i].effect = None
FastPath(i) == IsLocal(i) /\ Cardinality(tx[i].docs) = 1

Idle == [pc |-> "idle", from |-> 0, to |-> 0, parallel |-> FALSE, lanes |-> <<>>,
         stop |-> FALSE, done |-> {}, due |-> FALSE]
Running == phase \in {"recovering", "up"}

\* projectionUsable.
Usable == ~fatal /\ ~walTerminal /\ phase # "closing" /\ ~terminal

\* Who holds the lock of an entity.
LockFree(d) == \A i \in locked : d \notin tx[i].docs

-----------------------------------------------------------------------------
(* Planning: planReplayWindows, planParallelWindow, planProjectionSegments.  *)
(* Positions are log positions.                                              *)

\* The records of P connected to p through shared conflict keys.
Component(P, p) ==
  LET grow[k \in 0..Cardinality(P)] ==
        IF k = 0 THEN {p}
        ELSE LET known == grow[k - 1]
             IN {q \in P : \E r \in known : Keys(log[q]) \cap Keys(log[r]) # {}}
  IN grow[Cardinality(P)]

Roots(P) == {p \in P : \A q \in Component(P, p) : p <= q}

LeastLoaded(load0) ==
  CHOOSE l \in DOMAIN load0 : \A k \in DOMAIN load0 :
    load0[l] < load0[k] \/ (load0[l] = load0[k] /\ l <= k)

\* Whole components, in order of their first record, each to the lane that has
\* the fewest records so far.
Lanes(P) ==
  LET roots == SetToSortSeq(Roots(P), <)
      count == IF ProjectionWorkers < Len(roots) THEN ProjectionWorkers ELSE Len(roots)
      Assign(acc, r) ==
        LET l == LeastLoaded([k \in 1..count |-> Cardinality(acc[k])])
        IN [acc EXCEPT ![l] = @ \cup Component(P, r)]
      sets == FoldLeft(Assign, [k \in 1..count |-> {}], roots)
  IN [l \in 1..count |-> SetToSortSeq(sets[l], <)]

Parallel(P) == ProjectionWorkers > 1 /\ Cardinality(Roots(P)) >= 2

\* Consecutive local records share a segment up to the batch limit, any other
\* record is a segment of its own.
Segments(q) ==
  LET Add(acc, p) ==
        IF /\ acc # <<>> /\ IsLocal(log[p]) /\ IsLocal(log[Head(Last(acc))])
           /\ Len(Last(acc)) < ReplayBatchRecords
        THEN Append(Front(acc), Append(Last(acc), p))
        ELSE Append(acc, <<p>>)
  IN FoldLeft(Add, <<>>, q)

NewLane(q) == [units |-> Segments(q), single |-> FALSE, sent |-> FALSE, err |-> "none"]

\* A record may use the fast path in a lane only if none of its keys occurs
\* again in the window.
LastOfItsKeys(p) ==
  \A q \in p + 1..pass.to : Keys(log[q]) \cap Keys(log[p]) = {}

-----------------------------------------------------------------------------
(* Admission: Commit, Enqueue, reserve, discard, TransactionReleased.        *)

Admits_barrier_fault(shape) == Cardinality(admitted) < MaxUnackedRecords

\* No entity of the transaction is being unloaded, and the unacknowledged
\* records are below their limit.
Admits(shape) ==
  /\ \A d \in shape.docs : unload[d] = None
  /\ Cardinality(admitted) < MaxUnackedRecords

\* A handler holds its entity locks and its record passes reserve.
reserve(shape) ==
  /\ phase = "up" /\ ~fatal /\ ~walTerminal
  /\ Len(tx) < MaxTx
  /\ \A d \in shape.docs : mem[d] # Absent /\ LockFree(d)
  /\ Admits(shape)
  /\ LET i == Len(tx) + 1 IN
       /\ tx' = Append(tx, [docs |-> shape.docs, effect |-> shape.effect,
                            version |-> [d \in shape.docs |-> mem[d] + 1]])
       /\ admitted' = admitted \cup {i}
       /\ pending' = pending \cup {i}
       /\ held' = held \cup {i}
       /\ locked' = locked \cup {i}
  /\ UNCHANGED <<log, written, acked, slot, terminal, mongoVars, failed, fatal, walTerminal,
                 entityVars, phase, pass, boundVars>>

\* The WAL takes the record: the entity keeps its new version.
Enqueue(i) ==
  /\ i \in locked \ Logged /\ ~terminal /\ phase \in {"up", "closing"}
  /\ log' = Append(log, i)
  /\ mem' = [d \in Docs |-> IF d \in tx[i].docs THEN tx[i].version[d] ELSE mem[d]]
  /\ UNCHANGED <<tx, written, acked, slot, terminal, mongoVars, admissionVars, waitVars,
                 load, unload, phase, pass, boundVars>>

\* The WAL refused the record (capacity, cancelled, terminal), or answered that
\* the outcome of a record it had taken is unknown.  Nest rolls back or
\* abandons the transaction and unlocks.
discard(i) ==
  /\ i \in locked /\ phase \in {"up", "closing"}
  /\ i \in Logged => terminal
  /\ pending' = pending \ {i}
  /\ held' = held \ {i}
  /\ admitted' = admitted \ {i}
  /\ locked' = locked \ {i}
  /\ UNCHANGED <<walVars, mongoVars, failed, fatal, walTerminal, entityVars, phase, pass, boundVars>>

\* The writer goroutine of the WAL.
Write ==
  /\ phase # "down" /\ ~terminal /\ written < Len(log)
  /\ written' = written + 1
  /\ UNCHANGED <<tx, log, acked, slot, terminal, mongoVars, admissionVars, waitVars, entityVars,
                 phase, pass, boundVars>>

\* A pipelined transaction unlocks once its record is queued.
Unlock(i) ==
  /\ i \in locked \cap Logged /\ phase \in {"up", "closing"}
  /\ locked' = locked \ {i}
  /\ UNCHANGED <<walVars, mongoVars, held, admitted, waitVars, entityVars, phase, pass, boundVars>>

TransactionReleased_fault(i) ==
  /\ i \in held \ locked /\ i \in {log[p] : p \in 1..acked} /\ phase \in {"up", "closing"}
  /\ held' = held \ {i}
  /\ UNCHANGED <<walVars, mongoVars, locked, admitted, waitVars, entityVars, phase, pass, boundVars>>

\* After the unlock and after the record is durable.
TransactionReleased(i) ==
  /\ i \in held \ locked /\ i \in {log[p] : p \in 1..written} /\ phase \in {"up", "closing"}
  /\ held' = held \ {i}
  /\ UNCHANGED <<walVars, mongoVars, locked, admitted, waitVars, entityVars, phase, pass, boundVars>>

-----------------------------------------------------------------------------
(* The store: MongoStore.Project and ProjectBatch.  A call is the sequence   *)
(* of transactions it projects.                                              *)

Version(i, d) == tx[i].version[d]

\* The version each record of call q expects is the one its predecessor in q,
\* or else the document, has.
Fits(q) ==
  \A k \in DOMAIN q : \A d \in tx[q[k]].docs :
    LET before == {j \in 1..k - 1 : d \in tx[q[j]].docs}
    IN Version(q[k], d) = 1 + IF before = {} THEN doc[d].version
                              ELSE Version(q[CHOOSE j \in before : \A l \in before : l <= j], d)

Written(q) ==
  [d \in Docs |->
     LET writers == {k \in DOMAIN q : d \in tx[q[k]].docs}
         k == CHOOSE j \in writers : \A l \in writers : l <= j
     IN IF writers = {} THEN doc[d] ELSE [version |-> Version(q[k], d), last |-> q[k]]]

Unmarked(q) == SelectSeq(q, LAMBDA i : i \notin markers)

\* ProjectBatch skips the transactions that have a marker and applies the
\* others in one Mongo transaction, or asks for single records.
BatchResult(q) == IF Fits(Unmarked(q)) THEN "ok" ELSE "perRecord"
BatchApply(q) ==
  /\ doc' = Written(Unmarked(q))
  /\ markers' = markers \cup ToSet(q)
  /\ UNCHANGED <<outbox, staged>>

\* applyMutation without a transaction; classifyNoMatch tells a replay of the
\* document's last transaction from a conflict.
FastResult(i) ==
  LET d == CHOOSE d \in tx[i].docs : TRUE IN
  IF Fits(<<i>>) \/ (doc[d].version = Version(i, d) /\ doc[d].last = i) THEN "ok" ELSE "conflict"
FastApply(i) ==
  /\ doc' = IF Fits(<<i>>) THEN Written(<<i>>) ELSE doc
  /\ UNCHANGED <<markers, outbox, staged>>

StageOk(i) == tx[i].effect = None \/ outbox[tx[i].effect] \in {0, i}

\* The Mongo transaction: marker, mutations, effect, marker insert.
TransactionResult(i) ==
  IF i \in markers \/ (Fits(<<i>>) /\ StageOk(i)) THEN "ok" ELSE "conflict"
TransactionApply_fault(i) ==
  LET e == tx[i].effect IN
  /\ doc' = IF Fits(<<i>>) THEN Written(<<i>>) ELSE doc
  /\ markers' = markers \cup {i}
  /\ outbox' = IF e = None THEN outbox ELSE [outbox EXCEPT ![e] = i]
  /\ staged' = IF e = None \/ outbox[e] = i THEN staged ELSE [staged EXCEPT ![i] = @ + 1]
TransactionApply(i) ==
  LET e == tx[i].effect IN
  IF i \in markers THEN UNCHANGED mongoVars
  ELSE /\ doc' = Written(<<i>>)
       /\ markers' = markers \cup {i}
       /\ outbox' = IF e = None THEN outbox ELSE [outbox EXCEPT ![e] = i]
       /\ staged' = IF e = None \/ outbox[e] = i THEN staged ELSE [staged EXCEPT ![i] = @ + 1]

ProjectResult(i) == IF FastPath(i) THEN FastResult(i) ELSE TransactionResult(i)
ProjectApply(i) == IF FastPath(i) THEN FastApply(i) ELSE TransactionApply(i)

-----------------------------------------------------------------------------
(* ReplayPass, projectLane.                                                  *)

readReplayBatch_fault ==
  LET limit == ReplayBatchRecords * ProjectionWorkers
      stops == {p \in acked + 1..written : p > acked + limit}
  IN IF stops = {} THEN written ELSE (CHOOSE p \in stops : \A q \in stops : p <= q) - 1

\* The last record this pass takes: it stops before a transaction that is
\* still held.
readReplayBatch ==
  LET limit == ReplayBatchRecords * ProjectionWorkers
      stops == {p \in acked + 1..written : log[p] \in held \/ p > acked + limit}
  IN IF stops = {} THEN written ELSE (CHOOSE p \in stops : \A q \in stops : p <= q) - 1

ReplayPass ==
  /\ pass.pc = "idle" /\ Running /\ ~fatal
  /\ readReplayBatch > acked
  /\ LET P == acked + 1..readReplayBatch
         lanes == IF Parallel(P) THEN Lanes(P) ELSE <<SetToSortSeq(P, <)>>
     IN pass' = [Idle EXCEPT !.pc = "run", !.from = acked + 1, !.to = readReplayBatch,
                             !.parallel = Parallel(P),
                             !.lanes = [l \in DOMAIN lanes |-> NewLane(lanes[l])]]
  /\ UNCHANGED <<walVars, mongoVars, admissionVars, waitVars, entityVars, phase, boundVars>>

\* The store call a lane is about to make.
Unit(l) == Head(pass.lanes[l].units)
Call(l) == LET u == IF pass.lanes[l].single THEN <<Head(Unit(l))>> ELSE Unit(l)
           IN [k \in DOMAIN u |-> log[u[k]]]
IsBatch(l) ==
  /\ ~pass.lanes[l].single /\ IsLocal(Call(l)[1])
  /\ Len(Unit(l)) > 1 \/ (pass.parallel /\ ~(FastPath(Call(l)[1]) /\ LastOfItsKeys(Unit(l)[1])))

\* An unfinished lane that may send its next unit: the first unit is sent in
\* any case, later ones not after another lane failed.
Sending(l) ==
  /\ pass.pc = "run" /\ ~pass.due
  /\ pass.lanes[l].units # <<>>
  /\ pass.parallel /\ pass.stop => ~pass.lanes[l].sent /\ ~pass.lanes[l].single

LaneEnds(l, err) == [pass EXCEPT !.lanes[l].units = <<>>, !.lanes[l].err = err,
                                 !.stop = @ \/ err # "none"]

\* The lane after its call succeeded.  In the fallback to single records a lane
\* ends after a fast-path record whose keys occur again.
LaneAfter(l, rest) ==
  [pass.lanes[l] EXCEPT
     !.units = IF /\ pass.parallel /\ pass.lanes[l].single
                  /\ FastPath(Call(l)[1]) /\ ~LastOfItsKeys(Unit(l)[1])
               THEN <<>> ELSE rest,
     !.sent = TRUE,
     !.single = @ /\ Len(Unit(l)) > 1]

CheckpointDue_fault(l) == IF pass.parallel THEN {FALSE} ELSE BOOLEAN

\* Serial units other than fast-path ones may wait for the checkpoint
\* thresholds.
CheckpointDue(l) ==
  IF pass.parallel THEN {FALSE}
  ELSE IF FastPath(Call(l)[1]) /\ Len(Call(l)) = 1 THEN {TRUE} ELSE BOOLEAN

finishProjectedUnit(l) ==
  LET taken == IF pass.lanes[l].single THEN {Head(Unit(l))} ELSE ToSet(Unit(l))
      rest == IF pass.lanes[l].single /\ Len(Unit(l)) > 1
              THEN <<Tail(Unit(l))>> \o Tail(pass.lanes[l].units)
              ELSE Tail(pass.lanes[l].units)
  IN /\ \E due \in CheckpointDue(l) :
          pass' = [pass EXCEPT !.lanes[l] = LaneAfter(l, rest), !.done = @ \cup taken, !.due = due]
     /\ pending' = pending \ ToSet(Call(l))
     /\ UNCHANGED <<failed, fatal, walTerminal>>

Result(l) == IF IsBatch(l) THEN BatchResult(Call(l)) ELSE ProjectResult(Call(l)[1])
Apply(l) == IF IsBatch(l) THEN BatchApply(Call(l)) ELSE ProjectApply(Call(l)[1])

storeCall == <<walVars, admissionVars, entityVars, phase>>

ProjectUnit(l) ==
  /\ Sending(l) /\ Result(l) = "ok"
  /\ Apply(l)
  /\ finishProjectedUnit(l)
  /\ UNCHANGED <<storeCall, boundVars>>

\* ErrProjectionBatchNeedsPerRecord.
FallBack(l) ==
  /\ Sending(l) /\ Result(l) = "perRecord"
  /\ pass' = [pass EXCEPT !.lanes[l].single = TRUE]
  /\ UNCHANGED <<storeCall, mongoVars, waitVars, boundVars>>

ProjectConflicts(l) ==
  /\ Sending(l) /\ Result(l) = "conflict"
  /\ pass' = LaneEnds(l, "conflict")
  /\ UNCHANGED <<storeCall, mongoVars, waitVars, boundVars>>

\* A store call fails without effect, or its commit succeeded and the answer
\* was lost.  A cancelled context fails calls too.
ProjectFails(l) ==
  /\ Sending(l)
  /\ IF phase = "closing" THEN UNCHANGED faults ELSE faults < MaxFaults /\ faults' = faults + 1
  /\ UNCHANGED mongoVars \/ (Result(l) = "ok" /\ Apply(l))
  /\ pass' = LaneEnds(l, "error")
  /\ UNCHANGED <<storeCall, waitVars, crashes>>

\* The lane sees the stop flag, or the cancelled context.
LaneStops(l) ==
  /\ pass.pc = "run" /\ pass.parallel /\ pass.lanes[l].units # <<>>
  /\ (pass.stop /\ (pass.lanes[l].sent \/ pass.lanes[l].single)) \/ phase = "closing"
  /\ pass' = LaneEnds(l, "none")
  /\ UNCHANGED <<storeCall, mongoVars, waitVars, boundVars>>

-----------------------------------------------------------------------------
(* Checkpoints and the end of a pass.                                        *)

ContiguousPrefix_fault == pass.from - 1 + Cardinality(pass.done)

\* The last position of the contiguous successful prefix.
ContiguousPrefix ==
  CHOOSE n \in pass.from - 1..pass.to :
    /\ pass.from..n \subseteq pass.done
    /\ n + 1 \notin pass.done

\* WAL.Ack up to position n, and acknowledge.
AckTo(n) ==
  /\ acked' = n /\ slot' = n
  /\ admitted' = admitted \ {log[p] : p \in acked + 1..n}
  /\ UNCHANGED <<tx, log, written, terminal, locked, held>>

\* The checkpoint may have reached the disk although Ack reported an error.
AckError(n) ==
  /\ CASE terminal -> UNCHANGED <<faults, slot>>
       [] ~terminal /\ phase = "closing" -> UNCHANGED <<faults, slot>>
       [] OTHER -> faults < MaxFaults /\ faults' = faults + 1 /\ slot' \in {slot, n}
  /\ UNCHANGED <<tx, log, written, acked, terminal, admissionVars>>

\* completeAllTickets: the entries still pending finish with an error.
completeAllTickets == pending' = {} /\ failed' = failed \cup pending

\* observeAckError.
walTerminated ==
  IF walTerminal THEN UNCHANGED waitVars
  ELSE walTerminal' = TRUE /\ completeAllTickets /\ UNCHANGED fatal

\* The checkpoint between two serial units.
checkpoint ==
  /\ pass.pc = "run" /\ pass.due
  /\ \/ /\ ~terminal
        /\ AckTo(ContiguousPrefix)
        /\ pass' = [pass EXCEPT !.due = FALSE]
        /\ UNCHANGED <<waitVars, faults>>
     \/ /\ AckError(ContiguousPrefix)
        /\ pass' = Idle
        /\ IF terminal THEN walTerminated ELSE UNCHANGED waitVars
  /\ UNCHANGED <<mongoVars, entityVars, phase, crashes>>

isFatalProjection_fault(conflict) ==
  /\ fatal' = (fatal \/ conflict)
  /\ pending' = pending \ (IF conflict THEN {log[p] : p \in pass.from..pass.to} ELSE {})
  /\ failed' = failed \cup (pending \ pending')

\* The first conflict stops the projector and wakes everybody who waits.
isFatalProjection(conflict) ==
  /\ fatal' = (fatal \/ conflict)
  /\ IF conflict THEN completeAllTickets ELSE UNCHANGED <<pending, failed>>

\* Every lane has returned.
projectParallelWindow ==
  /\ pass.pc = "run" /\ ~pass.due
  /\ \A l \in DOMAIN pass.lanes : pass.lanes[l].units = <<>>
  /\ isFatalProjection(\E l \in DOMAIN pass.lanes : pass.lanes[l].err = "conflict")
  /\ pass' = [pass EXCEPT !.pc = "final"]
  /\ UNCHANGED <<walVars, mongoVars, admissionVars, walTerminal, entityVars, phase, boundVars>>

\* The deferred checkpoint of the successful prefix, on every way out.
FinishPass ==
  /\ pass.pc = "final"
  /\ IF ContiguousPrefix = acked
     THEN UNCHANGED <<walVars, admissionVars, waitVars, faults>>
     ELSE \/ ~terminal /\ AckTo(ContiguousPrefix) /\ UNCHANGED <<waitVars, faults>>
          \/ /\ AckError(ContiguousPrefix)
             /\ IF terminal THEN walTerminated ELSE UNCHANGED waitVars
  /\ pass' = Idle
  /\ UNCHANGED <<mongoVars, entityVars, phase, crashes>>

-----------------------------------------------------------------------------
(* Cold loads and entity.unload.                                             *)

PendingOn(d) == {i \in pending : d \in tx[i].docs}
Done(set) == set \cap pending = {}

LoadBegin_fault(d) ==
  /\ phase = "up" /\ mem[d] = Absent /\ load[d] = None /\ Usable
  /\ load' = [load EXCEPT ![d] = {}]
  /\ UNCHANGED <<walVars, mongoVars, admissionVars, waitVars, mem, unload, phase, pass, boundVars>>

LoadBegin(d) ==
  /\ phase = "up" /\ mem[d] = Absent /\ load[d] = None /\ Usable
  /\ load' = [load EXCEPT ![d] = PendingOn(d)]
  /\ UNCHANGED <<walVars, mongoVars, admissionVars, waitVars, mem, unload, phase, pass, boundVars>>

\* WaitEntityProjection returns nil: every entry finished without an error and
\* the projector is still usable.
WaitOver(set) == Done(set) /\ set \cap failed = {} /\ Usable

\* It returns an error: an entry failed, or the projector was found unusable
\* after the last entry.  While it waits only the entries and Close wake it.
WaitFails(set) == phase = "closing" \/ (Done(set) /\ (set \cap failed # {} \/ ~Usable))

\* The aggregate is read from Mongo and becomes resident.
LoadEnd(d) ==
  /\ load[d] # None /\ WaitOver(load[d])
  /\ mem' = [mem EXCEPT ![d] = doc[d].version]
  /\ load' = [load EXCEPT ![d] = None]
  /\ UNCHANGED <<walVars, mongoVars, admissionVars, waitVars, unload, phase, pass, boundVars>>

LoadFails(d) ==
  /\ load[d] # None /\ WaitFails(load[d])
  /\ load' = [load EXCEPT ![d] = None]
  /\ UNCHANGED <<walVars, mongoVars, admissionVars, waitVars, mem, unload, phase, pass, boundVars>>

\* The caller's deadline.
LoadTimesOut(d) ==
  /\ load[d] # None
  /\ load' = [load EXCEPT ![d] = None]
  /\ UNCHANGED <<walVars, mongoVars, admissionVars, waitVars, mem, unload, phase, pass, boundVars>>

\* ManagerAccess.Unload on its own, for an instance that is no longer trusted:
\* it leaves memory under its lock, whatever is still pending.
Unload(d) ==
  /\ "drop" \in Stops
  /\ phase = "up" /\ mem[d] # Absent /\ LockFree(d)
  /\ mem' = [mem EXCEPT ![d] = Absent]
  /\ UNCHANGED <<walVars, mongoVars, admissionVars, waitVars, load, unload, phase, pass, boundVars>>

\* Under the entity lock: from here on reserve refuses writes to d.
raiseUnloadBarrier(d) ==
  /\ "unload" \in Stops
  /\ phase = "up" /\ mem[d] # Absent /\ ~fatal /\ ~walTerminal
  /\ LockFree(d) /\ unload[d] = None
  /\ unload' = [unload EXCEPT ![d] = PendingOn(d)]
  /\ UNCHANGED <<walVars, mongoVars, admissionVars, waitVars, mem, load, phase, pass, boundVars>>

\* The drain is over and the instance leaves memory, again under its lock.
UnloadEntity(d) ==
  /\ unload[d] # None /\ WaitOver(unload[d]) /\ LockFree(d)
  /\ mem' = [mem EXCEPT ![d] = Absent]
  /\ unload' = [unload EXCEPT ![d] = None]
  /\ UNCHANGED <<walVars, mongoVars, admissionVars, waitVars, load, phase, pass, boundVars>>

\* The drain failed or timed out, or the lock was not free in time: nothing is
\* unloaded and the barrier goes.
UnloadFails(d) ==
  /\ unload[d] # None
  /\ unload' = [unload EXCEPT ![d] = None]
  /\ UNCHANGED <<walVars, mongoVars, admissionVars, waitVars, mem, load, phase, pass, boundVars>>

-----------------------------------------------------------------------------
(* WAL failure, lifecycle, crash, and the outbox.                            *)

\* An I/O error makes the WAL terminal.
WALFails ==
  /\ "terminal" \in Stops /\ phase # "down" /\ ~terminal
  /\ terminal' = TRUE
  /\ UNCHANGED <<tx, log, written, acked, slot, mongoVars, admissionVars, waitVars, entityVars,
                 phase, pass, boundVars>>

watchWALTerminal ==
  /\ terminal /\ phase \in {"recovering", "up"} /\ ~walTerminal
  /\ walTerminated
  /\ UNCHANGED <<walVars, mongoVars, admissionVars, entityVars, phase, pass, boundVars>>

\* The ticket of a queued record fails.
signalWhenDurable(i) ==
  /\ terminal /\ phase \in {"recovering", "up"}
  /\ i \in pending /\ i \in {log[p] : p \in written + 1..Len(log)} /\ i \notin locked
  /\ pending' = pending \ {i} /\ failed' = failed \cup {i}
  /\ UNCHANGED <<walVars, mongoVars, admissionVars, fatal, walTerminal, entityVars, phase, pass, boundVars>>

Open ==
  /\ phase = "down"
  /\ phase' = "recovering"
  /\ UNCHANGED <<walVars, mongoVars, admissionVars, waitVars, entityVars, pass, boundVars>>

\* Runtime.Start: drainAtStartup's Flush synced and found nothing left.
Start ==
  /\ phase = "recovering" /\ ~fatal /\ ~terminal /\ pass.pc = "idle"
  /\ acked = Len(log)
  /\ phase' = "up"
  /\ UNCHANGED <<walVars, mongoVars, admissionVars, waitVars, entityVars, pass, boundVars>>

Close ==
  /\ "close" \in Stops /\ Running
  /\ phase' = "closing"
  /\ UNCHANGED <<walVars, mongoVars, admissionVars, waitVars, entityVars, pass, boundVars>>

\* The process is gone: what survives is Mongo, the checkpoint on disk and the
\* log from the written prefix on.
Down(n) ==
  /\ log' = SubSeq(log, 1, n) /\ written' = n /\ acked' = slot
  /\ terminal' = FALSE
  /\ phase' = "down" /\ pass' = Idle
  /\ mem' = [d \in Docs |-> Absent]
  /\ load' = [d \in Docs |-> None] /\ unload' = [d \in Docs |-> None]
  /\ locked' = {} /\ held' = {} /\ admitted' = {}
  /\ pending' = {} /\ failed' = {} /\ fatal' = FALSE /\ walTerminal' = FALSE
  /\ UNCHANGED <<tx, slot, mongoVars, faults>>

\* Close returns once the operations and the background loop have left; the
\* WAL writes out its queue.
Closed ==
  /\ phase = "closing" /\ pass.pc = "idle" /\ locked = {}
  /\ terminal \/ written = Len(log)
  /\ crashes < MaxCrashes /\ crashes' = crashes + 1
  /\ Down(written)

Crash ==
  /\ phase # "down" /\ crashes < MaxCrashes
  /\ crashes' = crashes + 1
  /\ \E n \in written..Len(log) : Down(n)

\* OutboxWorker publishes the effect and removes the document.
Deliver(e) ==
  /\ outbox[e] # 0
  /\ outbox' = [outbox EXCEPT ![e] = 0]
  /\ UNCHANGED <<walVars, doc, markers, staged, admissionVars, waitVars, entityVars, phase, pass, boundVars>>

-----------------------------------------------------------------------------
Init ==
  /\ tx = <<>> /\ log = <<>> /\ written = 0 /\ acked = 0 /\ slot = 0 /\ terminal = FALSE
  /\ doc = [d \in Docs |-> [version |-> 0, last |-> 0]]
  /\ markers = {} /\ outbox = [e \in Effects |-> 0] /\ staged = [i \in 1..MaxTx |-> 0]
  /\ phase = "down" /\ mem = [d \in Docs |-> Absent]
  /\ locked = {} /\ held = {} /\ admitted = {} /\ pending = {} /\ failed = {}
  /\ fatal = FALSE /\ walTerminal = FALSE
  /\ load = [d \in Docs |-> None] /\ unload = [d \in Docs |-> None]
  /\ pass = Idle /\ faults = 0 /\ crashes = 0

LaneStep ==
  \E l \in DOMAIN pass.lanes :
    ProjectUnit(l) \/ FallBack(l) \/ ProjectConflicts(l) \/ ProjectFails(l) \/ LaneStops(l)
PassStep == LaneStep \/ checkpoint \/ projectParallelWindow \/ FinishPass

Next ==
  \/ \E shape \in Shapes : reserve(shape)
  \/ \E i \in Ids : Enqueue(i) \/ discard(i) \/ Unlock(i) \/ TransactionReleased(i) \/ signalWhenDurable(i)
  \/ Write \/ ReplayPass \/ PassStep
  \/ \E d \in Docs : LoadBegin(d) \/ LoadEnd(d) \/ LoadFails(d) \/ LoadTimesOut(d)
  \/ \E d \in Docs : Unload(d) \/ raiseUnloadBarrier(d) \/ UnloadEntity(d) \/ UnloadFails(d)
  \/ WALFails \/ watchWALTerminal
  \/ Open \/ Start \/ Close \/ Closed \/ Crash
  \/ \E e \in Effects : Deliver(e)

Spec == Init /\ [][Next]_vars

\* The background loop and Flush keep starting passes, the goroutines of a pass
\* and of the WAL run, Nest unlocks and releases what it committed, and the
\* waiters are woken by closed channels.  Nobody has to crash, fail, unload,
\* commit or be restarted, and no load is rescued by its deadline.
Fairness ==
  /\ WF_vars(ReplayPass) /\ WF_vars(PassStep) /\ WF_vars(Write) /\ WF_vars(watchWALTerminal)
  /\ WF_vars(\E i \in Ids : Enqueue(i) \/ discard(i))
  /\ \A i \in 1..MaxTx : WF_vars(i \in Ids /\ (Unlock(i) \/ TransactionReleased(i)))
  /\ \A d \in Docs : WF_vars(LoadEnd(d) \/ LoadFails(d))

FairSpec == Spec /\ Fairness

-----------------------------------------------------------------------------
(* Properties *)

LaneErrors == {"none", "error", "conflict"}

TypeOK ==
  /\ Ids = 1..Len(tx) /\ Len(tx) <= MaxTx
  /\ \A i \in Ids : /\ tx[i].docs \in SUBSET Docs \ {{}} /\ tx[i].effect \in Effects \cup {None}
                    /\ tx[i].version \in [tx[i].docs -> 1..MaxTx]
  /\ Logged \subseteq Ids /\ written \in 0..Len(log)
  /\ acked \in 0..written /\ slot \in acked..written
  /\ doc \in [Docs -> [version : 0..MaxTx, last : Ids \cup {0}]]
  /\ markers \subseteq Ids /\ outbox \in [Effects -> Ids \cup {0}] /\ staged \in [1..MaxTx -> Nat]
  /\ phase \in {"down", "recovering", "up", "closing"} /\ mem \in [Docs -> Absent..MaxTx]
  /\ locked \subseteq Ids /\ held \subseteq Ids /\ pending \subseteq Ids /\ failed \subseteq Ids
  /\ admitted \subseteq Ids /\ Cardinality(admitted) <= MaxUnackedRecords
  /\ {terminal, fatal, walTerminal, pass.parallel, pass.stop, pass.due} \subseteq BOOLEAN
  /\ \A d \in Docs : \A w \in {load[d], unload[d]} : w = None \/ w \subseteq Ids
  /\ pass.pc \in {"idle", "run", "final"} /\ pass.done \subseteq pass.from..pass.to
  /\ \A l \in DOMAIN pass.lanes : pass.lanes[l].err \in LaneErrors

Applied(i) == \A d \in tx[i].docs : doc[d].version >= tx[i].version[d]
Latest(d) ==
  LET versions == {0} \cup {tx[i].version[d] : i \in {j \in Logged : d \in tx[j].docs}}
  IN CHOOSE v \in versions : \A w \in versions : w <= v

\* A checkpoint, in memory or on disk, covers only transactions whose documents
\* and effect are in Mongo, whatever lanes finished, failed or crashed in
\* between: what a restart does not replay is projected.
AckedProjected ==
  \A p \in 1..slot : Applied(log[p]) /\ (Rec(p).effect # None => staged[log[p]] = 1)

\* A transaction's effect enters the outbox at most once, also when its record
\* is replayed after the outbox has published and removed it.
EffectOnce == \A i \in 1..MaxTx : staged[i] <= 1

\* While Nest has not released a transaction none of its documents is written.
HeldUnprojected == \A i \in held : \A d \in tx[i].docs : doc[d].last # i

\* A resident entity is at the last version its log records write: no cold
\* load, whatever it raced with, brings back an older version.
ResidentFresh ==
  phase = "up" /\ ~terminal => \A d \in Docs : mem[d] = Absent \/ mem[d] = Latest(d)

\* The projector stops for a conflict only when two transactions of the log
\* really claim the same effect: replaying what was already projected, in
\* whatever grouping, is recognised as done.
NoFalseConflict ==
  fatal => \E i, j \in Logged : i # j /\ tx[i].effect = tx[j].effect /\ tx[i].effect # None

\* entity.unload drops an entity only when Mongo has its latest version.
UnloadClean ==
  [][\A d \in Docs : UnloadEntity(d) /\ mem[d] # Absent => doc[d].version = mem[d]]_vars

\* A cold load always returns, with the entity or with an error, also when the
\* records it waits for will never be projected by this process.
LoadReturns == \A d \in Docs : load[d] # None ~> load[d] = None

\* Every record the WAL holds is projected and acknowledged, unless the process
\* stops for a conflict, a WAL failure, Close or a crash.
Drains ==
  \A p \in 1..MaxTx :
    (phase = "up" /\ p <= written) ~> (acked >= p \/ fatal \/ terminal \/ phase # "up")
=============================================================================
