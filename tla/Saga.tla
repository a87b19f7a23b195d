-------------------------------- MODULE Saga --------------------------------
(***************************************************************************)
(* One saga of framework/saga: the coordinator's state machine             *)
(* (transition.go, applied by the partition loop of partition.go), the     *)
(* step participants (native_step.go, step_receipt.go,                     *)
(* mongo_step_inbox.go, step_consumer.go) and the streams between them.    *)
(*                                                                         *)
(* An operation is a step in one direction (Command.IdempotencyKey), a     *)
(* command is one attempt at it (CommandID).  The coordinator publishes a  *)
(* command in the event that records it, so a transition is one step.      *)
(* Payloads, error texts and record versions are left out.  Times are what *)
(* the code compares them with: the deadline of a command, which is also   *)
(* the coordinator's timeout for it, is passed when it is in `expired';    *)
(* the saga's own deadline is `deadline'.  A backoff may end at any time.  *)
(* Participants keep receipts for longer than a saga lives                 *)
(* (CheckReceiptRetention), and the coordinator keeps the saga.            *)
(***************************************************************************)
EXTENDS Integers

CONSTANTS
  Steps,           \* number of steps of the definition
  MaxAttempts,     \* Step.MaxAttempts
  MaxIncarnation,  \* bound: how often an operator opens a new incarnation
  MaxCommands,     \* bound: how many commands are dispatched
  NativeSteps,     \* the native steps (entity lock), the others are Mongo steps
  Outcomes,        \* what a business handler may conclude
  Settlements,     \* what may become of a result and its command, see Settle
  Redeploys        \* may the registered definition change

ASSUME SagaAssumption ==
  /\ Steps \in Nat \ {0}
  /\ MaxAttempts \in Nat \ {0}
  /\ MaxIncarnation \in Nat
  /\ MaxCommands \in Nat
  /\ NativeSteps \subseteq 0 .. (Steps - 1)
  /\ Outcomes \subseteq {"ok", "rejected", "retry"}
  /\ Settlements \subseteq {"acked", "unacked", "unpublished"}
  /\ Redeploys \in BOOLEAN

VARIABLES
  rec,        \* Record
  receipts,   \* sagaState.Receipts: the accepted results
  ops,        \* sagaState.Ops: the tombstones, closure "none" if there is none
  deadline,   \* Record.DeadlineAt: "none", "ahead" or "past"
  steps,      \* steps of the registered definition, 0 if it is missing
  dispatched, \* number of commands dispatched so far
  skipped,    \* operations whose success was skipped for want of the definition
  cmds,       \* commands in the stream that are not acknowledged
  expired,    \* commands whose DeadlineAt has passed
  results,    \* results in in.res that the partition has not read
  published,  \* commands for which in.res has stored a result
  receipt,    \* the participant's receipt of every operation, a set
  running,    \* handlers between their receipt check and their commit
  effects     \* how often the business change of an operation was committed

coordinator == <<rec, receipts, ops, deadline, steps, dispatched, skipped>>
participant == <<receipt, running, effects>>
vars == <<rec, receipts, ops, deadline, steps, dispatched, skipped, cmds, expired,
          results, published, receipt, running, effects>>

-----------------------------------------------------------------------------
Step == 0 .. (Steps - 1)
Forward(s) == <<"forward", s>>
Compensation(s) == <<"compensate", s>>
Operation == {"forward", "compensate"} \X Step
NoOperation == <<>>
Command == [op : Operation, inc : 0 .. MaxIncarnation, attempt : 1 .. MaxAttempts]
Completion == [cmd : Command, outcome : {"ok", "rejected", "retry"}]
Run == [cmd : Command, seen : SUBSET Completion]

Terminal == {"completed", "compensated", "failed", "manual"}

-----------------------------------------------------------------------------
(* transition.go: pure functions of the record *)

currentOperation(r) == <<r.phase, r.step>>

commandOf(r) == [op |-> r.op, inc |-> r.inc, attempt |-> r.attempt]


openOperation(r) ==
  CASE r.status = "waiting" -> r.op
    [] r.status \in {"pending", "compensating"} /\ r.attempt > 0 -> currentOperation(r)
    [] OTHER -> NoOperation

positionedAt(r, op) ==
  \/ r.status = "waiting" /\ r.op = op
  \/ r.status \in {"pending", "compensating"} /\ currentOperation(r) = op

compensatingLateStep(r) == r.phase = "compensate" /\ r.late > 0 /\ r.step = r.late - 1

nextCompensation(r) ==
  LET next == [r EXCEPT !.phase = "compensate", !.attempt = 0, !.op = NoOperation]
  IN IF r.late = 0 /\ r.completed = 0
     THEN [next EXCEPT !.status = "compensated", !.scheduled = FALSE]
     ELSE [next EXCEPT !.status = "compensating", !.scheduled = TRUE,
                       !.step = (IF r.late > 0 THEN r.late ELSE r.completed) - 1]

compensationState(r) ==
  IF r.completed = 0 /\ r.late = 0
  THEN [r EXCEPT !.status = "failed", !.attempt = 0, !.op = NoOperation, !.scheduled = FALSE]
  ELSE nextCompensation(r)

Halted_fault(r) == [r EXCEPT !.status = "manual", !.scheduled = FALSE]

Halted(r) == [r EXCEPT !.status = "manual", !.op = NoOperation, !.scheduled = FALSE]

GiveUp(r) == IF r.phase = "compensate" THEN Halted(r) ELSE compensationState(r)

retryState(r) ==
  CASE r.step >= steps -> Halted(r)
    [] r.step < steps /\ r.attempt < MaxAttempts ->
         [r EXCEPT !.status = IF r.phase = "forward" THEN "pending" ELSE "compensating",
                   !.op = NoOperation, !.scheduled = TRUE]
    [] OTHER -> GiveUp(r)

forwardDone(r) ==
  LET done == [r EXCEPT !.completed = r.step + 1, !.step = r.step + 1,
                        !.attempt = 0, !.op = NoOperation]
  IN CASE deadline = "past" -> compensationState(done)
       [] deadline # "past" /\ done.step >= steps ->
            [done EXCEPT !.status = "completed", !.scheduled = FALSE]
       [] OTHER -> [done EXCEPT !.status = "pending", !.scheduled = TRUE]

compensationDone(r) ==
  nextCompensation(IF compensatingLateStep(r) THEN [r EXCEPT !.late = 0]
                                              ELSE [r EXCEPT !.completed = @ - 1])

applyCompletion(r, outcome) ==
  CASE outcome = "ok" /\ r.phase = "forward" -> forwardDone(r)
    [] outcome = "ok" /\ r.phase = "compensate" -> compensationDone(r)
    [] outcome = "rejected" -> GiveUp(r)
    [] outcome = "retry" -> retryState(r)

judgeCompletion_fault(r, c) ==
  CASE c.cmd.inc # r.inc -> "stale"
    [] c.cmd.inc = r.inc /\ positionedAt(r, c.cmd.op) -> "accept"
    [] OTHER -> "history"

judgeCompletion(r, c) ==
  CASE c.cmd.inc > r.inc -> "stale"
    [] c.cmd.inc <= r.inc /\ c.outcome = "ok" ->
         IF /\ openOperation(r) = c.cmd.op \/ c.cmd.inc < r.inc
            /\ positionedAt(r, c.cmd.op)
         THEN "accept" ELSE "history"
    [] c.cmd.inc < r.inc /\ c.outcome # "ok" -> "stale"
    [] OTHER -> CASE r.status # "waiting" \/ r.op # c.cmd.op -> "history"
                  [] r.status = "waiting" /\ r.op = c.cmd.op
                     /\ c.outcome = "retry" /\ c.cmd # commandOf(r) -> "stale"
                  [] OTHER -> "accept"

lateForwardStep_fault(r, op) ==
  /\ op[1] = "forward"
  /\ op[2] >= r.completed
  /\ r.phase = "compensate"

lateForwardStep(r, op) ==
  /\ op[1] = "forward"
  /\ op[2] >= r.completed
  /\ r.late \in {0, op[2] + 1}
  /\ r.phase = "compensate" \/ r.status \in {"failed", "manual"}

lateStepState_fault(r, s) == [r EXCEPT !.late = s + 1]

lateStepState(r, s) ==
  LET late == [r EXCEPT !.late = s + 1]
  IN IF openOperation(r) = NoOperation /\ r.status # "manual"
     THEN nextCompensation(late) ELSE late

-----------------------------------------------------------------------------
(* partition.go: round.apply, the only way a record is written *)

incarnationAfter(cause) ==
  IF cause = "resume" \/ (cause = "compensate" /\ rec.phase = "compensate")
  THEN rec.inc + 1 ELSE rec.inc

\* the operation planTransition closes; accepted is {} or the accepted result
closeOperation(after, accepted) ==
  CASE \E c \in accepted : c.outcome = "ok" -> {c.cmd.op : c \in accepted}
    [] OTHER -> {openOperation(rec)} \ {NoOperation, openOperation(after)}

apply(after, cause, accepted) ==
  /\ rec' = [after EXCEPT !.inc = incarnationAfter(cause)]
  /\ receipts' = receipts \cup accepted
  /\ ops' = [op \in Operation |->
               IF op \notin closeOperation(after, accepted) THEN ops[op]
               ELSE IF \E c \in accepted : c.outcome = "ok"
                    THEN [ops[op] EXCEPT !.closure = "result"]
               ELSE IF ops[op].closure = "none"
                    THEN [ops[op] EXCEPT !.closure = "abandoned"]
               ELSE ops[op]]

-----------------------------------------------------------------------------
(* The partition's due records: the exits of planDue in their order *)

Due == /\ rec.status \notin Terminal
       /\ rec.status = "waiting" => commandOf(rec) \in expired

Overdue == deadline = "past" /\ rec.phase = "forward"

DueUndefined ==
  /\ Due /\ steps = 0
  /\ apply(Halted(rec), "definition_missing", {})
  /\ UNCHANGED <<deadline, steps, dispatched, skipped, cmds, expired, results, published,
                 participant>>

DueDeadline ==
  /\ Due /\ steps > 0 /\ Overdue
  /\ apply(compensationState(rec), "deadline", {})
  /\ UNCHANGED <<deadline, steps, dispatched, skipped, cmds, expired, results, published,
                 participant>>

DueTimeout ==
  /\ Due /\ steps > 0 /\ ~Overdue
  /\ rec.status = "waiting"
  /\ apply(retryState(rec), "timeout", {})
  /\ UNCHANGED <<deadline, steps, dispatched, skipped, cmds, expired, results, published,
                 participant>>

DueInvalidStep ==
  /\ Due /\ steps > 0 /\ ~Overdue
  /\ rec.status # "waiting" /\ rec.step >= steps
  /\ apply([rec EXCEPT !.status = "manual"], "invalid_step", {})
  /\ UNCHANGED <<deadline, steps, dispatched, skipped, cmds, expired, results, published,
                 participant>>

DueDispatch ==
  /\ Due /\ steps > 0 /\ ~Overdue
  /\ rec.status # "waiting" /\ rec.step < steps
  /\ dispatched < MaxCommands
  /\ LET after == [rec EXCEPT !.status = "waiting", !.attempt = @ + 1, !.scheduled = TRUE,
                              !.op = currentOperation(rec)]
     IN /\ apply(after, "dispatch", {})
        /\ cmds' = cmds \cup {commandOf(after)}
  /\ dispatched' = dispatched + 1
  /\ UNCHANGED <<deadline, steps, skipped, expired, results, published, participant>>

-----------------------------------------------------------------------------
(* round.result and round.history.  A result leaves in.res when the         *)
(* partition has judged it, whatever the verdict: inputs are not redelivered *)

receiptSeen(c) == \E r \in receipts : r.cmd = c.cmd

\* judgeHistory of a success that is neither accepted nor recorded
LateSuccess(c) ==
  /\ judgeCompletion(rec, c) = "history"
  /\ c.outcome = "ok" /\ ~receiptSeen(c)
  /\ ops[c.cmd.op].closure = "abandoned"

Accepted(c) == judgeCompletion(rec, c) = "accept" /\ steps > 0 /\ ~receiptSeen(c)

\* the success of a saga whose definition is not registered is not applied
Undefined(c) == /\ judgeCompletion(rec, c) = "accept" /\ steps = 0
                /\ c.outcome = "ok" /\ ~receiptSeen(c)

CompensatesLate(c) == LateSuccess(c) /\ lateForwardStep(rec, c.cmd.op)

Alarms(c) == /\ LateSuccess(c) /\ ~lateForwardStep(rec, c.cmd.op)
             /\ c.cmd.inc \notin ops[c.cmd.op].alarms

Read(c) == /\ c \in results
           /\ results' = results \ {c}
           /\ UNCHANGED <<deadline, steps, dispatched, cmds, expired, published, participant>>

ResultAccepted(c) ==
  /\ Read(c) /\ Accepted(c)
  /\ apply(applyCompletion(rec, c.outcome), "result", {c})
  /\ UNCHANGED skipped

ResultLate(c) ==
  /\ Read(c) /\ CompensatesLate(c)
  /\ apply(lateStepState(rec, c.cmd.op[2]), "late_success", {c})
  /\ UNCHANGED skipped

ResultAlarm(c) ==
  /\ Read(c) /\ Alarms(c)
  /\ ops' = [ops EXCEPT ![c.cmd.op].alarms = @ \cup {c.cmd.inc}]
  /\ UNCHANGED <<rec, receipts, skipped>>

\* duplicate, stale attempt or incarnation, identity conflict, definition missing
ResultSkipped(c) ==
  /\ Read(c) /\ ~Accepted(c) /\ ~CompensatesLate(c) /\ ~Alarms(c)
  /\ skipped' = skipped \cup {op \in {c.cmd.op} : Undefined(c)}
  /\ UNCHANGED <<rec, receipts, ops>>

-----------------------------------------------------------------------------
(* round.operation: the operator *)

\* d is the deadline of the request: keep the old one, clear it, set a new one
Resume(d) ==
  /\ rec.status \in {"failed", "manual"} /\ steps > 0
  /\ rec.inc < MaxIncarnation
  /\ d = "keep" => ~Overdue
  /\ deadline' = IF d = "keep" THEN deadline ELSE d
  /\ LET fresh == [rec EXCEPT !.attempt = 0, !.op = NoOperation, !.scheduled = TRUE]
     IN apply(IF rec.phase = "compensate" \/ rec.completed > 0 \/ rec.late > 0
              THEN nextCompensation(fresh)
              ELSE [fresh EXCEPT !.phase = "forward", !.status = "pending"],
              "resume", {})
  /\ UNCHANGED <<steps, dispatched, skipped, cmds, expired, results, published, participant>>

Compensate ==
  /\ rec.status \notin {"compensated", "compensating", "waiting", "completed"}
  /\ rec.completed > 0 \/ rec.late > 0
  /\ rec.phase = "compensate" => rec.inc < MaxIncarnation
  /\ apply(compensationState(rec), "compensate", {})
  /\ UNCHANGED <<deadline, steps, dispatched, skipped, cmds, expired, results, published,
                 participant>>

-----------------------------------------------------------------------------
(* Participants: one delivery of a command *)


replays(doc, c) ==
  CASE doc.outcome = "ok" -> TRUE
    [] doc.outcome = "retry" -> doc.cmd = c
    [] doc.outcome = "rejected" -> doc.cmd.inc = c.inc

Conclusion(c) == {doc \in receipt[c.op] : replays(doc, c)}

\* a handler of a native step runs under the lock of the entity
Unlocked(c) == c.op[2] \in NativeSteps => \A r \in running : r.cmd.op # c.op

\* settleStepOutcome.  "acked": the result is in the stream, or dropped as a
\* duplicate of one with its MsgID, and the command is acknowledged;
\* "unacked": the publish is stored but reported as failed, or the process dies
\* before the ack; "unpublished": it is not stored.  The latter two redeliver.
Settle(c, completion, how) ==
  /\ how \in Settlements
  /\ cmds' = IF how = "acked" THEN cmds \ {c} ELSE cmds
  /\ \/ /\ how # "unpublished"
        /\ results' = results \cup {completion}
        /\ published' = published \cup {completion.cmd}
     \/ /\ how = "unpublished" \/ completion.cmd \in published
        /\ UNCHANGED <<results, published>>

Begin(c) ==
  /\ c \in cmds /\ Unlocked(c)
  /\ Conclusion(c) = {} /\ c \notin expired
  /\ running' = running \cup {[cmd |-> c, seen |-> receipt[c.op]]}
  /\ UNCHANGED <<coordinator, cmds, expired, results, published, receipt, effects>>

Replay(c, how) ==
  /\ c \in cmds /\ Unlocked(c)
  /\ \E doc \in Conclusion(c) : Settle(c, doc, how)
  /\ UNCHANGED <<coordinator, expired, participant>>

ExpireUnexecuted_fault(c) ==
  /\ c \in cmds /\ Unlocked(c) /\ c \in expired
  /\ cmds' = cmds \ {c}
  /\ UNCHANGED <<coordinator, expired, results, published, participant>>

ExpireUnexecuted(c) ==
  /\ c \in cmds /\ Unlocked(c)
  /\ Conclusion(c) = {} /\ c \in expired
  /\ cmds' = cmds \ {c}
  /\ UNCHANGED <<coordinator, expired, results, published, participant>>

Commit_fault(r, outcome, how) ==
  /\ r \in running
  /\ outcome = "retry" => r.cmd.op[2] \notin NativeSteps
  /\ running' = running \ {r}
  /\ receipt' = [receipt EXCEPT ![r.cmd.op] = {[cmd |-> r.cmd, outcome |-> outcome]}]
  /\ effects' = [effects EXCEPT ![r.cmd.op] = IF outcome = "ok" THEN @ + 1 ELSE @]
  /\ Settle(r.cmd, [cmd |-> r.cmd, outcome |-> outcome], how)
  /\ UNCHANGED <<coordinator, expired>>

\* the business change and the receipt are one Nest transaction, or one Mongo
\* transaction that fails when the receipt is not the one the handler read
Commit(r, outcome, how) ==
  /\ r \in running /\ receipt[r.cmd.op] = r.seen
  /\ outcome = "retry" => r.cmd.op[2] \notin NativeSteps
  /\ running' = running \ {r}
  /\ receipt' = [receipt EXCEPT ![r.cmd.op] = {[cmd |-> r.cmd, outcome |-> outcome]}]
  /\ effects' = [effects EXCEPT ![r.cmd.op] = IF outcome = "ok" THEN @ + 1 ELSE @]
  /\ Settle(r.cmd, [cmd |-> r.cmd, outcome |-> outcome], how)
  /\ UNCHANGED <<coordinator, expired>>

\* an error, a crash, a write conflict, or the deadline check before the write
Abort(r) ==
  /\ r \in running
  /\ running' = running \ {r}
  /\ UNCHANGED <<coordinator, cmds, expired, results, published, receipt, effects>>

-----------------------------------------------------------------------------
(* Time and deployment *)

Live == cmds \cup {r.cmd : r \in running}
             \cup (IF rec.status = "waiting" THEN {commandOf(rec)} ELSE {})

Before(b, c) == /\ b.op = c.op
                /\ b.inc < c.inc \/ (b.inc = c.inc /\ b.attempt < c.attempt)

\* the attempts at an operation have equal timeouts: they expire in order
Expire(c) ==
  /\ c \in Live \ expired
  /\ \A b \in Live : Before(b, c) => b \in expired
  /\ expired' = expired \cup {c}
  /\ UNCHANGED <<coordinator, cmds, results, published, participant>>

DeadlinePasses ==
  /\ deadline = "ahead"
  /\ deadline' = "past"
  /\ UNCHANGED <<rec, receipts, ops, steps, dispatched, skipped, cmds, expired, results,
                 published, participant>>

\* the coordinator restarts with or without the definition, or a shorter one
Redeploy(n) ==
  /\ Redeploys /\ n # steps
  /\ steps' = n
  /\ UNCHANGED <<rec, receipts, ops, deadline, dispatched, skipped, cmds, expired, results,
                 published, participant>>

-----------------------------------------------------------------------------
\* newStartRecord
Init ==
  /\ rec = [status |-> "pending", phase |-> "forward", step |-> 0, completed |-> 0,
            attempt |-> 0, inc |-> 0, late |-> 0, op |-> NoOperation, scheduled |-> TRUE]
  /\ receipts = {}
  /\ ops = [op \in Operation |-> [closure |-> "none", alarms |-> {}]]
  /\ deadline \in {"none", "ahead"}
  /\ steps = Steps
  /\ dispatched = 0 /\ skipped = {}
  /\ cmds = {} /\ expired = {} /\ results = {} /\ published = {}
  /\ receipt = [op \in Operation |-> {}]
  /\ running = {}
  /\ effects = [op \in Operation |-> 0]

Coordinator ==
  \/ DueUndefined \/ DueDeadline \/ DueTimeout \/ DueInvalidStep \/ DueDispatch
  \/ \E c \in results :
       ResultAccepted(c) \/ ResultLate(c) \/ ResultAlarm(c) \/ ResultSkipped(c)

Operator == Compensate \/ \E d \in {"keep", "none", "ahead"} : Resume(d)

Participant ==
  \/ \E c \in cmds : Begin(c) \/ ExpireUnexecuted(c) \/ \E how \in Settlements : Replay(c, how)
  \/ \E r \in running : Abort(r) \/ \E o \in Outcomes, how \in Settlements : Commit(r, o, how)

Environment ==
  \/ DeadlinePasses
  \/ \E c \in Live : Expire(c)
  \/ \E n \in 0 .. Steps : Redeploy(n)

Next == Coordinator \/ Operator \/ Participant \/ Environment

Spec == Init /\ [][Next]_vars

\* A participant works on a delivery, JetStream redelivers what is not acked
\* until it is, the partition reads its input and looks at due records, and
\* time passes.  Nobody need operate the saga.
Fairness ==
  /\ WF_vars(Coordinator)
  /\ \A c \in Command :
       /\ WF_vars(Expire(c))
       /\ WF_vars(Begin(c) \/ ExpireUnexecuted(c))
       /\ SF_vars(Replay(c, "acked"))
       /\ WF_vars(\E r \in running : r.cmd = c
                    /\ (Abort(r) \/ \E o \in Outcomes, how \in Settlements : Commit(r, o, how)))

FairSpec == Spec /\ Fairness

-----------------------------------------------------------------------------
\* The types of the variables; positions and attempts stay within the definition.
TypeOK ==
  /\ rec \in [status : {"pending", "waiting", "compensating"} \cup Terminal,
              phase : {"forward", "compensate"}, step : 0 .. Steps, completed : 0 .. Steps,
              attempt : 0 .. MaxAttempts, inc : 0 .. MaxIncarnation, late : 0 .. Steps,
              op : Operation \cup {NoOperation}, scheduled : BOOLEAN]
  /\ receipts \subseteq Completion
  /\ ops \in [Operation -> [closure : {"none", "result", "abandoned"},
                            alarms : SUBSET (0 .. MaxIncarnation)]]
  /\ deadline \in {"none", "ahead", "past"}
  /\ steps \in 0 .. Steps
  /\ dispatched \in 0 .. MaxCommands /\ skipped \subseteq Operation
  /\ cmds \subseteq Command /\ expired \subseteq Command /\ published \subseteq Command
  /\ results \subseteq Completion
  /\ receipt \in [Operation -> SUBSET Completion]
  /\ running \subseteq Run
  /\ effects \in [Operation -> Nat]

\* Record.Validate and lateStepValid hold of every record the coordinator
\* writes: decodeEvent refuses to replay an event with any other record, and
\* the partition could not start again.
RecordValid ==
  /\ rec.status \notin Terminal => rec.scheduled
  /\ (rec.status = "waiting") = (rec.op # NoOperation /\ rec.attempt > 0)
  /\ rec.status # "waiting" => rec.op = NoOperation
  /\ rec.status = "compensating" => rec.phase = "compensate" /\ rec.completed + rec.late > 0
  /\ rec.status = "compensated" => rec.completed = 0
  /\ rec.late > 0 => /\ rec.late - 1 >= rec.completed
                     /\ rec.phase = "compensate" \/ rec.status = "manual"
                     /\ rec.status \notin {"completed", "compensated", "failed"}

Standing(s) == effects[Forward(s)] > effects[Compensation(s)]

\* the steps the record says took effect and are not compensated
Held == {s \in Step : s < rec.completed \/ s = rec.late - 1}

OnTheWay(op) == \/ \E c \in results : c.cmd.op = op /\ c.outcome = "ok"
                \/ \E c \in cmds : c.op = op

\* No effect is lost: what a participant committed and nobody compensated is in
\* the record's completed prefix or its late step, or the coordinator is still to
\* hear of it.  This is what judgeCompletion, the tombstones and LateStep are for.
\* The one exception is a success that arrived while the definition was missing.
EffectAccounted ==
  \A s \in Step : Standing(s) => \/ s \in Held \/ OnTheWay(Forward(s))
                                 \/ Forward(s) \in skipped

\* The record claims no effect that is not there: a step of the completed prefix
\* or the late step took effect, and it is not compensated unless the coordinator
\* is to hear of that, has raised the alarm of an abandoned compensation, or heard
\* of it while the definition was missing.
HeldStands ==
  \A s \in Held :
    /\ effects[Forward(s)] > 0
    /\ \/ Standing(s) \/ OnTheWay(Compensation(s))
       \/ ops[Compensation(s)].alarms # {} \/ Compensation(s) \in skipped

\* lateForwardStep falls back to an alarm in three cases its comment says cannot
\* happen: no late success of a forward step ends as an alarm.
NoForwardAlarm == \A s \in Step : ops[Forward(s)].alarms = {}


\* A compensated saga has undone all it did, once nothing is in flight.
CompensatedUndone ==
  /\ rec.status = "compensated"
  /\ cmds = {} /\ running = {} /\ results = {}
  => \A s \in Step : ~Standing(s)

\* In the end the saga completed, waits for an operator, or has undone everything,
\* late effects of abandoned steps included.
Settles == <>[](\/ rec.status \in {"completed", "manual"}
                \/ /\ rec.status \in {"failed", "compensated"}
                   /\ \A s \in Step : ~Standing(s))

Promise == INSTANCE SagaPromise WITH
  completed <- rec.status = "completed",
  length <- steps

\* The saga keeps the promise of SagaPromise: every step takes effect at most
\* once, in order, and is undone at most once and only after it; a completed saga
\* has done every step of its definition, and nothing happens to it any more.
KeepsPromise == Promise!Spec
=============================================================================
