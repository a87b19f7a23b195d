---------------------------- MODULE SagaPartition ----------------------------
(***************************************************************************)
(* One partition of the saga coordinator (framework/saga/partition.go,     *)
(* partition_replay.go) over its JetStream log: the single-writer loop     *)
(* that judges inputs, publishes the events of a round under an expected   *)
(* sequence and then installs them; replay of snapshot and log on start;   *)
(* snapshots, their manifest in a KV bucket and the purge of the log; and  *)
(* processes that overlap, crash and leave requests on the wire.           *)
(*                                                                         *)
(* What a transition of a saga does is module Saga's subject.  Here a saga *)
(* is the inputs it recorded (its receipts, the start among them), in      *)
(* their order, and how often it came due and sent a command.  A sequence  *)
(* number of the stream is a position of `log', which keeps what Purge     *)
(* removed; `first' is the first position that can still be read.  Sagas   *)
(* live longer than the retention of terminal records: nothing is pruned.  *)
(***************************************************************************)
EXTENDS Naturals, Sequences, SequencesExt

CONSTANTS
  Writers,     \* processes that own the partition one after the other, or together
  SagaOf,      \* the saga of each input (start, result)
  Starts,      \* the inputs that start their saga
  MaxBatch,    \* fnats.LogBatchMaxMessages
  MaxInputs,   \* bound: messages the others append
  MaxDues,     \* bound: how often each saga comes due
  MaxSnapshots,\* bound: revisions of the manifest after which none is begun
  MaxFaults    \* bound: crashes and calls without an answer

ASSUME PartitionAssumption ==
  /\ Starts \subseteq DOMAIN SagaOf
  /\ MaxBatch \in Nat \ {0} /\ MaxInputs \in Nat /\ MaxDues \in [{SagaOf[i] : i \in DOMAIN SagaOf} -> Nat]
  /\ MaxSnapshots \in Nat /\ MaxFaults \in Nat

VARIABLES
  log,         \* the messages of the partition: inputs and events
  first,       \* Purge has removed what is before
  manifest,    \* KV entry p<k>: revision 0 if there is none
  objects,     \* the object bucket: bodies by name
  acked,       \* the last command event known to be acknowledged
  part,        \* the partition of every process, and its round
  snap,        \* the snapshot goroutine of every process
  wire,        \* a publish of every process that may yet reach the server
  faults

vars == <<log, first, manifest, objects, acked, part, snap, wire, faults>>

-----------------------------------------------------------------------------
Inputs == DOMAIN SagaOf
Sagas == {SagaOf[i] : i \in Inputs}
NoSaga == [got |-> <<>>, dues |-> 0]
NoSagas == [s \in Sagas |-> NoSaga]

Larger(a, b) == IF a >= b THEN a ELSE b
Smaller(a, b) == IF a <= b THEN a ELSE b

IsEvent(m) == m.kind = "event"
IsInput(m) == m.kind = "input"
IsCommand(m) == IsEvent(m) /\ m.command

\* LastMsg on the event filter: what is purged is not found
LastEvent == SelectLastInSubSeq(log, first, Len(log), IsEvent)

Fault == faults < MaxFaults /\ faults' = faults + 1

-----------------------------------------------------------------------------
(* decide: the transitions of one round *)

\* round.start: the ID is new.  round.result: the saga is there, no receipt yet
Applies(st, i) ==
  IF i \in Starts THEN st.got = <<>>
                  ELSE st.got # <<>> /\ i \notin ToSet(st.got)

Judge(st, i) == IF Applies(st, i) THEN [st EXCEPT !.got = Append(@, i)] ELSE st

JudgeAll(sagas, batch) ==
  [s \in Sagas |-> FoldLeft(Judge, sagas[s], SelectSeq(batch, LAMBDA i : SagaOf[i] = s))]

\* the positions of the inputs from one position to another
InputsAt(from, to) ==
  SelectSeq([n \in 1 .. to |-> n], LAMBDA n : n >= from /\ IsInput(log[n]))

Identities(seqs) == [n \in DOMAIN seqs |-> log[seqs[n]].id]

\* round.touched: by inputs in their order, then by what comes due
Touched(before, judged, batch, due) ==
  LET changed == {s \in Sagas : judged[s] # before[s]}
      sagas == [n \in DOMAIN batch |-> SagaOf[batch[n]]]
      once == SelectSeq([n \in DOMAIN sagas |-> n],
                        LAMBDA n : sagas[n] \in changed
                                   /\ \A m \in 1 .. (n - 1) : sagas[m] # sagas[n])
  IN [n \in DOMAIN once |-> sagas[once[n]]] \o SetToSeq(due \ changed)

-----------------------------------------------------------------------------
(* replayPartition.  A process that has not started has pc "off". *)

NoPart == [pc |-> "off", sagas |-> NoSagas, lastEv |-> 0, inHi |-> 0, from |-> 0,
           end |-> 0, fresh |-> FALSE, rev |-> 0, object |-> 0,
           new |-> NoSagas, todo |-> <<>>, maxIn |-> 0, last |-> 0]

\* the memory is gone; how far it was is kept for FencedByOther
Stopped(w, why) ==
  [NoPart EXCEPT !.pc = why, !.lastEv = IF why = "fenced" THEN part[w].lastEv ELSE 0]

ReadManifest(w) ==
  /\ part[w].pc = "off"
  /\ part' = [part EXCEPT ![w] = [NoPart EXCEPT
                !.pc = IF manifest.rev = 0 THEN "read" ELSE "body", !.rev = manifest.rev,
                !.object = manifest.object, !.lastEv = manifest.lastEv, !.inHi = manifest.inHi]]
  /\ UNCHANGED <<log, first, manifest, objects, acked, snap, wire, faults>>

\* without its object the partition does not start (ErrSnapshotIncompatible)
ReadBody(w) ==
  /\ part[w].pc = "body"
  /\ \/ \E body \in objects :
          /\ body.name = part[w].object
          /\ part' = [part EXCEPT ![w].pc = "read", ![w].sagas = body.sagas]
     \/ /\ \A body \in objects : body.name # part[w].object
        /\ part' = [part EXCEPT ![w] = Stopped(w, "dead")]
  /\ UNCHANGED <<log, first, manifest, objects, acked, snap, wire, faults>>

\* the events after a snapshot that are still in the log, applied in their order
Replayed(sagas, lastEv) ==
  LET newest(s) == SelectLastInSubSeq(log, Larger(first, lastEv + 1), Len(log),
                                      LAMBDA m : IsEvent(m) /\ m.saga = s)
  IN [s \in Sagas |-> IF newest(s) = 0 THEN sagas[s] ELSE log[newest(s)].state]

ReplayedInHi(inHi, lastEv) ==
  LET later == {n \in Larger(first, lastEv + 1) .. Len(log) : IsEvent(log[n])}
  IN Max({inHi} \cup {log[n].in : n \in later})

ReadLog(w) ==
  /\ part[w].pc = "read"
  /\ part' = [part EXCEPT ![w].pc = "check", ![w].from = first, ![w].end = Len(log),
                ![w].sagas = Replayed(part[w].sagas, part[w].lastEv),
                ![w].inHi = ReplayedInHi(part[w].inHi, part[w].lastEv),
                ![w].lastEv = Larger(@, LastEvent)]
  /\ UNCHANGED <<log, first, manifest, objects, acked, snap, wire, faults>>

\* nobody replaced the snapshot or added an event meanwhile, or once more
CheckStable(w) ==
  /\ part[w].pc = "check"
  /\ part' = IF manifest.rev = part[w].rev /\ LastEvent = part[w].lastEv
             THEN [part EXCEPT ![w].pc = "idle"]
             ELSE [part EXCEPT ![w] = NoPart]
  /\ UNCHANGED <<log, first, manifest, objects, acked, snap, wire, faults>>

-----------------------------------------------------------------------------
(* run: one iteration of the loop is decide, then commit *)

\* read by the replay, or by the Follow that starts behind it
Delivered(w, n) == n \in part[w].from .. part[w].end \/ n >= first

\* install
Installed(w, new, lastEv, maxIn, any) ==
  part' = [part EXCEPT ![w].pc = "idle", ![w].sagas = new, ![w].lastEv = lastEv,
             ![w].inHi = maxIn, ![w].fresh = @ \/ any, ![w].from = 0, ![w].end = 0,
             ![w].new = NoSagas, ![w].todo = <<>>, ![w].maxIn = 0, ![w].last = 0]

\* where a batch may end, and what may come due
BatchEnds(w) == LET from == Larger(part[w].inHi, part[w].end)
                IN {from} \cup {n \in (from + 1) .. Len(log) : IsInput(log[n])}

Waiting(w) == {s \in Sagas : part[w].sagas[s] # NoSaga /\ part[w].sagas[s].dues < MaxDues[s]}

\* A round takes the inputs up to position hi, at first all that replay read.
\* What it starts comes due at once, what else comes due is up to the clock.
Decide(w, hi, timers) ==
  LET p == part[w]
      seqs == SelectSeq(InputsAt(p.inHi + 1, hi), LAMBDA n : Delivered(w, n))
      batch == Identities(seqs)
      judged == JudgeAll(p.sagas, batch)
      due == timers \cup {s \in Sagas : p.sagas[s] = NoSaga /\ judged[s] # NoSaga}
      new == [s \in Sagas |-> IF s \in due THEN [judged[s] EXCEPT !.dues = @ + 1] ELSE judged[s]]
      maxIn == IF seqs = <<>> THEN p.inHi ELSE Last(seqs)
      touched == Touched(p.sagas, judged, batch, due)
      events == [n \in DOMAIN touched |->
                   [kind |-> "event", writer |-> w, saga |-> touched[n],
                    state |-> new[touched[n]], command |-> touched[n] \in due]]
  IN /\ p.pc = "idle"
     /\ \/ /\ events = <<>>
           /\ Installed(w, p.sagas, p.lastEv, maxIn, FALSE)
        \/ /\ events # <<>>
           /\ part' = [part EXCEPT ![w].pc = "publish", ![w].new = new, ![w].todo = events,
                         ![w].maxIn = maxIn, ![w].last = p.lastEv]
     /\ UNCHANGED <<log, first, manifest, objects, acked, snap, wire, faults>>

\* publish: the next chunk of the round.  Only the last one carries the inputs
\* of the round, so that a crash in between makes the inputs be judged again.
chunk_fault(p) ==
  [n \in 1 .. Smaller(MaxBatch, Len(p.todo)) |->
     [kind |-> "event", writer |-> p.todo[n].writer, saga |-> p.todo[n].saga,
      state |-> p.todo[n].state, command |-> p.todo[n].command, in |-> p.maxIn]]

chunk(p) ==
  [n \in 1 .. Smaller(MaxBatch, Len(p.todo)) |->
     [kind |-> "event", writer |-> p.todo[n].writer, saga |-> p.todo[n].saga,
      state |-> p.todo[n].state, command |-> p.todo[n].command,
      in |-> IF Len(p.todo) <= MaxBatch THEN p.maxIn ELSE p.inHi]]

\* the chunk is in the log, its last message at position seq
Published(w, seq) ==
  LET p == part[w]
  IN IF Len(p.todo) <= MaxBatch THEN Installed(w, p.new, seq, p.maxIn, TRUE)
     ELSE part' = [part EXCEPT ![w].last = seq,
                     ![w].todo = SubSeq(@, MaxBatch + 1, Len(@))]

\* the server takes the first message of a publish at its expected sequence only
Fenced(last) == LastEvent # last

PublishChunk(w) ==
  /\ part[w].pc = "publish" /\ ~Fenced(part[w].last)
  /\ log' = log \o chunk(part[w])
  /\ Published(w, Len(log'))
  /\ UNCHANGED <<first, manifest, objects, acked, snap, wire, faults>>

\* a publish that was stored before is reported as a duplicate
PublishDuplicate(w) ==
  /\ part[w].pc = "publish" /\ Len(chunk(part[w])) = 1
  /\ \E n \in 1 .. Len(log) : log[n] = chunk(part[w])[1] /\ Published(w, n)
  /\ UNCHANGED <<log, first, manifest, objects, acked, snap, wire, faults>>

\* the expected sequence is refused: see what the last event is.  The server
\* also refuses while it works on a publish for the same filter.
Resolve_fault(w) ==
  /\ part[w].pc = "publish"
  /\ part' = [part EXCEPT ![w].last = LastEvent]
  /\ UNCHANGED <<log, first, manifest, objects, acked, snap, wire, faults>>

Resolve_busy_fault(w) ==
  /\ part[w].pc = "publish"
  /\ LET mine == LastEvent # 0 /\ log[LastEvent] = Last(chunk(part[w]))
     IN \/ mine /\ Published(w, LastEvent)
        \/ /\ ~mine
           /\ part' = [part EXCEPT ![w] = Stopped(w, "fenced")]
  /\ UNCHANGED <<log, first, manifest, objects, acked, snap, wire, faults>>

Resolve(w) ==
  /\ part[w].pc = "publish"
  /\ LET mine == LastEvent # 0 /\ log[LastEvent] = Last(chunk(part[w]))
     IN \/ mine /\ Published(w, LastEvent)
        \/ /\ ~mine /\ LastEvent = part[w].last
           /\ UNCHANGED part
        \/ /\ ~mine /\ LastEvent # part[w].last
           /\ part' = [part EXCEPT ![w] = Stopped(w, "fenced")]
  /\ UNCHANGED <<log, first, manifest, objects, acked, snap, wire, faults>>

\* the answer does not come in time; the request may still reach the server
PublishTimesOut(w) ==
  /\ part[w].pc = "publish" /\ wire[w] = <<>> /\ Fault
  /\ wire' = [wire EXCEPT ![w] = <<part[w].last, chunk(part[w])>>]
  /\ UNCHANGED <<log, first, manifest, objects, acked, part, snap>>

LatePublish(w) ==
  /\ wire[w] # <<>> /\ ~Fenced(wire[w][1])
  /\ log' = log \o wire[w][2]
  /\ wire' = [wire EXCEPT ![w] = <<>>]
  /\ UNCHANGED <<first, manifest, objects, acked, part, snap, faults>>

-----------------------------------------------------------------------------
(* maybeSnapshot, writeSnapshot and purge.  The goroutine of a process that    *)
(* dies does not go on, but the call it is in may still reach the server.      *)

NoSnap == [pc |-> "none", lastEv |-> 0, inHi |-> 0, rev |-> 0, previous |-> 0]

Running(w) == part[w].pc \in {"idle", "publish"}

Then(w, pc) == IF Running(w) THEN [snap[w] EXCEPT !.pc = pc] ELSE NoSnap

\* The view of the loop, and its body put under the name of the last event.  Bodies
\* of one name are equal: it does not matter when the Put happens.
maybeSnapshot(w) ==
  /\ part[w].pc = "idle" /\ part[w].fresh /\ snap[w] = NoSnap
  /\ manifest.rev < MaxSnapshots
  /\ snap' = [snap EXCEPT ![w] = [NoSnap EXCEPT !.pc = "update", !.lastEv = part[w].lastEv,
                !.inHi = part[w].inHi, !.rev = part[w].rev]]
  /\ objects' = {body \in objects : body.name # part[w].lastEv}
                  \cup {[name |-> part[w].lastEv, sagas |-> part[w].sagas]}
  /\ part' = [part EXCEPT ![w].fresh = FALSE]
  /\ UNCHANGED <<log, first, manifest, acked, wire, faults>>

\* Create or Update at the revision the process knows, or at the one it read back.
\* The update may be stored and still be reported as failed.
UpdateManifest(w) ==
  /\ snap[w].pc \in {"update", "overwrite"} /\ manifest.rev = snap[w].rev
  /\ manifest' = [rev |-> manifest.rev + 1, object |-> snap[w].lastEv,
                  lastEv |-> snap[w].lastEv, inHi |-> snap[w].inHi]
  /\ \/ /\ part' = IF Running(w)
                   THEN [part EXCEPT ![w].rev = manifest'.rev, ![w].object = manifest'.object]
                   ELSE part
        /\ snap' = [snap EXCEPT ![w] =
             IF part[w].object \in {0, snap[w].lastEv} THEN Then(w, "purge")
             ELSE [Then(w, "delete") EXCEPT !.previous = part[w].object]]
        /\ UNCHANGED faults
     \/ /\ Fault
        /\ snap' = [snap EXCEPT ![w] = NoSnap]
        /\ UNCHANGED part
  /\ UNCHANGED <<log, first, objects, acked, wire>>

\* a conflict: a newer snapshot is another writer's, an older one is overwritten
RereadManifest_fault(w) ==
  /\ snap[w].pc = "update" /\ manifest.rev # snap[w].rev
  /\ snap' = [snap EXCEPT ![w] = [Then(w, "overwrite") EXCEPT !.rev = manifest.rev]]
  /\ UNCHANGED <<log, first, manifest, objects, acked, part, wire, faults>>

RereadManifest(w) ==
  /\ snap[w].pc = "update" /\ manifest.rev # snap[w].rev
  /\ IF Running(w) /\ manifest.lastEv > snap[w].lastEv
     THEN /\ part' = [part EXCEPT ![w] = Stopped(w, "fenced")]
          /\ snap' = [snap EXCEPT ![w] = NoSnap]
     ELSE /\ snap' = [snap EXCEPT ![w] = [Then(w, "overwrite") EXCEPT !.rev = manifest.rev]]
          /\ UNCHANGED part
  /\ UNCHANGED <<log, first, manifest, objects, acked, wire, faults>>

\* a second conflict, or a call that fails; the next snapshot starts over
SnapshotFails(w) ==
  /\ \/ /\ snap[w].pc = "overwrite" /\ manifest.rev # snap[w].rev
        /\ UNCHANGED faults
     \/ snap[w].pc \in {"update", "overwrite", "purge"} /\ Fault
  /\ snap' = [snap EXCEPT ![w] = NoSnap]
  /\ UNCHANGED <<log, first, manifest, objects, acked, part, wire>>

DeletePrevious(w) ==
  /\ snap[w].pc = "delete"
  /\ objects' = {body \in objects : body.name # snap[w].previous}
  /\ snap' = [snap EXCEPT ![w] = [Then(w, "purge") EXCEPT !.previous = 0]]
  /\ UNCHANGED <<log, first, manifest, acked, part, wire, faults>>

\* DurableAckFloors: before the first command that is not acknowledged
AckFloor(upto) ==
  LET open == SelectInSubSeq(log, Larger(first, upto + 1), Len(log), IsCommand)
  IN IF open = 0 THEN Len(log) ELSE open - 1

purgeBound_fault(view, upto) == Smaller(view.inHi + 1, view.lastEv)

purgeBound(view, upto) ==
  Smaller(Smaller(view.inHi + 1, view.lastEv), AckFloor(upto) + 1)

\* The participants have acknowledged some more commands.  Only a purge depends
\* on it: `acked' keeps those that it removed.
Purge(w) ==
  /\ snap[w].pc = "purge"
  /\ \E upto \in {acked} \cup {n \in (acked + 1) .. Len(log) : IsCommand(log[n])} :
       /\ first' = Larger(first, purgeBound(snap[w], upto))
       /\ acked' = Larger(acked, Smaller(upto, first' - 1))
  /\ snap' = [snap EXCEPT ![w] = NoSnap]
  /\ UNCHANGED <<log, manifest, objects, part, wire, faults>>

-----------------------------------------------------------------------------
(* The processes and the others *)

\* A crash, Stop, or a fail-stop because the stream refuses or stays silent.
\* One that ends while it replays has done nothing: it may as well not start.
Crash(w) ==
  /\ Running(w) /\ Fault
  /\ part' = [part EXCEPT ![w] = Stopped(w, "dead")]
  /\ wire' = IF part[w].pc = "publish"
             THEN [wire EXCEPT ![w] = <<part[w].last, chunk(part[w])>>] ELSE wire
  /\ UNCHANGED <<log, first, manifest, objects, acked, snap>>

\* A result follows a command of its saga; both may come more than once.
AppendInput(i) ==
  /\ Len(SelectSeq(log, IsInput)) < MaxInputs
  /\ i \notin Starts => \E n \in 1 .. Len(log) : IsCommand(log[n]) /\ log[n].saga = SagaOf[i]
  /\ log' = Append(log, [kind |-> "input", id |-> i])
  /\ UNCHANGED <<first, manifest, objects, acked, part, snap, wire, faults>>

Init ==
  /\ log = <<>> /\ first = 1 /\ acked = 0
  /\ manifest = [rev |-> 0, object |-> 0, lastEv |-> 0, inHi |-> 0]
  /\ objects = {}
  /\ part = [w \in Writers |-> NoPart]
  /\ snap = [w \in Writers |-> NoSnap]
  /\ wire = [w \in Writers |-> <<>>]
  /\ faults = 0

Replay(w) == ReadManifest(w) \/ ReadBody(w) \/ ReadLog(w) \/ CheckStable(w)

Round(w) ==
  \/ \E hi \in BatchEnds(w), timers \in SUBSET Waiting(w) :
       (hi > part[w].inHi \/ timers # {}) /\ Decide(w, hi, timers)
  \/ PublishChunk(w) \/ PublishDuplicate(w) \/ Resolve(w) \/ PublishTimesOut(w)

Snapshot(w) ==
  \/ maybeSnapshot(w) \/ UpdateManifest(w) \/ RereadManifest(w)
  \/ SnapshotFails(w) \/ DeletePrevious(w) \/ Purge(w)

Next ==
  \/ \E w \in Writers : Replay(w) \/ Round(w) \/ Snapshot(w) \/ LatePublish(w) \/ Crash(w)
  \/ \E i \in Inputs : AppendInput(i)

Spec == Init /\ [][Next]_vars

-----------------------------------------------------------------------------
(* What is durable: the events ever stored *)

NewestOf(s) == SelectLastInSeq(log, LAMBDA m : IsEvent(m) /\ m.saga = s)

Durable == [s \in Sagas |-> IF NewestOf(s) = 0 THEN NoSaga ELSE log[NewestOf(s)].state]

Body == IF manifest.rev = 0 THEN NoSagas
        ELSE (CHOOSE body \in objects : body.name = manifest.object).sagas

\* A restart loses nothing, whoever snapshots, purges, crashes or is late: the
\* snapshot in force has its body, and with the events that replay can still read
\* after it makes up the newest state of every saga and the last event.
ReplayExact ==
  /\ manifest.rev > 0 => \E body \in objects : body.name = manifest.object
  /\ Replayed(Body, manifest.lastEv) = Durable
  /\ Larger(manifest.lastEv, LastEvent) = SelectLastInSeq(log, IsEvent)

Judgement(to) ==
  JudgeAll(NoSagas, Identities(InputsAt(1, to)))

\* The partition is a state machine over its inputs: the durable state has applied
\* every input up to the watermark a restart takes over, none twice, in the order
\* of the stream, and nothing else but inputs behind it in that order (what a
\* crash between two chunks left); inputs behind the watermark can still be read.
\* No process that serves queries and answers starts knows anything else.
InOrder ==
  LET mark == ReplayedInHi(manifest.inHi, manifest.lastEv)
      durable == Durable
      due == Judgement(mark)
      all == Judgement(Len(log))
  IN /\ \A s \in Sagas : IsPrefix(due[s].got, durable[s].got) /\ IsPrefix(durable[s].got, all[s].got)
     /\ \A n \in (mark + 1) .. (first - 1) : ~IsInput(log[n])
     /\ \A w \in Writers, s \in Sagas :
          Running(w) => IsPrefix(part[w].sagas[s].got, durable[s].got)

\* Of two writers at most one goes on: no saga comes due twice from the same state,
\* so no command is sent twice.
OneCommand ==
  LET commands == {n \in DOMAIN log : IsCommand(log[n])}
  IN \A m, n \in commands :
       m < n /\ log[m].saga = log[n].saga => log[m].state.dues < log[n].state.dues

\* Purge never removes a command that the participants have not acknowledged.
CommandsKept == \A n \in (acked + 1) .. (first - 1) : ~IsCommand(log[n])

\* A process stops as fenced only when another one has taken over: its own publish
\* of unknown outcome, a busy server, its own former snapshot or a purge never
\* look like another writer.
FencedByOther ==
  \A w \in Writers :
    part[w].pc = "fenced" =>
      \E n \in (part[w].lastEv + 1) .. Len(log) : IsEvent(log[n]) /\ log[n].writer # w
=============================================================================
