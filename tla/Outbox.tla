-------------------------------- MODULE Outbox --------------------------------
(***************************************************************************)
(* framework/dataengine/engine, outbox_store.go and outbox_worker.go:      *)
(* effects staged in Mongo are claimed under a lease, published to the     *)
(* broker and removed by the claim loops of several processes.             *)
(*                                                                         *)
(* Each round trip to the store or the broker is one step.  Clocks are     *)
(* abstracted to when a lease expires (Expire) and when an effect becomes  *)
(* available (Due): either may happen at any time, so nothing here rests   *)
(* on the clocks of two processes agreeing, or on a batch being shorter    *)
(* than its lease.  The order within a batch is left open.  An effect is   *)
(* staged once (EffectOnce of module Projector).  Close cancels the calls  *)
(* of a process, which to the store looks like a crash.                    *)
(*                                                                         *)
(* A definition named X_fault is X with one seeded fault.  Nothing uses it *)
(* but the mutation runs listed in PROJECT.json.                           *)
(***************************************************************************)
EXTENDS Naturals, FiniteSets

CONSTANTS
  Effects,     \* effect IDs
  Workers,     \* claim loops of all processes
  Processes,   \* OutboxWorkerOptions.Owner of each process
  OwnerOf,     \* the process of a claim loop
  Nobody,      \* no owner, no claim
  BatchSize,   \* OutboxWorkerOptions.BatchSize
  MaxFaults    \* bound: failing calls, crashes, leases that run out under a working loop

ASSUME OwnerAssumption == OwnerOf \in [Workers -> Processes] /\ Nobody \notin Processes \cup Workers

VARIABLES
  \* the outbox collection
  status,    \* "none" before it is staged, "queued", "gone" once removed
  due,       \* available_at has passed
  leased,    \* lease_until has not passed
  owner,     \* lease_owner
  token,     \* lease_token
  claim,     \* whose UpdateMany wrote lease_claim
  \* the broker
  published, \* effects it has accepted; it drops repetitions by effect ID
  \* the claim loops
  pc,        \* "idle", "found", "claimed", "work"
  ids,       \* candidates of the claim in progress
  work,      \* per claimed effect: "todo", "failed" (Nack next), "sent" (AckMany next), or "no"
  hold,      \* the lease token it was claimed with
  faults

docVars == <<status, due, leased, owner, token, claim>>
loopVars == <<pc, ids, work, hold>>
vars == <<docVars, published, loopVars, faults>>

Fault == faults < MaxFaults /\ faults' = faults + 1
NoWork == [e \in Effects |-> "no"]
NoToken == [e \in Effects |-> 0]

\* The loop returns from RunOnce.
Return(w) ==
  /\ pc' = [pc EXCEPT ![w] = "idle"]
  /\ ids' = [ids EXCEPT ![w] = {}]
  /\ work' = [work EXCEPT ![w] = NoWork]
  /\ hold' = [hold EXCEPT ![w] = NoToken]

-----------------------------------------------------------------------------
(* stageEffect, and the passing of time.                                     *)

Stage(e) ==
  /\ status[e] = "none"
  /\ status' = [status EXCEPT ![e] = "queued"]
  /\ \E now \in BOOLEAN : due' = [due EXCEPT ![e] = now]
  /\ UNCHANGED <<leased, owner, token, claim, published, loopVars, faults>>

Due(e) ==
  /\ status[e] = "queued" /\ ~due[e]
  /\ due' = [due EXCEPT ![e] = TRUE]
  /\ UNCHANGED <<status, leased, owner, token, claim, published, loopVars, faults>>

\* The lease of w on e is the one the document has: the filter of Ack and Nack.
Matches_fault(w, e) == status[e] = "queued" /\ owner[e] = OwnerOf[w]
Matches(w, e) == status[e] = "queued" /\ owner[e] = OwnerOf[w] /\ token[e] = hold[w][e]

Holds(w, e) == pc[w] = "work" /\ work[w][e] # "no" /\ Matches(w, e)
Busy(e) == \E w \in Workers : Holds(w, e) \/ (pc[w] = "claimed" /\ claim[e] = w)

\* A lease may run out under a loop that is still working on the effect, but
\* not without end.
Expire(e) ==
  /\ status[e] = "queued" /\ leased[e]
  /\ leased' = [leased EXCEPT ![e] = FALSE]
  /\ IF Busy(e) THEN Fault ELSE UNCHANGED faults
  /\ UNCHANGED <<status, due, owner, token, claim, published, loopVars>>

-----------------------------------------------------------------------------
(* Claim: find candidates, lease those still claimable, read them back.      *)

Claimable_fault(e) == status[e] = "queued" /\ due[e] /\ ~leased[e] /\ owner[e] = Nobody
Claimable(e) == status[e] = "queued" /\ due[e] /\ ~leased[e]

\* The first BatchSize claimable effects, in some order of available_at.
Candidates ==
  LET all == {e \in Effects : Claimable(e)}
  IN {S \in SUBSET all : S # {} /\ Cardinality(S) <= BatchSize
                         /\ (S = all \/ Cardinality(S) = BatchSize)}

ClaimFind(w) ==
  /\ pc[w] = "idle"
  /\ \E S \in Candidates : ids' = [ids EXCEPT ![w] = S]
  /\ pc' = [pc EXCEPT ![w] = "found"]
  /\ UNCHANGED <<docVars, published, work, hold, faults>>

\* The conditional UpdateMany with a fresh claim ID: no other document has it.
Lease(w, S) ==
  /\ leased' = [e \in Effects |-> e \in S \/ leased[e]]
  /\ owner' = [e \in Effects |-> IF e \in S THEN OwnerOf[w] ELSE owner[e]]
  /\ token' = [e \in Effects |-> IF e \in S THEN token[e] + 1 ELSE token[e]]
  /\ claim' = [e \in Effects |-> IF e \in S THEN w ELSE IF claim[e] = w THEN Nobody ELSE claim[e]]
  /\ UNCHANGED <<status, due>>

StillClaimable(w) == {e \in ids[w] : Claimable(e)}

ClaimUpdate(w) ==
  /\ pc[w] = "found"
  /\ Lease(w, StillClaimable(w))
  /\ \/ StillClaimable(w) # {} /\ pc' = [pc EXCEPT ![w] = "claimed"] /\ UNCHANGED <<ids, work, hold, faults>>
     \/ StillClaimable(w) = {} /\ Return(w) /\ UNCHANGED faults
     \/ Return(w) /\ Fault
  /\ UNCHANGED published

ReadBack_fault(w) == {e \in ids[w] : status[e] = "queued" /\ owner[e] = OwnerOf[w]}
ReadBack(w) == {e \in ids[w] : status[e] = "queued" /\ claim[e] = w}

ClaimRead(w) ==
  /\ pc[w] = "claimed"
  /\ pc' = [pc EXCEPT ![w] = "work"]
  /\ work' = [work EXCEPT ![w] = [e \in Effects |-> IF e \in ReadBack(w) THEN "todo" ELSE "no"]]
  /\ hold' = [hold EXCEPT ![w] = [e \in Effects |-> IF e \in ReadBack(w) THEN token[e] ELSE 0]]
  /\ UNCHANGED <<docVars, published, ids, faults>>

\* One of the three calls fails; a failed update that reached the store is the
\* last disjunct of ClaimUpdate.
ClaimFails(w) ==
  /\ pc[w] \in {"found", "claimed"}
  /\ Fault /\ Return(w)
  /\ UNCHANGED <<docVars, published>>

-----------------------------------------------------------------------------
(* The rest of RunOnce.                                                      *)

Working(w) == pc[w] = "work" /\ \A e \in Effects : work[w][e] # "failed"

Publish(w, e) ==
  /\ Working(w) /\ work[w][e] = "todo"
  /\ published' = published \cup {e}
  /\ work' = [work EXCEPT ![w][e] = "sent"]
  /\ UNCHANGED <<docVars, pc, ids, hold, faults>>

PublishFails_fault(w, e) ==
  /\ Working(w) /\ work[w][e] = "todo"
  /\ Fault
  /\ published' \in {published, published \cup {e}}
  /\ work' = [work EXCEPT ![w][e] = "sent"]
  /\ UNCHANGED <<docVars, pc, ids, hold>>

\* The broker refused, or its answer was lost.
PublishFails(w, e) ==
  /\ Working(w) /\ work[w][e] = "todo"
  /\ Fault
  /\ published' \in {published, published \cup {e}}
  /\ work' = [work EXCEPT ![w][e] = "failed"]
  /\ UNCHANGED <<docVars, pc, ids, hold>>

\* The document after a Nack that matched.
Postpone(e) ==
  /\ due' = [due EXCEPT ![e] = FALSE]
  /\ leased' = [leased EXCEPT ![e] = FALSE]
  /\ owner' = [owner EXCEPT ![e] = Nobody]
  /\ UNCHANGED <<status, token, claim>>

\* After a Nack that did not match or failed the rest of the batch is left to
\* its leases; what was sent is still acknowledged.
Abandon(w) == work' = [work EXCEPT ![w] = [e \in Effects |-> IF work[w][e] = "sent" THEN "sent" ELSE "no"]]

Nack(w, e) ==
  /\ pc[w] = "work" /\ work[w][e] = "failed"
  /\ \/ Matches(w, e) /\ Postpone(e) /\ work' = [work EXCEPT ![w][e] = "no"] /\ UNCHANGED faults
     \/ ~Matches(w, e) /\ UNCHANGED docVars /\ Abandon(w) /\ UNCHANGED faults
     \/ Fault /\ Abandon(w) /\ (UNCHANGED docVars \/ (Matches(w, e) /\ Postpone(e)))
  /\ UNCHANGED <<published, pc, ids, hold>>

\* The bulk delete: each document is removed only under the lease it was
\* claimed with.  A call that fails may have removed some of them.
AckMany(w) ==
  /\ pc[w] = "work" /\ \A e \in Effects : work[w][e] \in {"no", "sent"}
  /\ LET matched == {e \in Effects : work[w][e] = "sent" /\ Matches(w, e)} IN
       \E removed \in SUBSET matched :
         /\ IF removed = matched THEN UNCHANGED faults ELSE Fault
         /\ status' = [e \in Effects |-> IF e \in removed THEN "gone" ELSE status[e]]
  /\ Return(w)
  /\ UNCHANGED <<due, leased, owner, token, claim, published>>

\* The process ends, and is started again.
Crash(p) ==
  /\ Fault
  /\ pc' = [w \in Workers |-> IF OwnerOf[w] = p THEN "idle" ELSE pc[w]]
  /\ ids' = [w \in Workers |-> IF OwnerOf[w] = p THEN {} ELSE ids[w]]
  /\ work' = [w \in Workers |-> IF OwnerOf[w] = p THEN NoWork ELSE work[w]]
  /\ hold' = [w \in Workers |-> IF OwnerOf[w] = p THEN NoToken ELSE hold[w]]
  /\ UNCHANGED <<docVars, published>>

-----------------------------------------------------------------------------
Init ==
  /\ status = [e \in Effects |-> "none"]
  /\ due = [e \in Effects |-> FALSE]
  /\ leased = [e \in Effects |-> FALSE]
  /\ owner = [e \in Effects |-> Nobody]
  /\ token = NoToken
  /\ claim = [e \in Effects |-> Nobody]
  /\ published = {}
  /\ pc = [w \in Workers |-> "idle"]
  /\ ids = [w \in Workers |-> {}]
  /\ work = [w \in Workers |-> NoWork]
  /\ hold = [w \in Workers |-> NoToken]
  /\ faults = 0

RunOnce(w) ==
  \/ ClaimFind(w) \/ ClaimUpdate(w) \/ ClaimRead(w)
  \/ \E e \in Effects : Publish(w, e) \/ Nack(w, e)
  \/ AckMany(w)

Next ==
  \/ \E e \in Effects : Stage(e) \/ Due(e) \/ Expire(e)
  \/ \E w \in Workers : RunOnce(w) \/ ClaimFails(w) \/ \E e \in Effects : PublishFails(w, e)
  \/ \E p \in Processes : Crash(p)

Spec == Init /\ [][Next]_vars

\* Each loop polls, and its calls return; time passes.
Fairness ==
  /\ \A w \in Workers : WF_vars(RunOnce(w))
  /\ \A e \in Effects : WF_vars(Due(e)) /\ WF_vars(Expire(e))

FairSpec == Spec /\ Fairness

-----------------------------------------------------------------------------
(* Properties *)

TypeOK ==
  /\ status \in [Effects -> {"none", "queued", "gone"}]
  /\ due \in [Effects -> BOOLEAN] /\ leased \in [Effects -> BOOLEAN]
  /\ owner \in [Effects -> Processes \cup {Nobody}]
  /\ token \in [Effects -> Nat]
  /\ claim \in [Effects -> Workers \cup {Nobody}]
  /\ published \subseteq Effects
  /\ pc \in [Workers -> {"idle", "found", "claimed", "work"}]
  /\ ids \in [Workers -> SUBSET Effects]
  /\ work \in [Workers -> [Effects -> {"no", "todo", "failed", "sent"}]]
  /\ hold \in [Workers -> [Effects -> Nat]]
  /\ faults \in Nat

\* The outbox removes an effect only after the broker has accepted it, whatever
\* was published, refused or lost by whichever loop.
RemovedPublished == \A e \in Effects : status[e] = "gone" => e \in published

\* Two loops never work on an effect with the same lease token, the loops of
\* one process, which share the owner, included: the token tells the current
\* holder from every late one.
TokenUnique ==
  \A v, w \in Workers : \A e \in Effects :
    work[v][e] # "no" /\ work[w][e] # "no" /\ hold[v][e] = hold[w][e] => v = w

\* What makes the token unique: only a loop at work holds claims, a held token
\* is never ahead of the document's, and the loop that holds the document's
\* token is the one whose claim wrote it.  Only published effects are marked
\* sent.
LeaseInv ==
  /\ TypeOK /\ TokenUnique /\ RemovedPublished
  /\ \A w \in Workers : \A e \in Effects :
       work[w][e] # "no" => /\ pc[w] = "work"
                            /\ hold[w][e] <= token[e]
                            /\ hold[w][e] = token[e] => claim[e] = w
                            /\ work[w][e] = "sent" => e \in published

HolderStep ==
  \A w \in Workers : \A e \in Effects :
    Holds(w, e) /\ leased[e] /\ work'[w] = work[w]
      => status'[e] = status[e] /\ (due[e] => due'[e]) /\ token'[e] = token[e] /\ owner'[e] = owner[e]

\* While its lease runs, an effect is removed, postponed or leased anew by no
\* loop but its holder: a late Ack or Nack of a former holder changes nothing.
HolderOnly == [][HolderStep]_vars

\* Every staged effect is published and removed in the end.
Delivers == \A e \in Effects : status[e] = "queued" ~> status[e] = "gone"
=============================================================================
