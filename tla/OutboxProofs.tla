----------------------------- MODULE OutboxProofs -----------------------------
(***************************************************************************)
(* The leases of the outbox for any number of effects, claim loops and     *)
(* processes, and any batch size: LeaseInv is inductive, and with it no    *)
(* effect is removed unpublished and nobody but the holder of a running    *)
(* lease changes an effect.                                                *)
(***************************************************************************)
EXTENDS Outbox, TLAPS

\* The outbox starts with nothing staged, claimed or published.
LEMMA InitLease == Init => LeaseInv
  BY OwnerAssumption
  DEF Init, LeaseInv, TypeOK, TokenUnique, RemovedPublished, NoWork, NoToken

Works == {"no", "todo", "failed", "sent"}

\* One entry of one loop's batch is set.
LEMMA WorkSet ==
  ASSUME TypeOK, NEW w \in Workers, NEW e \in Effects, NEW x \in Works,
         work' = [work EXCEPT ![w][e] = x]
  PROVE  /\ work' \in [Workers -> [Effects -> Works]]
         /\ \A v \in Workers : \A f \in Effects :
              work'[v][f] = IF v = w /\ f = e THEN x ELSE work[v][f]
<1>1. work[w] \in [Effects -> Works]
  BY DEF TypeOK, Works
<1>2. [work[w] EXCEPT ![e] = x] \in [Effects -> Works]
  BY <1>1
<1>3. work' = [work EXCEPT ![w] = [work[w] EXCEPT ![e] = x]]
  OBVIOUS
<1> QED
  BY <1>1, <1>2, <1>3 DEF TypeOK, Works

\* The loop's own state after it returned.
LEMMA ReturnType ==
  ASSUME TypeOK, NEW w \in Workers, Return(w)
  PROVE  /\ pc' \in [Workers -> {"idle", "found", "claimed", "work"}]
         /\ ids' \in [Workers -> SUBSET Effects]
         /\ work' \in [Workers -> [Effects -> Works]]
         /\ hold' \in [Workers -> [Effects -> Nat]]
<1>1. NoWork \in [Effects -> Works] /\ NoToken \in [Effects -> Nat]
  BY DEF NoWork, NoToken, Works
<1> QED
  BY <1>1 DEF TypeOK, Return, Works

\* Returning from RunOnce drops the loop's claims, whatever becomes of the
\* documents, as long as only published ones go.
LEMMA ReturnKeeps ==
  ASSUME LeaseInv, NEW w \in Workers, Return(w),
         published' = published, token' = token, claim' = claim, TypeOK', RemovedPublished'
  PROVE  LeaseInv'
  BY DEF LeaseInv, TypeOK, TokenUnique, Return, NoWork, NoToken

\* Steps that leave the loops, the tokens and the claims alone.
LEMMA DocumentsKeep ==
  ASSUME LeaseInv, UNCHANGED <<pc, work, hold, token, claim, published>>, TypeOK', RemovedPublished'
  PROVE  LeaseInv'
  BY DEF LeaseInv, TokenUnique

\* A loop only drops claims.
LEMMA FewerClaims ==
  ASSUME LeaseInv, NEW w \in Workers,
         work' \in [Workers -> [Effects -> Works]],
         \A v \in Workers : \A e \in Effects : work'[v][e] \in {work[v][e], "no"},
         UNCHANGED <<pc, hold, token, claim, published>>, TypeOK', RemovedPublished'
  PROVE  LeaseInv'
  BY DEF LeaseInv, TokenUnique, TypeOK, Works

\* UpdateMany gives the leased documents a token nobody holds yet, and takes no
\* claim of a working loop away from a document whose token it leaves alone.
LEMMA LeaseKeeps ==
  ASSUME LeaseInv, NEW w \in Workers, NEW S \in SUBSET Effects, pc[w] = "found", Lease(w, S),
         published' = published, TypeOK', RemovedPublished',
         \/ pc' = [pc EXCEPT ![w] = "claimed"] /\ UNCHANGED <<ids, work, hold>>
         \/ Return(w)
  PROVE  LeaseInv'
<1>1. CASE pc' = [pc EXCEPT ![w] = "claimed"] /\ UNCHANGED <<ids, work, hold>>
  BY <1>1 DEF LeaseInv, TypeOK, TokenUnique, Lease
<1>2. CASE Return(w)
  BY <1>2 DEF LeaseInv, TypeOK, TokenUnique, Lease, Return, NoWork, NoToken
<1> QED
  BY <1>1, <1>2

\* Each step of the outbox keeps LeaseInv.
LEMMA StepLease == LeaseInv /\ [Next]_vars => LeaseInv'
<1> SUFFICES ASSUME LeaseInv, [Next]_vars PROVE LeaseInv'
  OBVIOUS
<1> USE DEF docVars, loopVars
<1>1. ASSUME NEW e \in Effects, Stage(e) PROVE LeaseInv'
  <2>1. TypeOK'
    BY <1>1 DEF LeaseInv, TypeOK, Stage
  <2>2. RemovedPublished'
    BY <1>1 DEF LeaseInv, TypeOK, RemovedPublished, Stage
  <2> QED
    BY <1>1, <2>1, <2>2, DocumentsKeep DEF Stage
<1>2. ASSUME NEW e \in Effects, Due(e) PROVE LeaseInv'
  <2>1. TypeOK' /\ RemovedPublished'
    BY <1>2 DEF LeaseInv, TypeOK, RemovedPublished, Due
  <2> QED
    BY <1>2, <2>1, DocumentsKeep DEF Due
<1>3. ASSUME NEW e \in Effects, Expire(e) PROVE LeaseInv'
  <2>1. TypeOK' /\ RemovedPublished'
    BY <1>3 DEF LeaseInv, TypeOK, RemovedPublished, Expire, Fault
  <2> QED
    BY <1>3, <2>1, DocumentsKeep DEF Expire
<1>4. ASSUME NEW w \in Workers, ClaimFind(w) PROVE LeaseInv'
  <2>1. \A S \in Candidates : S \in SUBSET Effects
    BY DEF Candidates
  <2>2. TypeOK' /\ RemovedPublished'
    BY <1>4, <2>1 DEF LeaseInv, TypeOK, RemovedPublished, ClaimFind
  <2> QED
    BY <1>4, <2>2 DEF LeaseInv, TypeOK, TokenUnique, ClaimFind
<1>5. ASSUME NEW w \in Workers, ClaimUpdate(w) PROVE LeaseInv'
  <2> DEFINE S == StillClaimable(w)
  <2>1. S \in SUBSET Effects
    BY DEF StillClaimable, LeaseInv, TypeOK
  <2>2. leased' \in [Effects -> BOOLEAN] /\ owner' \in [Effects -> Processes \cup {Nobody}]
        /\ token' \in [Effects -> Nat] /\ claim' \in [Effects -> Workers \cup {Nobody}]
        /\ UNCHANGED <<status, due, published>>
    BY <1>5, <2>1, OwnerAssumption DEF LeaseInv, TypeOK, ClaimUpdate, Lease
  <2>3. \/ pc' = [pc EXCEPT ![w] = "claimed"] /\ UNCHANGED <<ids, work, hold>>
        \/ Return(w)
    BY <1>5 DEF ClaimUpdate
  <2>4. /\ pc' \in [Workers -> {"idle", "found", "claimed", "work"}]
        /\ ids' \in [Workers -> SUBSET Effects]
        /\ work' \in [Workers -> [Effects -> Works]]
        /\ hold' \in [Workers -> [Effects -> Nat]]
    <3>1. CASE Return(w)
      BY <3>1, ReturnType DEF LeaseInv
    <3>2. CASE pc' = [pc EXCEPT ![w] = "claimed"] /\ UNCHANGED <<ids, work, hold>>
      BY <3>2 DEF LeaseInv, TypeOK, Works
    <3> QED
      BY <2>3, <3>1, <3>2
  <2>5. faults' \in Nat
    <3>1. faults' = faults \/ Fault
      BY <1>5 DEF ClaimUpdate
    <3> QED
      BY <3>1 DEF LeaseInv, TypeOK, Fault
  <2>6. TypeOK' /\ RemovedPublished'
    BY <2>2, <2>4, <2>5 DEF LeaseInv, TypeOK, RemovedPublished, Works
  <2>7. pc[w] = "found" /\ Lease(w, S)
    BY <1>5 DEF ClaimUpdate
  <2> QED
    BY <2>1, <2>2, <2>3, <2>6, <2>7, LeaseKeeps
<1>6. ASSUME NEW w \in Workers, ClaimRead(w) PROVE LeaseInv'
  <2>1. TypeOK' /\ RemovedPublished'
    BY <1>6 DEF LeaseInv, TypeOK, RemovedPublished, ClaimRead
  <2>2. \A e \in Effects : work'[w][e] # "no" => claim[e] = w /\ hold'[w][e] = token[e] /\ work'[w][e] = "todo"
    BY <1>6 DEF LeaseInv, TypeOK, ClaimRead, ReadBack
  <2>3. \A v \in Workers \ {w} : work'[v] = work[v] /\ hold'[v] = hold[v] /\ pc'[v] = pc[v]
    BY <1>6 DEF LeaseInv, TypeOK, ClaimRead
  <2>4. \A v \in Workers \ {w} : \A e \in Effects :
          work'[v][e] # "no" /\ work'[w][e] # "no" => hold'[v][e] # hold'[w][e]
    BY <2>2, <2>3 DEF LeaseInv
  <2>5. TokenUnique'
    BY <2>3, <2>4 DEF LeaseInv, TokenUnique
  <2>6. pc'[w] = "work" /\ UNCHANGED <<token, claim, published>>
    BY <1>6 DEF LeaseInv, TypeOK, ClaimRead
  <2> QED
    BY <2>1, <2>2, <2>3, <2>5, <2>6 DEF LeaseInv, TypeOK
<1>7. ASSUME NEW w \in Workers, ClaimFails(w) PROVE LeaseInv'
  <2>1. TypeOK' /\ RemovedPublished'
    BY <1>7 DEF LeaseInv, TypeOK, RemovedPublished, ClaimFails, Return, Fault, NoWork, NoToken
  <2> QED
    BY <1>7, <2>1, ReturnKeeps DEF ClaimFails
<1>8. ASSUME NEW w \in Workers, NEW e \in Effects, Publish(w, e) \/ PublishFails(w, e) PROVE LeaseInv'
  <2>1. PICK x \in {"sent", "failed"} :
          work' = [work EXCEPT ![w][e] = x] /\ work[w][e] = "todo" /\ (x = "sent" => e \in published')
    BY <1>8 DEF Publish, PublishFails
  <2>2. /\ work' \in [Workers -> [Effects -> Works]]
        /\ \A v \in Workers : \A f \in Effects :
             work'[v][f] = IF v = w /\ f = e THEN x ELSE work[v][f]
    <3>1. x \in Works /\ TypeOK
      BY DEF LeaseInv, Works
    <3> QED
      BY <2>1, <3>1, WorkSet
  <2>3. published \subseteq published' /\ published' \subseteq Effects
    <3>1. published' = published \/ published' = published \cup {e}
      BY <1>8 DEF Publish, PublishFails
    <3> QED
      BY <3>1 DEF LeaseInv, TypeOK
  <2>4. TypeOK' /\ RemovedPublished'
    <3>1. faults' = faults \/ Fault
      BY <1>8 DEF Publish, PublishFails
    <3>2. faults' \in Nat
      BY <3>1 DEF LeaseInv, TypeOK, Fault
    <3>3. UNCHANGED <<docVars, pc, ids, hold>>
      BY <1>8 DEF Publish, PublishFails
    <3> QED
      BY <2>2, <2>3, <3>2, <3>3 DEF LeaseInv, TypeOK, RemovedPublished, Works
  <2>5. \A v \in Workers : \A f \in Effects :
          work'[v][f] # "no" => /\ work[v][f] # "no"
                                /\ work'[v][f] = "sent" => f \in published'
    BY <2>1, <2>2, <2>3 DEF LeaseInv
  <2>6. UNCHANGED <<pc, hold, token, claim>>
    BY <1>8 DEF Publish, PublishFails
  <2> QED
    BY <2>4, <2>5, <2>6 DEF LeaseInv, TokenUnique
<1>9. ASSUME NEW w \in Workers, NEW e \in Effects, Nack(w, e) PROVE LeaseInv'
  <2>1. /\ work' \in [Workers -> [Effects -> Works]]
        /\ \A v \in Workers : \A f \in Effects : work'[v][f] \in {work[v][f], "no"}
    <3>1. work' = [work EXCEPT ![w][e] = "no"] \/ Abandon(w)
      BY <1>9 DEF Nack
    <3>2. CASE work' = [work EXCEPT ![w][e] = "no"]
      <4>1. "no" \in Works /\ TypeOK
        BY DEF LeaseInv, Works
      <4>2. /\ work' \in [Workers -> [Effects -> Works]]
            /\ \A v \in Workers : \A f \in Effects :
                 work'[v][f] = IF v = w /\ f = e THEN "no" ELSE work[v][f]
        BY <3>2, <4>1, WorkSet
      <4> QED
        BY <4>2
    <3>3. CASE Abandon(w)
      BY <3>3 DEF LeaseInv, TypeOK, Abandon, Works
    <3> QED
      BY <3>1, <3>2, <3>3
  <2>2. TypeOK' /\ RemovedPublished'
    <3>1. UNCHANGED docVars \/ Postpone(e)
      BY <1>9 DEF Nack
    <3>2. /\ due' \in [Effects -> BOOLEAN] /\ leased' \in [Effects -> BOOLEAN]
          /\ owner' \in [Effects -> Processes \cup {Nobody}]
          /\ UNCHANGED <<status, token, claim>>
      BY <3>1 DEF LeaseInv, TypeOK, Postpone
    <3>3. (faults' = faults \/ Fault) /\ UNCHANGED <<published, pc, ids, hold>>
      BY <1>9 DEF Nack
    <3>4. faults' \in Nat
      BY <3>3 DEF LeaseInv, TypeOK, Fault
    <3> QED
      BY <2>1, <3>2, <3>3, <3>4 DEF LeaseInv, TypeOK, RemovedPublished, Works
  <2>3. UNCHANGED <<pc, hold, token, claim, published>>
    BY <1>9 DEF Nack, Postpone
  <2> QED
    BY <2>1, <2>2, <2>3, FewerClaims
<1>10. ASSUME NEW w \in Workers, AckMany(w) PROVE LeaseInv'
  <2>1. PICK removed \in SUBSET {e \in Effects : work[w][e] = "sent" /\ Matches(w, e)} :
          status' = [e \in Effects |-> IF e \in removed THEN "gone" ELSE status[e]]
    BY <1>10 DEF AckMany
  <2>2. removed \subseteq published
    BY <2>1 DEF LeaseInv
  <2>3. TypeOK'
    BY <1>10, <2>1 DEF LeaseInv, TypeOK, AckMany, Return, Fault, NoWork, NoToken
  <2>4. RemovedPublished'
    BY <1>10, <2>1, <2>2 DEF LeaseInv, TypeOK, RemovedPublished, AckMany
  <2> QED
    BY <1>10, <2>3, <2>4, ReturnKeeps DEF AckMany
<1>11. ASSUME NEW p \in Processes, Crash(p) PROVE LeaseInv'
  <2>1. TypeOK' /\ RemovedPublished'
    BY <1>11 DEF LeaseInv, TypeOK, RemovedPublished, Crash, Fault, NoWork, NoToken
  <2> QED
    BY <1>11, <2>1 DEF LeaseInv, TypeOK, TokenUnique, Crash, NoWork, NoToken
<1>12. CASE UNCHANGED vars
  BY <1>12 DEF vars, LeaseInv, TypeOK, TokenUnique, RemovedPublished
<1> QED
  BY <1>1, <1>2, <1>3, <1>4, <1>5, <1>6, <1>7, <1>8, <1>9, <1>10, <1>11, <1>12 DEF Next, RunOnce

\* Leases are sound for every number of effects, loops and processes: LeaseInv,
\* and with it the uniqueness of the lease token of outbox_store.go, always
\* holds.
THEOREM Leases == Spec => [](LeaseInv /\ TokenUnique)
<1>1. LeaseInv => TokenUnique
  BY DEF LeaseInv
<1> QED
  BY InitLease, StepLease, <1>1, PTL DEF Spec

\* AckMany removes only what the broker has accepted.
THEOREM RemovalSafe == Spec => []RemovedPublished
<1>1. LeaseInv => RemovedPublished
  BY DEF LeaseInv
<1> QED
  BY InitLease, StepLease, <1>1, PTL DEF Spec
\* While a lease runs no step but its holder's removes, postpones or re-leases
\* the effect: the filters of Ack, AckMany and Nack are enough for any number
\* of late owners.
LEMMA StepHolder == LeaseInv /\ [Next]_vars => [HolderStep]_vars
<1> SUFFICES ASSUME LeaseInv, Next,
                    NEW w \in Workers, NEW e \in Effects, Holds(w, e), leased[e], work'[w] = work[w]
             PROVE  status'[e] = status[e] /\ (due[e] => due'[e]) /\ token'[e] = token[e] /\ owner'[e] = owner[e]
  BY DEF HolderStep
<1> USE DEF docVars, loopVars
<1>1. \A v \in Workers : work[v][e] # "no" /\ Matches(v, e) => v = w
  <2>1. TokenUnique
    BY DEF LeaseInv
  <2>2. work[w][e] # "no" /\ token[e] = hold[w][e]
    BY DEF Holds, Matches
  <2>3. ASSUME NEW v \in Workers, work[v][e] # "no", Matches(v, e) PROVE v = w
    <3>1. hold[v][e] = hold[w][e]
      BY <2>2, <2>3 DEF Matches
    <3> QED
      BY <2>1, <2>2, <2>3, <3>1 DEF TokenUnique
  <2> QED
    BY <2>3
<1> DEFINE Same == status'[e] = status[e] /\ (due[e] => due'[e]) /\ token'[e] = token[e] /\ owner'[e] = owner[e]
<1>2. ASSUME NEW f \in Effects, Stage(f) \/ Due(f) \/ Expire(f) PROVE Same
  <2>1. status[e] = "queued"
    BY DEF Holds, Matches
  <2>2. CASE Stage(f)
    BY <2>1, <2>2 DEF Stage, LeaseInv, TypeOK
  <2>3. CASE Due(f)
    BY <2>3 DEF Due, LeaseInv, TypeOK
  <2>4. CASE Expire(f)
    BY <2>4 DEF Expire
  <2> QED
    BY <1>2, <2>2, <2>3, <2>4
<1>3. ASSUME NEW v \in Workers, ClaimUpdate(v) PROVE Same
  <2>1. e \notin StillClaimable(v)
    BY DEF StillClaimable, Claimable
  <2>2. Lease(v, StillClaimable(v))
    BY <1>3 DEF ClaimUpdate
  <2> QED
    BY <2>1, <2>2 DEF Lease
<1>4. ASSUME NEW v \in Workers, ClaimFind(v) \/ ClaimRead(v) \/ ClaimFails(v) PROVE Same
  BY <1>4 DEF ClaimFind, ClaimRead, ClaimFails
<1>5. ASSUME NEW v \in Workers, NEW f \in Effects, Publish(v, f) \/ PublishFails(v, f) PROVE Same
  BY <1>5 DEF Publish, PublishFails
<1>6. ASSUME NEW v \in Workers, NEW f \in Effects, Nack(v, f) PROVE Same
  <2>1. work[v][f] = "failed" /\ (UNCHANGED docVars \/ (Matches(v, f) /\ Postpone(f)))
    BY <1>6 DEF Nack
  <2>2. f = e /\ Matches(v, f) => FALSE
    <3> SUFFICES ASSUME f = e, Matches(v, f) PROVE FALSE
      OBVIOUS
    <3>1. v = w
      BY <1>1, <2>1
    <3>2. work'[w][e] = "no"
      <4>1. work' = [work EXCEPT ![w][e] = "no"] \/ Abandon(w)
        BY <1>6, <3>1 DEF Nack
      <4>2. CASE work' = [work EXCEPT ![w][e] = "no"]
        BY <4>2 DEF LeaseInv, TypeOK
      <4>3. CASE Abandon(w)
        BY <2>1, <3>1, <4>3 DEF LeaseInv, TypeOK, Abandon
      <4> QED
        BY <4>1, <4>2, <4>3
    <3> QED
      BY <2>1, <3>1, <3>2
  <2> QED
    BY <2>1, <2>2 DEF Postpone, LeaseInv, TypeOK
<1>7. ASSUME NEW v \in Workers, AckMany(v) PROVE Same
  <2>1. PICK removed \in SUBSET {f \in Effects : work[v][f] = "sent" /\ Matches(v, f)} :
          status' = [f \in Effects |-> IF f \in removed THEN "gone" ELSE status[f]]
    BY <1>7 DEF AckMany
  <2>2. e \notin removed
    <3> SUFFICES ASSUME e \in removed PROVE FALSE
      OBVIOUS
    <3>1. v = w /\ work[w][e] = "sent"
      BY <1>1, <2>1
    <3>2. work'[w][e] = "no"
      BY <1>7, <3>1 DEF AckMany, Return, NoWork, LeaseInv, TypeOK
    <3> QED
      BY <3>1, <3>2
  <2> QED
    BY <1>7, <2>1, <2>2 DEF AckMany
<1>8. ASSUME NEW p \in Processes, Crash(p) PROVE Same
  BY <1>8 DEF Crash
<1> QED
  BY <1>2, <1>3, <1>4, <1>5, <1>6, <1>7, <1>8 DEF Next, RunOnce

\* The filters of Ack, AckMany and Nack protect the holder of a running lease
\* from any number of late owners, in its own process and in others.
THEOREM HolderProtected == Spec => HolderOnly
  BY InitLease, StepLease, StepHolder, PTL DEF Spec, HolderOnly

=============================================================================
