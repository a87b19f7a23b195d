----------------------------- MODULE SagaPromise -----------------------------
(* What framework/saga promises the business code of a saga's steps: the      *)
(* counts of committed business changes of every step and direction, and       *)
(* whether the saga is completed.  The registered definition has `length'      *)
(* steps; a deployment may change that.                                        *)
EXTENDS Integers

CONSTANT Steps

VARIABLES effects, completed, length

Step == 0 .. (Steps - 1)
Forward(s) == <<"forward", s>>
Compensation(s) == <<"compensate", s>>
Done(s) == effects[Forward(s)]
Undone(s) == effects[Compensation(s)]

Init == /\ effects = [op \in {"forward", "compensate"} \X Step |-> 0]
        /\ completed = FALSE
        /\ length = Steps

\* A step follows the steps before it; it may still take effect when those are
\* being undone, and is then undone as well.
Do(s) == /\ ~completed /\ Done(s) = 0
         /\ \A t \in 0 .. (s - 1) : Done(t) = 1
         /\ effects' = [effects EXCEPT ![Forward(s)] = 1]
         /\ UNCHANGED <<completed, length>>

Undo(s) == /\ ~completed /\ Done(s) = 1 /\ Undone(s) = 0
           /\ effects' = [effects EXCEPT ![Compensation(s)] = 1]
           /\ UNCHANGED <<completed, length>>

Complete == /\ ~completed /\ length > 0
            /\ \A s \in 0 .. (length - 1) : Done(s) = 1 /\ Undone(s) = 0
            /\ completed' = TRUE
            /\ UNCHANGED <<effects, length>>

Deploy == /\ length' \in 0 .. Steps
          /\ UNCHANGED <<effects, completed>>

Next == Deploy \/ Complete \/ \E s \in Step : Do(s) \/ Undo(s)

Spec == Init /\ [][Next]_<<effects, completed, length>>
=============================================================================
