------------------------------- MODULE DualPromise -------------------------------
(***************************************************************************)
(* What the dual-boot transaction promises about a board: a reviewed plan  *)
(* is applied change by change, in its order, one block at a time, and     *)
(* only while the rest of the board is exactly where the plan has it.      *)
(* Whoever owns the calculator may use it between two changes; a plan the  *)
(* board has left is never continued.                                      *)
(***************************************************************************)
EXTENDS Naturals, Sequences

CONSTANTS Block, UserData, Content

VARIABLES
  flash,    \* Block -> Content
  plan,     \* the changes of the plan the board records
  at        \* how many of them it records as done

promise == <<flash, plan, at>>

\* Done changes read as written, later ones as captured; the next one is open.
OnPlan ==
  \A k \in 1..Len(plan) :
    /\ k <= at     => flash[plan[k].block] = plan[k].after
    /\ k >  at + 1 => flash[plan[k].block] = plan[k].before

Start == plan = <<>> /\ at = 0 /\ flash \in [Block -> Content]

Begin ==
  /\ plan' # <<>> /\ at' = 0
  /\ \A k \in 1..Len(plan') : flash[plan'[k].block] = plan'[k].before
  /\ UNCHANGED flash

Touch ==
  /\ at < Len(plan) /\ OnPlan
  /\ \E c \in Content : flash' = [flash EXCEPT ![plan[at + 1].block] = c]
  /\ UNCHANGED <<plan, at>>

Complete ==
  /\ at < Len(plan) /\ OnPlan
  /\ flash[plan[at + 1].block] = plan[at + 1].after
  /\ at' = at + 1
  /\ UNCHANGED <<flash, plan>>

\* Losing a journal copy costs at most the record of the last change; losing
\* both, the plan.
Forget ==
  /\ UNCHANGED flash
  /\ \/ plan' = <<>> /\ at' = 0
     \/ at > 0 /\ at' = at - 1 /\ UNCHANGED plan

UseData ==
  /\ \E b \in UserData :
       /\ flash[b].is # "torn"
       /\ flash' = [flash EXCEPT ![b] = [is |-> flash'[b].is, n |-> flash[b].n + 1]]
  /\ UNCHANGED <<plan, at>>

Keep == Begin \/ Touch \/ Complete \/ Forget \/ UseData

Promise == Start /\ [][Keep]_promise
=============================================================================
