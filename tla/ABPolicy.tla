------------------------------ MODULE ABPolicy ------------------------------
(***************************************************************************)
(* What an A/B update promises, with no flash, no slots and no power loss  *)
(* in it: one image is active, at most one newer candidate is on trial, a  *)
(* trial gets at most BootLimit attempts, and only a candidate that was    *)
(* marked healthy during its trial becomes active.                         *)
(* docs/LEFONY-UPDATE-ARCHITECTURE.md:120-147.                             *)
(***************************************************************************)
EXTENDS Naturals

CONSTANTS Image, BootLimit, None

VARIABLES active, candidate, attempts, vouched

vars == <<active, candidate, attempts, vouched>>

Init == /\ active \in Image
        /\ candidate = None
        /\ attempts = 0
        /\ vouched = FALSE

Stage(v) == /\ candidate = None
            /\ v > active
            /\ candidate' = v
            /\ attempts' = 0
            /\ vouched' = FALSE
            /\ UNCHANGED active

Attempt == /\ candidate # None
           /\ attempts < BootLimit
           /\ attempts' = attempts + 1
           /\ UNCHANGED <<active, candidate, vouched>>

Vouch == /\ candidate # None
         /\ attempts > 0
         /\ vouched' = TRUE
         /\ UNCHANGED <<active, candidate, attempts>>

Accept == /\ candidate # None
          /\ vouched
          /\ active' = candidate
          /\ candidate' = None
          /\ attempts' = 0
          /\ UNCHANGED vouched

GiveUp == /\ candidate # None
          /\ candidate' = None
          /\ attempts' = 0
          /\ UNCHANGED <<active, vouched>>

Next == (\E v \in Image : Stage(v)) \/ Attempt \/ Vouch \/ Accept \/ GiveUp

Spec == Init /\ [][Next]_vars
=============================================================================
