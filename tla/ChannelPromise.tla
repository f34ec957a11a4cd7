---------------------------- MODULE ChannelPromise ----------------------------
(***************************************************************************)
(* What the app channel promises its two ends, an app on the calculator    *)
(* and the program on the computer that the user let in: two queues, one   *)
(* in each direction.  While the session lasts nothing is lost, repeated   *)
(* or put in another order.  When the computer's program is gone its last  *)
(* message may be lost, and no other; when the session ends both queues    *)
(* are emptied, so a later session finds nothing of this one.              *)
(***************************************************************************)
EXTENDS Sequences, SequencesExt

CONSTANT Data        \* what a message can say

VARIABLES
    bound,      \* the program the user let in is there
    doubt,      \* it left, and its last message has not arrived for certain
    up,         \* messages on their way to the app
    down        \* messages on their way to the computer

promise == <<bound, doubt, up, down>>

PromiseInit == ~bound /\ ~doubt /\ up = <<>> /\ down = <<>>

LetIn ==
    /\ ~bound /\ ~doubt /\ up = <<>>
    /\ bound' = TRUE
    /\ UNCHANGED <<doubt, up, down>>

HostSays(d) ==
    bound /\ up' = Append(up, d) /\ UNCHANGED <<bound, doubt, down>>

AppHears == up # <<>> /\ up' = Tail(up) /\ UNCHANGED <<bound, doubt, down>>

AppSays(d) ==
    bound /\ down' = Append(down, d) /\ UNCHANGED <<bound, doubt, up>>

HostHears ==
    bound /\ down # <<>> /\ down' = Tail(down) /\ UNCHANGED <<bound, doubt, up>>

HostLeaves ==
    /\ bound /\ bound' = FALSE
    /\ \/ up' = up /\ doubt' \in BOOLEAN
       \/ up # <<>> /\ up' = Front(up) /\ doubt' = FALSE
    /\ down' = <<>>

\* The doubt ends: the last message arrived, or was lost.
Settle ==
    /\ doubt /\ doubt' = FALSE
    /\ \/ up' = up
       \/ up # <<>> /\ up' = Front(up)
    /\ UNCHANGED <<bound, down>>

End == bound' = FALSE /\ doubt' = FALSE /\ up' = <<>> /\ down' = <<>>

PromiseNext ==
    \/ LetIn
    \/ \E d \in Data : HostSays(d) \/ AppSays(d)
    \/ AppHears
    \/ HostHears
    \/ HostLeaves
    \/ Settle
    \/ End

PromiseSpec == PromiseInit /\ [][PromiseNext]_promise
===============================================================================
