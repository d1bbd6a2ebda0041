------------------------------ MODULE BootSlots ------------------------------
(***************************************************************************)
(* What a device with two firmware slots promises whoever updates it: it   *)
(* runs a whole image at all times, an image is on trial until it confirms *)
(* itself, and a restart before that brings back the image before it.      *)
(***************************************************************************)
CONSTANTS
    Images      \* firmware images

VARIABLES
    stage,  \* "steady", "accepted" (a restart tries next) or "trial"
    runs,   \* the image that runs
    next    \* the image the next restart runs

slotVars == <<stage, runs, next>>

Init ==
    /\ stage = "steady"
    /\ runs \in Images
    /\ next = runs

\* An upload is complete; only then does it become the next image.
Accept ==
    /\ stage = "steady"
    /\ stage' = "accepted"
    /\ next' \in Images
    /\ UNCHANGED runs

\* Another upload takes the slot of the next image.
Withdraw ==
    /\ stage = "accepted"
    /\ stage' = "steady"
    /\ next' = runs
    /\ UNCHANGED runs

Try ==
    /\ stage = "accepted"
    /\ stage' = "trial"
    /\ runs' = next
    /\ next' = runs

Confirm ==
    /\ stage = "trial"
    /\ stage' = "steady"
    /\ next' = runs
    /\ UNCHANGED runs

RollBack ==
    /\ stage = "trial"
    /\ stage' = "steady"
    /\ runs' = next
    /\ UNCHANGED next

Next == Accept \/ Withdraw \/ Try \/ Confirm \/ RollBack

Spec == Init /\ [][Next]_slotVars
=============================================================================
