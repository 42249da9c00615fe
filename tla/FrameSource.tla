---------------------------- MODULE FrameSource ----------------------------
(***************************************************************************)
(* What a frame pool promises to the handles above it (the trait           *)
(* FrameSource of frame.rs): a frame that is handed out is nobody else's   *)
(* until it is recycled, and it is recycled once.  An allocation may fail  *)
(* at any time, which changes nothing here.                                *)
(***************************************************************************)
EXTENDS Integers

CONSTANT Frames

VARIABLE out     \* how often each frame was handed out and not recycled

SInit == out = [f \in Frames |-> 0]

AllocFrame(f) ==
  /\ out[f] = 0
  /\ out' = [out EXCEPT ![f] = @ + 1]

RecycleFrame(f) ==
  /\ out[f] = 1
  /\ out' = [out EXCEPT ![f] = @ - 1]

SNext == \E f \in Frames : AllocFrame(f) \/ RecycleFrame(f)

Spec == SInit /\ [][SNext]_out
=============================================================================
