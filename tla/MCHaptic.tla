------------------------------- MODULE MCHaptic -------------------------------
(* The force feedback of the gripper on its own. *)
EXTENDS Haptic
=============================================================================
