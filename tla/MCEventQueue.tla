---------------------------- MODULE MCEventQueue ----------------------------
(***************************************************************************)
(* Instances of EventQueue for TLC: constants in the .cfg files.           *)
(***************************************************************************)
EXTENDS EventQueue
=============================================================================
