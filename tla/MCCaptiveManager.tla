-------------------------- MODULE MCCaptiveManager --------------------------
(* Instance of CaptiveManager for TLC. *)
EXTENDS CaptiveManager, TLC

\* UUIDs are random and interchangeable.
UUIDSymmetry == Permutations(UUIDs)
=============================================================================
