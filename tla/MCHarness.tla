----------------------------- MODULE MCHarness -----------------------------
(***************************************************************************)
(* Three allocas: two can escape, so that slots can cover both, one or     *)
(* none of them, and a third that need not escape shares their frame.      *)
(***************************************************************************)
EXTENDS Harness

CONSTANTS o1, o2, o3

MCObjects == {o1, o2, o3}
=============================================================================
