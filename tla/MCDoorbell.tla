----------------------------- MODULE MCDoorbell -----------------------------
(***************************************************************************)
(* The application for a violation run: the button is pressed about when a *)
(* second ends.                                                            *)
(***************************************************************************)
EXTENDS Doorbell

MCPressed == {[keys |-> 0, presses |-> 1, seconds |-> 2]}
=============================================================================
