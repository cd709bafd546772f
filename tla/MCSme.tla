------------------------------ MODULE MCSme ------------------------------
(***************************************************************************)
(* Small instances of Sme for TLC.                                         *)
(***************************************************************************)
EXTENDS SmeInv

CONSTANTS Good, Bad

=============================================================================
