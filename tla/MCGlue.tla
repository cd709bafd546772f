------------------------------- MODULE MCGlue -------------------------------
(***************************************************************************)
(* A small instance of Glue for TLC: three scan requests of two channels,  *)
(* the dongle pulled at any time; two connects to two APs, a FIFO of one   *)
(* report and drains that stop after two; every payload length modulo the  *)
(* rounding to four, below and above the shortest EAPOL PDU.               *)
(***************************************************************************)
EXTENDS Glue

MCPayloadLens == 0..13

ASSUME MCConstants == GlueConstants

=============================================================================
