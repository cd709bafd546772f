----------------------------- MODULE MCConnect ------------------------------
(***************************************************************************)
(* A small instance of Connect for TLC: two attempts of one poll each with *)
(* two keys, a user space that may call .connect on a link that is up and  *)
(* .add_key, and a dongle that may be pulled.                              *)
(***************************************************************************)
EXTENDS Connect

=============================================================================
