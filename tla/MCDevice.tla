------------------------------ MODULE MCDevice ------------------------------
(***************************************************************************)
(* A small instance of Device for TLC: a ring of two URBs with two         *)
(* segments in one transfer or two, an error, a failed submission and one  *)
(* frame sent; one caller that tunes with three attempts of two polls; and *)
(* images shorter and longer than a chunk or two, with and without a DLM,  *)
(* loaded in three binds of one chip with control transfers that fail      *)
(* unnoticed.  The violated property looks at the ring alone.              *)
(***************************************************************************)
EXTENDS Device

ASSUME MCConstants == DeviceConstants

=============================================================================
