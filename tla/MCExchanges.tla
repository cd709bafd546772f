---------------------------- MODULE MCExchanges ----------------------------
(***************************************************************************)
(* A small instance of Exchanges for TLC: two streams in two slots, with a *)
(* budget of two streams and one that is lowered below a single stream;    *)
(* four queries with two usable transaction identifiers, so that they      *)
(* wrap; an AP that answers a Block Ack with a smaller window or none; a   *)
(* STA that roams to the AP that refuses reservations and back; the scan   *)
(* worker and .connect that tune with two attempts per command, three      *)
(* numbers and responses that stay behind.                                 *)
(***************************************************************************)
EXTENDS Exchanges, TLC

ASSUME MCConstants == ExchangeConstants

\* The two callers of the channel program run the same code.
AnyCaller == Permutations(Callers)

=============================================================================
