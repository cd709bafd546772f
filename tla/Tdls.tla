-------------------------------- MODULE Tdls --------------------------------
(***************************************************************************)
(* The TDLS direct link of rf_2a4m1_tdls.c and rf_2a4m1_sme.c: two STAs of *)
(* one BSS agree on a TPK with a three-frame handshake tunnelled through   *)
(* the AP, and tear the link down.                                         *)
(*                                                                         *)
(* A tunnelled frame is a data frame of its sender's association, then one *)
(* of its receiver's: the packet numbers of module Sme make each leg a     *)
(* queue that may lose frames but neither repeats nor reorders them.       *)
(*                                                                         *)
(* The code that starts a setup, the sender of a teardown and the wiring   *)
(* of the AP's relay are not part of the repository (External).            *)
(***************************************************************************)
EXTENDS Naturals, Sequences

CONSTANTS
    A, B,      \* the two STAs
    MaxStarts, \* bound: setups begun
    MaxQueue   \* bound: frames on one leg

TdlsConstants ==
    /\ A # B
    /\ MaxStarts \in Nat
    /\ MaxQueue \in Nat \ {0}

Sta == {A, B}
Other(n) == IF n = A THEN B ELSE A

VARIABLES
    link,    \* s->tdls of each STA
    up,      \* tunnelled frames from a STA to the AP
    down,    \* tunnelled frames from the AP to a STA
    nonces,  \* nonces drawn so far (gen_nonce is the kernel's CSPRNG)
    starts,  \* setups begun
    derived  \* history: the TPKs each STA has derived

vars == <<link, up, down, nonces, starts, derived>>

\* A TPK depends on the two nonces, in either order, and on the addresses of
\* the two STAs, in either order: rf_2a4m1_tdls_derive_tpk sorts both.
DeriveTpk(snonce, anonce) == {snonce, anonce}
NoTpk == {}

\* rf_2a4m1_tdls_reset, and the memset of rf_2a4m1_sme_init
Idle == [state |-> "IDLE", snonce |-> 0, tpk |-> NoTpk]

\* The elements a tunnelled frame carries: the Link Identifier (by the STA
\* it names as initiator), the nonces of the FTIE and its MIC (by its key).
Frame == [act : {"SETUP_REQ", "SETUP_RESP", "SETUP_CONFIRM", "TEARDOWN"}, init : Sta,
          snonce : Nat, anonce : Nat, mic : SUBSET Nat]

Init ==
    /\ link = [n \in Sta |-> Idle]
    /\ up = [n \in Sta |-> <<>>]
    /\ down = [n \in Sta |-> <<>>]
    /\ nonces = 0
    /\ starts = 0
    /\ derived = [n \in Sta |-> {}]

\* rf_2a4m1_tdls_encap_tx
EncapTx(n, f) ==
    /\ Len(up[n]) < MaxQueue
    /\ up' = [up EXCEPT ![n] = Append(@, f)]

\* A STA begins a setup with a fresh SNonce.
StartSetup(n) ==
    /\ link[n].state = "IDLE"
    /\ starts < MaxStarts
    /\ starts' = starts + 1
    /\ nonces' = nonces + 1
    /\ link' = [link EXCEPT ![n] =
                    [state |-> "REQ_SENT", init |-> n, snonce |-> nonces + 1, tpk |-> NoTpk]]
    /\ EncapTx(n, [act |-> "SETUP_REQ", init |-> n, snonce |-> nonces + 1, anonce |-> 0,
                   mic |-> NoTpk])
    /\ UNCHANGED <<down, derived>>

\* A STA tears its link down: the frame has a MIC when the link has a TPK.
SendTeardown(n) ==
    /\ link[n].state # "IDLE"
    /\ EncapTx(n, [act |-> "TEARDOWN", init |-> link[n].init, snonce |-> 0, anonce |-> 0,
                   mic |-> link[n].tpk])
    /\ link' = [link EXCEPT ![n] = Idle]
    /\ UNCHANGED <<down, nonces, starts, derived>>

\* rf_2a4m1_rx_data at the AP: the frame is tunnelled on to the sibling.
Relay(n) ==
    /\ up[n] # <<>>
    /\ Len(down[Other(n)]) < MaxQueue
    /\ up' = [up EXCEPT ![n] = Tail(@)]
    /\ down' = [down EXCEPT ![Other(n)] = Append(@, Head(up[n]))]
    /\ UNCHANGED <<link, nonces, starts, derived>>

\* rf_2a4m1_tdls_on_setup_req: only an idle STA named as the responder.
OnSetupReq(n, f) ==
    /\ f.init = Other(n)
    /\ link[n].state = "IDLE"
    /\ nonces' = nonces + 1
    /\ LET tpk == DeriveTpk(f.snonce, nonces + 1)
       IN /\ link' = [link EXCEPT ![n] =
                        [state |-> "SETUP", init |-> f.init, snonce |-> f.snonce, tpk |-> tpk]]
          /\ derived' = [derived EXCEPT ![n] = @ \cup {tpk}]
          /\ EncapTx(n, [act |-> "SETUP_RESP", init |-> f.init, snonce |-> f.snonce,
                         anonce |-> nonces + 1, mic |-> tpk])

\* Mutant: neither the echoed SNonce nor the MIC is checked.
OnSetupRespUnchecked(n, f) ==
    /\ link[n].state = "REQ_SENT"
    /\ f.init = n
    /\ LET tpk == DeriveTpk(link[n].snonce, f.anonce)
       IN /\ link' = [link EXCEPT ![n].state = "ESTABLISHED", ![n].tpk = tpk]
          /\ derived' = [derived EXCEPT ![n] = @ \cup {tpk}]
          /\ EncapTx(n, [act |-> "SETUP_CONFIRM", init |-> n, snonce |-> link[n].snonce,
                         anonce |-> f.anonce, mic |-> tpk])
    /\ UNCHANGED nonces

\* rf_2a4m1_tdls_on_setup_resp: the SNonce must be echoed and the MIC be that
\* of the TPK it leads to.
OnSetupResp(n, f) ==
    /\ link[n].state = "REQ_SENT"
    /\ f.init = n
    /\ f.snonce = link[n].snonce
    /\ LET tpk == DeriveTpk(link[n].snonce, f.anonce)
       IN /\ f.mic = tpk
          /\ link' = [link EXCEPT ![n].state = "ESTABLISHED", ![n].tpk = tpk]
          /\ derived' = [derived EXCEPT ![n] = @ \cup {tpk}]
          /\ EncapTx(n, [act |-> "SETUP_CONFIRM", init |-> n, snonce |-> link[n].snonce,
                         anonce |-> f.anonce, mic |-> tpk])
    /\ UNCHANGED nonces

\* rf_2a4m1_tdls_on_setup_confirm
OnSetupConfirm(n, f) ==
    /\ link[n].state = "SETUP"
    /\ f.init = link[n].init
    /\ f.mic = link[n].tpk
    /\ link' = [link EXCEPT ![n].state = "ESTABLISHED"]
    /\ UNCHANGED <<up, nonces, derived>>

\* Mutant: the MIC is not checked.
TeardownAnyMic(n, f) == link[n].state # "IDLE" /\ f.init = link[n].init

\* The checks of rf_2a4m1_tdls_on_teardown: a link with a TPK requires its MIC,
\* and an idle link's zeroed identifier matches no frame.
TeardownOk(n, f) ==
    /\ link[n].state # "IDLE"
    /\ f.init = link[n].init
    /\ link[n].tpk # NoTpk => f.mic = link[n].tpk

\* rf_2a4m1_tdls_on_teardown and the reset that follows it
OnTeardown(n, f) ==
    /\ TeardownOk(n, f)
    /\ link' = [link EXCEPT ![n] = Idle]
    /\ UNCHANGED <<up, nonces, derived>>

\* rf_2a4m1_tdls_sta_deliver: a frame that is accepted.
Deliver(n) ==
    /\ down[n] # <<>>
    /\ LET f == Head(down[n])
       IN \/ f.act = "SETUP_REQ" /\ OnSetupReq(n, f)
          \/ f.act = "SETUP_RESP" /\ OnSetupResp(n, f)
          \/ f.act = "SETUP_CONFIRM" /\ OnSetupConfirm(n, f)
          \/ f.act = "TEARDOWN" /\ OnTeardown(n, f)
    /\ down' = [down EXCEPT ![n] = Tail(@)]
    /\ UNCHANGED starts

\* A frame is lost on its way down, or fails a check of its handler, which
\* changes nothing.
DropDown(n) ==
    /\ down[n] # <<>>
    /\ down' = [down EXCEPT ![n] = Tail(@)]
    /\ UNCHANGED <<link, up, nonces, starts, derived>>

\* A frame is lost on its way up, or the AP has no relay to the sibling.
DropUp(n) ==
    /\ up[n] # <<>>
    /\ up' = [up EXCEPT ![n] = Tail(@)]
    /\ UNCHANGED <<link, down, nonces, starts, derived>>

\* rf_2a4m1_sme_init and a new join of one STA: its link is forgotten, what
\* was under its old key on the air is lost, the peer is not told.
Rejoin(n) ==
    /\ link' = [link EXCEPT ![n] = Idle]
    /\ up' = [up EXCEPT ![n] = <<>>]
    /\ down' = [down EXCEPT ![n] = <<>>]
    /\ UNCHANGED <<nonces, starts, derived>>

Next ==
    \E n \in Sta :
        \/ StartSetup(n)
        \/ SendTeardown(n)
        \/ Relay(n)
        \/ Deliver(n)
        \/ DropDown(n)
        \/ DropUp(n)
        \/ Rejoin(n)

Spec == Init /\ [][Next]_vars

-----------------------------------------------------------------------------
(* Properties.                                                             *)

\* Type invariant: a link holds a TPK exactly from the moment its FSM is past
\* the request.
TypeOK ==
    /\ \A n \in Sta : /\ link[n].state \in {"IDLE", "REQ_SENT", "SETUP", "ESTABLISHED"}
                      /\ (link[n].tpk # NoTpk) <=> link[n].state \in {"SETUP", "ESTABLISHED"}
    /\ \A n \in Sta : /\ \A i \in DOMAIN up[n] : up[n][i] \in Frame
                      /\ \A i \in DOMAIN down[n] : down[n][i] \in Frame

\* Two STAs that both believe in the direct link hold the same TPK, and an end
\* whose link is ESTABLISHED knows that its peer derived that key (for the
\* responder through the Confirm), whatever was lost, restarted or torn down.
KeyConfirmed ==
    /\ (\A n \in Sta : link[n].state = "ESTABLISHED") => link[A].tpk = link[B].tpk
    /\ \A n \in Sta : link[n].state = "ESTABLISHED" => link[n].tpk \in derived[Other(n)]

\* A link that holds a TPK is torn down from outside only by a STA that had
\* derived that TPK: a teardown sent before the sender had the key, still in
\* the tunnel, does not reach into the secure link.
TeardownByKeyHolder ==
    [][\A n \in Sta :
        (Deliver(n) /\ link[n].tpk # NoTpk /\ link'[n] = Idle) =>
            link[n].tpk \in derived[Other(n)]]_vars

\* What the two ends of a direct link keep through losses, crossing setups,
\* teardowns and rejoins.
TdlsInv == TypeOK /\ KeyConfirmed

=============================================================================
