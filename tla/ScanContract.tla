---------------------------- MODULE ScanContract ----------------------------
(***************************************************************************)
(* What cfg80211 may rely on when it hands a driver a scan request: one    *)
(* request at a time, and each one ends once: refused by the .scan op, or  *)
(* completed after every channel was visited, or aborted.  It holds until  *)
(* the device is pulled; from then on nothing is promised.                 *)
(***************************************************************************)
EXTENDS Naturals

CONSTANTS Requests, NumChans

VARIABLES
    status,    \* what has become of each request
    progress,  \* the channels visited for it
    present    \* the device is there

contractVars == <<status, progress, present>>

Init ==
    /\ status = [r \in Requests |-> "new"]
    /\ progress = [r \in Requests |-> 0]
    /\ present = TRUE

Become(r, from, to) == status[r] = from /\ status' = [status EXCEPT ![r] = to]

Start(r) ==
    /\ \A q \in Requests : status[q] # "active"
    /\ Become(r, "new", "active")
    /\ UNCHANGED progress

Visit(r) ==
    /\ status[r] = "active"
    /\ progress[r] < NumChans
    /\ progress' = [progress EXCEPT ![r] = @ + 1]
    /\ UNCHANGED status

Complete(r) == progress[r] = NumChans /\ Become(r, "active", "complete") /\ UNCHANGED progress

Abort(r) == Become(r, "active", "aborted") /\ UNCHANGED progress

\* The op fails before or after the driver has taken the request on.
Refuse(r) ==
    /\ Become(r, "new", "refused") \/ Become(r, "active", "refused")
    /\ UNCHANGED progress

Removed == present /\ present' = FALSE /\ UNCHANGED <<status, progress>>

Next ==
    \/ /\ present /\ UNCHANGED present
       /\ \E r \in Requests : Start(r) \/ Visit(r) \/ Complete(r) \/ Abort(r) \/ Refuse(r)
    \/ Removed
    \/ ~present /\ UNCHANGED present

Spec == Init /\ [][Next]_contractVars

=============================================================================
