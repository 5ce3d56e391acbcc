------------------------------ MODULE Install ------------------------------
(***************************************************************************)
(* What teleporting promises a machine, when no two deployments meet on    *)
(* it: each install brings one whole release; the machine holds nothing, a *)
(* part, or a release; and what was reported installed is what lies there. *)
(* Files, architectures, commands and connections do not appear.           *)
(***************************************************************************)
CONSTANT
    Version         \* the releases

VARIABLES
    disk,           \* "none", "partial", or the release the machine holds
    sending,        \* the release on its way to it, or "none"
    claim           \* the release last reported installed on it, or "none"

vars == <<disk, sending, claim>>

Init == disk = "none" /\ sending = "none" /\ claim = "none"

\* Who made a claim may go on to other work, and the claim is forgotten.
Kept == claim' \in {claim, "none"}

Forget == UNCHANGED <<disk, sending>> /\ Kept

Begin ==
    /\ sending = "none" /\ sending' \in Version
    /\ Kept
    /\ UNCHANGED disk

\* What was on the machine is gone, a whole release as well.
Open ==
    /\ sending # "none"
    /\ disk' = "partial" /\ claim' = "none"
    /\ UNCHANGED sending

\* The last byte arrives: of the release that was sent.
Complete ==
    /\ sending # "none" /\ disk = "partial"
    /\ disk' = sending
    /\ UNCHANGED <<sending, claim>>

\* Nothing more is sent; nobody learns how much arrived.
Abandon ==
    /\ sending' = "none"
    /\ UNCHANGED <<disk, claim>>

\* Success is reported of the release that was sent and lies there.
Report ==
    /\ sending # "none" /\ disk = sending
    /\ claim' = sending /\ sending' = "none"
    /\ UNCHANGED disk

Next == Forget \/ Begin \/ Open \/ Complete \/ Abandon \/ Report

Spec == Init /\ [][Next]_vars

=============================================================================
