----------------------------- MODULE FotaCycle -----------------------------
(***************************************************************************)
(* What the coordinated firmware update promises, without its mechanism:   *)
(* the gateway first asks the LAN MCU to update itself, then updates       *)
(* itself, and only a restart ends that second half.  A LAN MCU that does  *)
(* not come back ends the first half by a timeout.                         *)
(***************************************************************************)
VARIABLE phase   \* "idle", "lan" (the LAN MCU updates), "wan" (this MCU does)

Init == phase = "idle"

AskLan    == phase = "idle" /\ phase' = "lan"
GiveUp    == phase = "lan"  /\ phase' = "idle"
UpdateWan == phase = "lan"  /\ phase' = "wan"
Restart   == phase' = "idle"

Next == AskLan \/ GiveUp \/ UpdateWan \/ Restart

Spec == Init /\ [][Next]_phase
=============================================================================
