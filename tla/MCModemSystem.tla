--------------------------- MODULE MCModemSystem ---------------------------
(***************************************************************************)
(* Instances of ModemSystem for TLC.                                       *)
(***************************************************************************)
EXTENDS ModemSystem

(* The calls the HAL makes: one for each stage.                             *)
HalRequests == {RequestAt(s) : s \in Asking}

=============================================================================
