---------------------------- MODULE MCWifiConfig ----------------------------
(***************************************************************************)
(* An instance of WifiConfig for TLC.                                      *)
(***************************************************************************)
EXTENDS WifiConfig

Session(c, f) == [caller |-> c, calls |-> f]

(* What init_handler calls in each mode, and what the unit tests call.      *)
RadioSessions ==
  {Session("manager", <<"create_ap">>), Session("manager", <<"join_mesh">>),
   Session("manager", <<"connect_ap">>),
   Session("daemon", <<"trigger_scan", "scan_results", "connect_ap">>)}

(* The sessions of the two programs are as the theorems want them.          *)
ASSUME KnownSessions == JoinsOnce /\ ConfiguresOnce

=============================================================================
