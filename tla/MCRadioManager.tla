--------------------------- MODULE MCRadioManager ---------------------------
(***************************************************************************)
(* An instance of RadioManager for TLC.                                    *)
(***************************************************************************)
EXTENDS RadioManager

Interface(n, k, p, d) == [name |-> n, ifindex |-> k, phy |-> p, debugfs |-> d]

wlan0  == Interface(<<"w", "0">>, 3, 0, TRUE)
wlan1  == Interface(<<"w", "1">>, 4, 1, FALSE)
wlan10 == Interface(<<"w", "1", "0">>, 5, 0, TRUE)
mesh0  == Interface(<<"m">>, 6, 0, TRUE)
p2p    == Interface(<< >>, 7, 1, FALSE)

(* Names that begin each other; a device without an interface.              *)
MCDumps ==
  {<< >>, <<wlan0>>, <<wlan0, wlan1>>, <<wlan0, mesh0, wlan1>>,
   <<wlan1, wlan10>>, <<wlan10, wlan1>>, <<wlan0, p2p>>}

Config(m, far) == [mode |-> m, mesh_fwding |-> 1, far |-> far]
Pair(c, d) == [i \in 0 .. 1 |-> IF i = 0 THEN c ELSE d]

TwoMeshes == Pair(Config("mesh", FALSE), Config("mesh", TRUE))
MeshAp == Pair(Config("mesh", FALSE), Config("ap", FALSE))
NoMode == Pair(Config("sta", FALSE), Config("none", FALSE))
MCConfigs == {TwoMeshes, MeshAp, NoMode}

Manager(o, d, f, n) ==
  [prog |-> "radio_manager", opts |-> o, test |-> [call |-> "none", index |-> 0],
   dump |-> d, config |-> f, events |-> n]
Test(c, i, d) ==
  [prog |-> "radio_hal_daemon", opts |-> <<"w">>,
   test |-> [call |-> c, index |-> i],
   dump |-> d, config |-> MeshAp, events |-> 0]

TwoCards == <<wlan0, wlan1>>

(* Two cards with each configuration, other machines, other options, and    *)
(* the tests.                                                               *)
MCRuns ==
  {Manager(<<"w">>, TwoCards, TwoMeshes, 3),
   Manager(<<"w">>, TwoCards, NoMode, 1),
   Manager(<<"w", "m">>, <<wlan0, mesh0, wlan1>>, NoMode, 1),
   Manager(<<"w", "h">>, <<wlan10, wlan1>>, NoMode, 1),
   Manager(<<"w">>, <<wlan1, wlan10>>, NoMode, 1),
   Manager(<<"w">>, << >>, NoMode, 0),
   Manager(<<"w">>, <<wlan0, p2p>>, NoMode, 0),
   Manager(<<"m", "b">>, TwoCards, MeshAp, 0),
   Manager(<<"m", "m", "m", "m", "m", "w">>, <<wlan0>>, NoMode, 0),
   Test("radio_get_rssi", 0, TwoCards), Test("radio_get_rssi", 1, <<wlan0>>),
   Test("radio_create_ap", 1, TwoCards),
   Test("radio_get_mac_address", 0, TwoCards)}

(* One event of each kind: it starts, it ends, no state has a row for it,   *)
(* it is none.                                                              *)
MCSpoken == {"MESH-GROUP-STARTED", "CTRL-EVENT-TERMINATING", "AP-ENABLED",
             "other"}

=============================================================================
