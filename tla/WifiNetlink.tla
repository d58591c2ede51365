---------------------------- MODULE WifiNetlink ----------------------------
(***************************************************************************)
(* The netlink side of the Wi-Fi HAL (src/wifi/wifi_hal_main.cpp) and its  *)
(* debugfs files (src/wifi/wifi_stats.cpp): the table of radios filled     *)
(* from a dump of the kernel's interfaces, the readings of a station, and  *)
(* the settings of a radio.                                                *)
(*                                                                         *)
(* A request is sent and then awaited by one thread, which reads messages  *)
(* until a handler clears the flag of the request.  The kernel (external)  *)
(* has answered when the send returns.  The value of a setting is the      *)
(* number of the radio whose configuration it came from; an interface name *)
(* is a sequence of characters, because the table compares prefixes.       *)
(***************************************************************************)
EXTENDS Integers, SequencesExt

CONSTANTS
  WIFI_RADIO_MAX,   \* radios the HAL is built for
  Dumps,            \* what the kernel may list: sequences of interfaces
  MaxFailures       \* bound on the settings that fail

Slots == 0 .. WIFI_RADIO_MAX - 1
Default == -1       \* a setting nobody made, and no phy

Interfaces == UNION {ToSet(d) : d \in Dumps}
Phys == {f.phy : f \in Interfaces}

(* A name is a string of characters, empty for a device without one; the    *)
(* kernel gives no two interfaces the same.                                 *)
ASSUME NetlinkAssumption ==
  /\ WIFI_RADIO_MAX \in Nat \ {0} /\ MaxFailures \in Nat
  /\ \A f \in Interfaces :
       f.name \in Seq(STRING) /\ f.ifindex \in Nat /\ f.phy \in Nat
  /\ \A d \in Dumps :
       /\ d \in Seq(Interfaces)
       /\ \A j, k \in DOMAIN d :
            d[j].name = d[k].name /\ d[j].name # << >> => j = k

VARIABLES
  interfaces,       \* the interfaces there are, in the order of the dump
  ifname, ifindex, phyname, radio_amount,  \* the table of radios
  signal,           \* sc->signal (txrate and rxrate are filled alike)
  nlq,              \* messages in the netlink socket
  cb_err,           \* the flag of the request that is awaited
  applied,          \* the kernel's settings
  debugfs_root,     \* the phy whose directory it names, or Default
  strayFile,        \* a file of the root directory was written
  refused,          \* settings the kernel has refused so far
  unsent            \* settings that could not be sent

tableVars == <<ifname, ifindex, phyname, radio_amount>>
kernelVars == <<applied, strayFile, refused, unsent>>
nlVars == <<interfaces, tableVars, signal, nlq, cb_err, kernelVars,
            debugfs_root>>

Plain(t) == [type |-> t]
DONE == Plain("DONE")

NetlinkTypeOK ==
  /\ radio_amount \in 0 .. WIFI_RADIO_MAX
  /\ \A i \in Slots :
       /\ ifname[i] \in {<< >>} \cup {f.name : f \in Interfaces}
       /\ ifindex[i] \in {-1} \cup {f.ifindex : f \in Interfaces}
       /\ phyname[i] \in {Default} \cup Phys
  /\ \A k \in DOMAIN nlq : nlq[k].type \in {"DONE", "ACK", "ERROR", "IFACE",
                                            "STATION"}
  /\ cb_err \in {0, 1}
  /\ \A p \in Phys : {applied.power[p], applied.coverage[p], applied.bw[p]}
                       \subseteq Slots \cup {Default}
  /\ refused + unsent \in 0 .. MaxFailures

NetlinkInit(dump) ==
  /\ interfaces = dump
  /\ ifname = [i \in Slots |-> << >>] /\ ifindex = [i \in Slots |-> -1]
  /\ phyname = [i \in Slots |-> Default] /\ radio_amount = 0
  /\ signal = [i \in Slots |-> 0]
  /\ nlq = << >> /\ cb_err = 0
  /\ applied = [power |-> [p \in Phys |-> Default],
                coverage |-> [p \in Phys |-> Default],
                bw |-> [p \in Phys |-> Default],
                country |-> Default,
                fwding |-> [f \in Interfaces |-> Default]]
  /\ debugfs_root = [i \in Slots |-> Default] /\ strayFile = FALSE
  /\ refused = 0 /\ unsent = 0

(* The thread waits for an answer that will not come: an error message      *)
(* leaves the flag set.                                                     *)
Hangs == cb_err = 1 /\ nlq = << >>

-----------------------------------------------------------------------------
(***************************************************************************)
(* Requests.                                                               *)
(***************************************************************************)
Sent(messages) == nlq' = nlq \o messages /\ cb_err' = 1

wifi_hal_get_interface ==
  /\ Sent([k \in DOMAIN interfaces |->
             [type |-> "IFACE", f |-> interfaces[k]]] \o <<DONE>>)
  /\ UNCHANGED <<interfaces, tableVars, signal, kernelVars, debugfs_root>>

(* The signal of an interface's station: a byte that tells whose it is.     *)
SignalOf(k) == 256 - k

(* A station, or none; an interface that is not there is an error.          *)
wifi_hal_get_stainfo(i) ==
  LET station == [type |-> "STATION", ifindex |-> ifindex[i],
                  signal |-> SignalOf(ifindex[i])]
      there == \E k \in DOMAIN interfaces :
                 interfaces[k].ifindex = ifindex[i]
  IN /\ \/ there /\ \E s \in {<< >>, <<station>>} : Sent(s \o <<DONE>>)
        \/ ~there /\ Sent(<<Plain("ERROR")>>)
     /\ UNCHANGED <<interfaces, tableVars, signal, kernelVars, debugfs_root>>

Accepted(a) ==
  /\ applied' = a /\ Sent(<<Plain("ACK")>>)
  /\ UNCHANGED <<interfaces, tableVars, signal, debugfs_root, strayFile,
                 refused, unsent>>

Refused ==
  /\ refused + unsent < MaxFailures /\ refused' = refused + 1
  /\ Sent(<<Plain("ERROR")>>)
  /\ UNCHANGED <<interfaces, tableVars, signal, applied, debugfs_root,
                 strayFile, unsent>>

(* No memory for the message, or it cannot be sent.                         *)
Unsent ==
  /\ refused + unsent < MaxFailures /\ unsent' = unsent + 1
  /\ UNCHANGED <<interfaces, tableVars, signal, nlq, cb_err, applied,
                 debugfs_root, strayFile, refused>>

Named(n) == CHOOSE k \in DOMAIN interfaces : interfaces[k].name = n
Iface(i) == interfaces[Named(ifname[i])]
IsThere(i) == \E k \in DOMAIN interfaces : interfaces[k].name = ifname[i]

wifi_hal_set_txpower(i) ==
  \/ /\ IsThere(i)
     /\ Accepted([applied EXCEPT !.power[Iface(i).phy] = i])
  \/ Refused

(* strtol of the phy's name.                                                *)
PhyOf(i) == phyname[i]

(* A phy without a number or a distance without a coverage class are not    *)
(* sent at all.                                                             *)
wifi_hal_set_distance(i) ==
  Accepted([applied EXCEPT !.coverage[PhyOf(i)] = i]) \/ Refused

(* The country of all radios.                                               *)
wifi_hal_set_country(i) ==
  Accepted([applied EXCEPT !.country = i]) \/ Refused

(* The caller gives the address of the array of configurations instead of   *)
(* one of them, so the value is whatever lies behind the context.           *)
wifi_hal_set_mesh_fwding(i) ==
  \/ /\ IsThere(i)
     /\ \E v \in 0 .. 1 : Accepted([applied EXCEPT !.fwding[Iface(i)] = v])
  \/ Refused

-----------------------------------------------------------------------------
(***************************************************************************)
(* The handlers, one message at a time.                                    *)
(***************************************************************************)
(* Mutant: the names are compared up to the end of the shorter one.         *)
Known_Shorter(n) ==
  \E x \in Slots : ifname[x] # << >> /\ (IsPrefix(n, ifname[x])
                                        \/ IsPrefix(ifname[x], n))

(* The table has the name, or one that starts like it.                      *)
Known(n) == \E x \in Slots : IsPrefix(n, ifname[x])

NoSlot == -1

(* The first free slot for a name that is not known.                        *)
SlotFor(n) ==
  LET free == {i \in Slots : ifname[i] = << >>}
  IN IF Known(n) \/ free = {} THEN NoSlot
     ELSE CHOOSE i \in free : \A j \in free : i <= j

(* A radio counts when its phy is entered.                                  *)
CountedWith(i) ==
  radio_amount + IF i # NoSlot /\ phyname[i] = Default THEN 1 ELSE 0

wifi_hal_ifname_resp_hdlr(f) ==
  LET i == SlotFor(f.name)
  IN /\ ifname' = [x \in Slots |-> IF x = i THEN f.name ELSE ifname[x]]
     /\ ifindex' = [x \in Slots |-> IF x = i THEN f.ifindex ELSE ifindex[x]]
     /\ phyname' = [x \in Slots |-> IF x = i /\ phyname[x] = Default
                                    THEN f.phy ELSE phyname[x]]
     /\ radio_amount' = CountedWith(i)

(* Mutant: the signal goes to every radio.                                  *)
wifi_hal_connection_info_hdlr_Any(m) ==
  signal' = [i \in Slots |-> IF i < radio_amount THEN m.signal ELSE signal[i]]

(* The readings go to the radios with the interface of the message.         *)
wifi_hal_connection_info_hdlr(m) ==
  signal' = [i \in Slots |-> IF i < radio_amount /\ ifindex[i] = m.ifindex
                             THEN m.signal ELSE signal[i]]

(* wifi_hal_nl_finish_handler and wifi_hal_nl_ack_handler.                  *)
Cleared(m) == m.type \in {"DONE", "ACK"}

(* nl_recvmsgs.  An interface without a name, which nla_get_string cannot   *)
(* read, is the caller's.                                                   *)
nl_recvmsgs ==
  /\ cb_err = 1 /\ nlq # << >>
  /\ LET m == Head(nlq)
     IN /\ cb_err' = IF Cleared(m) THEN 0 ELSE 1
        /\ IF m.type = "IFACE" THEN wifi_hal_ifname_resp_hdlr(m.f)
           ELSE UNCHANGED tableVars
        /\ IF m.type = "STATION" THEN wifi_hal_connection_info_hdlr(m)
           ELSE UNCHANGED signal
  /\ nlq' = Tail(nlq)
  /\ UNCHANGED <<interfaces, kernelVars, debugfs_root>>

-----------------------------------------------------------------------------
(***************************************************************************)
(* debugfs.                                                                *)
(***************************************************************************)
(* The directory of the phy's driver; none leaves the root empty.           *)
wifi_debugfs_init(i) ==
  debugfs_root' = [debugfs_root EXCEPT ![i] =
    IF \E k \in DOMAIN interfaces :
         interfaces[k].phy = phyname[i] /\ interfaces[k].debugfs
    THEN phyname[i] ELSE Default]

(* A file under an empty root is one of the root directory.                 *)
wifi_debugfs_write(i) ==
  LET p == debugfs_root[i]
  IN /\ IF p = Default THEN strayFile' = TRUE /\ UNCHANGED applied
        ELSE applied' = [applied EXCEPT !.bw[p] = i] /\ UNCHANGED strayFile
     /\ UNCHANGED <<interfaces, tableVars, signal, nlq, cb_err, debugfs_root,
                    refused, unsent>>

-----------------------------------------------------------------------------
(***************************************************************************)
(* Properties.                                                             *)
(***************************************************************************)
(* Each radio of the table is one interface, its name, index and phy taken  *)
(* from the same message, and no two radios are the same interface.         *)
TableSound ==
  \A i \in Slots : ifname[i] # << >> =>
    /\ \E k \in DOMAIN interfaces :
         /\ interfaces[k].name = ifname[i]
         /\ interfaces[k].ifindex = ifindex[i]
         /\ interfaces[k].phy = phyname[i]
    /\ \A j \in Slots : ifname[j] = ifname[i] => j = i

(* A setting that the kernel has of a phy came from the configuration of a  *)
(* radio on this phy.                                                       *)
SettingsOwn ==
  \A p \in Phys : \A i \in Slots :
    i \in {applied.power[p], applied.coverage[p], applied.bw[p]}
      => phyname[i] = p

(* The reading of a radio is one of its own interface.                      *)
ReadingsOwn ==
  \A i \in Slots :
    signal[i] # 0 /\ ifindex[i] # -1 => signal[i] = SignalOf(ifindex[i])

=============================================================================
