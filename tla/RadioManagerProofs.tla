------------------------- MODULE RadioManagerProofs -------------------------
(***************************************************************************)
(* Theorems about the radios of the Wi-Fi HAL and the programs that run    *)
(* it, for every number of radios, every dump of the kernel, every         *)
(* configuration and every sequence of options.                            *)
(*                                                                         *)
(* The properties of the table, of the settings and of the events each     *)
(* need to know what the netlink socket holds and where the HAL is when it *)
(* does; the parts of the invariant say that.                              *)
(***************************************************************************)
EXTENDS RadioManager, WellFoundedInduction, TLAPS

USE DEF vars, wifiVars, nlVars, tableVars, kernelVars, halVars, mainVars

-----------------------------------------------------------------------------
(***************************************************************************)
(* The invariant.                                                          *)
(***************************************************************************)
Names == {<< >>} \cup {f.name : f \in Interfaces}
Setters == Slots \cup {Default}
Applied ==
  [power : [Phys -> Setters], coverage : [Phys -> Setters],
   bw : [Phys -> Setters], country : Setters,
   fwding : [Interfaces -> {Default, 0, 1}]]

NetTypes ==
  /\ interfaces \in Dumps
  /\ ifname \in [Slots -> Names]
  /\ ifindex \in [Slots -> {-1} \cup {f.ifindex : f \in Interfaces}]
  /\ phyname \in [Slots -> {Default} \cup Phys]
  /\ radio_amount \in 0 .. WIFI_RADIO_MAX
  /\ signal \in [Slots -> Int] /\ cb_err \in {0, 1}
  /\ applied \in Applied
  /\ refused \in Nat /\ unsent \in Nat /\ refused + unsent <= MaxFailures

Places == {"off", "attach", "attached", "nullptr", "crashed", "open", "dump",
           "failed", "opened", "thread", "lost", "init", "handle", "wait",
           "set", "close", "closed", "reading", "read"}

HalTypes ==
  /\ at \in Places /\ radio \in Nat /\ index \in Slots \cup {-1}
  /\ monitor \in [Slots -> {"NULL", "open", "freed"}]
  /\ state \in [Slots -> wifi_state]
  /\ eNewEvent \in [Slots -> wifi_SystemEvent]
  /\ events \in [Slots -> Seq(WpaEvents)]
  /\ heard \in [Slots -> SUBSET WpaEvents]
  /\ talk \in Nat /\ readable \in BOOLEAN

MainTypes ==
  /\ prog \in Programs /\ test.index \in Slots
  /\ threads \in Seq({"wifi", "modem", "none"})
  /\ code \in {"running", "0", "-1", "crashed"}

(* Messages of the kernel that lists the interfaces d; a signal is that of  *)
(* the interface its message names.                                         *)
Final == {"DONE", "ACK", "ERROR"}
Message(d) ==
  [type : Final] \cup [type : {"IFACE"}, f : ToSet(d)]
    \cup {[type |-> "STATION", ifindex |-> k, signal |-> SignalOf(k)] : k \in Nat}

(* The socket holds the answer to one request, the one that is awaited, and *)
(* the table can grow only where the HAL waits for the interfaces.          *)
Waiting == {"dump", "reading", "read", "set", "crashed"}
Listings == {"dump", "reading", "crashed"}
QueueKnown ==
  /\ nlq \in Seq(Message(interfaces))
  /\ \A j \in 1 .. Len(nlq) :
       /\ nlq[j].type \in Final => j = Len(nlq)
       /\ nlq[j].type = "IFACE" => at \in Listings
  /\ cb_err = 0 => nlq = << >>
  /\ cb_err = 1 => at \in Waiting

(* The slots are taken from the first on, with all that a radio has.        *)
TableKnown ==
  at # "closed" => \A i \in Slots :
    /\ i < radio_amount => ifname[i] # << >> /\ ifindex[i] # -1
                           /\ phyname[i] # Default
    /\ i >= radio_amount => ifname[i] = << >> /\ ifindex[i] = -1
                            /\ phyname[i] = Default /\ signal[i] = 0

(* An interface of the dump is in the table, has no room in it, or is in a  *)
(* message that has not been read.                                          *)
Listed(n) == \/ \E i \in Radios : IsPrefix(n, ifname[i])
             \/ radio_amount = WIFI_RADIO_MAX
Loop == {"thread", "init", "handle", "wait", "set"}
Listing == at = "dump" \/ (prog = "radio_manager" /\ at \in Loop \cup {"opened"})
NothingLost ==
  Listing => \A k \in DOMAIN interfaces :
    \/ Listed(interfaces[k].name)
    \/ \E j \in 1 .. Len(nlq) : /\ nlq[j].type = "IFACE"
                                /\ nlq[j].f = interfaces[k]

(* Settings are made for a radio of the table, files written for its phy.   *)
SettingsKnown ==
  /\ at = "set" => radio \in Radios
  /\ at = "handle" => index \in Slots
  /\ debugfs_root \in [Slots -> {Default} \cup Phys]
  /\ \A i \in Slots : debugfs_root[i] # Default => debugfs_root[i] = phyname[i]

(* A connection is that of a radio of the table.  radio_manager enters its  *)
(* loop with all of them open, and keeps them until it closes.              *)
MonitorsKnown ==
  /\ at = "off" => radio_amount = 0
  /\ at \in Loop \ {"set"} => prog = "radio_manager"
  /\ at = "set" => then \in IF prog = "radio_manager" THEN {"init", "wait"}
                            ELSE {"close"}
  /\ \A i \in Slots :
       /\ monitor[i] # "NULL" => i < radio_amount
       /\ at = "dump" /\ i < radio => monitor[i] = "open"
       /\ at \in Loop \cup {"opened", "close"} /\ prog = "radio_manager"
          /\ i < radio_amount => monitor[i] = "open"
       /\ at = "closed" => monitor[i] # "open"

(* The state machines rest until the loop has started.                      *)
Rest == \/ prog = "radio_hal_daemon"
        \/ at \notin Loop \cup {"close", "closed", "crashed"} \/ at = "thread"
StatesKnown ==
  \A i \in Slots :
    /\ Rest => state[i] = "IF_DOWN_STATE" /\ eNewEvent[i] = "NO_EVENT"
    /\ state[i] # "IF_DOWN_STATE" => i < radio_amount

(* What a radio has read was said by its own supplicant.                    *)
Died == {"CTRL-EVENT-TERMINATING", "error"}
EventsKnown ==
  \A i \in Slots :
    /\ \A k \in 1 .. Len(events[i]) : events[i][k] \in heard[i]
    /\ (eNewEvent[i] = "STARTUP_STAGE_2_EVENT"
          \/ state[i] \in {"IF_UP_STATE", "SHUTDOWN_STATE"})
            => "MESH-GROUP-STARTED" \in heard[i]
    /\ eNewEvent[i] = "TERMINATE_EVENT" \/ state[i] = "SHUTDOWN_STATE"
         => readable \/ Blind \/ Died \cap heard[i] # {}

Types == NetTypes /\ HalTypes /\ MainTypes

-----------------------------------------------------------------------------
(***************************************************************************)
(* Facts about the constants and the table.                                *)
(***************************************************************************)
LEMMA SlotFacts ==
  /\ WIFI_RADIO_MAX \in Nat \ {0} /\ Slots = 0 .. WIFI_RADIO_MAX - 1
  /\ Slots \subseteq Nat /\ Default = -1 /\ Default \notin Slots /\ 0 \in Slots
BY NetlinkAssumption DEF NetlinkAssumption, Slots, Default

LEMMA InterfaceFacts ==
  ASSUME NEW d \in Dumps
  PROVE  /\ d \in Seq(Interfaces) /\ DOMAIN d = 1 .. Len(d) /\ Len(d) \in Nat
         /\ \A k \in DOMAIN d :
              /\ d[k] \in Interfaces /\ d[k].name \in Seq(STRING)
              /\ d[k].ifindex \in Nat /\ d[k].phy \in Nat /\ d[k].phy \in Phys
         /\ \A j, k \in DOMAIN d :
              d[j].name = d[k].name /\ d[j].name # << >> => j = k
<1>1. /\ d \in Seq(Interfaces)
      /\ \A j, k \in DOMAIN d :
              d[j].name = d[k].name /\ d[j].name # << >> => j = k
  BY NetlinkAssumption
<1>2. ASSUME NEW k \in DOMAIN d
      PROVE  /\ d[k] \in Interfaces /\ d[k].name \in Seq(STRING)
             /\ d[k].ifindex \in Nat /\ d[k].phy \in Nat /\ d[k].phy \in Phys
  <2>1. d[k] \in Interfaces
    BY <1>1, <1>2
  <2> QED BY <2>1, NetlinkAssumption DEF Phys
<1> QED BY <1>1, <1>2

LEMMA PhyFacts == Phys \subseteq Nat /\ Default \notin Phys
BY NetlinkAssumption DEF Phys, Default

LEMMA NameFacts == Names \subseteq Seq(STRING)
<1>1. \A f \in Interfaces : f.name \in Seq(STRING)
  BY NetlinkAssumption
<1>2. << >> \in Seq(STRING)
  OBVIOUS
<1> QED BY <1>1, <1>2 DEF Names

LEMMA PrefixFacts ==
  ASSUME NEW n \in Seq(STRING)
  PROVE  IsPrefix(n, n) /\ (IsPrefix(n, << >>) => n = << >>)
<1>1. Len(n) \in Nat /\ Len(<< >>) = 0
  OBVIOUS
<1>2. Len(n) = 0 => n = << >>
  OBVIOUS
<1> QED BY <1>1, <1>2 DEF IsPrefix

LEMMA MessageFacts ==
  ASSUME NEW d, NEW m \in Message(d)
  PROVE  /\ m.type \in Final \cup {"IFACE", "STATION"}
         /\ m.type = "IFACE" => m.f \in ToSet(d)
         /\ m.type = "STATION" => m.ifindex \in Nat /\ m.signal = SignalOf(m.ifindex)
BY DEF Message, Final

(* A name that is entered goes to the first slot behind the radios.         *)
LEMMA SlotForFacts ==
  ASSUME NetTypes, TableKnown, at # "closed", NEW n \in Seq(STRING), n # << >>
  PROVE  \/ /\ SlotFor(n) = NoSlot
            /\ (\E i \in Radios : IsPrefix(n, ifname[i])) \/ radio_amount = WIFI_RADIO_MAX
         \/ /\ SlotFor(n) = radio_amount /\ radio_amount \in Slots
            /\ \A i \in Slots : ifname[i] # n
<1> DEFINE free == {i \in Slots : ifname[i] = << >>}
<1>1. /\ radio_amount \in Nat /\ radio_amount <= WIFI_RADIO_MAX
      /\ \A i \in Slots : ifname[i] = << >> <=> i >= radio_amount
      /\ Slots \subseteq Nat
  BY SlotFacts DEF NetTypes, TableKnown
<1>2. CASE Known(n)
  <2>1. PICK x \in Slots : IsPrefix(n, ifname[x])
    BY <1>2 DEF Known
  <2>2. ifname[x] # << >>
    BY <2>1, PrefixFacts
  <2>3. x \in Radios
    BY <1>1, <2>2 DEF Radios
  <2> QED BY <1>2, <2>1, <2>3 DEF SlotFor
<1>3. CASE ~Known(n) /\ free = {}
  <2>1. \A i \in Slots : i < radio_amount
    BY <1>1, <1>3
  <2>2. radio_amount = WIFI_RADIO_MAX
    BY <1>1, <2>1, SlotFacts
  <2> QED BY <1>3, <2>2 DEF SlotFor
<1>4. CASE ~Known(n) /\ free # {}
  <2>1. radio_amount \in free /\ \A j \in free : radio_amount <= j
    BY <1>1, <1>4, SlotFacts
  <2>2. SlotFor(n) = CHOOSE i \in free : \A j \in free : i <= j
    BY <1>4 DEF SlotFor
  <2>3. SlotFor(n) \in free /\ \A j \in free : SlotFor(n) <= j
    BY <2>1, <2>2
  <2>4. SlotFor(n) = radio_amount
    <3>1. SlotFor(n) \in Nat
      BY <1>1, <2>3
    <3>2. SlotFor(n) <= radio_amount /\ radio_amount <= SlotFor(n)
      BY <2>1, <2>3
    <3> QED BY <1>1, <3>1, <3>2
  <2>5. ASSUME NEW i \in Slots, ifname[i] = n PROVE FALSE
    BY <1>4, <2>5, PrefixFacts DEF Known
  <2> QED BY <2>1, <2>4, <2>5
<1> QED BY <1>2, <1>3, <1>4

-----------------------------------------------------------------------------
(***************************************************************************)
(* The actions, by what they touch.                                        *)
(***************************************************************************)
(* The HAL's requests: what each puts into the socket.                      *)
LEMMA RequestFacts ==
  ASSUME NetTypes, QueueKnown, nlq = << >>
  PROVE  /\ wifi_hal_get_interface =>
              /\ nlq' \in Seq(Message(interfaces)) /\ cb_err' = 1
              /\ Len(nlq') = Len(interfaces) + 1
              /\ nlq'[Len(interfaces) + 1] = DONE
              /\ \A k \in DOMAIN interfaces :
                   nlq'[k] = [type |-> "IFACE", f |-> interfaces[k]]
              /\ UNCHANGED <<interfaces, tableVars, signal, kernelVars,
                             debugfs_root>>
         /\ \A i \in Slots : wifi_hal_get_stainfo(i) =>
              /\ nlq' \in Seq(Message(interfaces)) /\ cb_err' = 1
              /\ \A j \in 1 .. Len(nlq') : /\ nlq'[j].type # "IFACE"
                                           /\ nlq'[j].type \in Final => j = Len(nlq')
              /\ UNCHANGED <<interfaces, tableVars, signal, kernelVars,
                             debugfs_root>>
<1>1. interfaces \in Seq(Interfaces) /\ DOMAIN interfaces = 1 .. Len(interfaces)
      /\ Len(interfaces) \in Nat
  BY InterfaceFacts DEF NetTypes
<1>2. \A s : << >> \o s = nlq \o s
  OBVIOUS
<1>3. DONE \in Message(interfaces) /\ Plain("ERROR") \in Message(interfaces)
      /\ DONE.type = "DONE" /\ Plain("ERROR").type = "ERROR"
  BY DEF DONE, Plain, Message, Final
<1>4. ASSUME wifi_hal_get_interface
      PROVE  /\ nlq' \in Seq(Message(interfaces)) /\ cb_err' = 1
             /\ Len(nlq') = Len(interfaces) + 1
             /\ nlq'[Len(interfaces) + 1] = DONE
             /\ \A k \in DOMAIN interfaces :
                  nlq'[k] = [type |-> "IFACE", f |-> interfaces[k]]
             /\ UNCHANGED <<interfaces, tableVars, signal, kernelVars,
                            debugfs_root>>
  <2> DEFINE list == [k \in DOMAIN interfaces |->
                        [type |-> "IFACE", f |-> interfaces[k]]]
  <2>1. \A k \in DOMAIN interfaces :
          [type |-> "IFACE", f |-> interfaces[k]] \in Message(interfaces)
    BY DEF Message, ToSet
  <2>2. list \in Seq(Message(interfaces)) /\ Len(list) = Len(interfaces)
    BY <1>1, <2>1
  <2>3. nlq' = << >> \o (list \o <<DONE>>) /\ cb_err' = 1
    BY <1>4 DEF wifi_hal_get_interface, Sent
  <2>4. \A k \in DOMAIN interfaces :
          list[k] = [type |-> "IFACE", f |-> interfaces[k]]
    OBVIOUS
  <2> HIDE DEF list
  <2>5. /\ list \o <<DONE>> \in Seq(Message(interfaces))
        /\ Len(list \o <<DONE>>) = Len(interfaces) + 1
        /\ (list \o <<DONE>>)[Len(interfaces) + 1] = DONE
        /\ \A k \in 1 .. Len(interfaces) : (list \o <<DONE>>)[k] = list[k]
    BY <1>1, <1>3, <2>2
  <2>6. nlq' = list \o <<DONE>>
    BY <2>3, <2>5
  <2>7. UNCHANGED <<interfaces, tableVars, signal, kernelVars, debugfs_root>>
    BY <1>4 DEF wifi_hal_get_interface
  <2> QED BY <1>1, <2>3, <2>4, <2>5, <2>6, <2>7
<1>5. ASSUME NEW i \in Slots, wifi_hal_get_stainfo(i)
      PROVE  /\ nlq' \in Seq(Message(interfaces)) /\ cb_err' = 1
             /\ \A j \in 1 .. Len(nlq') : /\ nlq'[j].type # "IFACE"
                                          /\ nlq'[j].type \in Final => j = Len(nlq')
             /\ UNCHANGED <<interfaces, tableVars, signal, kernelVars,
                            debugfs_root>>
  <2> DEFINE m == [type |-> "STATION", ifindex |-> ifindex[i],
                   signal |-> SignalOf(ifindex[i])]
             there == \E k \in DOMAIN interfaces :
                        interfaces[k].ifindex = ifindex[i]
  <2>0. m.type = "STATION"
    OBVIOUS
  <2>1. there => m \in Message(interfaces)
    <3> SUFFICES ASSUME there PROVE m \in Message(interfaces)
      OBVIOUS
    <3>1. ifindex[i] \in Nat
      BY InterfaceFacts DEF NetTypes
    <3> QED BY <3>1 DEF Message
  <2>2. /\ \/ there /\ \E s \in {<< >>, <<m>>} : Sent(s \o <<DONE>>)
           \/ ~there /\ Sent(<<Plain("ERROR")>>)
        /\ UNCHANGED <<interfaces, tableVars, signal, kernelVars, debugfs_root>>
    BY <1>5 DEF wifi_hal_get_stainfo
  <2> HIDE DEF m, there
  <2>3. nlq' \in {<<DONE>>, <<m, DONE>>, <<Plain("ERROR")>>} /\ cb_err' = 1
        /\ (nlq' = <<m, DONE>> => there)
    BY <2>2 DEF Sent
  <2>4. CASE nlq' = <<m, DONE>>
    <3>1. m \in Message(interfaces)
      BY <2>1, <2>3, <2>4
    <3>2. Len(nlq') = 2 /\ nlq'[1] = m /\ nlq'[2] = DONE
          /\ nlq' \in Seq(Message(interfaces))
      BY <1>3, <2>4, <3>1
    <3>3. \A j \in 1 .. 2 : j = 1 \/ j = 2
      OBVIOUS
    <3> QED BY <1>3, <2>0, <2>2, <2>3, <3>2, <3>3 DEF Final
  <2>5. ASSUME NEW x \in {DONE, Plain("ERROR")}, nlq' = <<x>>
        PROVE  /\ nlq' \in Seq(Message(interfaces))
               /\ \A j \in 1 .. Len(nlq') : nlq'[j].type # "IFACE" /\ j = Len(nlq')
    <3>1. x \in Message(interfaces) /\ x.type # "IFACE"
      BY <1>3
    <3>2. Len(nlq') = 1 /\ nlq'[1] = x /\ nlq' \in Seq(Message(interfaces))
      BY <2>5, <3>1
    <3> QED BY <3>1, <3>2
  <2> QED BY <2>2, <2>3, <2>4, <2>5
<1> QED BY <1>4, <1>5

(* A setting changes what the kernel has of one phy, or of all, or nothing; *)
(* a file is written for the phy that debugfs_root names.                   *)
Kept(a, S) ==
  \A p \in Phys :
    /\ "power" \notin S => a.power[p] = applied.power[p]
    /\ "coverage" \notin S => a.coverage[p] = applied.coverage[p]
    /\ "bw" \notin S => a.bw[p] = applied.bw[p]

(* The kernel finds the radio's own interface by its name.                  *)
LEMMA IfaceFacts ==
  ASSUME NetTypes, TableKnown, TableSound, at # "closed", NEW i \in Radios
  PROVE  Iface(i).phy = phyname[i]
<1>1. i \in Slots /\ ifname[i] # << >>
  BY DEF Radios, TableKnown
<1>2. PICK k \in DOMAIN interfaces : /\ interfaces[k].name = ifname[i]
                                     /\ interfaces[k].phy = phyname[i]
  BY <1>1 DEF TableSound
<1>3. /\ Named(ifname[i]) \in DOMAIN interfaces
      /\ interfaces[Named(ifname[i])].name = ifname[i]
  BY <1>2 DEF Named
<1>4. Named(ifname[i]) = k
  BY <1>1, <1>2, <1>3, InterfaceFacts DEF NetTypes
<1> QED BY <1>2, <1>4 DEF Iface

(* One setting of a radio.                                                  *)
LEMMA SetFacts ==
  ASSUME NetTypes, HalTypes, QueueKnown, TableKnown, TableSound, SettingsKnown,
         SettingsOwn, Set
  PROVE  /\ UNCHANGED <<interfaces, tableVars, signal, debugfs_root, at, radio,
                        then, monitor, state, eNewEvent, index, events, heard,
                        talk, readable>>
         /\ at = "set" /\ nlq = << >>
         /\ \/ nlq' = << >> /\ cb_err' = 0
            \/ /\ cb_err' = 1
               /\ nlq' = <<Plain("ACK")>> \/ nlq' = <<Plain("ERROR")>>
         /\ applied' \in Applied /\ refused' \in Nat /\ unsent' \in Nat
         /\ refused' + unsent' <= MaxFailures
         /\ SettingsOwn'
<1>1. at = "set" /\ cb_err = 0 /\ nlq = << >> /\ radio \in Radios /\ radio \in Slots
  BY DEF Set, QueueKnown, SettingsKnown, Radios
<1>2. UNCHANGED <<config, at, radio, then, monitor, state, eNewEvent, index,
                 events, heard, talk, readable>>
  BY DEF Set
<1>3. \A s : Sent(s) => nlq' = << >> \o s /\ cb_err' = 1
  BY <1>1 DEF Sent
<1>4. /\ \/ nlq' = << >> /\ cb_err' = 0
         \/ /\ cb_err' = 1
            /\ nlq' = <<Plain("ACK")>> \/ nlq' = <<Plain("ERROR")>>
      /\ refused' \in Nat /\ unsent' \in Nat
      /\ refused' + unsent' <= MaxFailures
      /\ UNCHANGED <<interfaces, tableVars, signal, debugfs_root>>
  <2>0. MaxFailures \in Nat /\ refused \in Nat /\ unsent \in Nat
        /\ refused + unsent <= MaxFailures
    BY NetlinkAssumption DEF NetTypes
  <2>1. ASSUME NEW a, Accepted(a)
        PROVE  /\ cb_err' = 1 /\ nlq' = <<Plain("ACK")>>
               /\ UNCHANGED <<refused, unsent, interfaces, tableVars, signal,
                              debugfs_root>>
    BY <1>3, <2>1 DEF Accepted
  <2>2. CASE Refused
    BY <1>3, <2>0, <2>2 DEF Refused
  <2>3. CASE Unsent
    BY <1>1, <2>0, <2>3 DEF Unsent
  <2>4. CASE wifi_debugfs_write(radio) \/ UNCHANGED nlVars
    BY <1>1, <2>0, <2>4 DEF wifi_debugfs_write
  <2>5. \/ \E a : Accepted(a)
        \/ Refused \/ Unsent \/ wifi_debugfs_write(radio) \/ UNCHANGED nlVars
    BY DEF Set, wifi_hal_set_txpower, wifi_hal_set_distance, wifi_hal_set_country,
       wifi_hal_set_mesh_fwding
  <2> QED BY <2>0, <2>1, <2>2, <2>3, <2>4, <2>5
<1>5. applied' \in Applied /\ SettingsOwn'
  <2>0. applied \in Applied /\ Iface(radio).phy = phyname[radio]
        /\ PhyOf(radio) = phyname[radio] /\ radio \in Setters
    BY <1>1, IfaceFacts DEF NetTypes, PhyOf, Setters
  <2>1. CASE applied' = applied
    BY <1>4, <2>0, <2>1 DEF SettingsOwn
  <2>2. ASSUME NEW a, NEW S, applied' = a, a \in Applied, Kept(a, S),
               "power" \in S => \A q \in Phys :
                 a.power[q] = IF q = phyname[radio] THEN radio ELSE applied.power[q],
               "coverage" \in S => \A q \in Phys :
                 a.coverage[q] = IF q = phyname[radio] THEN radio ELSE applied.coverage[q],
               "bw" \in S => \A q \in Phys :
                 a.bw[q] = IF q = phyname[radio] THEN radio ELSE applied.bw[q]
        PROVE  applied' \in Applied /\ SettingsOwn'
    <3> SUFFICES ASSUME NEW p \in Phys, NEW j \in Slots,
                        j \in {a.power[p], a.coverage[p], a.bw[p]}
                 PROVE  phyname[j] = p
      BY <1>4, <2>2 DEF SettingsOwn
    <3>1. \/ j \in {applied.power[p], applied.coverage[p], applied.bw[p]}
          \/ j = radio /\ p = phyname[radio]
      BY <2>2 DEF Kept
    <3> QED BY <3>1 DEF SettingsOwn
  <2>3. ASSUME NEW a, Accepted(a) PROVE applied' = a
    BY <2>3 DEF Accepted
  <2>4. CASE wifi_hal_set_txpower(radio) /\ applied' # applied
    <3>1. applied' = [applied EXCEPT !.power[Iface(radio).phy] = radio]
      BY <2>3, <2>4 DEF wifi_hal_set_txpower, Refused
    <3>2. /\ applied' \in Applied /\ Kept(applied', {"power"})
          /\ \A q \in Phys : applied'.power[q] =
               IF q = phyname[radio] THEN radio ELSE applied.power[q]
      BY <2>0, <3>1 DEF Applied, Kept
    <3> QED BY <2>2, <3>2
  <2>5. CASE wifi_hal_set_distance(radio) /\ applied' # applied
    <3>1. applied' = [applied EXCEPT !.coverage[PhyOf(radio)] = radio]
      BY <2>3, <2>5 DEF wifi_hal_set_distance, Refused
    <3>2. /\ applied' \in Applied /\ Kept(applied', {"coverage"})
          /\ \A q \in Phys : applied'.coverage[q] =
               IF q = phyname[radio] THEN radio ELSE applied.coverage[q]
      BY <2>0, <3>1 DEF Applied, Kept
    <3> QED BY <2>2, <3>2
  <2>6. CASE wifi_hal_set_country(radio) /\ applied' # applied
    <3>1. applied' = [applied EXCEPT !.country = radio]
      BY <2>3, <2>6 DEF wifi_hal_set_country, Refused
    <3>2. applied' \in Applied /\ Kept(applied', {})
      BY <2>0, <3>1 DEF Applied, Kept
    <3> QED BY <2>2, <3>2
  <2>7. CASE wifi_hal_set_mesh_fwding(radio) /\ applied' # applied
    <3>1. PICK v \in 0 .. 1 : applied' = [applied EXCEPT !.fwding[Iface(radio)] = v]
      BY <2>3, <2>7 DEF wifi_hal_set_mesh_fwding, Refused
    <3>2. applied' \in Applied /\ Kept(applied', {})
      BY <2>0, <3>1 DEF Applied, Kept
    <3> QED BY <2>2, <3>2
  <2>8. CASE wifi_debugfs_write(radio) /\ applied' # applied
    <3>1. debugfs_root[radio] = phyname[radio]
          /\ applied' = [applied EXCEPT !.bw[debugfs_root[radio]] = radio]
      BY <1>1, <2>8 DEF wifi_debugfs_write, SettingsKnown
    <3>2. /\ applied' \in Applied /\ Kept(applied', {"bw"})
          /\ \A q \in Phys : applied'.bw[q] =
               IF q = phyname[radio] THEN radio ELSE applied.bw[q]
      BY <2>0, <3>1 DEF Applied, Kept
    <3> QED BY <2>2, <3>2
  <2>9. CASE Unsent \/ UNCHANGED nlVars
    BY <2>1, <2>9 DEF Unsent
  <2> QED BY <2>1, <2>4, <2>5, <2>6, <2>7, <2>8, <2>9 DEF Set
<1> QED BY <1>1, <1>2, <1>4, <1>5

LEMMA TailFacts ==
  ASSUME NEW S, NEW q \in Seq(S), q # << >>
  PROVE  /\ Len(q) \in Nat \ {0} /\ Head(q) = q[1] /\ Head(q) \in S
         /\ Tail(q) \in Seq(S) /\ Len(Tail(q)) = Len(q) - 1
         /\ \A j \in 1 .. Len(q) - 1 : Tail(q)[j] = q[j + 1]
         /\ Len(q) = 1 => Tail(q) = << >>
<1>1. /\ Len(q) \in Nat \ {0} /\ Head(q) = q[1] /\ Head(q) \in S
      /\ Tail(q) \in Seq(S) /\ Len(Tail(q)) = Len(q) - 1
      /\ \A j \in 1 .. Len(q) - 1 : Tail(q)[j] = q[j + 1]
  OBVIOUS
<1>2. \A t \in Seq(S) : Len(t) = 0 => t = << >>
  OBVIOUS
<1> QED BY <1>1, <1>2

(* The interface f enters the table as a new radio, or does not change it.  *)
Entered(f) ==
  LET i == radio_amount
  IN /\ i \in Slots /\ radio_amount' = i + 1
     /\ ifname' = [x \in Slots |-> IF x = i THEN f.name ELSE ifname[x]]
     /\ ifindex' = [x \in Slots |-> IF x = i THEN f.ifindex ELSE ifindex[x]]
     /\ phyname' = [x \in Slots |-> IF x = i THEN f.phy ELSE phyname[x]]
     /\ \A x \in Slots : ifname[x] # f.name

LEMMA EnterFacts ==
  ASSUME NetTypes, TableKnown, at # "closed", NEW f, f.name \in Seq(STRING),
         f.name # << >>, wifi_hal_ifname_resp_hdlr(f)
  PROVE  Entered(f) \/ (UNCHANGED tableVars /\ Listed(f.name))
<1>0. /\ radio_amount \in Nat /\ NoSlot = -1 /\ Slots \subseteq Nat
      /\ \A i \in Slots : phyname[i] = Default <=> i >= radio_amount
      /\ ifname \in [Slots -> Names]
      /\ ifindex \in [Slots -> {-1} \cup {g.ifindex : g \in Interfaces}]
      /\ phyname \in [Slots -> {Default} \cup Phys]
  BY SlotFacts DEF NetTypes, TableKnown, NoSlot
<1> DEFINE i == SlotFor(f.name)
<1>1. /\ ifname' = [x \in Slots |-> IF x = i THEN f.name ELSE ifname[x]]
      /\ ifindex' = [x \in Slots |-> IF x = i THEN f.ifindex ELSE ifindex[x]]
      /\ phyname' = [x \in Slots |-> IF x = i /\ phyname[x] = Default
                                     THEN f.phy ELSE phyname[x]]
      /\ radio_amount' = radio_amount + IF i # NoSlot /\ phyname[i] = Default THEN 1 ELSE 0
  BY DEF wifi_hal_ifname_resp_hdlr, CountedWith
<1>2. \/ i = NoSlot /\ Listed(f.name)
      \/ /\ i = radio_amount /\ radio_amount \in Slots
         /\ \A x \in Slots : ifname[x] # f.name
  BY SlotForFacts DEF Listed
<1> HIDE DEF i
<1>3. CASE i = NoSlot /\ Listed(f.name)
  <2>1. \A x \in Slots : x # i
    BY <1>0, <1>3
  <2>2. ifname' = ifname
    BY <1>0, <1>1, <2>1
  <2>3. ifindex' = ifindex
    BY <1>0, <1>1, <2>1
  <2>4. phyname' = phyname
    BY <1>0, <1>1, <2>1
  <2>5. radio_amount' = radio_amount
    BY <1>0, <1>1, <1>3
  <2> QED BY <1>3, <2>2, <2>3, <2>4, <2>5
<1>4. CASE /\ i = radio_amount /\ radio_amount \in Slots
           /\ \A x \in Slots : ifname[x] # f.name
  <2>1. phyname[i] = Default /\ i # NoSlot
    BY <1>0, <1>4
  <2>2. radio_amount' = i + 1
    BY <1>0, <1>1, <1>4, <2>1
  <2>3. phyname' = [x \in Slots |-> IF x = i THEN f.phy ELSE phyname[x]]
    BY <1>1, <2>1
  <2> QED BY <1>1, <1>4, <2>2, <2>3 DEF Entered
<1> QED BY <1>2, <1>3, <1>4

(* One message is read.                                                     *)
LEMMA ReceiveFacts ==
  ASSUME NetTypes, QueueKnown, TableKnown, at # "crashed", ~Nameless, nl_recvmsgs
  PROVE  /\ cb_err = 1 /\ nlq # << >> /\ nlq' = Tail(nlq) /\ cb_err' \in {0, 1}
         /\ cb_err' = 0 => nlq' = << >>
         /\ at \in Waiting /\ at # "closed"
         /\ UNCHANGED <<interfaces, kernelVars, debugfs_root>>
         /\ \/ /\ Head(nlq).type = "IFACE" /\ at \in Listings /\ signal' = signal
               /\ \E k \in DOMAIN interfaces :
                    /\ Head(nlq).f = interfaces[k]
                    /\ \/ Entered(interfaces[k]) /\ interfaces[k].name # << >>
                       \/ UNCHANGED tableVars /\ Listed(interfaces[k].name)
            \/ /\ Head(nlq).type # "IFACE" /\ UNCHANGED tableVars
               /\ \A i \in Slots :
                    \/ signal'[i] = signal[i]
                    \/ signal'[i] = SignalOf(ifindex[i]) /\ ifindex[i] # -1
               /\ signal' \in [Slots -> Int]
<1>1. cb_err = 1 /\ nlq # << >> /\ nlq' = Tail(nlq) /\ cb_err' \in {0, 1}
      /\ UNCHANGED <<interfaces, kernelVars, debugfs_root>>
  BY DEF nl_recvmsgs
<1>2. at \in Waiting /\ at # "closed"
  BY <1>1 DEF QueueKnown, Waiting
<1> DEFINE m == Head(nlq)
<1>3. /\ Len(nlq) \in Nat \ {0} /\ m = nlq[1] /\ m \in Message(interfaces)
      /\ Len(nlq) = 1 => Tail(nlq) = << >>
  BY <1>1, TailFacts DEF QueueKnown
<1>4. /\ cb_err' = IF Cleared(m) THEN 0 ELSE 1
      /\ IF m.type = "IFACE" THEN wifi_hal_ifname_resp_hdlr(m.f)
         ELSE UNCHANGED tableVars
      /\ IF m.type = "STATION" THEN wifi_hal_connection_info_hdlr(m)
         ELSE UNCHANGED signal
  BY DEF nl_recvmsgs
<1>5. Nameless <=> m.type = "IFACE" /\ m.f.name = << >>
  BY <1>1 DEF Nameless
<1> HIDE DEF m
<1>6. /\ m.type \in Final => Tail(nlq) = << >>
      /\ m.type = "IFACE" => at \in Listings
  BY <1>3 DEF QueueKnown
<1>7. cb_err' = 0 => nlq' = << >>
  BY <1>1, <1>4, <1>6 DEF Cleared, Final
<1>8. CASE m.type = "IFACE"
  <2>1. PICK k \in DOMAIN interfaces : m.f = interfaces[k]
    BY <1>3, <1>8, MessageFacts DEF ToSet
  <2>2. interfaces[k].name \in Seq(STRING) /\ interfaces[k].name # << >>
    BY <1>5, <1>8, <2>1, InterfaceFacts DEF NetTypes
  <2>3. wifi_hal_ifname_resp_hdlr(interfaces[k]) /\ signal' = signal
    BY <1>4, <1>8, <2>1
  <2>4. \/ Entered(interfaces[k])
        \/ UNCHANGED tableVars /\ Listed(interfaces[k].name)
    BY <1>2, <2>2, <2>3, EnterFacts
  <2> QED BY <1>1, <1>2, <1>6, <1>7, <1>8, <2>1, <2>2, <2>3, <2>4 DEF m
<1>9. CASE m.type # "IFACE"
  <2>1. UNCHANGED tableVars
    BY <1>4, <1>9
  <2>2. CASE m.type = "STATION"
    <3>1. m.ifindex \in Nat /\ m.signal = SignalOf(m.ifindex) /\ m.signal \in Int
      BY <1>3, <2>2, MessageFacts DEF SignalOf
    <3>2. signal' = [i \in Slots |-> IF i < radio_amount /\ ifindex[i] = m.ifindex
                                     THEN m.signal ELSE signal[i]]
      BY <1>4, <2>2 DEF wifi_hal_connection_info_hdlr
    <3>3. signal' \in [Slots -> Int]
      BY <3>1, <3>2 DEF NetTypes
    <3>4. ASSUME NEW i \in Slots
          PROVE  \/ signal'[i] = signal[i]
                 \/ signal'[i] = SignalOf(ifindex[i]) /\ ifindex[i] # -1
      BY <3>1, <3>2
    <3> QED BY <1>1, <1>2, <1>7, <1>9, <2>1, <3>3, <3>4 DEF m
  <2>3. CASE m.type # "STATION"
    <3>1. signal' = signal
      BY <1>4, <2>3
    <3> QED BY <1>1, <1>2, <1>7, <1>9, <2>1, <3>1 DEF m, NetTypes
  <2> QED BY <2>2, <2>3
<1> QED BY <1>8, <1>9

(* Where the HAL goes, in one step of each kind.                            *)
Closing == /\ at = "close" /\ at' = "closed"
           /\ monitor' = [i \in Slots |-> IF i \in Radios THEN "freed" ELSE monitor[i]]
           /\ ifname' = [i \in Slots |-> IF i \in Radios THEN << >> ELSE ifname[i]]
           /\ ifindex' = [i \in Slots |-> IF i \in Radios THEN -1 ELSE ifindex[i]]
           /\ UNCHANGED <<interfaces, phyname, radio_amount, signal, nlq, cb_err,
                          kernelVars, debugfs_root>>

(* What a step does to the netlink socket and the table.                    *)
LEMMA NetlinkSteps ==
  ASSUME Next
  PROVE  /\ Running
         /\ \/ UNCHANGED nlVars
            \/ at = "open" /\ at' = "dump" /\ wifi_hal_get_interface
            \/ /\ at = "opened" /\ at' = "reading" /\ prog = "radio_hal_daemon"
               /\ wifi_hal_get_interface
            \/ /\ at = "reading" /\ at' = "read" /\ cb_err = 0
               /\ wifi_hal_get_stainfo(test.index)
            \/ ~Nameless /\ nl_recvmsgs /\ UNCHANGED halVars
            \/ Set
            \/ Closing
            \/ init_handler
<1>1. CASE radio_manager
  BY <1>1 DEF radio_manager, OptionWifi, ReadConfig, GiveUp, CreateThread,
     OptionModem, OptionOther, OptionHelp, Join, Option, Step, Exit
<1>2. CASE radio_hal_daemon
  BY <1>2 DEF radio_hal_daemon, TestOpen, TestCall, wifi_hal_get_rssi, TestEnds,
     InTest, Step, Exit, Goto
<1>3. CASE WifiStep
  BY <1>3 DEF WifiStep, wifi_hal_attach, wifi_hal_open, Receive,
     wifi_hal_wpa_attach, SetDone, wifi_events, wifi_hal_close, EventsStart,
     NextRadio, wifi_hal_wait_on_event, NoRow, init_stage_2_handler,
     terminate_handler, Goto, Closing
<1>4. CASE Supplicants
  BY <1>4 DEF Supplicants, Event
<1> QED BY <1>1, <1>2, <1>3, <1>4 DEF Next

LEMMA NetTypesStep ==
  ASSUME NetTypes, HalTypes, MainTypes, QueueKnown, TableKnown, TableSound,
         SettingsKnown, SettingsOwn, [Next]_vars
  PROVE  NetTypes'
<1>0. at # "crashed" \/ UNCHANGED vars
  BY NetlinkSteps DEF Running
<1>1. CASE UNCHANGED nlVars
  BY <1>1 DEF NetTypes
<1>2. CASE (at = "open" \/ at = "opened") /\ wifi_hal_get_interface
  BY <1>2 DEF wifi_hal_get_interface, Sent, NetTypes
<1>3. CASE wifi_hal_get_stainfo(test.index)
  BY <1>3 DEF wifi_hal_get_stainfo, Sent, NetTypes
<1>4. CASE ~Nameless /\ nl_recvmsgs /\ at # "crashed"
  <2>1. /\ cb_err' \in {0, 1} /\ UNCHANGED <<interfaces, kernelVars, debugfs_root>>
        /\ signal' \in [Slots -> Int]
    BY <1>4, ReceiveFacts DEF NetTypes
  <2>2. CASE UNCHANGED tableVars
    BY <2>1, <2>2 DEF NetTypes
  <2>3. ASSUME NEW k \in DOMAIN interfaces, Entered(interfaces[k])
        PROVE  NetTypes'
    <3>1. /\ interfaces[k] \in Interfaces /\ interfaces[k].phy \in Phys
      BY InterfaceFacts DEF NetTypes
    <3>2. /\ interfaces[k].name \in Names
          /\ interfaces[k].ifindex \in {-1} \cup {f.ifindex : f \in Interfaces}
      BY <3>1 DEF Names
    <3>3. radio_amount' \in 0 .. WIFI_RADIO_MAX
      BY <2>3, SlotFacts DEF Entered
    <3>4. ifname' \in [Slots -> Names]
      BY <2>3, <3>2 DEF Entered, NetTypes
    <3>5. ifindex' \in [Slots -> {-1} \cup {f.ifindex : f \in Interfaces}]
      BY <2>3, <3>2 DEF Entered, NetTypes
    <3>6. phyname' \in [Slots -> {Default} \cup Phys]
      BY <2>3, <3>1 DEF Entered, NetTypes
    <3> QED BY <2>1, <3>3, <3>4, <3>5, <3>6 DEF NetTypes
  <2> QED BY <1>4, <2>2, <2>3, ReceiveFacts
<1>5. CASE Set
  BY <1>5, SetFacts DEF NetTypes
<1>6. CASE Closing
  <2>1. ifname' \in [Slots -> Names]
    BY <1>6 DEF Closing, NetTypes, Names
  <2>2. ifindex' \in [Slots -> {-1} \cup {f.ifindex : f \in Interfaces}]
    BY <1>6 DEF Closing, NetTypes
  <2> QED BY <1>6, <2>1, <2>2 DEF Closing, NetTypes
<1>7. CASE init_handler
  BY <1>7 DEF init_handler, NetTypes
<1>8. CASE UNCHANGED vars
  BY <1>1, <1>8
<1> QED BY <1>0, <1>1, <1>2, <1>3, <1>4, <1>5, <1>6, <1>7, <1>8, NetlinkSteps

LEMMA QueueKnownStep ==
  ASSUME NetTypes, HalTypes, MainTypes, QueueKnown, TableKnown, TableSound,
         SettingsKnown, SettingsOwn, [Next]_vars
  PROVE  QueueKnown'
<1>0. at # "crashed" \/ UNCHANGED vars
  BY NetlinkSteps DEF Running
<1>1. CASE UNCHANGED vars
  BY <1>1 DEF QueueKnown
<1>2. CASE /\ \/ at = "open" /\ at' = "dump"
              \/ at = "opened" /\ at' = "reading"
           /\ wifi_hal_get_interface
  <2>1. nlq = << >>
    BY <1>2 DEF QueueKnown, Waiting, NetTypes
  <2>2. /\ nlq' \in Seq(Message(interfaces)) /\ cb_err' = 1
        /\ Len(nlq') = Len(interfaces) + 1
        /\ nlq'[Len(interfaces) + 1] = DONE
        /\ \A k \in DOMAIN interfaces :
             nlq'[k] = [type |-> "IFACE", f |-> interfaces[k]]
        /\ interfaces' = interfaces
    BY <1>2, <2>1, RequestFacts
  <2>3. Len(interfaces) \in Nat /\ DOMAIN interfaces = 1 .. Len(interfaces)
    BY InterfaceFacts DEF NetTypes
  <2>4. at' \in Listings /\ at' \in Waiting
    BY <1>2 DEF Listings, Waiting
  <2>5. ASSUME NEW j \in 1 .. Len(nlq'), nlq'[j].type \in Final
        PROVE  j = Len(nlq')
    <3>1. CASE j \in DOMAIN interfaces
      <4>1. \A x : [type |-> "IFACE", f |-> x].type = "IFACE"
        OBVIOUS
      <4>2. nlq'[j] = [type |-> "IFACE", f |-> interfaces[j]]
        BY <2>2, <3>1
      <4>3. nlq'[j].type = "IFACE"
        BY <4>1, <4>2, Zenon
      <4> QED BY <2>5, <4>3 DEF Final
    <3> QED BY <2>2, <2>3, <3>1
  <2> QED BY <2>2, <2>4, <2>5 DEF QueueKnown
<1>3. CASE /\ at = "reading" /\ at' = "read" /\ cb_err = 0
           /\ wifi_hal_get_stainfo(test.index)
  <2>1. nlq = << >> /\ test.index \in Slots
    BY <1>3 DEF QueueKnown, MainTypes
  <2>2. /\ nlq' \in Seq(Message(interfaces)) /\ cb_err' = 1
        /\ \A j \in 1 .. Len(nlq') : /\ nlq'[j].type # "IFACE"
                                     /\ nlq'[j].type \in Final => j = Len(nlq')
        /\ interfaces' = interfaces
    BY <1>3, <2>1, RequestFacts
  <2> QED BY <1>3, <2>2 DEF QueueKnown, Waiting
<1>4. CASE ~Nameless /\ nl_recvmsgs /\ UNCHANGED halVars /\ at # "crashed"
  <2>1. /\ cb_err = 1 /\ nlq # << >> /\ nlq' = Tail(nlq) /\ cb_err' \in {0, 1}
        /\ cb_err' = 0 => nlq' = << >>
        /\ at \in Waiting /\ interfaces' = interfaces
    BY <1>4, ReceiveFacts
  <2>2. /\ nlq' \in Seq(Message(interfaces)) /\ Len(nlq') = Len(nlq) - 1
        /\ Len(nlq) \in Nat
        /\ \A j \in 1 .. Len(nlq) - 1 : nlq'[j] = nlq[j + 1]
    BY <2>1, TailFacts DEF QueueKnown
  <2>3. ASSUME NEW j \in 1 .. Len(nlq')
        PROVE  /\ nlq'[j].type \in Final => j = Len(nlq')
               /\ nlq'[j].type = "IFACE" => at \in Listings
    <3>1. nlq'[j] = nlq[j + 1] /\ j + 1 \in 1 .. Len(nlq)
      BY <2>2
    <3> QED BY <2>2, <3>1 DEF QueueKnown
  <2> QED BY <1>4, <2>1, <2>2, <2>3 DEF QueueKnown
<1>5. CASE Set
  <2>1. /\ UNCHANGED <<interfaces, at>> /\ at = "set"
        /\ \/ nlq' = << >> /\ cb_err' = 0
           \/ /\ cb_err' = 1
              /\ nlq' = <<Plain("ACK")>> \/ nlq' = <<Plain("ERROR")>>
    BY <1>5, SetFacts
  <2>2. CASE nlq' = << >> /\ cb_err' = 0
    BY <2>1, <2>2 DEF QueueKnown
  <2>3. ASSUME NEW t \in {"ACK", "ERROR"}, nlq' = <<Plain(t)>>, cb_err' = 1
        PROVE  QueueKnown'
    <3>1. Plain(t) \in Message(interfaces) /\ Plain(t).type = t
      BY DEF Message, Plain, Final
    <3>2. /\ nlq' \in Seq(Message(interfaces)) /\ Len(nlq') = 1
          /\ nlq'[1].type = t
      BY <2>3, <3>1
    <3> QED BY <2>1, <2>3, <3>2 DEF QueueKnown, Waiting
  <2> QED BY <2>1, <2>2, <2>3
<1>6. CASE UNCHANGED <<interfaces, nlq, cb_err>> /\ (cb_err = 0 \/ at' \in {at, "crashed"})
  <2>1. nlq # << >> => cb_err = 1
    BY DEF QueueKnown, NetTypes
  <2>2. at' \in {at, "crashed"} => (at \in Waiting => at' \in Waiting)
                                /\ (at \in Listings => at' \in Listings)
    BY DEF Waiting, Listings
  <2> QED BY <1>6, <2>1, <2>2 DEF QueueKnown
<1>7. cb_err = 0 \/ at \in Waiting
  BY DEF QueueKnown, NetTypes
<1>8. CASE Closing \/ init_handler
  <2>1. cb_err = 0
    BY <1>7, <1>8 DEF Closing, init_handler, Waiting
  <2> QED BY <1>6, <1>8, <2>1 DEF Closing, init_handler
<1>9. CASE Next /\ UNCHANGED nlVars /\ at # "crashed"
  <2>1. cb_err = 0 \/ at' \in {at, "crashed"}
    <3> SUFFICES ASSUME cb_err # 0 PROVE at' \in {at, "crashed"}
      OBVIOUS
    <3>0. at \in {"dump", "reading", "read", "set"}
      BY <1>7, <1>9 DEF Waiting
    <3>1. CASE radio_manager
      BY <3>0, <3>1 DEF radio_manager, OptionWifi, ReadConfig, GiveUp, CreateThread,
         OptionModem, OptionOther, OptionHelp, Join, Option, Step, Exit, Goto
    <3>2. CASE radio_hal_daemon
      BY <3>0, <3>2 DEF radio_hal_daemon, TestOpen, TestCall, wifi_hal_get_rssi,
         TestEnds, InTest, Step, Exit, Goto
    <3>3. CASE WifiStep
      BY <3>0, <3>3 DEF WifiStep, wifi_hal_attach, wifi_hal_open, Receive,
         wifi_hal_wpa_attach, Set, SetDone, wifi_events, wifi_hal_close,
         EventsStart, NextRadio, wifi_hal_wait_on_event, NoRow, init_handler,
         init_stage_2_handler, terminate_handler, Goto
    <3>4. CASE Supplicants
      BY <3>4 DEF Supplicants, Event
    <3> QED BY <1>9, <3>1, <3>2, <3>3, <3>4 DEF Next
  <2> QED BY <1>6, <1>9, <2>1
<1> QED BY <1>0, <1>1, <1>2, <1>3, <1>4, <1>5, <1>8, <1>9, NetlinkSteps

-----------------------------------------------------------------------------
(***************************************************************************)
(* The table.                                                              *)
(***************************************************************************)
(* A step enters one interface, closes, or leaves the table alone.          *)
LEMMA TableSteps ==
  ASSUME NetTypes, HalTypes, MainTypes, QueueKnown, TableKnown, TableSound,
         SettingsKnown, SettingsOwn, [Next]_vars
  PROVE  /\ interfaces' = interfaces
         /\ \/ /\ at \in Listings \ {"crashed"} /\ at' = at
               /\ \E k \in DOMAIN interfaces :
                    Entered(interfaces[k]) /\ interfaces[k].name # << >>
               /\ UNCHANGED <<signal, halVars>>
            \/ Closing
            \/ UNCHANGED tableVars
<1>0. at # "crashed" \/ UNCHANGED vars
  BY NetlinkSteps DEF Running
<1>1. CASE UNCHANGED nlVars \/ UNCHANGED vars
  BY <1>1
<1>2. CASE wifi_hal_get_interface \/ wifi_hal_get_stainfo(test.index)
  BY <1>2 DEF wifi_hal_get_interface, wifi_hal_get_stainfo
<1>3. CASE ~Nameless /\ nl_recvmsgs /\ UNCHANGED halVars /\ at # "crashed"
  BY <1>3, ReceiveFacts
<1>4. CASE Set
  BY <1>4, SetFacts
<1>5. CASE Closing \/ init_handler
  BY <1>5 DEF Closing, init_handler
<1> QED BY <1>0, <1>1, <1>2, <1>3, <1>4, <1>5, NetlinkSteps

LEMMA TableSoundStep ==
  ASSUME NetTypes, HalTypes, MainTypes, QueueKnown, TableKnown, TableSound,
         SettingsKnown, SettingsOwn, [Next]_vars
  PROVE  TableSound'
<1>1. CASE UNCHANGED tableVars
  BY <1>1, TableSteps DEF TableSound
<1>2. CASE Closing
  <2>1. ASSUME NEW i \in Slots, ifname'[i] # << >>
        PROVE  ifname'[i] = ifname[i] /\ ifindex'[i] = ifindex[i]
               /\ \A j \in Slots : ifname'[j] = ifname'[i] => ifname[j] = ifname[i]
    BY <1>2, <2>1 DEF Closing
  <2> QED BY <1>2, <2>1 DEF Closing, TableSound
<1>3. ASSUME NEW k \in DOMAIN interfaces, Entered(interfaces[k]),
             interfaces[k].name # << >>
      PROVE  TableSound'
  <2>1. ASSUME NEW i \in Slots, ifname'[i] # << >>
        PROVE  \E h \in DOMAIN interfaces :
                 /\ interfaces[h].name = ifname'[i]
                 /\ interfaces[h].ifindex = ifindex'[i]
                 /\ interfaces[h].phy = phyname'[i]
    <3>1. CASE i = radio_amount
      BY <1>3, <3>1 DEF Entered
    <3>2. CASE i # radio_amount
      BY <1>3, <2>1, <3>2 DEF Entered, TableSound
    <3> QED BY <3>1, <3>2
  <2>2. ASSUME NEW i \in Slots, ifname'[i] # << >>, NEW j \in Slots,
               ifname'[j] = ifname'[i]
        PROVE  j = i
    BY <1>3, <2>2 DEF Entered, TableSound
  <2> QED BY <2>1, <2>2, TableSteps DEF TableSound
<1> QED BY <1>1, <1>2, <1>3, TableSteps

LEMMA TableKnownStep ==
  ASSUME NetTypes, HalTypes, MainTypes, QueueKnown, TableKnown, TableSound,
         SettingsKnown, SettingsOwn, [Next]_vars
  PROVE  TableKnown'
<1>0. at # "closed" \/ at' = "closed"
  <2>1. CASE radio_manager
    BY <2>1 DEF radio_manager, OptionWifi, ReadConfig, GiveUp, CreateThread,
       OptionModem, OptionOther, OptionHelp, Join, Option, Step, Exit, Goto
  <2>2. CASE radio_hal_daemon
    BY <2>2 DEF radio_hal_daemon, TestOpen, TestCall, wifi_hal_get_rssi,
       TestEnds, InTest, Step, Exit, Goto
  <2>3. CASE WifiStep
    <3>1. cb_err = 1 \/ nlq # << >> => at # "closed"
      BY DEF QueueKnown, Waiting, NetTypes
    <3> QED BY <2>3, <3>1 DEF WifiStep, wifi_hal_attach, wifi_hal_open, Receive, Nameless,
         wifi_hal_wpa_attach, Set, SetDone, wifi_events, wifi_hal_close,
         EventsStart, NextRadio, wifi_hal_wait_on_event, NoRow, init_handler,
         init_stage_2_handler, terminate_handler, Goto
  <2>4. CASE Supplicants
    BY <2>4 DEF Supplicants, Event
  <2> QED BY <2>1, <2>2, <2>3, <2>4 DEF Next
<1>1. CASE UNCHANGED <<tableVars, signal>>
  BY <1>0, <1>1 DEF TableKnown
<1>2. CASE Closing
  BY <1>2 DEF Closing, TableKnown
<1>3. ASSUME NEW k \in DOMAIN interfaces, Entered(interfaces[k]),
             interfaces[k].name # << >>, UNCHANGED signal, at \in Listings
      PROVE  TableKnown'
  <2>1. interfaces[k].ifindex \in Nat /\ interfaces[k].phy \in Nat
    BY InterfaceFacts DEF NetTypes
  <2>2. Default = -1 /\ Slots \subseteq Nat /\ radio_amount \in Nat
    BY SlotFacts DEF NetTypes
  <2>3. at # "closed"
    BY <1>3 DEF Listings
  <2> SUFFICES ASSUME NEW i \in Slots
               PROVE  /\ i < radio_amount' => ifname'[i] # << >> /\ ifindex'[i] # -1
                                              /\ phyname'[i] # Default
                      /\ i >= radio_amount' => ifname'[i] = << >> /\ ifindex'[i] = -1
                                               /\ phyname'[i] = Default /\ signal'[i] = 0
    BY DEF TableKnown
  <2>4. CASE i = radio_amount
    BY <1>3, <2>1, <2>2, <2>4 DEF Entered
  <2>5. CASE i # radio_amount
    <3>1. radio_amount' = radio_amount + 1 /\ ifname'[i] = ifname[i]
          /\ ifindex'[i] = ifindex[i] /\ phyname'[i] = phyname[i]
      BY <1>3, <2>5 DEF Entered
    <3>2. (i < radio_amount' <=> i < radio_amount) /\ (i >= radio_amount' => i >= radio_amount)
      BY <2>2, <2>5, <3>1
    <3> QED BY <1>3, <2>3, <3>1, <3>2 DEF TableKnown
  <2> QED BY <2>4, <2>5
<1>4. CASE UNCHANGED tableVars /\ signal' # signal
  <2>0. at # "crashed"
    BY <1>4, NetlinkSteps DEF Running
  <2>1. ~Nameless /\ nl_recvmsgs /\ UNCHANGED halVars
    BY <1>4, NetlinkSteps, SetFacts DEF wifi_hal_get_interface, wifi_hal_get_stainfo,
       Closing, init_handler
  <2>2. \A i \in Slots : signal'[i] = signal[i] \/ ifindex[i] # -1
    BY <1>4, <2>0, <2>1, ReceiveFacts
  <2>3. at # "closed"
    BY <2>0, <2>1, ReceiveFacts
  <2> QED BY <1>4, <2>2, <2>3 DEF TableKnown
<1> QED BY <1>1, <1>2, <1>3, <1>4, TableSteps

(* A set of natural numbers has a least one.                                *)
LEMMA LeastElement ==
  ASSUME NEW T \in SUBSET Nat, T # {}
  PROVE  \E n \in T : \A j \in T : n <= j
<1> DEFINE R == OpToRel(<, Nat)
<1>1. IsWellFoundedOn(R, Nat)
  BY NatLessThanWellFounded
<1>2. \A x, y \in Nat : y < x => <<y, x>> \in R
  BY DEF OpToRel
<1> HIDE DEF R
<1>3. PICK x \in T : \A y \in T : ~(<<y, x>> \in R)
  BY <1>1, WFMin
<1>4. ASSUME NEW j \in T PROVE x <= j
  <2>1. x \in Nat /\ j \in Nat
    OBVIOUS
  <2>2. ~(j < x)
    BY <1>2, <1>3, <2>1
  <2> QED BY <2>1, <2>2
<1> QED BY <1>4

(* The loop takes an event from the monitor of the radio it is for, or      *)
(* gives the last radio the end of its supplicant.                          *)
LEMMA WaitFacts ==
  ASSUME NetTypes, HalTypes, wifi_hal_wait_on_event
  PROVE  /\ at = "wait"
         /\ UNCHANGED <<nlVars, config, radio, plan, then, monitor, state, heard,
                        talk, readable>>
         /\ \/ /\ index \in Slots /\ (Blind \/ readable) /\ at' = "handle"
               /\ eNewEvent' = [eNewEvent EXCEPT ![index] = "TERMINATE_EVENT"]
               /\ UNCHANGED <<index, events>>
            \/ /\ at' \in {"wait", "crashed"} /\ UNCHANGED <<eNewEvent, index, events>>
            \/ \E i \in Slots :
                 /\ events[i] # << >> /\ index' = i /\ at' = "handle"
                 /\ eNewEvent' = [eNewEvent EXCEPT ![i] =
                      wifi_hal_map_wpa_event_to_state[Head(events[i])]]
                 /\ events' = [events EXCEPT ![i] = Tail(@)]
<1> DEFINE pending == {i \in Radios : wpa_ctrl_pending(i)}
           first == CHOOSE i \in pending : \A j \in pending : i <= j
           woken == readable \/ \E i \in Polled : events[i] # << >>
<1>1. \/ /\ index # -1 /\ (Blind \/ (woken /\ pending = {}))
         /\ eNewEvent' = [eNewEvent EXCEPT ![index] = "TERMINATE_EVENT"]
         /\ at' = "handle" /\ UNCHANGED <<index, events>>
      \/ /\ index = -1 /\ at' \in {"wait", "crashed"}
         /\ UNCHANGED <<eNewEvent, index, events>>
      \/ /\ pending # {} /\ index' = first
         /\ eNewEvent' = [eNewEvent EXCEPT ![index'] =
              wifi_hal_map_wpa_event_to_state[Head(events[first])]]
         /\ events' = [events EXCEPT ![first] = Tail(@)]
         /\ at' = "handle"
  BY DEF wifi_hal_wait_on_event, IndexAfter, wpa_ctrl_recv
<1>2. at = "wait"
      /\ UNCHANGED <<nlVars, config, radio, plan, then, monitor, state, heard,
                     talk, readable>>
  BY DEF wifi_hal_wait_on_event
<1>3. woken /\ pending = {} => readable
  BY DEF Polled, wpa_ctrl_pending
<1>4. pending # {} => first \in pending
  <2> SUFFICES ASSUME pending # {} PROVE first \in pending
    OBVIOUS
  <2>1. pending \in SUBSET Nat
    BY SlotFacts DEF Radios
  <2>2. PICK n \in pending : \A j \in pending : n <= j
    <3> HIDE DEF pending
    <3> QED BY <2>1, LeastElement
  <2> QED BY <2>2
<1>5. pending # {} => first \in Slots /\ events[first] # << >>
  BY <1>4 DEF Radios, wpa_ctrl_pending
<1> HIDE DEF pending, first, woken
<1>6. CASE /\ pending # {} /\ index' = first
           /\ eNewEvent' = [eNewEvent EXCEPT ![index'] =
                wifi_hal_map_wpa_event_to_state[Head(events[first])]]
           /\ events' = [events EXCEPT ![first] = Tail(@)]
           /\ at' = "handle"
  <2>1. eNewEvent' = [eNewEvent EXCEPT ![first] =
                wifi_hal_map_wpa_event_to_state[Head(events[first])]]
    BY <1>6
  <2> QED BY <1>2, <1>5, <1>6, <2>1
<1>7. index # -1 => index \in Slots
  BY DEF HalTypes
<1>8. CASE /\ index # -1 /\ (Blind \/ (woken /\ pending = {}))
           /\ eNewEvent' = [eNewEvent EXCEPT ![index] = "TERMINATE_EVENT"]
           /\ at' = "handle" /\ UNCHANGED <<index, events>>
  BY <1>2, <1>3, <1>7, <1>8
<1>9. CASE /\ index = -1 /\ at' \in {"wait", "crashed"}
           /\ UNCHANGED <<eNewEvent, index, events>>
  BY <1>2, <1>9
<1> QED BY <1>1, <1>6, <1>8, <1>9

(* The places the HAL can go to, by the program that moves it.              *)
Moves ==
  \/ /\ at' = at
     /\ at \in {"set", "handle"} => UNCHANGED <<radio, index, then>>
  \/ at' = "crashed"
  \/ at = "off" /\ at' = "attach"
  \/ at = "attach" /\ at' \in {"attached", "nullptr"}
  \/ at = "attached" /\ at' = "open"
  \/ at = "open" /\ at' = "failed"
  \/ at = "open" /\ at' = "dump" /\ wifi_hal_get_interface /\ radio' = 0
  \/ at = "dump" /\ at' = "failed"
  \/ /\ at = "dump" /\ at' = "opened" /\ cb_err = 0 /\ radio \notin Radios
     /\ UNCHANGED <<nlVars, monitor>>
  \/ at = "failed" /\ at' = "opened" /\ prog = "radio_hal_daemon"
  \/ at = "opened" /\ at' \in {"thread", "lost"} /\ prog = "radio_manager"
  \/ at = "opened" /\ at' \in {"reading", "close"} /\ prog = "radio_hal_daemon"
  \/ /\ at = "opened" /\ at' = "set" /\ prog = "radio_hal_daemon"
     /\ radio' = test.index /\ monitor[test.index] = "open" /\ then' = "close"
  \/ at = "reading" /\ at' = "read"
  \/ at = "read" /\ at' = "close" /\ prog = "radio_hal_daemon"
  \/ Closing
  \/ at = "thread" /\ at' = "init"
  \/ at = "init" /\ at' = "handle" /\ index' \in Slots
  \/ at = "init" /\ at' = "wait"
  \/ at = "wait" /\ at' = "handle" /\ index' \in Slots
  \/ at = "handle" /\ at' \in {"init", "wait", "close"}
  \/ /\ at = "handle" /\ at' = "set" /\ radio' = index
     /\ state[index] \in {"INIT_STATE", "IF_INIT_STAGE_1"}
     /\ then' \in {"init", "wait"}
  \/ at = "set" /\ at' = then

LEMMA ProgramKept == ASSUME [Next]_vars PROVE UNCHANGED <<prog, test>>
BY DEF Next, radio_manager, OptionWifi, ReadConfig, GiveUp, CreateThread,
   OptionModem, OptionOther, OptionHelp, Join, Option, Step, Exit,
   radio_hal_daemon, TestOpen, TestCall, wifi_hal_get_rssi, TestEnds, InTest,
   WifiStep, Supplicants

LEMMA MovesStep ==
  ASSUME NetTypes, HalTypes, [Next]_vars
  PROVE  Moves
<1>1. CASE radio_manager
  BY <1>1 DEF radio_manager, OptionWifi, ReadConfig, GiveUp, CreateThread,
     OptionModem, OptionOther, OptionHelp, Join, Option, Step, Exit, Goto, Moves
<1>2. CASE radio_hal_daemon
  BY <1>2 DEF radio_hal_daemon, TestOpen, TestCall, wifi_hal_get_rssi,
     TestEnds, InTest, Step, Exit, Goto, Moves, Configure
<1>3. CASE wifi_hal_attach \/ wifi_hal_open \/ Receive \/ Set \/ SetDone
  BY <1>3 DEF wifi_hal_attach, wifi_hal_open, Receive, Set, SetDone, Goto, Moves
<1>4. CASE wifi_hal_wpa_attach \/ wifi_hal_close
  BY <1>4 DEF wifi_hal_wpa_attach, wifi_hal_close, Goto, Closing, Moves
<1>5. CASE EventsStart \/ NextRadio \/ NoRow \/ terminate_handler
  BY <1>5 DEF EventsStart, NextRadio, NoRow, terminate_handler, Goto, Moves
<1>6. CASE init_handler
  BY <1>6 DEF init_handler, Configure, Starts, Moves
<1>7. CASE init_stage_2_handler
  BY <1>7 DEF init_stage_2_handler, GroupStarted, Moves
<1>8. CASE wifi_hal_wait_on_event
  BY <1>8, WaitFacts DEF Moves
<1>9. CASE Supplicants
  BY <1>9 DEF Supplicants, Event, Moves
<1> QED BY <1>1, <1>2, <1>3, <1>4, <1>5, <1>6, <1>7, <1>8, <1>9
        DEF Next, WifiStep, wifi_events, Moves

LEMMA ReadingsStep ==
  ASSUME NetTypes, HalTypes, MainTypes, QueueKnown, TableKnown, TableSound,
         SettingsKnown, SettingsOwn, ReadingsOwn, [Next]_vars
  PROVE  ReadingsOwn'
<1>1. CASE UNCHANGED <<tableVars, signal>>
  BY <1>1 DEF ReadingsOwn
<1>2. CASE Closing
  BY <1>2 DEF Closing, ReadingsOwn
<1>3. ASSUME NEW k \in DOMAIN interfaces, Entered(interfaces[k]), UNCHANGED signal,
             at \in Listings
      PROVE  ReadingsOwn'
  <2>1. at # "closed" /\ radio_amount \in Nat
    BY <1>3 DEF Listings, NetTypes
  <2>2. signal[radio_amount] = 0
    BY <1>3, <2>1 DEF TableKnown, Entered
  <2> QED BY <1>3, <2>2 DEF ReadingsOwn, Entered
<1>4. CASE UNCHANGED tableVars /\ signal' # signal
  <2>0. at # "crashed"
    BY <1>4, NetlinkSteps DEF Running
  <2>1. ~Nameless /\ nl_recvmsgs /\ UNCHANGED halVars
    BY <1>4, NetlinkSteps, SetFacts DEF wifi_hal_get_interface, wifi_hal_get_stainfo,
       Closing, init_handler
  <2>2. \A i \in Slots :
          \/ signal'[i] = signal[i]
          \/ signal'[i] = SignalOf(ifindex[i]) /\ ifindex[i] # -1
    BY <1>4, <2>0, <2>1, ReceiveFacts
  <2> QED BY <1>4, <2>2 DEF ReadingsOwn
<1> QED BY <1>1, <1>2, <1>3, <1>4, TableSteps

(* What is listed stays listed while the table only grows.                  *)
LEMMA ListedKept ==
  ASSUME NetTypes, TableKnown, at # "closed", NEW n, Listed(n),
         UNCHANGED tableVars \/ \E k \in DOMAIN interfaces : Entered(interfaces[k])
  PROVE  Listed(n)'
<1>1. CASE UNCHANGED tableVars
  BY <1>1 DEF Listed, Radios
<1>2. ASSUME NEW k \in DOMAIN interfaces, Entered(interfaces[k])
      PROVE  Listed(n)'
  <2>1. radio_amount \in Slots /\ radio_amount' = radio_amount + 1
        /\ radio_amount \in Nat /\ Slots \subseteq Nat
        /\ radio_amount # WIFI_RADIO_MAX
    BY <1>2, SlotFacts DEF Entered
  <2>2. PICK i \in Radios : IsPrefix(n, ifname[i])
    BY <2>1 DEF Listed
  <2>3. i \in Radios' /\ ifname'[i] = ifname[i]
    BY <1>2, <2>1 DEF Radios, Entered
  <2> QED BY <2>2, <2>3 DEF Listed
<1> QED BY <1>1, <1>2

(* An interface that enters the table is listed.                            *)
LEMMA EnteredListed ==
  ASSUME NetTypes, NEW k \in DOMAIN interfaces, Entered(interfaces[k]),
         NEW n, n = interfaces[k].name
  PROVE  Listed(n)'
<1>1. n \in Seq(STRING)
  BY InterfaceFacts DEF NetTypes
<1>2. radio_amount \in Slots /\ radio_amount' = radio_amount + 1 /\ Slots \subseteq Nat
      /\ ifname'[radio_amount] = n
  BY SlotFacts DEF Entered
<1>3. radio_amount \in Radios'
  BY <1>2 DEF Radios
<1> QED BY <1>1, <1>2, <1>3, PrefixFacts DEF Listed

LEMMA NothingLostStep ==
  ASSUME NetTypes, HalTypes, MainTypes, QueueKnown, TableKnown, TableSound,
         NothingLost, SettingsKnown, SettingsOwn, MonitorsKnown, [Next]_vars
  PROVE  NothingLost'
<1>0. interfaces' = interfaces /\ UNCHANGED <<prog, test>>
  BY TableSteps, ProgramKept
<1>1. CASE at = "open" /\ at' = "dump" /\ wifi_hal_get_interface
  <2>1. nlq = << >>
    BY <1>1 DEF QueueKnown, Waiting, NetTypes
  <2>2. /\ Len(nlq') = Len(interfaces) + 1
        /\ \A k \in DOMAIN interfaces :
             nlq'[k] = [type |-> "IFACE", f |-> interfaces[k]]
    BY <1>1, <2>1, RequestFacts
  <2>3. Len(interfaces) \in Nat /\ DOMAIN interfaces = 1 .. Len(interfaces)
    BY InterfaceFacts DEF NetTypes
  <2>4. \A x : /\ [type |-> "IFACE", f |-> x].type = "IFACE"
               /\ [type |-> "IFACE", f |-> x].f = x
    OBVIOUS
  <2>5. ASSUME NEW k \in DOMAIN interfaces
        PROVE  k \in 1 .. Len(nlq') /\ nlq'[k].type = "IFACE" /\ nlq'[k].f = interfaces[k]
    <3>1. nlq'[k] = [type |-> "IFACE", f |-> interfaces[k]]
      BY <2>2
    <3>2. nlq'[k].type = "IFACE" /\ nlq'[k].f = interfaces[k]
      BY <2>4, <3>1, Zenon
    <3> QED BY <2>2, <2>3, <3>2
  <2> QED BY <1>0, <2>5 DEF NothingLost
<1>2. ASSUME Listing', ~Listing PROVE at = "open" /\ at' = "dump" /\ wifi_hal_get_interface
  BY <1>0, <1>2, MovesStep DEF Moves, Listing, Loop, MonitorsKnown, Closing
<1>3. CASE UNCHANGED <<tableVars, nlq>> /\ Listing
  <2>1. ASSUME NEW n, Listed(n) PROVE Listed(n)'
    BY <1>3, <2>1 DEF Listed, Radios
  <2>2. ASSUME NEW k \in DOMAIN interfaces, NEW n, n = interfaces[k].name
        PROVE  Listed(n)' \/ \E j \in 1 .. Len(nlq) : nlq[j].type = "IFACE"
                                                      /\ nlq[j].f = interfaces[k]
    BY <1>3, <2>1, <2>2 DEF NothingLost
  <2> QED BY <1>0, <1>3, <2>2 DEF NothingLost
<1>4. CASE Set /\ Listing
  <2>1. nlq = << >> /\ UNCHANGED tableVars
    BY <1>4, SetFacts
  <2>2. ASSUME NEW k \in DOMAIN interfaces, NEW n, n = interfaces[k].name
        PROVE  Listed(n)'
    <3>1. Listed(n)
      BY <1>4, <2>1, <2>2 DEF NothingLost
    <3> QED BY <2>1, <3>1 DEF Listed, Radios
  <2> QED BY <1>0, <2>2 DEF NothingLost
<1>5. CASE ~Nameless /\ nl_recvmsgs /\ at # "crashed" /\ Listing
  <2>1. /\ nlq # << >> /\ nlq' = Tail(nlq) /\ at # "closed"
        /\ \/ /\ Head(nlq).type = "IFACE"
              /\ \E k \in DOMAIN interfaces :
                   /\ Head(nlq).f = interfaces[k]
                   /\ \/ Entered(interfaces[k])
                      \/ UNCHANGED tableVars /\ Listed(interfaces[k].name)
           \/ Head(nlq).type # "IFACE" /\ UNCHANGED tableVars
    BY <1>5, ReceiveFacts
  <2>2. /\ Len(nlq) \in Nat \ {0} /\ Head(nlq) = nlq[1] /\ Len(nlq') = Len(nlq) - 1
        /\ \A j \in 1 .. Len(nlq) - 1 : nlq'[j] = nlq[j + 1]
    BY <2>1, TailFacts DEF QueueKnown
  <2>3. UNCHANGED tableVars \/ \E k \in DOMAIN interfaces : Entered(interfaces[k])
    BY <2>1
  <2>4. ASSUME NEW k \in DOMAIN interfaces, NEW n, n = interfaces[k].name
        PROVE  Listed(n)' \/ \E j \in 1 .. Len(nlq') : nlq'[j].type = "IFACE"
                                                       /\ nlq'[j].f = interfaces[k]
    <3>1. CASE Listed(n)
      BY <2>1, <2>3, <3>1, ListedKept
    <3>2. ASSUME NEW j \in 1 .. Len(nlq), nlq[j].type = "IFACE", nlq[j].f = interfaces[k]
          PROVE  Listed(n)' \/ \E h \in 1 .. Len(nlq') : nlq'[h].type = "IFACE"
                                                         /\ nlq'[h].f = interfaces[k]
      <4>1. CASE j = 1
        <5>1. PICK m \in DOMAIN interfaces :
                /\ Head(nlq).f = interfaces[m]
                /\ \/ Entered(interfaces[m])
                   \/ UNCHANGED tableVars /\ Listed(interfaces[m].name)
          BY <2>1, <2>2, <3>2, <4>1
        <5>2. interfaces[m] = interfaces[k] /\ interfaces[m].name = n
          BY <2>2, <2>4, <3>2, <4>1, <5>1
        <5>3. CASE Entered(interfaces[m])
          BY <5>2, <5>3, EnteredListed
        <5>4. CASE UNCHANGED tableVars /\ Listed(interfaces[m].name)
          <6>1. Listed(n)
            BY <5>2, <5>4
          <6> QED BY <3>1, <6>1
        <5> QED BY <5>1, <5>3, <5>4
      <4>2. CASE j # 1
        <5>1. j - 1 \in 1 .. Len(nlq) - 1 /\ nlq'[j - 1] = nlq[(j - 1) + 1]
              /\ (j - 1) + 1 = j
          BY <2>2, <4>2
        <5> QED BY <2>2, <3>2, <5>1
      <4> QED BY <4>1, <4>2
    <3> QED BY <1>5, <2>4, <3>1, <3>2 DEF NothingLost
  <2> QED BY <1>0, <2>4 DEF NothingLost
<1>6. CASE Listing
  <2>0. at # "open" /\ at # "reading" /\ at # "close"
    BY <1>6 DEF Listing, Loop
  <2>1. at = "opened" => prog = "radio_manager"
    BY <1>6 DEF Listing
  <2>2. CASE init_handler \/ UNCHANGED nlVars
    BY <1>3, <1>6, <2>2 DEF init_handler
  <2> QED BY <1>3, <1>4, <1>5, <1>6, <2>0, <2>1, <2>2, NetlinkSteps DEF Closing, Running
<1> QED BY <1>1, <1>2, <1>6 DEF NothingLost

-----------------------------------------------------------------------------
(***************************************************************************)
(* The settings.                                                           *)
(***************************************************************************)
LEMMA SettingsOwnStep ==
  ASSUME NetTypes, HalTypes, MainTypes, QueueKnown, TableKnown, TableSound,
         SettingsKnown, SettingsOwn, [Next]_vars
  PROVE  SettingsOwn'
<1>1. CASE Set
  BY <1>1, SetFacts
<1>2. CASE ~Set
  <2>0. at # "crashed" \/ UNCHANGED vars
    BY NetlinkSteps DEF Running
  <2>1. applied' = applied
    BY <1>2, <2>0, NetlinkSteps, ReceiveFacts DEF wifi_hal_get_interface, wifi_hal_get_stainfo,
       Closing, init_handler
  <2>2. CASE phyname' = phyname
    BY <2>1, <2>2 DEF SettingsOwn
  <2>3. ASSUME NEW k \in DOMAIN interfaces, Entered(interfaces[k]), at \in Listings
        PROVE  SettingsOwn'
    <3>1. phyname[radio_amount] = Default
      BY <2>3 DEF TableKnown, Entered, NetTypes, Listings
    <3>2. ASSUME NEW p \in Phys, NEW i \in Slots, phyname[i] = p
          PROVE  phyname'[i] = p
      BY <2>3, <3>1, <3>2, PhyFacts DEF Entered
    <3> QED BY <2>1, <3>2 DEF SettingsOwn
  <2> QED BY <2>2, <2>3, TableSteps DEF Closing
<1> QED BY <1>1, <1>2

LEMMA AmountGrows ==
  ASSUME NetTypes, HalTypes, MainTypes, QueueKnown, TableKnown, TableSound,
         SettingsKnown, SettingsOwn, [Next]_vars
  PROVE  \A i \in Slots : i < radio_amount => i < radio_amount'
<1>1. radio_amount \in Nat /\ Slots \subseteq Nat
  BY SlotFacts DEF NetTypes
<1>2. radio_amount' = radio_amount \/ radio_amount' = radio_amount + 1
  BY TableSteps DEF Entered, Closing
<1> QED BY <1>1, <1>2

LEMMA SettingsKnownStep ==
  ASSUME NetTypes, HalTypes, MainTypes, QueueKnown, TableKnown, TableSound,
         SettingsKnown, SettingsOwn, MonitorsKnown, StatesKnown, [Next]_vars
  PROVE  SettingsKnown'
<1>1. ASSUME at' = "set" PROVE radio' \in Radios'
  <2>1. ASSUME NEW i \in Slots, i < radio_amount, radio' = i PROVE radio' \in Radios'
    BY <2>1, AmountGrows DEF Radios
  <2>2. CASE at = "set"
    <3>1. radio' = radio \/ at' = then
      BY <1>1, <2>2, MovesStep DEF Moves, Closing
    <3> QED BY <1>1, <2>1, <2>2, <3>1 DEF SettingsKnown, MonitorsKnown, Radios
  <2>3. CASE at = "opened"
    <3>1. radio' = test.index /\ monitor[test.index] = "open"
      BY <1>1, <2>3, MovesStep DEF Moves, Closing
    <3> QED BY <2>1, <3>1 DEF MonitorsKnown, MainTypes
  <2>4. CASE at = "handle"
    <3>1. radio' = index /\ state[index] \in {"INIT_STATE", "IF_INIT_STAGE_1"}
      BY <1>1, <2>4, MovesStep DEF Moves, Closing
    <3> QED BY <2>1, <2>4, <3>1 DEF StatesKnown, SettingsKnown
  <2> QED BY <1>1, <2>2, <2>3, <2>4, MovesStep DEF Moves, Closing
<1>2. ASSUME at' = "handle" PROVE index' \in Slots
  BY <1>2, MovesStep DEF Moves, Closing, SettingsKnown, MonitorsKnown
<1>3. /\ debugfs_root' \in [Slots -> {Default} \cup Phys]
      /\ \A i \in Slots : debugfs_root'[i] # Default => debugfs_root'[i] = phyname'[i]
  <2>1. CASE init_handler
    <3>1. index \in Slots /\ phyname' = phyname /\ wifi_debugfs_init(index)
      BY <2>1 DEF init_handler, SettingsKnown
    <3>2. PICK x \in {Default, phyname[index]} :
            debugfs_root' = [debugfs_root EXCEPT ![index] = x]
      BY <3>1 DEF wifi_debugfs_init
    <3>3. x \in {Default} \cup Phys
      BY <3>1 DEF NetTypes
    <3> QED BY <3>1, <3>2, <3>3 DEF SettingsKnown
  <2>2. CASE ~init_handler
    <3>0. at # "crashed" \/ UNCHANGED vars
      BY NetlinkSteps DEF Running
    <3>1. debugfs_root' = debugfs_root
      BY <2>2, <3>0, NetlinkSteps, ReceiveFacts, SetFacts
         DEF wifi_hal_get_interface, wifi_hal_get_stainfo, Closing
    <3>2. CASE phyname' = phyname
      BY <3>1, <3>2 DEF SettingsKnown
    <3>3. ASSUME NEW k \in DOMAIN interfaces, Entered(interfaces[k]), at \in Listings
          PROVE  \A i \in Slots : phyname[i] # Default => phyname'[i] = phyname[i]
      <4>1. phyname[radio_amount] = Default
        BY <3>3 DEF TableKnown, Entered, NetTypes, Listings
      <4> QED BY <3>3, <4>1 DEF Entered
    <3>4. CASE \A i \in Slots : phyname[i] # Default => phyname'[i] = phyname[i]
      BY <3>1, <3>4 DEF SettingsKnown
    <3> QED BY <3>2, <3>3, <3>4, TableSteps DEF Closing
  <2> QED BY <2>1, <2>2
<1> QED BY <1>1, <1>2, <1>3 DEF SettingsKnown

-----------------------------------------------------------------------------
(***************************************************************************)
(* The event loop.                                                         *)
(***************************************************************************)
LEMMA MapFacts ==
  ASSUME NEW e \in WpaEvents
  PROVE  /\ wifi_hal_map_wpa_event_to_state[e] \in wifi_SystemEvent
         /\ wifi_hal_map_wpa_event_to_state[e] = "STARTUP_STAGE_2_EVENT"
              => e = "MESH-GROUP-STARTED"
         /\ wifi_hal_map_wpa_event_to_state[e] = "TERMINATE_EVENT" => e \in Died
BY DEF WpaEvents, wifi_SystemEvent, wifi_hal_map_wpa_event_to_state, Died

(* What a step of the loop leaves of the state machines.                    *)
LEMMA HalTypesStep ==
  ASSUME NetTypes, HalTypes, MainTypes, SettingsKnown, MonitorsKnown, [Next]_vars
  PROVE  HalTypes'
<1>0. /\ Slots \subseteq Nat /\ test.index \in Slots
      /\ at = "handle" => index \in Slots
  BY SlotFacts DEF MainTypes, SettingsKnown
<1>1. at' \in Places
  <2>1. at = "set" => then \in Places
    BY DEF MonitorsKnown, Places
  <2> QED BY <2>1, MovesStep DEF Moves, Closing, HalTypes, Places
<1>2. CASE UNCHANGED <<radio, index, monitor, state, eNewEvent, events, heard, talk, readable>>
  BY <1>1, <1>2 DEF HalTypes
<1>3. CASE radio_manager
  BY <1>2, <1>3 DEF radio_manager, OptionWifi, ReadConfig, GiveUp, CreateThread,
     OptionModem, OptionOther, OptionHelp, Join, Option, Step, Exit
<1>4. CASE radio_hal_daemon
  <2>1. radio' \in Nat
        /\ UNCHANGED <<index, monitor, state, eNewEvent, events, heard, talk, readable>>
    BY <1>0, <1>4 DEF radio_hal_daemon, TestOpen, TestCall, wifi_hal_get_rssi,
       TestEnds, Step, Exit, Configure, HalTypes
  <2> QED BY <1>1, <2>1 DEF HalTypes
<1>5. CASE wifi_hal_attach \/ Receive \/ Set \/ SetDone \/ NoRow
  BY <1>2, <1>5 DEF wifi_hal_attach, Receive, Set, SetDone, NoRow
<1>6. CASE wifi_hal_open \/ wifi_hal_wpa_attach
  <2>1. /\ radio' \in Nat
        /\ UNCHANGED <<index, state, eNewEvent, events, heard, talk, readable>>
    BY <1>6 DEF wifi_hal_open, wifi_hal_wpa_attach, HalTypes
  <2>2. monitor' \in [Slots -> {"NULL", "open", "freed"}]
    BY <1>6 DEF wifi_hal_open, wifi_hal_wpa_attach, HalTypes
  <2> QED BY <1>1, <2>1, <2>2 DEF HalTypes
<1>7. CASE wifi_hal_close
  <2>1. /\ UNCHANGED <<radio, index, state, eNewEvent, events, heard, talk, readable>>
    BY <1>7 DEF wifi_hal_close
  <2>2. monitor' \in [Slots -> {"NULL", "open", "freed"}]
    BY <1>7 DEF wifi_hal_close, HalTypes
  <2> QED BY <1>1, <2>1, <2>2 DEF HalTypes
<1>8. CASE EventsStart
  <2>1. UNCHANGED <<radio, monitor, events, heard, talk, readable>> /\ index' = -1
    BY <1>8 DEF EventsStart
  <2>2. state' \in [Slots -> wifi_state] /\ eNewEvent' \in [Slots -> wifi_SystemEvent]
    BY <1>8 DEF EventsStart, HalTypes, wifi_state, wifi_SystemEvent
  <2> QED BY <1>1, <2>1, <2>2 DEF HalTypes
<1>9. CASE NextRadio
  BY <1>1, <1>9 DEF NextRadio, HalTypes
<1>10. CASE wifi_hal_wait_on_event
  <2>1. UNCHANGED <<radio, monitor, state, heard, talk, readable>>
    BY <1>10, WaitFacts
  <2>2. CASE /\ index \in Slots
             /\ eNewEvent' = [eNewEvent EXCEPT ![index] = "TERMINATE_EVENT"]
             /\ UNCHANGED <<index, events>>
    <3>1. "TERMINATE_EVENT" \in wifi_SystemEvent
      BY DEF wifi_SystemEvent
    <3> QED BY <1>1, <2>1, <2>2, <3>1 DEF HalTypes
  <2>3. CASE UNCHANGED <<eNewEvent, index, events>>
    BY <1>2, <2>1, <2>3
  <2>4. ASSUME NEW i \in Slots, events[i] # << >>, index' = i,
               eNewEvent' = [eNewEvent EXCEPT ![i] =
                      wifi_hal_map_wpa_event_to_state[Head(events[i])]],
               events' = [events EXCEPT ![i] = Tail(@)]
        PROVE  HalTypes'
    <3>1. Head(events[i]) \in WpaEvents /\ Tail(events[i]) \in Seq(WpaEvents)
      BY <2>4, TailFacts DEF HalTypes
    <3>2. wifi_hal_map_wpa_event_to_state[Head(events[i])] \in wifi_SystemEvent
      BY <3>1, MapFacts
    <3>3. eNewEvent' \in [Slots -> wifi_SystemEvent]
      BY <2>4, <3>2 DEF HalTypes
    <3>4. events' \in [Slots -> Seq(WpaEvents)]
      BY <2>4, <3>1 DEF HalTypes
    <3> QED BY <1>1, <2>1, <2>4, <3>3, <3>4 DEF HalTypes
  <2> QED BY <1>10, <2>2, <2>3, <2>4, WaitFacts
<1>11. CASE init_handler \/ init_stage_2_handler \/ terminate_handler
  <2>1. /\ radio' \in Nat /\ index \in Slots
        /\ UNCHANGED <<index, monitor, eNewEvent, events, heard, talk, readable>>
    BY <1>0, <1>11 DEF init_handler, init_stage_2_handler, terminate_handler,
       Configure, HalTypes
  <2>2. \E s \in wifi_state : state' = [state EXCEPT ![index] = s]
    BY <1>11 DEF init_handler, init_stage_2_handler, terminate_handler, wifi_state
  <2>3. state' \in [Slots -> wifi_state]
    BY <2>1, <2>2 DEF HalTypes
  <2> QED BY <1>1, <2>1, <2>3 DEF HalTypes
<1>12. CASE Supplicants
  <2>1. PICK i \in Slots, e \in Spoken : Event(i, e)
    BY <1>12 DEF Supplicants
  <2>2. e \in WpaEvents
    BY EventsAssumption
  <2>3. Append(events[i], e) \in Seq(WpaEvents) /\ heard[i] \cup {e} \in SUBSET WpaEvents
    BY <2>2 DEF HalTypes
  <2>4. events' \in [Slots -> Seq(WpaEvents)] /\ heard' \in [Slots -> SUBSET WpaEvents]
    BY <2>1, <2>3 DEF Event, HalTypes
  <2>5. talk' \in Nat /\ UNCHANGED <<radio, index, monitor, state, eNewEvent, readable>>
    BY <2>1 DEF Event, HalTypes
  <2> QED BY <1>1, <2>4, <2>5 DEF HalTypes
<1>13. CASE UNCHANGED vars
  BY <1>2, <1>13
<1> QED BY <1>3, <1>4, <1>5, <1>6, <1>7, <1>8, <1>9, <1>10, <1>11, <1>12, <1>13
        DEF Next, WifiStep, wifi_events

LEMMA MainTypesStep ==
  ASSUME MainTypes, [Next]_vars
  PROVE  MainTypes'
<1>1. UNCHANGED <<prog, test>>
  BY ProgramKept
<1>2. \A t \in {"wifi", "modem", "none"} : Started(t) \in Seq({"wifi", "modem", "none"})
  BY DEF Started, MainTypes
<1>3. threads' \in Seq({"wifi", "modem", "none"})
  <2>1. threads' = threads \/ \E t \in {"wifi", "modem", "none"} : threads' = Started(t)
    BY DEF Next, radio_manager, OptionWifi, ReadConfig, GiveUp, CreateThread,
     OptionModem, OptionOther, OptionHelp, Join, Option, Step, Exit,
     radio_hal_daemon, TestOpen, TestCall, wifi_hal_get_rssi, TestEnds, InTest,
     WifiStep, Supplicants
  <2> QED BY <1>2, <2>1 DEF MainTypes
<1>4. code' \in {"running", "0", "-1", "crashed"}
  BY DEF MainTypes, Next, radio_manager, OptionWifi, ReadConfig, GiveUp, CreateThread,
     OptionModem, OptionOther, OptionHelp, Join, Option, Step, Exit,
     radio_hal_daemon, TestOpen, TestCall, wifi_hal_get_rssi, TestEnds, InTest,
     WifiStep, Supplicants
<1> QED BY <1>1, <1>3, <1>4 DEF MainTypes

LEMMA MonitorSteps ==
  ASSUME [Next]_vars
  PROVE  \/ UNCHANGED monitor /\ (at = "dump" /\ at' = "dump" => radio' = radio)
         \/ /\ at = "dump" /\ at' = "dump" /\ radio \in Radios /\ radio' = radio + 1
            /\ monitor' = [monitor EXCEPT ![radio] = "open"] /\ UNCHANGED nlVars
         \/ /\ at = "dump" /\ at' = "failed" /\ radio \in Radios /\ UNCHANGED nlVars
            /\ \E m \in {"NULL", "freed"} : monitor' = [monitor EXCEPT ![radio] = m]
         \/ Closing
<1>1. CASE radio_manager
  BY <1>1 DEF radio_manager, OptionWifi, ReadConfig, GiveUp, CreateThread,
     OptionModem, OptionOther, OptionHelp, Join, Option, Step, Exit
<1>2. CASE radio_hal_daemon
  BY <1>2 DEF radio_hal_daemon, TestOpen, TestCall, wifi_hal_get_rssi, TestEnds,
     InTest, Step, Exit, Goto
<1>3. CASE WifiStep
  BY <1>3 DEF WifiStep, wifi_hal_attach, wifi_hal_open, Receive, Set,
     wifi_hal_wpa_attach, SetDone, wifi_events, wifi_hal_close, EventsStart,
     NextRadio, wifi_hal_wait_on_event, NoRow, init_handler, init_stage_2_handler,
     terminate_handler, Goto, Closing
<1>4. CASE Supplicants
  BY <1>4 DEF Supplicants, Event
<1> QED BY <1>1, <1>2, <1>3, <1>4 DEF Next

LEMMA MonitorsKnownStep ==
  ASSUME NetTypes, HalTypes, MainTypes, QueueKnown, TableKnown, TableSound,
         SettingsKnown, SettingsOwn, MonitorsKnown, [Next]_vars
  PROVE  MonitorsKnown'
<1>0. /\ UNCHANGED <<prog, test>> /\ Slots \subseteq Nat /\ radio_amount \in Nat
      /\ Loop = {"thread", "init", "handle", "wait", "set"} /\ radio \in Nat
  BY ProgramKept, SlotFacts DEF NetTypes, HalTypes, Loop
<1>1. at \notin Listings \ {"crashed"} => radio_amount' = radio_amount
  BY TableSteps DEF Closing
<1>2. at' = "off" => radio_amount' = 0
  BY <1>1, MovesStep DEF Moves, Closing, MonitorsKnown, Listings
<1>3. at' \in Loop \ {"set"} => prog' = "radio_manager"
  BY <1>0, MovesStep DEF Moves, Closing, MonitorsKnown, MainTypes, Programs
<1>4. at' = "set" => then' \in IF prog' = "radio_manager" THEN {"init", "wait"}
                              ELSE {"close"}
  BY <1>0, MovesStep DEF Moves, Closing, MonitorsKnown
<1>5. ASSUME NEW i \in Slots
      PROVE  /\ monitor'[i] # "NULL" => i < radio_amount'
             /\ at' = "dump" /\ i < radio' => monitor'[i] = "open"
             /\ at' \in Loop \cup {"opened", "close"} /\ prog' = "radio_manager"
                /\ i < radio_amount' => monitor'[i] = "open"
             /\ at' = "closed" => monitor'[i] # "open"
  <2>0. /\ monitor[i] # "NULL" => i < radio_amount
        /\ at = "dump" /\ i < radio => monitor[i] = "open"
        /\ at \in Loop \cup {"opened", "close"} /\ prog = "radio_manager"
           /\ i < radio_amount => monitor[i] = "open"
        /\ at = "closed" => monitor[i] # "open"
        /\ i \in Nat /\ (i < radio_amount => i < radio_amount')
        /\ (i \in Radios <=> i < radio_amount)
    BY <1>0, AmountGrows DEF MonitorsKnown, Radios
  <2>1. CASE UNCHANGED monitor /\ (at = "dump" /\ at' = "dump" => radio' = radio)
    <3>1. at' = "dump" /\ i < radio' => monitor'[i] = "open"
      BY <2>0, <2>1, MovesStep DEF Moves, Closing, MonitorsKnown
    <3>2. ASSUME at' \in Loop \cup {"opened", "close"}, prog' = "radio_manager",
                 i < radio_amount'
          PROVE  monitor'[i] = "open"
      <4>1. CASE at = "dump"
        <5>1. at' = "opened" /\ radio \notin Radios /\ UNCHANGED nlVars
          BY <1>0, <3>2, <4>1, MovesStep DEF Moves, Closing
        <5>2. i < radio
          BY <1>0, <2>0, <3>2, <5>1, SlotFacts DEF Radios, NetTypes
        <5> QED BY <2>0, <2>1, <4>1, <5>2
      <4>2. CASE at # "dump"
        <5>1. at \in Loop \cup {"opened", "close"}
          BY <1>0, <3>2, <4>2, MovesStep DEF Moves, Closing, MonitorsKnown
        <5>2. radio_amount' = radio_amount
          BY <1>0, <1>1, <5>1 DEF Listings
        <5> QED BY <1>0, <2>0, <2>1, <3>2, <5>1, <5>2
      <4> QED BY <4>1, <4>2
    <3>3. at' = "closed" => monitor'[i] # "open"
      BY <2>0, <2>1, MovesStep DEF Moves, Closing, MonitorsKnown
    <3> QED BY <2>0, <2>1, <3>1, <3>2, <3>3
  <2>2. CASE /\ at = "dump" /\ at' = "dump" /\ radio \in Radios /\ radio' = radio + 1
             /\ monitor' = [monitor EXCEPT ![radio] = "open"] /\ UNCHANGED nlVars
    <3>1. monitor'[i] = IF i = radio THEN "open" ELSE monitor[i]
      BY <2>2 DEF HalTypes
    <3> QED BY <1>0, <2>0, <2>2, <3>1 DEF Radios
  <2>3. CASE /\ at = "dump" /\ at' = "failed" /\ radio \in Radios /\ UNCHANGED nlVars
             /\ \E m \in {"NULL", "freed"} : monitor' = [monitor EXCEPT ![radio] = m]
    <3>1. PICK m \in {"NULL", "freed"} : monitor' = [monitor EXCEPT ![radio] = m]
      BY <2>3
    <3>2. monitor'[i] = IF i = radio THEN m ELSE monitor[i]
      BY <3>1 DEF HalTypes
    <3> QED BY <1>0, <2>0, <2>3, <3>2 DEF Radios
  <2>4. CASE Closing
    <3>1. monitor'[i] = IF i \in Radios THEN "freed" ELSE monitor[i]
      BY <2>4 DEF Closing
    <3> QED BY <1>0, <2>0, <2>4, <3>1 DEF Closing
  <2> QED BY <2>1, <2>2, <2>3, <2>4, MonitorSteps
<1> QED BY <1>2, <1>3, <1>4, <1>5 DEF MonitorsKnown

(* What a handler of wifi_asStateMachine does to the state of the radio     *)
(* whose event it handles.                                                  *)
Handled ==
  /\ at = "handle" /\ at' \in {"init", "set", "wait"} /\ UNCHANGED eNewEvent
  /\ \E s \in wifi_state :
       /\ state' = [state EXCEPT ![index] = s]
       /\ state[index] # "IF_DOWN_STATE"
       /\ s = "IF_UP_STATE" => eNewEvent[index] = "STARTUP_STAGE_2_EVENT"
       /\ s = "SHUTDOWN_STATE" =>
            state[index] = "IF_UP_STATE" /\ eNewEvent[index] = "TERMINATE_EVENT"

LEMMA StateSteps ==
  ASSUME [Next]_vars
  PROVE  /\ readable' = readable
         /\ \/ UNCHANGED <<state, eNewEvent>> \/ Handled
            \/ EventsStart
            \/ wifi_hal_wait_on_event
<1>1. CASE radio_manager
  BY <1>1 DEF radio_manager, OptionWifi, ReadConfig, GiveUp, CreateThread,
     OptionModem, OptionOther, OptionHelp, Join, Option, Step, Exit
<1>2. CASE radio_hal_daemon
  BY <1>2 DEF radio_hal_daemon, TestOpen, TestCall, wifi_hal_get_rssi, TestEnds,
     Step, Exit
<1>3. CASE init_handler
  BY <1>3 DEF init_handler, Starts, Configure, Handled, wifi_state
<1>4. CASE init_stage_2_handler
  BY <1>4 DEF init_stage_2_handler, GroupStarted, Handled, wifi_state
<1>5. CASE terminate_handler
  BY <1>5 DEF terminate_handler, Terminates, Handled, wifi_state
<1>6. CASE EventsStart \/ wifi_hal_wait_on_event
  BY <1>6 DEF EventsStart, wifi_hal_wait_on_event
<1>7. CASE /\ WifiStep
           /\ ~(\/ init_handler \/ init_stage_2_handler \/ terminate_handler
                \/ EventsStart \/ wifi_hal_wait_on_event)
  BY <1>7 DEF WifiStep, wifi_hal_attach, wifi_hal_open, Receive, Set,
     wifi_hal_wpa_attach, SetDone, wifi_events, wifi_hal_close, NextRadio, NoRow
<1>8. CASE Supplicants
  BY <1>8 DEF Supplicants, Event
<1> QED BY <1>1, <1>2, <1>3, <1>4, <1>5, <1>6, <1>7, <1>8 DEF Next

LEMMA StatesKnownStep ==
  ASSUME NetTypes, HalTypes, MainTypes, QueueKnown, TableKnown, TableSound,
         SettingsKnown, SettingsOwn, MonitorsKnown, StatesKnown, [Next]_vars
  PROVE  StatesKnown'
<1>0. /\ UNCHANGED <<prog, test>>
      /\ Loop = {"thread", "init", "handle", "wait", "set"}
  BY ProgramKept DEF Loop
<1>1. Rest' => Rest
  <2>1. at # "crashed" \/ at' = at
    BY NetlinkSteps DEF Running
  <2> QED BY <1>0, <2>1, MovesStep DEF Moves, Rest, Closing, MonitorsKnown, MainTypes,
             Programs
<1>2. \A i \in Slots : i < radio_amount => i < radio_amount'
  BY AmountGrows
<1>3. CASE UNCHANGED <<state, eNewEvent>>
  BY <1>1, <1>2, <1>3 DEF StatesKnown
<1>4. CASE Handled
  <2>1. ~Rest' /\ index \in Slots
    BY <1>0, <1>4 DEF Handled, Rest, MonitorsKnown, SettingsKnown
  <2>2. \A i \in Slots : state'[i] # "IF_DOWN_STATE" => state[i] # "IF_DOWN_STATE"
    BY <1>4, <2>1 DEF Handled, HalTypes
  <2> QED BY <1>2, <2>1, <2>2 DEF StatesKnown
<1>5. CASE EventsStart
  <2>1. ~Rest'
    BY <1>0, <1>5 DEF EventsStart, Goto, Rest, MonitorsKnown
  <2>2. \A i \in Slots : state'[i] # "IF_DOWN_STATE" =>
          state[i] # "IF_DOWN_STATE" \/ i < radio_amount
    BY <1>5 DEF EventsStart, Radios
  <2> QED BY <1>2, <2>1, <2>2 DEF StatesKnown
<1>6. CASE wifi_hal_wait_on_event
  <2>1. at = "wait" /\ at' \in {"handle", "wait", "crashed"} /\ state' = state
    BY <1>6, WaitFacts
  <2>2. ~Rest'
    BY <1>0, <2>1 DEF Rest, MonitorsKnown
  <2> QED BY <1>2, <2>1, <2>2 DEF StatesKnown
<1> QED BY <1>3, <1>4, <1>5, <1>6, StateSteps

LEMMA EventsKnownStep ==
  ASSUME NetTypes, HalTypes, MainTypes, QueueKnown, TableKnown, TableSound,
         SettingsKnown, SettingsOwn, MonitorsKnown, StatesKnown, EventsKnown,
         [Next]_vars
  PROVE  EventsKnown'
<1>0. /\ UNCHANGED <<prog, test>> /\ readable' = readable
      /\ Loop = {"thread", "init", "handle", "wait", "set"}
      /\ at = "handle" => index \in Slots
  BY ProgramKept, StateSteps DEF Loop, SettingsKnown
<1>1. Rest \/ (Blind => Blind')
  <2> SUFFICES ASSUME ~Rest, NEW i \in Slots, monitor[i] = "NULL"
               PROVE  monitor'[i] = "NULL"
    BY DEF Blind
  <2>1. at # "dump"
    BY <1>0 DEF Rest
  <2>2. CASE Closing
    <3>1. at = "close" /\ prog = "radio_manager"
      BY <2>2 DEF Closing, Rest, MainTypes, Programs
    <3>2. i \notin Radios
      BY <3>1 DEF MonitorsKnown, Radios
    <3> QED BY <2>2, <3>2 DEF Closing
  <2> QED BY <2>1, <2>2, MonitorSteps
<1>2. \A i \in Slots : heard[i] \subseteq heard'[i]
  <2>1. CASE Supplicants
    BY <2>1 DEF Supplicants, Event, HalTypes
  <2>2. CASE ~Supplicants
    BY <2>2 DEF Next, radio_manager, OptionWifi, ReadConfig, GiveUp, CreateThread,
     OptionModem, OptionOther, OptionHelp, Join, Option, Step, Exit,
     radio_hal_daemon, TestOpen, TestCall, wifi_hal_get_rssi, TestEnds,
     WifiStep, wifi_hal_attach, wifi_hal_open, Receive, Set,
     wifi_hal_wpa_attach, SetDone, wifi_events, wifi_hal_close, EventsStart,
     NextRadio, wifi_hal_wait_on_event, NoRow, init_handler, init_stage_2_handler,
     terminate_handler
  <2> QED BY <2>1, <2>2
<1>3. ASSUME NEW i \in Slots
      PROVE  \A k \in 1 .. Len(events'[i]) : events'[i][k] \in heard'[i]
  <2>0. /\ \A k \in 1 .. Len(events[i]) : events[i][k] \in heard[i]
        /\ events[i] \in Seq(WpaEvents)
    BY DEF EventsKnown, HalTypes
  <2>1. CASE events' = events
    BY <1>2, <2>0, <2>1
  <2>2. CASE Supplicants
    <3>1. PICK j \in Slots, e \in Spoken :
            /\ events' = [events EXCEPT ![j] = Append(@, e)]
            /\ heard' = [heard EXCEPT ![j] = @ \cup {e}]
      BY <2>2 DEF Supplicants, Event
    <3>2. CASE i # j
      <4>1. events'[i] = events[i]
        BY <3>1, <3>2 DEF HalTypes
      <4> QED BY <1>2, <2>0, <4>1
    <3>3. CASE i = j
      <4>1. events'[i] = Append(events[i], e) /\ heard'[i] = heard[i] \cup {e}
        BY <3>1, <3>3 DEF HalTypes
      <4>2. e \in WpaEvents
        BY EventsAssumption
      <4>3. /\ Len(events'[i]) = Len(events[i]) + 1 /\ Len(events[i]) \in Nat
            /\ events'[i][Len(events[i]) + 1] = e
            /\ \A k \in 1 .. Len(events[i]) : events'[i][k] = events[i][k]
        BY <2>0, <4>1, <4>2
      <4> QED BY <2>0, <4>1, <4>3
    <3> QED BY <3>2, <3>3
  <2>3. CASE wifi_hal_wait_on_event
    <3>1. CASE events' = events
      BY <2>1, <3>1
    <3>2. ASSUME NEW j \in Slots, events[j] # << >>,
                 events' = [events EXCEPT ![j] = Tail(@)]
          PROVE  \A k \in 1 .. Len(events'[i]) : events'[i][k] \in heard'[i]
      <4>1. CASE i # j
        <5>1. events'[i] = events[i]
          BY <3>2, <4>1 DEF HalTypes
        <5> QED BY <1>2, <2>0, <5>1
      <4>2. CASE i = j
        <5>1. events'[i] = Tail(events[i])
          BY <3>2, <4>2 DEF HalTypes
        <5>2. /\ Len(events'[i]) = Len(events[i]) - 1 /\ Len(events[i]) \in Nat
              /\ \A k \in 1 .. Len(events[i]) - 1 : events'[i][k] = events[i][k + 1]
          <6>1. events[i] # << >>
            BY <3>2, <4>2
          <6> QED BY <2>0, <5>1, <6>1, TailFacts
        <5>3. \A k \in 1 .. Len(events[i]) - 1 : k + 1 \in 1 .. Len(events[i])
          BY <5>2
        <5> QED BY <1>2, <2>0, <5>2, <5>3
      <4> QED BY <4>1, <4>2
    <3> QED BY <2>3, <3>1, <3>2, WaitFacts
  <2>4. CASE ~Supplicants /\ ~wifi_hal_wait_on_event
    <3>1. events' = events
      BY <2>4 DEF Next, radio_manager, OptionWifi, ReadConfig, GiveUp, CreateThread,
         OptionModem, OptionOther, OptionHelp, Join, Option, Step, Exit,
         radio_hal_daemon, TestOpen, TestCall, wifi_hal_get_rssi, TestEnds,
         WifiStep, wifi_hal_attach, wifi_hal_open, Receive, Set,
         wifi_hal_wpa_attach, SetDone, wifi_events, wifi_hal_close, EventsStart,
         NextRadio, NoRow, init_handler, init_stage_2_handler, terminate_handler
    <3> QED BY <2>1, <3>1
  <2> QED BY <2>2, <2>3, <2>4
<1>4. ASSUME NEW i \in Slots
      PROVE  /\ (eNewEvent'[i] = "STARTUP_STAGE_2_EVENT"
                   \/ state'[i] \in {"IF_UP_STATE", "SHUTDOWN_STATE"})
                     => "MESH-GROUP-STARTED" \in heard'[i]
             /\ eNewEvent'[i] = "TERMINATE_EVENT" \/ state'[i] = "SHUTDOWN_STATE"
                  => readable' \/ Blind' \/ Died \cap heard'[i] # {}
  <2>0. /\ (eNewEvent[i] = "STARTUP_STAGE_2_EVENT"
              \/ state[i] \in {"IF_UP_STATE", "SHUTDOWN_STATE"})
                => "MESH-GROUP-STARTED" \in heard'[i]
        /\ eNewEvent[i] = "TERMINATE_EVENT" \/ state[i] = "SHUTDOWN_STATE"
             => readable' \/ Blind' \/ Died \cap heard'[i] # {}
    <3>1. Rest => state[i] = "IF_DOWN_STATE" /\ eNewEvent[i] = "NO_EVENT"
      BY DEF StatesKnown
    <3> QED BY <1>0, <1>1, <1>2, <3>1 DEF EventsKnown
  <2>1. CASE UNCHANGED <<state, eNewEvent>>
    BY <2>0, <2>1
  <2>2. CASE Handled
    BY <1>0, <2>0, <2>2 DEF Handled, HalTypes
  <2>3. CASE EventsStart
    <3>1. /\ state'[i] = state[i] \/ state'[i] = "INIT_STATE"
          /\ eNewEvent'[i] = eNewEvent[i] \/ eNewEvent'[i] = "STARTUP_EVENT"
      BY <2>3 DEF EventsStart
    <3> QED BY <2>0, <3>1
  <2>4. CASE wifi_hal_wait_on_event
    <3>0. state' = state /\ heard' = heard /\ monitor' = monitor
      BY <2>4, WaitFacts
    <3>1. CASE /\ index \in Slots /\ (Blind \/ readable)
               /\ eNewEvent' = [eNewEvent EXCEPT ![index] = "TERMINATE_EVENT"]
      <4>1. Blind' \/ readable'
        BY <1>0, <3>0, <3>1 DEF Blind
      <4>2. eNewEvent'[i] \in {eNewEvent[i], "TERMINATE_EVENT"}
        BY <3>1 DEF HalTypes
      <4> QED BY <2>0, <3>0, <4>1, <4>2
    <3>2. CASE UNCHANGED eNewEvent
      BY <2>1, <3>0, <3>2
    <3>3. ASSUME NEW j \in Slots, events[j] # << >>,
                 eNewEvent' = [eNewEvent EXCEPT ![j] =
                      wifi_hal_map_wpa_event_to_state[Head(events[j])]]
          PROVE  /\ (eNewEvent'[i] = "STARTUP_STAGE_2_EVENT"
                       \/ state'[i] \in {"IF_UP_STATE", "SHUTDOWN_STATE"})
                         => "MESH-GROUP-STARTED" \in heard'[i]
                 /\ eNewEvent'[i] = "TERMINATE_EVENT" \/ state'[i] = "SHUTDOWN_STATE"
                      => readable' \/ Blind' \/ Died \cap heard'[i] # {}
      <4>1. CASE i # j
        <5>1. eNewEvent'[i] = eNewEvent[i]
          BY <3>3, <4>1 DEF HalTypes
        <5> QED BY <2>0, <3>0, <5>1
      <4>2. CASE i = j
        <5>1. /\ Head(events[i]) \in WpaEvents /\ Head(events[i]) = events[i][1]
              /\ Len(events[i]) \in Nat \ {0}
          BY <3>3, <4>2, TailFacts DEF HalTypes
        <5>2. Head(events[i]) \in heard'[i]
          BY <3>0, <5>1 DEF EventsKnown
        <5>3. eNewEvent'[i] = wifi_hal_map_wpa_event_to_state[Head(events[i])]
          BY <3>3, <4>2 DEF HalTypes
        <5>4. /\ eNewEvent'[i] = "STARTUP_STAGE_2_EVENT"
                   => "MESH-GROUP-STARTED" \in heard'[i]
              /\ eNewEvent'[i] = "TERMINATE_EVENT" => Died \cap heard'[i] # {}
          BY <5>1, <5>2, <5>3, MapFacts
        <5> QED BY <2>0, <3>0, <5>4
      <4> QED BY <4>1, <4>2
    <3> QED BY <2>4, <3>1, <3>2, <3>3, WaitFacts
  <2> QED BY <2>1, <2>2, <2>3, <2>4, StateSteps
<1> QED BY <1>3, <1>4 DEF EventsKnown

-----------------------------------------------------------------------------
(***************************************************************************)
(* The programs.                                                           *)
(***************************************************************************)
LEMMA ManagerJoinsStep ==
  ASSUME NetTypes, HalTypes, MainTypes, MonitorsKnown, ManagerJoins, [Next]_vars
  PROVE  ManagerJoins'
<1>1. CASE code # "running"
  <2>1. UNCHANGED vars
    BY <1>1, NetlinkSteps DEF Running
  <2> QED BY <2>1 DEF ManagerJoins
<1>2. CASE Join /\ code' = "0"
  <2>1. /\ \A k \in DOMAIN threads : threads[k] = "wifi" /\ at = "closed"
        /\ Free /\ UNCHANGED <<wifiVars, threads>>
    BY <1>2 DEF Join, Exit, Joined, Ended
  <2>2. "modem" \notin ToSet(threads)
    BY <2>1 DEF ToSet
  <2>3. at = "off" \/ at = "closed"
    BY <2>1 DEF Free, HasThread
  <2>4. \A i \in Slots : monitor[i] # "open"
    <3>1. CASE at = "off"
      BY <3>1, SlotFacts DEF MonitorsKnown
    <3>2. CASE at = "closed"
      BY <3>2 DEF MonitorsKnown
    <3> QED BY <2>3, <3>1, <3>2
  <2> QED BY <2>1, <2>2, <2>4 DEF ManagerJoins
<1>3. CASE code = "running" /\ ~(Join /\ code' = "0")
  <2>1. code' # "0" \/ opts' # << >> \/ prog' = "radio_hal_daemon"
    BY <1>3 DEF Next, radio_manager, OptionWifi, ReadConfig, GiveUp, CreateThread,
     OptionModem, OptionOther, OptionHelp, Option, Step, Exit,
     radio_hal_daemon, TestOpen, TestCall, wifi_hal_get_rssi, TestEnds, InTest,
     WifiStep, Supplicants
  <2> QED BY <2>1 DEF ManagerJoins
<1> QED BY <1>1, <1>2, <1>3

(* The inductive invariant.                                                 *)
Inv ==
  /\ NetTypes /\ HalTypes /\ MainTypes /\ QueueKnown
  /\ TableKnown /\ TableSound /\ NothingLost /\ ReadingsOwn
  /\ SettingsKnown /\ SettingsOwn
  /\ MonitorsKnown /\ StatesKnown /\ EventsKnown /\ ManagerJoins

LEMMA InvInit == ASSUME Init PROVE Inv
<1>1. PICK r \in Runs : /\ WifiInit(r.dump, r.config, r.events)
                        /\ prog = r.prog /\ opts = r.opts /\ test = r.test
  BY DEF Init
<1>2. /\ r.dump \in Dumps /\ r.events \in Nat /\ r.prog \in Programs
      /\ r.test.index \in Slots
  BY RunsAssumption
<1>3. NetlinkInit(r.dump) /\ threads = << >> /\ code = "running"
  BY <1>1 DEF WifiInit, Init
<1>4. MaxFailures \in Nat /\ 0 \in Int /\ << >> \in Seq(WpaEvents)
  BY NetlinkAssumption
<1>5. applied \in Applied
  BY <1>3 DEF NetlinkInit, Applied, Setters
<1>6. NetTypes
  BY <1>2, <1>3, <1>4, <1>5, SlotFacts DEF NetlinkInit, NetTypes, Names
<1>7. HalTypes /\ at = "off"
  <2>1. /\ at = "off" /\ radio = 0 /\ index = -1 /\ talk = r.events
        /\ readable \in BOOLEAN
        /\ monitor = [i \in Slots |-> "NULL"]
        /\ state = [i \in Slots |-> "IF_DOWN_STATE"]
        /\ eNewEvent = [i \in Slots |-> "NO_EVENT"]
        /\ events = [i \in Slots |-> << >>] /\ heard = [i \in Slots |-> {}]
    BY <1>1 DEF WifiInit
  <2> QED BY <1>2, <1>4, <2>1 DEF HalTypes, Places, wifi_state, wifi_SystemEvent
<1>8. MainTypes
  BY <1>1, <1>2, <1>3 DEF MainTypes
<1>9. QueueKnown
  <2>1. nlq = << >> /\ cb_err = 0 /\ Len(<< >>) = 0
    BY <1>3 DEF NetlinkInit
  <2>2. << >> \in Seq(Message(interfaces))
    OBVIOUS
  <2> QED BY <2>1, <2>2 DEF QueueKnown
<1>10. TableKnown /\ TableSound /\ ReadingsOwn
  BY <1>3, SlotFacts DEF NetlinkInit, TableKnown, TableSound, ReadingsOwn
<1>11. NothingLost
  BY <1>7 DEF NothingLost, Listing, Loop
<1>12. SettingsKnown /\ SettingsOwn
  BY <1>3, <1>7, SlotFacts DEF NetlinkInit, SettingsKnown, SettingsOwn
<1>13. MonitorsKnown /\ StatesKnown /\ EventsKnown
  <2>1. /\ radio_amount = 0 /\ monitor = [i \in Slots |-> "NULL"]
        /\ state = [i \in Slots |-> "IF_DOWN_STATE"]
        /\ eNewEvent = [i \in Slots |-> "NO_EVENT"]
        /\ events = [i \in Slots |-> << >>] /\ Len(<< >>) = 0
    BY <1>1, <1>3 DEF WifiInit, NetlinkInit
  <2> QED BY <1>7, <2>1 DEF MonitorsKnown, StatesKnown, EventsKnown, Loop
<1>14. ManagerJoins
  BY <1>3 DEF ManagerJoins
<1> QED BY <1>6, <1>7, <1>8, <1>9, <1>10, <1>11, <1>12, <1>13, <1>14 DEF Inv

LEMMA InvStep == ASSUME Inv, [Next]_vars PROVE Inv'
<1> USE DEF Inv
<1>1. NetTypes' /\ HalTypes' /\ MainTypes' /\ QueueKnown'
  BY NetTypesStep, HalTypesStep, MainTypesStep, QueueKnownStep
<1>2. TableKnown' /\ TableSound' /\ NothingLost' /\ ReadingsOwn'
  BY TableKnownStep, TableSoundStep, NothingLostStep, ReadingsStep
<1>3. SettingsKnown' /\ SettingsOwn'
  BY SettingsKnownStep, SettingsOwnStep
<1>4. MonitorsKnown' /\ StatesKnown' /\ EventsKnown' /\ ManagerJoins'
  BY MonitorsKnownStep, StatesKnownStep, EventsKnownStep, ManagerJoinsStep
<1> QED BY <1>1, <1>2, <1>3, <1>4

(* Everything above holds of every state of every run.                      *)
THEOREM Invariance == Spec => []Inv
BY InvInit, InvStep, PTL DEF Spec

(* The radios the HAL works with are the interfaces of the kernel, however  *)
(* many there are and however their names begin: each radio has the name,   *)
(* index and phy of one message of the dump, no two are the same interface, *)
(* none is forgotten while there is room, and the arrays are never used     *)
(* past their end.                                                          *)
THEOREM RadiosAreFound == Spec => []RadiosFound
<1>1. Inv => RadiosFound
  <2> SUFFICES ASSUME Inv PROVE TypeOK /\ NoneForgotten
    BY DEF RadiosFound, Inv
  <2>1. ASSUME NEW i \in Slots
        PROVE  /\ ifname[i] \in {<< >>} \cup {f.name : f \in Interfaces}
               /\ ifindex[i] \in {-1} \cup {f.ifindex : f \in Interfaces}
               /\ phyname[i] \in {Default} \cup Phys
    BY DEF Inv, NetTypes, Names
  <2>2. ASSUME NEW k \in DOMAIN nlq
        PROVE  nlq[k].type \in {"DONE", "ACK", "ERROR", "IFACE", "STATION"}
    <3>1. nlq[k] \in Message(interfaces)
      BY DEF Inv, QueueKnown
    <3> QED BY <3>1, MessageFacts DEF Final
  <2>3. ASSUME NEW p \in Phys
        PROVE  {applied.power[p], applied.coverage[p], applied.bw[p]}
                 \subseteq Slots \cup {Default}
    BY DEF Inv, NetTypes, Applied, Setters
  <2>4. NetlinkTypeOK
    <3>1. refused + unsent \in 0 .. MaxFailures
      BY NetlinkAssumption DEF Inv, NetTypes
    <3>2. radio_amount \in 0 .. WIFI_RADIO_MAX /\ cb_err \in {0, 1}
      BY DEF Inv, NetTypes
    <3> QED BY <2>1, <2>2, <2>3, <3>1, <3>2 DEF NetlinkTypeOK
  <2>5. ToSet(threads) \subseteq {"wifi", "modem", "none"}
    BY DEF ToSet, Inv, MainTypes
  <2>6. TypeOK
    BY <2>4, <2>5 DEF TypeOK, WifiTypeOK, Inv, HalTypes, MainTypes
  <2>7. ASSUME at \in {"thread", "init", "wait"}, NEW k \in DOMAIN interfaces
        PROVE  \/ \E i \in Radios : IsPrefix(interfaces[k].name, ifname[i])
               \/ radio_amount = WIFI_RADIO_MAX
    <3>1. cb_err = 0 /\ nlq = << >>
      BY <2>7 DEF Inv, NetTypes, QueueKnown, Waiting
    <3>2. Listing
      BY <2>7 DEF Inv, MonitorsKnown, Listing, Loop
    <3>3. Listed(interfaces[k].name)
      BY <3>1, <3>2 DEF Inv, NothingLost
    <3> QED BY <3>3 DEF Listed
  <2> QED BY <2>6, <2>7 DEF NoneForgotten
<1> QED BY <1>1, Invariance, PTL

(* What is set for one radio reaches the phy of this radio only, and what   *)
(* is read of a station goes only to the radios of its interface, although  *)
(* one socket and one flag serve all requests.                              *)
THEOREM RadiosAreApart == Spec => []RadiosApart
<1>1. Inv => RadiosApart
  BY DEF Inv, RadiosApart
<1> QED BY <1>1, Invariance, PTL

(* No radio is up whose own mesh group has not started, and none is shut    *)
(* down unless its own supplicant ended, stdin woke the loop or a radio has *)
(* no monitor.                                                              *)
THEOREM EventsAreOwn == Spec => []OwnEvents
<1>1. Inv => OwnEvents
  BY DEF Inv, OwnEvents, EventsKnown, Radios, Died
<1> QED BY <1>1, Invariance, PTL

(* main() of radio_manager returns 0 only when the thread of every radio it *)
(* opened has closed it, whatever the options and the threads that could    *)
(* not be created.                                                          *)
THEOREM ManagerWaits == Spec => []ManagerJoins
<1>1. Inv => ManagerJoins
  BY DEF Inv
<1> QED BY <1>1, Invariance, PTL

=============================================================================
