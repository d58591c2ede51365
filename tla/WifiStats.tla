----------------------------- MODULE WifiStats -----------------------------
(***************************************************************************)
(* src/wifi/wifi_stats.cpp: the driver of a radio found in debugfs, its    *)
(* statistics, and the capture of a spectral scan, which switches the      *)
(* driver's scan on, lets the supplicant scan, switches it off and copies  *)
(* what was received.                                                      *)
(*                                                                         *)
(* Radio i has phy i.  External: the driver, which takes or refuses what   *)
(* is written to its files (stdio buffers the write and the result of      *)
(* fflush is not looked at) and which goes with its card at any time; and  *)
(* the root directory, where a file of a radio without a debugfs directory *)
(* ends up.                                                                *)
(***************************************************************************)
EXTENDS Naturals, Sequences

CONSTANTS
  Radios,
  Machines,         \* the driver of each radio
  AtRoot,           \* the working directory is "/"
  MaxCalls          \* bound on the calls that are made

VARIABLES
  driver,           \* of each radio; "gone" without the card
  mode,             \* of the driver's spectral scan
  drv_version, debugfs_root,      \* in nl_ctx; "" for no directory
  call,             \* the call that is made: fn, the radio i, where it is
  ret,              \* what it returned: "0", "error", "length", "crash"
  files,            \* FILEs that are open
  strays,           \* files that were made in the root directory
  log,              \* history: the words written in a capture, or "refused"
  left,             \* history: radios whose scan a failed step left on
  searched,         \* history: calls of wifi_debugfs_search
  calls

halVars == <<drv_version, debugfs_root, call, ret, files, calls>>
vars == <<driver, mode, halVars, strays, log, left, searched>>

Idle == [fn |-> "none", i |-> 0, at |-> 0]

(* calloc: WIFI_DRIVER_ATH9K is 0.                                          *)
Init ==
  /\ driver \in Machines
  /\ mode = [i \in Radios |-> "disable"]
  /\ drv_version = [i \in Radios |-> "ath9k"]
  /\ debugfs_root = [i \in Radios |-> ""]
  /\ call = Idle /\ ret = "0" /\ files = 0 /\ strays = {}
  /\ log = << >> /\ left = {} /\ searched = 0 /\ calls = 0

-----------------------------------------------------------------------------
(***************************************************************************)
(* Files.                                                                  *)
(***************************************************************************)
(* The files a driver has in its directory, and the root has none of them.  *)
Has(d, f) ==
  \/ f = "spectral_scan_ctl" /\ d \in {"ath9k", "ath10k"}
  \/ f = "fw_stats" /\ d \in {"ath10k", "ath11k"}

(* wifi_debugfs_open for reading.                                           *)
Readable(i, f) == debugfs_root[i] = driver[i] /\ Has(driver[i], f)

(* For writing, a file of the root directory is made.                       *)
Writable(i, f) == debugfs_root[i] = "" \/ Readable(i, f)

(* A write of a word to the control file; each is opened, written, flushed  *)
(* and closed.  The driver may refuse it, which nobody sees.                *)
wifi_debugfs_write(i, word) ==
  \/ /\ debugfs_root[i] = "" /\ strays' = strays \cup {"spectral_scan_ctl"}
     /\ UNCHANGED <<mode, log, left>>
  \/ /\ Readable(i, "spectral_scan_ctl")
     /\ mode' = [mode EXCEPT ![i] = IF word = "trigger" THEN @ ELSE word]
     /\ left' = IF word = "disable" THEN left \ {i} ELSE left
     /\ log' = Append(log, word) /\ UNCHANGED strays
  \/ /\ Readable(i, "spectral_scan_ctl")
     /\ left' = IF word = "disable" THEN left \cup {i} ELSE left
     /\ log' = Append(log, "refused") /\ UNCHANGED <<mode, strays>>

-----------------------------------------------------------------------------
(***************************************************************************)
(* Calls.                                                                  *)
(***************************************************************************)
Begins == call = Idle /\ ret # "crash" /\ calls < MaxCalls /\ calls' = calls + 1

Quiet == UNCHANGED <<driver, mode, strays, log, left, searched>>

(* The directory of brcmfmac is looked up without its leading "/", and is   *)
(* there for every radio when it is for one.                                *)
wifi_get_driver_version(i) ==
  IF driver[i] \in {"ath9k", "ath10k", "ath11k"} THEN driver[i]
  ELSE IF AtRoot /\ \E j \in Radios : driver[j] = "brcm" THEN "brcm"
  ELSE "none"

(* stat of the directory of the phy; a radio that is gone has none.         *)
HasRoot(i) == wifi_get_driver_version(i) # "none" /\ driver[i] # "gone"

(* A driver that is not found leaves the version that was there.            *)
wifi_debugfs_init(i) ==
  LET d == wifi_get_driver_version(i)
  IN /\ Begins /\ Quiet
     /\ drv_version' = IF d = "none" THEN drv_version
                       ELSE [drv_version EXCEPT ![i] = d]
     /\ debugfs_root' = [debugfs_root EXCEPT ![i] = IF HasRoot(i) THEN d ELSE ""]
     /\ ret' = IF HasRoot(i) THEN "0" ELSE "error"
     /\ UNCHANGED <<call, files>>

(* wifi_debugfs_read opens, reads what fits and closes.                     *)
wifi_get_fw_stats(i) ==
  /\ Begins /\ Quiet
  /\ ret' = IF Readable(i, "fw_stats") THEN "0" ELSE "error"
  /\ UNCHANGED <<drv_version, debugfs_root, call, files>>

(* A file that was opened is an error, one that was not is read.            *)
wifi_debugfs_search(i) ==
  /\ Begins /\ searched' = searched + 1
  /\ \/ Readable(i, "fw_stats") /\ ret' = "error" /\ files' = files + 1
     \/ ~Readable(i, "fw_stats") /\ ret' = "crash" /\ UNCHANGED files
  /\ UNCHANGED <<driver, mode, drv_version, debugfs_root, call, strays, log,
                 left>>

(* Mutant: the scan of ath10k is not switched off.                          *)
Program_LeftOn(v) ==
  CASE v = "ath9k"  -> <<"chanscan", "SCAN", "disable">>
    [] v = "ath10k" -> <<"background", "trigger", "SCAN">>
    [] OTHER        -> << >>

(* What is written around the scan, by version; the scan itself is "SCAN".  *)
Program(v) ==
  CASE v = "ath9k"  -> <<"chanscan", "SCAN", "disable">>
    [] v = "ath10k" -> <<"background", "trigger", "SCAN", "disable">>
    [] OTHER        -> << >>

Return(r) == call' = Idle /\ ret' = r

wifi_capture_spectral_scan(i) ==
  /\ Begins /\ log' = << >>
  /\ IF Program(drv_version[i]) = << >> THEN Return("error")
     ELSE call' = [fn |-> "capture", i |-> i, at |-> 1] /\ UNCHANGED ret
  /\ UNCHANGED <<driver, mode, drv_version, debugfs_root, files, strays, left,
                 searched>>

On == call' = [call EXCEPT !.at = @ + 1] /\ UNCHANGED ret

(* wifi_debugfs_open fails: there is no such file, or no descriptor left.   *)
(* Behind the first word that leaves the scan on.                           *)
OpenFails ==
  /\ left' = IF Writable(call.i, "spectral_scan_ctl") /\ call.at > 1
             THEN left \cup {call.i} ELSE left
  /\ UNCHANGED <<mode, strays, log>>

(* A file that cannot be opened ends the capture at once; the "SCAN" of the *)
(* supplicant and the two seconds after it change nothing here.             *)
CaptureStep ==
  LET p == Program(drv_version[call.i])
  IN /\ call.fn = "capture" /\ call.at <= Len(p)
     /\ \/ p[call.at] = "SCAN" /\ On /\ UNCHANGED <<mode, strays, log, left>>
        \/ p[call.at] # "SCAN" /\ On /\ wifi_debugfs_write(call.i, p[call.at])
        \/ p[call.at] # "SCAN" /\ OpenFails /\ Return("error")
     /\ UNCHANGED <<driver, drv_version, debugfs_root, files, searched, calls>>

(* The copy is made by a shell; its result is not looked at.  What is       *)
(* returned is the length of the command, which wifi_hal_capture_...        *)
(* takes for an error.                                                      *)
Copy ==
  /\ call.fn = "capture" /\ call.at > Len(Program(drv_version[call.i]))
  /\ Return("length") /\ UNCHANGED <<drv_version, debugfs_root, files, calls>>
  /\ Quiet

wifi_hal_capture_spectral_scan == CaptureStep \/ Copy

(* The card goes, its driver's files with it.                               *)
Unplug(i) ==
  /\ driver[i] # "gone" /\ driver' = [driver EXCEPT ![i] = "gone"]
  /\ mode' = [mode EXCEPT ![i] = "disable"] /\ left' = left \ {i}
  /\ UNCHANGED <<halVars, strays, log, searched>>

Next ==
  \/ \E i \in Radios : \/ wifi_debugfs_init(i) \/ wifi_get_fw_stats(i)
                       \/ wifi_debugfs_search(i)
                       \/ wifi_capture_spectral_scan(i) \/ Unplug(i)
  \/ wifi_hal_capture_spectral_scan

(* A capture keeps going; the calls and the card are left free.             *)
Spec == Init /\ [][Next]_vars /\ WF_vars(wifi_hal_capture_spectral_scan)

-----------------------------------------------------------------------------
(***************************************************************************)
(* Properties.                                                             *)
(***************************************************************************)
(* Every variable has its type, and the version of a radio with a directory *)
(* is the one of that directory.                                            *)
TypeOK ==
  /\ mode \in [Radios -> {"disable", "chanscan", "background"}]
  /\ ret \in {"0", "error", "length", "crash"}
  /\ call.i \in Radios \cup {0} /\ files \in Nat /\ left \subseteq Radios
  /\ strays \subseteq {"spectral_scan_ctl"}
  /\ \A i \in Radios : debugfs_root[i] \in {"", drv_version[i]}

(* A scan is on only between the first and the last word of a capture of    *)
(* its radio, but for the radios whose capture did not get to the end of    *)
(* it: the driver refused the "disable", or the file of the "trigger" or    *)
(* the "disable" could not be opened, so that nothing switches the scan off *)
(* before the next capture of that radio does.                              *)
NoScanLeftOn ==
  \A i \in Radios :
    mode[i] # "disable" =>
      \/ i \in left
      \/ /\ call.fn = "capture" /\ call.i = i /\ debugfs_root[i] # ""
         /\ call.at \in 2 .. Len(Program(drv_version[i]))

(* Is s what was written for the words t, which the driver took or refused? *)
Given(s, t) ==
  Len(s) = Len(t) /\ \A k \in DOMAIN t : s[k] = t[k] \/ s[k] = "refused"

(* A capture that comes to its end on a radio with a debugfs directory has  *)
(* written every word of its program for the driver that is there, in       *)
(* order, whatever the driver made of them.                                 *)
CaptureComplete ==
  \A i \in Radios :
    /\ call.fn = "capture" /\ call.i = i /\ ret' = "length" /\ call' = Idle
    /\ debugfs_root[i] # "" /\ driver[i] # "gone"
    => Given(log, CASE driver[i] = "ath9k"  -> <<"chanscan", "disable">>
                    [] driver[i] = "ath10k" -> <<"background", "trigger", "disable">>)

(* No call leaves a file open, except wifi_debugfs_search, which takes a    *)
(* file it could open for an error.                                         *)
FilesClosed == files <= searched

(* The strengthening that makes these inductive: a directory is that of the *)
(* driver that is there, a card that is gone took its scan along, and a     *)
(* radio that is told has been written the words of its program up to the   *)
(* step of the capture.  Words(v)[k] are those that step k finds.           *)
Drivers == {"ath9k", "ath10k", "ath11k", "brcm"}

Words(v) ==
  IF v = "ath9k" THEN << << >>, <<"chanscan">>, <<"chanscan">>,
                         <<"chanscan", "disable">> >>
  ELSE << << >>, <<"background">>, <<"background", "trigger">>,
          <<"background", "trigger">>, <<"background", "trigger", "disable">> >>

(* Is the driver of radio i told what the capture writes?                   *)
Told(i) ==
  call.fn = "capture" /\ call.i = i /\ debugfs_root[i] # "" /\ driver[i] # "gone"

TablesKnown ==
  /\ driver \in [Radios -> Drivers \cup {"gone"}]
  /\ drv_version \in [Radios -> Drivers]
  /\ debugfs_root \in [Radios -> Drivers \cup {""}]
  /\ \A i \in Radios : debugfs_root[i] \in {"", driver[i]} \/ driver[i] = "gone"
  /\ searched \in Nat
  /\ \/ call = Idle
     \/ \E i \in Radios, k \in 1 .. 5 :
          /\ call = [fn |-> "capture", i |-> i, at |-> k]
          /\ drv_version[i] = "ath10k" \/ (drv_version[i] = "ath9k" /\ k <= 4)

InProgram ==
  /\ log \in Seq({"chanscan", "background", "trigger", "disable", "refused"})
  /\ \A i \in Radios :
       /\ driver[i] = "gone" => mode[i] = "disable"
       /\ Told(i) => Given(log, Words(drv_version[i])[call.at])

Running == call.fn = "capture"

=============================================================================
