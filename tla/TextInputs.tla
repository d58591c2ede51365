----------------------------- MODULE TextInputs -----------------------------
(***************************************************************************)
(* The readers of text the program did not write: its configuration files  *)
(* (RadioYaml), the output of shell commands (SysCmd) and the lines of the *)
(* modem (ModemReports).  They share no state, so that a behaviour is one  *)
(* call of one of them.                                                    *)
(***************************************************************************)
EXTENDS RadioYaml, SysCmd, ModemReports

vars == <<yamlVars, cmdVars, tokVars, rssiVars, cmeVars>>

Init ==
  \/ YamlInit /\ CmdIdle /\ TokIdle /\ RssiIdle /\ CmeIdle
  \/ YamlIdle /\ CmdInit /\ TokIdle /\ RssiIdle /\ CmeIdle
  \/ YamlIdle /\ CmdIdle /\ TokInit /\ RssiIdle /\ CmeIdle
  \/ YamlIdle /\ CmdIdle /\ TokIdle /\ RssiInit /\ CmeIdle
  \/ YamlIdle /\ CmdIdle /\ TokIdle /\ RssiIdle /\ CmeInit

YamlStep == YamlNext /\ UNCHANGED <<cmdVars, tokVars, rssiVars, cmeVars>>

Next ==
  \/ YamlStep
  \/ CmdNext /\ UNCHANGED <<yamlVars, tokVars, rssiVars, cmeVars>>
  \/ TokNext /\ UNCHANGED <<yamlVars, cmdVars, rssiVars, cmeVars>>
  \/ RssiNext /\ UNCHANGED <<yamlVars, cmdVars, tokVars, cmeVars>>
  \/ CmeNext /\ UNCHANGED <<yamlVars, cmdVars, tokVars, rssiVars>>

(* radio_hal_yaml_config is plain sequential code, whose next statement is  *)
(* always run; nothing is assumed of the shell and the modem.               *)
Spec == Init /\ [][Next]_vars /\ WF_vars(YamlStep)

(* Every variable of every reader has its type; in particular no cursor and *)
(* no index leaves the line, the buffer or the table it belongs to.         *)
TypeOK == YamlTypeOK /\ CmdTypeOK /\ ReportTypeOK

(* A configuration that is accepted is the one in the files: no other radio *)
(* or file gets into it, another field only behind a value that fills its   *)
(* array, and a forbidden value only by a validation that found no memory.  *)
ConfigSound == ConfigFaithful /\ AcceptedIsClean

(* What a command prints is kept as far as it fits, and the device names    *)
(* taken from it are whole; memory behind the names is written only by a    *)
(* name as long as its array.                                               *)
OutputSound == [](CmdTypeOK /\ OutputFits) /\ NamesWhole

(* What the modem reports is what the HAL makes of it: fields, signal       *)
(* strength and errors, of whole lines and of lines that were cut off, and  *)
(* no cursor leaves its line.                                               *)
ReportsSound == TypeOK /\ FieldsRead /\ RssiReported /\ CmeTells

=============================================================================
