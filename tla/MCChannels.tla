----------------------------- MODULE MCChannels ------------------------------
(***************************************************************************)
(* Three turns, the third on a thread that got the ident of the first's; a *)
(* BMC port and a host port, with fru a sudo probe of ipmitool, dump and   *)
(* /dump the i2c tool by two names, whose line ends like that of fru, pci  *)
(* a tool the host lacks, cat a refused command and wipe a banned one; a   *)
(* menu of two tests, numbered either way by a launch; one connection to   *)
(* the model.                                                              *)
(***************************************************************************)
EXTENDS Channels

MCIdent == [t \in 1..MaxTurns |-> t % 2]

MCWireOf == [c \in Cmds |-> IF c = "dump" THEN "/dump" ELSE c]
MCEndings == [w \in Wires |-> IF w = "fru" THEN {"fru", "/dump"} ELSE {w}]
MCProgramOf == [c \in Cmds |->
  CASE c = "fru" -> "ipmitool"
    [] c \in {"dump", "/dump"} -> "i2cdump"
    [] c = "pci" -> "lspci"
    [] OTHER -> c]
MCTable == [s \in {"bmc", "host"} |->
    IF s = "bmc" THEN {"ipmitool", "i2cdump"} ELSE {"lspci", "hostname"}]
MCMissing == {<<"host", "lspci">>}
MCServices == <<"bmc", "host">>
MCPlans == {<<"dump", "cat", "fru">>, <<"pci", "dump">>, <<"cat", "wipe">>, <<"cat">>}
MCSetupOf == [s \in {"bmc", "host"} |->
    [direct |-> s = "host", login |-> s = "bmc", sudo |-> TRUE]]

MCNumberings == {<<"fans", "nvme">>, <<"nvme", "fans">>}
=============================================================================
