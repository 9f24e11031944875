----------------------------- MODULE MCGdbProxy -----------------------------
(***************************************************************************)
(* A handler of up to four instructions for TLC, the last of which may     *)
(* loop back, so that there are breakpoints and steps before it.           *)
(***************************************************************************)
EXTENDS GdbProxy

CONSTANTS
  LastCode,   \* the last address of the handler
  PatchWord   \* a word GDB writes over HBOOT's code

MCCode     == 8 .. LastCode
MCEntry    == 8
MCExit     == LastCode + 1
MCWord     == MCCode \cup {NULL, ARM_BKPT, PatchWord}
MCHostWord == {PatchWord}
MCInitText == [a \in MCCode |-> a]
MCFlow     == [w \in MCWord |-> IF w = LastCode THEN {1, -1} ELSE {1}]
MCUnmapped == {3}

MCWriteAddr == {9} \cup MCUnmapped

AllButLiveSlot == AllRules \ {"KeepLiveSlot"}
AttachFreshOnly == {"AttachFresh"}
AskStoppedOnly  == {"AskStopped"}
AllButAsking    == AllGdbRules \ AskStoppedOnly
=============================================================================
