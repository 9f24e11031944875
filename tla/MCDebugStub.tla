----------------------------- MODULE MCDebugStub -----------------------------
(***************************************************************************)
(* A handler of three or four instructions for TLC, the third of which may *)
(* loop back, and a table of two slots.  Each address holds a word of its  *)
(* own at first; the host can write one more.                              *)
(***************************************************************************)
EXTENDS DebugStub

CONSTANTS
  LastCode,   \* the last address of the handler
  PatchWord   \* a word the host writes over HBOOT's code

MCCode     == 8 .. LastCode
MCEntry    == 8
MCExit     == LastCode + 1
MCWord     == MCCode \cup {NULL, ARM_BKPT, PatchWord}
MCHostWord == {PatchWord}
MCInitText == [a \in MCCode |-> a]
MCFlow     == [w \in MCWord |-> IF w = 10 THEN {1, -1} ELSE {1}]
MCUnmapped == {3}

AttachFreshOnly == {"AttachFresh"}
=============================================================================
