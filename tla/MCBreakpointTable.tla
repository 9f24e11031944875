-------------------------- MODULE MCBreakpointTable --------------------------
(***************************************************************************)
(* A small table for TLC: four addresses, two slots.  Each address holds *)
(* a word of its own at first, so that words put back in the wrong place   *)
(* are told apart, and the host can write one more word.                   *)
(***************************************************************************)
EXTENDS TableCommands

CONSTANTS PatchWord    \* a word the host writes over HBOOT's code

MCCode     == 8 .. 11
MCWord     == MCCode \cup {NULL, ARM_BKPT, PatchWord}
MCHostWord == {PatchWord}
MCInitText == [a \in MCCode |-> a]
=============================================================================
