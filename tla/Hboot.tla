------------------------------- MODULE Hboot -------------------------------
(***************************************************************************)
(* HBOOT without a debugger: a command loop that runs one of its handlers  *)
(* and comes back, with a text the host may patch.  It is what the target  *)
(* of DebugStub has to look like for as long as the host keeps the rules   *)
(* of the debugger.                                                        *)
(***************************************************************************)
EXTENDS Integers

CONSTANTS
  Code,       \* the word addresses of the handler
  Entry,      \* where the command loop enters it
  Exit,       \* where it ends: the command loop
  HostWord,   \* the words the host writes
  Flow,       \* for each word, the displacements from it to the next one
  InitText,   \* HBOOT as it is loaded
  NULL        \* no word: nothing has been executed yet

VARIABLES
  text,   \* the program, breakpoints apart
  at,     \* the next instruction
  last    \* the last word executed

hbootVars == <<text, at, last>>

HbootInit ==
  /\ text = InitText
  /\ at = Exit
  /\ last = NULL

(* One instruction.                                                        *)
Execute ==
  /\ at \in Code
  /\ last' = text[at]
  /\ at' \in {at + d : d \in Flow[text[at]]}
  /\ UNCHANGED text

(* The command loop calls the handler.                                     *)
Start ==
  /\ at = Exit
  /\ at' = Entry
  /\ UNCHANGED <<text, last>>

(* The host writes a word of its own; nothing else changes the program.    *)
Patch(a, w) ==
  /\ text' = [text EXCEPT ![a] = w]
  /\ UNCHANGED <<at, last>>

Restart ==
  /\ text' = InitText
  /\ at' = Exit
  /\ last' = NULL

HbootNext ==
  \/ Execute
  \/ Start
  \/ \E a \in Code, w \in HostWord : Patch(a, w)
  \/ Restart

HbootSpec == HbootInit /\ [][HbootNext]_hbootVars
=============================================================================
