---------------------------- MODULE TableCommands ----------------------------
(***************************************************************************)
(* The commands that reach the breakpoint table, in any order, each with   *)
(* the error code it answers (dbg.c: cmd_insert_breakpoint,                *)
(* cmd_remove_breakpoint, cmd_write and cmd_attach on mapped memory), and  *)
(* the map the table implements, answer by answer.                         *)
(***************************************************************************)
EXTENDS BreakpointTable

VARIABLES
  answer    \* the last command, its address and the error code it answered

commandVars == <<tableVars, answer>>

cmd_error(command, a, error) ==
  answer' = [command |-> command, address |-> a, error |-> error]

CommandsInit ==
  /\ TableInit
  /\ answer = [command |-> "none", address |-> NULL, error |-> "SUCCESS"]

-----------------------------------------------------------------------------
AnswerInsert ==
  \E a \in Code, error \in ErrorCode :
    /\ insert_breakpoint(a, error)
    /\ cmd_error("insert", a, error)

AnswerRemove ==
  \E a \in Code, error \in ErrorCode :
    /\ remove_breakpoint(a, error)
    /\ cmd_error("remove", a, error)

AnswerWrite ==
  \E a \in Code, w \in HostWord :
    /\ write_word(a, w)
    /\ UNCHANGED <<bp, bp_size>>
    /\ cmd_error("write", a, "SUCCESS")

AnswerAttach ==
  /\ dbg_init
  /\ UNCHANGED mem
  /\ cmd_error("attach", NULL, "SUCCESS")

CommandsNext == AnswerInsert \/ AnswerRemove \/ AnswerWrite \/ AnswerAttach

TableSpec == CommandsInit /\ [][CommandsNext]_commandVars

-----------------------------------------------------------------------------
(* The table with its swap on removal is a map from addresses to saved     *)
(* instructions with a capacity.  The answer to each command is the one    *)
(* the map gives to that very command: an insertion answers                *)
(* BREAKPOINT_ALREADY_EXISTS, NO_MEMORY_AVAILABLE or SUCCESS, and a        *)
(* removal NO_BREAKPOINT or SUCCESS, exactly when the map does, and a      *)
(* removal puts back the instruction that the insertion of that very       *)
(* address displaced.                                                      *)
Map == INSTANCE BreakpointMap WITH Capacity <- DBG_NBR_POINTS, saved <- Saved

ImplementsMap == Map!MapSpec
=============================================================================
