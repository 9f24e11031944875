---------------------------- MODULE BreakpointMap ----------------------------
(***************************************************************************)
(* What the breakpoint table promises, without the table: the debugger     *)
(* remembers, for each address that carries a breakpoint, the instruction  *)
(* that was there, up to Capacity of them, in no order and in no slot, and *)
(* answers each command with the error code that follows from that alone.  *)
(***************************************************************************)
EXTENDS Integers, FiniteSets

CONSTANTS
  Capacity,   \* how many breakpoints can be set at once
  Code,       \* the addresses
  NULL,       \* no address
  Word,       \* the instruction words
  ARM_BKPT,   \* the breakpoint instruction
  InitText    \* the contents of memory at the start

VARIABLES
  saved,      \* the saved instruction of each address with a breakpoint
  mem,        \* the memory
  answer      \* the last command, its address and the error code it answered

mapVars == <<saved, mem>>

Armed == DOMAIN saved

MapInit ==
  /\ saved = [a \in {} |-> ARM_BKPT]
  /\ mem = InitText
  /\ answer = [command |-> "none", address |-> NULL, error |-> "SUCCESS"]

Answer(command, a, error) ==
  answer' = [command |-> command, address |-> a, error |-> error]

Arm(a) ==
  /\ a \notin Armed
  /\ Cardinality(Armed) < Capacity
  /\ saved' = [b \in Armed \cup {a} |-> IF b = a THEN mem[a] ELSE saved[b]]
  /\ mem' = [mem EXCEPT ![a] = ARM_BKPT]

Insert(a, error) ==
  \/ /\ error = "SUCCESS"
     /\ Arm(a)
  \/ /\ error = "BREAKPOINT_ALREADY_EXISTS"
     /\ a \in Armed
     /\ UNCHANGED mapVars
  \/ /\ error = "NO_MEMORY_AVAILABLE"
     /\ a \notin Armed
     /\ Cardinality(Armed) = Capacity
     /\ UNCHANGED mapVars

Remove(a, error) ==
  \/ /\ error = "SUCCESS"
     /\ a \in Armed
     /\ mem' = [mem EXCEPT ![a] = saved[a]]
     /\ saved' = [b \in Armed \ {a} |-> saved[b]]
  \/ /\ error = "NO_BREAKPOINT"
     /\ a \notin Armed
     /\ UNCHANGED mapVars

Forget ==
  /\ saved' = [a \in {} |-> ARM_BKPT]
  /\ UNCHANGED mem

Write(a, w) ==
  /\ mem' = [mem EXCEPT ![a] = w]
  /\ UNCHANGED saved

MapNext ==
  \/ \E a \in Code :
       \/ \E error \in {"SUCCESS", "BREAKPOINT_ALREADY_EXISTS", "NO_MEMORY_AVAILABLE"} :
            Insert(a, error) /\ Answer("insert", a, error)
       \/ \E error \in {"SUCCESS", "NO_BREAKPOINT"} :
            Remove(a, error) /\ Answer("remove", a, error)
       \/ \E w \in Word : Write(a, w) /\ Answer("write", a, "SUCCESS")
  \/ Forget /\ Answer("attach", NULL, "SUCCESS")

MapSpec == MapInit /\ [][MapNext]_<<mapVars, answer>>
=============================================================================
