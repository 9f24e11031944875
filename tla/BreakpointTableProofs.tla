------------------------ MODULE BreakpointTableProofs ------------------------
(***************************************************************************)
(* Theorems about the breakpoint table for every number of slots, every    *)
(* code and every history of insertions, removals, writes and              *)
(* initialisations.                                                        *)
(***************************************************************************)
EXTENDS TableCommands, FiniteSetTheorems, FunctionTheorems, TLAPS

(***************************************************************************)
(* The inductive invariant.  None of the three is inductive alone: that a  *)
(* lookup finds its entry, and so that a removal keeps the type and the    *)
(* distinctness, needs the entries in use to be distinct.                  *)
(***************************************************************************)
TableInv ==
  /\ TableTypeOK
  /\ DistinctAddresses
  /\ ActiveInCode

-----------------------------------------------------------------------------
(* The widths are numbers; their values are used only where they matter.   *)
LEMMA Widths ==
  /\ AddrSpace \in Nat /\ OffsetSpace \in Nat /\ OffsetSign \in Nat
  /\ AddrSpace > 0 /\ OffsetSpace > 0
BY SMT DEF AddrSpace, OffsetSpace, OffsetSign

(* The field cpu_get_branch computes is a 24-bit field.                    *)
LEMMA BranchFieldType ==
  ASSUME NEW from \in Int, NEW to \in Int
  PROVE  cpu_get_branch(from, to) \in BranchField
<1> DEFINE o == to - from - 2
<1>1. /\ o % OffsetSpace \in Int
      /\ o % OffsetSpace >= 0
      /\ o % OffsetSpace < OffsetSpace
  BY SMT DEF OffsetSpace
<1> HIDE DEF o
<1>2. o % OffsetSpace \in 0 .. OffsetSpace - 1
  BY <1>1, Widths, SMT
<1> QED
  BY <1>2, Zenon DEF cpu_get_branch, BranchField, o

LEMMA WordAddrIsNat ==
  ASSUME NEW a \in WordAddr
  PROVE  a \in Nat /\ a < AddrSpace /\ a % AddrSpace = a
<1>1. a \in Nat /\ a < AddrSpace
  BY Widths, SMT DEF WordAddr
<1>2. a % AddrSpace = a
  BY <1>1, SMT DEF AddrSpace
<1> QED
  BY <1>1, <1>2

(* The sign extension undoes the truncation of an offset in reach.         *)
LEMMA OffsetRoundTrip ==
  ASSUME NEW from \in WordAddr, NEW to \in WordAddr, Reaches(from, to)
  PROVE  SignExtend(cpu_get_branch(from, to)) = to - from - 2
<1>1. from \in Int /\ to \in Int
  BY WordAddrIsNat, SMT
<1> DEFINE o == to - from - 2
<1>2. o \in Int /\ -OffsetSign <= o /\ o < OffsetSign
  BY <1>1, Widths, SMT DEF Reaches
<1> HIDE DEF o
<1>3. o % OffsetSpace = IF o < 0 THEN o + OffsetSpace ELSE o
  BY <1>2, SMT DEF OffsetSpace, OffsetSign
<1>4. SignExtend(o % OffsetSpace) = o
  BY <1>2, <1>3, SMT DEF SignExtend, OffsetSpace, OffsetSign
<1> QED
  BY <1>4, Zenon DEF cpu_get_branch, o

(* A branch built for a destination in reach leads there when it is        *)
(* executed where it was built: cpu_get_branch and the processor's sign    *)
(* extension are inverse (cpu.c:67-71).                                    *)
LEMMA BranchRoundTrip ==
  ASSUME NEW from \in WordAddr, NEW to \in WordAddr, Reaches(from, to)
  PROVE  BranchTarget(from, cpu_get_branch(from, to)) = to
<1>1. from + 2 + SignExtend(cpu_get_branch(from, to)) = to
  BY OffsetRoundTrip, WordAddrIsNat, SMT
<1> QED
  BY <1>1, WordAddrIsNat, Zenon DEF BranchTarget

(* Executed elsewhere it misses by exactly the distance it was moved: why  *)
(* the swap of free_breakpoint breaks the trampoline it moves.             *)
LEMMA MovedBranchMisses ==
  ASSUME NEW from \in WordAddr, NEW to \in WordAddr, Reaches(from, to),
         NEW moved \in WordAddr
  PROVE  BranchTarget(moved, cpu_get_branch(from, to)) = (to + (moved - from)) % AddrSpace
<1>1. moved + 2 + SignExtend(cpu_get_branch(from, to)) = to + (moved - from)
  BY OffsetRoundTrip, WordAddrIsNat, SMT
<1> QED
  BY <1>1, Zenon DEF BranchTarget

(* A lookup that succeeds returns the entry in use of that address.        *)
LEMMA GetBreakpointFinds ==
  ASSUME TableInv, NEW a, HasBreakpoint(a)
  PROVE  /\ get_breakpoint(a) \in Active
         /\ bp[get_breakpoint(a)].address = a
<1>1. PICK i \in Active : bp[i].address = a
  BY DEF HasBreakpoint
<1>2. \A j \in 0 .. i - 1 : bp[j].address # a
  <2> SUFFICES ASSUME NEW j \in 0 .. i - 1, bp[j].address = a
               PROVE  FALSE
    OBVIOUS
  <2>1. j \in Active /\ j # i
    BY <1>1 DEF Active, TableInv, TableTypeOK
  <2> QED
    BY <1>1, <2>1 DEF TableInv, DistinctAddresses
<1> QED
  BY <1>1, <1>2 DEF get_breakpoint

LEMMA ActiveIsSlot ==
  ASSUME TableTypeOK
  PROVE  /\ Active \subseteq Slot
         /\ \A i \in Active : i \in Nat /\ i < bp_size
BY TableAssumption DEF TableTypeOK, Active, Slot

(* What an insertion puts in a slot has the type of a slot.                *)
LEMMA TrampolineType ==
  ASSUME TableTypeOK, NEW i \in Slot, NEW a \in Code
  PROVE  Trampoline(i, a) \in Breakpoint /\ Trampoline(i, a).address = a
<1>1. mem[a] \in Word
  BY DEF TableTypeOK
<1>2. BackAddr(i) \in Int /\ a + 1 \in Int
  BY TableAssumption DEF BackAddr, SlotWords, Slot
<1>3. cpu_get_branch(BackAddr(i), a + 1) \in BranchField
  BY <1>2, BranchFieldType
<1>4. cpu_get_branch(BackAddr(i), a + 1) \in NoBranch .. OffsetSpace - 1
  BY <1>3, Widths, SMT DEF BranchField, NoBranch
<1> QED
  BY <1>1, <1>4 DEF Trampoline, Breakpoint

-----------------------------------------------------------------------------
LEMMA TableInvInit == TableInit => TableInv
<1> SUFFICES ASSUME TableInit
             PROVE  TableInv
  OBVIOUS
<1>1. EmptySlot \in Breakpoint
  BY TableAssumption, Widths, SMT DEF EmptySlot, Breakpoint, NoBranch
<1>2. TableTypeOK
  BY <1>1, TableAssumption DEF TableInit, TableTypeOK
<1>3. Active = {}
  BY DEF TableInit, Active
<1> QED
  BY <1>2, <1>3 DEF TableInv, DistinctAddresses, ActiveInCode

(* An insertion preserves the invariant.                                   *)
LEMMA InsertPreserves ==
  ASSUME TableInv, NEW a \in Code, NEW error, insert_breakpoint(a, error)
  PROVE  TableInv'
<1> USE DEF TableInv
<1>1. CASE UNCHANGED tableVars
  BY <1>1 DEF tableVars, TableTypeOK, DistinctAddresses, ActiveInCode, Active
<1>2. CASE /\ ~HasBreakpoint(a)
           /\ alloc_breakpoint
           /\ bp' = [bp EXCEPT ![bp_size] = Trampoline(bp_size, a)]
           /\ mem' = [mem EXCEPT ![a] = ARM_BKPT]
  <2>1. bp_size \in Slot /\ bp_size' = bp_size + 1
    BY <1>2, TableAssumption DEF alloc_breakpoint, TableFull, Slot, TableTypeOK
  <2>2. Trampoline(bp_size, a) \in Breakpoint /\ Trampoline(bp_size, a).address = a
    BY <2>1, TrampolineType
  <2>3. /\ bp'[bp_size].address = a
        /\ \A i \in Active : i # bp_size /\ bp'[i] = bp[i]
    <3>1. \A i \in Active : i \in Slot /\ i # bp_size
      BY ActiveIsSlot
    <3> QED
      BY <1>2, <2>1, <2>2, <3>1 DEF TableTypeOK
  <2>4. Active' = Active \cup {bp_size}
    BY <2>1, TableAssumption DEF Active, TableTypeOK
  <2>5. TableTypeOK'
    <3>1. mem' \in [Code -> Word]
      BY <1>2, TableAssumption DEF TableTypeOK
    <3>2. bp' \in [Slot -> Breakpoint]
      BY <1>2, <2>2 DEF TableTypeOK
    <3>3. bp_size' \in 0 .. DBG_NBR_POINTS
      BY <2>1, TableAssumption DEF Slot
    <3> QED
      BY <3>1, <3>2, <3>3 DEF TableTypeOK
  <2>6. DistinctAddresses'
    BY <1>2, <2>3, <2>4 DEF DistinctAddresses, HasBreakpoint
  <2>7. ActiveInCode'
    BY <2>3, <2>4 DEF ActiveInCode
  <2> QED
    BY <2>5, <2>6, <2>7
<1> QED
  BY <1>1, <1>2 DEF insert_breakpoint

(* A removal preserves the invariant.                                      *)
LEMMA RemovePreserves ==
  ASSUME TableInv, NEW a \in Code, NEW error, remove_breakpoint(a, error)
  PROVE  TableInv'
<1> USE DEF TableInv
<1>1. CASE UNCHANGED tableVars
  BY <1>1 DEF tableVars, TableTypeOK, DistinctAddresses, ActiveInCode, Active
<1>2. CASE /\ HasBreakpoint(a)
           /\ mem' = [mem EXCEPT ![a] = bp[get_breakpoint(a)].original]
           /\ free_breakpoint(a)
  <2> DEFINE g == get_breakpoint(a)
             top == bp_size - 1
  <2>1. g \in Active /\ bp[g].address = a
    BY <1>2, GetBreakpointFinds
  <2>2. /\ top \in Active /\ top \in Nat
        /\ bp_size' = top
        /\ bp' = [bp EXCEPT ![g] = bp[top]]
    BY <1>2, <2>1 DEF free_breakpoint, Active, TableTypeOK
  <2>3. g \in Slot /\ top \in Slot
    BY <2>1, <2>2, ActiveIsSlot
  <2>4. Active' = Active \ {top}
    BY <2>2 DEF Active, TableTypeOK
  <2>5. \A i \in Active' : bp'[i] = IF i = g THEN bp[top] ELSE bp[i]
    BY <2>2, <2>3, <2>4, ActiveIsSlot DEF TableTypeOK
  <2>6. TableTypeOK'
    <3>1. bp[g] \in Breakpoint /\ bp[top] \in Breakpoint
      BY <2>3 DEF TableTypeOK
    <3>2. mem' \in [Code -> Word]
      BY <1>2, <3>1 DEF TableTypeOK, Breakpoint
    <3>3. bp' \in [Slot -> Breakpoint]
      BY <2>2, <3>1 DEF TableTypeOK
    <3>4. bp_size' \in 0 .. DBG_NBR_POINTS
      BY <2>2, TableAssumption DEF TableTypeOK
    <3> QED
      BY <3>2, <3>3, <3>4 DEF TableTypeOK
  <2>7. DistinctAddresses'
    <3> SUFFICES ASSUME NEW i \in Active', NEW j \in Active',
                        bp'[i].address = bp'[j].address
                 PROVE  i = j
      BY DEF DistinctAddresses
    <3> QED
      BY <2>2, <2>4, <2>5 DEF DistinctAddresses
  <2>8. ActiveInCode'
    BY <2>2, <2>4, <2>5 DEF ActiveInCode
  <2> QED
    BY <2>6, <2>7, <2>8
<1> QED
  BY <1>1, <1>2 DEF remove_breakpoint

(* Every step of the table preserves the invariant.                        *)
LEMMA TableInvNext == TableInv /\ [TableNext]_tableVars => TableInv'
<1> SUFFICES ASSUME TableInv, [TableNext]_tableVars
             PROVE  TableInv'
  OBVIOUS
<1>1. CASE InsertStep
  BY <1>1, InsertPreserves DEF InsertStep
<1>2. CASE RemoveStep
  BY <1>2, RemovePreserves DEF RemoveStep
<1>3. CASE WriteStep
  BY <1>3, TableAssumption
  DEF WriteStep, write_word, TableInv, TableTypeOK, DistinctAddresses, ActiveInCode, Active
<1>4. CASE InitStep
  <2>1. EmptySlot \in Breakpoint
    BY TableAssumption, Widths, SMT DEF EmptySlot, Breakpoint, NoBranch
  <2>2. TableTypeOK'
    BY <1>4, <2>1, TableAssumption DEF InitStep, dbg_init, TableInv, TableTypeOK
  <2>3. Active' = {}
    BY <1>4 DEF InitStep, dbg_init, Active
  <2> QED
    BY <2>2, <2>3 DEF TableInv, DistinctAddresses, ActiveInCode
<1>5. CASE UNCHANGED tableVars
  BY <1>5 DEF tableVars, TableInv, TableTypeOK, DistinctAddresses, ActiveInCode, Active
<1> QED
  BY <1>1, <1>2, <1>3, <1>4, <1>5 DEF TableNext

(* A command is a step of the table and its answer.                        *)
LEMMA CommandIsTableStep == [CommandsNext]_commandVars => [TableNext]_tableVars
BY DEF CommandsNext, AnswerInsert, AnswerRemove, AnswerWrite, AnswerAttach, commandVars,
       TableNext, InsertStep, RemoveStep, WriteStep, InitStep

THEOREM TableInvariant == TableSpec => []TableInv
<1>1. CommandsInit => TableInv
  BY TableInvInit DEF CommandsInit
<1>2. TableInv /\ [CommandsNext]_commandVars => TableInv'
  BY TableInvNext, CommandIsTableStep
<1> QED
  BY <1>1, <1>2, PTL DEF TableSpec

-----------------------------------------------------------------------------
(* The types hold in every reachable state.                                *)
THEOREM TableTypeCorrect == TableSpec => []TableTypeOK
<1>1. TableInv => TableTypeOK
  BY DEF TableInv
<1> QED
  BY <1>1, TableInvariant, PTL

(* No address ever has two entries: get_breakpoint and free_breakpoint,    *)
(* which stop at the first, always mean the same entry.                    *)
THEOREM AddressesStayDistinct == TableSpec => []DistinctAddresses
<1>1. TableInv => DistinctAddresses
  BY DEF TableInv
<1> QED
  BY <1>1, TableInvariant, PTL

(* A step other than dbg_init leaves the slots beyond the new fill level   *)
(* as they were: a target stopped at a breakpoint that is then removed     *)
(* still finds its trampoline.                                             *)
THEOREM SpareSlotsStay == TableSpec => SpareSlotsUntouched
<1> DEFINE Untouched == ~dbg_init => \A i \in Slot : i >= bp_size' => bp'[i] = bp[i]
<1>1. TableInv /\ [TableNext]_tableVars => [Untouched]_tableVars
  <2> SUFFICES ASSUME TableInv, TableNext, ~dbg_init,
                      NEW i \in Slot, i >= bp_size'
               PROVE  bp'[i] = bp[i]
    OBVIOUS
  <2>1. CASE InsertStep
    <3>1. PICK a \in Code, error \in ErrorCode : insert_breakpoint(a, error)
      BY <2>1 DEF InsertStep
    <3>2. CASE bp' = bp
      BY <3>2
    <3>3. CASE bp' = [bp EXCEPT ![bp_size] = Trampoline(bp_size, a)] /\ alloc_breakpoint
      BY <3>3, TableAssumption DEF alloc_breakpoint, TableInv, TableTypeOK, Slot
    <3> QED
      BY <3>1, <3>2, <3>3 DEF insert_breakpoint, tableVars
  <2>2. CASE RemoveStep
    <3>1. PICK a \in Code, error \in ErrorCode : remove_breakpoint(a, error)
      BY <2>2 DEF RemoveStep
    <3>2. CASE bp' = bp
      BY <3>2
    <3>3. CASE HasBreakpoint(a) /\ free_breakpoint(a)
      <4>1. get_breakpoint(a) \in Active
        BY <3>3, GetBreakpointFinds
      <4>2. i # get_breakpoint(a) \/ get_breakpoint(a) = bp_size - 1
        BY <3>3, <4>1, TableAssumption
        DEF free_breakpoint, Active, TableInv, TableTypeOK, Slot
      <4> QED
        BY <3>3, <4>1, <4>2, ActiveIsSlot DEF free_breakpoint, TableInv, TableTypeOK
    <3> QED
      BY <3>1, <3>2, <3>3 DEF remove_breakpoint, tableVars
  <2>3. CASE WriteStep
    BY <2>3 DEF WriteStep
  <2>4. CASE InitStep
    BY <2>4 DEF InitStep
  <2> QED
    BY <2>1, <2>2, <2>3, <2>4 DEF TableNext
<1> QED
  BY <1>1, TableInvariant, CommandIsTableStep, PTL DEF TableSpec, SpareSlotsUntouched

-----------------------------------------------------------------------------
(***************************************************************************)
(* The table implements the map.                                           *)
(***************************************************************************)

(* Through the entry in slot i the map has its address and its word.       *)
LEMMA SavedByIndex ==
  TableInv => \A i \in Active :
                /\ HasBreakpoint(bp[i].address)
                /\ get_breakpoint(bp[i].address) = i
                /\ bp[i].address \in ArmedAddresses
                /\ Saved[bp[i].address] = bp[i].original
<1> SUFFICES ASSUME TableInv, NEW i \in Active
             PROVE  /\ HasBreakpoint(bp[i].address)
                    /\ get_breakpoint(bp[i].address) = i
                    /\ bp[i].address \in ArmedAddresses
                    /\ Saved[bp[i].address] = bp[i].original
  OBVIOUS
<1>1. HasBreakpoint(bp[i].address)
  BY DEF HasBreakpoint
<1>2. get_breakpoint(bp[i].address) = i
  BY <1>1, GetBreakpointFinds DEF TableInv, DistinctAddresses
<1>3. bp[i].address \in ArmedAddresses
  BY DEF ArmedAddresses
<1> QED
  BY <1>1, <1>2, <1>3 DEF Saved

(* The map holds as many addresses as the table has entries in use.        *)
LEMMA ArmedCardinality ==
  TableInv => IsFiniteSet(ArmedAddresses) /\ Cardinality(ArmedAddresses) = bp_size
<1> SUFFICES ASSUME TableInv
             PROVE  IsFiniteSet(ArmedAddresses) /\ Cardinality(ArmedAddresses) = bp_size
  OBVIOUS
<1> DEFINE addressOf == [i \in Active |-> bp[i].address]
<1>1. IsFiniteSet(Active) /\ Cardinality(Active) = bp_size
  BY FS_Interval, TableAssumption DEF Active, TableInv, TableTypeOK
<1>2. addressOf \in Surjection(Active, ArmedAddresses)
  BY DEF ArmedAddresses, Surjection
<1>3. addressOf \in Injection(Active, ArmedAddresses)
  BY DEF ArmedAddresses, Injection, IsInjective, TableInv, DistinctAddresses
<1> QED
  BY <1>1, <1>2, <1>3, FS_Surjection

LEMMA MapCardinality == \A S : Map!Cardinality(S) = Cardinality(S)
BY DEF Map!Cardinality, Cardinality

LEMMA MapRefinementInit == CommandsInit => Map!MapInit
<1> SUFFICES ASSUME CommandsInit
             PROVE  Map!MapInit
  OBVIOUS
<1>1. ArmedAddresses = {}
  BY DEF CommandsInit, TableInit, ArmedAddresses, Active
<1> QED
  BY <1>1 DEF CommandsInit, TableInit, Map!MapInit, Saved

(* Every insertion is an insertion into the map, with the same error code. *)
LEMMA InsertRefines ==
  ASSUME TableInv, TableInv', NEW a \in Code, NEW error, insert_breakpoint(a, error)
  PROVE  Map!Insert(a, error)
<1>1. a \in ArmedAddresses <=> HasBreakpoint(a)
  BY DEF ArmedAddresses, HasBreakpoint
<1>2. DOMAIN Saved = ArmedAddresses
  BY DEF Saved
<1>3. UNCHANGED tableVars => UNCHANGED Map!mapVars
  BY DEF tableVars, Map!mapVars, Saved, ArmedAddresses, Active, get_breakpoint
<1>4. CASE HasBreakpoint(a) /\ error = "BREAKPOINT_ALREADY_EXISTS" /\ UNCHANGED tableVars
  BY <1>1, <1>2, <1>3, <1>4 DEF Map!Insert, Map!Armed
<1>5. CASE /\ ~HasBreakpoint(a) /\ TableFull
           /\ error = "NO_MEMORY_AVAILABLE" /\ UNCHANGED tableVars
  <2>1. bp_size = DBG_NBR_POINTS
    BY <1>5, TableAssumption DEF TableFull, TableInv, TableTypeOK
  <2> QED
    BY <1>1, <1>2, <1>3, <1>5, <2>1, ArmedCardinality, MapCardinality DEF Map!Insert, Map!Armed
<1>6. CASE /\ ~HasBreakpoint(a)
           /\ alloc_breakpoint
           /\ error = "SUCCESS"
           /\ bp' = [bp EXCEPT ![bp_size] = Trampoline(bp_size, a)]
           /\ mem' = [mem EXCEPT ![a] = ARM_BKPT]
  <2>1. bp_size \in Slot /\ bp_size < DBG_NBR_POINTS /\ bp_size' = bp_size + 1
    BY <1>6, TableAssumption DEF alloc_breakpoint, TableFull, Slot, TableInv, TableTypeOK
  <2>2. /\ bp'[bp_size].address = a /\ bp'[bp_size].original = mem[a]
        /\ \A i \in Active : bp'[i] = bp[i]
    <3>1. \A i \in Active : i \in Slot /\ i # bp_size
      BY ActiveIsSlot DEF TableInv
    <3> QED
      BY <1>6, <2>1, <3>1 DEF TableInv, TableTypeOK, Trampoline
  <2>3. Active' = Active \cup {bp_size}
    BY <2>1 DEF Active, TableInv, TableTypeOK
  <2>4. ArmedAddresses' = ArmedAddresses \cup {a}
    BY <2>2, <2>3 DEF ArmedAddresses
  <2>5. (TableInv => \A i \in Active :
                       /\ HasBreakpoint(bp[i].address)
                       /\ get_breakpoint(bp[i].address) = i
                       /\ bp[i].address \in ArmedAddresses
                       /\ Saved[bp[i].address] = bp[i].original)'
    BY SavedByIndex, PTL
  <2>6. Saved'[a] = mem[a]
    BY <2>2, <2>3, <2>5
  <2>7. \A b \in ArmedAddresses : Saved'[b] = Saved[b]
    BY <2>2, <2>3, <2>5, SavedByIndex DEF ArmedAddresses
  <2>8. Saved' = [b \in ArmedAddresses \cup {a} |-> IF b = a THEN mem[a] ELSE Saved[b]]
    <3>1. Saved' = [b \in ArmedAddresses' |-> Saved'[b]]
      BY DEF Saved
    <3> QED
      BY <2>4, <2>6, <2>7, <3>1
  <2> QED
    BY <1>1, <1>2, <1>6, <2>1, <2>8,
       ArmedCardinality, MapCardinality
    DEF Map!Insert, Map!Arm, Map!Armed
<1> QED
  BY <1>4, <1>5, <1>6 DEF insert_breakpoint

(* Every removal is a removal from the map: it puts back the word the      *)
(* insertion of that address displaced and forgets no other.               *)
LEMMA RemoveRefines ==
  ASSUME TableInv, TableInv', NEW a \in Code, NEW error, remove_breakpoint(a, error)
  PROVE  Map!Remove(a, error)
<1>1. a \in ArmedAddresses <=> HasBreakpoint(a)
  BY DEF ArmedAddresses, HasBreakpoint
<1>2. DOMAIN Saved = ArmedAddresses
  BY DEF Saved
<1>3. UNCHANGED tableVars => UNCHANGED Map!mapVars
  BY DEF tableVars, Map!mapVars, Saved, ArmedAddresses, Active, get_breakpoint
<1>4. CASE ~HasBreakpoint(a) /\ error = "NO_BREAKPOINT" /\ UNCHANGED tableVars
  BY <1>1, <1>2, <1>3, <1>4 DEF Map!Remove, Map!Armed
<1>5. CASE /\ HasBreakpoint(a)
           /\ error = "SUCCESS"
           /\ mem' = [mem EXCEPT ![a] = bp[get_breakpoint(a)].original]
           /\ free_breakpoint(a)
  <2> DEFINE g == get_breakpoint(a)
             top == bp_size - 1
  <2>1. g \in Active /\ bp[g].address = a
    BY <1>5, GetBreakpointFinds
  <2>2. /\ top \in Active /\ top \in Nat
        /\ bp_size' = top
        /\ bp' = [bp EXCEPT ![g] = bp[top]]
    BY <1>5, <2>1 DEF free_breakpoint, Active, TableInv, TableTypeOK
  <2>3. g \in Slot /\ top \in Slot
    BY <2>1, <2>2, ActiveIsSlot DEF TableInv
  <2>4. Active' = Active \ {top}
    BY <2>2 DEF Active, TableInv, TableTypeOK
  <2>5. \A i \in Active' : bp'[i] = IF i = g THEN bp[top] ELSE bp[i]
    BY <2>2, <2>3, <2>4, ActiveIsSlot DEF TableInv, TableTypeOK
  <2>6. \A b : b \in ArmedAddresses' <=> \E i \in Active : i # g /\ b = bp[i].address
    <3>1. \A i \in Active' : \E j \in Active : j # g /\ bp'[i] = bp[j]
      BY <2>2, <2>4, <2>5
    <3>2. \A j \in Active : j # g => \E i \in Active' : bp'[i] = bp[j]
      BY <2>1, <2>2, <2>4, <2>5
    <3> QED
      BY <3>1, <3>2 DEF ArmedAddresses
  <2>7. ArmedAddresses' = ArmedAddresses \ {a}
    BY <2>1, <2>6 DEF ArmedAddresses, TableInv, DistinctAddresses
  <2>8. (TableInv => \A i \in Active :
                       /\ HasBreakpoint(bp[i].address)
                       /\ get_breakpoint(bp[i].address) = i
                       /\ bp[i].address \in ArmedAddresses
                       /\ Saved[bp[i].address] = bp[i].original)'
    BY SavedByIndex, PTL
  <2>9. \A b \in ArmedAddresses' : Saved'[b] = Saved[b]
    <3> SUFFICES ASSUME NEW i \in Active'
                 PROVE  Saved'[bp'[i].address] = Saved[bp'[i].address]
      BY DEF ArmedAddresses
    <3>1. PICK j \in Active : bp'[i] = bp[j]
      BY <2>2, <2>4, <2>5
    <3>2. Saved'[bp'[i].address] = bp'[i].original
      BY <2>8
    <3>3. Saved[bp[j].address] = bp[j].original
      BY SavedByIndex
    <3> QED
      BY <3>1, <3>2, <3>3
  <2>10. Saved' = [b \in ArmedAddresses \ {a} |-> Saved[b]]
    <3>1. Saved' = [b \in ArmedAddresses' |-> Saved'[b]]
      BY DEF Saved
    <3> QED
      BY <2>7, <2>9, <3>1
  <2>11. Saved[a] = bp[g].original
    BY <2>1, SavedByIndex
  <2> QED
    BY <1>1, <1>2, <1>5, <2>10, <2>11 DEF Map!Remove, Map!Armed
<1> QED
  BY <1>4, <1>5 DEF remove_breakpoint

LEMMA MapRefinementNext ==
  TableInv /\ TableInv' /\ [CommandsNext]_commandVars
    => [Map!MapNext]_<<Map!mapVars, answer>>
<1> SUFFICES ASSUME TableInv, TableInv', [CommandsNext]_commandVars
             PROVE  [Map!MapNext]_<<Map!mapVars, answer>>
  OBVIOUS
<1> USE DEF cmd_error, Map!Answer
<1>1. CASE AnswerInsert
  <2>1. PICK a \in Code, error \in ErrorCode :
          insert_breakpoint(a, error) /\ cmd_error("insert", a, error)
    BY <1>1 DEF AnswerInsert
  <2>2. error \in {"SUCCESS", "BREAKPOINT_ALREADY_EXISTS", "NO_MEMORY_AVAILABLE"}
    BY <2>1 DEF insert_breakpoint
  <2>3. Map!Insert(a, error)
    BY <2>1, InsertRefines
  <2> QED
    BY <2>1, <2>2, <2>3 DEF Map!MapNext
<1>2. CASE AnswerRemove
  <2>1. PICK a \in Code, error \in ErrorCode :
          remove_breakpoint(a, error) /\ cmd_error("remove", a, error)
    BY <1>2 DEF AnswerRemove
  <2>2. error \in {"SUCCESS", "NO_BREAKPOINT"}
    BY <2>1 DEF remove_breakpoint
  <2>3. Map!Remove(a, error)
    BY <2>1, RemoveRefines
  <2> QED
    BY <2>1, <2>2, <2>3 DEF Map!MapNext
<1>3. CASE AnswerWrite
  <2>1. PICK a \in Code, w \in HostWord :
          /\ write_word(a, w) /\ UNCHANGED <<bp, bp_size>>
          /\ cmd_error("write", a, "SUCCESS")
    BY <1>3 DEF AnswerWrite
  <2>2. Saved' = Saved
    BY <2>1 DEF Saved, ArmedAddresses, Active, get_breakpoint
  <2> QED
    BY <2>1, <2>2, TableAssumption DEF write_word, Map!MapNext, Map!Write
<1>4. CASE AnswerAttach
  <2>1. ArmedAddresses' = {}
    BY <1>4 DEF AnswerAttach, dbg_init, ArmedAddresses, Active
  <2>2. Saved' = [a \in {} |-> ARM_BKPT]
    BY <2>1 DEF Saved
  <2> QED
    BY <1>4, <2>2 DEF AnswerAttach, Map!MapNext, Map!Forget
<1>5. CASE UNCHANGED commandVars
  BY <1>5 DEF commandVars, tableVars, Map!mapVars, Saved, ArmedAddresses, Active, get_breakpoint
<1> QED
  BY <1>1, <1>2, <1>3, <1>4, <1>5 DEF CommandsNext

(* The array with its swap is a map from addresses to displaced words,     *)
(* answer by answer: the error code of every insertion and removal is the  *)
(* map's, and a removal restores the right word, for every number of       *)
(* slots and every history.                                                *)
THEOREM TableImplementsMap == TableSpec => ImplementsMap
<1> QED
  BY MapRefinementInit, MapRefinementNext, TableInvariant, PTL
  DEF TableSpec, ImplementsMap, Map!MapSpec
=============================================================================
