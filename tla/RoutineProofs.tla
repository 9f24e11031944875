--------------------------- MODULE RoutineProofs ----------------------------
(***************************************************************************)
(* The routines the debugger brings along.  The copies, fills and lengths of*)
(* MemMove are exact for every size of memory, every value of a byte and   *)
(* every overlap of two ranges; the decoder of Base64 for every command and*)
(* everything that may follow it.  What Darm decodes and Relocation moves  *)
(* is a branch for every word of 32 bits, read off the tables and the order*)
(* of the tests.                                                           *)
(***************************************************************************)
EXTENDS MemMove, Base64, Relocation, SequenceTheorems, WellFoundedInduction, TLAPS

CallType ==
  [fn : {"none", "memmove", "memset", "strlen"}, dest : Cell, src : Cell, n : 0 .. Size, c : Byte]

MemTypeOK ==
  /\ bytes \in [Cell -> Byte]
  /\ before \in [Cell -> Byte]
  /\ call \in CallType
  /\ i \in Nat
  /\ returned \in BOOLEAN

(***************************************************************************)
(* The loop invariants.  What a copy still has to read is as it was: the   *)
(* bytes already written are behind the loop.                              *)
(***************************************************************************)
CopyLoop ==
  call.fn = "memmove" =>
    /\ Fits(call.dest, call.n) /\ Fits(call.src, call.n)
    /\ i \in 0 .. call.n
    /\ \A a \in Cell :
         bytes[a] = IF /\ call.dest < call.src
                       /\ call.dest <= a /\ a < call.dest + i
                    THEN before[call.src + (a - call.dest)]
                    ELSE IF /\ call.src < call.dest
                            /\ call.dest + i <= a /\ a < call.dest + call.n
                    THEN before[call.src + (a - call.dest)]
                    ELSE before[a]
    /\ returned => /\ call.dest < call.src => i = call.n
                   /\ call.src < call.dest => i = 0

SetLoop ==
  call.fn = "memset" =>
    /\ Fits(call.dest, call.n)
    /\ i \in 0 .. call.n
    /\ \A a \in Cell :
         bytes[a] = IF call.dest + i <= a /\ a < call.dest + call.n THEN call.c ELSE before[a]
    /\ returned => i = 0

CountLoop ==
  call.fn = "strlen" =>
    /\ bytes = before
    /\ \E z \in Cell : call.src + i <= z /\ bytes[z] = Zero
    /\ \A k \in 0 .. i - 1 : bytes[call.src + k] # Zero
    /\ returned => bytes[call.src + i] = Zero

NotCalled == call.fn = "none" => i = 0 /\ returned = FALSE

MemInv == MemTypeOK /\ CopyLoop /\ SetLoop /\ CountLoop /\ NotCalled

-----------------------------------------------------------------------------
LEMMA CellsAreNumbers == Cell \subseteq Nat /\ Size \in Nat /\ Size > 0 /\ Zero \in Byte
BY MemAssumption, SMT DEF Cell

LEMMA CallArguments ==
  MemInv => /\ call.dest \in Nat /\ call.src \in Nat /\ call.n \in Nat /\ call.c \in Byte
            /\ i \in Nat
<1> SUFFICES ASSUME MemInv PROVE /\ call.dest \in Nat /\ call.src \in Nat /\ call.n \in Nat
                                 /\ call.c \in Byte /\ i \in Nat
  OBVIOUS
<1>1. call \in CallType /\ i \in Nat
  BY DEF MemInv, MemTypeOK
<1>2. call.dest \in Cell /\ call.src \in Cell /\ call.n \in 0 .. Size /\ call.c \in Byte
  BY <1>1 DEF CallType
<1>3. call.n \in Nat
  BY <1>2, CellsAreNumbers, SMT
<1> QED
  BY <1>1, <1>2, <1>3, CellsAreNumbers

LEMMA MemInvInit == MemInit => MemInv
<1> SUFFICES ASSUME MemInit PROVE MemInv
  OBVIOUS
<1>1. 0 \in Cell
  BY MemAssumption, SMT DEF Cell
<1>2. NoCall \in CallType /\ NoCall.fn = "none"
  BY <1>1, CellsAreNumbers, SMT DEF NoCall, CallType
<1> QED
  BY <1>2 DEF MemInit, MemInv, MemTypeOK, CopyLoop, SetLoop, CountLoop, NotCalled

(***************************************************************************)
(* The beginning of a call: nothing has been written, everything is to be. *)
(***************************************************************************)
LEMMA CallKeepsTypes ==
  ASSUME MemTypeOK, NEW fn \in {"memmove", "memset", "strlen"}, NEW dest \in Cell, NEW src \in Cell,
         NEW n \in 0 .. Size, NEW c \in Byte, NEW first \in 0 .. Size,
         Call(fn, dest, src, n, c, first)
  PROVE  /\ MemTypeOK'
         /\ call'.fn = fn /\ call'.dest = dest /\ call'.src = src /\ call'.n = n /\ call'.c = c
         /\ call.fn = "none"
         /\ i' = first /\ bytes' = bytes /\ before' = bytes /\ returned' = returned
<1>1. [fn |-> fn, dest |-> dest, src |-> src, n |-> n, c |-> c] \in CallType
  BY DEF CallType
<1> QED
  BY <1>1, CellsAreNumbers, SMT DEF Call, MemTypeOK

LEMMA MemmovePreserves ==
  ASSUME MemInv, NEW dest \in Cell, NEW src \in Cell, NEW n \in 0 .. Size, memmove(dest, src, n)
  PROVE  MemInv'
<1> DEFINE first == IF Upwards(dest, src) THEN 0 ELSE n
<1>1. first \in 0 .. Size /\ Zero \in Byte
  BY CellsAreNumbers, SMT
<1>2. Fits(dest, n) /\ Fits(src, n) /\ Call("memmove", dest, src, n, Zero, first)
  BY DEF memmove
<1> HIDE DEF first
<1>3. /\ MemTypeOK'
      /\ call'.fn = "memmove" /\ call'.dest = dest /\ call'.src = src /\ call'.n = n
      /\ call.fn = "none"
      /\ i' = first /\ bytes' = bytes /\ before' = bytes /\ returned' = returned
  BY <1>1, <1>2, CallKeepsTypes DEF MemInv
<1>4. returned' = FALSE
  BY <1>3 DEF MemInv, NotCalled
<1>5. CopyLoop'
  BY <1>2, <1>3, <1>4, CellsAreNumbers, SMT DEF CopyLoop, Fits, Upwards, first
<1> QED
  BY <1>3, <1>5 DEF MemInv, SetLoop, CountLoop, NotCalled

LEMMA MemsetPreserves ==
  ASSUME MemInv, NEW s \in Cell, NEW c \in Byte, NEW n \in 0 .. Size, memset(s, c, n)
  PROVE  MemInv'
<1>1. Fits(s, n) /\ Call("memset", s, s, n, c, n)
  BY DEF memset
<1>2. /\ MemTypeOK'
      /\ call'.fn = "memset" /\ call'.dest = s /\ call'.n = n /\ call'.c = c
      /\ call.fn = "none"
      /\ i' = n /\ bytes' = bytes /\ before' = bytes /\ returned' = returned
  BY <1>1, CallKeepsTypes DEF MemInv
<1>3. returned' = FALSE
  BY <1>2 DEF MemInv, NotCalled
<1>4. SetLoop'
  BY <1>1, <1>2, <1>3, CellsAreNumbers, SMT DEF SetLoop, Fits
<1> QED
  BY <1>2, <1>4 DEF MemInv, CopyLoop, CountLoop, NotCalled

LEMMA StrlenPreserves ==
  ASSUME MemInv, NEW s \in Cell, strlen(s)
  PROVE  MemInv'
<1>1. 0 \in 0 .. Size /\ Zero \in Byte
  BY CellsAreNumbers, SMT
<1>2. Call("strlen", s, s, 0, Zero, 0)
  BY DEF strlen
<1>3. /\ MemTypeOK'
      /\ call'.fn = "strlen" /\ call'.src = s
      /\ call.fn = "none"
      /\ i' = 0 /\ bytes' = bytes /\ before' = bytes /\ returned' = returned
  BY <1>1, <1>2, CallKeepsTypes DEF MemInv
<1>4. returned' = FALSE
  BY <1>3 DEF MemInv, NotCalled
<1>5. PICK z \in Cell : z >= s /\ bytes[z] = Zero
  BY DEF strlen
<1>6. s + 0 <= z /\ bytes'[z] = Zero
  BY <1>3, <1>5, CellsAreNumbers, SMT
<1>7. \A k \in 0 .. 0 - 1 : bytes'[s + k] # Zero
  BY SMT
<1>8. CountLoop'
  BY <1>3, <1>4, <1>6, <1>7 DEF CountLoop
<1> QED
  BY <1>3, <1>8 DEF MemInv, CopyLoop, SetLoop, NotCalled

(***************************************************************************)
(* One turn of each loop.                                                  *)
(***************************************************************************)
LEMMA CopyUpPreserves == MemInv /\ CopyUp => MemInv'
<1> SUFFICES ASSUME MemInv, CopyUp PROVE MemInv'
  OBVIOUS
<1> DEFINE dest == call.dest
           src  == call.src
           n    == call.n
<1>1. /\ call.fn = "memmove" /\ dest \in Nat /\ src \in Nat /\ n \in Nat
      /\ dest < src /\ i < n /\ dest + n <= Size /\ src + n <= Size /\ i \in Nat
  BY CellsAreNumbers, SMT
     DEF CopyUp, CopyingUp, Upwards, MemInv, MemTypeOK, CallType, CopyLoop, Fits, Cell
<1>2. dest + i \in Cell /\ src + i \in Cell
  BY <1>1, CellsAreNumbers, SMT DEF Cell
<1>3. bytes[src + i] = before[src + i]
  BY <1>1, <1>2, CellsAreNumbers, SMT DEF MemInv, CopyLoop
<1>4. /\ bytes' = [bytes EXCEPT ![dest + i] = bytes[src + i]]
      /\ i' = i + 1 /\ call' = call /\ returned' = returned /\ before' = before
  BY DEF CopyUp
<1>5. MemTypeOK'
  BY <1>1, <1>2, <1>4, SMT DEF MemInv, MemTypeOK
<1>6. ASSUME NEW a \in Cell
      PROVE  bytes'[a] = IF dest <= a /\ a < dest + i' THEN before[src + (a - dest)] ELSE before[a]
  <2>1. CASE a = dest + i
    <3>1. src + (a - dest) = src + i /\ dest <= a /\ a < dest + (i + 1)
      BY <1>1, <2>1, SMT
    <3>2. bytes'[a] = bytes[src + i]
      BY <1>2, <1>4, <2>1 DEF MemInv, MemTypeOK
    <3> QED
      BY <1>3, <1>4, <3>1, <3>2
  <2>2. CASE a # dest + i
    <3>1. bytes'[a] = bytes[a]
      BY <1>4, <2>2 DEF MemInv, MemTypeOK
    <3>2. bytes[a] = IF dest <= a /\ a < dest + i THEN before[src + (a - dest)] ELSE before[a]
      BY <1>1, CellsAreNumbers, SMT DEF MemInv, CopyLoop
    <3>3. (dest <= a /\ a < dest + i) <=> (dest <= a /\ a < dest + (i + 1))
      BY <1>1, <2>2, CellsAreNumbers, SMT
    <3> QED
      BY <1>4, <3>1, <3>2, <3>3
  <2> QED
    BY <2>1, <2>2
<1>7. returned = FALSE
  BY <1>1, SMT DEF MemInv, CopyLoop, MemTypeOK
<1>8. CopyLoop'
  BY <1>1, <1>4, <1>6, <1>7, SMT DEF CopyLoop, Fits
<1> QED
  BY <1>1, <1>4, <1>5, <1>8 DEF MemInv, SetLoop, CountLoop, NotCalled

LEMMA CopyDownPreserves == MemInv /\ CopyDown => MemInv'
<1> SUFFICES ASSUME MemInv, CopyDown PROVE MemInv'
  OBVIOUS
<1> DEFINE dest == call.dest
           src  == call.src
           n    == call.n
<1>1. /\ call.fn = "memmove" /\ dest \in Nat /\ src \in Nat /\ n \in Nat
      /\ src < dest /\ 0 < i /\ i <= n /\ dest + n <= Size /\ src + n <= Size /\ i \in Nat
  BY CellsAreNumbers, SMT
     DEF CopyDown, CopyingDown, Upwards, MemInv, MemTypeOK, CallType, CopyLoop, Fits, Cell
<1>2. dest + i - 1 \in Cell /\ src + i - 1 \in Cell
  BY <1>1, CellsAreNumbers, SMT DEF Cell
<1>3. bytes[src + i - 1] = before[src + i - 1]
  BY <1>1, <1>2, CellsAreNumbers, SMT DEF MemInv, CopyLoop
<1>4. /\ bytes' = [bytes EXCEPT ![dest + i - 1] = bytes[src + i - 1]]
      /\ i' = i - 1 /\ call' = call /\ returned' = returned /\ before' = before
  BY DEF CopyDown
<1>5. MemTypeOK'
  BY <1>1, <1>2, <1>4, SMT DEF MemInv, MemTypeOK
<1>6. ASSUME NEW a \in Cell
      PROVE  bytes'[a] = IF dest + i' <= a /\ a < dest + n THEN before[src + (a - dest)] ELSE before[a]
  <2>1. CASE a = dest + i - 1
    <3>1. src + (a - dest) = src + i - 1 /\ dest + (i - 1) <= a /\ a < dest + n
      BY <1>1, <2>1, SMT
    <3>2. bytes'[a] = bytes[src + i - 1]
      BY <1>2, <1>4, <2>1 DEF MemInv, MemTypeOK
    <3> QED
      BY <1>3, <1>4, <3>1, <3>2
  <2>2. CASE a # dest + i - 1
    <3>1. bytes'[a] = bytes[a]
      BY <1>4, <2>2 DEF MemInv, MemTypeOK
    <3>2. bytes[a] = IF dest + i <= a /\ a < dest + n THEN before[src + (a - dest)] ELSE before[a]
      BY <1>1, CellsAreNumbers, SMT DEF MemInv, CopyLoop
    <3>3. (dest + i <= a /\ a < dest + n) <=> (dest + (i - 1) <= a /\ a < dest + n)
      BY <1>1, <2>2, CellsAreNumbers, SMT
    <3> QED
      BY <1>4, <3>1, <3>2, <3>3
  <2> QED
    BY <2>1, <2>2
<1>7. returned = FALSE
  BY <1>1, SMT DEF MemInv, CopyLoop, MemTypeOK
<1>8. CopyLoop'
  BY <1>1, <1>4, <1>6, <1>7, SMT DEF CopyLoop, Fits
<1> QED
  BY <1>1, <1>4, <1>5, <1>8 DEF MemInv, SetLoop, CountLoop, NotCalled

LEMMA SetDownPreserves == MemInv /\ SetDown => MemInv'
<1> SUFFICES ASSUME MemInv, SetDown PROVE MemInv'
  OBVIOUS
<1> DEFINE dest == call.dest
           n    == call.n
<1>1. /\ call.fn = "memset" /\ dest \in Nat /\ n \in Nat /\ call.c \in Byte
      /\ 0 < i /\ i <= n /\ dest + n <= Size /\ i \in Nat
  BY CellsAreNumbers, SMT
     DEF SetDown, Setting, MemInv, MemTypeOK, CallType, SetLoop, Fits, Cell
<1>2. dest + i - 1 \in Cell
  BY <1>1, CellsAreNumbers, SMT DEF Cell
<1>3. /\ bytes' = [bytes EXCEPT ![dest + i - 1] = call.c]
      /\ i' = i - 1 /\ call' = call /\ returned' = returned /\ before' = before
  BY DEF SetDown
<1>4. MemTypeOK'
  BY <1>1, <1>2, <1>3, SMT DEF MemInv, MemTypeOK
<1>5. ASSUME NEW a \in Cell
      PROVE  bytes'[a] = IF dest + i' <= a /\ a < dest + n THEN call.c ELSE before[a]
  <2>1. CASE a = dest + i - 1
    <3>1. dest + (i - 1) <= a /\ a < dest + n
      BY <1>1, <2>1, SMT
    <3> QED
      BY <1>2, <1>3, <2>1, <3>1 DEF MemInv, MemTypeOK
  <2>2. CASE a # dest + i - 1
    <3>1. bytes'[a] = bytes[a]
      BY <1>3, <2>2 DEF MemInv, MemTypeOK
    <3>2. bytes[a] = IF dest + i <= a /\ a < dest + n THEN call.c ELSE before[a]
      BY <1>1 DEF MemInv, SetLoop
    <3>3. (dest + i <= a /\ a < dest + n) <=> (dest + (i - 1) <= a /\ a < dest + n)
      BY <1>1, <2>2, CellsAreNumbers, SMT
    <3> QED
      BY <1>3, <3>1, <3>2, <3>3
  <2> QED
    BY <2>1, <2>2
<1>6. returned = FALSE
  BY <1>1, SMT DEF MemInv, SetLoop, MemTypeOK
<1>7. SetLoop'
  BY <1>1, <1>3, <1>5, <1>6, SMT DEF SetLoop, Fits
<1> QED
  BY <1>1, <1>3, <1>4, <1>7 DEF MemInv, CopyLoop, CountLoop, NotCalled

LEMMA CountUpPreserves == MemInv /\ CountUp => MemInv'
<1> SUFFICES ASSUME MemInv, CountUp PROVE MemInv'
  OBVIOUS
<1>1. /\ call.fn = "strlen" /\ bytes[call.src + i] # Zero /\ i \in Nat /\ call.src \in Nat
      /\ bytes' = bytes /\ i' = i + 1 /\ call' = call /\ returned' = returned /\ before' = before
  BY CellsAreNumbers DEF CountUp, Counting, MemInv, MemTypeOK, CallType
<1>2. MemTypeOK'
  BY <1>1, SMT DEF MemInv, MemTypeOK
<1>3. PICK z \in Cell : call.src + i <= z /\ bytes[z] = Zero
  BY <1>1 DEF MemInv, CountLoop
<1>4. call.src + (i + 1) <= z
  <2>1. z # call.src + i
    BY <1>1, <1>3
  <2> QED
    BY <1>1, <1>3, <2>1, CellsAreNumbers, SMT
<1>5. ASSUME NEW k \in 0 .. i' - 1 PROVE bytes[call.src + k] # Zero
  <2>1. k = i \/ k \in 0 .. i - 1
    BY <1>1, SMT
  <2> QED
    BY <1>1, <2>1 DEF MemInv, CountLoop
<1>6. returned = FALSE
  BY <1>1 DEF MemInv, CountLoop, MemTypeOK
<1>7. CountLoop'
  <2>1. bytes' = before'
    BY <1>1 DEF MemInv, CountLoop
  <2>2. call'.src + i' <= z /\ bytes'[z] = Zero
    BY <1>1, <1>3, <1>4
  <2> QED
    BY <1>1, <1>5, <1>6, <2>1, <2>2 DEF CountLoop
<1> QED
  BY <1>1, <1>2, <1>7 DEF MemInv, CopyLoop, SetLoop, NotCalled

LEMMA ReturnPreserves == MemInv /\ ReturnFromCall => MemInv'
<1> SUFFICES ASSUME MemInv, ReturnFromCall PROVE MemInv'
  OBVIOUS
<1>1. /\ bytes' = bytes /\ call' = call /\ i' = i /\ before' = before /\ returned' = TRUE
      /\ call.fn # "none"
      /\ ~CopyingUp /\ ~CopyingDown /\ ~Setting /\ ~Counting
  BY DEF ReturnFromCall
<1>2. MemTypeOK'
  BY <1>1 DEF MemInv, MemTypeOK
<1>3. CopyLoop'
  <2> SUFFICES ASSUME call.fn = "memmove" PROVE CopyLoop'
    BY <1>1 DEF CopyLoop
  <2>1. i \in 0 .. call.n /\ call.dest \in Nat /\ call.src \in Nat /\ call.n \in Nat
    BY CallArguments DEF MemInv, CopyLoop
  <2>2. (call.dest < call.src => i = call.n) /\ (call.src < call.dest => i = 0)
    BY <1>1, <2>1, SMT DEF CopyingUp, CopyingDown, Upwards
  <2> QED
    BY <1>1, <2>2 DEF MemInv, CopyLoop, Fits
<1>4. SetLoop'
  <2> SUFFICES ASSUME call.fn = "memset" PROVE SetLoop'
    BY <1>1 DEF SetLoop
  <2>1. i \in 0 .. call.n /\ call.n \in Nat
    BY CallArguments DEF MemInv, SetLoop
  <2>2. i = 0
    BY <1>1, <2>1, SMT DEF Setting
  <2> QED
    BY <1>1, <2>2 DEF MemInv, SetLoop, Fits
<1>5. CountLoop'
  BY <1>1 DEF MemInv, CountLoop, Counting
<1> QED
  BY <1>1, <1>2, <1>3, <1>4, <1>5 DEF MemInv, NotCalled

LEMMA MemInvNext == MemInv /\ [MemNext]_memVars => MemInv'
<1> SUFFICES ASSUME MemInv, [MemNext]_memVars PROVE MemInv'
  OBVIOUS
<1>1. CASE \E dest, src \in Cell, n \in 0 .. Size : memmove(dest, src, n)
  BY <1>1, MemmovePreserves
<1>2. CASE \E s \in Cell, c \in Byte, n \in 0 .. Size : memset(s, c, n)
  BY <1>2, MemsetPreserves
<1>3. CASE \E s \in Cell : strlen(s)
  BY <1>3, StrlenPreserves
<1>4. CASE CopyUp
  BY <1>4, CopyUpPreserves
<1>5. CASE CopyDown
  BY <1>5, CopyDownPreserves
<1>6. CASE SetDown
  BY <1>6, SetDownPreserves
<1>7. CASE CountUp
  BY <1>7, CountUpPreserves
<1>8. CASE ReturnFromCall
  BY <1>8, ReturnPreserves
<1>9. CASE UNCHANGED memVars
  BY <1>9 DEF memVars, MemInv, MemTypeOK, CopyLoop, SetLoop, CountLoop, NotCalled, Fits
<1> QED
  BY <1>1, <1>2, <1>3, <1>4, <1>5, <1>6, <1>7, <1>8, <1>9 DEF MemNext

(* The invariant the next two theorems rest on.                            *)
THEOREM MemInvariant == MemSpec => []MemInv
BY MemInvInit, MemInvNext, PTL DEF MemSpec

(* However the ranges of a memmove (hbootlib.c:63-84) overlap, it copies   *)
(* what was at the source before, and changes no other byte.               *)
THEOREM CopiesAreExact == MemSpec => []CopyIsExact
<1>1. MemInv => CopyIsExact
  <2> SUFFICES ASSUME MemInv, returned, call.fn = "memmove"
               PROVE  bytes = Copied(before, call.dest, call.src, call.n)
    BY DEF CopyIsExact
  <2>1. call.dest \in Nat /\ call.src \in Nat /\ call.n \in Nat
    BY CallArguments
  <2>2. ASSUME NEW a \in Cell
        PROVE  bytes[a] = IF a \in Span(call.dest, call.n)
                          THEN before[call.src + (a - call.dest)] ELSE before[a]
    <3>1. a \in Span(call.dest, call.n) <=> call.dest <= a /\ a < call.dest + call.n
      BY <2>1, CellsAreNumbers, SMT DEF Span
    <3>2. CASE call.dest < call.src
      BY <2>1, <3>1, <3>2, CellsAreNumbers, SMT DEF MemInv, CopyLoop
    <3>3. CASE call.src < call.dest
      BY <2>1, <3>1, <3>3, CellsAreNumbers, SMT DEF MemInv, CopyLoop
    <3>4. CASE call.src = call.dest
      <4>1. call.src + (a - call.dest) = a
        BY <2>1, <3>4, CellsAreNumbers, SMT
      <4>2. bytes[a] = before[a]
        BY <2>1, <3>4, CellsAreNumbers, SMT DEF MemInv, CopyLoop
      <4> QED
        BY <4>1, <4>2
    <3> QED
      BY <2>1, <3>2, <3>3, <3>4, SMT
  <2> QED
    BY <2>2 DEF Copied, MemInv, MemTypeOK
<1> QED
  BY <1>1, MemInvariant, PTL

(* A memset writes its range and no other byte, and strlen finds the first *)
(* zero without reading beyond it (hbootlib.c:86-102).                     *)
THEOREM FillsAndLengthsAreExact == MemSpec => []SetAndLengthExact
<1>1. MemInv => SetAndLengthExact
  <2> SUFFICES ASSUME MemInv, returned PROVE SetAndLengthExact
    BY DEF SetAndLengthExact
  <2>1. ASSUME call.fn = "memset"
        PROVE  bytes = [a \in Cell |-> IF a \in Span(call.dest, call.n) THEN call.c ELSE before[a]]
    <3>1. call.dest \in Nat /\ call.n \in Nat
      BY CallArguments
    <3>2. ASSUME NEW a \in Cell
          PROVE  bytes[a] = IF a \in Span(call.dest, call.n) THEN call.c ELSE before[a]
      <4>1. a \in Span(call.dest, call.n) <=> call.dest <= a /\ a < call.dest + call.n
        BY <3>1, CellsAreNumbers, SMT DEF Span
      <4> QED
        BY <2>1, <3>1, <4>1, CellsAreNumbers, SMT DEF MemInv, SetLoop
    <3> QED
      BY <3>2 DEF MemInv, MemTypeOK
  <2>2. ASSUME call.fn = "strlen"
        PROVE  /\ bytes = before
               /\ bytes[call.src + i] = Zero
               /\ \A k \in 0 .. i - 1 : bytes[call.src + k] # Zero
    BY <2>2 DEF MemInv, CountLoop
  <2> QED
    BY <2>1, <2>2 DEF SetAndLengthExact
<1> QED
  BY <1>1, MemInvariant, PTL

-----------------------------------------------------------------------------
(***************************************************************************)
(* The decoder: whatever follows a command, and whatever the compiler      *)
(* makes of char.  Character 4q + d + 1 of the encoded command carries     *)
(* bits of the command unless it is padding.                               *)
(***************************************************************************)
Bytes       == Len(command)
ByteAt(k)   == IF k <= Bytes THEN command[k] ELSE 0
Proper(q, d) == 3 * q < Bytes /\ d <= Bytes - 3 * q

B64Types ==
  /\ signedChar \in BOOLEAN
  /\ command \in Seq(Octet) /\ code \in Seq(Octet) /\ plain \in Seq(Nat)
  /\ decoder \in [step : {"a", "b", "c", "d"}, next : Nat \ {0}]
  /\ decoder.next <= Len(code) + 1 /\ Len(plain) > 0

Sent == \A q \in Nat, d \in 0 .. 3 : Proper(q, d) =>
  /\ 4 * q + d + 1 <= Len(code)
  /\ code[4 * q + d + 1] =
       Alphabet(Sextets(ByteAt(3 * q + 1), ByteAt(3 * q + 2), ByteAt(3 * q + 3))[d + 1])

(* Bytes that are complete after d characters of a quartet, and what the   *)
(* next one holds of its bits.                                             *)
Complete(d)   == IF d = 0 THEN 0 ELSE d - 1
Begun(d, byte) ==
  IF d = 1 THEN (byte \div 4) * 4 ELSE IF d = 2 THEN (byte \div 16) * 16 ELSE (byte \div 64) * 64
StepAt(d) == IF d = 0 THEN "a" ELSE IF d = 1 THEN "b" ELSE IF d = 2 THEN "c" ELSE "d"

Decoded(n) == \A k \in 1 .. n : plain[k] = command[k]

Within(q, d) ==
  /\ Proper(q, d)
  /\ decoder.next = 4 * q + d + 1 /\ decoder.step = StepAt(d)
  /\ Len(plain) = 3 * q + Complete(d) + 1
  /\ Decoded(3 * q + Complete(d))
  /\ d > 0 => plain[Len(plain)] = Begun(d, command[Len(plain)])
Beyond == Len(plain) > Bytes /\ Decoded(Bytes)

B64Inv == B64Types /\ Sent /\ (Beyond \/ \E q \in Nat, d \in 0 .. 3 : Within(q, d))

-----------------------------------------------------------------------------
(***************************************************************************)
(* The alphabet, and what four characters make of three text.             *)
(***************************************************************************)
LEMMA AlphabetDecoded ==
  ASSUME NEW v \in 0 .. 63
  PROVE  /\ Alphabet(v) \in Octet /\ base64_decode_value(Alphabet(v)) = v
         /\ Fragment(Alphabet(v)) = v /\ ~Skipped(Alphabet(v))
<1>1. /\ v < 26 => Alphabet(v) = 65 + v
      /\ v \in 26 .. 51 => Alphabet(v) = 71 + v
      /\ v \in 52 .. 61 => Alphabet(v) = v - 4
      /\ v = 62 => Alphabet(v) = 43
      /\ v = 63 => Alphabet(v) = 47
  BY DEF Alphabet
<1>2. v < 26 \/ v \in 26 .. 51 \/ v \in 52 .. 61 \/ v = 62 \/ v = 63
  OBVIOUS
<1>3. Alphabet(v) \in 43 .. 122
  BY <1>1, <1>2
<1>4. (Alphabet(v) - 43) % 256 = Alphabet(v) - 43 /\ Alphabet(v) - 43 \in 0 .. 79
  BY <1>3
<1>5. base64_decode_value(Alphabet(v)) = Decoding(Alphabet(v) - 43)
  BY <1>4 DEF base64_decode_value, decoding_size
<1>6. Decoding(Alphabet(v) - 43) = v
  BY <1>1, <1>2 DEF Decoding
<1> QED
  BY <1>3, <1>5, <1>6 DEF Octet, Fragment, Skipped

LEMMA SextetsJoin ==
  ASSUME NEW a \in Octet, NEW b \in Octet, NEW c \in Octet
  PROVE  /\ a \div 4 \in 0 .. 63 /\ (a % 4) * 16 + b \div 16 \in 0 .. 63
         /\ (b % 16) * 4 + c \div 64 \in 0 .. 63 /\ c % 64 \in 0 .. 63
         /\ StepA(a \div 4) = Begun(1, a)
         /\ StepB(Begun(1, a), (a % 4) * 16 + b \div 16) = <<a, Begun(2, b)>>
         /\ StepC(Begun(2, b), (b % 16) * 4 + c \div 64) = <<b, Begun(3, c)>>
         /\ StepD(Begun(3, c), c % 64) = c
<1>1. /\ a \div 4 \in 0 .. 63 /\ a % 4 \in 0 .. 3 /\ a = 4 * (a \div 4) + (a % 4)
      /\ b \div 16 \in 0 .. 15 /\ b % 16 \in 0 .. 15 /\ b = 16 * (b \div 16) + (b % 16)
      /\ c \div 64 \in 0 .. 3 /\ c % 64 \in 0 .. 63 /\ c = 64 * (c \div 64) + (c % 64)
  BY DEF Octet
<1>2. StepA(a \div 4) = Begun(1, a)
  BY <1>1 DEF StepA, Begun
<1>3. StepB(Begun(1, a), (a % 4) * 16 + b \div 16) = <<a, Begun(2, b)>>
  <2> DEFINE f == (a % 4) * 16 + b \div 16
  <2>1. f \in 0 .. 63 /\ f % 64 = f /\ f \div 16 = a % 4 /\ f % 16 = b \div 16
    BY <1>1
  <2> HIDE DEF f
  <2>2. High(f) = a % 4
    BY <2>1 DEF High
  <2>3. Begun(1, a) + High(f) = a /\ (f % 16) * 16 = Begun(2, b)
    <3>1. Begun(1, a) = (a \div 4) * 4 /\ Begun(2, b) = (b \div 16) * 16
      BY DEF Begun
    <3>2. (a \div 4) * 4 + (a % 4) = a
      BY <1>1
    <3> QED
      BY <2>1, <2>2, <3>1, <3>2
  <2> QED
    BY <2>3 DEF StepB, f
<1>4. StepC(Begun(2, b), (b % 16) * 4 + c \div 64) = <<b, Begun(3, c)>>
  <2> DEFINE f == (b % 16) * 4 + c \div 64
  <2>1. f \in 0 .. 63 /\ f % 64 = f /\ f \div 4 = b % 16 /\ f % 4 = c \div 64
    BY <1>1
  <2> HIDE DEF f
  <2>2. Middle(f) = b % 16
    BY <2>1 DEF Middle
  <2>3. Begun(2, b) + Middle(f) = b /\ (f % 4) * 64 = Begun(3, c)
    <3>1. Begun(2, b) = (b \div 16) * 16 /\ Begun(3, c) = (c \div 64) * 64
      BY DEF Begun
    <3>2. (b \div 16) * 16 + (b % 16) = b
      BY <1>1
    <3> QED
      BY <2>1, <2>2, <3>1, <3>2
  <2> QED
    BY <2>3 DEF StepC, f
<1>5. StepD(Begun(3, c), c % 64) = c
  BY <1>1 DEF StepD, Begun
<1> QED
  BY <1>1, <1>2, <1>3, <1>4, <1>5

(***************************************************************************)
(* The encoded command.                                                    *)
(***************************************************************************)
LEMMA EncodedOf ==
  ASSUME NEW text \in Seq(Octet)
  PROVE  /\ Encoded(text) \in Seq(Octet)
         /\ \A q \in Nat, d \in 0 .. 3 :
              3 * q < Len(text) /\ d <= Len(text) - 3 * q =>
                /\ 4 * q + d + 1 \in 1 .. Len(Encoded(text))
                /\ Encoded(text)[4 * q + d + 1] =
                     LET At(k) == IF k <= Len(text) THEN text[k] ELSE 0
                     IN Alphabet(Sextets(At(3 * q + 1), At(3 * q + 2), At(3 * q + 3))[d + 1])
<1> DEFINE n     == Len(text)
           At(k) == IF k <= n THEN text[k] ELSE 0
           Q(q)  == Quartet(At(3 * q + 1), At(3 * q + 2), At(3 * q + 3))
           Char(k) == LET q == (k - 1) \div 4
                      IN IF (k - 1) % 4 > n - 3 * q THEN Padding ELSE Q(q)[((k - 1) % 4) + 1]
           m == 4 * ((n + 2) \div 3)
<1>1. Encoded(text) = [k \in 1 .. m |-> Char(k)]
  BY DEF Encoded
<1>2. n \in Nat /\ m \in Nat
  OBVIOUS
<1>3. ASSUME NEW q \in Nat
      PROVE  /\ Q(q) \in [1 .. 4 -> Octet]
             /\ \A d \in 0 .. 3 : Q(q)[d + 1] =
                  Alphabet(Sextets(At(3 * q + 1), At(3 * q + 2), At(3 * q + 3))[d + 1])
  <2> DEFINE a == At(3 * q + 1)
             b == At(3 * q + 2)
             c == At(3 * q + 3)
             s == Sextets(a, b, c)
  <2>1. \A k \in Nat \ {0} : At(k) \in Octet
    <3>1. \A k \in Nat \ {0} : k <= n => k \in 1 .. Len(text)
      OBVIOUS
    <3>2. \A k \in 1 .. Len(text) : text[k] \in Octet
      OBVIOUS
    <3>3. 0 \in Octet
      BY DEF Octet
    <3> QED
      BY <3>1, <3>2, <3>3
  <2>2. a \in Octet /\ b \in Octet /\ c \in Octet
    <3> HIDE DEF At
    <3>1. 3 * q + 1 \in Nat \ {0} /\ 3 * q + 2 \in Nat \ {0} /\ 3 * q + 3 \in Nat \ {0}
      OBVIOUS
    <3> QED
      BY <2>1, <3>1
  <2> HIDE DEF a, b, c
  <2>3. \A d \in 1 .. 4 : s[d] \in 0 .. 63
    <3>1. s[1] = a \div 4 /\ s[2] = (a % 4) * 16 + b \div 16
          /\ s[3] = (b % 16) * 4 + c \div 64 /\ s[4] = c % 64
      BY DEF Sextets
    <3>2. s[1] \in 0 .. 63 /\ s[2] \in 0 .. 63 /\ s[3] \in 0 .. 63 /\ s[4] \in 0 .. 63
      BY <2>2, <3>1, SextetsJoin
    <3> HIDE DEF s
    <3>3. \A d \in 1 .. 4 : d = 1 \/ d = 2 \/ d = 3 \/ d = 4
      OBVIOUS
    <3> QED
      BY <3>2, <3>3
  <2> HIDE DEF s
  <2>4. \A d \in 1 .. 4 : Alphabet(s[d]) \in Octet
    BY <2>3, AlphabetDecoded
  <2>5. Q(q) = [k \in 1 .. 4 |-> Alphabet(s[k])]
    BY DEF Quartet, s, a, b, c
  <2> QED
    BY <2>4, <2>5 DEF s, a, b, c
<1> HIDE DEF Q
<1>4. \A k \in 1 .. m : Char(k) \in Octet
  <2> TAKE k \in 1 .. m
  <2>1. (k - 1) \div 4 \in Nat /\ ((k - 1) % 4) + 1 \in 1 .. 4
    BY <1>2
  <2>2. Q((k - 1) \div 4) \in [1 .. 4 -> Octet]
    BY <1>3, <2>1
  <2>3. Padding \in Octet
    BY DEF Padding, Octet
  <2> QED
    BY <2>1, <2>2, <2>3
<1>5. Encoded(text) \in Seq(Octet) /\ Len(Encoded(text)) = m
  <2> HIDE DEF Char, m
  <2> QED
    BY <1>1, <1>2, <1>4
<1>6. ASSUME NEW q \in Nat, NEW d \in 0 .. 3, 3 * q < n, d <= n - 3 * q
      PROVE  /\ 4 * q + d + 1 \in 1 .. m
             /\ Encoded(text)[4 * q + d + 1] =
                  Alphabet(Sextets(At(3 * q + 1), At(3 * q + 2), At(3 * q + 3))[d + 1])
  <2> DEFINE k == 4 * q + d + 1
  <2>1. (k - 1) \div 4 = q /\ (k - 1) % 4 = d
    OBVIOUS
  <2>2. k \in 1 .. m
    BY <1>2, <1>6
  <2>3. Char(k) = Q(q)[d + 1]
    BY <1>2, <1>6, <2>1
  <2> QED
    BY <1>1, <1>3, <2>2, <2>3
<1> QED
  BY <1>5, <1>6

-----------------------------------------------------------------------------
(***************************************************************************)
(* A character taken: the byte under plainchar is replaced, and the text  *)
(* before it stay.                                                         *)
(***************************************************************************)
Replaced(s, pair, r) ==
  /\ r \in Seq(Nat) /\ Len(r) = Len(s) - 1 + Len(pair)
  /\ \A k \in 1 .. Len(s) - 1 : r[k] = s[k]
  /\ r[Len(s)] = pair[1]
  /\ Len(pair) = 2 => r[Len(s) + 1] = pair[2]

LEMMA LastReplaced ==
  ASSUME NEW s \in Seq(Nat), Len(s) > 0, NEW pair \in Seq(Nat), Len(pair) >= 1
  PROVE  Replaced(s, pair, SubSeq(s, 1, Len(s) - 1) \o pair)
<1> DEFINE n == Len(s) - 1
           h == SubSeq(s, 1, n)
           r == h \o pair
<1>1. n \in Nat /\ n + 1 = Len(s) /\ n <= Len(s) /\ n = Len(s) - 1
  OBVIOUS
<1>2. h \in Seq(Nat) /\ Len(h) = n /\ \A k \in 1 .. n : h[k] = s[k]
  <2>1. /\ \A d \in 1 .. n : s[d] \in Nat
        /\ n \in Int /\ (IF 1 <= n THEN n - 1 + 1 ELSE 0) = n
        /\ n - 1 + 1 = n /\ \A d \in 1 .. n : 1 + d - 1 = d
    BY <1>1
  <2> HIDE DEF n
  <2> QED
    BY <2>1, SubSeqProperties
<1> HIDE DEF h, n
<1> DEFINE m == Len(pair)
<1>3. /\ r \in Seq(Nat) /\ Len(r) = n + m
      /\ \A d \in 1 .. n + m : r[d] = IF d <= n THEN h[d] ELSE pair[d - n]
  BY <1>2, ConcatProperties
<1>4. m \in Nat /\ m >= 1
  OBVIOUS
<1> HIDE DEF r, m
<1>5. \A k \in 1 .. n : r[k] = s[k]
  <2>1. \A k \in 1 .. n : k \in 1 .. n + m /\ k <= n
    BY <1>1, <1>4
  <2> QED
    BY <1>2, <1>3, <2>1
<1>6. r[n + 1] = pair[1]
  <2>1. n + 1 \in 1 .. n + m /\ ~(n + 1 <= n) /\ n + 1 - n = 1
    BY <1>1, <1>4, SMT
  <2> DEFINE k == n + 1
  <2> HIDE DEF k
  <2>2. k \in 1 .. n + m /\ ~(k <= n) /\ k - n = 1
    BY <1>1, <2>1 DEF k
  <2>3. r[k] = pair[1]
    BY <1>3, <2>2
  <2> QED
    BY <2>3 DEF k
<1>7. ASSUME m = 2
      PROVE  r[n + 2] = pair[2]
  <2>1. n + 2 \in 1 .. n + m /\ ~(n + 2 <= n) /\ n + 2 - n = 2
    BY <1>1, <1>7, SMT
  <2> DEFINE k == n + 2
  <2> HIDE DEF k
  <2>2. k \in 1 .. n + m /\ ~(k <= n) /\ k - n = 2
    BY <1>1, <2>1 DEF k
  <2>3. r[k] = pair[2]
    BY <1>3, <2>2
  <2> QED
    BY <2>3 DEF k
<1>8. Len(s) + 1 = n + 2
  BY <1>1
<1>9. Replaced(s, pair, r)
  BY <1>1, <1>3, <1>5, <1>6, <1>7, <1>8 DEF Replaced, m
<1> QED
  BY <1>1, <1>9 DEF r, h

LEMMA OctetBits ==
  ASSUME NEW f \in Octet, NEW byte \in Nat
  PROVE  /\ StepA(f) \in Nat
         /\ \E u, v \in Nat : StepB(byte, f) = <<u, v>>
         /\ \E u, v \in Nat : StepC(byte, f) = <<u, v>>
         /\ StepD(byte, f) \in Nat
<1>1. /\ f % 64 \in 0 .. 63 /\ (f % 64) \div 16 \in Nat /\ (f % 64) \div 4 \in Nat
      /\ f % 16 \in 0 .. 15 /\ f % 4 \in 0 .. 3
  BY DEF Octet
<1>2. /\ (f % 64) * 4 \in Nat /\ (f % 16) * 16 \in Nat /\ (f % 4) * 64 \in Nat
      /\ byte + (f % 64) \in Nat
  BY <1>1
<1>3. byte + High(f) \in Nat /\ byte + Middle(f) \in Nat
  BY <1>1 DEF High, Middle
<1> QED
  BY <1>2, <1>3 DEF StepA, StepB, StepC, StepD

(* What Add makes of the text, whatever the character.                     *)
AddedTo(d, f, r) ==
  /\ r \in Seq(Nat) /\ Len(r) = Len(plain) + (IF d = 0 THEN 0 ELSE 1)
  /\ \A k \in 1 .. Len(plain) - 1 : r[k] = plain[k]
  /\ d = 0 => r[Len(plain)] = StepA(f)
  /\ d = 1 => <<r[Len(plain)], r[Len(plain) + 1]>> = StepB(plain[Len(plain)], f)
  /\ d = 2 => <<r[Len(plain)], r[Len(plain) + 1]>> = StepC(plain[Len(plain)], f)
  /\ d = 3 => r[Len(plain)] = StepD(plain[Len(plain)], f)

LEMMA AddAdds ==
  ASSUME plain \in Seq(Nat), Len(plain) > 0, NEW f \in Octet, NEW d \in 0 .. 3
  PROVE  AddedTo(d, f, Add(StepAt(d), f))
<1> DEFINE byte == plain[Len(plain)]
           r    == Add(StepAt(d), f)
<1>1. byte \in Nat /\ Len(plain) \in Nat
  OBVIOUS
<1>2. Current = byte
  BY DEF Current
<1>3. ASSUME NEW u \in Nat, r = SubSeq(plain, 1, Len(plain) - 1) \o <<u>>
      PROVE  Len(r) = Len(plain) /\ Replaced(plain, <<u>>, r) /\ r[Len(plain)] = u
  <2> DEFINE pair == <<u>>
  <2>1. pair \in Seq(Nat) /\ Len(pair) = 1 /\ Len(pair) >= 1 /\ pair[1] = u
    OBVIOUS
  <2> HIDE DEF pair, r
  <2>2. Replaced(plain, pair, SubSeq(plain, 1, Len(plain) - 1) \o pair)
    BY <2>1, LastReplaced
  <2>3. r = SubSeq(plain, 1, Len(plain) - 1) \o pair
    BY <1>3 DEF pair
  <2> QED
    BY <1>1, <2>1, <2>2, <2>3 DEF Replaced, pair
<1>4. ASSUME NEW u \in Nat, NEW v \in Nat, r = SubSeq(plain, 1, Len(plain) - 1) \o <<u, v>>
      PROVE  /\ Len(r) = Len(plain) + 1 /\ Replaced(plain, <<u, v>>, r)
             /\ r[Len(plain)] = u /\ r[Len(plain) + 1] = v
  <2> DEFINE pair == <<u, v>>
  <2>1. pair \in Seq(Nat) /\ Len(pair) = 2 /\ Len(pair) >= 1 /\ pair[1] = u /\ pair[2] = v
    OBVIOUS
  <2> HIDE DEF pair, r
  <2>2. Replaced(plain, pair, SubSeq(plain, 1, Len(plain) - 1) \o pair)
    BY <2>1, LastReplaced
  <2>3. r = SubSeq(plain, 1, Len(plain) - 1) \o pair
    BY <1>4 DEF pair
  <2>4. Replaced(plain, pair, r)
    BY <2>2, <2>3
  <2>5. Len(r) = Len(plain) - 1 + 2 /\ r[Len(plain)] = u /\ r[Len(plain) + 1] = v
    BY <2>1, <2>4 DEF Replaced
  <2> QED
    BY <1>1, <2>4, <2>5 DEF pair
<1> HIDE DEF byte
<1>5. CASE d = 0
  <2>1. r = SubSeq(plain, 1, Len(plain) - 1) \o <<StepA(f)>>
    BY <1>5 DEF Add, StepAt
  <2>2. StepA(f) \in Nat
    BY <1>1, OctetBits
  <2> HIDE DEF r
  <2>3. Len(r) = Len(plain) /\ Replaced(plain, <<StepA(f)>>, r) /\ r[Len(plain)] = StepA(f)
    BY <1>3, <2>1, <2>2
  <2>4. AddedTo(d, f, r)
    BY <1>1, <1>5, <2>3 DEF AddedTo, Replaced
  <2> QED
    BY <2>4 DEF r
<1>6. CASE d = 1
  <2>1. PICK u \in Nat, v \in Nat : StepB(byte, f) = <<u, v>>
    BY <1>1, OctetBits
  <2>2. r = SubSeq(plain, 1, Len(plain) - 1) \o <<u, v>>
    BY <1>2, <1>6, <2>1 DEF Add, StepAt
  <2> HIDE DEF r
  <2>3. /\ Len(r) = Len(plain) + 1 /\ Replaced(plain, <<u, v>>, r)
        /\ r[Len(plain)] = u /\ r[Len(plain) + 1] = v
    BY <1>4, <2>2
  <2>4. AddedTo(d, f, r)
    BY <1>1, <1>6, <2>1, <2>3 DEF AddedTo, Replaced, byte
  <2> QED
    BY <2>4 DEF r
<1>7. CASE d = 2
  <2>1. PICK u \in Nat, v \in Nat : StepC(byte, f) = <<u, v>>
    BY <1>1, OctetBits
  <2>2. r = SubSeq(plain, 1, Len(plain) - 1) \o <<u, v>>
    BY <1>2, <1>7, <2>1 DEF Add, StepAt
  <2> HIDE DEF r
  <2>3. /\ Len(r) = Len(plain) + 1 /\ Replaced(plain, <<u, v>>, r)
        /\ r[Len(plain)] = u /\ r[Len(plain) + 1] = v
    BY <1>4, <2>2
  <2>4. AddedTo(d, f, r)
    BY <1>1, <1>7, <2>1, <2>3 DEF AddedTo, Replaced, byte
  <2> QED
    BY <2>4 DEF r
<1>8. CASE d = 3
  <2>1. r = SubSeq(plain, 1, Len(plain) - 1) \o <<StepD(byte, f), 0>>
    BY <1>2, <1>8 DEF Add, StepAt
  <2>2. StepD(byte, f) \in Nat /\ 0 \in Nat
    BY <1>1, OctetBits
  <2> HIDE DEF r
  <2>3. /\ Len(r) = Len(plain) + 1 /\ Replaced(plain, <<StepD(byte, f), 0>>, r)
        /\ r[Len(plain)] = StepD(byte, f)
    BY <1>4, <2>1, <2>2
  <2>4. AddedTo(d, f, r)
    BY <1>1, <1>8, <2>3 DEF AddedTo, Replaced, byte
  <2> QED
    BY <2>4 DEF r
<1> QED
  BY <1>5, <1>6, <1>7, <1>8

-----------------------------------------------------------------------------
(***************************************************************************)
(* The steps.                                                              *)
(***************************************************************************)
Takes(d) ==
  /\ plain' = Add(StepAt(d), Fragment(code[decoder.next]))
  /\ decoder' = [step |-> StepAt((d + 1) % 4), next |-> decoder.next + 1]

LEMMA StepCases ==
  ASSUME B64Types, base64_decode_block
  PROVE  /\ decoder.next \in 1 .. Len(code) /\ code[decoder.next] \in Octet
         /\ Fragment(code[decoder.next]) \in Octet
         /\ UNCHANGED <<signedChar, command, code>>
         /\ \/ /\ Skipped(code[decoder.next]) /\ plain' = plain
               /\ decoder' = [decoder EXCEPT !.next = @ + 1]
            \/ /\ ~Skipped(code[decoder.next])
               /\ \E d \in 0 .. 3 : decoder.step = StepAt(d) /\ Takes(d)
<1>1. decoder.next \in 1 .. Len(code) /\ code[decoder.next] \in Octet
  BY DEF B64Types, base64_decode_block, AtEnd
<1>2. ASSUME NEW c \in Octet
      PROVE  Fragment(c) \in Octet
  <2>1. base64_decode_value(c) \in Int
    BY <1>2 DEF base64_decode_value, Decoding, decoding_size, Octet
  <2> QED
    BY <2>1 DEF Fragment, Octet
<1>3. PICK d \in 0 .. 3 : decoder.step = StepAt(d)
  BY DEF B64Types, StepAt
<1>4. Following[StepAt(d)] = StepAt((d + 1) % 4)
  <2>1. (d = 0 /\ (d + 1) % 4 = 1) \/ (d = 1 /\ (d + 1) % 4 = 2)
        \/ (d = 2 /\ (d + 1) % 4 = 3) \/ (d = 3 /\ (d + 1) % 4 = 0)
    OBVIOUS
  <2> QED
    BY <2>1 DEF Following, StepAt
<1> QED
  BY <1>1, <1>2, <1>3, <1>4 DEF base64_decode_block, Takes

LEMMA StepTypes ==
  ASSUME B64Types, base64_decode_block
  PROVE  B64Types' /\ (Beyond => Beyond')
<1> DEFINE n == Len(plain)
           Grown == /\ plain' \in Seq(Nat) /\ Len(plain') >= n
                    /\ \A k \in 1 .. n - 1 : plain'[k] = plain[k]
                    /\ decoder' \in [step : {"a", "b", "c", "d"}, next : Nat \ {0}]
                    /\ decoder'.next = decoder.next + 1
<1>1. /\ plain \in Seq(Nat) /\ n \in Nat /\ n > 0
      /\ decoder \in [step : {"a", "b", "c", "d"}, next : Nat \ {0}]
  BY DEF B64Types
<1>2. /\ decoder.next \in 1 .. Len(code) /\ Fragment(code[decoder.next]) \in Octet
      /\ UNCHANGED <<signedChar, command, code>>
  BY StepCases
<1>3. Grown
  <2>1. CASE plain' = plain /\ decoder' = [decoder EXCEPT !.next = @ + 1]
    BY <1>1, <2>1
  <2>2. ASSUME NEW d \in 0 .. 3, Takes(d)
        PROVE  Grown
    <3> DEFINE r == Add(StepAt(d), Fragment(code[decoder.next]))
    <3>1. r \in Seq(Nat) /\ Len(r) >= n /\ \A k \in 1 .. n - 1 : r[k] = plain[k]
      <4>1. AddedTo(d, Fragment(code[decoder.next]), r)
        BY <1>1, <1>2, AddAdds
      <4> HIDE DEF r
      <4> QED
        BY <1>1, <4>1 DEF AddedTo
    <3>2. plain' = r
      BY <2>2 DEF Takes
    <3>3. StepAt((d + 1) % 4) \in {"a", "b", "c", "d"}
      BY DEF StepAt
    <3>4. decoder' = [step |-> StepAt((d + 1) % 4), next |-> decoder.next + 1]
      BY <2>2 DEF Takes
    <3>5. decoder.next + 1 \in Nat \ {0}
      BY <1>2
    <3> HIDE DEF r
    <3> QED
      BY <3>1, <3>2, <3>3, <3>4, <3>5
  <2> QED
    BY <2>1, <2>2, StepCases
<1>4. B64Types'
  BY <1>1, <1>2, <1>3 DEF B64Types
<1>5. ASSUME Beyond
      PROVE  Beyond'
  <2>1. n > Bytes /\ Bytes \in Nat /\ \A k \in 1 .. Bytes : plain[k] = command[k]
    BY <1>5 DEF Beyond, Decoded, Bytes, B64Types
  <2>2. \A k \in 1 .. Bytes : k \in 1 .. n - 1
    BY <1>1, <2>1
  <2>3. Bytes' = Bytes /\ Len(plain') > Bytes
    BY <1>1, <1>2, <1>3, <2>1 DEF Bytes
  <2> QED
    BY <1>2, <1>3, <2>1, <2>2, <2>3 DEF Beyond, Decoded
<1> QED
  BY <1>4, <1>5

(* A character of the encoded command is never skipped, and adds its bits. *)
LEMMA ProperTaken ==
  ASSUME B64Types, Sent, base64_decode_block, NEW q \in Nat, NEW d \in 0 .. 3, Within(q, d)
  PROVE  /\ Takes(d)
         /\ Fragment(code[decoder.next]) =
              Sextets(ByteAt(3 * q + 1), ByteAt(3 * q + 2), ByteAt(3 * q + 3))[d + 1]
         /\ \A k \in 1 .. 3 : ByteAt(3 * q + k) \in Octet
<1> DEFINE a == ByteAt(3 * q + 1)
           b == ByteAt(3 * q + 2)
           c == ByteAt(3 * q + 3)
           s == Sextets(a, b, c)[d + 1]
<1>1. \A k \in Nat \ {0} : ByteAt(k) \in Octet
  <2>1. \A k \in Nat \ {0} : k <= Len(command) => k \in 1 .. Len(command)
    BY DEF B64Types
  <2>2. \A k \in 1 .. Len(command) : command[k] \in Octet
    BY DEF B64Types
  <2>3. 0 \in Octet
    BY DEF Octet
  <2> QED
    BY <2>1, <2>2, <2>3 DEF ByteAt, Bytes
<1>2. /\ a \in Octet /\ b \in Octet /\ c \in Octet
      /\ \A k \in 1 .. 3 : ByteAt(3 * q + k) \in Octet
  <2>1. \A k \in 1 .. 3 : 3 * q + k \in Nat \ {0}
    OBVIOUS
  <2> QED
    BY <1>1, <2>1
<1> HIDE DEF a, b, c
<1>3. s \in 0 .. 63
  <2>1. d = 0 \/ d = 1 \/ d = 2 \/ d = 3
    OBVIOUS
  <2>2. /\ d = 0 => s = a \div 4
        /\ d = 1 => s = (a % 4) * 16 + b \div 16
        /\ d = 2 => s = (b % 16) * 4 + c \div 64
        /\ d = 3 => s = c % 64
    BY DEF Sextets
  <2> HIDE DEF s
  <2> QED
    BY <1>2, <2>1, <2>2, SextetsJoin
<1>4. code[decoder.next] = Alphabet(s)
  BY DEF Sent, Within, a, b, c
<1> HIDE DEF s
<1>5. Fragment(code[decoder.next]) = s /\ ~Skipped(code[decoder.next])
  BY <1>3, <1>4, AlphabetDecoded
<1>6. PICK j \in 0 .. 3 : decoder.step = StepAt(j) /\ Takes(j)
  BY <1>5, StepCases
<1>7. j = d
  BY <1>6 DEF Within, StepAt
<1> QED
  BY <1>2, <1>5, <1>6, <1>7 DEF s, a, b, c

LEMMA WithinStep ==
  ASSUME B64Types, Sent, base64_decode_block, NEW q \in Nat, NEW d \in 0 .. 3, Within(q, d)
  PROVE  Beyond' \/ \E p \in Nat, j \in 0 .. 3 : Within(p, j)'
<1> DEFINE n == Len(plain)
           a == ByteAt(3 * q + 1)
           b == ByteAt(3 * q + 2)
           c == ByteAt(3 * q + 3)
           f == Fragment(code[decoder.next])
<1>1. /\ plain \in Seq(Nat) /\ n \in Nat /\ n > 0 /\ Bytes \in Nat /\ Bytes' = Bytes /\ command' = command
      /\ f \in Octet
  BY StepCases DEF B64Types, Bytes
<1>2. /\ 3 * q < Bytes /\ d <= Bytes - 3 * q /\ n = 3 * q + Complete(d) + 1
      /\ \A k \in 1 .. 3 * q + Complete(d) : plain[k] = command[k]
      /\ d > 0 => plain[n] = Begun(d, command[n])
  BY DEF Within, Proper, Decoded
<1>3. Takes(d) /\ f = Sextets(a, b, c)[d + 1] /\ a \in Octet /\ b \in Octet /\ c \in Octet
  BY ProperTaken
<1>4. /\ decoder' = [step |-> StepAt((d + 1) % 4), next |-> decoder.next + 1]
      /\ decoder'.next = 4 * q + d + 2 /\ decoder'.step = StepAt((d + 1) % 4)
  BY <1>3 DEF Takes, Within
<1>5. /\ plain' \in Seq(Nat) /\ Len(plain') = n + (IF d = 0 THEN 0 ELSE 1)
      /\ \A k \in 1 .. n - 1 : plain'[k] = plain[k]
      /\ d = 0 => plain'[n] = StepA(f)
      /\ d = 1 => <<plain'[n], plain'[n + 1]>> = StepB(plain[n], f)
      /\ d = 2 => <<plain'[n], plain'[n + 1]>> = StepC(plain[n], f)
      /\ d = 3 => plain'[n] = StepD(plain[n], f)
  <2>1. plain' = Add(StepAt(d), f)
    BY <1>3 DEF Takes
  <2> HIDE DEF f
  <2>2. AddedTo(d, f, plain')
    BY <1>1, <2>1, AddAdds
  <2> QED
    BY <2>2 DEF AddedTo
<1>6. /\ 3 * q + 1 <= Bytes => a = command[3 * q + 1]
      /\ 3 * q + 2 <= Bytes => b = command[3 * q + 2]
      /\ 3 * q + 3 <= Bytes => c = command[3 * q + 3]
  BY DEF ByteAt
<1>7. /\ d = 0 => f = a \div 4
      /\ d = 1 => f = (a % 4) * 16 + b \div 16
      /\ d = 2 => f = (b % 16) * 4 + c \div 64
      /\ d = 3 => f = c % 64
  BY <1>3 DEF Sextets
<1> HIDE DEF f, a, b, c
<1>8. ASSUME plain'[n] = command[n], n = 3 * q + d, d > 0
      PROVE  \A k \in 1 .. 3 * q + d : plain'[k] = command[k]
  <2>1. Complete(d) = d - 1
    BY <1>8 DEF Complete
  <2>2. \A k \in 1 .. n - 1 : plain'[k] = command[k]
    <3>1. n - 1 = 3 * q + Complete(d)
      BY <1>2, <1>8, <2>1
    <3> QED
      BY <1>2, <1>5, <3>1
  <2>3. \A k \in 1 .. n : k \in 1 .. n - 1 \/ k = n
    BY <1>1
  <2> QED
    BY <1>8, <2>2, <2>3
<1>9. CASE d = 0
  <2>1. n = 3 * q + 1 /\ Complete(0) = 0 /\ Complete(1) = 0 /\ (d + 1) % 4 = 1
    BY <1>2, <1>9 DEF Complete
  <2>2. plain'[n] = Begun(1, command[n])
    <3>1. 3 * q + 1 <= Bytes
      BY <1>1, <1>2
    <3> QED
      BY <1>3, <1>5, <1>6, <1>7, <1>9, <2>1, <3>1, SextetsJoin
  <2>3. Proper(q, 1)'
    BY <1>1, <1>2 DEF Proper
  <2>4. Len(plain') = n /\ \A k \in 1 .. 3 * q + 0 : plain'[k] = command[k]
    <3>1. n - 1 = 3 * q + 0 /\ n - 1 = 3 * q + Complete(d)
      BY <1>9, <2>1
    <3> QED
      BY <1>1, <1>2, <1>5, <1>9, <3>1
  <2>5. decoder'.next = 4 * q + 1 + 1 /\ decoder'.step = StepAt(1)
    BY <1>4, <1>9, <2>1
  <2>6. Within(q, 1)'
    BY <1>1, <2>1, <2>2, <2>3, <2>4, <2>5 DEF Within, Decoded
  <2>7. 1 \in 0 .. 3
    OBVIOUS
  <2> QED
    BY <2>6, <2>7
<1>10. CASE d = 1
  <2>1. n = 3 * q + 1 /\ Complete(2) = 1 /\ (d + 1) % 4 = 2
    BY <1>2, <1>10 DEF Complete
  <2>2. 3 * q + 1 <= Bytes
    BY <1>1, <1>2
  <2>3. plain'[n] = command[n] /\ plain'[n + 1] = Begun(2, b)
    <3>1. plain[n] = Begun(1, a) /\ a = command[n]
      BY <1>2, <1>6, <1>10, <2>1, <2>2
    <3> QED
      BY <1>3, <1>5, <1>7, <1>10, <3>1, SextetsJoin
  <2>4. \A k \in 1 .. 3 * q + 1 : plain'[k] = command[k]
    BY <1>8, <1>10, <2>1, <2>3
  <2>5. Len(plain') = 3 * q + 2
    BY <1>5, <1>10, <2>1
  <2>6. CASE 3 * q + 2 <= Bytes
    <3>1. Proper(q, 2)'
      BY <1>1, <1>2, <2>6 DEF Proper
    <3>2. decoder'.next = 4 * q + 2 + 1 /\ decoder'.step = StepAt(2)
      BY <1>4, <1>10, <2>1
    <3>3. plain'[3 * q + 2] = Begun(2, command[3 * q + 2])
      BY <1>6, <2>1, <2>3, <2>6
    <3>4. Within(q, 2)'
      BY <1>1, <2>1, <2>4, <2>5, <3>1, <3>2, <3>3 DEF Within, Decoded
    <3>5. 2 \in 0 .. 3
      OBVIOUS
    <3> QED
      BY <3>4, <3>5
  <2>7. CASE ~(3 * q + 2 <= Bytes)
    <3>1. Bytes = 3 * q + 1
      BY <1>1, <2>2, <2>7
    <3> QED
      BY <1>1, <2>4, <2>5, <3>1 DEF Beyond, Decoded
  <2> QED
    BY <2>6, <2>7
<1>11. CASE d = 2
  <2>1. n = 3 * q + 2 /\ Complete(3) = 2 /\ (d + 1) % 4 = 3
    BY <1>2, <1>11 DEF Complete
  <2>2. 3 * q + 2 <= Bytes
    BY <1>1, <1>2, <1>11
  <2>3. plain'[n] = command[n] /\ plain'[n + 1] = Begun(3, c)
    <3>1. plain[n] = Begun(2, b) /\ b = command[n]
      BY <1>2, <1>6, <1>11, <2>1, <2>2
    <3> QED
      BY <1>3, <1>5, <1>7, <1>11, <3>1, SextetsJoin
  <2>4. \A k \in 1 .. 3 * q + 2 : plain'[k] = command[k]
    BY <1>8, <1>11, <2>1, <2>3
  <2>5. Len(plain') = 3 * q + 3
    BY <1>5, <1>11, <2>1
  <2>6. CASE 3 * q + 3 <= Bytes
    <3>1. Proper(q, 3)'
      BY <1>1, <1>2, <2>6 DEF Proper
    <3>2. decoder'.next = 4 * q + 3 + 1 /\ decoder'.step = StepAt(3)
      BY <1>4, <1>11, <2>1
    <3>3. plain'[3 * q + 3] = Begun(3, command[3 * q + 3])
      BY <1>6, <2>1, <2>3, <2>6
    <3>4. Within(q, 3)'
      BY <1>1, <2>1, <2>4, <2>5, <3>1, <3>2, <3>3 DEF Within, Decoded
    <3>5. 3 \in 0 .. 3
      OBVIOUS
    <3> QED
      BY <3>4, <3>5
  <2>7. CASE ~(3 * q + 3 <= Bytes)
    <3>1. Bytes = 3 * q + 2
      BY <1>1, <2>2, <2>7
    <3> QED
      BY <1>1, <2>4, <2>5, <3>1 DEF Beyond, Decoded
  <2> QED
    BY <2>6, <2>7
<1>12. CASE d = 3
  <2>1. n = 3 * q + 3 /\ Complete(0) = 0 /\ (d + 1) % 4 = 0
    BY <1>2, <1>12 DEF Complete
  <2>2. 3 * q + 3 <= Bytes
    BY <1>1, <1>2, <1>12
  <2>3. plain'[n] = command[n]
    <3>1. plain[n] = Begun(3, c) /\ c = command[n]
      BY <1>2, <1>6, <1>12, <2>1, <2>2
    <3> QED
      BY <1>3, <1>5, <1>7, <1>12, <3>1, SextetsJoin
  <2>4. \A k \in 1 .. 3 * q + 3 : plain'[k] = command[k]
    BY <1>8, <1>12, <2>1, <2>3
  <2>5. Len(plain') = 3 * q + 4
    BY <1>5, <1>12, <2>1
  <2>6. CASE 3 * q + 3 < Bytes
    <3> DEFINE p == q + 1
    <3>1. p \in Nat /\ 0 \in 0 .. 3 /\ 3 * p = 3 * q + 3 /\ 3 * p + 0 = 3 * q + 3 /\ 3 * p + 0 + 1 = 3 * q + 4
      OBVIOUS
    <3>2. decoder'.next = 4 * p + 0 + 1 /\ decoder'.step = StepAt(0)
      BY <1>4, <1>12, <2>1
    <3> HIDE DEF p
    <3>3. Proper(p, 0)'
      BY <1>1, <2>6, <3>1 DEF Proper
    <3>4. Len(plain') = 3 * p + 0 + 1 /\ Decoded(3 * p + 0)'
      BY <1>1, <2>4, <2>5, <3>1 DEF Decoded
    <3>5. Within(p, 0)'
      BY <2>1, <3>2, <3>3, <3>4 DEF Within
    <3> QED
      BY <3>1, <3>5
  <2>7. CASE ~(3 * q + 3 < Bytes)
    <3>1. Bytes = 3 * q + 3
      BY <1>1, <2>2, <2>7
    <3> QED
      BY <1>1, <2>4, <2>5, <3>1 DEF Beyond, Decoded
  <2> QED
    BY <2>6, <2>7
<1>13. d = 0 \/ d = 1 \/ d = 2 \/ d = 3
  OBVIOUS
<1> QED
  BY <1>9, <1>10, <1>11, <1>12, <1>13

LEMMA B64Start == B64Init => B64Inv
<1> SUFFICES ASSUME B64Init PROVE B64Inv
  OBVIOUS
<1>1. PICK r \in Rest : code = Encoded(command) \o r
  BY DEF B64Init
<1>2. /\ command \in Seq(Octet) /\ r \in Seq(Octet) /\ plain = <<0>> /\ signedChar \in BOOLEAN
      /\ decoder = [step |-> "a", next |-> 1]
  BY <1>1, Base64Assumption DEF B64Init, base64_init_decodestate
<1> DEFINE e == Encoded(command)
<1>3. /\ e \in Seq(Octet)
      /\ \A q \in Nat, d \in 0 .. 3 : Proper(q, d) =>
           /\ 4 * q + d + 1 \in 1 .. Len(e)
           /\ e[4 * q + d + 1] =
                Alphabet(Sextets(ByteAt(3 * q + 1), ByteAt(3 * q + 2), ByteAt(3 * q + 3))[d + 1])
  BY <1>2, EncodedOf DEF Proper, ByteAt, Bytes
<1> HIDE DEF e
<1>4. /\ code \in Seq(Octet) /\ Len(code) = Len(e) + Len(r) /\ Len(e) \in Nat /\ Len(r) \in Nat
      /\ \A k \in 1 .. Len(e) : code[k] = e[k]
  <2> DEFINE w == e \o r
  <2>1. /\ w \in Seq(Octet) /\ Len(w) = Len(e) + Len(r)
        /\ \A k \in 1 .. Len(e) + Len(r) : w[k] = IF k <= Len(e) THEN e[k] ELSE r[k - Len(e)]
    BY <1>2, <1>3, ConcatProperties
  <2>2. code = w
    BY <1>1 DEF e
  <2> HIDE DEF w
  <2>3. Len(e) \in Nat /\ Len(r) \in Nat
    BY <1>2, <1>3
  <2> QED
    BY <2>1, <2>2, <2>3
<1>5. B64Types
  BY <1>2, <1>4 DEF B64Types
<1>6. Sent
  <2> SUFFICES ASSUME NEW q \in Nat, NEW d \in 0 .. 3, Proper(q, d)
               PROVE  /\ 4 * q + d + 1 <= Len(code)
                      /\ code[4 * q + d + 1] =
                           Alphabet(Sextets(ByteAt(3 * q + 1), ByteAt(3 * q + 2), ByteAt(3 * q + 3))[d + 1])
    BY DEF Sent
  <2> DEFINE k == 4 * q + d + 1
             x == Alphabet(Sextets(ByteAt(3 * q + 1), ByteAt(3 * q + 2), ByteAt(3 * q + 3))[d + 1])
  <2>1. k \in 1 .. Len(e) /\ e[k] = x
    BY <1>3
  <2> HIDE DEF k, x
  <2>2. k <= Len(code) /\ code[k] = x
    BY <1>4, <2>1
  <2> QED
    BY <2>2 DEF k, x
<1>7. Len(plain) = 1 /\ Bytes \in Nat
  BY <1>2 DEF Bytes
<1>8. CASE Bytes = 0
  BY <1>5, <1>6, <1>7, <1>8 DEF B64Inv, Beyond, Decoded
<1>9. CASE Bytes > 0
  <2>1. Within(0, 0)
    BY <1>2, <1>7, <1>9 DEF Within, Proper, Complete, Decoded, StepAt
  <2>2. 0 \in Nat /\ 0 \in 0 .. 3
    OBVIOUS
  <2> QED
    BY <1>5, <1>6, <2>1, <2>2 DEF B64Inv
<1> QED
  BY <1>7, <1>8, <1>9

(* The text grows byte by byte, or the command is complete.                *)
THEOREM DecoderInvariant == B64Spec => []B64Inv
<1>1. B64Inv /\ [B64Next]_b64Vars => B64Inv'
  <2> SUFFICES ASSUME B64Inv, [B64Next]_b64Vars PROVE B64Inv'
    OBVIOUS
  <2>1. CASE UNCHANGED b64Vars
    <3>1. UNCHANGED <<signedChar, command, code, decoder, plain>>
      BY <2>1 DEF b64Vars
    <3>2. Bytes' = Bytes
      BY <3>1 DEF Bytes
    <3>3. B64Types' /\ Sent'
      BY <3>1, <3>2 DEF B64Inv, B64Types, Sent, Proper, ByteAt
    <3>4. Beyond => Beyond'
      BY <3>1, <3>2 DEF Beyond, Decoded
    <3>5. \A q \in Nat, d \in 0 .. 3 : Within(q, d) => Within(q, d)'
      BY <3>1, <3>2 DEF Within, Proper, Decoded
    <3> QED
      BY <3>3, <3>4, <3>5 DEF B64Inv
  <2>2. CASE base64_decode_block
    <3>1. B64Types' /\ (Beyond => Beyond')
      BY <2>2, StepTypes DEF B64Inv
    <3>2. Sent'
      <4>1. UNCHANGED <<command, code>>
        BY <2>2 DEF base64_decode_block
      <4> QED
        BY <4>1 DEF B64Inv, Sent, Proper, ByteAt, Bytes
    <3>3. ASSUME NEW q \in Nat, NEW d \in 0 .. 3, Within(q, d)
          PROVE  Beyond' \/ \E p \in Nat, j \in 0 .. 3 : Within(p, j)'
      BY <2>2, <3>3, WithinStep DEF B64Inv
    <3> QED
      BY <3>1, <3>2, <3>3 DEF B64Inv
  <2> QED
    BY <2>1, <2>2 DEF B64Next
<1> QED
  BY <1>1, B64Start, PTL DEF B64Spec

(* Whatever follows a command in the buffer, with char signed or not, the  *)
(* decoded text begins with the command.                                   *)
THEOREM CommandIsDecoded == B64Spec => []DecodesCommand
<1>1. B64Inv => DecodesCommand
  <2> SUFFICES ASSUME B64Inv, AtEnd
               PROVE  count >= Len(command) /\ SubSeq(plain, 1, Len(command)) = command
    BY DEF DecodesCommand
  <2>1. ASSUME NEW q \in Nat, NEW d \in 0 .. 3
        PROVE  ~Within(q, d)
    BY DEF B64Inv, B64Types, Sent, Within, AtEnd
  <2>2. /\ Len(plain) > Bytes /\ \A k \in 1 .. Bytes : plain[k] = command[k]
        /\ plain \in Seq(Nat) /\ command \in Seq(Octet)
    BY <2>1 DEF B64Inv, Beyond, Decoded, B64Types
  <2>3. count >= Len(command)
    BY <2>2 DEF count, Bytes
  <2>4. SubSeq(plain, 1, Len(command)) = command
    <3> DEFINE n == Len(command)
               s == SubSeq(plain, 1, n)
    <3>1. /\ n \in Int /\ n \in Nat /\ (IF 1 <= n THEN n - 1 + 1 ELSE 0) = n /\ n - 1 + 1 = n
          /\ \A k \in 1 .. n : 1 + k - 1 = k /\ plain[k] \in Octet
      <4>1. n \in Nat
        BY <2>2
      <4>2. \A k \in 1 .. n : plain[k] = command[k] /\ command[k] \in Octet
        BY <2>2 DEF Bytes
      <4> HIDE DEF n
      <4> QED
        BY <4>1, <4>2
    <3>2. n = Len(command)
      OBVIOUS
    <3> HIDE DEF n
    <3>3. s \in Seq(Octet) /\ Len(s) = n /\ \A k \in 1 .. n : s[k] = plain[k]
      BY <3>1, SubSeqProperties
    <3> HIDE DEF s
    <3>4. s = command
      BY <2>2, <3>2, <3>3 DEF Bytes
    <3> QED
      BY <3>2, <3>4 DEF s
  <2> QED
    BY <2>3, <2>4
<1> QED
  BY <1>1, DecoderInvariant, PTL

-----------------------------------------------------------------------------
(***************************************************************************)
(* The first case that applies.                                            *)
(***************************************************************************)
LEMMA FirstThatApplies ==
  ASSUME NEW cases, NEW n \in Nat, DOMAIN cases = 1 .. n, NEW k \in 1 .. n,
         cases[k].when, \A j \in 1 .. k - 1 : ~cases[j].when
  PROVE  FirstOf(cases) = cases[k].gives
<1> DEFINE m == CHOOSE d \in DOMAIN cases : cases[d].when /\ \A j \in 1 .. d - 1 : ~cases[j].when
<1>1. m \in 1 .. n /\ cases[m].when /\ \A j \in 1 .. m - 1 : ~cases[j].when
  BY Zenon
<1> HIDE DEF m
<1>2. ~(m < k)
  <2>1. m < k => m \in 1 .. k - 1
    BY <1>1, SMT
  <2> QED
    BY <1>1, <2>1, Zenon
<1>3. ~(k < m)
  <2>1. k < m => k \in 1 .. m - 1
    BY <1>1, SMT
  <2> QED
    BY <1>1, <2>1, Zenon
<1>4. m = k
  BY <1>1, <1>2, <1>3, SMT
<1> QED
  BY <1>4, Zenon DEF FirstOf, m

LEMMA SomeApplies ==
  ASSUME NEW cases, NEW n \in Nat, DOMAIN cases = 1 .. n, n # 0, cases[n].when
  PROVE  \E k \in 1 .. n : /\ cases[k].when /\ \A j \in 1 .. k - 1 : ~cases[j].when
                           /\ FirstOf(cases) = cases[k].gives
<1> DEFINE T == {d \in 1 .. n : cases[d].when}
<1>1. T # {} /\ T \subseteq Nat
  <2>1. n \in 1 .. n /\ 1 .. n \subseteq Nat
    BY SMT
  <2> QED
    BY <2>1, Zenon
<1>2. PICK k \in T : \A j \in T : <<j, k>> \notin OpToRel(<, Nat)
  BY <1>1, NatLessThanWellFounded, WFMin, Zenon
<1>3. \A j \in 1 .. k - 1 : ~cases[j].when
  <2> SUFFICES ASSUME NEW j \in 1 .. k - 1
               PROVE  ~cases[j].when
    OBVIOUS
  <2>1. k \in 1 .. n
    OBVIOUS
  <2>2. j \in 1 .. n /\ j \in Nat /\ k \in Nat /\ j < k
    BY <2>1, SMT
  <2>3. <<j, k>> \in OpToRel(<, Nat)
    BY <2>2 DEF OpToRel
  <2> QED
    BY <1>2, <2>2, <2>3, Zenon
<1> QED
  BY <1>2, <1>3, FirstThatApplies, Zenon

-----------------------------------------------------------------------------
(***************************************************************************)
(* The bits of a word.                                                     *)
(***************************************************************************)
LEMMA Division ==
  ASSUME NEW a \in Nat, NEW m \in Nat \ {0}
  PROVE  a = m * (a \div m) + (a % m) /\ a % m \in 0 .. m - 1 /\ a \div m \in Nat
BY SMT

LEMMA Quotient ==
  ASSUME NEW m \in Nat \ {0}, NEW a \in Int, NEW q \in Int, NEW r \in 0 .. m - 1, a = m * q + r
  PROVE  a \div m = q /\ a % m = r
BY SMT

LEMMA DivisionTwice ==
  ASSUME NEW a \in Nat, NEW m \in Nat \ {0}, NEW n \in Nat \ {0}
  PROVE  (a \div m) \div n = a \div (m * n)
<1> DEFINE q == a \div m
           k == q \div n
           r == m * (q % n) + (a % m)
<1>1. a = m * q + (a % m) /\ a % m \in 0 .. m - 1 /\ q \in Nat
  BY Division
<1>2. q = n * k + (q % n) /\ q % n \in 0 .. n - 1 /\ k \in Nat
  BY <1>1, Division
<1> HIDE DEF q, k
<1>3. a = (m * n) * k + r
  BY <1>1, <1>2, SMT
<1>4. r \in 0 .. (m * n) - 1
  <2>1. q % n <= n - 1 /\ q % n >= 0 /\ q % n \in Int
    BY <1>2, SMT
  <2>2. m * (q % n) <= m * (n - 1) /\ m * (q % n) >= 0
    BY <2>1, SMT
  <2>3. m * (n - 1) = (m * n) - m
    BY SMT
  <2> QED
    BY <1>1, <2>1, <2>2, <2>3, SMT
<1>5. m * n \in Nat \ {0}
  BY SMT
<1> HIDE DEF r
<1>6. a \div (m * n) = k
  <2>1. k \in Int /\ a \in Int
    BY <1>2, SMT
  <2> QED
    BY <1>3, <1>4, <1>5, <2>1, Quotient, Zenon
<1> QED
  BY <1>6 DEF q, k

Op(w) == Bits(w, 27, 20)

LEMMA SmallPowers ==
  /\ 2^1 = 2 /\ 2^2 = 4 /\ 2^3 = 8 /\ 2^4 = 16 /\ 2^5 = 32 /\ 2^8 = 256
BY SMT

LEMMA Sizes ==
  /\ 2 \in Nat \ {0} /\ 4 \in Nat \ {0} /\ 8 \in Nat \ {0} /\ 16 \in Nat \ {0}
  /\ 32 \in Nat \ {0} /\ 64 \in Nat \ {0}
BY SMT

LEMMA LargePowers ==
  /\ 2^20 \in Nat \ {0} /\ 2^24 \in Nat \ {0} /\ 2^25 = 2^20 * 32 /\ 2^26 = 2^20 * 64
  /\ 2^23 = 2^20 * 8 /\ 2^24 = 2^20 * 16 /\ 2^28 = 2^20 * 256
BY SMT

LEMMA WordIsNumber ==
  ASSUME NEW w \in ArmWord
  PROVE  w.body \in Nat /\ w.body < 2^20 * 256 /\ w.cond \in 0 .. 15
<1>1. w.body \in 0 .. 2^28 - 1 /\ w.cond \in 0 .. 15
  BY DEF ArmWord
<1> QED
  BY <1>1, LargePowers, SMT

LEMMA Field ==
  ASSUME NEW w \in ArmWord, NEW high, NEW low, 2^low \in Nat \ {0},
         NEW m \in Nat \ {0}, 2^(high - low + 1) = m
  PROVE  Bits(w, high, low) \in 0 .. m - 1
BY WordIsNumber, Division, Zenon DEF Bits

LEMMA BitsAreNumbers ==
  ASSUME NEW w \in ArmWord
  PROVE  /\ \A k \in {0, 4, 5, 20, 21, 22, 24} : Bit(w, k) \in 0 .. 1
         /\ Bits(w, 6, 5) \in 0 .. 3 /\ Bits(w, 22, 21) \in 0 .. 3
         /\ Bits(w, 2, 0) \in 0 .. 7 /\ Bits(w, 6, 4) \in 0 .. 7 /\ Bits(w, 7, 5) \in 0 .. 7
         /\ Bits(w, 23, 21) \in 0 .. 7 /\ Bits(w, 22, 20) \in 0 .. 7
         /\ Bits(w, 7, 4) \in 0 .. 15 /\ Bits(w, 23, 20) \in 0 .. 15
         /\ Bits(w, 24, 20) \in 0 .. 31 /\ Bits(w, 23, 0) \in 0 .. 2^24 - 1
<1>1. /\ 2^0 \in Nat \ {0} /\ 2^4 \in Nat \ {0} /\ 2^5 \in Nat \ {0} /\ 2^20 \in Nat \ {0}
      /\ 2^21 \in Nat \ {0} /\ 2^22 \in Nat \ {0} /\ 2^24 \in Nat \ {0}
  BY SMT
<1>2. \A k \in {0, 4, 5, 20, 21, 22, 24} : Bit(w, k) \in 0 .. 1
  <2> SUFFICES ASSUME NEW k \in {0, 4, 5, 20, 21, 22, 24}
               PROVE  Bit(w, k) \in 0 .. 1
    OBVIOUS
  <2>1. k - k + 1 = 1 /\ 2 - 1 = 1
    BY SMT
  <2>2. 2^k \in Nat \ {0}
    BY <1>1, Zenon
  <2>3. 2^(k - k + 1) = 2
    BY <2>1, SmallPowers
  <2>4. Bits(w, k, k) \in 0 .. 2 - 1
    BY <2>2, <2>3, Field, Sizes, Zenon
  <2> QED
    BY <2>1, <2>4, Zenon DEF Bit
<1>3. Bits(w, 6, 5) \in 0 .. 3 /\ Bits(w, 22, 21) \in 0 .. 3
  <2>1. 2^(6 - 5 + 1) = 4 /\ 2^(22 - 21 + 1) = 4 /\ 4 - 1 = 3
    BY SMT
  <2>2. Bits(w, 6, 5) \in 0 .. 4 - 1
    BY <1>1, <2>1, Field, Sizes, Zenon
  <2>3. Bits(w, 22, 21) \in 0 .. 4 - 1
    BY <1>1, <2>1, Field, Sizes, Zenon
  <2> QED
    BY <2>1, <2>2, <2>3, Zenon
<1>4. Bits(w, 2, 0) \in 0 .. 7 /\ Bits(w, 6, 4) \in 0 .. 7 /\ Bits(w, 7, 5) \in 0 .. 7
  <2>1. 2^(2 - 0 + 1) = 8 /\ 2^(6 - 4 + 1) = 8 /\ 2^(7 - 5 + 1) = 8 /\ 8 - 1 = 7
    BY SMT
  <2>2. Bits(w, 2, 0) \in 0 .. 8 - 1
    BY <1>1, <2>1, Field, Sizes, Zenon
  <2>3. Bits(w, 6, 4) \in 0 .. 8 - 1
    BY <1>1, <2>1, Field, Sizes, Zenon
  <2>4. Bits(w, 7, 5) \in 0 .. 8 - 1
    BY <1>1, <2>1, Field, Sizes, Zenon
  <2> QED
    BY <2>1, <2>2, <2>3, <2>4, Zenon
<1>5. Bits(w, 23, 21) \in 0 .. 7 /\ Bits(w, 22, 20) \in 0 .. 7
  <2>1. 2^(23 - 21 + 1) = 8 /\ 2^(22 - 20 + 1) = 8 /\ 8 - 1 = 7
    BY SMT
  <2>2. Bits(w, 23, 21) \in 0 .. 8 - 1
    BY <1>1, <2>1, Field, Sizes, Zenon
  <2>3. Bits(w, 22, 20) \in 0 .. 8 - 1
    BY <1>1, <2>1, Field, Sizes, Zenon
  <2> QED
    BY <2>1, <2>2, <2>3, Zenon
<1>6. Bits(w, 7, 4) \in 0 .. 15 /\ Bits(w, 23, 20) \in 0 .. 15
  <2>1. 2^(7 - 4 + 1) = 16 /\ 2^(23 - 20 + 1) = 16 /\ 16 - 1 = 15
    BY SMT
  <2>2. Bits(w, 7, 4) \in 0 .. 16 - 1
    BY <1>1, <2>1, Field, Sizes, Zenon
  <2>3. Bits(w, 23, 20) \in 0 .. 16 - 1
    BY <1>1, <2>1, Field, Sizes, Zenon
  <2> QED
    BY <2>1, <2>2, <2>3, Zenon
<1>7. Bits(w, 24, 20) \in 0 .. 31
  <2>1. 2^(24 - 20 + 1) = 32 /\ 32 - 1 = 31
    BY SMT
  <2>2. Bits(w, 24, 20) \in 0 .. 32 - 1
    BY <1>1, <2>1, Field, Sizes, Zenon
  <2> QED
    BY <2>1, <2>2, Zenon
<1>8. Bits(w, 23, 0) \in 0 .. 2^24 - 1
  <2>1. 2^(23 - 0 + 1) = 2^24
    BY SMT
  <2> QED
    BY <1>1, <2>1, Field, Zenon
<1> QED
  BY <1>2, <1>3, <1>4, <1>5, <1>6, <1>7, <1>8, Zenon

(* The bits from 20 up say which instruction it is.                        *)
LEMMA TopOf ==
  ASSUME NEW P \in Nat \ {0}, NEW b \in Nat, b < P * 256
  PROVE  /\ b \div P \in 0 .. 255 /\ (b \div P) % 256 = b \div P
         /\ (b \div (P * 32)) % 8 = (b \div P) \div 32
         /\ (b \div (P * 64)) % 4 = (b \div P) \div 64
         /\ (b \div (P * 8)) % 32 = (b \div P) \div 8
         /\ (b \div (P * 16)) % 16 = (b \div P) \div 16
<1> DEFINE q == b \div P
<1>1. b = P * q + (b % P) /\ b % P \in 0 .. P - 1 /\ q \in Nat
  BY Division
<1>2. /\ q \div 32 = b \div (P * 32) /\ q \div 64 = b \div (P * 64)
      /\ q \div 8 = b \div (P * 8) /\ q \div 16 = b \div (P * 16)
  <2>1. q \div 32 = b \div (P * 32)
    BY DivisionTwice, Sizes, Zenon
  <2>2. q \div 64 = b \div (P * 64)
    <3> DEFINE n == 64
    <3>1. n \in Nat \ {0}
      BY SMT
    <3> HIDE DEF n
    <3>2. q \div n = b \div (P * n)
      BY <3>1, DivisionTwice, Zenon
    <3> QED
      BY <3>2 DEF n
  <2>3. q \div 8 = b \div (P * 8)
    BY DivisionTwice, Sizes, Zenon
  <2>4. q \div 16 = b \div (P * 16)
    BY DivisionTwice, Sizes, Zenon
  <2> QED
    BY <2>1, <2>2, <2>3, <2>4, Zenon
<1> HIDE DEF q
<1>3. q \in 0 .. 255
  <2>1. b % P >= 0 /\ b % P \in Int
    BY <1>1, SMT
  <2>2. q >= 256 => P * q >= P * 256
    BY <1>1, SMT
  <2>3. P * q \in Int /\ P * 256 \in Int
    BY <1>1, SMT
  <2> QED
    BY <1>1, <2>1, <2>2, <2>3, SMT
<1>4. /\ q % 256 = q /\ (q \div 32) % 8 = q \div 32 /\ (q \div 64) % 4 = q \div 64
      /\ (q \div 8) % 32 = q \div 8 /\ (q \div 16) % 16 = q \div 16
  BY <1>3, SMT
<1> QED
  BY <1>2, <1>3, <1>4, Zenon DEF q

LEMMA TopBits ==
  ASSUME NEW w \in ArmWord
  PROVE  /\ Op(w) \in 0 .. 255 /\ Bits(w, 27, 25) = Op(w) \div 32
         /\ Bits(w, 27, 26) = Op(w) \div 64 /\ Bits(w, 27, 23) = Op(w) \div 8
         /\ Bits(w, 27, 24) = Op(w) \div 16 /\ Op(w) = w.body \div 2^20
<1>1. /\ 27 - 20 + 1 = 8 /\ 27 - 25 + 1 = 3 /\ 27 - 26 + 1 = 2 /\ 27 - 23 + 1 = 5
      /\ 27 - 24 + 1 = 4
  BY SMT
<1> DEFINE b == w.body
           P == 2^20
<1>2. P \in Nat \ {0} /\ b \in Nat /\ b < P * 256
  BY WordIsNumber, LargePowers
<1>3. /\ Op(w) = (b \div P) % 256
      /\ Bits(w, 27, 25) = (b \div (P * 32)) % 8 /\ Bits(w, 27, 26) = (b \div (P * 64)) % 4
      /\ Bits(w, 27, 23) = (b \div (P * 8)) % 32 /\ Bits(w, 27, 24) = (b \div (P * 16)) % 16
  <2>1. Op(w) = (b \div P) % 256
    BY <1>1, SmallPowers, Zenon DEF Op, Bits
  <2>2. Bits(w, 27, 25) = (b \div (P * 32)) % 8
    BY <1>1, SmallPowers, LargePowers, Zenon DEF Bits
  <2>3. Bits(w, 27, 26) = (b \div (P * 64)) % 4
    BY <1>1, SmallPowers, LargePowers, Zenon DEF Bits
  <2>4. Bits(w, 27, 23) = (b \div (P * 8)) % 32
    BY <1>1, SmallPowers, LargePowers, Zenon DEF Bits
  <2>5. Bits(w, 27, 24) = (b \div (P * 16)) % 16
    BY <1>1, SmallPowers, LargePowers, Zenon DEF Bits
  <2> QED
    BY <2>1, <2>2, <2>3, <2>4, <2>5, Zenon
<1> HIDE DEF b, P
<1>4. b \div P \in 0 .. 255 /\ (b \div P) % 256 = b \div P
  BY <1>2, TopOf
<1>5. /\ (b \div (P * 32)) % 8 = (b \div P) \div 32 /\ (b \div (P * 64)) % 4 = (b \div P) \div 64
      /\ (b \div (P * 8)) % 32 = (b \div P) \div 8 /\ (b \div (P * 16)) % 16 = (b \div P) \div 16
  BY <1>2, TopOf
<1>6. Op(w) = b \div P
  BY <1>3, <1>4, Zenon
<1>7. Op(w) = w.body \div 2^20
  BY <1>6, Zenon DEF b, P
<1> QED
  BY <1>3, <1>4, <1>5, <1>6, <1>7, Zenon

-----------------------------------------------------------------------------
(***************************************************************************)
(* Tables: n entries, and the labels that are not among them.              *)
(***************************************************************************)
Rows(s, n, X) ==
  n \in Nat /\ s = [k \in 1 .. n |-> s[k]] /\ \A k \in 1 .. n : s[k] \notin X

LEMMA RowsAreSeq ==
  ASSUME NEW s, NEW n, NEW X, Rows(s, n, X)
  PROVE  n \in Nat /\ DOMAIN s = 1 .. n /\ s \in Seq({s[k] : k \in 1 .. n}) /\ Len(s) = n
<1>1. n \in Nat /\ s = [k \in 1 .. n |-> s[k]]
  BY DEF Rows
<1>2. DOMAIN s = 1 .. n
  BY <1>1
<1>3. s \in [1 .. n -> {s[k] : k \in 1 .. n}]
  BY <1>1
<1>4. s \in Seq({s[k] : k \in 1 .. n})
  BY <1>1, <1>3, SeqDef
<1>5. Len(s) = n
  BY <1>1, <1>2, <1>4, LenProperties
<1> QED
  BY <1>1, <1>2, <1>4, <1>5

(* The one table after the other.                                          *)
Spliced(u, s, m, t, n) ==
  (\A k \in 1 .. m : u[k] = s[k]) /\ (\A k \in m + 1 .. m + n : u[k] = t[k - m])

LEMMA Joined ==
  ASSUME NEW s, NEW m, NEW t, NEW n, NEW X, Rows(s, m, X), Rows(t, n, X)
  PROVE  Rows(s \o t, m + n, X) /\ Spliced(s \o t, s, m, t, n)
<1> DEFINE S == {s[k] : k \in 1 .. m}
           T == {t[k] : k \in 1 .. n}
           u == s \o t
<1>1. m \in Nat /\ n \in Nat /\ s \in Seq(S) /\ t \in Seq(T) /\ Len(s) = m /\ Len(t) = n
  BY RowsAreSeq
<1> HIDE DEF S, T
<1>2. s \in Seq(S \cup T) /\ t \in Seq(S \cup T)
  BY <1>1
<1>3. /\ u \in Seq(S \cup T) /\ Len(u) = m + n
      /\ \A k \in 1 .. m + n : u[k] = IF k <= m THEN s[k] ELSE t[k - m]
  BY <1>1, <1>2, ConcatProperties
<1>4. DOMAIN u = 1 .. m + n
  BY <1>3, LenProperties
<1>5. u = [k \in 1 .. m + n |-> u[k]]
  <2>1. u \in [1 .. m + n -> S \cup T]
    BY <1>3, LenProperties
  <2> QED
    BY <2>1
<1> HIDE DEF u
<1>6. \A k \in 1 .. m : u[k] = s[k]
  BY <1>1, <1>3, SMT
<1>7. \A k \in m + 1 .. m + n : u[k] = t[k - m] /\ k - m \in 1 .. n
  BY <1>1, <1>3, SMT
<1>8. \A k \in 1 .. m + n : u[k] \notin X
  <2>1. \A k \in 1 .. m + n : k \in 1 .. m \/ k \in m + 1 .. m + n
    BY <1>1, SMT
  <2> QED
    BY <1>6, <1>7, <2>1, Zenon DEF Rows
<1>9. m + n \in Nat
  BY <1>1, SMT
<1>10. Rows(u, m + n, X)
  BY <1>5, <1>8, <1>9, Zenon DEF Rows
<1>11. Spliced(u, s, m, t, n)
  BY <1>6, <1>7, Zenon DEF Spliced
<1> QED
  BY <1>10, <1>11, Zenon DEF u

LEMMA Doubled ==
  ASSUME NEW s, NEW n, NEW X, Rows(s, n, X)
  PROVE  Rows(Twice(s), 2 * n, X)
<1>1. n \in Nat /\ Len(s) = n
  BY RowsAreSeq
<1>2. \A k \in 1 .. 2 * n : (k + 1) \div 2 \in 1 .. n
  BY <1>1, SMT
<1>3. Twice(s) = [k \in 1 .. 2 * n |-> s[(k + 1) \div 2]]
  BY <1>1, Zenon DEF Twice
<1>4. \A k \in 1 .. 2 * n : Twice(s)[k] = s[(k + 1) \div 2]
  BY <1>3, Zenon
<1>5. Twice(s) = [k \in 1 .. 2 * n |-> Twice(s)[k]]
  BY <1>3
<1>6. \A k \in 1 .. 2 * n : Twice(s)[k] \notin X
  BY <1>2, <1>4, Zenon DEF Rows
<1>7. 2 * n \in Nat
  BY <1>1, SMT
<1> QED
  BY <1>5, <1>6, <1>7, Zenon DEF Rows

LEMMA Repeated ==
  ASSUME NEW n \in Nat, NEW X, NEW name, name \notin X
  PROVE  Rows(Times(n, name), n, X)
<1>1. Times(n, name) = [k \in 1 .. n |-> name]
  BY DEF Times
<1> QED
  BY <1>1 DEF Rows

LEMMA Extended ==
  ASSUME NEW s, NEW m, NEW t, NEW n, NEW X, Rows(s, m, X), Rows(t, n, X), NEW q, q = m + n
  PROVE  Rows(s \o t, q, X)
BY Joined, Zenon

Moved == {"I_B", "I_BL"}
Named == {"I_MVN", "I_DBG", "I_SMUL", "I_SMC", "I_CLZ", "I_PKH", "I_SEL", "I_SMMLS", "I_SMMLA",
          "I_SMLSD", "I_SMUAD", "I_SMLAD", "I_SMLALD", "I_SMMUL", "I_SMUSD", "I_SMLSLD",
          "I_SMLA", "I_SMLAL"}

LEMMA SmallTables ==
  /\ Rows(type_mul_instr_lookup, 8, Moved) /\ Rows(type_stack1_instr_lookup, 8, Moved)
  /\ Rows(type_stack2_instr_lookup, 8, Moved) /\ Rows(type_uncond2_instr_lookup, 8, Moved)
  /\ Rows(type_bits_instr_lookup, 4, Moved) /\ Rows(type_sat_instr_lookup, 4, Moved)
<1>1. Rows(type_mul_instr_lookup, 8, Moved)
  BY SMT DEF Rows, Moved, type_mul_instr_lookup
<1>2. Rows(type_stack1_instr_lookup, 8, Moved)
  BY SMT DEF Rows, Moved, type_stack1_instr_lookup
<1>3. Rows(type_stack2_instr_lookup, 8, Moved)
  BY SMT DEF Rows, Moved, type_stack2_instr_lookup
<1>4. Rows(type_uncond2_instr_lookup, 8, Moved)
  BY SMT DEF Rows, Moved, type_uncond2_instr_lookup
<1>5. Rows(type_bits_instr_lookup, 4, Moved)
  BY SMT DEF Rows, Moved, type_bits_instr_lookup
<1>6. Rows(type_sat_instr_lookup, 4, Moved)
  BY SMT DEF Rows, Moved, type_sat_instr_lookup
<1> QED
  BY <1>1, <1>2, <1>3, <1>4, <1>5, <1>6, Zenon

LEMMA NoneFound ==
  ASSUME NEW n \in Nat
  PROVE  Rows(Invalids(n), n, Moved) /\ Rows(Invalids(n), n, Moved \cup Named)
<1>1. "I_INVLD" \notin Moved /\ "I_INVLD" \notin Moved \cup Named
  BY SMT DEF Moved, Named
<1> QED
  BY <1>1, Repeated, Zenon DEF Invalids

LEMMA OplessTable == Rows(type_opless_instr_lookup, 8, Moved)
<1> DEFINE a == <<"I_NOP", "I_YIELD", "I_WFE", "I_WFI", "I_SEV">>
           b == Invalids(3)
<1>1. Rows(a, 5, Moved)
  BY SMT DEF Rows, Moved
<1>2. Rows(b, 3, Moved)
  BY NoneFound, SMT
<1>3. type_opless_instr_lookup = a \o b
  BY DEF type_opless_instr_lookup
<1> HIDE DEF a, b
<1>4. Rows(a \o b, 8, Moved)
  BY <1>1, <1>2, 8 = 5 + 3, Extended
<1> QED
  BY <1>3, <1>4, Zenon

LEMMA FourShifts == Rows(Twice(<<"I_LSL", "I_LSR", "I_ASR", "I_ROR">>), 8, Moved)
<1>1. Rows(<<"I_LSL", "I_LSR", "I_ASR", "I_ROR">>, 4, Moved)
  BY SMT DEF Rows, Moved
<1>2. Rows(Twice(<<"I_LSL", "I_LSR", "I_ASR", "I_ROR">>), 2 * 4, Moved)
  BY <1>1, Doubled, Zenon
<1>3. 2 * 4 = 8
  BY SMT
<1> QED
  BY <1>2, <1>3, Zenon

LEMMA ShiftTable == Rows(type_shift_instr_lookup, 16, Moved)
<1> DEFINE a == Twice(<<"I_LSL", "I_LSR", "I_ASR", "I_ROR">>)
           b == <<"I_LSL", "I_INVLD", "I_LSR", "I_INVLD", "I_ASR", "I_INVLD", "I_ROR", "I_INVLD">>
<1>1. Rows(a, 8, Moved)
  BY FourShifts
<1>2. Rows(b, 8, Moved)
  BY SMT DEF Rows, Moved
<1>3. type_shift_instr_lookup = a \o b
  BY DEF type_shift_instr_lookup
<1> HIDE DEF a, b
<1>4. Rows(a \o b, 16, Moved)
  BY <1>1, <1>2, 16 = 8 + 8, Extended
<1> QED
  BY <1>3, <1>4, Zenon

LEMMA StackTable == Rows(type_stack0_instr_lookup, 32, Moved)
<1> DEFINE a == <<"I_STR", "I_LDR", "I_STRT", "I_LDRT", "I_STRB", "I_LDRB", "I_STRBT", "I_LDRBT">>
           b == <<"I_STR", "I_LDR", "I_STRT", "I_LDRT", "I_STRB", "I_LDRB", "I_STRBT", "I_LDRBT">>
           c == <<"I_STR", "I_LDR", "I_STR", "I_LDR", "I_STRB", "I_LDRB", "I_STRB", "I_LDRB">>
           d == <<"I_STR", "I_LDR", "I_STR", "I_LDR", "I_STRB", "I_LDRB", "I_STRB", "I_LDRB">>
<1>1. Rows(a, 8, Moved)
  BY SMT DEF Rows, Moved
<1>2. Rows(b, 8, Moved)
  BY SMT DEF Rows, Moved
<1>3. Rows(c, 8, Moved)
  BY SMT DEF Rows, Moved
<1>4. Rows(d, 8, Moved)
  BY SMT DEF Rows, Moved
<1>5. type_stack0_instr_lookup = a \o b \o c \o d
  BY DEF type_stack0_instr_lookup
<1> HIDE DEF a, b, c, d
<1>6. Rows(a \o b, 16, Moved)
  BY <1>1, <1>2, 16 = 8 + 8, Extended
<1>7. Rows(a \o b \o c, 24, Moved)
  BY <1>6, <1>3, 24 = 16 + 8, Extended
<1>8. Rows(a \o b \o c \o d, 32, Moved)
  BY <1>7, <1>4, 32 = 24 + 8, Extended
<1> QED
  BY <1>5, <1>8, Zenon

LEMMA SyncTable == Rows(type_sync_instr_lookup, 16, Moved)
<1> DEFINE a == <<"I_SWP">>
           b == Invalids(3)
           c == <<"I_SWPB">>
           d == Invalids(3)
           e == <<"I_STREX", "I_LDREX", "I_STREXD", "I_LDREXD",
                  "I_STREXB", "I_LDREXB", "I_STREXH", "I_LDREXH">>
<1>1. Rows(a, 1, Moved)
  BY SMT DEF Rows, Moved
<1>2. Rows(b, 3, Moved)
  BY NoneFound, SMT
<1>3. Rows(c, 1, Moved)
  BY SMT DEF Rows, Moved
<1>4. Rows(d, 3, Moved)
  BY NoneFound, SMT
<1>5. Rows(e, 8, Moved)
  BY SMT DEF Rows, Moved
<1>6. type_sync_instr_lookup = a \o b \o c \o d \o e
  BY DEF type_sync_instr_lookup
<1> HIDE DEF a, b, c, d, e
<1>7. Rows(a \o b, 4, Moved)
  BY <1>1, <1>2, 4 = 1 + 3, Extended
<1>8. Rows(a \o b \o c, 5, Moved)
  BY <1>7, <1>3, 5 = 4 + 1, Extended
<1>9. Rows(a \o b \o c \o d, 8, Moved)
  BY <1>8, <1>4, 8 = 5 + 3, Extended
<1>10. Rows(a \o b \o c \o d \o e, 16, Moved)
  BY <1>9, <1>5, 16 = 8 + 8, Extended
<1> QED
  BY <1>6, <1>10, Zenon

LEMMA ExtendTable == Rows(type_pusr_instr_lookup, 16, Moved)
<1> DEFINE a == <<"I_SXTAB16", "I_SXTB16", "I_INVLD", "I_INVLD",
                  "I_SXTAB", "I_SXTB", "I_SXTAH", "I_SXTH">>
           b == <<"I_UXTAB16", "I_UXTB16", "I_INVLD", "I_INVLD",
                  "I_UXTAB", "I_UXTB", "I_UXTAH", "I_UXTH">>
<1>1. Rows(a, 8, Moved)
  BY SMT DEF Rows, Moved
<1>2. Rows(b, 8, Moved)
  BY SMT DEF Rows, Moved
<1>3. type_pusr_instr_lookup = a \o b
  BY DEF type_pusr_instr_lookup
<1> HIDE DEF a, b
<1>4. Rows(a \o b, 16, Moved)
  BY <1>1, <1>2, 16 = 8 + 8, Extended
<1> QED
  BY <1>3, <1>4, Zenon

LEMMA ParallelTable == Rows(type_pas_instr_lookup, 64, Moved \cup Named)
<1> DEFINE a == Invalids(8)
           b == Parallel("I_SADD16", "I_SASX", "I_SSAX", "I_SSUB16", "I_SADD8", "I_SSUB8")
           c == Parallel("I_QADD16", "I_QASX", "I_QSAX", "I_QSUB16", "I_QADD8", "I_QSUB8")
           d == Parallel("I_SHADD16", "I_SHASX", "I_SHSAX", "I_SHSUB16", "I_SHADD8", "I_SHSUB8")
           e == Invalids(8)
           f == Parallel("I_UADD16", "I_UASX", "I_USAX", "I_USUB16", "I_UADD8", "I_USUB8")
           g == Parallel("I_UQADD16", "I_UQASX", "I_UQSAX", "I_UQSUB16", "I_UQADD8", "I_UQSUB8")
           h == Parallel("I_UHADD16", "I_UHASX", "I_UHSAX", "I_UHSUB16", "I_UHADD8", "I_UHSUB8")
<1>1. Rows(a, 8, Moved \cup Named)
  BY NoneFound, SMT
<1>2. Rows(b, 8, Moved \cup Named)
  BY SMT DEF Rows, Moved, Named, Parallel
<1>3. Rows(c, 8, Moved \cup Named)
  BY SMT DEF Rows, Moved, Named, Parallel
<1>4. Rows(d, 8, Moved \cup Named)
  BY SMT DEF Rows, Moved, Named, Parallel
<1>5. Rows(e, 8, Moved \cup Named)
  BY NoneFound, SMT
<1>6. Rows(f, 8, Moved \cup Named)
  BY SMT DEF Rows, Moved, Named, Parallel
<1>7. Rows(g, 8, Moved \cup Named)
  BY SMT DEF Rows, Moved, Named, Parallel
<1>8. Rows(h, 8, Moved \cup Named)
  BY SMT DEF Rows, Moved, Named, Parallel
<1>9. type_pas_instr_lookup = a \o b \o c \o d \o e \o f \o g \o h
  BY DEF type_pas_instr_lookup
<1> HIDE DEF a, b, c, d, e, f, g, h
<1>10. Rows(a \o b, 16, Moved \cup Named)
  BY <1>1, <1>2, 16 = 8 + 8, Extended
<1>11. Rows(a \o b \o c, 24, Moved \cup Named)
  BY <1>10, <1>3, 24 = 16 + 8, Extended
<1>12. Rows(a \o b \o c \o d, 32, Moved \cup Named)
  BY <1>11, <1>4, 32 = 24 + 8, Extended
<1>13. Rows(a \o b \o c \o d \o e, 40, Moved \cup Named)
  BY <1>12, <1>5, 40 = 32 + 8, Extended
<1>14. Rows(a \o b \o c \o d \o e \o f, 48, Moved \cup Named)
  BY <1>13, <1>6, 48 = 40 + 8, Extended
<1>15. Rows(a \o b \o c \o d \o e \o f \o g, 56, Moved \cup Named)
  BY <1>14, <1>7, 56 = 48 + 8, Extended
<1>16. Rows(a \o b \o c \o d \o e \o f \o g \o h, 64, Moved \cup Named)
  BY <1>15, <1>8, 64 = 56 + 8, Extended
<1> QED
  BY <1>9, <1>16, Zenon

-----------------------------------------------------------------------------
(***************************************************************************)
(* The table of labels: B and BL are where they belong and nowhere else,   *)
(* and the labels that the switch on the type must have a case for.        *)
(***************************************************************************)
SpecialAt  == {17, 21, 23, 31, 32, 105, 113, 117, 118}
Special(k) ==
  IF k = 17 THEN "I_SMLA" ELSE IF k = 21 THEN "I_SMLAL" ELSE IF k = 23 THEN "I_SMC"
  ELSE IF k \in {31, 32} THEN "I_MVN" ELSE IF k = 105 THEN "I_SEL"
  ELSE IF k = 113 THEN "I_SMUSD" ELSE IF k = 117 THEN "I_SMLSLD" ELSE "I_SMMUL"

Part(t, m, n) == \A k \in SpecialAt : k \in m + 1 .. m + n => t[k - m] = Special(k)
Labels(s, n)  == Rows(s, n, Moved) /\ Part(s, 0, n)

LEMMA LabelsJoined ==
  ASSUME NEW s, NEW m, NEW t, NEW n, Labels(s, m), Rows(t, n, Moved), Part(t, m, n),
         NEW q, q = m + n
  PROVE  Labels(s \o t, q)
<1> DEFINE u == s \o t
<1>1. m \in Nat /\ n \in Nat
  BY DEF Labels, Rows
<1>2. /\ Rows(u, q, Moved)
      /\ \A k \in 1 .. m : u[k] = s[k]
      /\ \A k \in m + 1 .. m + n : u[k] = t[k - m]
  <2>1. Rows(s, m, Moved)
    BY Zenon DEF Labels
  <2>2. Rows(u, q, Moved)
    BY <2>1, Extended, Zenon
  <2>3. Spliced(u, s, m, t, n)
    BY <2>1, Joined, Zenon
  <2> QED
    BY <2>2, <2>3, Zenon DEF Spliced
<1> HIDE DEF u
<1>3. ASSUME NEW k \in SpecialAt, k \in 0 + 1 .. 0 + q
      PROVE  u[k - 0] = Special(k)
  <2>1. k \in Nat /\ k - 0 = k /\ (k \in 1 .. m \/ k \in m + 1 .. m + n)
    BY <1>1, <1>3, SMT DEF SpecialAt
  <2>2. CASE k \in 1 .. m
    <3>1. k \in 0 + 1 .. 0 + m
      BY <1>1, <2>2, SMT
    <3>2. s[k - 0] = Special(k)
      BY <3>1, Zenon DEF Labels, Part
    <3> QED
      BY <1>2, <2>1, <2>2, <3>2, Zenon
  <2>3. CASE k \in m + 1 .. m + n
    BY <1>2, <2>1, <2>3, Zenon DEF Part
  <2> QED
    BY <2>1, <2>2, <2>3, Zenon
<1>4. Labels(u, q)
  BY <1>2, <1>3, Zenon DEF Labels, Part
<1> QED
  BY <1>4, Zenon DEF u

LEMMA DoubledLabels ==
  /\ Rows(Twice(DataProcessing), 16, Moved)
  /\ Rows(Twice(<<"I_ORR", "I_MOV", "I_BIC", "I_MVN">>), 8, Moved)
<1>1. Rows(DataProcessing, 8, Moved) /\ Rows(<<"I_ORR", "I_MOV", "I_BIC", "I_MVN">>, 4, Moved)
  BY SMT DEF Rows, Moved, DataProcessing
<1>2. /\ Rows(Twice(DataProcessing), 2 * 8, Moved)
      /\ Rows(Twice(<<"I_ORR", "I_MOV", "I_BIC", "I_MVN">>), 2 * 4, Moved)
  BY <1>1, Doubled, Zenon
<1>3. 2 * 8 = 16 /\ 2 * 4 = 8
  BY SMT
<1> QED
  BY <1>2, <1>3, Zenon

LEMMA BlockLabels ==
  ASSUME NEW stm, NEW ldm, NEW ldm2, stm \notin Moved, ldm \notin Moved, ldm2 \notin Moved
  PROVE  Rows(BlockTransfer(stm, ldm, ldm2), 8, Moved)
<1> DEFINE a == <<stm, ldm, stm, ldm2>>
           b == Invalids(4)
<1>1. Rows(a, 4, Moved)
  BY SMT DEF Rows
<1>2. Rows(b, 4, Moved)
  BY NoneFound, SMT
<1>3. BlockTransfer(stm, ldm, ldm2) = a \o b
  BY DEF BlockTransfer
<1> HIDE DEF a, b
<1> QED
  BY <1>1, <1>2, <1>3, 8 = 4 + 4, Extended

Table160 ==
     Twice(DataProcessing)
  \o <<"I_SMLA", "I_TST", "I_SMULW", "I_TEQ", "I_SMLAL", "I_CMP", "I_SMC", "I_CMN">>
  \o <<"I_ORR", "I_ORR", "I_STREXD", "I_RRX", "I_BIC", "I_BIC", "I_MVN", "I_MVN">>
  \o Twice(DataProcessing)
  \o <<"I_MOVW", "I_TST", "I_YIELD", "I_TEQ", "I_MOVT", "I_CMP", "I_INVLD", "I_CMN">>
  \o Twice(<<"I_ORR", "I_MOV", "I_BIC", "I_MVN">>)
  \o Invalids(33)
  \o <<"I_SSUB8", "I_QSUB8", "I_SHSUB8", "I_INVLD", "I_USUB8", "I_UQSUB8", "I_UHSUB8">>
  \o <<"I_SEL", "I_INVLD", "I_INVLD", "I_REV16">>
  \o Invalids(3)
  \o <<"I_REVSH", "I_SMUSD">>
  \o Invalids(3)
  \o <<"I_SMLSLD", "I_SMMUL">>
  \o Invalids(4)
  \o <<"I_SBFX", "I_SBFX", "I_BFI", "I_BFI", "I_UBFX", "I_UDF">>
  \o BlockTransfer("I_STMDA", "I_LDMDA", "I_LDMDA")
  \o BlockTransfer("I_STM", "I_LDM", "I_POP")
  \o BlockTransfer("I_STMDB", "I_LDMDB", "I_LDMDB")
  \o BlockTransfer("I_STMIB", "I_LDMIB", "I_LDMIB")

LEMMA FirstLabels == Labels(Table160, 160)
<1> DEFINE p1 == Twice(DataProcessing)
           p2 == <<"I_SMLA", "I_TST", "I_SMULW", "I_TEQ", "I_SMLAL", "I_CMP", "I_SMC", "I_CMN">>
           p3 == <<"I_ORR", "I_ORR", "I_STREXD", "I_RRX", "I_BIC", "I_BIC", "I_MVN", "I_MVN">>
           p4 == Twice(DataProcessing)
           p5 == <<"I_MOVW", "I_TST", "I_YIELD", "I_TEQ", "I_MOVT", "I_CMP", "I_INVLD", "I_CMN">>
           p6 == Twice(<<"I_ORR", "I_MOV", "I_BIC", "I_MVN">>)
           p7 == Invalids(33)
           p8 == <<"I_SSUB8", "I_QSUB8", "I_SHSUB8", "I_INVLD", "I_USUB8", "I_UQSUB8", "I_UHSUB8">>
           p9 == <<"I_SEL", "I_INVLD", "I_INVLD", "I_REV16">>
           p10 == Invalids(3)
           p11 == <<"I_REVSH", "I_SMUSD">>
           p12 == Invalids(3)
           p13 == <<"I_SMLSLD", "I_SMMUL">>
           p14 == Invalids(4)
           p15 == <<"I_SBFX", "I_SBFX", "I_BFI", "I_BFI", "I_UBFX", "I_UDF">>
           p16 == BlockTransfer("I_STMDA", "I_LDMDA", "I_LDMDA")
           p17 == BlockTransfer("I_STM", "I_LDM", "I_POP")
           p18 == BlockTransfer("I_STMDB", "I_LDMDB", "I_LDMDB")
           p19 == BlockTransfer("I_STMIB", "I_LDMIB", "I_LDMIB")
<1>1. Rows(p1, 16, Moved)
  BY DoubledLabels, Zenon
<1>2. Rows(p2, 8, Moved)
  BY SMT DEF Rows, Moved
<1>3. Rows(p3, 8, Moved)
  BY SMT DEF Rows, Moved
<1>4. Rows(p4, 16, Moved)
  BY DoubledLabels, Zenon
<1>5. Rows(p5, 8, Moved)
  BY SMT DEF Rows, Moved
<1>6. Rows(p6, 8, Moved)
  BY DoubledLabels, Zenon
<1>7. Rows(p7, 33, Moved)
  BY NoneFound, SMT
<1>8. Rows(p8, 7, Moved)
  BY SMT DEF Rows, Moved
<1>9. Rows(p9, 4, Moved)
  BY SMT DEF Rows, Moved
<1>10. Rows(p10, 3, Moved)
  BY NoneFound, SMT
<1>11. Rows(p11, 2, Moved)
  BY SMT DEF Rows, Moved
<1>12. Rows(p12, 3, Moved)
  BY NoneFound, SMT
<1>13. Rows(p13, 2, Moved)
  BY SMT DEF Rows, Moved
<1>14. Rows(p14, 4, Moved)
  BY NoneFound, SMT
<1>15. Rows(p15, 6, Moved)
  BY SMT DEF Rows, Moved
<1>16. Rows(p16, 8, Moved)
  BY BlockLabels, SMT DEF Moved
<1>17. Rows(p17, 8, Moved)
  BY BlockLabels, SMT DEF Moved
<1>18. Rows(p18, 8, Moved)
  BY BlockLabels, SMT DEF Moved
<1>19. Rows(p19, 8, Moved)
  BY BlockLabels, SMT DEF Moved
<1>20. Part(p1, 0, 16)
  BY SMT DEF Part, SpecialAt
<1>21. Part(p2, 16, 8)
  BY SMT DEF Part, SpecialAt, Special
<1>22. Part(p3, 24, 8)
  BY SMT DEF Part, SpecialAt, Special
<1>23. Part(p4, 32, 16)
  BY SMT DEF Part, SpecialAt
<1>24. Part(p5, 48, 8)
  BY SMT DEF Part, SpecialAt
<1>25. Part(p6, 56, 8)
  BY SMT DEF Part, SpecialAt
<1>26. Part(p7, 64, 33)
  BY SMT DEF Part, SpecialAt
<1>27. Part(p8, 97, 7)
  BY SMT DEF Part, SpecialAt
<1>28. Part(p9, 104, 4)
  BY SMT DEF Part, SpecialAt, Special
<1>29. Part(p10, 108, 3)
  BY SMT DEF Part, SpecialAt
<1>30. Part(p11, 111, 2)
  BY SMT DEF Part, SpecialAt, Special
<1>31. Part(p12, 113, 3)
  BY SMT DEF Part, SpecialAt
<1>32. Part(p13, 116, 2)
  BY SMT DEF Part, SpecialAt, Special
<1>33. Part(p14, 118, 4)
  BY SMT DEF Part, SpecialAt
<1>34. Part(p15, 122, 6)
  BY SMT DEF Part, SpecialAt
<1>35. Part(p16, 128, 8)
  BY SMT DEF Part, SpecialAt
<1>36. Part(p17, 136, 8)
  BY SMT DEF Part, SpecialAt
<1>37. Part(p18, 144, 8)
  BY SMT DEF Part, SpecialAt
<1>38. Part(p19, 152, 8)
  BY SMT DEF Part, SpecialAt
<1>39. Table160 = p1 \o p2 \o p3 \o p4 \o p5 \o p6 \o p7 \o p8 \o p9
                     \o p10 \o p11 \o p12 \o p13 \o p14 \o p15 \o p16 \o p17 \o p18 \o p19
  BY DEF Table160
<1> HIDE DEF p1, p2, p3, p4, p5, p6, p7, p8, p9, p10, p11, p12, p13, p14, p15, p16, p17, p18, p19
<1>40. Labels(p1, 16)
  BY <1>1, <1>20, Zenon DEF Labels
<1> DEFINE t2 == p1 \o p2
           t3 == t2 \o p3
           t4 == t3 \o p4
           t5 == t4 \o p5
           t6 == t5 \o p6
           t7 == t6 \o p7
           t8 == t7 \o p8
           t9 == t8 \o p9
           t10 == t9 \o p10
           t11 == t10 \o p11
           t12 == t11 \o p12
           t13 == t12 \o p13
           t14 == t13 \o p14
           t15 == t14 \o p15
           t16 == t15 \o p16
           t17 == t16 \o p17
           t18 == t17 \o p18
           t19 == t18 \o p19
<1>41. Labels(t2, 24)
  BY <1>40, <1>2, <1>21, 24 = 16 + 8, LabelsJoined
<1> HIDE DEF t2
<1>42. Labels(t3, 32)
  BY <1>41, <1>3, <1>22, 32 = 24 + 8, LabelsJoined
<1> HIDE DEF t3
<1>43. Labels(t4, 48)
  BY <1>42, <1>4, <1>23, 48 = 32 + 16, LabelsJoined
<1> HIDE DEF t4
<1>44. Labels(t5, 56)
  BY <1>43, <1>5, <1>24, 56 = 48 + 8, LabelsJoined
<1> HIDE DEF t5
<1>45. Labels(t6, 64)
  BY <1>44, <1>6, <1>25, 64 = 56 + 8, LabelsJoined
<1> HIDE DEF t6
<1>46. Labels(t7, 97)
  BY <1>45, <1>7, <1>26, 97 = 64 + 33, LabelsJoined
<1> HIDE DEF t7
<1>47. Labels(t8, 104)
  BY <1>46, <1>8, <1>27, 104 = 97 + 7, LabelsJoined
<1> HIDE DEF t8
<1>48. Labels(t9, 108)
  BY <1>47, <1>9, <1>28, 108 = 104 + 4, LabelsJoined
<1> HIDE DEF t9
<1>49. Labels(t10, 111)
  BY <1>48, <1>10, <1>29, 111 = 108 + 3, LabelsJoined
<1> HIDE DEF t10
<1>50. Labels(t11, 113)
  BY <1>49, <1>11, <1>30, 113 = 111 + 2, LabelsJoined
<1> HIDE DEF t11
<1>51. Labels(t12, 116)
  BY <1>50, <1>12, <1>31, 116 = 113 + 3, LabelsJoined
<1> HIDE DEF t12
<1>52. Labels(t13, 118)
  BY <1>51, <1>13, <1>32, 118 = 116 + 2, LabelsJoined
<1> HIDE DEF t13
<1>53. Labels(t14, 122)
  BY <1>52, <1>14, <1>33, 122 = 118 + 4, LabelsJoined
<1> HIDE DEF t14
<1>54. Labels(t15, 128)
  BY <1>53, <1>15, <1>34, 128 = 122 + 6, LabelsJoined
<1> HIDE DEF t15
<1>55. Labels(t16, 136)
  BY <1>54, <1>16, <1>35, 136 = 128 + 8, LabelsJoined
<1> HIDE DEF t16
<1>56. Labels(t17, 144)
  BY <1>55, <1>17, <1>36, 144 = 136 + 8, LabelsJoined
<1> HIDE DEF t17
<1>57. Labels(t18, 152)
  BY <1>56, <1>18, <1>37, 152 = 144 + 8, LabelsJoined
<1> HIDE DEF t18
<1>58. Labels(t19, 160)
  BY <1>57, <1>19, <1>38, 160 = 152 + 8, LabelsJoined
<1> HIDE DEF t19
<1> QED
  BY <1>39, <1>58, Zenon DEF t2, t3, t4, t5, t6, t7, t8, t9, t10,
                             t11, t12, t13, t14, t15, t16, t17, t18, t19

LEMMA RepeatedName ==
  ASSUME NEW n \in Nat, NEW name
  PROVE  Rows(Times(n, name), n, {}) /\ \A k \in 1 .. n : Times(n, name)[k] = name
<1>1. Times(n, name) = [k \in 1 .. n |-> name]
  BY DEF Times
<1> QED
  BY <1>1 DEF Rows

LEMMA LabelTable ==
  /\ \A k \in SpecialAt : armv7_instr_labels[k] = Special(k)
  /\ \A op \in 0 .. 255 : armv7_instr_labels[op + 1] \in Moved => op \in 160 .. 191
  /\ \A op \in 160 .. 175 : armv7_instr_labels[op + 1] = "I_B"
  /\ \A op \in 176 .. 191 : armv7_instr_labels[op + 1] = "I_BL"
<1> DEFINE a == Table160
           b == Times(16, "I_B")
           c == Times(16, "I_BL")
           d == Invalids(32)
           e == [k \in 1 .. 16 |-> IF k % 2 = 1 THEN "I_MCR" ELSE "I_MRC"]
           f == Times(16, "I_SVC")
           t1 == a \o b
           t2 == t1 \o c
           t3 == t2 \o d
           t4 == t3 \o e
           t5 == t4 \o f
<1>1. Labels(a, 160)
  BY FirstLabels
<1>2. Rows(a, 160, Moved) /\ Rows(a, 160, {})
  <2>1. Rows(a, 160, Moved)
    BY <1>1, Zenon DEF Labels
  <2> QED
    BY <2>1, Zenon DEF Rows
<1>3. Rows(b, 16, {}) /\ \A k \in 1 .. 16 : b[k] = "I_B"
  BY RepeatedName, SMT
<1>4. Rows(c, 16, {}) /\ \A k \in 1 .. 16 : c[k] = "I_BL"
  BY RepeatedName, SMT
<1>5. Rows(d, 32, {}) /\ \A k \in 1 .. 32 : d[k] \notin Moved
  <2>1. Rows(d, 32, {}) /\ \A k \in 1 .. 32 : d[k] = "I_INVLD"
    BY RepeatedName, SMT DEF Invalids
  <2> QED
    BY <2>1, SMT DEF Moved
<1>6. Rows(e, 16, {}) /\ \A k \in 1 .. 16 : e[k] \notin Moved
  BY SMT DEF Rows, Moved
<1>7. Rows(f, 16, {}) /\ \A k \in 1 .. 16 : f[k] \notin Moved
  BY SMT DEF Rows, Moved, Times
<1>8. armv7_instr_labels = t5
  BY DEF armv7_instr_labels, Table160
<1> HIDE DEF a, b, c, d, e, f, t1, t2, t3, t4, t5
<1>0. /\ 176 = 160 + 16 /\ 161 = 160 + 1 /\ 192 = 176 + 16 /\ 177 = 176 + 1
      /\ 224 = 192 + 32 /\ 193 = 192 + 1 /\ 240 = 224 + 16 /\ 225 = 224 + 1
      /\ 256 = 240 + 16 /\ 241 = 240 + 1
  BY SMT
<1>9. /\ Rows(t1, 176, {}) /\ \A k \in 1 .. 160 : t1[k] = a[k]
      /\ \A k \in 161 .. 176 : t1[k] = b[k - 160]
  <2>1. t1 = a \o b
    BY DEF t1
  <2>2. Rows(a, 160, {}) /\ Rows(b, 16, {})
    BY <1>2, <1>3, Zenon
  <2>3. Rows(t1, 176, {})
    <3>1. Rows(a \o b, 176, {})
      BY <2>2, 176 = 160 + 16, Extended
    <3> QED
      BY <2>1, <3>1
  <2>4. Spliced(t1, a, 160, b, 16)
    BY <2>1, <2>2, Joined
  <2> QED
    BY <1>0, <2>3, <2>4 DEF Spliced
<1>10. /\ Rows(t2, 192, {}) /\ \A k \in 1 .. 176 : t2[k] = t1[k]
       /\ \A k \in 177 .. 192 : t2[k] = c[k - 176]
  <2>1. t2 = t1 \o c
    BY DEF t2
  <2>2. Rows(t1, 176, {}) /\ Rows(c, 16, {})
    BY <1>9, <1>4, Zenon
  <2>3. Rows(t2, 192, {})
    <3>1. Rows(t1 \o c, 192, {})
      BY <2>2, 192 = 176 + 16, Extended
    <3> QED
      BY <2>1, <3>1
  <2>4. Spliced(t2, t1, 176, c, 16)
    BY <2>1, <2>2, Joined
  <2> QED
    BY <1>0, <2>3, <2>4 DEF Spliced
<1>11. /\ Rows(t3, 224, {}) /\ \A k \in 1 .. 192 : t3[k] = t2[k]
       /\ \A k \in 193 .. 224 : t3[k] = d[k - 192]
  <2>1. t3 = t2 \o d
    BY DEF t3
  <2>2. Rows(t2, 192, {}) /\ Rows(d, 32, {})
    BY <1>10, <1>5, Zenon
  <2>3. Rows(t3, 224, {})
    <3>1. Rows(t2 \o d, 224, {})
      BY <2>2, 224 = 192 + 32, Extended
    <3> QED
      BY <2>1, <3>1
  <2>4. Spliced(t3, t2, 192, d, 32)
    BY <2>1, <2>2, Joined
  <2> QED
    BY <1>0, <2>3, <2>4 DEF Spliced
<1>12. /\ Rows(t4, 240, {}) /\ \A k \in 1 .. 224 : t4[k] = t3[k]
       /\ \A k \in 225 .. 240 : t4[k] = e[k - 224]
  <2>1. t4 = t3 \o e
    BY DEF t4
  <2>2. Rows(t3, 224, {}) /\ Rows(e, 16, {})
    BY <1>11, <1>6, Zenon
  <2>3. Rows(t4, 240, {})
    <3>1. Rows(t3 \o e, 240, {})
      BY <2>2, 240 = 224 + 16, Extended
    <3> QED
      BY <2>1, <3>1
  <2>4. Spliced(t4, t3, 224, e, 16)
    BY <2>1, <2>2, Joined
  <2> QED
    BY <1>0, <2>3, <2>4 DEF Spliced
<1>13. /\ \A k \in 1 .. 240 : t5[k] = t4[k]
       /\ \A k \in 241 .. 256 : t5[k] = f[k - 240]
  <2>1. t5 = t4 \o f
    BY DEF t5
  <2>2. Rows(t4, 240, {}) /\ Rows(f, 16, {})
    BY <1>12, <1>7, Zenon
  <2>3. Rows(t5, 256, {})
    <3>1. Rows(t4 \o f, 256, {})
      BY <2>2, 256 = 240 + 16, Extended
    <3> QED
      BY <2>1, <3>1
  <2>4. Spliced(t5, t4, 240, f, 16)
    BY <2>1, <2>2, Joined
  <2> QED
    BY <1>0, <2>3, <2>4 DEF Spliced
<1>14. \A k \in 1 .. 160 : t5[k] = a[k]
  BY <1>9, <1>10, <1>11, <1>12, <1>13, SMT
<1>15. \A k \in SpecialAt : t5[k] = Special(k)
  <2>1. \A k \in SpecialAt : k \in 1 .. 160 /\ k \in 0 + 1 .. 0 + 160 /\ k - 0 = k
    BY SMT DEF SpecialAt
  <2> QED
    BY <1>1, <1>14, <2>1, Zenon DEF Labels, Part
<1>16. \A op \in 160 .. 175 : t5[op + 1] = "I_B"
  BY <1>3, <1>9, <1>10, <1>11, <1>12, <1>13, SMT
<1>17. \A op \in 176 .. 191 : t5[op + 1] = "I_BL"
  BY <1>4, <1>10, <1>11, <1>12, <1>13, SMT
<1>18. ASSUME NEW op \in 0 .. 255, op \notin 160 .. 191
       PROVE  t5[op + 1] \notin Moved
  <2>1. CASE op \in 0 .. 159
    <3>1. op + 1 \in 1 .. 160
      BY <2>1, SMT
    <3> QED
      BY <1>2, <1>14, <3>1, Zenon DEF Rows
  <2>2. CASE op \in 192 .. 223
    <3>1. /\ op + 1 \in 193 .. 224 /\ op + 1 \in 1 .. 240
          /\ op + 1 \in 1 .. 224 /\ (op + 1) - 192 \in 1 .. 32
      BY <2>2, SMT
    <3> QED
      BY <1>5, <1>11, <1>12, <1>13, <3>1
  <2>3. CASE op \in 224 .. 239
    <3>1. op + 1 \in 225 .. 240 /\ op + 1 \in 1 .. 240 /\ (op + 1) - 224 \in 1 .. 16
      BY <2>3, SMT
    <3> QED
      BY <1>6, <1>12, <1>13, <3>1
  <2>4. CASE op \in 240 .. 255
    <3>1. op + 1 \in 241 .. 256 /\ (op + 1) - 240 \in 1 .. 16
      BY <2>4, SMT
    <3> QED
      BY <1>7, <1>13, <3>1
  <2> QED
    BY <1>18, <2>1, <2>2, <2>3, <2>4, SMT
<1> QED
  BY <1>8, <1>15, <1>16, <1>17, <1>18

-----------------------------------------------------------------------------
(***************************************************************************)
(* The table of types.                                                     *)
(***************************************************************************)
LEMMA TypeTable ==
  ASSUME NEW op \in 0 .. 255
  PROVE  /\ op \in 160 .. 191 => armv7_instr_types[op] = "T_ARM_BRNCHSC"
         /\ armv7_instr_types[op] = "T_ARM_MISC" => op \in {22, 30, 31, 104}
         /\ armv7_instr_types[op] = "T_ARM_SM" => op \in {16, 20, 112, 116, 117}
<1> DEFINE In(r) == op \in r[1] .. r[2]
           r0 == CHOOSE r \in TypeRanges : In(r)
<1>1. armv7_instr_types[op] = IF \E r \in TypeRanges : In(r) THEN r0[3] ELSE "T_INVLD"
  BY Zenon DEF armv7_instr_types
<1>2. \A r \in TypeRanges : r[3] = "T_ARM_MISC" /\ In(r) => op \in {22, 30, 31, 104}
  BY SMT DEF TypeRanges
<1>3. \A r \in TypeRanges : r[3] = "T_ARM_SM" /\ In(r) => op \in {16, 20, 112, 116, 117}
  BY SMT DEF TypeRanges
<1>4. op \in 160 .. 191 => \E r \in TypeRanges : In(r)
  <2>1. <<160, 191, "T_ARM_BRNCHSC">> \in TypeRanges
    BY SMT DEF TypeRanges
  <2> QED
    BY <2>1
<1>5. \A r \in TypeRanges : op \in 160 .. 191 /\ In(r) => r[3] = "T_ARM_BRNCHSC"
  BY SMT DEF TypeRanges
<1>6. (\E r \in TypeRanges : In(r)) => r0 \in TypeRanges /\ In(r0)
  BY Zenon
<1> HIDE DEF r0, In
<1>7. "T_INVLD" # "T_ARM_MISC" /\ "T_INVLD" # "T_ARM_SM"
  BY SMT
<1>8. CASE \E r \in TypeRanges : In(r)
  <2>1. armv7_instr_types[op] = r0[3] /\ r0 \in TypeRanges /\ In(r0)
    BY <1>1, <1>6, <1>8, Zenon
  <2> QED
    BY <1>2, <1>3, <1>5, <2>1
<1>9. CASE ~\E r \in TypeRanges : In(r)
  <2>1. armv7_instr_types[op] = "T_INVLD" /\ op \notin 160 .. 191
    BY <1>1, <1>4, <1>9
  <2> QED
    BY <1>7, <2>1, Zenon
<1> QED
  BY <1>8, <1>9, Zenon

-----------------------------------------------------------------------------
(***************************************************************************)
(* Decodings that are neither a branch nor, with one of the two types whose*)
(* switches have a case for every label, one of the parallel additions.    *)
(***************************************************************************)
Stays(d) ==
  /\ d.instr \notin Moved
  /\ d.instr_type \in {"T_ARM_MISC", "T_ARM_SM"} => d.instr \in Named

LEMMA LabelStays ==
  ASSUME NEW instr, NEW type, instr \notin Moved,
         type \in {"T_ARM_MISC", "T_ARM_SM"} => instr \in Named
  PROVE  Stays(Label(instr, type)) /\ Stays(Found(instr, type)) /\ Stays(Invalid)
<1>1. Label(instr, type).instr = instr /\ Label(instr, type).instr_type = type
  BY DEF Label
<1>2. Invalid.instr = "I_INVLD" /\ Invalid.instr_type = "T_INVLD"
  BY DEF Invalid, Label
<1>3. Stays(Label(instr, type))
  BY <1>1, Zenon DEF Stays
<1>4. Stays(Invalid)
  <2>1. "I_INVLD" \notin Moved /\ "T_INVLD" \notin {"T_ARM_MISC", "T_ARM_SM"}
    BY SMT DEF Moved
  <2> QED
    BY <1>2, <2>1, Zenon DEF Stays
<1> QED
  BY <1>3, <1>4, Zenon DEF Found

LEMMA InvalidStays == Stays(Invalid)
<1>1. "I_NOP" \notin Moved /\ "T_ARM_MUL" \notin {"T_ARM_MISC", "T_ARM_SM"}
  BY SMT DEF Moved
<1> QED
  BY <1>1, LabelStays, Zenon

LEMMA FirstStays ==
  ASSUME NEW cases, NEW n \in Nat, DOMAIN cases = 1 .. n, n # 0, cases[n].when,
         \A k \in 1 .. n : cases[k].when => Stays(cases[k].gives)
  PROVE  Stays(FirstOf(cases))
<1>1. PICK k \in 1 .. n : cases[k].when /\ FirstOf(cases) = cases[k].gives
  BY SomeApplies, Zenon
<1> QED
  BY <1>1, Zenon

LEMMA FirstIsNamed ==
  ASSUME NEW cases, NEW n \in Nat, DOMAIN cases = 1 .. n, n # 0, cases[n].when, NEW S,
         \A k \in 1 .. n : cases[k].when => cases[k].gives \in S
  PROVE  FirstOf(cases) \in S
<1>1. PICK k \in 1 .. n : cases[k].when /\ FirstOf(cases) = cases[k].gives
  BY SomeApplies, Zenon
<1> QED
  BY <1>1, Zenon

LEMMA UncondStays ==
  ASSUME NEW w \in ArmWord
  PROVE  Stays(armv7_disas_uncond(w))
<1> DEFINE space   == Bits(w, 27, 25)
           barrier == type_uncond2_instr_lookup[Bits(w, 6, 4) + 1]
           coproc  == IF Bit(w, 4) = 0 THEN "I_CDP2"
                      ELSE IF Bit(w, 20) = 1 THEN "I_MRC2" ELSE "I_MCR2"
           blx     == [Label("I_BLX", "T_ARM_UNCOND") EXCEPT !.imm = BranchImm(w) + 2 * Bit(w, 24)]
           cases   ==
             <<Case(space = 0, Label("I_SETEND", "T_ARM_UNCOND")),
               Case(space = 2 /\ Bit(w, 21) = 1 /\ barrier # "I_INVLD",
                    Label(barrier, "T_ARM_UNCOND")),
               Case(space \in {2, 3}, Preload(w)),
               Case(space = 5, blx),
               Case(space = 7, Label(coproc, "T_ARM_UNCOND")),
               Case(TRUE, Invalid)>>
<1>1. armv7_disas_uncond(w) = FirstOf(cases)
  BY Zenon DEF armv7_disas_uncond
<1>2. DOMAIN cases = 1 .. 6
  BY SMT
<1>3. cases[6].when = TRUE
  BY SMT DEF Case
<1>4. /\ cases[1].gives = Label("I_SETEND", "T_ARM_UNCOND")
      /\ cases[2].gives = Label(barrier, "T_ARM_UNCOND") /\ cases[3].gives = Preload(w)
      /\ cases[4].gives = blx /\ cases[5].gives = Label(coproc, "T_ARM_UNCOND")
      /\ cases[6].gives = Invalid
  BY SMT DEF Case
<1> HIDE DEF cases
<1>5. "T_ARM_UNCOND" \notin {"T_ARM_MISC", "T_ARM_SM"}
  BY SMT
<1>6. barrier \notin Moved
  <2>1. Bits(w, 6, 4) + 1 \in 1 .. 8
    BY BitsAreNumbers, SMT
  <2> QED
    BY <2>1, SmallTables, Zenon DEF Rows
<1>7. "I_SETEND" \notin Moved /\ coproc \notin Moved /\ "I_BLX" \notin Moved
  BY SMT DEF Moved
<1>8. Stays(Preload(w))
  <2>1. PICK instr \in {"I_PLI", "I_PLDW", "I_PLD"} : Preload(w) = Label(instr, "T_ARM_UNCOND")
    BY Zenon DEF Preload
  <2>2. instr \notin Moved
    BY SMT DEF Moved
  <2> QED
    BY <1>5, <2>1, <2>2, LabelStays, Zenon
<1>9. Stays(blx)
  <2>1. blx.instr = "I_BLX" /\ blx.instr_type = "T_ARM_UNCOND"
    BY SMT DEF Label
  <2> QED
    BY <1>5, <1>7, <2>1, Zenon DEF Stays
<1>10. \A k \in 1 .. 6 : Stays(cases[k].gives)
  <2>1. /\ Stays(Label("I_SETEND", "T_ARM_UNCOND")) /\ Stays(Label(barrier, "T_ARM_UNCOND"))
        /\ Stays(Label(coproc, "T_ARM_UNCOND")) /\ Stays(Invalid)
    BY <1>5, <1>6, <1>7, LabelStays, Zenon
  <2>2. \A k \in 1 .. 6 : k \in {1, 2, 3, 4, 5, 6}
    BY SMT
  <2> HIDE DEF barrier, coproc, blx
  <2> QED
    BY <1>4, <1>8, <1>9, <2>1, <2>2, Zenon
<1>11. 6 \in Nat /\ 6 # 0
  BY SMT
<1> QED
  BY <1>1, <1>2, <1>3, <1>10, <1>11, FirstStays, Zenon

LEMMA MultiplyStays ==
  ASSUME NEW w \in ArmWord
  PROVE  Stays(Multiply(w))
<1> DEFINE instr == type_mul_instr_lookup[Bits(w, 23, 21) + 1]
<1>1. Bits(w, 23, 21) + 1 \in 1 .. 8
  BY BitsAreNumbers, SMT
<1>2. instr \notin Moved
  BY <1>1, SmallTables, Zenon DEF Rows
<1>3. "T_ARM_MUL" \notin {"T_ARM_MISC", "T_ARM_SM"}
  BY SMT
<1>4. Stays(Label(instr, "T_ARM_MUL")) /\ Stays(Invalid)
  BY <1>2, <1>3, LabelStays, Zenon
<1> QED
  BY <1>4, Zenon DEF Multiply

LEMMA LoadStoreStays ==
  ASSUME NEW w \in ArmWord
  PROVE  Stays(LoadStore(w))
<1> DEFINE instr == type_stack0_instr_lookup[Bits(w, 24, 20) + 1]
           puw   == <<Bit(w, 24), Bit(w, 23), Bit(w, 21)>>
           four  == Bit(w, 25) = 0 /\ Bits(w, 11, 0) = 4 /\ Rn(w) = SP
           cases ==
             <<Case(instr = "I_STR" /\ puw = <<1, 0, 1>> /\ four, Label("I_PUSH", "T_ARM_STACK0")),
               Case(instr = "I_LDR" /\ puw = <<0, 1, 0>> /\ four, Label("I_POP", "T_ARM_STACK0")),
               Case(TRUE, Label(instr, "T_ARM_STACK0"))>>
<1>1. LoadStore(w) = FirstOf(cases)
  BY Zenon DEF LoadStore
<1>2. DOMAIN cases = 1 .. 3
  BY SMT
<1>3. cases[3].when = TRUE
  BY SMT DEF Case
<1>4. /\ cases[1].gives = Label("I_PUSH", "T_ARM_STACK0")
      /\ cases[2].gives = Label("I_POP", "T_ARM_STACK0")
      /\ cases[3].gives = Label(instr, "T_ARM_STACK0")
  BY SMT DEF Case
<1> HIDE DEF cases
<1>5. instr \notin Moved
  <2>1. Bits(w, 24, 20) + 1 \in 1 .. 32
    BY BitsAreNumbers, SMT
  <2> QED
    BY <2>1, StackTable, Zenon DEF Rows
<1> HIDE DEF instr
<1>6. /\ "I_PUSH" \notin Moved /\ "I_POP" \notin Moved
      /\ "T_ARM_STACK0" \notin {"T_ARM_MISC", "T_ARM_SM"}
  BY SMT DEF Moved
<1>7. Stays(cases[1].gives) /\ Stays(cases[2].gives) /\ Stays(cases[3].gives)
  BY <1>4, <1>5, <1>6, LabelStays, Zenon
<1>8. 3 \in Nat /\ 3 # 0 /\ \A k \in 1 .. 3 : k \in {1, 2, 3}
  BY SMT
<1> QED
  BY <1>1, <1>2, <1>3, <1>7, <1>8, FirstStays, Zenon

LEMMA ExtendStays ==
  ASSUME NEW w \in ArmWord
  PROVE  Extend(w) \notin Moved
<1>1. 2 * Bits(w, 22, 20) + (IF Rn(w) = 15 THEN 1 ELSE 0) + 1 \in 1 .. 16
  BY BitsAreNumbers, SMT
<1> QED
  BY <1>1, ExtendTable, Zenon DEF Rows, Extend

LEMMA ParallelStays ==
  ASSUME NEW w \in ArmWord, NEW type, type \notin {"T_ARM_MISC", "T_ARM_SM"}
  PROVE  Stays(ParallelArith(w, type))
<1> DEFINE k == 8 * Bits(w, 22, 20) + Bits(w, 7, 5) + 1
<1>1. k \in 1 .. 64
  BY BitsAreNumbers, SMT
<1> HIDE DEF k
<1>2. type_pas_instr_lookup[k] \notin Moved
  BY <1>1, ParallelTable, Zenon DEF Rows
<1>3. Stays(Found(type_pas_instr_lookup[k], type))
  BY <1>2, LabelStays, Zenon
<1> QED
  BY <1>3, Zenon DEF ParallelArith, k

(* The labels the table gives for several instructions of one type.        *)
LEMMA ShiftStays ==
  ASSUME NEW w \in ArmWord
  PROVE  Shift(w) \notin Moved
<1> DEFINE instr == type_shift_instr_lookup[Bits(w, 7, 4) + 1]
           zero  == Bit(w, 4) = 0 /\ Bits(w, 11, 7) = 0
           move  == instr = "I_LSL" /\ zero
           cases ==
             <<Case(move /\ Bits(w, 15, 12) = 0 /\ Bits(w, 3, 0) = 0, "I_NOP"),
               Case(move, "I_MOV"),
               Case(instr = "I_ROR" /\ zero, "I_RRX"),
               Case(TRUE, instr)>>
           S == {"I_NOP", "I_MOV", "I_RRX", instr}
<1>1. Shift(w) = FirstOf(cases)
  BY Zenon DEF Shift
<1>2. DOMAIN cases = 1 .. 4
  BY SMT
<1>3. cases[4].when = TRUE
  BY SMT DEF Case
<1>4. /\ cases[1].gives = "I_NOP" /\ cases[2].gives = "I_MOV" /\ cases[3].gives = "I_RRX"
      /\ cases[4].gives = instr
  BY SMT DEF Case
<1> HIDE DEF cases
<1>5. instr \notin Moved
  <2>1. Bits(w, 7, 4) + 1 \in 1 .. 16
    BY BitsAreNumbers, SMT
  <2> QED
    BY <2>1, ShiftTable, Zenon DEF Rows
<1> HIDE DEF instr
<1>6. 4 \in Nat /\ 4 # 0 /\ \A k \in 1 .. 4 : k \in {1, 2, 3, 4}
  BY SMT
<1>7. \A k \in 1 .. 4 : cases[k].gives \in S
  BY <1>4, <1>6, Zenon
<1> HIDE DEF S
<1>8. FirstOf(cases) \in S
  BY <1>2, <1>3, <1>6, <1>7, FirstIsNamed, Zenon
<1>9. "I_NOP" \notin Moved /\ "I_MOV" \notin Moved /\ "I_RRX" \notin Moved
  BY SMT DEF Moved
<1> QED
  BY <1>1, <1>5, <1>8, <1>9, Zenon DEF S

LEMMA BitFieldStays ==
  ASSUME NEW w \in ArmWord
  PROVE  BitField(w) \notin Moved /\ BranchMisc(w) \notin Moved
<1>1. Bits(w, 22, 21) + 1 \in 1 .. 4
  BY BitsAreNumbers, SMT
<1>2. type_bits_instr_lookup[Bits(w, 22, 21) + 1] \notin Moved
  BY <1>1, SmallTables, Zenon DEF Rows
<1>3. BitField(w) \notin Moved
  <2>1. "I_BFC" \notin Moved
    BY SMT DEF Moved
  <2> QED
    BY <1>2, <2>1, Zenon DEF BitField
<1>4. BranchMisc(w) \in {"I_BKPT", "I_BX", "I_BXJ", "I_BLX", "I_MSR", "I_INVLD"}
  BY Zenon DEF BranchMisc
<1>5. \A x \in {"I_BKPT", "I_BX", "I_BXJ", "I_BLX", "I_MSR", "I_INVLD"} : x \notin Moved
  BY SMT DEF Moved
<1> QED
  BY <1>3, <1>4, <1>5, Zenon

LEMMA RefinedStays ==
  ASSUME NEW w \in ArmWord, NEW instr, instr \notin Moved
  PROVE  Refined(instr, w) \notin Moved
<1> DEFINE onStack == Bit(w, 21) = 1 /\ Rn(w) = SP
           reverse == Bits(w, 7, 4) = 3
           cases ==
             <<Case(instr = "I_LDM" /\ onStack, "I_POP"),
               Case(instr = "I_STMDB" /\ onStack, "I_PUSH"),
               Case(instr = "I_REV16" /\ reverse, "I_REV"),
               Case(instr = "I_REVSH" /\ reverse, "I_RBIT"),
               Case(TRUE, instr)>>
           S == {"I_POP", "I_PUSH", "I_REV", "I_RBIT", instr}
<1>1. Refined(instr, w) = FirstOf(cases)
  BY Zenon DEF Refined
<1>2. DOMAIN cases = 1 .. 5
  BY SMT
<1>3. cases[5].when = TRUE
  BY SMT DEF Case
<1>4. /\ cases[1].gives = "I_POP" /\ cases[2].gives = "I_PUSH" /\ cases[3].gives = "I_REV"
      /\ cases[4].gives = "I_RBIT" /\ cases[5].gives = instr
  BY SMT DEF Case
<1> HIDE DEF cases
<1>5. 5 \in Nat /\ 5 # 0 /\ \A k \in 1 .. 5 : k \in {1, 2, 3, 4, 5}
  BY SMT
<1>6. \A k \in 1 .. 5 : cases[k].gives \in S
  BY <1>4, <1>5, Zenon
<1> HIDE DEF S
<1>7. FirstOf(cases) \in S
  BY <1>2, <1>3, <1>5, <1>6, FirstIsNamed, Zenon
<1>8. /\ "I_POP" \notin Moved /\ "I_PUSH" \notin Moved /\ "I_REV" \notin Moved
      /\ "I_RBIT" \notin Moved
  BY SMT DEF Moved
<1> QED
  BY <1>1, <1>7, <1>8, Zenon DEF S

LEMMA NamedStay == \A x \in Named : x \notin Moved
BY SMT DEF Named, Moved

LEMMA MiscStays ==
  ASSUME NEW w \in ArmWord, NEW instr
  PROVE  Stays(Misc(instr, w))
<1> DEFINE nibble == Bits(w, 7, 4)
           pkh    == IF Bit(w, 5) = 0 THEN "I_PKH" ELSE "I_SEL"
           cases  ==
             <<Case(instr \in {"I_MVN", "I_DBG"}, Label(instr, "T_ARM_MISC")),
               Case(instr = "I_SMC" /\ nibble \in {8, 10, 12, 14}, Label("I_SMUL", "T_ARM_SM")),
               Case(instr = "I_SMC" /\ nibble = 7, Label("I_SMC", "T_ARM_MISC")),
               Case(instr = "I_SMC" /\ nibble = 1, Label("I_CLZ", "T_ARM_MISC")),
               Case(instr = "I_SMC", Invalid),
               Case(instr = "I_SEL", Label(pkh, "T_ARM_MISC")),
               Case(TRUE, Invalid)>>
<1>1. Misc(instr, w) = FirstOf(cases)
  BY Zenon DEF Misc
<1>2. DOMAIN cases = 1 .. 7
  BY SMT
<1>3. cases[7].when = TRUE /\ cases[1].when = (instr \in {"I_MVN", "I_DBG"})
  BY SMT DEF Case
<1>4. /\ cases[1].gives = Label(instr, "T_ARM_MISC")
      /\ cases[2].gives = Label("I_SMUL", "T_ARM_SM")
      /\ cases[3].gives = Label("I_SMC", "T_ARM_MISC")
      /\ cases[4].gives = Label("I_CLZ", "T_ARM_MISC")
      /\ cases[5].gives = Invalid /\ cases[6].gives = Label(pkh, "T_ARM_MISC")
      /\ cases[7].gives = Invalid
  BY SMT DEF Case
<1> HIDE DEF cases
<1>5. /\ "I_SMUL" \in Named /\ "I_SMC" \in Named /\ "I_CLZ" \in Named /\ pkh \in Named
      /\ \A x \in {"I_MVN", "I_DBG"} : x \in Named
  BY SMT DEF Named
<1> HIDE DEF pkh
<1>6. /\ Stays(cases[2].gives) /\ Stays(cases[3].gives) /\ Stays(cases[4].gives)
      /\ Stays(cases[5].gives) /\ Stays(cases[6].gives) /\ Stays(cases[7].gives)
  BY <1>4, <1>5, NamedStay, LabelStays, Zenon
<1>7. cases[1].when => Stays(cases[1].gives)
  BY <1>3, <1>4, <1>5, NamedStay, LabelStays, Zenon
<1>8. 7 \in Nat /\ 7 # 0 /\ \A k \in 1 .. 7 : k \in {1, 2, 3, 4, 5, 6, 7}
  BY SMT
<1>9. \A k \in 1 .. 7 : cases[k].when => Stays(cases[k].gives)
  BY <1>6, <1>7, <1>8, Zenon
<1> QED
  BY <1>1, <1>2, <1>3, <1>8, <1>9, FirstStays, Zenon

LEMMA SignedMultiplyNamed ==
  ASSUME NEW w \in ArmWord, NEW instr \in SignedCases
  PROVE  SignedMultiply(instr, w) \in Named
<1> DEFINE Ra    == Bits(w, 15, 12)
           bit6  == Bit(w, 6)
           ad    == IF Ra = 15 THEN "I_SMUAD" ELSE "I_SMLAD"
           cases ==
             <<Case(instr = "I_SMMUL" /\ bit6 = 1, "I_SMMLS"),
               Case(instr = "I_SMMUL" /\ Ra # 15, "I_SMMLA"),
               Case(instr = "I_SMUSD" /\ bit6 = 1 /\ Bits(w, 3, 0) # 15, "I_SMLSD"),
               Case(instr = "I_SMUSD" /\ bit6 = 0, ad),
               Case(instr = "I_SMLSLD" /\ bit6 = 0, "I_SMLALD"),
               Case(TRUE, instr)>>
<1>1. SignedMultiply(instr, w) = FirstOf(cases)
  BY Zenon DEF SignedMultiply
<1>2. DOMAIN cases = 1 .. 6
  BY SMT
<1>3. cases[6].when = TRUE
  BY SMT DEF Case
<1>4. /\ cases[1].gives = "I_SMMLS" /\ cases[2].gives = "I_SMMLA" /\ cases[3].gives = "I_SMLSD"
      /\ cases[4].gives = ad /\ cases[5].gives = "I_SMLALD" /\ cases[6].gives = instr
  BY SMT DEF Case
<1> HIDE DEF cases
<1>5. /\ "I_SMMLS" \in Named /\ "I_SMMLA" \in Named /\ "I_SMLSD" \in Named /\ ad \in Named
      /\ "I_SMLALD" \in Named /\ instr \in Named
  BY SMT DEF Named, SignedCases
<1> HIDE DEF ad
<1>6. 6 \in Nat /\ 6 # 0 /\ \A k \in 1 .. 6 : k \in {1, 2, 3, 4, 5, 6}
  BY SMT
<1>7. \A k \in 1 .. 6 : cases[k].gives \in Named
  BY <1>4, <1>5, <1>6, Zenon
<1> QED
  BY <1>1, <1>2, <1>3, <1>6, <1>7, FirstIsNamed, Zenon

(* The label at hand when control comes to the switch on T_ARM_MISC or on  *)
(* T_ARM_SM is one it has a case for.                                      *)
LEMMA SwitchesAreTotal ==
  ASSUME NEW op \in 0 .. 255
  PROVE  /\ armv7_instr_types[op] = "T_ARM_MISC" => armv7_instr_labels[op + 1] \in MiscCases
         /\ armv7_instr_types[op] = "T_ARM_SM" => armv7_instr_labels[op + 1] \in SignedCases
<1>1. ASSUME op \in {22, 30, 31, 104}
      PROVE  armv7_instr_labels[op + 1] \in MiscCases
  <2>1. op + 1 \in {23, 31, 32, 105}
    BY <1>1, SMT
  <2>2. armv7_instr_labels[op + 1] = Special(op + 1)
    BY <2>1, LabelTable, SMT DEF SpecialAt
  <2> QED
    BY <2>1, <2>2, SMT DEF Special, MiscCases
<1>2. ASSUME op \in {16, 20, 112, 116, 117}
      PROVE  armv7_instr_labels[op + 1] \in SignedCases
  <2>1. op + 1 \in {17, 21, 113, 117, 118}
    BY <1>2, SMT
  <2>2. armv7_instr_labels[op + 1] = Special(op + 1)
    BY <2>1, LabelTable, SMT DEF SpecialAt
  <2> QED
    BY <2>1, <2>2, SMT DEF Special, SignedCases
<1> QED
  BY <1>1, <1>2, TypeTable

(* The switch on the encoding type.                                        *)
ByTypeCases(w, op, instr, type, immediate, address, coproc) ==
  <<Case(type \in {"T_ARM_ARITH_SHIFT", "T_ARM_MOV_IMM", "T_ARM_CMP_OP", "T_ARM_CMP_IMM",
                   "T_ARM_UDF"}, Label(instr, type)),
    Case(type = "T_ARM_ARITH_IMM", Label(IF address THEN "I_ADR" ELSE instr, type)),
    Case(type = "T_ARM_BITS", Label(BitField(w), type)),
    Case(type = "T_ARM_BRNCHSC", immediate),
    Case(type = "T_ARM_BRNCHMISC", Found(BranchMisc(w), type)),
    Case(type = "T_ARM_OPLESS", Found(type_opless_instr_lookup[Bits(w, 2, 0) + 1], type)),
    Case(type = "T_ARM_DST_SRC", Found(Shift(w), type)),
    Case(type \in {"T_ARM_LDSTREGS", "T_ARM_BITREV"}, Label(Refined(instr, w), type)),
    Case(type = "T_ARM_MISC" /\ instr \in MiscCases, Misc(instr, w)),
    Case(type \in {"T_ARM_MISC", "T_ARM_SM"} /\ instr \in SignedCases,
         Label(SignedMultiply(instr, w), type)),
    Case(type \in {"T_ARM_MISC", "T_ARM_SM", "T_ARM_PAS"}, ParallelArith(w, type)),
    Case(type = "T_ARM_MVCR", Label(coproc, type)),
    Case(TRUE, Invalid)>>

LEMMA ByTypeStays ==
  ASSUME NEW w \in ArmWord, Op(w) \notin 160 .. 191
  PROVE  Stays(ByType(w))
<1> DEFINE op      == Op(w)
           instr   == armv7_instr_labels[op + 1]
           type    == armv7_instr_types[op]
           imm     == IF instr = "I_SVC" THEN Bits(w, 23, 0) ELSE BranchImm(w)
           immediate == [Label(instr, type) EXCEPT !.imm = imm]
           address == instr \in {"I_ADD", "I_SUB"} /\ Bit(w, 20) = 0 /\ Rn(w) = PC
           coproc  == IF Bit(w, 4) = 0 THEN "I_CDP" ELSE instr
           none    == type_opless_instr_lookup[Bits(w, 2, 0) + 1]
           adr     == IF address THEN "I_ADR" ELSE instr
           cases   == ByTypeCases(w, op, instr, type, immediate, address, coproc)
<1>1. ByType(w) = FirstOf(cases)
  BY Zenon DEF ByType, ByTypeCases, Op
<1>2. instr \notin Moved
  BY TopBits, LabelTable, SMT
<1>3. /\ type = "T_ARM_MISC" => instr \in MiscCases
      /\ type = "T_ARM_SM" => instr \in SignedCases
  <2>1. op \in 0 .. 255
    BY TopBits
  <2> HIDE DEF op
  <2> QED
    BY <2>1, SwitchesAreTotal
<1>4. coproc \notin Moved /\ adr \notin Moved
  <2>1. "I_CDP" \notin Moved /\ "I_ADR" \notin Moved
    BY SMT DEF Moved
  <2> QED
    BY <1>2, <2>1, Zenon
<1>5. none \notin Moved
  <2>1. Bits(w, 2, 0) + 1 \in 1 .. 8
    BY BitsAreNumbers, SMT
  <2> QED
    BY <2>1, OplessTable, Zenon DEF Rows
<1>6. immediate.instr = instr /\ immediate.instr_type = type
  BY SMT DEF Label
<1> HIDE DEF instr, type, immediate, address, coproc, none, adr, op
<1>7. DOMAIN cases = 1 .. 13
  BY SMT DEF ByTypeCases
<1>8. /\ cases[1].when = (type \in {"T_ARM_ARITH_SHIFT", "T_ARM_MOV_IMM", "T_ARM_CMP_OP",
                                    "T_ARM_CMP_IMM", "T_ARM_UDF"})
      /\ cases[2].when = (type = "T_ARM_ARITH_IMM") /\ cases[3].when = (type = "T_ARM_BITS")
      /\ cases[4].when = (type = "T_ARM_BRNCHSC") /\ cases[5].when = (type = "T_ARM_BRNCHMISC")
      /\ cases[6].when = (type = "T_ARM_OPLESS") /\ cases[7].when = (type = "T_ARM_DST_SRC")
      /\ cases[8].when = (type \in {"T_ARM_LDSTREGS", "T_ARM_BITREV"})
      /\ cases[9].when = (type = "T_ARM_MISC" /\ instr \in MiscCases)
      /\ cases[10].when = (type \in {"T_ARM_MISC", "T_ARM_SM"} /\ instr \in SignedCases)
      /\ cases[11].when = (type \in {"T_ARM_MISC", "T_ARM_SM", "T_ARM_PAS"})
      /\ cases[12].when = (type = "T_ARM_MVCR") /\ cases[13].when = TRUE
  BY SMT DEF ByTypeCases, Case
<1>9. /\ cases[1].gives = Label(instr, type) /\ cases[2].gives = Label(adr, type)
      /\ cases[3].gives = Label(BitField(w), type) /\ cases[4].gives = immediate
      /\ cases[5].gives = Found(BranchMisc(w), type) /\ cases[6].gives = Found(none, type)
      /\ cases[7].gives = Found(Shift(w), type) /\ cases[8].gives = Label(Refined(instr, w), type)
      /\ cases[9].gives = Misc(instr, w)
      /\ cases[10].gives = Label(SignedMultiply(instr, w), type)
      /\ cases[11].gives = ParallelArith(w, type) /\ cases[12].gives = Label(coproc, type)
      /\ cases[13].gives = Invalid
  BY SMT DEF ByTypeCases, Case, adr, none
<1> HIDE DEF cases
<1> DEFINE Other == type \notin {"T_ARM_MISC", "T_ARM_SM"}
<1>10. /\ type \in {"T_ARM_ARITH_SHIFT", "T_ARM_MOV_IMM", "T_ARM_CMP_OP", "T_ARM_CMP_IMM",
                    "T_ARM_UDF"} => Other
       /\ type = "T_ARM_ARITH_IMM" => Other
       /\ type = "T_ARM_BITS" => Other
       /\ type = "T_ARM_BRNCHSC" => Other
       /\ type = "T_ARM_BRNCHMISC" => Other
       /\ type = "T_ARM_OPLESS" => Other
       /\ type = "T_ARM_DST_SRC" => Other
       /\ type \in {"T_ARM_LDSTREGS", "T_ARM_BITREV"} => Other
       /\ type = "T_ARM_MVCR" => Other
  BY SMT
<1>11. \A x : x \notin Moved /\ Other => Stays(Label(x, type)) /\ Stays(Found(x, type))
  BY LabelStays, Zenon
<1> HIDE DEF Other
<1>12. cases[1].when => Stays(cases[1].gives)
  BY <1>2, <1>8, <1>9, <1>10, <1>11, Zenon
<1>13. cases[2].when => Stays(cases[2].gives)
  <2> SUFFICES ASSUME cases[2].when
               PROVE  Stays(cases[2].gives)
    OBVIOUS
  <2>1. Other
    BY <1>8, <1>10, Zenon
  <2>2. Stays(Label(adr, type))
    BY <1>4, <1>11, <2>1, Zenon
  <2> QED
    BY <1>9, <2>2, Zenon
<1>14. cases[3].when => Stays(cases[3].gives)
  <2> SUFFICES ASSUME cases[3].when
               PROVE  Stays(cases[3].gives)
    OBVIOUS
  <2>1. Other
    BY <1>8, <1>10, Zenon
  <2>2. Stays(Label(BitField(w), type))
    BY <1>11, <2>1, BitFieldStays, Zenon
  <2> QED
    BY <1>9, <2>2, Zenon
<1>15. cases[4].when => Stays(cases[4].gives)
  BY <1>2, <1>6, <1>8, <1>9, <1>10, Zenon DEF Stays, Other
<1>16. cases[5].when => Stays(cases[5].gives)
  BY <1>8, <1>9, <1>10, <1>11, BitFieldStays, Zenon
<1>17. cases[6].when => Stays(cases[6].gives)
  BY <1>5, <1>8, <1>9, <1>10, <1>11, Zenon
<1>18. cases[7].when => Stays(cases[7].gives)
  BY <1>8, <1>9, <1>10, <1>11, ShiftStays, Zenon
<1>19. cases[8].when => Stays(cases[8].gives)
  BY <1>2, <1>8, <1>9, <1>10, <1>11, RefinedStays, Zenon
<1>20. cases[9].when => Stays(cases[9].gives)
  BY <1>9, MiscStays, Zenon
<1>21. cases[10].when => Stays(cases[10].gives)
  <2> SUFFICES ASSUME cases[10].when
               PROVE  Stays(cases[10].gives)
    OBVIOUS
  <2>1. SignedMultiply(instr, w) \in Named
    BY <1>8, SignedMultiplyNamed, Zenon
  <2> QED
    BY <1>9, <2>1, NamedStay, LabelStays, Zenon
<1>22. cases[11].when /\ ~cases[9].when /\ ~cases[10].when => Stays(cases[11].gives)
  <2> SUFFICES ASSUME cases[11].when, ~cases[9].when, ~cases[10].when
               PROVE  Stays(cases[11].gives)
    OBVIOUS
  <2>1. type # "T_ARM_MISC"
    BY <1>3, <1>8, Zenon
  <2>2. type # "T_ARM_SM"
    BY <1>3, <1>8, Zenon
  <2> QED
    BY <1>9, <2>1, <2>2, ParallelStays, Zenon
<1>23. cases[12].when => Stays(cases[12].gives)
  BY <1>4, <1>8, <1>9, <1>10, <1>11, Zenon
<1>24. Stays(cases[13].gives)
  BY <1>9, InvalidStays, Zenon
<1>25. PICK k \in 1 .. 13 : /\ cases[k].when /\ \A j \in 1 .. k - 1 : ~cases[j].when
                            /\ FirstOf(cases) = cases[k].gives
  <2>1. 13 \in Nat /\ 13 # 0
    BY SMT
  <2> QED
    BY <1>7, <1>8, <2>1, SomeApplies, Zenon
<1>26. k = 11 => ~cases[9].when /\ ~cases[10].when
  <2>1. 9 \in 1 .. 11 - 1 /\ 10 \in 1 .. 11 - 1
    BY SMT
  <2> QED
    BY <1>25, <2>1, Zenon
<1>27. k \in {1, 2, 3, 4, 5, 6, 7, 8, 9, 10, 11, 12, 13}
  BY SMT
<1>28. Stays(cases[k].gives)
  <2>1. CASE k \in {1, 2, 3}
    BY <1>12, <1>13, <1>14, <1>25, <2>1, Zenon
  <2>2. CASE k \in {4, 5, 6}
    BY <1>15, <1>16, <1>17, <1>25, <2>2, Zenon
  <2>3. CASE k \in {7, 8, 9}
    BY <1>18, <1>19, <1>20, <1>25, <2>3, Zenon
  <2>4. CASE k \in {10, 12, 13}
    BY <1>21, <1>23, <1>24, <1>25, <2>4, Zenon
  <2>5. CASE k = 11
    BY <1>22, <1>25, <1>26, <2>5, Zenon
  <2> QED
    BY <1>27, <2>1, <2>2, <2>3, <2>4, <2>5, Zenon
<1> QED
  BY <1>1, <1>25, <1>28, Zenon

(* The cascade before it: nothing but a branch has the label of one.       *)
LEMMA CondStays ==
  ASSUME NEW w \in ArmWord, Op(w) \notin 160 .. 191
  PROVE  Stays(armv7_disas_cond(w))
<1> DEFINE half  == Extra(w) /\ Bits(w, 6, 5) # 0
           sync  == type_sync_instr_lookup[Bits(w, 23, 20) + 1]
           media == Bits(w, 27, 23) = 13 /\ Bit(w, 4) = 1
           op1   == Bits(w, 22, 20)
           op2   == Bits(w, 7, 5)
           one   == type_stack1_instr_lookup[HalfIndex(w)]
           two   == type_stack2_instr_lookup[HalfIndex(w)]
           sat   == type_sat_instr_lookup[Bits(w, 22, 21) + 1]
           word  == IF op1 >= 4 THEN "I_USAT" ELSE "I_SSAT"
           words == IF op1 = 2 THEN "I_SSAT16" ELSE "I_USAT16"
           cases ==
             <<Case(Extra(w) /\ Bit(w, 24) = 0 /\ Bits(w, 6, 5) = 0, Multiply(w)),
               Case(half /\ Bit(w, 24) = 0 /\ Bit(w, 21) = 1, Found(one, "T_ARM_STACK1")),
               Case(half, Found(two, "T_ARM_STACK2")),
               Case(Extra(w) /\ Bit(w, 24) = 1 /\ sync # "I_INVLD", Label(sync, "T_ARM_SYNC")),
               Case(Bits(w, 27, 26) = 1 /\ ~(Bit(w, 25) = 1 /\ Bit(w, 4) = 1), LoadStore(w)),
               Case(Bits(w, 27, 23) = 2 /\ Bit(w, 20) = 0 /\ Bits(w, 7, 4) = 5,
                    Label(sat, "T_ARM_SAT")),
               Case(media /\ op2 = 3 /\ Extend(w) # "I_INVLD", Label(Extend(w), "T_ARM_PUSR")),
               Case(media /\ op1 \in {2, 3, 6, 7} /\ op2 % 2 = 0, Label(word, "T_ARM_PUSR")),
               Case(media /\ op1 \in {2, 6} /\ op2 = 1, Label(words, "T_ARM_PUSR")),
               Case(TRUE, ByType(w))>>
<1>1. armv7_disas_cond(w) = FirstOf(cases)
  BY Zenon DEF armv7_disas_cond
<1>2. DOMAIN cases = 1 .. 10
  BY SMT
<1>3. cases[10].when = TRUE
  BY SMT DEF Case
<1>4. /\ cases[1].gives = Multiply(w) /\ cases[2].gives = Found(one, "T_ARM_STACK1")
      /\ cases[3].gives = Found(two, "T_ARM_STACK2")
      /\ cases[4].gives = Label(sync, "T_ARM_SYNC") /\ cases[5].gives = LoadStore(w)
      /\ cases[6].gives = Label(sat, "T_ARM_SAT")
      /\ cases[7].gives = Label(Extend(w), "T_ARM_PUSR")
      /\ cases[8].gives = Label(word, "T_ARM_PUSR")
      /\ cases[9].gives = Label(words, "T_ARM_PUSR") /\ cases[10].gives = ByType(w)
  BY SMT DEF Case
<1> HIDE DEF cases
<1>5. one \notin Moved /\ two \notin Moved
  <2>1. HalfIndex(w) \in 1 .. 8
    BY BitsAreNumbers, SMT DEF HalfIndex
  <2> QED
    BY <2>1, SmallTables, Zenon DEF Rows
<1>6. sync \notin Moved
  <2>1. Bits(w, 23, 20) + 1 \in 1 .. 16
    BY BitsAreNumbers, SMT
  <2> QED
    BY <2>1, SyncTable, Zenon DEF Rows
<1>7. sat \notin Moved
  <2>1. Bits(w, 22, 21) + 1 \in 1 .. 4
    BY BitsAreNumbers, SMT
  <2> QED
    BY <2>1, SmallTables, Zenon DEF Rows
<1>8. word \notin Moved /\ words \notin Moved
  <2>1. /\ "I_USAT" \notin Moved /\ "I_SSAT" \notin Moved
        /\ "I_SSAT16" \notin Moved /\ "I_USAT16" \notin Moved
    BY SMT DEF Moved
  <2> QED
    BY <2>1, Zenon
<1>9. Extend(w) \notin Moved
  BY ExtendStays
<1> HIDE DEF one, two, sync, sat, word, words
<1>10. \A t \in {"T_ARM_STACK1", "T_ARM_STACK2", "T_ARM_SYNC", "T_ARM_SAT", "T_ARM_PUSR"} :
         t \notin {"T_ARM_MISC", "T_ARM_SM"}
  BY SMT
<1>11. /\ Stays(cases[1].gives) /\ Stays(cases[5].gives) /\ Stays(cases[10].gives)
  BY <1>4, MultiplyStays, LoadStoreStays, ByTypeStays, Zenon
<1>12. Stays(cases[2].gives) /\ Stays(cases[3].gives) /\ Stays(cases[4].gives)
  BY <1>4, <1>5, <1>6, <1>10, LabelStays, Zenon
<1>13. Stays(cases[6].gives) /\ Stays(cases[7].gives)
  BY <1>4, <1>7, <1>9, <1>10, LabelStays, Zenon
<1>14. Stays(cases[8].gives) /\ Stays(cases[9].gives)
  BY <1>4, <1>8, <1>10, LabelStays, Zenon
<1>15. 10 \in Nat /\ 10 # 0 /\ \A k \in 1 .. 10 : k \in {1, 2, 3, 4, 5, 6, 7, 8, 9, 10}
  BY SMT
<1>16. \A k \in 1 .. 10 : Stays(cases[k].gives)
  <2> SUFFICES ASSUME NEW k \in 1 .. 10
               PROVE  Stays(cases[k].gives)
    OBVIOUS
  <2>1. CASE k \in {1, 2, 3, 4, 5}
    BY <1>11, <1>12, <2>1, Zenon
  <2>2. CASE k \in {6, 7, 8, 9, 10}
    BY <1>11, <1>13, <1>14, <2>2, Zenon
  <2>3. k \in {1, 2, 3, 4, 5} \/ k \in {6, 7, 8, 9, 10}
    BY SMT
  <2> QED
    BY <2>1, <2>2, <2>3, Zenon
<1> HIDE DEF half, media, op1, op2
<1>17. PICK k \in 1 .. 10 : cases[k].when /\ FirstOf(cases) = cases[k].gives
  <2>1. cases[10].when
    BY <1>3, Zenon
  <2>2. 10 \in Nat /\ 10 # 0
    BY SMT
  <2> QED
    BY <1>2, <2>1, <2>2, SomeApplies, Zenon
<1>18. FirstOf(cases) = cases[k].gives
  BY <1>17, Zenon
<1>19. Stays(cases[k].gives)
  BY <1>16, Zenon
<1> QED
  BY <1>1, <1>18, <1>19, Zenon

(* A branch passes all of it.                                              *)
LEMMA BranchByType ==
  ASSUME NEW w \in ArmWord, Op(w) \in 160 .. 191
  PROVE  ByType(w) = [Label(armv7_instr_labels[Op(w) + 1], "T_ARM_BRNCHSC") EXCEPT
                        !.imm = BranchImm(w)]
<1> DEFINE op      == Op(w)
           instr   == armv7_instr_labels[op + 1]
           type    == armv7_instr_types[op]
           imm     == IF instr = "I_SVC" THEN Bits(w, 23, 0) ELSE BranchImm(w)
           immediate == [Label(instr, type) EXCEPT !.imm = imm]
           address == instr \in {"I_ADD", "I_SUB"} /\ Bit(w, 20) = 0 /\ Rn(w) = PC
           coproc  == IF Bit(w, 4) = 0 THEN "I_CDP" ELSE instr
           cases   == ByTypeCases(w, op, instr, type, immediate, address, coproc)
<1>1. ByType(w) = FirstOf(cases)
  BY Zenon DEF ByType, ByTypeCases, Op
<1>2. type = "T_ARM_BRNCHSC"
  BY TypeTable, SMT
<1>3. instr \in {"I_B", "I_BL"}
  <2>1. op \in 160 .. 175 \/ op \in 176 .. 191
    BY SMT
  <2> QED
    BY <2>1, LabelTable
<1>4. instr # "I_SVC"
  BY <1>3, SMT
<1>5. immediate = [Label(instr, "T_ARM_BRNCHSC") EXCEPT !.imm = BranchImm(w)]
  BY <1>2, <1>4, Zenon
<1> HIDE DEF instr, type, immediate, address, coproc, op
<1>6. DOMAIN cases = 1 .. 13
  BY SMT DEF ByTypeCases
<1>7. /\ cases[1].when = (type \in {"T_ARM_ARITH_SHIFT", "T_ARM_MOV_IMM", "T_ARM_CMP_OP",
                                    "T_ARM_CMP_IMM", "T_ARM_UDF"})
      /\ cases[2].when = (type = "T_ARM_ARITH_IMM") /\ cases[3].when = (type = "T_ARM_BITS")
      /\ cases[4].when = (type = "T_ARM_BRNCHSC") /\ cases[4].gives = immediate
  BY SMT DEF ByTypeCases, Case
<1> HIDE DEF cases
<1>8. /\ "T_ARM_BRNCHSC" \notin {"T_ARM_ARITH_SHIFT", "T_ARM_MOV_IMM", "T_ARM_CMP_OP",
                                 "T_ARM_CMP_IMM", "T_ARM_UDF"}
      /\ "T_ARM_BRNCHSC" # "T_ARM_ARITH_IMM" /\ "T_ARM_BRNCHSC" # "T_ARM_BITS"
  BY SMT
<1>9. ~cases[1].when /\ ~cases[2].when /\ ~cases[3].when /\ cases[4].when
  BY <1>2, <1>7, <1>8, Zenon
<1>10. 13 \in Nat /\ 4 \in 1 .. 13 /\ \A k \in 1 .. 4 - 1 : k \in {1, 2, 3}
  BY SMT
<1>11. \A k \in 1 .. 4 - 1 : ~cases[k].when
  BY <1>9, <1>10, Zenon
<1>12. FirstOf(cases) = cases[4].gives
  BY <1>6, <1>9, <1>10, <1>11, FirstThatApplies, Zenon
<1> QED
  BY <1>1, <1>5, <1>7, <1>12, Zenon DEF instr, op

LEMMA BranchDecoded ==
  ASSUME NEW w \in ArmWord, Op(w) \in 160 .. 191
  PROVE  armv7_disas_cond(w) = ByType(w)
<1> DEFINE half  == Extra(w) /\ Bits(w, 6, 5) # 0
           sync  == type_sync_instr_lookup[Bits(w, 23, 20) + 1]
           media == Bits(w, 27, 23) = 13 /\ Bit(w, 4) = 1
           op1   == Bits(w, 22, 20)
           op2   == Bits(w, 7, 5)
           word  == IF op1 >= 4 THEN "I_USAT" ELSE "I_SSAT"
           words == IF op1 = 2 THEN "I_SSAT16" ELSE "I_USAT16"
           cases ==
             <<Case(Extra(w) /\ Bit(w, 24) = 0 /\ Bits(w, 6, 5) = 0, Multiply(w)),
               Case(half /\ Bit(w, 24) = 0 /\ Bit(w, 21) = 1,
                    Found(type_stack1_instr_lookup[HalfIndex(w)], "T_ARM_STACK1")),
               Case(half, Found(type_stack2_instr_lookup[HalfIndex(w)], "T_ARM_STACK2")),
               Case(Extra(w) /\ Bit(w, 24) = 1 /\ sync # "I_INVLD", Label(sync, "T_ARM_SYNC")),
               Case(Bits(w, 27, 26) = 1 /\ ~(Bit(w, 25) = 1 /\ Bit(w, 4) = 1), LoadStore(w)),
               Case(Bits(w, 27, 23) = 2 /\ Bit(w, 20) = 0 /\ Bits(w, 7, 4) = 5,
                    Label(type_sat_instr_lookup[Bits(w, 22, 21) + 1], "T_ARM_SAT")),
               Case(media /\ op2 = 3 /\ Extend(w) # "I_INVLD", Label(Extend(w), "T_ARM_PUSR")),
               Case(media /\ op1 \in {2, 3, 6, 7} /\ op2 % 2 = 0, Label(word, "T_ARM_PUSR")),
               Case(media /\ op1 \in {2, 6} /\ op2 = 1, Label(words, "T_ARM_PUSR")),
               Case(TRUE, ByType(w))>>
<1>1. armv7_disas_cond(w) = FirstOf(cases)
  BY Zenon DEF armv7_disas_cond
<1>2. DOMAIN cases = 1 .. 10
  BY SMT
<1>3. ~Extra(w)
  <2>1. Bits(w, 27, 25) # 0
    BY TopBits, SMT
  <2> QED
    BY <2>1, Zenon DEF Extra
<1>4. Bits(w, 27, 26) # 1 /\ Bits(w, 27, 23) # 2 /\ Bits(w, 27, 23) # 13
  BY TopBits, SMT
<1>5. /\ cases[1].when = (Extra(w) /\ Bit(w, 24) = 0 /\ Bits(w, 6, 5) = 0)
      /\ cases[2].when = (half /\ Bit(w, 24) = 0 /\ Bit(w, 21) = 1)
      /\ cases[3].when = half
      /\ cases[4].when = (Extra(w) /\ Bit(w, 24) = 1 /\ sync # "I_INVLD")
      /\ cases[5].when = (Bits(w, 27, 26) = 1 /\ ~(Bit(w, 25) = 1 /\ Bit(w, 4) = 1))
  BY SMT DEF Case
<1>6. /\ cases[6].when = (Bits(w, 27, 23) = 2 /\ Bit(w, 20) = 0 /\ Bits(w, 7, 4) = 5)
      /\ cases[7].when = (media /\ op2 = 3 /\ Extend(w) # "I_INVLD")
      /\ cases[8].when = (media /\ op1 \in {2, 3, 6, 7} /\ op2 % 2 = 0)
      /\ cases[9].when = (media /\ op1 \in {2, 6} /\ op2 = 1)
      /\ cases[10].when = TRUE /\ cases[10].gives = ByType(w)
  BY SMT DEF Case
<1> HIDE DEF cases
<1>7. /\ ~cases[1].when /\ ~cases[2].when /\ ~cases[3].when /\ ~cases[4].when /\ ~cases[5].when
      /\ ~cases[6].when /\ ~cases[7].when /\ ~cases[8].when /\ ~cases[9].when /\ cases[10].when
  BY <1>3, <1>4, <1>5, <1>6, Zenon
<1>8. /\ 10 \in Nat /\ 10 \in 1 .. 10
      /\ \A k \in 1 .. 10 - 1 : k \in {1, 2, 3, 4, 5, 6, 7, 8, 9}
  BY SMT
<1>9. \A k \in 1 .. 10 - 1 : ~cases[k].when
  BY <1>7, <1>8, Zenon
<1>10. FirstOf(cases) = cases[10].gives
  BY <1>2, <1>7, <1>8, <1>9, FirstThatApplies, Zenon
<1> QED
  BY <1>1, <1>6, <1>10, Zenon

-----------------------------------------------------------------------------
(***************************************************************************)
(* What the decoder says of any word.                                      *)
(***************************************************************************)
LEMMA OffsetIsNumber ==
  ASSUME NEW w \in ArmWord
  PROVE  SignExtend(Bits(w, 23, 0)) \in Int /\ BranchImm(w) \in Int
<1>1. Bits(w, 23, 0) \in Int
  BY BitsAreNumbers, LargePowers, SMT
<1>2. OffsetSign \in Int /\ OffsetSpace \in Int
  BY SMT DEF OffsetSign, OffsetSpace
<1>3. SignExtend(Bits(w, 23, 0)) \in Int
  BY <1>1, <1>2, SMT DEF SignExtend
<1> QED
  BY <1>3, SMT DEF BranchImm

(* A conditional word with 101 in bits 27-25 is decoded as the branch it is.*)
LEMMA BranchIsDecoded ==
  ASSUME NEW w \in ArmWord, IsBranch(w)
  PROVE  /\ Op(w) \in 160 .. 191
         /\ darm_armv7_disasm(w) = [Label(armv7_instr_labels[Op(w) + 1], "T_ARM_BRNCHSC") EXCEPT
                                      !.imm = BranchImm(w)]
<1>1. Op(w) \in 0 .. 255 /\ Op(w) \div 32 = 5
  BY TopBits, Zenon DEF IsBranch
<1>2. Op(w) \in 160 .. 191
  BY <1>1, SMT
<1>3. w.cond # C_UNCOND
  BY DEF IsBranch
<1> QED
  BY <1>2, <1>3, BranchDecoded, BranchByType, Zenon DEF darm_armv7_disasm

(* Any other word is decoded as something that stays where it is.          *)
LEMMA OthersStay ==
  ASSUME NEW w \in ArmWord, ~IsBranch(w)
  PROVE  Stays(darm_armv7_disasm(w))
<1>1. CASE w.cond = C_UNCOND
  BY <1>1, UncondStays, Zenon DEF darm_armv7_disasm
<1>2. CASE w.cond # C_UNCOND
  <2>1. Op(w) \in 0 .. 255 /\ Op(w) \div 32 # 5
    BY <1>2, TopBits, Zenon DEF IsBranch
  <2>2. Op(w) \notin 160 .. 191
    BY <2>1, SMT
  <2> QED
    BY <1>2, <2>2, CondStays, Zenon DEF darm_armv7_disasm
<1> QED
  BY <1>1, <1>2

LEMMA BranchLabel ==
  ASSUME NEW w \in ArmWord, IsBranch(w), NEW d, d = darm_armv7_disasm(w)
  PROVE  /\ d.ret = 0 /\ d.instr_type = "T_ARM_BRNCHSC" /\ d.imm = BranchImm(w)
         /\ \/ d.instr = "I_B" /\ Bits(w, 27, 24) = 10
            \/ d.instr = "I_BL" /\ Bits(w, 27, 24) = 11
<1> DEFINE op    == Op(w)
           label == armv7_instr_labels[op + 1]
<1>1. op \in 160 .. 191 /\ d = [Label(label, "T_ARM_BRNCHSC") EXCEPT !.imm = BranchImm(w)]
  BY BranchIsDecoded
<1>2. Bits(w, 27, 24) = op \div 16
  BY TopBits
<1> HIDE DEF op
<1>3. \/ label = "I_B" /\ op \div 16 = 10
      \/ label = "I_BL" /\ op \div 16 = 11
  <2>1. \/ op \in 160 .. 175 /\ op \div 16 = 10
        \/ op \in 176 .. 191 /\ op \div 16 = 11
    BY <1>1, SMT
  <2> QED
    BY <2>1, LabelTable
<1> HIDE DEF label
<1>4. d.ret = 0 /\ d.instr_type = "T_ARM_BRNCHSC" /\ d.imm = BranchImm(w) /\ d.instr = label
  BY <1>1, SMT DEF Label
<1> QED
  BY <1>2, <1>3, <1>4, Zenon

LEMMA BranchesAreRelocatable ==
  ASSUME NEW w \in ArmWord
  PROVE  Relocatable(w) <=> IsBranch(w)
<1> DEFINE d == darm_armv7_disasm(w)
<1>1. Relocatable(w) <=> d.ret = 0 /\ d.instr \in Moved
  BY Zenon DEF Relocatable, Encodable, Moved
<1> HIDE DEF d
<1>2. CASE IsBranch(w)
  <2>1. d.ret = 0 /\ d.instr \in {"I_B", "I_BL"}
    BY <1>2, BranchLabel, Zenon DEF d
  <2> QED
    BY <1>1, <1>2, <2>1, Zenon DEF Moved
<1>3. CASE ~IsBranch(w)
  <2>1. Stays(d)
    BY <1>3, OthersStay, Zenon DEF d
  <2> QED
    BY <1>1, <1>3, <2>1, Zenon DEF Stays
<1> QED
  BY <1>2, <1>3

(* The word stored for a branch keeps what says which branch it is.        *)
LEMMA RelocatedBranch ==
  ASSUME NEW w \in ArmWord, IsBranch(w), NEW src \in WordAddr, NEW dst \in WordAddr
  PROVE  /\ Relocated(w, src, dst) \in ArmWord
         /\ Relocated(w, src, dst).cond = w.cond
         /\ Bits(Relocated(w, src, dst), 27, 24) = Bits(w, 27, 24)
<1> DEFINE d   == darm_armv7_disasm(w)
           imm == d.imm + 4 * (src - dst)
           top == IF d.instr = "I_B" THEN 10 ELSE 11
           m   == 2^24
           r   == imm % m
           u   == Relocated(w, src, dst)
<1>1. u = [cond |-> w.cond, body |-> top * m + r]
  BY Zenon DEF Relocated, darm_armv7_update
<1>2. d.imm = BranchImm(w) /\ top = Bits(w, 27, 24)
  <2>1. d.imm = BranchImm(w) /\ \/ d.instr = "I_B" /\ Bits(w, 27, 24) = 10
                                \/ d.instr = "I_BL" /\ Bits(w, 27, 24) = 11
    BY BranchLabel, Zenon
  <2>2. "I_B" # "I_BL"
    BY SMT
  <2> QED
    BY <2>1, <2>2, Zenon
<1>3. top \in {10, 11}
  BY Zenon
<1> HIDE DEF d, top
<1>4. imm \in Int
  <2>1. d.imm \in Int
    BY <1>2, OffsetIsNumber
  <2>2. src \in Int /\ dst \in Int
    BY SMT DEF WordAddr
  <2> QED
    BY <2>1, <2>2, SMT
<1>5. m \in Nat \ {0}
  BY LargePowers, Zenon
<1>6. 2^28 = 16 * m /\ 27 - 24 + 1 = 4 /\ 2^4 = 16
  BY LargePowers, SMT
<1> HIDE DEF imm, m
<1>7. r \in 0 .. m - 1
  BY <1>4, <1>5, SMT
<1> HIDE DEF r, u
<1>8. top * m + r \in 0 .. (16 * m) - 1
  BY <1>3, <1>5, <1>7, SMT
<1>9. u.cond = w.cond /\ u.body = top * m + r
  BY <1>1, SMT
<1>10. w.cond \in 0 .. 15
  BY WordIsNumber
<1>11. u \in ArmWord
  BY <1>1, <1>6, <1>8, <1>10, Zenon DEF ArmWord
<1>12. (top * m + r) \div m = top
  <2>1. top \in Int /\ top * m + r \in Int /\ top * m + r = m * top + r
    BY <1>3, <1>5, <1>7, SMT
  <2> QED
    BY <1>5, <1>7, <2>1, Quotient, Zenon
<1>13. top % 16 = top
  BY <1>3, SMT
<1>14. Bits(u, 27, 24) = top
  BY <1>6, <1>9, <1>12, <1>13, Zenon DEF Bits, m
<1> QED
  BY <1>2, <1>9, <1>11, <1>14, Zenon DEF u

-----------------------------------------------------------------------------
(***************************************************************************)
(* The inductive invariant: until it is asked the word is the one that was *)
(* found, at the place where it was; afterwards OnlyBranchesMove compares  *)
(* the two.                                                                *)
(***************************************************************************)
RelocTypes ==
  /\ opcode \in ArmWord
  /\ place \in WordAddr
  /\ origin \in [opcode : ArmWord, place : WordAddr]
  /\ relocated \in {NotAsked, 0, -1}

RelocInv ==
  /\ RelocTypes
  /\ relocated = NotAsked => opcode = origin.opcode /\ place = origin.place
  /\ OnlyBranchesMove

LEMMA RelocInitially == RelocInit => RelocInv
<1> SUFFICES ASSUME RelocInit
             PROVE  RelocInv
  OBVIOUS
<1>1. opcode \in ArmWord /\ place \in WordAddr /\ relocated = NotAsked
  BY RelocationAssumption DEF RelocInit
<1>2. origin = [opcode |-> opcode, place |-> place]
  BY DEF RelocInit
<1> QED
  BY <1>1, <1>2 DEF RelocInv, RelocTypes, OnlyBranchesMove

LEMMA RelocationStep ==
  ASSUME RelocInv, NEW dst \in Place, relocate_instruction(dst)
  PROVE  RelocInv'
<1>1. /\ opcode \in ArmWord /\ place \in WordAddr /\ relocated = NotAsked
      /\ origin \in [opcode : ArmWord, place : WordAddr] /\ opcode = origin.opcode
  BY DEF RelocInv, RelocTypes, relocate_instruction
<1>2. dst \in WordAddr /\ place' = dst /\ origin' = origin
  BY RelocationAssumption DEF relocate_instruction
<1>3. 0 # NotAsked /\ -1 # NotAsked /\ 0 # -1
  BY SMT DEF NotAsked
<1>4. CASE Relocatable(opcode)
  <2>1. opcode' = Relocated(opcode, place, dst) /\ relocated' = 0
    BY <1>4 DEF relocate_instruction
  <2>2. IsBranch(opcode)
    BY <1>1, <1>4, BranchesAreRelocatable
  <2>3. /\ opcode' \in ArmWord /\ opcode'.cond = opcode.cond
        /\ Bits(opcode', 27, 24) = Bits(opcode, 27, 24)
    BY <1>1, <1>2, <2>1, <2>2, RelocatedBranch
  <2>4. OnlyBranchesMove'
    BY <1>1, <1>2, <2>1, <2>2, <2>3 DEF OnlyBranchesMove
  <2> QED
    BY <1>1, <1>2, <1>3, <2>1, <2>3, <2>4 DEF RelocInv, RelocTypes
<1>5. CASE ~Relocatable(opcode)
  <2>1. opcode' = opcode /\ relocated' = -1
    BY <1>5 DEF relocate_instruction
  <2>2. ~IsBranch(opcode)
    BY <1>1, <1>5, BranchesAreRelocatable
  <2>3. OnlyBranchesMove'
    BY <1>1, <1>2, <1>3, <2>1, <2>2 DEF OnlyBranchesMove
  <2> QED
    BY <1>1, <1>2, <1>3, <2>1, <2>3 DEF RelocInv, RelocTypes
<1> QED
  BY <1>4, <1>5

(* relocate_instruction (reloc.c:64-90) keeps that invariant: what it finds *)
(* is decoded by the whole of armv7_disas_cond and armv7_disas_uncond.      *)
THEOREM RelocationInvariant == RelocSpec => []RelocInv
<1>1. RelocInv /\ [RelocNext]_relocVars => RelocInv'
  <2> SUFFICES ASSUME RelocInv, [RelocNext]_relocVars
               PROVE  RelocInv'
    OBVIOUS
  <2>1. CASE RelocNext
    BY <2>1, RelocationStep DEF RelocNext
  <2>2. CASE UNCHANGED relocVars
    BY <2>2 DEF relocVars, RelocInv, RelocTypes, OnlyBranchesMove
  <2> QED
    BY <2>1, <2>2
<1> QED
  BY <1>1, RelocInitially, PTL DEF RelocSpec

(* A relocation succeeds on B and BL alone, for every word the decoder can *)
(* be given (armv7.c:201-881 read by reloc.c:64-90).                       *)
THEOREM OnlyBranchesAreMoved == RelocSpec => []OnlyBranchesMove
<1>1. RelocInv => OnlyBranchesMove
  BY DEF RelocInv
<1> QED
  BY <1>1, RelocationInvariant, PTL

(* The decoded immediate of a branch is what the processor adds to the     *)
(* program counter, for every word and address (armv7.c:513-529).          *)
THEOREM BranchOffsetsAreDecoded == RelocSpec => []BranchOffsetDecoded
<1>1. RelocInv => BranchOffsetDecoded
  <2> SUFFICES ASSUME RelocInv, IsBranch(opcode)
               PROVE  Target(opcode, place)
                        = (place + 2 + darm_armv7_disasm(opcode).imm \div 4) % AddrSpace
    BY DEF BranchOffsetDecoded
  <2> DEFINE off == SignExtend(Bits(opcode, 23, 0))
  <2>1. opcode \in ArmWord
    BY DEF RelocInv, RelocTypes
  <2>2. off \in Int
    BY <2>1, OffsetIsNumber
  <2>3. Target(opcode, place) = (place + 2 + off) % AddrSpace
    BY DEF Target, BranchTarget
  <2>4. darm_armv7_disasm(opcode).imm = 4 * off
    BY <2>1, BranchLabel, Zenon DEF BranchImm
  <2> HIDE DEF off
  <2>5. (4 * off) \div 4 = off
    BY <2>2, SMT
  <2> QED
    BY <2>3, <2>4, <2>5, Zenon
<1> QED
  BY <1>1, RelocationInvariant, PTL

(* No word of the two encoding types whose cases may fall through to the   *)
(* parallel additions is named by their table (armv7.c:640-837).           *)
THEOREM NothingFallsThrough == RelocSpec => []NoFallThrough
<1>1. RelocInv => NoFallThrough
  <2> DEFINE d == darm_armv7_disasm(opcode)
  <2> SUFFICES ASSUME RelocInv, d.instr_type \in {"T_ARM_MISC", "T_ARM_SM"}
               PROVE  d.instr \notin {type_pas_instr_lookup[k] :
                                        k \in DOMAIN type_pas_instr_lookup}
    BY Zenon DEF NoFallThrough
  <2>1. opcode \in ArmWord
    BY DEF RelocInv, RelocTypes
  <2>2. ~IsBranch(opcode)
    <3>1. "T_ARM_BRNCHSC" \notin {"T_ARM_MISC", "T_ARM_SM"}
      BY SMT
    <3> QED
      BY <2>1, <3>1, BranchLabel, Zenon
  <2>3. d.instr \in Named
    BY <2>1, <2>2, OthersStay, Zenon DEF Stays
  <2> HIDE DEF d
  <2>4. DOMAIN type_pas_instr_lookup = 1 .. 64
    BY ParallelTable, RowsAreSeq
  <2>5. \A k \in 1 .. 64 : type_pas_instr_lookup[k] \notin Named
    BY ParallelTable, Zenon DEF Rows
  <2> QED
    BY <2>3, <2>4, <2>5, Zenon
<1> QED
  BY <1>1, RelocationInvariant, PTL
=============================================================================
